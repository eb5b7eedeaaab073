----------------------------- MODULE WriteBehind -----------------------------
(***************************************************************************)
(* The analytics write-behind buffer: bucket writes and deletes collapse   *)
(* per field, one flush at a time sends them, a failed flush is merged     *)
(* back under anything newer, and shutdown flushes what is left.           *)
(*                                                                         *)
(* Source: internal/analytics/writebehind.go and scheduler.go, over the    *)
(* PostgreSQL cache of internal/kv/kv.go.                                  *)
(*                                                                         *)
(* One hash key; a field is a bucket stamp.  Every write or delete of a    *)
(* field carries the next version, so that what is stored can be compared  *)
(* with what was asked.  TTLs and whole-key values (one field that is      *)
(* never deleted) are left out.                                            *)
(***************************************************************************)
EXTENDS Integers, FiniteSets, FiniteSetsExt

CONSTANTS
    MaxWrites,      \* bound on queued writes and deletes
    MaxFields,      \* maxFields: buffered fields kept after a failed flush
    MaxUpsets       \* bound on failed store calls

Fields == 1 .. MaxFields + 1
FailThreshold == 3

VARIABLES
    asked,      \* per field, the version last queued
    stored,     \* per field, the version of what the store holds
    pendingHash, \* version per field to write, and fields to delete
    batch,      \* the flush in flight
    flushAgain,
    failures,   \* consecutiveFailures
    muted,      \* mutedUntil has not passed
    phase,      \* "running", "stopped" (Stop returned), "waiting", "flushing" (FlushNow), "down"
    attempts,   \* FlushNow's attempts
    capped,     \* history: fields dropped from an over-full buffer
    writes,
    upsets

bufferVars == <<pendingHash, batch, flushAgain>>
transportVars == <<failures, muted>>
writeBehindVars == <<asked, stored, bufferVars, transportVars, phase, attempts, capped, writes, upsets>>

Empty == [entries |-> [f \in Fields |-> 0], stale |-> [f \in Fields |-> 0]]
NoBatch == [at |-> "none", w |-> Empty]

Written(w) == {f \in Fields : w.entries[f] # 0}
Deleted(w) == {f \in Fields : w.stale[f] # 0}
hasPending == pendingHash # Empty

WriteBehindInit ==
    /\ asked = [f \in Fields |-> 0] /\ stored = [f \in Fields |-> 0]
    /\ pendingHash = Empty /\ batch = NoBatch /\ flushAgain = FALSE
    /\ failures = 0 /\ muted = FALSE /\ phase = "running" /\ attempts = 0
    /\ capped = {} /\ writes = 0 /\ upsets = 0

-----------------------------------------------------------------------------
(* Queueing: a re-add cancels a pending delete, a delete a pending write   *)

NextWrite == writes < MaxWrites /\ writes' = writes + 1

queueHashField(f) ==
    /\ phase = "running" /\ NextWrite
    /\ asked' = [asked EXCEPT ![f] = writes']
    /\ pendingHash' = [entries |-> [pendingHash.entries EXCEPT ![f] = writes'],
                       stale |-> [pendingHash.stale EXCEPT ![f] = 0]]
    /\ UNCHANGED <<stored, batch, flushAgain, transportVars, phase, attempts, capped, upsets>>

queueHashDrop(f) ==
    /\ phase = "running" /\ asked[f] # 0 /\ NextWrite
    /\ asked' = [asked EXCEPT ![f] = writes']
    /\ pendingHash' = [entries |-> [pendingHash.entries EXCEPT ![f] = 0],
                       stale |-> [pendingHash.stale EXCEPT ![f] = writes']]
    /\ UNCHANGED <<stored, batch, flushAgain, transportVars, phase, attempts, capped, upsets>>

-----------------------------------------------------------------------------
(* Flushing                                                                *)

\* beginFlushLocked: the buffer is detached, or a re-run noted.
detach == batch' = [at |-> "hset", w |-> pendingHash] /\ pendingHash' = Empty /\ flushAgain' = FALSE

\* flush, voidFlush and the retry timer of every 60 s.
flush ==
    /\ phase = "running"
    /\ IF batch # NoBatch THEN flushAgain' = TRUE /\ UNCHANGED <<pendingHash, batch>>
       ELSE hasPending /\ ~muted /\ detach
    /\ UNCHANGED <<asked, stored, transportVars, phase, attempts, capped, writes, upsets>>

\* The command of the batch that is sent next; each is one transaction.
HSet == [f \in Fields |-> IF f \in Written(batch.w) THEN batch.w.entries[f] ELSE stored[f]]
HDel == [f \in Fields |-> IF f \in Deleted(batch.w) THEN batch.w.stale[f] ELSE stored[f]]

execHSet ==
    /\ batch.at = "hset" /\ batch' = [batch EXCEPT !.at = "hdel"] /\ stored' = HSet
    /\ UNCHANGED <<asked, pendingHash, flushAgain, transportVars, phase, attempts, capped, writes, upsets>>

execHDel ==
    /\ batch.at = "hdel" /\ batch' = [batch EXCEPT !.at = "ok"] /\ stored' = HDel
    /\ failures' = 0
    /\ UNCHANGED <<asked, pendingHash, flushAgain, muted, phase, attempts, capped, writes, upsets>>

\* cacheCall fails; the command may have been committed all the same.
execFails ==
    /\ batch.at \in {"hset", "hdel"} /\ upsets < MaxUpsets /\ upsets' = upsets + 1
    /\ \/ UNCHANGED stored
       \/ stored' = IF batch.at = "hset" THEN HSet ELSE HDel
    /\ batch' = [batch EXCEPT !.at = "failed"]
    /\ IF failures + 1 >= FailThreshold THEN failures' = 0 /\ muted' = TRUE
       ELSE failures' = failures + 1 /\ UNCHANGED muted
    /\ UNCHANGED <<asked, pendingHash, flushAgain, phase, attempts, capped, writes>>

\* Mutation: a failed batch is dropped when its key has been written since.
Mut_DropOld(old, cur) == IF cur = Empty THEN old ELSE cur

\* requeueFailedWritesLocked: anything queued since takes precedence.
requeued(old, cur) ==
    [entries |-> [f \in Fields |-> IF cur.entries[f] # 0 \/ cur.stale[f] # 0 THEN cur.entries[f]
                                   ELSE old.entries[f]],
     stale |-> [f \in Fields |-> IF cur.entries[f] # 0 \/ cur.stale[f] # 0 THEN cur.stale[f]
                                 ELSE old.stale[f]]]

\* The oldest buckets past maxFields are dropped.
overflow(w) ==
    {f \in Written(w) : Cardinality({g \in Written(w) : g >= f}) > MaxFields}

settleFailed ==
    LET w == requeued(batch.w, pendingHash)
        drop == overflow(w)
    IN  /\ pendingHash' = [w EXCEPT !.entries = [f \in Fields |-> IF f \in drop THEN 0 ELSE w.entries[f]]]
        /\ capped' = capped \cup drop

\* runFlush ends: settled, and a flush asked for meanwhile runs next.
runFlushEnds ==
    /\ batch.at \in {"ok", "failed"}
    /\ IF batch.at = "failed" THEN settleFailed ELSE UNCHANGED <<pendingHash, capped>>
    /\ batch' = NoBatch
    /\ phase' = IF phase = "flushing" /\ pendingHash' = Empty THEN "down" ELSE phase
    /\ UNCHANGED <<asked, stored, flushAgain, transportVars, attempts, writes, upsets>>

\* The re-run noted meanwhile, unless the service has stopped or is muted.
flushAgainRuns ==
    /\ batch = NoBatch /\ flushAgain /\ phase = "running"
    /\ IF hasPending /\ ~muted THEN detach
       ELSE flushAgain' = FALSE /\ UNCHANGED <<pendingHash, batch>>
    /\ UNCHANGED <<asked, stored, transportVars, phase, attempts, capped, writes, upsets>>

MuteEnds ==
    /\ muted /\ muted' = FALSE
    /\ UNCHANGED <<asked, stored, bufferVars, failures, phase, attempts, capped, writes, upsets>>

-----------------------------------------------------------------------------
(* Shutdown                                                                *)

\* Stop: timers off, goroutines awaited; what is buffered stays for FlushNow.
StopCapture ==
    /\ phase = "running" /\ phase' = "stopped"
    /\ UNCHANGED <<asked, stored, bufferVars, transportVars, attempts, capped, writes, upsets>>

\* FlushNow waits for a flush in flight, which costs it one of its four attempts.
FlushNowWaits ==
    /\ phase = "stopped" /\ batch # NoBatch
    /\ phase' = "waiting" /\ attempts' = attempts + 1
    /\ UNCHANGED <<asked, stored, bufferVars, transportVars, capped, writes, upsets>>

\* The next attempt of FlushNow, which ignores the cooldown, or its return.
FlushNow ==
    /\ phase \in {"stopped", "waiting", "flushing"} /\ batch = NoBatch
    /\ IF hasPending /\ attempts < 4
       THEN detach /\ phase' = "flushing" /\ attempts' = attempts + 1
       ELSE phase' = "down" /\ UNCHANGED <<bufferVars, attempts>>
    /\ UNCHANGED <<asked, stored, transportVars, capped, writes, upsets>>

\* The shutdown deadline passes while FlushNow waits or between two attempts.
FlushNowExpires ==
    /\ \/ phase = "waiting" /\ batch # NoBatch
       \/ phase = "flushing" /\ batch = NoBatch
    /\ phase' = "down" /\ attempts' = 4
    /\ UNCHANGED <<asked, stored, bufferVars, transportVars, capped, writes, upsets>>

WriteBehindNext ==
    \/ \E f \in Fields : queueHashField(f) \/ queueHashDrop(f)
    \/ flush \/ execHSet \/ execHDel \/ execFails \/ runFlushEnds \/ flushAgainRuns \/ MuteEnds
    \/ StopCapture \/ FlushNowWaits \/ FlushNow \/ FlushNowExpires

WriteBehindSpec == WriteBehindInit /\ [][WriteBehindNext]_writeBehindVars

-----------------------------------------------------------------------------
(* Properties                                                              *)

Mentions(w, f) == w.entries[f] # 0 \/ w.stale[f] # 0

\* A field in no buffer is stored as last asked: however flushes failed after a
\* commit, were merged back or raced new writes, none is lost or undone.
NoWriteLost ==
    \A f \in Fields \ capped :
        (~Mentions(pendingHash, f) /\ ~Mentions(batch.w, f)) => stored[f] = asked[f]

\* A clean shutdown leaves nothing behind: unless FlushNow ran out of attempts or
\* of time, every bucket is stored as last asked, whatever cooldown was running
\* and whatever flush was in flight when the service stopped.
ShutdownFlushes ==
    (phase = "down" /\ attempts < 4) => \A f \in Fields \ capped : stored[f] = asked[f]

\* No buffered write is lost, neither while running nor at shutdown.
WritesKept == NoWriteLost /\ ShutdownFlushes
-----------------------------------------------------------------------------
(* WritesKept holds by the parts below                                     *)

Buffers == [entries : [Fields -> Nat], stale : [Fields -> Nat]]

WriteBehindTypeOK ==
    /\ asked \in [Fields -> Nat] /\ stored \in [Fields -> Nat] /\ capped \subseteq Fields
    /\ pendingHash \in Buffers /\ batch \in [at : {"none", "hset", "hdel", "ok", "failed"}, w : Buffers]
    /\ writes \in Nat /\ attempts \in Nat

BatchEnds == batch.at = "none" => batch = NoBatch

\* No field is both written and deleted.
OneSide(w) == \A f \in Fields : w.entries[f] = 0 \/ w.stale[f] = 0

Version(w, f) == IF w.entries[f] # 0 THEN w.entries[f] ELSE w.stale[f]

\* A buffered field is buffered as last asked, in the flush in flight when it is only there.
NewestBuffered ==
    \A f \in Fields \ capped :
        /\ Mentions(pendingHash, f) => Version(pendingHash, f) = asked[f]
        /\ ~Mentions(pendingHash, f) /\ Mentions(batch.w, f) => Version(batch.w, f) = asked[f]

\* What the flush in flight has sent is what is stored.
SentIsStored ==
    \A f \in Fields :
        /\ batch.at \in {"hdel", "ok"} /\ batch.w.entries[f] # 0 => stored[f] = batch.w.entries[f]
        /\ batch.at = "ok" /\ batch.w.stale[f] # 0 => stored[f] = batch.w.stale[f]

DownIsEmpty == phase = "down" /\ attempts < 4 => pendingHash = Empty /\ batch = NoBatch

WriteBehindIInv ==
    /\ WriteBehindTypeOK /\ BatchEnds /\ OneSide(pendingHash) /\ OneSide(batch.w)
    /\ NewestBuffered /\ NoWriteLost /\ SentIsStored /\ DownIsEmpty
=============================================================================
