----------------------------- MODULE WorkerPool -----------------------------
(***************************************************************************)
(* The analytics worker pool: a bounded queue, at most Concurrency slots,  *)
(* and a deadline per job whose timer callback may already be on its way   *)
(* when the job finishes and the slot is given to the next one.            *)
(*                                                                         *)
(* Source: internal/fairvalue/workers.go.                                  *)
(***************************************************************************)
EXTENDS Integers, Sequences, SequencesExt, FiniteSets

CONSTANTS
    Callers,        \* jobs submitted, one per caller
    Concurrency,    \* workers
    PoolQueue,      \* max_queue
    MaxSlots        \* bound on slots ever started

Slots == 1 .. MaxSlots
NoJob == "none"

ASSUME PoolAssumption == Concurrency \in Nat /\ MaxSlots \in Nat /\ NoJob \notin Callers

VARIABLES
    queue,      \* jobs waiting for a slot
    live,       \* slots of the pool
    made,       \* slots started so far
    slotJob,    \* per slot, its job
    running,    \* <<slot, job>> pairs a goroutine is working on
    armed,      \* <<slot, job>> deadlines that have not passed
    firing,     \* deadlines whose callback has started and waits for the lock
    overran,    \* jobs whose deadline passed
    outcome,    \* per job: "none" (not submitted), "waiting", or how it was settled
    closed      \* disposed

slotVars == <<live, made, slotJob>>
timerVars == <<armed, firing, overran>>
poolVars == <<queue, slotVars, running, timerVars, outcome, closed>>

PoolInit ==
    /\ queue = <<>> /\ live = {} /\ made = 0 /\ slotJob = [s \in Slots |-> NoJob]
    /\ running = {} /\ armed = {} /\ firing = {} /\ overran = {}
    /\ outcome = [j \in Callers |-> "none"] /\ closed = FALSE

\* dispatchLocked, with the pool's fields as the caller leaves them: the head of the queue
\* goes to an idle slot, or to a new one while there are fewer than Concurrency.
dispatch(q, slots, jobs, work, timers) ==
    LET idle == {s \in slots : jobs[s] = NoJob}
        slot == IF idle # {} THEN CHOOSE s \in idle : TRUE ELSE made + 1
    IN IF q # <<>> /\ (idle # {} \/ Cardinality(slots) < Concurrency) /\ slot \in Slots
       THEN /\ queue' = Tail(q) /\ live' = slots \cup {slot}
            /\ made' = IF idle # {} THEN made ELSE made + 1
            /\ slotJob' = [jobs EXCEPT ![slot] = Head(q)]
            /\ running' = work \cup {<<slot, Head(q)>>} /\ armed' = timers \cup {<<slot, Head(q)>>}
       ELSE /\ queue' = q /\ live' = slots /\ slotJob' = jobs /\ running' = work /\ armed' = timers
            /\ UNCHANGED made

settle(j, how) == outcome' = [outcome EXCEPT ![j] = IF @ = "waiting" THEN how ELSE @]

\* Refused when disposed or when the queue is full, otherwise queued and dispatched.
Submit(j) ==
    /\ outcome[j] = "none" /\ made < MaxSlots
    /\ IF closed \/ Len(queue) >= PoolQueue
       THEN /\ outcome' = [outcome EXCEPT ![j] = "refused"]
            /\ UNCHANGED <<queue, slotVars, running, armed>>
       ELSE /\ outcome' = [outcome EXCEPT ![j] = "waiting"]
            /\ dispatch(Append(queue, j), live, slotJob, running, armed)
    /\ UNCHANGED <<firing, overran, closed>>

\* The job returns or panics.  Its timer is stopped, which does not take back a callback
\* that has started; the result of a retired slot is dropped.
finish(s, j) ==
    /\ <<s, j>> \in running
    /\ IF s \notin live \/ slotJob[s] # j
       THEN /\ running' = running \ {<<s, j>>}
            /\ UNCHANGED <<queue, slotVars, armed, outcome>>
       ELSE \E how \in {"done", "failed"} :
            /\ settle(j, how)
            /\ dispatch(queue, live, [slotJob EXCEPT ![s] = NoJob],
                        running \ {<<s, j>>}, armed \ {<<s, j>>})
    /\ UNCHANGED <<firing, overran, closed>>

TimerFires(s, j) ==
    /\ <<s, j>> \in armed /\ armed' = armed \ {<<s, j>>}
    /\ firing' = firing \cup {<<s, j>>} /\ overran' = overran \cup {j}
    /\ UNCHANGED <<queue, slotVars, running, outcome, closed>>

\* Mutation: the callback does not ask whose deadline it is.
Mut_FailsAnyJob(s, j) ==
    /\ <<s, j>> \in firing /\ firing' = firing \ {<<s, j>>}
    /\ IF s \notin live \/ slotJob[s] = NoJob
       THEN UNCHANGED <<queue, slotVars, running, armed, outcome>>
       ELSE /\ settle(slotJob[s], "overran")
            /\ dispatch(queue, live \ {s}, [slotJob EXCEPT ![s] = NoJob], running, armed \ {<<s, slotJob[s]>>})
    /\ UNCHANGED <<overran, closed>>

\* The callback: only the job the deadline was set for loses its slot, which is retired
\* with the goroutine still in it.
failSlot(s, j) ==
    /\ <<s, j>> \in firing /\ firing' = firing \ {<<s, j>>}
    /\ IF s \notin live \/ slotJob[s] # j
       THEN UNCHANGED <<queue, slotVars, running, armed, outcome>>
       ELSE /\ settle(j, "overran")
            /\ dispatch(queue, live \ {s}, [slotJob EXCEPT ![s] = NoJob], running, armed)
    /\ UNCHANGED <<overran, closed>>

\* Everything queued or running is settled and every slot retired.
DisposePool ==
    /\ ~closed /\ closed' = TRUE
    /\ outcome' = [j \in Callers |-> IF outcome[j] = "waiting" THEN "stopped" ELSE outcome[j]]
    /\ queue' = <<>> /\ live' = {} /\ slotJob' = [s \in Slots |-> NoJob] /\ armed' = {}
    /\ UNCHANGED <<made, running, firing, overran>>

PoolNext ==
    \/ \E j \in Callers : Submit(j)
    \/ \E s \in Slots, j \in Callers : finish(s, j) \/ TimerFires(s, j) \/ failSlot(s, j)
    \/ DisposePool

PoolSpec == PoolInit /\ [][PoolNext]_poolVars

-----------------------------------------------------------------------------
(* Properties                                                              *)

\* failSlot's comment: a deadline belongs to its original job, never to the next one on
\* the same worker.
DeadlineOfOwnJob == \A j \in Callers : outcome[j] = "overran" => j \in overran

\* No caller of Submit is left behind: whoever waits is in the queue or in a slot, and a
\* job is only queued while every slot the pool may have is busy.
NoCallerStranded ==
    /\ \A j \in Callers : outcome[j] = "waiting" =>
          Contains(queue, j) \/ \E s \in live : slotJob[s] = j
    /\ queue # <<>> /\ made < MaxSlots =>
          Cardinality(live) = Concurrency /\ \A s \in live : slotJob[s] # NoJob

\* Every caller is served or told why, and a deadline is its own job's.
PoolServes == DeadlineOfOwnJob /\ NoCallerStranded
-----------------------------------------------------------------------------
(* PoolServes holds by the parts below                                     *)

PoolTypeOK ==
    /\ queue \in Seq(Callers) /\ made \in 0 .. MaxSlots /\ live \subseteq 1 .. made
    /\ slotJob \in [Slots -> Callers \cup {NoJob}] /\ DOMAIN outcome = Callers

WithinConcurrency == Cardinality(live) <= Concurrency

\* A deadline whose callback is on its way has passed.
FiringOverran == \A s \in Slots, j \in Callers : <<s, j>> \in firing => j \in overran

PoolIInv == PoolTypeOK /\ WithinConcurrency /\ FiringOverran /\ DeadlineOfOwnJob /\ NoCallerStranded
=============================================================================
