---------------------------- MODULE Subscriptions ----------------------------
(***************************************************************************)
(* The refcounted subscription table of one market-data lane               *)
(* (internal/brokers/subscriptions.go, type Coordinator).                  *)
(*                                                                         *)
(* Several owners want overlapping sets of instrument tokens on one        *)
(* upstream feed.  The browser takes one lease per SSE stream (Acquire and *)
(* Release); the analytics, scanner and strategy owners declare their      *)
(* whole set each time (SetOwnerTokens).  The table counts the holders of  *)
(* every token and tells the transport only about the first holder of a    *)
(* token and about its last one going away.                                *)
(*                                                                         *)
(* One mutex covers each operation, transport calls included, so each is   *)
(* one action here.  The analytics-yield callback that Acquire makes       *)
(* before taking the mutex is a SetOwnerTokens call of the analytics owner *)
(* and so a step of its own; module LaneBudget orders it before Acquire.   *)
(*                                                                         *)
(* A broker switch first stops the lane's feed (Registry.stopAllLanes),    *)
(* which drops every token of it, and then resets the table, which makes   *)
(* no transport call.  Streams go on between the two steps.                *)
(***************************************************************************)
EXTENDS Integers, FiniteSets

CONSTANTS
    Tokens,         \* the valid (positive) instrument tokens
    LeaseOwners,    \* owners that call Acquire: the browser
    SetOwners,      \* owners that call SetOwnerTokens
    MaxSeq          \* bound on leaseSeq, that is on the number of Acquires

ASSUME MaxSeqAssumption == MaxSeq \in Nat
ASSUME OwnersAssumption == LeaseOwners \cap SetOwners = {}
ASSUME TokensAssumption == IsFiniteSet(Tokens)

VARIABLES
    counts,     \* counts[t][o]: Counts.Browser/.Scanner/.Strategy/.Analytics
    total,      \* total[t]: Counts.Total; 0 when the map has no entry for t
    leases,     \* the lease map: a set of records with distinct keys
    leaseSeq,   \* number of the last lease id handed out
    upstream,   \* per token, SubscribeTokens calls not taken back since the stop
    stopped,    \* a switch has stopped the feed and not yet reset the table
    cut,        \* history: held tokens the feed has dropped at that stop
    stray,      \* history: tokens asked of the feed and forgotten by the reset
    live,       \* history: leases acquired since the last switch, unreleased
    spent       \* history: handles released before, or from before a switch

tableVars == <<counts, total, leases, leaseSeq, upstream>>
laneFeed == <<stopped, stray>>
subVars == <<tableVars, laneFeed, cut, live, spent>>

Owners == LeaseOwners \cup SetOwners

\* The lease id is "owner:set" (here 0) or "owner:<leaseSeq>".
SetId == 0
Lease == [owner : Owners, id : Nat, tokens : SUBSET Tokens]

HeldTokens == {t \in Tokens : total[t] > 0}
OwnedTokens(o) == {t \in Tokens : counts[t][o] > 0}
NoCounts == [t \in Tokens |-> [o \in Owners |-> 0]]
ZeroPerToken == [t \in Tokens |-> 0]

\* addLease: the map overwrites an entry that has the same id.
AddLease(ls, l) == {k \in ls : <<k.owner, k.id>> # <<l.owner, l.id>>} \cup {l}

\* Counting one more holder of every token in T: Counts.<owner>++ and Total++.
IncCounts(o, T) == [t \in Tokens |->
    IF t \in T THEN [counts[t] EXCEPT ![o] = @ + 1] ELSE counts[t]]
IncTotal(T) == [t \in Tokens |-> IF t \in T THEN total[t] + 1 ELSE total[t]]

\* dec: both counters stop at 0, a token without an entry is left alone, and
\* the entry is deleted (every owner's count with it) when Total reaches 0.
Dec(n) == IF n > 0 THEN n - 1 ELSE 0
DecTotal(T) == [t \in Tokens |-> IF t \in T THEN Dec(total[t]) ELSE total[t]]
DecCounts(o, T) == [t \in Tokens |->
    IF t \notin T \/ total[t] = 0 THEN counts[t]
    ELSE IF total[t] = 1 THEN [p \in Owners |-> 0]
    ELSE [counts[t] EXCEPT ![o] = Dec(@)]]

\* Mutation: a token goes upstream again for every new holder.
Mut_NewAlways(T) == T

\* The tokens dec reports as gone and those whose first holder arrives.
Gone(T) == {t \in T : total[t] = 1}
New(T) == {t \in T : total[t] = 0}

\* A feed ignores an unsubscribe of a token it does not have.
Transport(sub, unsub) == [t \in Tokens |->
    IF t \in sub THEN upstream[t] + 1
    ELSE IF t \in unsub THEN Dec(upstream[t]) ELSE upstream[t]]

-----------------------------------------------------------------------------
SubsInit ==
    /\ counts = NoCounts
    /\ total = ZeroPerToken
    /\ leases = {}
    /\ leaseSeq = 0
    /\ upstream = ZeroPerToken
    /\ stopped = FALSE /\ cut = {} /\ stray = {}
    /\ live = {}
    /\ spent = {}

NextLease(o, T) == [owner |-> o, id |-> leaseSeq + 1, tokens |-> T]

Acquire(o, T) ==
    /\ leaseSeq < MaxSeq
    /\ leaseSeq' = leaseSeq + 1
    /\ leases' = AddLease(leases, NextLease(o, T))
    /\ counts' = IncCounts(o, T)
    /\ total' = IncTotal(T)
    /\ upstream' = Transport(New(T), {})
    /\ live' = live \cup {NextLease(o, T)}
    /\ UNCHANGED <<laneFeed, cut, spent>>

\* Mutation: Release is not idempotent, the lease stays in the map.
Mut_ReleaseKeepsLease(o, i) ==
    /\ LET T == UNION {l.tokens : l \in {k \in leases : k.owner = o /\ k.id = i}}
       IN /\ counts' = DecCounts(o, T)
          /\ total' = DecTotal(T)
          /\ upstream' = Transport({}, Gone(T))
          /\ cut' = cut \ Gone(T)
    /\ UNCHANGED <<leases, leaseSeq, laneFeed>>

\* releaseLease: an id that is not in the map changes nothing.
ReleaseLease(o, i) ==
    /\ LET found == {l \in leases : l.owner = o /\ l.id = i}
           T == UNION {l.tokens : l \in found}
       IN /\ leases' = leases \ found
          /\ counts' = DecCounts(o, T)
          /\ total' = DecTotal(T)
          /\ upstream' = Transport({}, Gone(T))
          /\ cut' = cut \ Gone(T)
    /\ UNCHANGED <<leaseSeq, laneFeed>>

\* A stream ends and releases the lease it holds.
Release(h) ==
    /\ ReleaseLease(h.owner, h.id)
    /\ live' = live \ {h}
    /\ spent' = spent \cup {<<h.owner, h.id>>}

\* Lease.Release is called again, or by a stream opened before a switch.
ReleaseAgain(o, i) ==
    /\ ReleaseLease(o, i)
    /\ UNCHANGED <<live, spent>>

HeldByLeases(o) == UNION {l.tokens : l \in {k \in leases : k.owner = o}}

\* Held tokens that are no longer wanted are dropped once each, wanted ones
\* that were not held are added, and a kept token is not touched.
SetOwnerTokens(o, want) ==
    LET drop == HeldByLeases(o) \ want
        add == want \ HeldByLeases(o)
        others == {l \in leases : l.owner # o}
        setLease == [owner |-> o, id |-> SetId, tokens |-> want]
    IN /\ leases' = IF want = {} THEN others ELSE AddLease(others, setLease)
       /\ counts' = [t \in Tokens |->
             IF t \in drop THEN DecCounts(o, drop)[t] ELSE IncCounts(o, add)[t]]
       /\ total' = [t \in Tokens |->
             IF t \in drop THEN DecTotal(drop)[t] ELSE IncTotal(add)[t]]
       /\ upstream' = Transport(New(add), Gone(drop))
       /\ cut' = cut \ Gone(drop)
       /\ UNCHANGED <<leaseSeq, laneFeed, live, spent>>

\* Registry.stopAllLanes: the feed forgets its tokens, the table is as it was.
StopLane ==
    /\ upstream' = ZeroPerToken
    /\ stopped' = TRUE /\ cut' = HeldTokens /\ stray' = {}
    /\ UNCHANGED <<counts, total, leases, leaseSeq, live, spent>>

\* Mutation: a switch also restarts the lease numbering.
Mut_ResetRestartsSeq ==
    /\ stopped
    /\ counts' = NoCounts
    /\ total' = ZeroPerToken
    /\ leases' = {} /\ leaseSeq' = 0
    /\ stopped' = FALSE /\ cut' = {} /\ stray' = HeldTokens \ cut
    /\ live' = {}
    /\ spent' = spent \cup {<<h.owner, h.id>> : h \in live}
    /\ UNCHANGED upstream

\* No transport call: a token asked for since the stop stays with the feed.
ResetForBrokerSwitch ==
    /\ stopped
    /\ counts' = NoCounts
    /\ total' = ZeroPerToken
    /\ leases' = {}
    /\ stopped' = FALSE /\ cut' = {} /\ stray' = HeldTokens \ cut
    /\ live' = {}
    /\ spent' = spent \cup {<<h.owner, h.id>> : h \in live}
    /\ UNCHANGED <<leaseSeq, upstream>>

SubsNext ==
    \/ \E o \in LeaseOwners, T \in SUBSET Tokens : Acquire(o, T)
    \/ \E h \in live : Release(h)
    \/ \E h \in spent : ReleaseAgain(h[1], h[2])
    \/ \E o \in SetOwners, want \in SUBSET Tokens : SetOwnerTokens(o, want)
    \/ StopLane \/ ResetForBrokerSwitch

SubsSpec == SubsInit /\ [][SubsNext]_subVars

-----------------------------------------------------------------------------
(* Correctness                                                             *)

\* Type invariant of the subscription table (Coordinator's fields).
SubsTypeOK ==
    /\ counts \in [Tokens -> [Owners -> Nat]]
    /\ total \in [Tokens -> Nat]
    /\ leases \in SUBSET Lease
    /\ leaseSeq \in 0..MaxSeq
    /\ upstream \in [Tokens -> Nat]
    /\ stopped \in BOOLEAN /\ cut \in SUBSET Tokens /\ stray \in SUBSET Tokens
    /\ live \in SUBSET Lease
    /\ spent \in SUBSET (Owners \X Nat)

\* The leases of ls that hold token t, and those of owner o among them.
Holders(ls, t) == {l \in ls : t \in l.tokens}
OwnerHolders(ls, o, t) == {l \in ls : l.owner = o /\ t \in l.tokens}

\* The reference counts are exact: after any sequence of Acquire, Release
\* (repeated and stale ones included), SetOwnerTokens and broker switches,
\* the count of an owner is the number of its leases that hold the token, and
\* Total is the number of all leases that do.
RefcountsExact ==
    \A t \in Tokens :
        /\ total[t] = Cardinality(Holders(leases, t))
        /\ \A o \in Owners :
              counts[t][o] = Cardinality(OwnerHolders(leases, o, t))

\* The transport sees only transitions: a token somebody holds has been asked
\* for exactly once more than taken back, and a token nobody holds equally
\* often, but for what a switch does to it.  A token held when the feed was
\* stopped is off the feed until its next first holder or the reset.  A token
\* whose first holder came between the stop and the reset stays asked for
\* once, whatever the table counts afterwards, until the next stop; no other
\* token is leaked, subscribed twice or dropped too early.
UpstreamExact ==
    \A t \in Tokens :
        upstream[t] = (IF t \in HeldTokens \ cut THEN 1 ELSE 0)
                      + (IF t \in stray THEN 1 ELSE 0)

\* A lease acquired since the last broker switch and not yet released is still
\* in the table, whatever other owners, stale releases of leases from before
\* the switch and the analytics owner did meanwhile; with the two properties
\* above, every token of an open stream is subscribed upstream.
LiveLeasesKept == live \subseteq leases

\* The part of the inductive invariant about lease ids: they are distinct, a
\* declaring owner has at most its ":set" lease, and numbered leases belong to
\* owners that acquire.
LeaseKeys ==
    /\ IsFiniteSet(leases)
    /\ \A l \in leases :
          /\ l.id <= leaseSeq
          /\ l.owner \in SetOwners => l.id = SetId
          /\ l.owner \in LeaseOwners => l.id > 0
    /\ \A k, l \in leases : k.owner = l.owner /\ k.id = l.id => k = l

\* The acquired leases in the table are the live ones, and no spent handle
\* names a lease of the table.
LiveExact ==
    /\ live = {l \in leases : l.owner \in LeaseOwners}
    /\ \A h \in spent :
          /\ h[1] \in LeaseOwners /\ h[2] \in 1..leaseSeq
          /\ \A l \in leases : <<l.owner, l.id>> # h

\* Tokens are off the feed, though held, only between the stop and the reset,
\* and forgotten ones stay there only from the reset on.
StopThenReset ==
    /\ cut \subseteq HeldTokens
    /\ IF stopped THEN stray = {} ELSE cut = {}

\* The inductive invariant of the subscription table.
SubsIInv ==
    SubsTypeOK /\ LeaseKeys /\ RefcountsExact /\ UpstreamExact /\ StopThenReset /\ LiveExact
=============================================================================
