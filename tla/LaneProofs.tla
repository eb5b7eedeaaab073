----------------------------- MODULE LaneProofs -----------------------------
(***************************************************************************)
(* Proofs about the subscription table, for every set of tokens, every set *)
(* of owners and every number of leases, and about the futures lane that   *)
(* shares it, for every set of streams, every reserve and every number of  *)
(* broker switches.                                                        *)
(***************************************************************************)
EXTENDS LaneBudget, FiniteSetTheorems, TLAPS

-----------------------------------------------------------------------------
(* Counting                                                                *)

\* A finite set that gains an element it did not have counts one more.
LEMMA CardAdd ==
    ASSUME NEW S, IsFiniteSet(S), NEW x, x \notin S
    PROVE  /\ IsFiniteSet(S \cup {x})
           /\ Cardinality(S \cup {x}) = Cardinality(S) + 1
           /\ Cardinality(S) \in Nat
    BY FS_AddElement, FS_CardinalityType

\* A finite set that loses one of its elements counts one less.
LEMMA CardRemove ==
    ASSUME NEW S, IsFiniteSet(S), NEW x, x \in S
    PROVE  /\ IsFiniteSet(S \ {x})
           /\ Cardinality(S \ {x}) = Cardinality(S) - 1
           /\ Cardinality(S) \in Nat
           /\ Cardinality(S) > 0
    BY FS_RemoveElement, FS_CardinalityType, FS_EmptySet

\* The holders of a token form a finite set, for all leases and per owner.
LEMMA HoldersFinite ==
    ASSUME NEW ls, IsFiniteSet(ls), NEW t, NEW o
    PROVE  /\ IsFiniteSet(Holders(ls, t))
           /\ IsFiniteSet(OwnerHolders(ls, o, t))
           /\ OwnerHolders(ls, o, t) \subseteq Holders(ls, t)
    BY FS_Subset DEF Holders, OwnerHolders

\* What a new lease l does to the numbers of holders of t (addLease).
LEMMA HoldersAdd ==
    ASSUME NEW ls, IsFiniteSet(ls), NEW l, l \notin ls, NEW t, NEW o
    PROVE  /\ Cardinality(Holders(ls \cup {l}, t)) =
                Cardinality(Holders(ls, t)) + (IF t \in l.tokens THEN 1 ELSE 0)
           /\ Cardinality(OwnerHolders(ls \cup {l}, o, t)) =
                Cardinality(OwnerHolders(ls, o, t))
                  + (IF l.owner = o /\ t \in l.tokens THEN 1 ELSE 0)
  <1>1. Cardinality(Holders(ls, t)) \in Nat /\ Cardinality(OwnerHolders(ls, o, t)) \in Nat
    BY HoldersFinite, FS_CardinalityType
  <1>2. Holders(ls \cup {l}, t) =
          IF t \in l.tokens THEN Holders(ls, t) \cup {l} ELSE Holders(ls, t)
    BY DEF Holders
  <1>3. OwnerHolders(ls \cup {l}, o, t) =
          IF l.owner = o /\ t \in l.tokens THEN OwnerHolders(ls, o, t) \cup {l}
          ELSE OwnerHolders(ls, o, t)
    BY DEF OwnerHolders
  <1>4. l \notin Holders(ls, t) /\ l \notin OwnerHolders(ls, o, t)
    BY DEF Holders, OwnerHolders
  <1>5. Cardinality(Holders(ls, t) \cup {l}) = Cardinality(Holders(ls, t)) + 1
    BY <1>4, HoldersFinite, CardAdd
  <1>6. Cardinality(OwnerHolders(ls, o, t) \cup {l}) = Cardinality(OwnerHolders(ls, o, t)) + 1
    BY <1>4, HoldersFinite, CardAdd
  <1> QED BY <1>1, <1>2, <1>3, <1>5, <1>6

\* What removing lease l does to the numbers of holders of t (removeLease).
LEMMA HoldersRemove ==
    ASSUME NEW ls, IsFiniteSet(ls), NEW l \in ls, NEW t, NEW o
    PROVE  /\ Cardinality(Holders(ls \ {l}, t)) =
                Cardinality(Holders(ls, t)) - (IF t \in l.tokens THEN 1 ELSE 0)
           /\ Cardinality(OwnerHolders(ls \ {l}, o, t)) =
                Cardinality(OwnerHolders(ls, o, t))
                  - (IF l.owner = o /\ t \in l.tokens THEN 1 ELSE 0)
           /\ t \in l.tokens => Cardinality(Holders(ls, t)) > 0
           /\ l.owner = o /\ t \in l.tokens => Cardinality(OwnerHolders(ls, o, t)) > 0
  <1>1. Cardinality(Holders(ls, t)) \in Nat /\ Cardinality(OwnerHolders(ls, o, t)) \in Nat
    BY HoldersFinite, FS_CardinalityType
  <1>2. Holders(ls \ {l}, t) =
          IF t \in l.tokens THEN Holders(ls, t) \ {l} ELSE Holders(ls, t)
    BY DEF Holders
  <1>3. OwnerHolders(ls \ {l}, o, t) =
          IF l.owner = o /\ t \in l.tokens THEN OwnerHolders(ls, o, t) \ {l}
          ELSE OwnerHolders(ls, o, t)
    BY DEF OwnerHolders
  <1>4. t \in l.tokens => l \in Holders(ls, t)
    BY DEF Holders
  <1>5. l.owner = o /\ t \in l.tokens => l \in OwnerHolders(ls, o, t)
    BY DEF OwnerHolders
  <1>6. t \in l.tokens =>
          /\ Cardinality(Holders(ls, t) \ {l}) = Cardinality(Holders(ls, t)) - 1
          /\ Cardinality(Holders(ls, t)) > 0
    BY <1>4, HoldersFinite, CardRemove
  <1>7. l.owner = o /\ t \in l.tokens =>
          /\ Cardinality(OwnerHolders(ls, o, t) \ {l}) = Cardinality(OwnerHolders(ls, o, t)) - 1
          /\ Cardinality(OwnerHolders(ls, o, t)) > 0
    BY <1>5, HoldersFinite, CardRemove
  <1> QED BY <1>1, <1>2, <1>3, <1>6, <1>7

\* A token nobody holds is held by no owner.
LEMMA NoHolders ==
    ASSUME NEW ls, IsFiniteSet(ls), NEW t, NEW o, Cardinality(Holders(ls, t)) = 0
    PROVE  Cardinality(OwnerHolders(ls, o, t)) = 0
  <1>1. Holders(ls, t) = {}
    BY HoldersFinite, FS_EmptySet
  <1>2. OwnerHolders(ls, o, t) = {}
    BY <1>1, HoldersFinite
  <1> QED BY <1>2, FS_EmptySet

-----------------------------------------------------------------------------
(* Acquire, Release, SetOwnerTokens and the switch keep the invariant       *)

\* Acquire: the new id is larger than every id in the table, so no lease is
\* overwritten and every requested token gains exactly one holder.
LEMMA AcquireKeeps ==
    ASSUME SubsIInv, NEW o \in LeaseOwners, NEW T \in SUBSET Tokens, Acquire(o, T)
    PROVE  SubsIInv'
  <1> DEFINE n == NextLease(o, T)
  <1>0. o \in Owners /\ o \notin SetOwners
    BY OwnersAssumption DEF Owners
  <1>1. n \in Lease /\ n \notin leases /\ n.tokens = T /\ n.owner = o /\ n.id = leaseSeq + 1
    BY <1>0 DEF NextLease, Lease, SubsIInv, SubsTypeOK, LeaseKeys
  <1>2. leases' = leases \cup {n}
    BY <1>1 DEF Acquire, AddLease, SubsIInv, SubsTypeOK, LeaseKeys, Lease
  <1>3. SubsTypeOK'
    BY <1>0, <1>1, <1>2, MaxSeqAssumption
    DEF SubsIInv, SubsTypeOK, Acquire, IncCounts, IncTotal, Transport, laneFeed
  <1>4. LeaseKeys'
    <2>1. IsFiniteSet(leases')
      BY <1>2, FS_AddElement DEF SubsIInv, LeaseKeys
    <2> QED BY <1>0, <1>1, <1>2, <2>1 DEF SubsIInv, SubsTypeOK, LeaseKeys, Acquire, Lease
  <1>5. RefcountsExact'
    <2> SUFFICES ASSUME NEW t \in Tokens, NEW p \in Owners
                 PROVE  /\ total'[t] = Cardinality(Holders(leases', t))
                        /\ counts'[t][p] = Cardinality(OwnerHolders(leases', p, t))
      BY DEF RefcountsExact, Owners
    <2>1. /\ Cardinality(Holders(leases', t)) =
               Cardinality(Holders(leases, t)) + (IF t \in T THEN 1 ELSE 0)
          /\ Cardinality(OwnerHolders(leases', p, t)) =
               Cardinality(OwnerHolders(leases, p, t)) + (IF o = p /\ t \in T THEN 1 ELSE 0)
      BY <1>1, <1>2, HoldersAdd DEF SubsIInv, LeaseKeys
    <2>2. /\ total[t] = Cardinality(Holders(leases, t))
          /\ counts[t][p] = Cardinality(OwnerHolders(leases, p, t))
      BY DEF SubsIInv, RefcountsExact
    <2>3. total'[t] = total[t] + (IF t \in T THEN 1 ELSE 0)
      BY DEF SubsIInv, SubsTypeOK, Acquire, IncTotal
    <2>4. counts'[t][p] = counts[t][p] + (IF o = p /\ t \in T THEN 1 ELSE 0)
      BY DEF SubsIInv, SubsTypeOK, Acquire, IncCounts
    <2> QED BY <2>1, <2>2, <2>3, <2>4
  <1>6. UpstreamExact' /\ StopThenReset'
    BY DEF SubsIInv, SubsTypeOK, UpstreamExact, StopThenReset, HeldTokens, Acquire, IncTotal,
           Transport, New, laneFeed
  <1>7. LiveExact'
    BY <1>1, <1>2 DEF SubsIInv, SubsTypeOK, LiveExact, Acquire
  <1> QED BY <1>3, <1>4, <1>5, <1>6, <1>7 DEF SubsIInv

\* releaseLease takes the one lease that has the id, if there is one, out of
\* the table, and every one of its tokens loses exactly one holder.
LEMMA ReleaseLeaseKeeps ==
    ASSUME SubsIInv, NEW o \in LeaseOwners, NEW i \in 1..leaseSeq, ReleaseLease(o, i)
    PROVE  /\ leases' = {l \in leases : l.owner # o \/ l.id # i}
           /\ leases' \in SUBSET Lease
           /\ counts' \in [Tokens -> [Owners -> Nat]]
           /\ total' \in [Tokens -> Nat]
           /\ upstream' \in [Tokens -> Nat]
           /\ cut' \in SUBSET Tokens /\ UNCHANGED laneFeed
           /\ LeaseKeys' /\ RefcountsExact' /\ UpstreamExact' /\ StopThenReset'
  <1> DEFINE found == {l \in leases : l.owner = o /\ l.id = i}
             T == UNION {l.tokens : l \in found}
  <1>0. o \in Owners
    BY DEF Owners
  <1>1. leases' = {l \in leases : l.owner # o \/ l.id # i} /\ leases' \subseteq leases
    BY DEF ReleaseLease
  <1>2. T \in SUBSET Tokens
    BY DEF SubsIInv, SubsTypeOK, Lease
  <1>3. /\ counts' = DecCounts(o, T) /\ total' = DecTotal(T)
        /\ upstream' = Transport({}, Gone(T)) /\ cut' = cut \ Gone(T)
        /\ UNCHANGED laneFeed
    BY DEF ReleaseLease
  <1>4. /\ counts' \in [Tokens -> [Owners -> Nat]]
        /\ total' \in [Tokens -> Nat]
        /\ upstream' \in [Tokens -> Nat]
        /\ cut' \in SUBSET Tokens
    <2>1. total' \in [Tokens -> Nat] /\ upstream' \in [Tokens -> Nat]
      BY <1>3 DEF SubsIInv, SubsTypeOK, DecTotal, Dec, Transport
    <2>2. counts' \in [Tokens -> [Owners -> Nat]]
      BY <1>0, <1>3 DEF SubsIInv, SubsTypeOK, DecCounts, Dec
    <2>3. cut' \in SUBSET Tokens
      BY <1>3 DEF SubsIInv, SubsTypeOK
    <2> QED BY <2>1, <2>2, <2>3
  <1>5. LeaseKeys'
    <2>1. IsFiniteSet(leases')
      BY <1>1, FS_Subset DEF SubsIInv, LeaseKeys
    <2> QED BY <1>1, <2>1 DEF SubsIInv, LeaseKeys, ReleaseLease
  <1>6. CASE found = {}
    <2>1. leases' = leases /\ T = {}
      BY <1>6, <1>1
    <2>2. counts' = counts /\ total' = total /\ upstream' = upstream /\ cut' = cut
      BY <1>3, <2>1 DEF DecCounts, DecTotal, Transport, Gone, SubsIInv, SubsTypeOK
    <2> QED BY <1>1, <1>3, <1>4, <1>5, <2>1, <2>2
            DEF SubsIInv, SubsTypeOK, RefcountsExact, UpstreamExact, StopThenReset, HeldTokens, laneFeed
  <1>7. CASE found # {}
    <2>1. PICK m \in leases : m.owner = o /\ m.id = i
      BY <1>7
    <2>2. found = {m} /\ leases' = leases \ {m}
      BY <1>1, <2>1 DEF SubsIInv, LeaseKeys
    <2>3. T = m.tokens
      BY <2>2
    <2>4. ASSUME NEW t \in Tokens, NEW p \in Owners
          PROVE  /\ total'[t] = Cardinality(Holders(leases', t))
                 /\ counts'[t][p] = Cardinality(OwnerHolders(leases', p, t))
                 /\ t \in T => total[t] > 0
      <3>1. /\ Cardinality(Holders(leases', t)) =
                 Cardinality(Holders(leases, t)) - (IF t \in T THEN 1 ELSE 0)
            /\ Cardinality(OwnerHolders(leases', p, t)) =
                 Cardinality(OwnerHolders(leases, p, t)) - (IF o = p /\ t \in T THEN 1 ELSE 0)
            /\ t \in T => Cardinality(Holders(leases, t)) > 0
            /\ o = p /\ t \in T => Cardinality(OwnerHolders(leases, p, t)) > 0
        <4>1. IsFiniteSet(leases)
          BY DEF SubsIInv, LeaseKeys
        <4>2. /\ Cardinality(Holders(leases \ {m}, t)) =
                   Cardinality(Holders(leases, t)) - (IF t \in m.tokens THEN 1 ELSE 0)
              /\ Cardinality(OwnerHolders(leases \ {m}, p, t)) =
                   Cardinality(OwnerHolders(leases, p, t))
                     - (IF m.owner = p /\ t \in m.tokens THEN 1 ELSE 0)
              /\ t \in m.tokens => Cardinality(Holders(leases, t)) > 0
              /\ m.owner = p /\ t \in m.tokens => Cardinality(OwnerHolders(leases, p, t)) > 0
          BY <4>1, HoldersRemove
        <4> HIDE DEF found, T
        <4> QED BY <4>2, <2>1, <2>2, <2>3
      <3>2. /\ total[t] = Cardinality(Holders(leases, t)) /\ total[t] \in Nat
            /\ counts[t][p] = Cardinality(OwnerHolders(leases, p, t)) /\ counts[t][p] \in Nat
        BY DEF SubsIInv, RefcountsExact, SubsTypeOK
      <3>3. total'[t] = Cardinality(Holders(leases', t))
        BY <1>3, <3>1, <3>2 DEF DecTotal, Dec
      <3>4. total'[t] = 0 => Cardinality(OwnerHolders(leases', p, t)) = 0
        BY <3>3, <1>5, NoHolders DEF LeaseKeys
      <3>5. counts'[t][p] = IF t \notin T \/ total[t] = 0 THEN counts[t][p]
                            ELSE IF total[t] = 1 THEN 0
                            ELSE IF o = p THEN Dec(counts[t][p]) ELSE counts[t][p]
        BY <1>3 DEF DecCounts, SubsIInv, SubsTypeOK
      <3>6. t \in T /\ total[t] = 1 => total'[t] = 0
        BY <3>1, <3>2, <3>3
      <3>7. counts'[t][p] = Cardinality(OwnerHolders(leases', p, t))
        BY <3>1, <3>2, <3>4, <3>5, <3>6 DEF Dec
      <3> QED BY <3>1, <3>2, <3>3, <3>7
    <2>5. RefcountsExact'
      BY <1>0, <2>4 DEF RefcountsExact
    <2>6. UpstreamExact' /\ StopThenReset'
      <3> HIDE DEF found, T
      <3>1. \A t \in T : total[t] > 0
        BY <1>0, <1>2, <2>4
      <3> QED BY <1>2, <1>3, <3>1
              DEF SubsIInv, SubsTypeOK, UpstreamExact, StopThenReset, HeldTokens, DecTotal, Dec,
                  Transport, Gone, laneFeed
    <2> QED BY <1>1, <1>3, <1>4, <1>5, <2>5, <2>6 DEF SubsIInv, SubsTypeOK
  <1> QED BY <1>6, <1>7

\* A live handle's release removes its own lease and no other one.
LEMMA ReleaseKeeps ==
    ASSUME SubsIInv, NEW h \in live, Release(h)
    PROVE  SubsIInv'
  <1>1. /\ h \in leases /\ h.owner \in LeaseOwners /\ h.owner \in Owners /\ h.id \in 1..leaseSeq
        /\ h.id \in Nat
    BY DEF SubsIInv, SubsTypeOK, LiveExact, LeaseKeys, Lease, Owners
  <1>2. /\ leases' = {l \in leases : l.owner # h.owner \/ l.id # h.id}
        /\ leases' \in SUBSET Lease
        /\ counts' \in [Tokens -> [Owners -> Nat]]
        /\ total' \in [Tokens -> Nat]
        /\ upstream' \in [Tokens -> Nat]
        /\ cut' \in SUBSET Tokens /\ UNCHANGED laneFeed
        /\ LeaseKeys' /\ RefcountsExact' /\ UpstreamExact' /\ StopThenReset'
    BY <1>1, ReleaseLeaseKeeps DEF Release
  <1>3. leaseSeq' = leaseSeq
    BY DEF Release, ReleaseLease
  <1>4. SubsTypeOK'
    BY <1>1, <1>2, <1>3 DEF Release, SubsIInv, SubsTypeOK, laneFeed
  <1>5. LiveExact'
    <2>1. leases' = leases \ {h}
      BY <1>1, <1>2 DEF SubsIInv, LeaseKeys
    <2>2. live' = {l \in leases' : l.owner \in LeaseOwners}
      BY <2>1 DEF Release, SubsIInv, LiveExact
    <2>3. ASSUME NEW g \in spent'
          PROVE  /\ g[1] \in LeaseOwners /\ g[2] \in 1..leaseSeq'
                 /\ \A l \in leases' : <<l.owner, l.id>> # g
      BY <1>1, <1>2, <1>3 DEF Release, SubsIInv, LiveExact
    <2> QED BY <2>2, <2>3 DEF LiveExact
  <1> QED BY <1>2, <1>4, <1>5 DEF SubsIInv

\* A spent handle names no lease of the table: releasing it changes nothing.
LEMMA ReleaseAgainKeeps ==
    ASSUME SubsIInv, NEW h \in spent, ReleaseAgain(h[1], h[2])
    PROVE  SubsIInv'
  <1>1. h[1] \in LeaseOwners /\ h[2] \in 1..leaseSeq
    BY DEF SubsIInv, LiveExact
  <1>2. /\ leases' = {l \in leases : l.owner # h[1] \/ l.id # h[2]}
        /\ leases' \in SUBSET Lease
        /\ counts' \in [Tokens -> [Owners -> Nat]]
        /\ total' \in [Tokens -> Nat]
        /\ upstream' \in [Tokens -> Nat]
        /\ cut' \in SUBSET Tokens /\ UNCHANGED laneFeed
        /\ LeaseKeys' /\ RefcountsExact' /\ UpstreamExact' /\ StopThenReset'
    BY <1>1, ReleaseLeaseKeeps DEF ReleaseAgain
  <1>3. leaseSeq' = leaseSeq /\ live' = live /\ spent' = spent
    BY DEF ReleaseAgain, ReleaseLease
  <1>4. leases' = leases
    <2>1. h = <<h[1], h[2]>>
      BY DEF SubsIInv, SubsTypeOK
    <2> QED BY <1>2, <2>1 DEF SubsIInv, LiveExact
  <1>5. SubsTypeOK' /\ LiveExact'
    BY <1>2, <1>3, <1>4 DEF SubsIInv, SubsTypeOK, LiveExact, laneFeed
  <1> QED BY <1>2, <1>5 DEF SubsIInv

\* SetOwnerTokens: the owner has at most one lease, so a dropped token loses
\* one holder, an added one gains one and a kept one trades one for another.
LEMMA SetOwnerTokensKeeps ==
    ASSUME SubsIInv, NEW o \in SetOwners, NEW want \in SUBSET Tokens, SetOwnerTokens(o, want)
    PROVE  SubsIInv'
  <1> DEFINE held == HeldByLeases(o)
             drop == held \ want
             add == want \ held
             others == {l \in leases : l.owner # o}
             n == [owner |-> o, id |-> SetId, tokens |-> want]
  <1>0. o \in Owners /\ o \notin LeaseOwners
    BY OwnersAssumption DEF Owners
  <1>1. n \in Lease /\ n.owner = o /\ n.id = 0 /\ n.tokens = want /\ n \notin others
    BY <1>0 DEF Lease, SetId
  <1>2. leases' = IF want = {} THEN others ELSE others \cup {n}
    BY DEF SetOwnerTokens, AddLease
  <1>3. held \in SUBSET Tokens
    BY DEF HeldByLeases, SubsIInv, SubsTypeOK, Lease
  <1>4. IsFiniteSet(leases) /\ IsFiniteSet(others) /\ IsFiniteSet(leases')
    BY <1>2, FS_Subset, FS_AddElement DEF SubsIInv, LeaseKeys
  <1>5. \/ others = leases /\ held = {}
        \/ \E m \in leases : /\ others = leases \ {m}
                              /\ m.owner = o /\ held = m.tokens
    <2>1. CASE \A l \in leases : l.owner # o
      BY <2>1 DEF HeldByLeases
    <2>2. ASSUME NEW m \in leases, m.owner = o
          PROVE  others = leases \ {m} /\ held = m.tokens
      <3>1. \A l \in leases : l.owner = o => l = m
        BY <2>2 DEF SubsIInv, LeaseKeys
      <3>2. {k \in leases : k.owner = o} = {m}
        BY <2>2, <3>1
      <3> QED BY <3>1, <3>2, <2>2 DEF HeldByLeases
    <2> QED BY <2>1, <2>2
  <1>6. /\ counts' = [t \in Tokens |->
              IF t \in drop THEN DecCounts(o, drop)[t] ELSE IncCounts(o, add)[t]]
        /\ total' = [t \in Tokens |->
              IF t \in drop THEN DecTotal(drop)[t] ELSE IncTotal(add)[t]]
        /\ upstream' = Transport(New(add), Gone(drop)) /\ cut' = cut \ Gone(drop)
        /\ stopped' = stopped /\ stray' = stray
        /\ leaseSeq' = leaseSeq /\ live' = live /\ spent' = spent
    BY DEF SetOwnerTokens, laneFeed
  <1> HIDE DEF held, others, n
  <1>7. SubsTypeOK'
    <2>1. leases' \in SUBSET Lease
      BY <1>1, <1>2 DEF SubsIInv, SubsTypeOK, others
    <2>2. total' \in [Tokens -> Nat] /\ upstream' \in [Tokens -> Nat]
      BY <1>6 DEF SubsIInv, SubsTypeOK, DecTotal, IncTotal, Dec, Transport
    <2>3. counts' \in [Tokens -> [Owners -> Nat]]
      BY <1>0, <1>6 DEF SubsIInv, SubsTypeOK, DecCounts, IncCounts, Dec
    <2> QED BY <1>6, <2>1, <2>2, <2>3 DEF SubsIInv, SubsTypeOK
  <1>8. LeaseKeys'
    BY <1>0, <1>1, <1>2, <1>4, <1>6 DEF SubsIInv, SubsTypeOK, LeaseKeys, SetId, others
  <1>9. ASSUME NEW t \in Tokens, NEW p \in Owners
        PROVE  /\ total'[t] = Cardinality(Holders(leases', t))
               /\ counts'[t][p] = Cardinality(OwnerHolders(leases', p, t))
               /\ t \in held => total[t] > 0
    <2>1. /\ total[t] = Cardinality(Holders(leases, t)) /\ total[t] \in Nat
          /\ counts[t][p] = Cardinality(OwnerHolders(leases, p, t)) /\ counts[t][p] \in Nat
      BY DEF SubsIInv, RefcountsExact, SubsTypeOK
    <2>2. /\ Cardinality(Holders(others, t)) = total[t] - (IF t \in held THEN 1 ELSE 0)
          /\ Cardinality(OwnerHolders(others, p, t)) =
               counts[t][p] - (IF o = p /\ t \in held THEN 1 ELSE 0)
          /\ t \in held => total[t] > 0
          /\ o = p /\ t \in held => counts[t][p] > 0
      <3>1. CASE others = leases /\ held = {}
        BY <3>1, <2>1
      <3>2. ASSUME NEW m \in leases, others = leases \ {m}, m.owner = o, held = m.tokens
            PROVE  <2>2!1 /\ <2>2!2 /\ <2>2!3 /\ <2>2!4
        <4>1. /\ Cardinality(Holders(leases \ {m}, t)) =
                   Cardinality(Holders(leases, t)) - (IF t \in m.tokens THEN 1 ELSE 0)
              /\ Cardinality(OwnerHolders(leases \ {m}, p, t)) =
                   Cardinality(OwnerHolders(leases, p, t))
                     - (IF m.owner = p /\ t \in m.tokens THEN 1 ELSE 0)
              /\ t \in m.tokens => Cardinality(Holders(leases, t)) > 0
              /\ m.owner = p /\ t \in m.tokens => Cardinality(OwnerHolders(leases, p, t)) > 0
          BY <1>4, HoldersRemove
        <4> QED BY <4>1, <3>2, <2>1
      <3> QED BY <1>5, <3>1, <3>2
    <2>3. /\ Cardinality(Holders(leases', t)) =
               Cardinality(Holders(others, t)) + (IF t \in want THEN 1 ELSE 0)
          /\ Cardinality(OwnerHolders(leases', p, t)) =
               Cardinality(OwnerHolders(others, p, t)) + (IF o = p /\ t \in want THEN 1 ELSE 0)
      <3>1. /\ Cardinality(Holders(others \cup {n}, t)) =
                 Cardinality(Holders(others, t)) + (IF t \in n.tokens THEN 1 ELSE 0)
            /\ Cardinality(OwnerHolders(others \cup {n}, p, t)) =
                 Cardinality(OwnerHolders(others, p, t))
                   + (IF n.owner = p /\ t \in n.tokens THEN 1 ELSE 0)
        BY <1>1, <1>4, HoldersAdd
      <3> QED BY <3>1, <1>1, <1>2, <2>1, <2>2
    <2>4. total'[t] = Cardinality(Holders(leases', t))
      BY <1>6, <2>2, <2>3, <2>1 DEF DecTotal, IncTotal, Dec
    <2>5. total'[t] = 0 => Cardinality(OwnerHolders(leases', p, t)) = 0
      BY <2>4, <1>4, NoHolders
    <2>6. CASE t \in drop
      <3>1. counts'[t][p] = IF total[t] = 0 THEN counts[t][p]
                            ELSE IF total[t] = 1 THEN 0
                            ELSE IF o = p THEN Dec(counts[t][p]) ELSE counts[t][p]
        BY <1>6, <2>6 DEF DecCounts, SubsIInv, SubsTypeOK
      <3>2. total[t] = 1 => total'[t] = 0
        BY <1>6, <2>6 DEF DecTotal, Dec
      <3> QED BY <2>1, <2>2, <2>3, <2>4, <2>5, <2>6, <3>1, <3>2 DEF Dec
    <2>7. CASE t \notin drop
      <3>1. counts'[t][p] = counts[t][p] + (IF o = p /\ t \in add THEN 1 ELSE 0)
        BY <1>6, <2>7, <2>1 DEF IncCounts, SubsIInv, SubsTypeOK
      <3> QED BY <2>1, <2>2, <2>3, <2>4, <2>7, <3>1
    <2> QED BY <2>6, <2>7
  <1>10. RefcountsExact'
    BY <1>0, <1>9 DEF RefcountsExact
  <1>11. UpstreamExact' /\ StopThenReset'
    <2>1. \A t \in held : total[t] > 0
      BY <1>0, <1>3, <1>9
    <2> QED BY <1>3, <1>6, <2>1
            DEF SubsIInv, SubsTypeOK, UpstreamExact, StopThenReset, HeldTokens, DecTotal, IncTotal, Dec,
                Transport, New, Gone
  <1>12. LiveExact'
    <2>1. \A l \in leases' : l.owner \in LeaseOwners <=> l \in leases /\ l.owner \in LeaseOwners
      BY <1>0, <1>1, <1>2 DEF others
    <2>2. \A l \in leases : l.owner \in LeaseOwners => l \in leases'
      BY <1>0, <1>2 DEF others
    <2>3. \A l \in leases' : l \in leases \/ l = n
      BY <1>2 DEF others
    <2> QED BY <1>0, <1>1, <1>6, <2>1, <2>2, <2>3 DEF SubsIInv, LiveExact
  <1> QED BY <1>7, <1>8, <1>10, <1>11, <1>12 DEF SubsIInv

\* A stop takes every token off the feed and leaves the table alone.
LEMMA StopKeeps ==
    ASSUME SubsIInv, StopLane
    PROVE  SubsIInv'
  BY DEF SubsIInv, SubsTypeOK, LeaseKeys, RefcountsExact, UpstreamExact, StopThenReset, LiveExact,
         StopLane, HeldTokens, ZeroPerToken

\* The reset after the stop empties the table and tells the feed nothing: the tokens first held
\* since the stop stay on it; the live handles become spent ones.
LEMMA ResetKeeps ==
    ASSUME SubsIInv, ResetForBrokerSwitch
    PROVE  SubsIInv'
  <1>1. leases' = {} /\ live' = {} /\ leaseSeq' = leaseSeq
    BY DEF ResetForBrokerSwitch
  <1>2. SubsTypeOK'
    <2>1. spent' \in SUBSET (Owners \X Nat)
      <3>1. \A h \in live : <<h.owner, h.id>> \in Owners \X Nat
        BY DEF SubsIInv, SubsTypeOK, Lease
      <3> QED BY <3>1 DEF SubsIInv, SubsTypeOK, ResetForBrokerSwitch
    <2>2. stray' \in SUBSET Tokens /\ cut' \in SUBSET Tokens /\ stopped' \in BOOLEAN
      BY DEF ResetForBrokerSwitch, HeldTokens
    <2> QED BY <2>1, <2>2 DEF SubsIInv, SubsTypeOK, ResetForBrokerSwitch, NoCounts, ZeroPerToken
  <1>5. UpstreamExact' /\ StopThenReset'
    <2>1. /\ upstream' = upstream /\ cut' = {} /\ stray' = HeldTokens \ cut /\ ~stopped'
          /\ HeldTokens' = {} /\ stray = {} /\ HeldTokens \subseteq Tokens
      BY DEF ResetForBrokerSwitch, HeldTokens, ZeroPerToken, SubsIInv, StopThenReset
    <2>2. \A t \in Tokens : upstream[t] = (IF t \in HeldTokens \ cut THEN 1 ELSE 0) + (IF t \in stray THEN 1 ELSE 0)
      BY DEF SubsIInv, UpstreamExact
    <2> QED BY <2>1, <2>2 DEF UpstreamExact, StopThenReset
  <1>3. LeaseKeys' /\ LiveExact'
    BY <1>1, FS_EmptySet
    DEF SubsIInv, SubsTypeOK, LeaseKeys, LiveExact, ResetForBrokerSwitch, Lease
  <1>4. RefcountsExact'
    <2>1. \A t \in Tokens, o \in Owners :
            Holders(leases', t) = {} /\ OwnerHolders(leases', o, t) = {}
      BY <1>1 DEF Holders, OwnerHolders
    <2>2. \A t \in Tokens : Holders(leases', t) = {}
      BY <1>1 DEF Holders
    <2> QED BY <2>1, <2>2, FS_EmptySet
            DEF RefcountsExact, ResetForBrokerSwitch, NoCounts, ZeroPerToken
  <1> QED BY <1>2, <1>3, <1>4, <1>5 DEF SubsIInv

-----------------------------------------------------------------------------
(* The theorems                                                            *)

\* The empty table of a new Coordinator satisfies the invariant.
LEMMA SubsInitEstablishes == SubsInit => SubsIInv
  <1> SUFFICES ASSUME SubsInit PROVE SubsIInv
    OBVIOUS
  <1>1. \A t : Holders({}, t) = {}
    BY DEF Holders
  <1>2. \A o, t : OwnerHolders({}, o, t) = {}
    BY DEF OwnerHolders
  <1>3. RefcountsExact
    BY <1>1, <1>2, FS_EmptySet DEF RefcountsExact, SubsInit, NoCounts, ZeroPerToken
  <1>4. UpstreamExact /\ StopThenReset
    BY DEF UpstreamExact, StopThenReset, HeldTokens, SubsInit, ZeroPerToken
  <1>5. SubsTypeOK
    <2>1. stopped \in BOOLEAN
      BY DEF SubsInit
    <2>2. leaseSeq \in 0..MaxSeq
      BY MaxSeqAssumption DEF SubsInit
    <2>3. /\ leases \in SUBSET Lease /\ live \in SUBSET Lease /\ spent \in SUBSET (Owners \X Nat)
          /\ cut \in SUBSET Tokens /\ stray \in SUBSET Tokens
      BY DEF SubsInit
    <2>4. counts \in [Tokens -> [Owners -> Nat]] /\ total \in [Tokens -> Nat] /\ upstream \in [Tokens -> Nat]
      BY DEF SubsInit, NoCounts, ZeroPerToken
    <2> QED BY <2>1, <2>2, <2>3, <2>4 DEF SubsTypeOK
  <1> QED BY <1>3, <1>4, <1>5, FS_EmptySet
          DEF SubsIInv, LeaseKeys, LiveExact, SubsInit

\* One step of the table, or a step that leaves it alone, keeps the invariant.
LEMMA SubsStepKeeps == SubsIInv /\ [SubsNext]_subVars => SubsIInv'
  <1> SUFFICES ASSUME SubsIInv, [SubsNext]_subVars PROVE SubsIInv'
    OBVIOUS
  <1>1. CASE \E o \in LeaseOwners, T \in SUBSET Tokens : Acquire(o, T)
    BY <1>1, AcquireKeeps
  <1>2. CASE \E h \in live : Release(h)
    BY <1>2, ReleaseKeeps
  <1>3. CASE \E h \in spent : ReleaseAgain(h[1], h[2])
    BY <1>3, ReleaseAgainKeeps
  <1>4. CASE \E o \in SetOwners, want \in SUBSET Tokens : SetOwnerTokens(o, want)
    BY <1>4, SetOwnerTokensKeeps
  <1>5. CASE StopLane \/ ResetForBrokerSwitch
    BY <1>5, StopKeeps, ResetKeeps
  <1>6. CASE UNCHANGED subVars
    BY <1>6 DEF subVars, tableVars, laneFeed, SubsIInv, SubsTypeOK, LeaseKeys, RefcountsExact,
                UpstreamExact, StopThenReset, HeldTokens, LiveExact
  <1> QED BY <1>1, <1>2, <1>3, <1>4, <1>5, <1>6 DEF SubsNext

\* The inductive invariant holds in every reachable state of the table.
THEOREM SubsInvariant == SubsSpec => []SubsIInv
  BY SubsInitEstablishes, SubsStepKeeps, PTL DEF SubsSpec

\* The fields of the table keep their types.
THEOREM SubsTypes == SubsSpec => []SubsTypeOK
  <1>1. SubsIInv => SubsTypeOK
    BY DEF SubsIInv
  <1> QED BY <1>1, SubsInvariant, PTL

\* Reference counts equal numbers of leases after any sequence of calls.
THEOREM RefcountsAlwaysExact == SubsSpec => []RefcountsExact
  <1>1. SubsIInv => RefcountsExact
    BY DEF SubsIInv
  <1> QED BY <1>1, SubsInvariant, PTL

\* The feed is asked for the held tokens, each once, but for those a stop has cut off, and for
\* nothing else but those a reset has forgotten.
THEOREM UpstreamAlwaysExact == SubsSpec => []UpstreamExact
  <1>1. SubsIInv => UpstreamExact
    BY DEF SubsIInv
  <1> QED BY <1>1, SubsInvariant, PTL

\* No release, declaration or reuse of an id takes a live lease away.
THEOREM LiveLeasesAlwaysKept == SubsSpec => []LiveLeasesKept
  <1>1. SubsIInv => LiveLeasesKept
    BY DEF SubsIInv, LiveExact, LiveLeasesKept
  <1> QED BY <1>1, SubsInvariant, PTL

-----------------------------------------------------------------------------
(* What an owner holds                                                     *)

\* The counts name an owner's tokens exactly as its leases do.
LEMMA OwnedIsHeld == SubsIInv => \A o \in Owners : OwnedTokens(o) = HeldByLeases(o)
  <1> SUFFICES ASSUME SubsIInv, NEW o \in Owners PROVE OwnedTokens(o) = HeldByLeases(o)
    OBVIOUS
  <1>1. ASSUME NEW t \in Tokens
        PROVE  counts[t][o] > 0 <=> \E l \in leases : l.owner = o /\ t \in l.tokens
    <2>1. counts[t][o] = Cardinality(OwnerHolders(leases, o, t)) /\ counts[t][o] \in Nat
      BY DEF SubsIInv, RefcountsExact, SubsTypeOK
    <2>2. IsFiniteSet(OwnerHolders(leases, o, t))
      BY HoldersFinite DEF SubsIInv, LeaseKeys
    <2>3. counts[t][o] > 0 <=> OwnerHolders(leases, o, t) # {}
      BY <2>1, <2>2, FS_EmptySet
    <2> QED BY <2>3 DEF OwnerHolders
  <1>2. HeldByLeases(o) \subseteq Tokens
    BY DEF HeldByLeases, SubsIInv, SubsTypeOK, Lease
  <1> QED BY <1>1, <1>2 DEF OwnedTokens, HeldByLeases

\* The same of the next state.
LEMMA OwnedIsHeldNext == SubsIInv' => \A o \in Owners : OwnedTokens(o)' = HeldByLeases(o)'
  <1>1. (SubsIInv => \A o \in Owners : OwnedTokens(o) = HeldByLeases(o))'
    BY OwnedIsHeld, PTL
  <1> QED BY <1>1

\* After a declaration the owner holds what it declared.
LEMMA DeclaredIsOwned ==
    ASSUME SubsIInv, NEW o \in SetOwners, NEW want \in SUBSET Tokens, SetOwnerTokens(o, want)
    PROVE  SubsIInv' /\ OwnedTokens(o)' = want
  <1>1. SubsIInv' /\ o \in Owners
    BY SetOwnerTokensKeeps DEF Owners
  <1>2. OwnedTokens(o)' = HeldByLeases(o)'
    BY <1>1, OwnedIsHeldNext
  <1> DEFINE mine == {k \in leases' : k.owner = o}
  <1>3. CASE want = {}
    <2>1. mine = {}
      BY <1>3 DEF SetOwnerTokens
    <2> QED BY <1>1, <1>2, <1>3, <2>1 DEF HeldByLeases
  <1>4. CASE want # {}
    <2> DEFINE n == [owner |-> o, id |-> SetId, tokens |-> want]
    <2>1. mine = {n} /\ n.tokens = want
      BY <1>4 DEF SetOwnerTokens, AddLease
    <2> HIDE DEF n, mine
    <2>2. UNION {l.tokens : l \in mine} = want
      BY <2>1
    <2> QED BY <1>1, <1>2, <2>2 DEF HeldByLeases, mine
  <1> QED BY <1>3, <1>4

\* A lease of another owner that comes or goes changes nothing of an owner's tokens.
LEMMA OthersUndisturbed ==
    ASSUME SubsIInv, SubsIInv', NEW o \in Owners,
           {k \in leases' : k.owner = o} = {k \in leases : k.owner = o}
    PROVE  OwnedTokens(o)' = OwnedTokens(o)
  BY OwnedIsHeld, OwnedIsHeldNext DEF HeldByLeases

-----------------------------------------------------------------------------
(* Lane steps are steps of the table                                       *)

\* What a step of the lane does to the table and to the tokens of Fair Value: nothing, a lease
\* of the browser comes or goes, or Fair Value declares a set.
TableStep(a) ==
    /\ SubsIInv'
    /\ [SubsNext]_subVars
    /\ OwnedTokens(Analytics)' = a
    /\ stopped' = stopped

\* The new lease of a browser stream is live.
LEMMA StreamAcquireTable ==
    ASSUME LaneIInv, NEW s \in Streams, StreamAcquire(s)
    PROVE  TableStep(OwnedTokens(Analytics)) /\ NextLease(Browser, stream[s].tokens) \in live'
  <1>1. /\ Browser \in LeaseOwners /\ Browser # Analytics /\ Analytics \in Owners
        /\ stream[s].tokens \in SUBSET Tokens /\ SubsIInv
    BY LaneOwnersAssumption, OwnersAssumption DEF Owners, LaneIInv, LaneTypeOK
  <1>2. Acquire(Browser, stream[s].tokens)
    BY DEF StreamAcquire
  <1>3. SubsIInv'
    BY <1>1, <1>2, AcquireKeeps
  <1> DEFINE n == NextLease(Browser, stream[s].tokens)
  <1>4. n.owner = Browser /\ leases' = AddLease(leases, n) /\ live' = live \cup {n}
    BY <1>2 DEF Acquire, NextLease
  <1> HIDE DEF n
  <1>5. {k \in leases' : k.owner = Analytics} = {k \in leases : k.owner = Analytics}
    BY <1>1, <1>4 DEF AddLease
  <1>6. OwnedTokens(Analytics)' = OwnedTokens(Analytics)
    BY <1>1, <1>3, <1>5, OthersUndisturbed
  <1>7. stopped' = stopped
    BY <1>2 DEF Acquire, laneFeed
  <1> QED BY <1>1, <1>2, <1>3, <1>4, <1>6, <1>7 DEF TableStep, SubsNext, n

\* The lease that a stream gives back is the browser's, whether a switch has dropped it or not.
LEMMA StreamEndTable ==
    ASSUME LaneIInv, NEW s \in Streams, StreamEnd(s)
    PROVE  /\ TableStep(OwnedTokens(Analytics))
           /\ \A l \in live : l \in live' \/ <<l.owner, l.id>> \in spent'
           /\ spent \subseteq spent'
  <1> DEFINE l == stream[s].lease
  <1>1. /\ Browser \in LeaseOwners /\ Browser # Analytics /\ Analytics \in Owners
        /\ l.owner = Browser /\ (l \in live \/ <<l.owner, l.id>> \in spent) /\ SubsIInv
    BY LaneOwnersAssumption, OwnersAssumption DEF Owners, LaneIInv, StreamLeases, StreamEnd
  <1>2. \/ l \in live /\ Release(l)
        \/ l \notin live /\ ReleaseAgain(l.owner, l.id)
    BY DEF StreamEnd
  <1> HIDE DEF l
  <1>3. SubsIInv' /\ SubsNext
    <2>1. CASE l \in live /\ Release(l)
      BY <1>1, <2>1, ReleaseKeeps DEF SubsNext
    <2>2. CASE l \notin live /\ ReleaseAgain(l.owner, l.id)
      <3>1. PICK h \in spent : h = <<l.owner, l.id>>
        BY <1>1, <2>2
      <3>2. ReleaseAgain(h[1], h[2])
        BY <2>2, <3>1
      <3> QED BY <1>1, <3>2, ReleaseAgainKeeps DEF SubsNext
    <2> QED BY <1>2, <2>1, <2>2
  <1>4. {k \in leases' : k.owner = Analytics} = {k \in leases : k.owner = Analytics}
    BY <1>1, <1>2 DEF Release, ReleaseAgain, ReleaseLease
  <1>5. OwnedTokens(Analytics)' = OwnedTokens(Analytics)
    BY <1>1, <1>3, <1>4, OthersUndisturbed
  <1>6. (\A k \in live : k \in live' \/ <<k.owner, k.id>> \in spent') /\ spent \subseteq spent'
    BY <1>2 DEF Release, ReleaseAgain
  <1>7. stopped' = stopped
    BY <1>2 DEF Release, ReleaseAgain, ReleaseLease, laneFeed
  <1> QED BY <1>3, <1>5, <1>6, <1>7 DEF TableStep

\* A declaration by Fair Value: it owns what it declared.
LEMMA DeclareTable ==
    ASSUME LaneIInv, NEW want \in SUBSET Tokens, SetOwnerTokens(Analytics, want)
    PROVE  TableStep(want) /\ live' = live /\ spent' = spent
  <1>1. SubsIInv' /\ OwnedTokens(Analytics)' = want
    BY LaneOwnersAssumption, DeclaredIsOwned DEF LaneIInv
  <1>2. SubsNext /\ live' = live /\ spent' = spent /\ stopped' = stopped
    BY LaneOwnersAssumption DEF SubsNext, SetOwnerTokens, laneFeed
  <1> QED BY <1>1, <1>2 DEF TableStep

\* A step that leaves the table alone.
LEMMA NothingTable ==
    ASSUME LaneIInv, UNCHANGED subVars
    PROVE  TableStep(OwnedTokens(Analytics)) /\ live' = live /\ spent' = spent
  <1>1. SubsIInv'
    BY SubsStepKeeps DEF LaneIInv
  <1>2. OwnedTokens(Analytics)' = OwnedTokens(Analytics)
    BY DEF subVars, tableVars, OwnedTokens
  <1>3. live' = live /\ spent' = spent /\ stopped' = stopped
    BY DEF subVars, laneFeed
  <1> QED BY <1>1, <1>2, <1>3 DEF TableStep

\* The leases of open streams can be given back after the step as before it.
LeasesStay ==
    /\ \A l \in live : l \in live' \/ <<l.owner, l.id>> \in spent'
    /\ spent \subseteq spent'

\* A stream that is open after a step was open before it, with the same lease, or its lease is new.
LEMMA StreamLeasesKept ==
    ASSUME LaneIInv, LeasesStay,
           \A s \in Streams : stream'[s].pc = "open" =>
              \/ stream[s].pc = "open" /\ stream'[s].lease = stream[s].lease
              \/ stream'[s].lease.owner = Browser /\ stream'[s].lease \in live'
    PROVE  StreamLeases'
  BY DEF LaneIInv, StreamLeases, LeasesStay

\* The step is not one by which a switch begins or resets the table.
StopPhaseStays == phase' = "stopped" <=> phase = "stopped"

\* What has to be shown of a step.
LEMMA PartsKept ==
    ASSUME LaneIInv, NEW a, TableStep(a), LaneTypeOK', StreamLeases', CountingIsCurrent', ForgottenUntilStored',
           StopPhaseStays, phase' # "reset" => a = wanted', AnalyticsNamespace'
    PROVE  LaneIInv' /\ [SubsNext]_subVars
  <1>1. StoppedInSwitch'
    <2>1. StoppedInSwitch /\ stopped' = stopped
      BY DEF LaneIInv, TableStep
    <2> QED BY <2>1, Zenon DEF StopPhaseStays, StoppedInSwitch
  <1> QED BY <1>1 DEF TableStep, LaneIInv, AnalyticsShare, AnalyticsHoldsWanted

-----------------------------------------------------------------------------
(* Every step keeps the invariant                                          *)

\* A stream that has not begun is typed.
LEMMA IdleStreamTyped ==
    /\ IdleStream \in [pc : {"idle", "yielding", "yielded", "open"}, tokens : SUBSET Tokens,
                       priority : SUBSET Tokens, lease : Lease]
    /\ IdleStream.pc = "idle"
  BY LaneOwnersAssumption DEF IdleStream, NoLease, Lease, Owners

\* An empty lane.
LEMMA LaneInitEstablishes == LaneInit => LaneIInv
  <1> SUFFICES ASSUME LaneInit PROVE LaneIInv
    OBVIOUS
  <1>1. SubsIInv
    BY SubsInitEstablishes DEF LaneInit
  <1>2. LaneTypeOK /\ StreamLeases /\ CountingIsCurrent /\ ForgottenUntilStored /\ StoppedInSwitch
    BY IdleStreamTyped DEF LaneInit, SubsInit, IdleFlight, LaneTypeOK, StreamLeases, CountingIsCurrent, ForgottenUntilStored,
                            StoppedInSwitch
  <1>3. OwnedTokens(Analytics) = {}
    BY LaneOwnersAssumption DEF LaneInit, SubsInit, NoCounts, OwnedTokens, Owners
  <1> QED BY <1>1, <1>2, <1>3 DEF LaneInit, LaneIInv, AnalyticsShare, AnalyticsHoldsWanted, AnalyticsNamespace

\* The four steps of a stream.
LEMMA StreamStepKeeps ==
    ASSUME LaneIInv, NEW s \in Streams,
           \/ \E T \in SUBSET Tokens \ {{}} : StreamYieldRead(s, T)
           \/ StreamYield(s) \/ StreamAcquire(s) \/ StreamEnd(s)
    PROVE  LaneIInv' /\ [SubsNext]_subVars
  <1> USE DEF fvVars
  <1> DEFINE a == OwnedTokens(Analytics)
  <1>1. CASE \E T \in SUBSET Tokens \ {{}} : StreamYieldRead(s, T)
    <2>1. PICK T \in SUBSET Tokens \ {{}} : StreamYieldRead(s, T)
      BY <1>1
    <2>2. TableStep(a) /\ LeasesStay
      BY <2>1, NothingTable DEF StreamYieldRead, LeasesStay
    <2>3. LaneTypeOK'
      BY <2>1 DEF StreamYieldRead, LaneIInv, LaneTypeOK, PriorityHeld
    <2>4. StreamLeases'
      BY <2>1, <2>2, StreamLeasesKept DEF StreamYieldRead, LaneIInv, LaneTypeOK
    <2>5. CountingIsCurrent' /\ ForgottenUntilStored' /\ AnalyticsNamespace' /\ StopPhaseStays /\ (phase' # "reset" => a = wanted')
      BY <2>1 DEF StopPhaseStays, StreamYieldRead, LaneIInv, CountingIsCurrent, ForgottenUntilStored, AnalyticsShare,
                  AnalyticsHoldsWanted, AnalyticsNamespace
    <2> QED BY <2>2, <2>3, <2>4, <2>5, PartsKept
  <1>2. CASE StreamYield(s)
    <2>1. \/ UNCHANGED <<subVars, wanted>>
          \/ wanted' \subseteq wanted /\ SetOwnerTokens(Analytics, wanted')
      BY <1>2 DEF StreamYield, YieldKeeps
    <2>2. /\ fv.pc # "counting" /\ UNCHANGED <<wantedGen, fv, paused, generation, phase>>
          /\ stream' = [stream EXCEPT ![s].pc = "yielded"]
          /\ wanted' \subseteq wanted
      BY <1>2, <2>1 DEF StreamYield, EngineFree
    <2>3. LaneTypeOK'
      BY <2>2 DEF LaneIInv, LaneTypeOK
    <2>4. \A r \in Streams : stream'[r].pc = "open" => stream[r].pc = "open" /\ stream'[r].lease = stream[r].lease
      BY <2>2 DEF LaneIInv, LaneTypeOK
    <2>5. CountingIsCurrent' /\ ForgottenUntilStored' /\ AnalyticsNamespace' /\ StopPhaseStays
      BY <2>2 DEF StopPhaseStays, LaneIInv, CountingIsCurrent, ForgottenUntilStored, AnalyticsShare, AnalyticsNamespace
    <2>6. CASE UNCHANGED <<subVars, wanted>>
      <3>1. TableStep(a) /\ LeasesStay
        BY <2>6, NothingTable DEF LeasesStay
      <3>2. phase' # "reset" => a = wanted'
        BY <2>2, <2>6 DEF LaneIInv, AnalyticsShare, AnalyticsHoldsWanted
      <3> QED BY <2>3, <2>4, <2>5, <3>1, <3>2, StreamLeasesKept, PartsKept
    <2>7. CASE wanted' \subseteq wanted /\ SetOwnerTokens(Analytics, wanted')
      <3>1. TableStep(wanted') /\ LeasesStay
        <4>1. wanted' \in SUBSET Tokens
          BY <2>2 DEF LaneIInv, LaneTypeOK
        <4> QED BY <2>7, <4>1, DeclareTable DEF LeasesStay
      <3> QED BY <2>3, <2>4, <2>5, <3>1, StreamLeasesKept, PartsKept
    <2> QED BY <2>1, <2>6, <2>7
  <1>3. CASE StreamAcquire(s)
    <2>1. TableStep(a) /\ NextLease(Browser, stream[s].tokens) \in live'
      BY <1>3, StreamAcquireTable
    <2>2. LeasesStay
      BY <1>3 DEF StreamAcquire, Acquire, LeasesStay
    <2> DEFINE n == NextLease(Browser, stream[s].tokens)
    <2>3. /\ UNCHANGED <<wanted, wantedGen, fv, paused, generation, phase>>
          /\ stream' = [stream EXCEPT ![s] = [stream[s] EXCEPT !.pc = "open", !.lease = n]]
          /\ n.owner = Browser /\ n \in live'
      BY <1>3, <2>1 DEF StreamAcquire, NextLease
    <2>4. n \in Lease
      BY <2>1 DEF TableStep, SubsIInv, SubsTypeOK
    <2> HIDE DEF n
    <2>5. LaneTypeOK'
      BY <2>3, <2>4 DEF LaneIInv, LaneTypeOK
    <2>6. StreamLeases'
      BY <2>2, <2>3, StreamLeasesKept DEF LaneIInv, LaneTypeOK
    <2>7. CountingIsCurrent' /\ ForgottenUntilStored' /\ AnalyticsNamespace' /\ StopPhaseStays /\ (phase' # "reset" => a = wanted')
      BY <2>3 DEF StopPhaseStays, LaneIInv, CountingIsCurrent, ForgottenUntilStored, AnalyticsShare,
                  AnalyticsHoldsWanted, AnalyticsNamespace
    <2> QED BY <2>1, <2>5, <2>6, <2>7, PartsKept
  <1>4. CASE StreamEnd(s)
    <2>1. TableStep(a) /\ LeasesStay
      BY <1>4, StreamEndTable DEF LeasesStay
    <2>2. /\ UNCHANGED <<wanted, wantedGen, fv, paused, generation, phase>>
          /\ stream' = [stream EXCEPT ![s] = IdleStream]
      BY <1>4 DEF StreamEnd
    <2>4. LaneTypeOK'
      BY <2>2, IdleStreamTyped DEF LaneIInv, LaneTypeOK
    <2>5. StreamLeases'
      BY <2>1, <2>2, IdleStreamTyped, StreamLeasesKept DEF LaneIInv, LaneTypeOK
    <2>6. CountingIsCurrent' /\ ForgottenUntilStored' /\ AnalyticsNamespace' /\ StopPhaseStays /\ (phase' # "reset" => a = wanted')
      BY <2>2 DEF StopPhaseStays, LaneIInv, CountingIsCurrent, ForgottenUntilStored, AnalyticsShare,
                  AnalyticsHoldsWanted, AnalyticsNamespace
    <2> QED BY <2>1, <2>4, <2>5, <2>6, PartsKept
  <1> QED BY <1>1, <1>2, <1>3, <1>4

\* A step that leaves the streams, the table, the tokens of Fair Value and the phase alone.
LEMMA EngineOnlyKeeps ==
    ASSUME LaneIInv, UNCHANGED <<subVars, stream, wanted, wantedGen, generation, phase>>, CountingIsCurrent'
    PROVE  LaneIInv' /\ [SubsNext]_subVars
  <1>1. TableStep(OwnedTokens(Analytics)) /\ LeasesStay
    BY NothingTable DEF LeasesStay
  <1>2. LaneTypeOK' /\ StreamLeases'
    BY <1>1, StreamLeasesKept DEF LaneIInv, LaneTypeOK
  <1>3. ForgottenUntilStored' /\ AnalyticsNamespace' /\ StopPhaseStays /\ (phase' # "reset" => OwnedTokens(Analytics) = wanted')
    BY DEF StopPhaseStays, LaneIInv, ForgottenUntilStored, AnalyticsShare, AnalyticsHoldsWanted, AnalyticsNamespace
  <1> QED BY <1>1, <1>2, <1>3, PartsKept

\* A declaration that leaves the streams alone.
LEMMA DeclaringKeeps ==
    ASSUME LaneIInv, wanted' \in SUBSET Tokens, SetOwnerTokens(Analytics, wanted'), UNCHANGED stream,
           phase' \in {phase, "invalidated"},
           CountingIsCurrent', ForgottenUntilStored', AnalyticsNamespace', StopPhaseStays
    PROVE  LaneIInv' /\ [SubsNext]_subVars
  <1>1. TableStep(wanted') /\ LeasesStay
    BY DeclareTable DEF LeasesStay
  <1>2. LaneTypeOK' /\ StreamLeases'
    BY <1>1, StreamLeasesKept DEF LaneIInv, LaneTypeOK
  <1> QED BY <1>1, <1>2, PartsKept

\* A rebuild: the check after the fetch, with e.mu held until the set is declared, is what
\* makes the generation it read still the right one.
LEMMA RebuildKeeps ==
    ASSUME LaneIInv, RebuildSteps
    PROVE  LaneIInv' /\ [SubsNext]_subVars
  <1>1. CASE RebuildBegin
    <2>1. CountingIsCurrent'
      BY <1>1 DEF RebuildBegin, CountingIsCurrent, LaneIInv
    <2> QED BY <1>1, <2>1, EngineOnlyKeeps DEF RebuildBegin
  <1>2. CASE RebuildAbort
    <2>1. CountingIsCurrent'
      BY <1>2 DEF RebuildAbort, IdleFlight, CountingIsCurrent
    <2> QED BY <1>2, <2>1, EngineOnlyKeeps DEF RebuildAbort
  <1>3. CASE RebuildLock
    <2>1. CountingIsCurrent'
      BY <1>3 DEF RebuildLock, StillValid, switching, CountingIsCurrent
    <2> QED BY <1>3, <2>1, EngineOnlyKeeps DEF RebuildLock
  <1>4. CASE \E t \in Tokens : RebuildCount(t)
    <2>1. CountingIsCurrent'
      BY <1>4 DEF RebuildCount, CountingIsCurrent, LaneIInv
    <2> QED BY <1>4, <2>1, EngineOnlyKeeps DEF RebuildCount
  <1>5. CASE \E next \in SUBSET Tokens : RebuildApply(next)
    <2>1. PICK next \in SUBSET Tokens : RebuildApply(next)
      BY <1>5
    <2>2. /\ fv.pc = "counting" /\ wanted' = next /\ SetOwnerTokens(Analytics, wanted')
          /\ wantedGen' = fv.gen /\ fv'.pc = "idle" /\ UNCHANGED <<stream, generation, phase>>
      BY <2>1 DEF RebuildApply, IdleFlight
    <2>3. fv.gen = generation /\ phase # "invalidated"
      BY <2>2 DEF LaneIInv, CountingIsCurrent
    <2>4. CountingIsCurrent' /\ ForgottenUntilStored' /\ AnalyticsNamespace' /\ StopPhaseStays
      BY <2>2, <2>3 DEF StopPhaseStays, CountingIsCurrent, ForgottenUntilStored, AnalyticsNamespace
    <2> QED BY <2>2, <2>4, DeclaringKeeps
  <1> QED BY <1>1, <1>2, <1>3, <1>4, <1>5 DEF RebuildSteps

\* Fair Value lets go of its tokens, or of nothing.
LEMMA LettingGoKeeps ==
    ASSUME LaneIInv, CycleInvalidates \/ FeedInvalidates \/ Pause \/ Resume
    PROVE  LaneIInv' /\ [SubsNext]_subVars
  <1>1. CASE CycleInvalidates \/ Pause
    <2>1. /\ fv.pc # "counting" /\ wanted' = {} /\ SetOwnerTokens(Analytics, wanted')
          /\ UNCHANGED <<stream, fv, generation, phase>>
      BY <1>1 DEF CycleInvalidates, Pause, ReleaseSubscriptions, EngineFree
    <2>2. CountingIsCurrent' /\ ForgottenUntilStored' /\ AnalyticsNamespace' /\ StopPhaseStays
      BY <2>1 DEF StopPhaseStays, CountingIsCurrent, ForgottenUntilStored, AnalyticsNamespace
    <2> QED BY <2>1, <2>2, DeclaringKeeps
  <1>2. CASE FeedInvalidates \/ Resume
    <2>1. UNCHANGED <<subVars, stream, wanted, wantedGen, fv, generation, phase>>
      BY <1>2 DEF FeedInvalidates, Resume
    <2>2. CountingIsCurrent'
      BY <2>1 DEF LaneIInv, CountingIsCurrent
    <2> QED BY <2>1, <2>2, EngineOnlyKeeps
  <1> QED BY <1>1, <1>2

\* The switch: the reset empties the table under Fair Value's feet, InvalidateNamespace makes
\* Fair Value forget, and only then the generation changes.
LEMMA SwitchKeeps ==
    ASSUME LaneIInv, SwitchBegin \/ SwitchSteps
    PROVE  LaneIInv' /\ [SubsNext]_subVars
  <1> USE DEF fvVars
  <1>1. CASE SwitchReset \/ SwitchBegin
    <2>1. /\ \/ phase = "stopped" /\ phase' = "reset" /\ ResetForBrokerSwitch
             \/ phase = "none" /\ phase' = "stopped" /\ StopLane
          /\ UNCHANGED <<stream, wanted, wantedGen, fv, generation>>
      BY <1>1 DEF SwitchReset, SwitchBegin
    <2>2. SubsIInv' /\ SubsNext
      BY <2>1, ResetKeeps, StopKeeps DEF LaneIInv, SubsNext
    <2>3. LeasesStay /\ StoppedInSwitch'
      <3>1. CASE phase = "stopped" /\ phase' = "reset" /\ ResetForBrokerSwitch
        BY <3>1 DEF LeasesStay, StoppedInSwitch, ResetForBrokerSwitch
      <3>2. CASE phase = "none" /\ phase' = "stopped" /\ StopLane
        BY <3>2 DEF LeasesStay, StoppedInSwitch, StopLane
      <3> QED BY <2>1, <3>1, <3>2
    <2>4. LaneTypeOK' /\ StreamLeases'
      <3>1. StreamLeases'
        BY <2>1, <2>3, StreamLeasesKept DEF LaneIInv, LaneTypeOK
      <3> QED BY <2>1, <3>1 DEF LaneIInv, LaneTypeOK
    <2>5. CountingIsCurrent' /\ ForgottenUntilStored' /\ AnalyticsNamespace'
      BY <2>1 DEF LaneIInv, CountingIsCurrent, ForgottenUntilStored, AnalyticsShare, AnalyticsNamespace
    <2>6. AnalyticsHoldsWanted'
      <3>1. CASE phase' = "reset"
        BY <3>1 DEF AnalyticsHoldsWanted
      <3>2. CASE phase = "none" /\ StopLane
        <4>1. OwnedTokens(Analytics)' = OwnedTokens(Analytics)
          BY <3>2 DEF StopLane, OwnedTokens
        <4> QED BY <2>1, <3>2, <4>1 DEF LaneIInv, AnalyticsShare, AnalyticsHoldsWanted
      <3> QED BY <2>1, <3>1, <3>2
    <2> QED BY <2>2, <2>3, <2>4, <2>5, <2>6 DEF LaneIInv, AnalyticsShare
  <1>2. CASE SwitchInvalidate
    <2>1. /\ fv.pc # "counting" /\ wanted' = {} /\ SetOwnerTokens(Analytics, wanted')
          /\ phase = "reset" /\ phase' = "invalidated" /\ UNCHANGED <<stream, fv, generation>>
      BY <1>2 DEF SwitchInvalidate, ReleaseSubscriptions, EngineFree
    <2>2. CountingIsCurrent' /\ ForgottenUntilStored' /\ AnalyticsNamespace' /\ StopPhaseStays
      BY <2>1 DEF StopPhaseStays, CountingIsCurrent, ForgottenUntilStored, AnalyticsNamespace
    <2> QED BY <2>1, <2>2, DeclaringKeeps
  <1>3. CASE SwitchStore \/ SwitchEnd
    <2>1. /\ UNCHANGED <<subVars, stream, wanted, wantedGen, fv>>
          /\ \/ phase = "invalidated" /\ phase' = "stored"
             \/ phase = "stored" /\ phase' = "none" /\ generation' = generation
      BY <1>3 DEF SwitchStore, SwitchEnd
    <2>2. TableStep(OwnedTokens(Analytics)) /\ LeasesStay
      BY <2>1, NothingTable DEF LeasesStay
    <2>3. LaneTypeOK' /\ StreamLeases'
      BY <2>1, <2>2, StreamLeasesKept DEF LaneIInv, LaneTypeOK
    <2>4. CountingIsCurrent' /\ ForgottenUntilStored' /\ AnalyticsNamespace' /\ StopPhaseStays
      BY <2>1 DEF StopPhaseStays, LaneIInv, CountingIsCurrent, ForgottenUntilStored, AnalyticsShare, AnalyticsNamespace
    <2>5. phase' # "reset" => OwnedTokens(Analytics) = wanted'
      BY <2>1 DEF LaneIInv, AnalyticsShare, AnalyticsHoldsWanted
    <2> QED BY <2>2, <2>3, <2>4, <2>5, PartsKept
  <1> QED BY <1>1, <1>2, <1>3 DEF SwitchSteps

\* Every step keeps the invariant, and does to the table what one of its own steps does.
LEMMA LaneStepKeeps == LaneIInv /\ [LaneNext]_laneVars => LaneIInv' /\ [SubsNext]_subVars
  <1>1. ASSUME LaneIInv, UNCHANGED laneVars
        PROVE  LaneIInv' /\ [SubsNext]_subVars
    <2>1. CountingIsCurrent'
      BY <1>1 DEF laneVars, fvVars, LaneIInv, CountingIsCurrent
    <2> QED BY <1>1, <2>1, EngineOnlyKeeps DEF laneVars, fvVars
  <1> QED BY <1>1, StreamStepKeeps, RebuildKeeps, LettingGoKeeps, SwitchKeeps DEF LaneNext

-----------------------------------------------------------------------------
(* The theorems                                                            *)

\* The inductive invariant of the lane.
THEOREM LaneInvariant == LaneSpec => []LaneIInv
  BY LaneInitEstablishes, LaneStepKeeps, PTL DEF LaneSpec

\* Outside the reset window Fair Value holds what it believes, and nothing of an earlier broker.
THEOREM AnalyticsAlwaysShares == LaneSpec => []AnalyticsShare
  <1>1. LaneIInv => AnalyticsShare
    BY DEF LaneIInv
  <1> QED BY <1>1, LaneInvariant, PTL

\* The lane uses the table as the table expects: what streams, Fair Value and the switch do
\* to it, in any order, are calls that the table's own theorems cover.
THEOREM LaneUsesTable == LaneSpec => SubsSpec
  <1>1. LaneInit => SubsInit
    BY DEF LaneInit
  <1> QED BY <1>1, LaneInvariant, LaneStepKeeps, PTL DEF LaneSpec, SubsSpec

\* So the counts of a lane in use are exact, the transport has exactly the held tokens, and
\* open streams keep their leases.
THEOREM LaneCountsExact == LaneSpec => [](RefcountsExact /\ UpstreamExact /\ LiveLeasesKept)
  BY LaneUsesTable, RefcountsAlwaysExact, UpstreamAlwaysExact, LiveLeasesAlwaysKept, PTL
=============================================================================
