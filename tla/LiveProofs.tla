----------------------------- MODULE LiveProofs -----------------------------
(***************************************************************************)
(* Proofs about the components of MCLive, for every value of their         *)
(* constants: the historical gate, Dhan's pacing lock, a browser's stream, *)
(* the shutdown of the process, the scanner's trading rules and the queue  *)
(* of a Dhan lane.                                                         *)
(***************************************************************************)
EXTENDS MCLive, SequenceTheorems, FiniteSetTheorems, TLAPS

-----------------------------------------------------------------------------
(* Queues without repetitions                                              *)

\* The set of entries of a sequence, by position.
LEMMA RangeByPosition ==
    ASSUME NEW S, NEW q \in Seq(S)
    PROVE  /\ Range(q) = {q[i] : i \in 1..Len(q)}
           /\ IsInjective(q) <=> \A i, j \in 1..Len(q) : q[i] = q[j] => i = j
  BY DEF Range, IsInjective

\* Only the empty queue has no entries.
LEMMA EmptyQueue ==
    ASSUME NEW S, NEW q \in Seq(S)
    PROVE  q = <<>> <=> Range(q) = {}
  <1>1. Len(q) = 0 <=> q = <<>>
    BY EmptySeq, LenProperties
  <1> QED BY <1>1, RangeByPosition, LenProperties

\* Taking the first entry removes it and keeps the others (queue = queue[1:]).
LEMMA TailQueue ==
    ASSUME NEW S, NEW q \in Seq(S), q # <<>>, IsInjective(q)
    PROVE  /\ Head(q) \in Range(q) /\ Tail(q) \in Seq(S)
           /\ IsInjective(Tail(q)) /\ Range(Tail(q)) = Range(q) \ {Head(q)}
  <1>1. /\ Head(q) = q[1] /\ Tail(q) \in Seq(S) /\ Len(q) \in Nat \ {0}
        /\ Len(Tail(q)) = Len(q) - 1 /\ \A i \in 1..Len(Tail(q)) : Tail(q)[i] = q[i + 1]
    BY HeadTailProperties, EmptySeq
  <1>2. \A i, j \in 1..Len(q) : q[i] = q[j] => i = j
    BY RangeByPosition
  <1>3. IsInjective(Tail(q))
    <2>1. \A i, j \in 1..Len(Tail(q)) : Tail(q)[i] = Tail(q)[j] => i = j
      BY <1>1, <1>2
    <2> QED BY <1>1, <2>1, RangeByPosition
  <1>4. Range(Tail(q)) = {q[i] : i \in 2..Len(q)}
    <2>1. Range(Tail(q)) = {Tail(q)[i] : i \in 1..Len(q) - 1}
      BY <1>1, RangeByPosition
    <2>2. \A i \in 1..Len(q) - 1 : Tail(q)[i] = q[i + 1] /\ i + 1 \in 2..Len(q)
      BY <1>1
    <2>3. \A i \in 2..Len(q) : i - 1 \in 1..Len(q) - 1 /\ Tail(q)[i - 1] = q[i]
      BY <1>1
    <2> QED BY <2>1, <2>2, <2>3
  <1>5. Range(q) = {q[i] : i \in 1..Len(q)}
    BY RangeByPosition
  <1> QED BY <1>1, <1>2, <1>3, <1>4, <1>5

\* A new entry at any position adds exactly that entry.
LEMMA InsertQueue ==
    ASSUME NEW S, NEW q \in Seq(S), IsInjective(q), NEW e \in S, e \notin Range(q),
           NEW i \in 1..Len(q) + 1
    PROVE  /\ InsertAt(q, i, e) \in Seq(S) /\ Len(InsertAt(q, i, e)) = Len(q) + 1
           /\ \A j \in 1..Len(q) + 1 :
                InsertAt(q, i, e)[j] = IF j < i THEN q[j] ELSE IF j = i THEN e ELSE q[j - 1]
           /\ IsInjective(InsertAt(q, i, e)) /\ Range(InsertAt(q, i, e)) = Range(q) \cup {e}
  <1> DEFINE a == SubSeq(q, 1, i - 1)
             b == SubSeq(q, i, Len(q))
             r == InsertAt(q, i, e)
  <1>1. Len(q) \in Nat /\ \A j \in 1..Len(q) : q[j] \in S
    BY LenProperties, ElementOfSeq
  <1>2. a \in Seq(S) /\ Len(a) = i - 1 /\ \A j \in 1..i - 1 : a[j] = q[j]
    BY <1>1, SubSeqProperties
  <1>3. b \in Seq(S) /\ Len(b) = Len(q) - i + 1 /\ \A j \in 1..Len(q) - i + 1 : b[j] = q[i + j - 1]
    BY <1>1, SubSeqProperties
  <1>4. <<e>> \in Seq(S) /\ Len(<<e>>) = 1 /\ <<e>>[1] = e
    OBVIOUS
  <1>5. /\ a \o <<e>> \in Seq(S) /\ Len(a \o <<e>>) = i
        /\ \A j \in 1..i : (a \o <<e>>)[j] = IF j < i THEN q[j] ELSE e
    BY <1>1, <1>2, <1>4, ConcatProperties
  <1>6. /\ r \in Seq(S) /\ Len(r) = Len(q) + 1
        /\ \A j \in 1..Len(q) + 1 : r[j] = IF j <= i THEN (a \o <<e>>)[j] ELSE b[j - i]
    <2> HIDE DEF a, b
    <2> DEFINE h == a \o <<e>>
    <2> HIDE DEF h
    <2>1. r = h \o b
      BY DEF InsertAt, a, b, h
    <2>2. h \in Seq(S) /\ Len(h) = i /\ b \in Seq(S) /\ Len(b) = Len(q) - i + 1
      BY <1>3, <1>5 DEF h
    <2>3. /\ h \o b \in Seq(S) /\ Len(h \o b) = Len(h) + Len(b)
          /\ \A j \in 1..Len(h) + Len(b) : (h \o b)[j] = IF j <= Len(h) THEN h[j] ELSE b[j - Len(h)]
      BY <2>2, ConcatProperties
    <2>4. Len(h) + Len(b) = Len(q) + 1
      BY <1>1, <2>2
    <2> QED BY <1>1, <2>1, <2>2, <2>3, <2>4 DEF h
  <1> HIDE DEF a, b, r
  <1>7. \A j \in 1..Len(q) + 1 : r[j] = IF j < i THEN q[j] ELSE IF j = i THEN e ELSE q[j - 1]
    <2> TAKE j \in 1..Len(q) + 1
    <2>1. CASE j <= i
      <3>1. j \in 1..i
        BY <1>1, <2>1
      <3> QED BY <1>5, <1>6, <2>1, <3>1
    <2>2. CASE j > i
      <3>1. j - i \in 1..Len(q) - i + 1 /\ i + (j - i) - 1 = j - 1
        BY <1>1, <2>2
      <3>2. b[j - i] = q[i + (j - i) - 1]
        BY <1>3, <3>1
      <3>3. r[j] = b[j - i]
        BY <1>1, <1>6, <2>2
      <3> QED BY <1>1, <2>2, <3>1, <3>2, <3>3
    <2> QED BY <1>1, <2>1, <2>2
  <1>8. (\A j, k \in 1..Len(q) : q[j] = q[k] => j = k) /\ Range(q) = {q[j] : j \in 1..Len(q)}
    BY RangeByPosition
  <1>9. \A j, k \in 1..Len(r) : r[j] = r[k] => j = k
    <2>1. \A j \in 1..Len(q) : q[j] # e
      BY <1>8
    <2>2. ASSUME NEW j \in 1..Len(q) + 1, NEW k \in 1..Len(q) + 1, j < k
          PROVE  r[j] # r[k]
      <3>1. CASE j < i
        BY <1>1, <1>7, <1>8, <2>1, <2>2, <3>1
      <3>2. CASE j >= i
        <4>1. r[j] = e \/ (r[j] = q[j - 1] /\ j - 1 \in 1..Len(q))
          BY <1>1, <1>7, <3>2
        <4>2. r[k] = q[k - 1] /\ k - 1 \in 1..Len(q) /\ k - 1 # j - 1
          BY <1>1, <1>7, <2>2, <3>2
        <4>3. CASE r[j] = e
          BY <2>1, <4>2, <4>3
        <4>4. CASE r[j] = q[j - 1] /\ j - 1 \in 1..Len(q)
          BY <1>8, <4>2, <4>4
        <4> QED BY <4>1, <4>3, <4>4
      <3> QED BY <1>1, <3>1, <3>2
    <2> QED BY <1>1, <1>6, <2>2
  <1>10. Range(r) = Range(q) \cup {e}
    <2>1. Range(r) = {r[j] : j \in 1..Len(q) + 1}
      BY <1>6, RangeByPosition
    <2>2. \A j \in 1..Len(q) + 1 : r[j] \in Range(q) \cup {e}
      BY <1>1, <1>7, <1>8
    <2>3. \A j \in 1..Len(q) : \E k \in 1..Len(q) + 1 : r[k] = q[j]
      <3> TAKE j \in 1..Len(q)
      <3>1. CASE j < i
        BY <1>1, <1>7, <3>1
      <3>2. CASE j >= i
        <4>1. j + 1 \in 1..Len(q) + 1 /\ r[j + 1] = q[j]
          BY <1>1, <1>7, <3>2
        <4> QED BY <4>1
      <3> QED BY <1>1, <3>1, <3>2
    <2>4. i \in 1..Len(q) + 1 /\ r[i] = e
      BY <1>1, <1>7
    <2>5. Range(r) \subseteq Range(q) \cup {e}
      BY <2>1, <2>2
    <2>6. e \in Range(r)
      BY <2>1, <2>4
    <2>7. Range(q) \subseteq Range(r)
      BY <1>8, <2>1, <2>3
    <2> QED BY <2>5, <2>6, <2>7
  <1> QED BY <1>6, <1>7, <1>9, <1>10, RangeByPosition DEF r

\* A new last entry adds exactly that entry (append).
LEMMA AppendQueue ==
    ASSUME NEW S, NEW q \in Seq(S), IsInjective(q), NEW e \in S, e \notin Range(q)
    PROVE  /\ Append(q, e) \in Seq(S)
           /\ IsInjective(Append(q, e)) /\ Range(Append(q, e)) = Range(q) \cup {e}
  <1> DEFINE r == Append(q, e)
  <1>1. /\ Len(q) \in Nat /\ r \in Seq(S) /\ Len(r) = Len(q) + 1
        /\ \A i \in 1..Len(q) : r[i] = q[i]
        /\ r[Len(q) + 1] = e
    BY AppendProperties, LenProperties
  <1> HIDE DEF r
  <1>2. (\A j, k \in 1..Len(q) : q[j] = q[k] => j = k) /\ Range(q) = {q[j] : j \in 1..Len(q)}
    BY RangeByPosition
  <1>3. \A j, k \in 1..Len(r) : r[j] = r[k] => j = k
    BY <1>1, <1>2
  <1>4. Range(r) = Range(q) \cup {e}
    <2>1. Range(r) = {r[j] : j \in 1..Len(q) + 1}
      BY <1>1, RangeByPosition
    <2>2. \A j \in 1..Len(q) + 1 : j \in 1..Len(q) \/ j = Len(q) + 1
      BY <1>1
    <2>3. 1..Len(q) \subseteq 1..Len(q) + 1 /\ Len(q) + 1 \in 1..Len(q) + 1
      BY <1>1
    <2> QED BY <1>1, <1>2, <2>1, <2>2, <2>3
  <1> QED BY <1>1, <1>3, <1>4, RangeByPosition DEF r

\* Removing an entry removes exactly that entry.
LEMMA RemoveQueue ==
    ASSUME NEW S, NEW q \in Seq(S), IsInjective(q), NEW i \in 1..Len(q)
    PROVE  /\ RemoveAt(q, i) \in Seq(S) /\ Len(RemoveAt(q, i)) = Len(q) - 1
           /\ \A j \in 1..Len(q) - 1 : RemoveAt(q, i)[j] = IF j < i THEN q[j] ELSE q[j + 1]
           /\ IsInjective(RemoveAt(q, i)) /\ Range(RemoveAt(q, i)) = Range(q) \ {q[i]}
  <1> DEFINE a == SubSeq(q, 1, i - 1)
             b == SubSeq(q, i + 1, Len(q))
             r == RemoveAt(q, i)
  <1>1. Len(q) \in Nat /\ \A j \in 1..Len(q) : q[j] \in S
    BY LenProperties, ElementOfSeq
  <1>2. a \in Seq(S) /\ Len(a) = i - 1 /\ \A j \in 1..i - 1 : a[j] = q[j]
    BY <1>1, SubSeqProperties
  <1>3. b \in Seq(S) /\ Len(b) = Len(q) - i /\ \A j \in 1..Len(q) - i : b[j] = q[i + j]
    BY <1>1, SubSeqProperties
  <1>4. /\ r \in Seq(S) /\ Len(r) = Len(q) - 1
        /\ \A j \in 1..Len(q) - 1 : r[j] = IF j <= i - 1 THEN a[j] ELSE b[j - (i - 1)]
    <2> HIDE DEF a, b
    <2>1. r = a \o b
      BY DEF RemoveAt, a, b
    <2>2. /\ a \o b \in Seq(S) /\ Len(a \o b) = Len(a) + Len(b)
          /\ \A j \in 1..Len(a) + Len(b) : (a \o b)[j] = IF j <= Len(a) THEN a[j] ELSE b[j - Len(a)]
      BY <1>2, <1>3, ConcatProperties
    <2>3. Len(a) + Len(b) = Len(q) - 1
      BY <1>1, <1>2, <1>3
    <2> QED BY <1>2, <2>1, <2>2, <2>3
  <1> HIDE DEF a, b, r
  <1>5. \A j \in 1..Len(q) - 1 : r[j] = IF j < i THEN q[j] ELSE q[j + 1]
    BY <1>1, <1>2, <1>3, <1>4
  <1>6. (\A j, k \in 1..Len(q) : q[j] = q[k] => j = k) /\ Range(q) = {q[j] : j \in 1..Len(q)}
    BY RangeByPosition
  <1>7. \A j, k \in 1..Len(r) : r[j] = r[k] => j = k
    BY <1>1, <1>4, <1>5, <1>6
  <1>8. Range(r) = Range(q) \ {q[i]}
    <2>1. Range(r) = {r[j] : j \in 1..Len(q) - 1}
      BY <1>4, RangeByPosition
    <2>2. \A j \in 1..Len(q) - 1 : r[j] \in Range(q) \ {q[i]}
      BY <1>1, <1>5, <1>6
    <2>3. \A j \in 1..Len(q) : j # i => \E k \in 1..Len(q) - 1 : r[k] = q[j]
      <3> SUFFICES ASSUME NEW j \in 1..Len(q), j # i
                   PROVE  \E k \in 1..Len(q) - 1 : r[k] = q[j]
        OBVIOUS
      <3>1. CASE j < i
        BY <1>1, <1>5, <3>1
      <3>2. CASE j > i
        <4>1. j - 1 \in 1..Len(q) - 1 /\ r[j - 1] = q[j]
          BY <1>1, <1>5, <3>2
        <4> QED BY <4>1
      <3> QED BY <1>1, <3>1, <3>2
    <2>4. \A x \in Range(q) \ {q[i]} : \E k \in 1..Len(q) - 1 : r[k] = x
      BY <1>6, <2>3
    <2> QED BY <2>1, <2>2, <2>4
  <1> QED BY <1>4, <1>5, <1>7, <1>8, RangeByPosition DEF r

-----------------------------------------------------------------------------
(* The historical gate                                                     *)

\* release by the only owner, who has left pos behind: the next waiter becomes the only owner,
\* or the gate is free.
LEMMA ReleaseHandsOver ==
    ASSUME waiting \in Seq(Requests), IsInjective(waiting), InteractiveFirst, busy = TRUE,
           NEW pos \in [Requests -> {"new", "waiting", "handed", "gap", "running", "over"}],
           Range(waiting) = {c \in Requests : pos[c] = "waiting"},
           released' \subseteq Requests,
           \A c \in Requests : pos[c] \in {"new", "waiting", "handed"} => c \notin released',
           \A c \in Requests : pos[c] # "handed" /\ (pos[c] \in {"gap", "running"} => c \in released'),
           release(waiting, pos)
    PROVE  GateIInv'
  <1>1. CASE waiting = <<>>
    <2>1. waiting' = waiting /\ at' = pos /\ busy' = FALSE
      BY <1>1 DEF release
    <2> QED BY <1>1, <2>1 DEF GateIInv, GateTypeOK, SlotOwners, InteractiveFirst
  <1>2. CASE waiting # <<>>
    <2> DEFINE h == Head(waiting)
    <2>1. waiting' = Tail(waiting) /\ at' = [pos EXCEPT ![h] = "handed"] /\ busy' = TRUE
      BY <1>2 DEF release
    <2>2. /\ h \in Range(waiting) /\ Tail(waiting) \in Seq(Requests)
          /\ IsInjective(Tail(waiting)) /\ Range(Tail(waiting)) = Range(waiting) \ {h}
      BY <1>2, TailQueue
    <2>3. h \in Requests /\ pos[h] = "waiting" /\ h \notin released'
      BY <2>2
    <2> HIDE DEF h
    <2>4. GateTypeOK'
      BY <2>1, <2>2, <2>3 DEF GateTypeOK
    <2>5. IsInjective(waiting') /\ Range(waiting') = {c \in Requests : at'[c] = "waiting"}
      BY <2>1, <2>2, <2>3
    <2>6. \A c \in Requests : at'[c] \in {"new", "waiting", "handed"} => c \notin released'
      BY <2>1, <2>3
    <2>7. SlotOwners' = {h}
      BY <2>1, <2>3 DEF SlotOwners
    <2>8. InteractiveFirst'
      <3>1. /\ Len(waiting) \in Nat /\ Len(Tail(waiting)) = Len(waiting) - 1
            /\ \A i \in 1..Len(Tail(waiting)) : Tail(waiting)[i] = waiting[i + 1]
        BY <1>2, HeadTailProperties, LenProperties
      <3> QED BY <2>1, <3>1 DEF InteractiveFirst
    <2> QED BY <2>1, <2>3, <2>4, <2>5, <2>6, <2>7, <2>8 DEF GateIInv
  <1> QED BY <1>1, <1>2

\* The free gate satisfies the invariant.
LEMMA GateInitEstablishes == GateInit => GateIInv
  <1> SUFFICES ASSUME GateInit PROVE GateIInv
    OBVIOUS
  <1>1. waiting = <<>> /\ waiting \in Seq(Requests) /\ Len(waiting) = 0
    BY EmptySeq DEF GateInit
  <1>2. Range(waiting) = {} /\ IsInjective(waiting)
    <2>1. \A i, j \in 1..Len(waiting) : waiting[i] = waiting[j] => i = j
      BY <1>1
    <2>2. IsInjective(waiting)
      BY ONLY <1>1, <2>1, RangeByPosition
    <2> QED BY <1>1, <2>2, EmptyQueue
  <1>3. GateTypeOK /\ SlotOwners = {}
    BY <1>1 DEF GateInit, GateTypeOK, SlotOwners
  <1>4. Range(waiting) = {c \in Requests : at[c] = "waiting"}
    BY <1>2 DEF GateInit
  <1> QED BY <1>1, <1>2, <1>3, <1>4 DEF GateInit, GateIInv, InteractiveFirst

\* A caller that finds the gate free owns it, another one queues (acquire).
LEMMA AcquireGateKeeps ==
    ASSUME GateIInv, NEW c \in Requests, acquire(c)
    PROVE  GateIInv'
  <1>1. CASE busy
    <2>1. PICK i \in 1 .. Len(waiting) + 1 : queuesAt(c, i) /\ waiting' = InsertAt(waiting, i, c)
      BY <1>1 DEF acquire
    <2>2. at[c] = "new" /\ at' = [at EXCEPT ![c] = "waiting"] /\ UNCHANGED <<busy, released>>
      BY <1>1 DEF acquire
    <2>3. /\ waiting \in Seq(Requests) /\ IsInjective(waiting) /\ c \notin Range(waiting)
          /\ Range(waiting) = {x \in Requests : at[x] = "waiting"}
      BY <2>2 DEF GateIInv, GateTypeOK
    <2>4. /\ waiting' \in Seq(Requests) /\ Len(waiting') = Len(waiting) + 1
          /\ \A j \in 1..Len(waiting) + 1 :
                waiting'[j] = IF j < i THEN waiting[j] ELSE IF j = i THEN c ELSE waiting[j - 1]
          /\ IsInjective(waiting') /\ Range(waiting') = Range(waiting) \cup {c}
      BY <2>1, <2>3, InsertQueue
    <2>5. GateTypeOK' /\ Range(waiting') = {x \in Requests : at'[x] = "waiting"}
      BY <2>2, <2>3, <2>4 DEF GateIInv, GateTypeOK
    <2>6. SlotOwners' = SlotOwners
      BY <2>2 DEF SlotOwners, GateIInv, GateTypeOK
    <2>7. InteractiveFirst'
      <3>1. Len(waiting) \in Nat
        BY <2>3, LenProperties
      <3>2. CASE c \in Background
        BY <2>1, <2>4, <3>1, <3>2 DEF queuesAt, InteractiveFirst, GateIInv
      <3>3. CASE c \notin Background
        <4>1. /\ \A j \in 1 .. i - 1 : waiting[j] \notin Background
              /\ i <= Len(waiting) => waiting[i] \in Background
          BY <2>1, <3>3 DEF queuesAt
        <4>2. \A j \in i .. Len(waiting) : waiting[j] \in Background
          BY <3>1, <4>1 DEF GateIInv, InteractiveFirst
        <4>3. \A j \in 1 .. i : waiting'[j] \notin Background
          BY <2>4, <3>1, <3>3, <4>1
        <4>4. \A j \in i + 1 .. Len(waiting') : waiting'[j] \in Background
          BY <2>4, <3>1, <4>2
        <4> QED BY <2>4, <3>1, <4>3, <4>4 DEF InteractiveFirst
      <3> QED BY <3>2, <3>3
    <2>8. \A x \in Requests : at'[x] \in {"new", "waiting", "handed"} => x \notin released'
      BY <2>2 DEF GateIInv, GateTypeOK
    <2> QED BY <1>1, <2>2, <2>4, <2>5, <2>6, <2>7, <2>8 DEF GateIInv
  <1>2. CASE ~busy
    <2>1. busy' = TRUE /\ at[c] = "new" /\ at' = [at EXCEPT ![c] = "gap"] /\ UNCHANGED <<waiting, released>>
      BY <1>2 DEF acquire
    <2>2. SlotOwners' = {c}
      BY <1>2, <2>1 DEF SlotOwners, GateIInv, GateTypeOK
    <2> QED BY <2>1, <2>2 DEF GateIInv, GateTypeOK, InteractiveFirst
  <1> QED BY <1>1, <1>2

\* A caller that gives up leaves the queue, or hands the slot on.
LEMMA GiveUpKeeps ==
    ASSUME GateIInv, NEW c \in Requests, giveUp(c)
    PROVE  GateIInv'
  <1>1. CASE at[c] = "waiting"
    <2>1. PICK i \in 1 .. Len(waiting) : waiting[i] = c /\ waiting' = RemoveAt(waiting, i)
      BY <1>1 DEF giveUp, leaves
    <2>2. at' = [at EXCEPT ![c] = "over"] /\ UNCHANGED <<busy, released>>
      BY <1>1 DEF giveUp
    <2>3. /\ waiting \in Seq(Requests) /\ IsInjective(waiting) /\ Len(waiting) \in Nat
          /\ Range(waiting) = {x \in Requests : at[x] = "waiting"}
      BY LenProperties DEF GateIInv, GateTypeOK
    <2>4. /\ waiting' \in Seq(Requests) /\ Len(waiting') = Len(waiting) - 1
          /\ \A j \in 1..Len(waiting) - 1 : waiting'[j] = IF j < i THEN waiting[j] ELSE waiting[j + 1]
          /\ IsInjective(waiting') /\ Range(waiting') = Range(waiting) \ {c}
      <3>1. /\ RemoveAt(waiting, i) \in Seq(Requests) /\ Len(RemoveAt(waiting, i)) = Len(waiting) - 1
            /\ \A j \in 1..Len(waiting) - 1 :
                  RemoveAt(waiting, i)[j] = IF j < i THEN waiting[j] ELSE waiting[j + 1]
            /\ IsInjective(RemoveAt(waiting, i)) /\ Range(RemoveAt(waiting, i)) = Range(waiting) \ {waiting[i]}
        BY ONLY <2>3, RemoveQueue, i \in 1 .. Len(waiting)
      <3> QED BY <2>1, <3>1
    <2>5. GateTypeOK'
      BY <2>2, <2>4 DEF GateIInv, GateTypeOK
    <2>10. Range(waiting') = {x \in Requests : at'[x] = "waiting"}
      BY <2>2, <2>3, <2>4 DEF GateIInv, GateTypeOK
    <2>6. SlotOwners' = SlotOwners
      BY <1>1, <2>2 DEF SlotOwners, GateIInv, GateTypeOK
    <2>7. InteractiveFirst'
      <3> SUFFICES ASSUME NEW j \in 1..Len(waiting) - 1, NEW k \in 1..Len(waiting) - 1, j < k,
                          waiting'[j] \in Background
                   PROVE  waiting'[k] \in Background
        BY <2>4 DEF InteractiveFirst
      <3>1. PICK x \in {j, j + 1} : waiting'[j] = waiting[x] /\ (x = j + 1 => j >= i)
        BY <2>3, <2>4
      <3>2. PICK y \in {k, k + 1} : waiting'[k] = waiting[y] /\ (y = k => k < i)
        BY <2>3, <2>4
      <3>3. x \in 1..Len(waiting) /\ y \in 1..Len(waiting) /\ x < y
        BY <2>3, <3>1, <3>2
      <3> QED BY <3>1, <3>2, <3>3 DEF InteractiveFirst, GateIInv
    <2>8. waiting # <<>>
      BY <2>1, <2>3, EmptySeq
    <2>9. \A x \in Requests : at'[x] \in {"new", "waiting", "handed"} => x \notin released'
      BY <2>2 DEF GateIInv, GateTypeOK
    <2> QED BY <2>2, <2>4, <2>5, <2>6, <2>7, <2>8, <2>9, <2>10 DEF GateIInv
  <1>2. CASE at[c] # "waiting"
    <2> DEFINE pos == [at EXCEPT ![c] = "over"]
    <2>1. at[c] = "handed" /\ UNCHANGED released /\ release(waiting, pos)
      BY <1>2 DEF giveUp
    <2>2. busy = TRUE /\ SlotOwners = {c}
      BY <2>1 DEF GateIInv, GateTypeOK, SlotOwners
    <2>3. \A x \in Requests : pos[x] # "handed" /\ (pos[x] \in {"gap", "running"} => x \in released')
      BY <2>1, <2>2 DEF SlotOwners, GateIInv, GateTypeOK
    <2> QED BY <2>1, <2>2, <2>3, ReleaseHandsOver DEF GateIInv, GateTypeOK
  <1> QED BY <1>1, <1>2

\* The slot goes back once, by the watchdog or by the request's return.
LEMMA SlotBackKeeps ==
    ASSUME GateIInv, NEW c \in Requests, watchdog(c) \/ Run(c)
    PROVE  GateIInv'
  <1>1. at[c] \in {"gap", "running"} /\ released' = released \cup {c}
    BY DEF watchdog, Run
  <1>2. CASE c \in released
    <2>1. at' = [at EXCEPT ![c] = "over"] /\ UNCHANGED <<busy, waiting>> /\ released' = released
      BY <1>1, <1>2 DEF watchdog, Run
    <2>2. SlotOwners' = SlotOwners
      BY <1>1, <1>2, <2>1 DEF SlotOwners, GateIInv, GateTypeOK
    <2> QED BY <1>1, <2>1, <2>2 DEF GateIInv, GateTypeOK, InteractiveFirst
  <1>3. CASE c \notin released
    <2>1. busy = TRUE /\ SlotOwners = {c}
      BY <1>1, <1>3 DEF GateIInv, GateTypeOK, SlotOwners
    <2>2. PICK pos \in {at, [at EXCEPT ![c] = "over"]} : release(waiting, pos)
      BY <1>3 DEF watchdog, Run
    <2>3. \A x \in Requests : pos[x] # "handed" /\ (pos[x] \in {"gap", "running"} => x \in released')
      BY <1>1, <2>1, <2>2 DEF SlotOwners, GateIInv, GateTypeOK
    <2>4. /\ pos \in [Requests -> {"new", "waiting", "handed", "gap", "running", "over"}]
          /\ \A x \in Requests : x # c => pos[x] = at[x]
          /\ pos[c] \in {"gap", "running", "over"}
      BY <1>1, <2>2 DEF GateIInv, GateTypeOK
    <2>5. /\ Range(waiting) = {x \in Requests : pos[x] = "waiting"}
          /\ \A x \in Requests : pos[x] \in {"new", "waiting", "handed"} => x \notin released'
      BY <1>1, <2>4 DEF GateIInv, GateTypeOK
    <2> QED BY <1>1, <2>1, <2>2, <2>3, <2>4, <2>5, ReleaseHandsOver DEF GateIInv, GateTypeOK
  <1> QED BY <1>2, <1>3

\* Every step of the gate keeps the invariant.
LEMMA GateStepKeeps == GateIInv /\ [GateNext]_gateVars => GateIInv'
  <1> SUFFICES ASSUME GateIInv, [GateNext]_gateVars
               PROVE  GateIInv'
    OBVIOUS
  <1>1. CASE UNCHANGED gateVars
    BY <1>1 DEF gateVars, GateIInv, GateTypeOK, SlotOwners, InteractiveFirst
  <1>2. ASSUME NEW c \in Requests, granted(c) \/ start(c)
        PROVE  GateIInv'
    <2>1. SlotOwners' = SlotOwners
      BY <1>2 DEF granted, start, SlotOwners, GateIInv, GateTypeOK
    <2> QED BY <1>2, <2>1 DEF granted, start, GateIInv, GateTypeOK, InteractiveFirst
  <1> QED BY <1>1, <1>2, AcquireGateKeeps, GiveUpKeeps, SlotBackKeeps DEF GateNext

\* The inductive invariant gives the property.
LEMMA GateInvariantEnough == GateIInv => OneOwner /\ InteractiveFirst
  <1> SUFFICES ASSUME GateIInv PROVE OneOwner
    BY DEF GateIInv
  <1>1. CASE busy
    <2>1. PICK o \in Requests : SlotOwners = {o}
      BY <1>1 DEF GateIInv
    <2> QED BY <1>1, <2>1, FS_Singleton DEF OneOwner
  <1>2. CASE ~busy
    BY <1>2, FS_EmptySet DEF OneOwner, GateIInv
  <1> QED BY <1>1, <1>2

\* The historical gate's slot always has one owner or none, nobody waits at a free gate, and
\* interactive callers stay ahead of background ones, for any number of callers.
THEOREM GateAlwaysOneOwner == GateSpec => [](OneOwner /\ InteractiveFirst)
  BY GateInitEstablishes, GateStepKeeps, GateInvariantEnough, PTL DEF GateSpec

-----------------------------------------------------------------------------
(* Dhan's pacing lock                                                      *)

\* unlock by the only owner, who has left pos behind: the first in the queue becomes the only
\* owner, or the lock is free, and nobody sleeps in the gap or has a request out.
LEMMA UnlockHandsOver ==
    ASSUME RestTypeOK, LockSound, paceHeld = TRUE,
           NEW c \in Reads, NEW s \in {"over", "backoff"}, Owners = {c},
           unlock([readAt EXCEPT ![c] = s])
    PROVE  /\ paceHeld' \in BOOLEAN /\ paceQueue' \in Seq(Reads)
           /\ readAt' \in [Reads -> {"new", "waiting", "handed", "owner", "gap", "sent", "backoff", "over"}]
           /\ LockSound'
           /\ \A x \in Reads : readAt'[x] \notin {"owner", "gap", "sent"}
  <1> DEFINE pos == [readAt EXCEPT ![c] = s]
  <1>1. /\ pos \in [Reads -> {"new", "waiting", "handed", "owner", "gap", "sent", "backoff", "over"}]
        /\ \A x \in Reads : pos[x] \notin {"handed", "owner", "gap", "sent"}
        /\ readAt[c] # "waiting"
    BY DEF RestTypeOK, Owners
  <1>2. Range(paceQueue) = {x \in Reads : pos[x] = "waiting"}
    BY <1>1 DEF RestTypeOK, LockSound
  <1>3. CASE paceQueue = <<>>
    <2>1. paceQueue' = paceQueue /\ readAt' = pos /\ paceHeld' = FALSE
      BY <1>3 DEF unlock
    <2> QED BY <1>1, <1>2, <1>3, <2>1 DEF RestTypeOK, LockSound, Owners
  <1>4. CASE paceQueue # <<>>
    <2> DEFINE h == Head(paceQueue)
    <2>1. paceQueue' = Tail(paceQueue) /\ readAt' = [pos EXCEPT ![h] = "handed"] /\ paceHeld' = TRUE
      BY <1>4 DEF unlock
    <2>2. /\ h \in Range(paceQueue) /\ Tail(paceQueue) \in Seq(Reads)
          /\ IsInjective(Tail(paceQueue)) /\ Range(Tail(paceQueue)) = Range(paceQueue) \ {h}
      BY <1>4, TailQueue DEF RestTypeOK, LockSound
    <2>3. h \in Reads /\ pos[h] = "waiting"
      BY <1>2, <2>2
    <2> HIDE DEF h, pos
    <2>4. Range(paceQueue') = {x \in Reads : readAt'[x] = "waiting"}
      BY <1>1, <1>2, <2>1, <2>2, <2>3
    <2>5. Owners' = {h}
      BY <1>1, <2>1, <2>3 DEF Owners
    <2> QED BY <1>1, <2>1, <2>2, <2>3, <2>4, <2>5 DEF LockSound
  <1> QED BY <1>3, <1>4

\* Nothing has been asked for: the lock is free.
LEMMA RestInitEstablishes == RestInit => RestIInv
  <1> SUFFICES ASSUME RestInit PROVE RestIInv
    OBVIOUS
  <1>1. paceQueue = <<>> /\ paceQueue \in Seq(Reads) /\ Len(paceQueue) = 0
    BY EmptySeq DEF RestInit
  <1>2. IsInjective(paceQueue)
    <2>1. \A i, j \in 1..Len(paceQueue) : paceQueue[i] = paceQueue[j] => i = j
      BY <1>1
    <2> QED BY ONLY <1>1, <2>1, RangeByPosition
  <1>3. Range(paceQueue) = {}
    BY <1>1, EmptyQueue
  <1>4. RestTypeOK /\ PaceSound
    BY <1>1, HttpAssumption DEF RestInit, RestTypeOK, PaceSound
  <1>5. LockSound
    BY <1>1, <1>2, <1>3 DEF RestInit, LockSound, Owners
  <1> QED BY <1>4, <1>5 DEF RestIInv

\* A call asks for the lock, or fails before it does (Request).
LEMMA RequestKeeps ==
    ASSUME RestIInv, NEW c \in Reads, Request(c) \/ Refused(c)
    PROVE  RestIInv' /\ StartsPaced
  <1> USE DEF RestIInv
  <1>1. /\ readAt[c] \in {"new", "backoff"} /\ attempt' = [attempt EXCEPT ![c] = @ + 1]
        /\ UNCHANGED <<left, cancelled, lastAtAge, sinceStart>>
    BY DEF Request, Refused, Begins, ageVars
  <1>2. CASE Request(c) /\ paceHeld
    <2>1. paceQueue' = Append(paceQueue, c) /\ readAt' = [readAt EXCEPT ![c] = "waiting"] /\ paceHeld' = TRUE
      BY <1>2 DEF Request, lock, RestTypeOK
    <2>2. c \notin Range(paceQueue) /\ paceQueue \in Seq(Reads) /\ IsInjective(paceQueue)
      BY <1>1 DEF LockSound, RestTypeOK
    <2>3. /\ paceQueue' \in Seq(Reads)
          /\ IsInjective(paceQueue') /\ Range(paceQueue') = Range(paceQueue) \cup {c}
      BY <2>1, <2>2, AppendQueue
    <2>4. RestTypeOK' /\ PaceSound' /\ StartsPaced
      BY <1>1, <2>1, <2>3 DEF RestTypeOK, PaceSound, StartsPaced
    <2>5. Owners' = Owners
      BY <1>1, <2>1 DEF Owners, RestTypeOK
    <2>6. Range(paceQueue') = {x \in Reads : readAt'[x] = "waiting"}
      BY <2>1, <2>3 DEF RestTypeOK, LockSound
    <2> QED BY <1>2, <2>1, <2>3, <2>4, <2>5, <2>6 DEF LockSound
  <1>3. CASE Request(c) /\ ~paceHeld
    <2>1. paceHeld' = TRUE /\ readAt' = [readAt EXCEPT ![c] = "owner"] /\ UNCHANGED paceQueue
      BY <1>3 DEF Request, lock
    <2>2. RestTypeOK' /\ PaceSound' /\ StartsPaced
      BY <1>1, <2>1 DEF RestTypeOK, PaceSound, StartsPaced
    <2>3. Owners' = {c}
      BY <1>1, <1>3, <2>1 DEF Owners, RestTypeOK, LockSound
    <2> QED BY <1>1, <1>3, <2>1, <2>2, <2>3 DEF LockSound, RestTypeOK
  <1>4. CASE Refused(c)
    <2>1. readAt' = [readAt EXCEPT ![c] = "over"] /\ UNCHANGED <<paceHeld, paceQueue>>
      BY <1>4 DEF Refused, paceVars
    <2>2. Owners' = Owners
      BY <1>1, <2>1 DEF Owners, RestTypeOK
    <2> QED BY <1>1, <2>1, <2>2 DEF RestTypeOK, LockSound, PaceSound, StartsPaced
  <1> QED BY <1>2, <1>3, <1>4

\* A call whose context ends leaves the queue, or passes the lock on (lock).
LEMMA GivesUpKeeps ==
    ASSUME RestIInv, NEW c \in Reads, GivesUp(c)
    PROVE  RestIInv' /\ StartsPaced
  <1> USE DEF RestIInv
  <1>1. UNCHANGED <<attempt, left, cancelled, lastAtAge, sinceStart>>
    BY DEF GivesUp, ageVars
  <1>2. CASE readAt[c] = "waiting"
    <2>1. PICK i \in 1..Len(paceQueue) : paceQueue[i] = c /\ paceQueue' = RemoveAt(paceQueue, i)
      BY <1>2 DEF GivesUp
    <2>2. readAt' = [readAt EXCEPT ![c] = "over"] /\ UNCHANGED paceHeld
      BY <1>2 DEF GivesUp
    <2>3. paceQueue \in Seq(Reads) /\ IsInjective(paceQueue) /\ paceQueue # <<>>
      BY <2>1, EmptySeq DEF RestTypeOK, LockSound
    <2>4. /\ RemoveAt(paceQueue, i) \in Seq(Reads) /\ IsInjective(RemoveAt(paceQueue, i))
          /\ Range(RemoveAt(paceQueue, i)) = Range(paceQueue) \ {paceQueue[i]}
      BY ONLY <2>3, RemoveQueue, i \in 1..Len(paceQueue)
    <2>5. RestTypeOK' /\ PaceSound' /\ StartsPaced
      BY <1>1, <2>1, <2>2, <2>4 DEF RestTypeOK, PaceSound, StartsPaced
    <2>6. Owners' = Owners
      BY <1>2, <2>2 DEF Owners, RestTypeOK
    <2>7. Range(paceQueue') = {x \in Reads : readAt'[x] = "waiting"}
      BY <2>1, <2>2, <2>4 DEF RestTypeOK, LockSound
    <2> QED BY <2>1, <2>2, <2>3, <2>4, <2>5, <2>6, <2>7 DEF LockSound
  <1>3. CASE readAt[c] # "waiting"
    <2>1. readAt[c] = "handed" /\ unlock([readAt EXCEPT ![c] = "over"])
      BY <1>3 DEF GivesUp
    <2>2. Owners = {c} /\ paceHeld = TRUE
      BY <2>1 DEF Owners, LockSound, RestTypeOK
    <2> QED BY <1>1, <2>1, <2>2, UnlockHandsOver DEF RestTypeOK, PaceSound, StartsPaced
  <1> QED BY <1>2, <1>3

\* The owner sleeps for what is missing, or starts; whoever slept starts when the interval is
\* over: nobody else could move lastAt meanwhile (Request).
LEMMA PacesKeeps ==
    ASSUME RestIInv, NEW c \in Reads, Granted(c) \/ Paces(c) \/ GapEnds(c)
    PROVE  RestIInv' /\ StartsPaced
  <1> USE DEF RestIInv
  <1>1. /\ readAt[c] \in {"handed", "owner", "gap"} /\ UNCHANGED <<paceHeld, paceQueue, attempt, cancelled>>
        /\ Owners = {c}
    BY DEF Granted, Paces, GapEnds, paceVars, Owners, LockSound, RestTypeOK
  <1>2. PICK s \in {"owner", "gap", "sent"} : readAt' = [readAt EXCEPT ![c] = s]
    BY DEF Granted, Paces, GapEnds, StartsAttempt
  <1>3. Owners' = {c} /\ Range(paceQueue) = {x \in Reads : readAt'[x] = "waiting"}
    BY <1>1, <1>2 DEF Owners, LockSound, RestTypeOK
  <1>4. LockSound'
    BY <1>1, <1>3 DEF LockSound
  <1>5. \A x \in Reads : x # c => readAt'[x] \notin {"gap", "sent"}
    BY <1>1, <1>2 DEF Owners, RestTypeOK
  <1>6. CASE Granted(c)
    BY <1>4, <1>5, <1>6 DEF Granted, RestTypeOK, PaceSound, StartsPaced, paceVars, ageVars
  <1>7. CASE readAt[c] = "owner" /\ lastAtAge < MinInterval /\ Paces(c)
    <2>1. /\ readAt' = [readAt EXCEPT ![c] = "gap"] /\ left' = [left EXCEPT ![c] = MinInterval - lastAtAge]
          /\ UNCHANGED <<lastAtAge, sinceStart>>
      BY <1>7 DEF Paces, ageVars
    <2>2. MinInterval - lastAtAge \in Nat
      BY <1>7, HttpAssumption DEF RestTypeOK
    <2>3. RestTypeOK' /\ StartsPaced
      BY <1>1, <2>1, <2>2 DEF RestTypeOK, StartsPaced
    <2>4. left'[c] + lastAtAge' >= MinInterval
      BY <2>1, <2>2, HttpAssumption DEF RestTypeOK
    <2> QED BY <1>4, <1>5, <2>1, <2>3, <2>4 DEF PaceSound
  <1>8. CASE StartsAttempt(c) /\ lastAtAge >= MinInterval
    BY <1>1, <1>4, <1>5, <1>8, HttpAssumption DEF StartsAttempt, RestTypeOK, PaceSound, StartsPaced
  <1>9. CASE GapEnds(c)
    <2>1. StartsAttempt(c) /\ lastAtAge >= MinInterval
      BY <1>9, HttpAssumption DEF GapEnds, PaceSound, RestTypeOK
    <2> QED BY <1>8, <2>1
  <1>10. CASE Paces(c)
    <2>1. \/ lastAtAge < MinInterval
          \/ StartsAttempt(c) /\ lastAtAge >= MinInterval
      BY <1>10, HttpAssumption DEF Paces, RestTypeOK
    <2> QED BY <1>7, <1>8, <1>10, <2>1 DEF Paces
  <1> QED BY <1>6, <1>9, <1>10

\* An attempt ends, or the sleep before it: the lock is passed on.
LEMMA AttemptEndsKeeps ==
    ASSUME RestIInv, NEW c \in Reads,
           GapCancelled(c) \/ Aborted(c) \/ \E r \in Outcomes : Answered(c, r)
    PROVE  RestIInv' /\ StartsPaced
  <1> USE DEF RestIInv
  <1>1. readAt[c] \in {"gap", "sent"} /\ UNCHANGED <<attempt, cancelled, lastAtAge, sinceStart>>
    BY DEF GapCancelled, Aborted, Answered, ageVars
  <1>2. PICK s \in {"over", "backoff"} :
            unlock([readAt EXCEPT ![c] = s]) /\ \E n \in Nat : left' = [left EXCEPT ![c] = n]
    <2>1. CASE GapCancelled(c)
      BY <2>1 DEF GapCancelled
    <2>2. ASSUME NEW r, AfterAttempt(c, r)
          PROVE  \E s \in {"over", "backoff"} :
                    unlock([readAt EXCEPT ![c] = s]) /\ \E n \in Nat : left' = [left EXCEPT ![c] = n]
      <3>1. 1..BackoffTicks \subseteq Nat
        BY HttpAssumption
      <3> QED BY <2>2, <3>1 DEF AfterAttempt
    <2> QED BY <2>1, <2>2 DEF Aborted, Answered
  <1>3. Owners = {c} /\ paceHeld = TRUE
    BY <1>1 DEF Owners, LockSound, RestTypeOK
  <1>4. left' \in [Reads -> Nat]
    BY <1>2 DEF RestTypeOK
  <1> QED BY <1>1, <1>2, <1>3, <1>4, UnlockHandsOver DEF RestTypeOK, PaceSound, StartsPaced

\* A back-off that is cancelled, a context that ends and a tick of the clock move no ownership.
LEMMA RestFrameKeeps ==
    ASSUME RestIInv, (\E c \in Reads : BackoffCancelled(c) \/ ContextEnds(c)) \/ ClockTicks
    PROVE  RestIInv' /\ StartsPaced
  <1> USE DEF RestIInv
  <1>1. ASSUME NEW c \in Reads, BackoffCancelled(c)
        PROVE  RestIInv' /\ StartsPaced
    <2>1. Owners' = Owners /\ Range(paceQueue) = {x \in Reads : readAt'[x] = "waiting"}
      BY <1>1 DEF BackoffCancelled, Owners, LockSound, RestTypeOK
    <2> QED BY <1>1, <2>1
            DEF BackoffCancelled, RestTypeOK, LockSound, PaceSound, StartsPaced, paceVars, ageVars
  <1>2. ASSUME NEW c \in Reads, ContextEnds(c)
        PROVE  RestIInv' /\ StartsPaced
    BY <1>2 DEF ContextEnds, RestTypeOK, LockSound, PaceSound, StartsPaced, paceVars, ageVars, Owners
  <1>3. CASE ClockTicks
    <2>1. LockSound'
      BY <1>3 DEF ClockTicks, LockSound, Owners, paceVars
    <2>2. RestTypeOK' /\ PaceSound' /\ StartsPaced
      BY <1>3, HttpAssumption DEF ClockTicks, Older, RestTypeOK, PaceSound, StartsPaced, paceVars
    <2> QED BY <2>1, <2>2
  <1> QED BY <1>1, <1>2, <1>3

\* Every step of the transport keeps the invariant and the interval.
LEMMA RestStepKeeps == RestIInv /\ [RestNext]_restVars => RestIInv' /\ StartsPaced
  <1> SUFFICES ASSUME RestIInv, [RestNext]_restVars
               PROVE  RestIInv' /\ StartsPaced
    OBVIOUS
  <1>1. CASE UNCHANGED restVars
    BY <1>1 DEF restVars, paceVars, ageVars, RestIInv, RestTypeOK, LockSound, PaceSound, Owners, StartsPaced
  <1> QED BY <1>1, RequestKeeps, GivesUpKeeps, PacesKeeps, AttemptEndsKeeps, RestFrameKeeps
          DEF RestNext, ReadSteps

\* The inductive invariant gives the property of every step.
LEMMA RestInvariantEnough == RestIInv' /\ StartsPaced => Paced
  <1> SUFFICES ASSUME RestIInv', StartsPaced PROVE Paced
    OBVIOUS
  <1>1. CASE paceHeld'
    <2>1. PICK o \in Reads : Owners' = {o}
      BY <1>1 DEF RestIInv, LockSound
    <2> QED BY <1>1, <2>1, FS_Singleton DEF Paced, RestIInv, LockSound
  <1>2. CASE ~paceHeld'
    BY <1>2, FS_EmptySet DEF Paced, RestIInv, LockSound
  <1> QED BY <1>1, <1>2

\* Dhan's pacing lock always has one owner or none and no request starts before its interval is
\* over, for any number of calls and any timings.
THEOREM RestAlwaysPaced == RestSpec => [][Paced]_restVars
  <1>1. RestIInv /\ [RestNext]_restVars => RestIInv' /\ [Paced]_restVars
    BY RestStepKeeps, RestInvariantEnough
  <1> QED BY RestInitEstablishes, <1>1, PTL DEF RestSpec

-----------------------------------------------------------------------------
(* Both, as the run checks them                                            *)

\* One at a time, in the gate and in Dhan's transport, whichever of the two moves.
THEOREM AlwaysOneAtATime == LiveSpec => OneAtATime
  <1> DEFINE IInv == GateIInv /\ RestIInv
  <1>1. LiveInit => IInv
    BY GateInitEstablishes, RestInitEstablishes DEF LiveInit
  <1>2. [LiveNext]_liveVars => [GateNext]_gateVars /\ [RestNext]_restVars
    BY DEF LiveNext, Moves, liveVars
  <1>3. IInv /\ [LiveNext]_liveVars =>
            IInv' /\ [OneOwner' /\ InteractiveFirst' /\ Paced]_<<gateVars, restVars>>
    <2> SUFFICES ASSUME IInv, [LiveNext]_liveVars
                 PROVE  IInv' /\ OneOwner' /\ InteractiveFirst' /\ Paced
      OBVIOUS
    <2>1. GateIInv' /\ RestIInv' /\ StartsPaced
      BY <1>2, GateStepKeeps, RestStepKeeps
    <2>2. OneOwner' /\ InteractiveFirst'
      BY <2>1, GateInvariantEnough, PTL
    <2> QED BY <2>1, <2>2, RestInvariantEnough
  <1> QED BY <1>1, <1>3, PTL DEF LiveSpec, OneAtATime

-----------------------------------------------------------------------------
(* A browser's stream                                                      *)

\* No client, no frame, nobody in the writer.
LEMMA StreamInitEstablishes == StreamInit => StreamIInv
  <1> SUFFICES ASSUME StreamInit PROVE StreamIInv
    OBVIOUS
  <1>1. frames \in Seq(Nat \ {0}) /\ Len(frames) = 0
    BY EmptySeq DEF StreamInit
  <1>2. writer = Wait /\ Wait \in [at : {"wait"}, frame : Nat] /\ Wait.at = "wait" /\ Wait.frame = NoFrame
    BY DEF StreamInit, Wait, NoFrame
  <1>3. StreamTypeOK
    BY <1>1, <1>2 DEF StreamInit, StreamTypeOK
  <1> QED BY <1>2, <1>3 DEF StreamInit, StreamIInv, WriteLocked, LiveIsOpen, Consecutive

\* A new client is sent the last broadcast, if there is one (AttachClient).
LEMMA AttachKeeps ==
    ASSUME StreamIInv, AttachClient
    PROVE  StreamIInv'
  <1> USE DEF StreamIInv, AttachClient, sseVars
  <1>1. writer' = Wait /\ Wait.at = "wait" /\ Wait.frame = NoFrame
    BY DEF LiveIsOpen, Wait
  <1>2. frames' \in Seq(Nat \ {0}) /\ seen' \in Nat
    <2>1. <<>> \in Seq(Nat \ {0}) /\ latest \in Nat
      BY EmptySeq DEF StreamTypeOK
    <2>2. CASE latest > 0
      <3>1. frames' = <<latest>> /\ seen' = latest - 1 /\ latest \in Nat \ {0}
        BY <2>1, <2>2
      <3>2. <<latest>> \in Seq(Nat \ {0}) /\ latest - 1 \in Nat
        BY ONLY <3>1
      <3> QED BY <3>1, <3>2
    <2>3. CASE ~(latest > 0)
      BY <2>1, <2>3
    <2> QED BY <2>2, <2>3
  <1>3. /\ \A i \in 1..Len(frames') : frames'[i] = seen' + i
        /\ latest = seen' + Len(frames')
    <2>1. CASE latest > 0
      <3>1. frames' = <<latest>> /\ seen' = latest - 1
        BY <2>1
      <3> QED BY <3>1 DEF StreamTypeOK
    <2>2. CASE ~(latest > 0)
      BY <2>2 DEF StreamTypeOK
    <2> QED BY <2>1, <2>2
  <1>4. StreamTypeOK' /\ WriteLocked' /\ LiveIsOpen'
    BY <1>1, <1>2 DEF StreamTypeOK, WriteLocked, LiveIsOpen
  <1>5. Consecutive'
    BY <1>1, <1>2, <1>3 DEF StreamTypeOK, Consecutive, InHand, NoFrame
  <1> QED BY <1>4, <1>5

\* A broadcast is queued for the client, or the client is dropped (sendLocked).
LEMMA BroadcastKeeps ==
    ASSUME StreamIInv, Broadcast
    PROVE  StreamIInv'
  <1> USE DEF StreamIInv
  <1>1. latest' = latest + 1 /\ UNCHANGED <<closed, writer, route, smu, deadline, seen, gone>>
    BY DEF Broadcast
  <1>2. CASE live /\ Len(frames) = ClientQueue
    <2>1. live' = FALSE /\ halted' = TRUE /\ once' = "begun" /\ frames' = frames
      BY <1>2 DEF Broadcast, LiveIsOpen
    <2>2. StreamTypeOK' /\ WriteLocked'
      BY <1>1, <2>1 DEF Broadcast, StreamTypeOK, WriteLocked
    <2>3. LiveIsOpen' /\ Consecutive'
      BY <1>1, <1>2, <2>1 DEF LiveIsOpen, Consecutive
    <2> QED BY <2>2, <2>3
  <1>3. CASE live /\ Len(frames) # ClientQueue
    <2>1. frames' = Append(frames, latest + 1) /\ UNCHANGED <<live, halted, once>>
      BY <1>3 DEF Broadcast
    <2>2. /\ frames' \in Seq(Nat \ {0}) /\ Len(frames) \in Nat /\ Len(frames') = Len(frames) + 1
          /\ \A i \in 1..Len(frames) : frames'[i] = frames[i]
          /\ frames'[Len(frames) + 1] = latest + 1
      BY <2>1, AppendProperties, LenProperties DEF StreamTypeOK
    <2>3. StreamTypeOK' /\ WriteLocked'
      BY <1>1, <2>1, <2>2 DEF StreamTypeOK, WriteLocked
    <2>4. LiveIsOpen'
      BY <1>1, <1>3, <2>1 DEF LiveIsOpen
    <2>5. InHand' = InHand /\ InHand \in {0, 1}
      BY <1>1 DEF InHand
    <2>6. ASSUME ~gone PROVE Consecutive'
      <3>1. latest' = seen + InHand + Len(frames')
        BY <1>1, <1>3, <2>2, <2>5, <2>6 DEF Consecutive, StreamTypeOK
      <3>2. \A i \in 1..Len(frames') : frames'[i] = seen + InHand + i
        <4> TAKE i \in 1..Len(frames')
        <4>1. CASE i \in 1..Len(frames)
          BY <1>3, <2>2, <2>6, <4>1 DEF Consecutive
        <4>2. CASE i = Len(frames) + 1
          BY <1>1, <2>2, <3>1, <4>2
        <4> QED BY <2>2, <4>1, <4>2
      <3> QED BY <1>1, <1>3, <2>1, <2>5, <2>6, <3>1, <3>2 DEF Consecutive, NoFrame
    <2>7. ASSUME gone PROVE Consecutive'
      BY <1>1, <2>7 DEF Consecutive, NoFrame
    <2> QED BY <2>3, <2>4, <2>6, <2>7
  <1>4. CASE ~live
    BY <1>1, <1>4 DEF Broadcast, StreamTypeOK, WriteLocked, LiveIsOpen, Consecutive
  <1> QED BY <1>2, <1>3, <1>4

\* The writer takes the first frame, and gives up its hand only when stopped, or closed, or when
\* the browser has the frame (client.loop, WriteFrame).
LEMMA WriterStepKeeps ==
    ASSUME StreamIInv,
           \/ WriterTakes \/ WriterChecksStop \/ WriterStops
           \/ WriterLocks \/ WriterChecksClosed \/ WriterWrote
    PROVE  StreamIInv'
  <1> USE DEF StreamIInv
  <1>1. CASE WriterTakes
    <2>1. /\ writer' = [at |-> "took", frame |-> Head(frames)] /\ frames' = Tail(frames) /\ writer = Wait
          /\ UNCHANGED <<latest, live, halted, route, smu, closed, once, deadline, seen, gone>>
      BY <1>1 DEF WriterTakes, sseVars
    <2>2. /\ Head(frames) = frames[1] /\ Head(frames) \in Nat \ {0} /\ frames' \in Seq(Nat \ {0})
          /\ Len(frames) \in Nat \ {0} /\ Len(frames') = Len(frames) - 1
          /\ \A i \in 1..Len(frames') : frames'[i] = frames[i + 1]
      BY <1>1, <2>1, HeadTailProperties, EmptySeq DEF StreamTypeOK, WriterTakes
    <2>3. writer.at = "wait" /\ writer.frame = NoFrame /\ writer'.at = "took" /\ writer'.frame = Head(frames)
      BY <2>1 DEF Wait
    <2>4. StreamTypeOK' /\ WriteLocked'
      BY <1>1, <2>1, <2>2, <2>3 DEF WriterTakes, sseVars, StreamTypeOK, WriteLocked
    <2>5. LiveIsOpen'
      <3>1. route # "attach"
        BY <1>1 DEF WriterTakes, LiveIsOpen
      <3> QED BY <2>1, <3>1 DEF LiveIsOpen
    <2>6. Consecutive'
      <3>1. InHand = 0 /\ InHand' = 1 /\ writer'.frame # NoFrame
        BY <2>2, <2>3 DEF InHand, NoFrame
      <3>2. CASE live /\ ~gone
        <4>1. frames[1] = seen + 1 /\ latest = seen + Len(frames)
          BY <2>2, <3>1, <3>2 DEF Consecutive, StreamTypeOK
        <4>2. \A i \in 1..Len(frames') : frames'[i] = seen + 1 + i
          BY <2>2, <3>1, <3>2 DEF Consecutive, StreamTypeOK
        <4>3. latest = seen + 1 + Len(frames')
          BY <2>2, <4>1 DEF StreamTypeOK
        <4> QED BY <2>1, <2>2, <2>3, <3>1, <4>1, <4>2, <4>3 DEF Consecutive
      <3>3. CASE ~(live /\ ~gone)
        BY <2>1, <2>3, <3>1, <3>3 DEF Consecutive
      <3> QED BY <3>2, <3>3
    <2> QED BY <2>4, <2>5, <2>6
  <1>2. CASE WriterChecksStop
    BY <1>2 DEF WriterChecksStop, hubVars, sseVars, StreamTypeOK, WriteLocked, LiveIsOpen, Consecutive,
                InHand, NoFrame, Wait
  <1>3. CASE WriterStops
    BY <1>3 DEF WriterStops, hubVars, sseVars, StreamTypeOK, WriteLocked, LiveIsOpen, Consecutive,
                InHand, NoFrame, Wait
  <1>4. CASE WriterLocks
    BY <1>4 DEF WriterLocks, LockWrite, hubVars, StreamTypeOK, WriteLocked, LiveIsOpen, Consecutive,
                InHand, NoFrame, Wait
  <1>5. CASE WriterChecksClosed
    BY <1>5 DEF WriterChecksClosed, UnlockWrite, hubVars, StreamTypeOK, WriteLocked, LiveIsOpen,
                Consecutive, InHand, NoFrame, Wait
  <1>6. CASE WriterWrote
    <2>1. /\ writer.at = "write" /\ writer' = Wait /\ smu' = "none"
          /\ UNCHANGED <<latest, live, frames, halted, route, closed, once, deadline, gone>>
          /\ seen' \in {seen, writer.frame} /\ (~deadline /\ ~gone => seen' = writer.frame)
      BY <1>6 DEF WriterWrote, UnlockWrite, hubVars
    <2>2. Wait.at = "wait" /\ Wait.frame = NoFrame /\ Wait \in [at : {"wait"}, frame : Nat]
      BY DEF Wait, NoFrame
    <2>3. StreamTypeOK' /\ WriteLocked' /\ LiveIsOpen'
      BY <2>1, <2>2 DEF StreamTypeOK, WriteLocked, LiveIsOpen
    <2>4. Len(frames) \in Nat
      BY LenProperties DEF StreamTypeOK
    <2>5. Consecutive'
      <3>1. CASE live /\ ~gone
        <4>1. writer.frame = seen + 1 /\ seen' = seen + 1 /\ InHand = 1 /\ InHand' = 0
          BY <2>1, <2>2, <3>1 DEF StreamTypeOK, Consecutive, LiveIsOpen, InHand, NoFrame
        <4>2. latest = seen' + InHand' + Len(frames)
          BY <2>4, <3>1, <4>1 DEF Consecutive, StreamTypeOK
        <4>3. \A i \in 1..Len(frames) : frames[i] = seen' + InHand' + i
          BY <2>4, <3>1, <4>1 DEF Consecutive, StreamTypeOK
        <4> QED BY <2>1, <2>2, <4>2, <4>3 DEF Consecutive
      <3>2. CASE ~(live /\ ~gone)
        BY <2>1, <2>2, <3>2 DEF Consecutive
      <3> QED BY <3>1, <3>2
    <2> QED BY <2>3, <2>5
  <1> QED BY <1>1, <1>2, <1>3, <1>4, <1>5, <1>6

\* The route's pings and its way out; Close; and a browser that goes (openTickStream, detach).
LEMMA RouteStepKeeps ==
    ASSUME StreamIInv, RoutePings \/ RouteLocks \/ RouteSteps \/ RouteWrote \/ CloseSteps \/ BrowserGoes
    PROVE  StreamIInv'
  <1> USE DEF StreamIInv, hubVars, sseVars, RouteGoes
  <1>1. CASE RoutePings \/ RouteLocks \/ RouteWrote \/ RouteChecksClosed
    <2>1. UNCHANGED <<latest, live, frames, halted, writer, closed, once, deadline, seen, gone>>
      BY <1>1 DEF RoutePings, RouteLocks, RouteChecksClosed, RouteWrote
    <2>2. StreamTypeOK' /\ WriteLocked'
      BY <1>1, <2>1 DEF RoutePings, RouteLocks, RouteChecksClosed, RouteWrote, LockWrite, UnlockWrite,
                        StreamTypeOK, WriteLocked
    <2>3. route \in {"stream", "lock", "check", "write"} /\ route' \in {"stream", "lock", "check", "write"}
      BY <1>1 DEF RoutePings, RouteLocks, RouteChecksClosed, RouteWrote
    <2> QED BY <2>1, <2>2, <2>3 DEF LiveIsOpen, Consecutive, InHand
  <1>2. CASE RouteEnds \/ RouteRemoves \/ RouteClosed \/ RouteReturns
    <2>1. UNCHANGED <<latest, frames, halted, writer, smu, writing, closed, once, deadline, seen, gone>>
      BY <1>2 DEF RouteEnds, RouteRemoves, RouteClosed, RouteReturns
    <2>2. StreamTypeOK' /\ WriteLocked'
      BY <1>2, <2>1 DEF RouteEnds, RouteRemoves, RouteClosed, RouteReturns, StreamTypeOK, WriteLocked
    <2>3. LiveIsOpen' /\ Consecutive'
      BY <1>2, <2>1 DEF RouteEnds, RouteRemoves, RouteClosed, RouteReturns, LiveIsOpen, Consecutive, InHand
    <2> QED BY <2>2, <2>3
  <1>3. CASE RouteHalts \/ RouteCloses
    <2>1. UNCHANGED <<latest, live, frames, writer, smu, writing, closed, deadline, seen, gone>> /\ ~live
      BY <1>3 DEF RouteHalts, RouteCloses, LiveIsOpen
    <2>2. StreamTypeOK' /\ WriteLocked'
      BY <1>3, <2>1 DEF RouteHalts, RouteCloses, StreamTypeOK, WriteLocked
    <2>3. LiveIsOpen' /\ Consecutive'
      BY <1>3, <2>1 DEF RouteHalts, RouteCloses, LiveIsOpen, Consecutive
    <2> QED BY <2>2, <2>3
  <1>4. CASE CloseSteps
    <2>1. UNCHANGED <<latest, live, frames, halted, writer, route, smu, writing, seen, gone>> /\ ~live
      BY <1>4 DEF CloseSteps, LiveIsOpen
    <2>2. once' \in {"closed", "done"} /\ route # "attach"
      BY <1>4 DEF CloseSteps, StreamTypeOK, LiveIsOpen
    <2> QED BY <2>1, <2>2 DEF StreamTypeOK, WriteLocked, LiveIsOpen, Consecutive
  <1>5. CASE BrowserGoes
    BY <1>5 DEF BrowserGoes, StreamTypeOK, WriteLocked, LiveIsOpen, Consecutive
  <1> QED BY <1>1, <1>2, <1>3, <1>4, <1>5 DEF RouteSteps

\* Every step keeps the invariant.
LEMMA StreamStepKeeps == StreamIInv /\ [StreamNext]_streamVars => StreamIInv'
  <1>1. StreamIInv /\ UNCHANGED streamVars => StreamIInv'
    BY DEF streamVars, hubVars, sseVars, StreamIInv, StreamTypeOK, WriteLocked, LiveIsOpen, Consecutive,
           InHand
  <1> QED BY <1>1, AttachKeeps, BroadcastKeeps, WriterStepKeeps, RouteStepKeeps
          DEF StreamNext, WriterSteps, Locks

\* The inductive invariant gives the property.
LEMMA StreamInvariantEnough == StreamIInv => StreamSound
  <1> SUFFICES ASSUME StreamIInv PROVE StreamSound
    OBVIOUS
  <1>1. NothingAfterReturn
    BY DEF StreamIInv, StreamTypeOK, WriteLocked, NothingAfterReturn
  <1>2. NoGap
    <2> DEFINE taken == IF writer.frame # NoFrame THEN <<writer.frame>> ELSE <<>>
               rest == taken \o frames
    <2>1. /\ taken \in Seq(Nat) /\ Len(taken) = InHand /\ InHand \in {0, 1}
          /\ InHand = 1 => taken[1] = writer.frame
      BY EmptySeq DEF InHand, StreamIInv, StreamTypeOK
    <2>2. frames \in Seq(Nat) /\ Len(frames) \in Nat
      BY SeqMonotonic, LenProperties DEF StreamIInv, StreamTypeOK
    <2> HIDE DEF taken
    <2>3. /\ Len(rest) = InHand + Len(frames)
          /\ \A i \in 1..Len(rest) : rest[i] = IF i <= InHand THEN taken[i] ELSE frames[i - InHand]
      BY <2>1, <2>2, ConcatProperties
    <2> HIDE DEF rest
    <2>4. ASSUME live /\ ~gone
          PROVE  (\A i \in 1..Len(rest) : rest[i] = seen + i) /\ latest = seen + Len(rest)
      <3>1. latest = seen + Len(rest)
        BY <2>1, <2>2, <2>3, <2>4 DEF StreamIInv, Consecutive, StreamTypeOK
      <3>2. ASSUME NEW i \in 1..Len(rest)
            PROVE  rest[i] = seen + i
        <4>1. CASE i <= InHand
          <5>1. InHand = 1 /\ i = 1
            BY <2>1, <2>2, <2>3, <4>1
          <5>2. writer.frame = seen + 1
            BY <2>4, <5>1 DEF InHand, StreamIInv, Consecutive
          <5> QED BY <2>1, <2>3, <4>1, <5>1, <5>2
        <4>2. CASE i > InHand
          <5>1. i - InHand \in 1..Len(frames)
            BY <2>1, <2>2, <2>3, <4>2
          <5>2. rest[i] = frames[i - InHand] /\ frames[i - InHand] = seen + InHand + (i - InHand)
            BY <2>1, <2>3, <2>4, <4>2, <5>1 DEF StreamIInv, Consecutive
          <5> QED BY <2>1, <5>2 DEF StreamIInv, StreamTypeOK
        <4> QED BY <2>1, <4>1, <4>2
      <3> QED BY <3>1, <3>2
    <2> QED BY <2>4 DEF NoGap, rest, taken
  <1> QED BY <1>1, <1>2 DEF StreamSound

\* An attached browser sees no gap and nothing is written after its handler has returned, for any
\* queue length and any number of broadcasts and pings.
THEOREM StreamAlwaysSound == StreamSpec => []StreamSound
  BY StreamInitEstablishes, StreamStepKeeps, StreamInvariantEnough, PTL DEF StreamSpec

-----------------------------------------------------------------------------
(* Boot and shutdown                                                       *)

\* The eight steps and the parts they stop.
LEMMA ShutdownStepsAre ==
    /\ Len(shutdownSteps) = 8
    /\ shutdownSteps[1] = "synthetic" /\ Stops("synthetic") = {"synth", "spike"}
    /\ shutdownSteps[2] = "fairvalue" /\ Stops("fairvalue") = {"fv"}
    /\ shutdownSteps[3] = "http"
    /\ shutdownSteps[4] = "schedulers"
    /\ Stops("schedulers") = {"eod", "hourly", "analytics", "sweeper", "purge"}
    /\ shutdownSteps[5] = "feeds" /\ Stops("feeds") = {"runtime"}
    /\ \A i \in 1..8 : shutdownSteps[i] = "http" => i = 3
  BY DEF shutdownSteps, Stops

\* A process that has just started has stopped nothing.
LEMMA LifeInitEstablishes == LifecycleInit => LifeIInv
  BY ShutdownStepsAre
  DEF LifecycleInit, LifeIInv, LifeTypeOK, WaitsSeen, StepsInOrder, HandlersGone, NothingStartsLate

\* As long as nobody gave up, no part starts once a shutdown step has ended: neither the boot
\* chain nor a background boot is still there.
LEMMA NothingToStart ==
    ASSUME LifeIInv, ~gaveUp, bootAt \in {"check", "run"} \/ tasks # {}
    PROVE  coord = "idle" /\ ended = {} /\ step = 0
  BY DEF LifeIInv, LifeTypeOK, WaitsSeen, StepsInOrder, bootDone

\* Boot steps start parts only while no shutdown step has run, or after a wait that gave up.
LEMMA BootKeeps ==
    ASSUME LifeIInv, Start \/ bootStep \/ bootRun \/ \E p \in Unawaited : background(p)
    PROVE  LifeIInv'
  <1> USE DEF LifeIInv, bootVars, stepVars, httpVars
  <1>1. /\ UNCHANGED <<stopping, shut, coord, step, ended, failed, listening, inflight, exit, gaveUp>>
        /\ bootAt' \in {"new", "check", "run", "done"}
        /\ worker' \in {worker, "on"} /\ (worker = "closed" => worker' = "closed")
    <2>1. CASE Start
      BY <2>1 DEF Start
    <2>2. CASE bootStep
      BY <2>2 DEF bootStep
    <2>3. CASE bootRun
      BY <2>3 DEF bootRun, StartDhanTokenService
    <2>4. CASE \E p \in Unawaited : background(p)
      BY <2>4 DEF background, LifeTypeOK
    <2> QED BY <2>1, <2>2, <2>3, <2>4
  <1>2. LifeTypeOK' /\ StepsInOrder' /\ HandlersGone'
    BY <1>1 DEF LifeTypeOK, StepsInOrder, HandlersGone
  <1>3. stopping /\ bootDone => bootDone'
    BY DEF Start, bootStep, bootRun, background, bootDone
  <1>4. stopping /\ bootDone /\ tasks = {} => tasks' = {}
    BY DEF Start, bootStep, bootRun, background, bootDone
  <1>5. WaitsSeen'
    <2>1. \A g \in Signals : shut[g] \in {"run", "wait", "returned"} => shut[g] \in {"tasks", "run", "wait", "returned"} /\ shut[g] # "none"
      OBVIOUS
    <2> QED BY <1>1, <1>3, <1>4, <2>1 DEF WaitsSeen
  <1>6. NothingStartsLate'
    <2>1. CASE gaveUp
      BY <1>1, <2>1 DEF NothingStartsLate
    <2>2. CASE up' \subseteq up
      BY <1>1, <2>2 DEF NothingStartsLate
    <2>3. CASE ~gaveUp /\ ~(up' \subseteq up)
      <3>1. bootAt = "run" \/ tasks # {}
        BY <2>3 DEF Start, bootStep, bootRun, background
      <3>2. ended = {}
        BY <2>3, <3>1, NothingToStart
      <3> QED BY <1>1, <3>2 DEF NothingStartsLate
    <2> QED BY <2>1, <2>2, <2>3
  <1> QED BY <1>2, <1>5, <1>6

\* A goroutine of a signal gets past a wait when what it waits for has ended, or gives up.
LEMMA SignalKeeps ==
    ASSUME LifeIInv, NEW g \in Signals,
           Shutdown(g) \/ StopDhanTokenService(g) \/ waitBoot(g) \/ waitTimeout(g)
    PROVE  LifeIInv'
  <1> USE DEF LifeIInv, bootVars, stepVars, httpVars
  <1>1. UNCHANGED <<bootAt, tasks, up, coord, step, ended, failed, listening, inflight, exit>>
    BY DEF Shutdown, StopDhanTokenService, waitBoot, waitTimeout
  <1>2. (gaveUp => gaveUp') /\ (stopping => stopping')
    <2>1. CASE Shutdown(g)
      BY <2>1 DEF Shutdown
    <2>2. CASE StopDhanTokenService(g)
      BY <2>2 DEF StopDhanTokenService
    <2>3. CASE waitBoot(g)
      <3>1. gaveUp' = gaveUp \/ gaveUp' = TRUE
        BY <2>3 DEF waitBoot
      <3> QED BY <2>3, <3>1 DEF waitBoot
    <2>4. CASE waitTimeout(g)
      <3>1. gaveUp' = gaveUp \/ gaveUp' = TRUE
        BY <2>4 DEF waitTimeout
      <3> QED BY <2>4, <3>1 DEF waitTimeout
    <2> QED BY <2>1, <2>2, <2>3, <2>4
  <1>3. PICK s \in {"token", "boot", "tasks", "run"} : shut' = [shut EXCEPT ![g] = s]
    BY DEF Shutdown, StopDhanTokenService, waitBoot, waitTimeout, moves
  <1>4. worker' \in {worker, "closed"} /\ shut[g] \notin {"wait", "returned"}
    BY DEF Shutdown, StopDhanTokenService, waitBoot, waitTimeout, moves
  <1>5. LifeTypeOK' /\ HandlersGone' /\ NothingStartsLate'
    BY <1>1, <1>2, <1>3, <1>4 DEF LifeTypeOK, HandlersGone, NothingStartsLate
  <1>6. StepsInOrder'
    BY <1>1, <1>3, <1>4 DEF StepsInOrder, LifeTypeOK
  <1>7. /\ shut'[g] # "none" => stopping'
        /\ shut'[g] \notin {"none", "token"} => worker' = "closed"
        /\ shut'[g] \in {"tasks", "run", "wait", "returned"} => gaveUp' \/ bootDone
        /\ shut'[g] \in {"run", "wait", "returned"} => gaveUp' \/ tasks = {}
    <2>1. CASE Shutdown(g)
      BY <2>1 DEF Shutdown, moves, LifeTypeOK
    <2>2. CASE StopDhanTokenService(g)
      BY <2>2 DEF StopDhanTokenService, moves, LifeTypeOK, WaitsSeen
    <2>3. CASE waitBoot(g)
      BY <2>3 DEF waitBoot, moves, LifeTypeOK, WaitsSeen
    <2>4. CASE waitTimeout(g)
      BY <2>4 DEF waitTimeout, moves, LifeTypeOK, WaitsSeen
    <2> QED BY <2>1, <2>2, <2>3, <2>4
  <1>8. WaitsSeen'
    BY <1>1, <1>2, <1>3, <1>4, <1>7 DEF WaitsSeen, LifeTypeOK, bootDone
  <1> QED BY <1>5, <1>6, <1>8

\* The sequence begins with the first caller; its result, or the deadline, ends the process.
LEMMA SequenceKeeps ==
    ASSUME LifeIInv, (\E g \in Signals : RunShutdown(g) \/ exitProcess(g)) \/ deadlinePasses
    PROVE  LifeIInv'
  <1> USE DEF LifeIInv, bootVars, stepVars, httpVars
  <1>1. ASSUME NEW g \in Signals, RunShutdown(g)
        PROVE  LifeIInv'
    <2>1. /\ exit = -1 /\ shut[g] = "run" /\ shut' = [shut EXCEPT ![g] = "wait"]
          /\ coord' = (IF coord = "idle" THEN "running" ELSE coord)
          /\ step' = (IF coord = "idle" THEN 1 ELSE step)
          /\ UNCHANGED <<bootAt, tasks, up, worker, stopping, ended, failed, listening, inflight, exit, gaveUp>>
      BY <1>1 DEF RunShutdown, moves, alive
    <2>2. LifeTypeOK' /\ NothingStartsLate'
      BY <2>1 DEF LifeTypeOK, NothingStartsLate
    <2>5. HandlersGone'
      <3>1. step' = step \/ step' = 1
        BY <2>1
      <3> QED BY <2>1, <3>1 DEF HandlersGone
    <2>3. WaitsSeen'
      BY <2>1 DEF WaitsSeen, LifeTypeOK, bootDone
    <2>4. StepsInOrder'
      <3>1. \A i \in 1..8 : i < step' => i < step
        BY <2>1 DEF StepsInOrder
      <3>2. coord' # "idle" /\ shut'[g] = "wait"
        BY <2>1 DEF LifeTypeOK
      <3>3. exit' # 0 /\ (coord' = "finished" => step' > 8)
        BY <2>1, ShutdownStepsAre DEF StepsInOrder
      <3> QED BY <2>1, <3>1, <3>2, <3>3, ShutdownStepsAre DEF StepsInOrder
    <2> QED BY <2>2, <2>3, <2>4, <2>5
  <1>2. ASSUME NEW g \in Signals, exitProcess(g)
        PROVE  LifeIInv'
    <2>1. /\ exit = -1 /\ shut[g] = "wait" /\ shut' = [shut EXCEPT ![g] = "returned"]
          /\ coord \in {"finished", "timed out"}
          /\ UNCHANGED <<bootAt, tasks, up, worker, stopping, coord, step, ended, failed, listening, inflight, gaveUp>>
      BY <1>2 DEF exitProcess, moves, alive, resulted
    <2>5. exit' \in {0, 1} /\ (exit' = 0 => coord = "finished")
      <3>1. exit' = ExitCode
        BY <1>2 DEF exitProcess
      <3>2. ExitCode = 1 \/ (ExitCode = 0 /\ coord = "finished")
        BY <2>1 DEF ExitCode
      <3>3. CASE ExitCode = 1
        BY <3>1, <3>3
      <3>4. CASE ExitCode = 0 /\ coord = "finished"
        BY <3>1, <3>4
      <3> QED BY <3>2, <3>3, <3>4
    <2>2. LifeTypeOK' /\ HandlersGone' /\ NothingStartsLate'
      BY <2>1, <2>5 DEF LifeTypeOK, HandlersGone, NothingStartsLate
    <2>3. WaitsSeen'
      BY <2>1 DEF WaitsSeen, LifeTypeOK, bootDone
    <2>4. StepsInOrder'
      BY <2>1, <2>5 DEF StepsInOrder, LifeTypeOK
    <2> QED BY <2>2, <2>3, <2>4
  <1>3. CASE deadlinePasses
    <2>1. /\ exit = -1 /\ coord = "running" /\ coord' = "timed out"
          /\ UNCHANGED <<bootAt, tasks, up, worker, stopping, shut, step, ended, failed, listening, inflight, exit, gaveUp>>
      BY <1>3 DEF deadlinePasses, alive
    <2>2. LifeTypeOK' /\ HandlersGone' /\ NothingStartsLate'
      BY <2>1 DEF LifeTypeOK, HandlersGone, NothingStartsLate
    <2>3. WaitsSeen' /\ StepsInOrder'
      BY <2>1 DEF WaitsSeen, StepsInOrder, bootDone
    <2> QED BY <2>2, <2>3
  <1> QED BY <1>1, <1>2, <1>3

\* A step stops its parts or fails; the HTTP step leaves no handler behind, or gives up.
LEMMA RunStepKeeps ==
    ASSUME LifeIInv, runStep
    PROVE  LifeIInv'
  <1> USE DEF LifeIInv, bootVars, stepVars, httpVars
  <1> DEFINE s == shutdownSteps[step]
  <1>1. /\ exit = -1 /\ step \in 1..8 /\ step' = step + 1 /\ ended' = ended \cup Stops(s)
        /\ coord' \in {coord, "finished"} /\ (coord' = coord \/ (coord = "running" /\ step = 8))
        /\ UNCHANGED <<bootAt, tasks, worker, stopping, shut, inflight, exit>>
    BY ShutdownStepsAre DEF runStep, alive
  <1>2. \/ up' = up \ Stops(s) /\ failed' = failed
        \/ up' = up /\ failed' = failed \cup {s}
    BY DEF runStep
  <1>3. (gaveUp => gaveUp') /\ (listening' => listening)
    BY DEF runStep, stopHTTP
  <1>4. s = "http" => gaveUp' \/ (~listening' /\ ~inflight)
    BY DEF runStep, stopHTTP
  <1> HIDE DEF s
  <1>5. LifeTypeOK'
    <2>1. step' \in Nat
      BY ONLY <1>1
    <2>2. coord' \in {"idle", "running", "timed out", "finished"}
      BY <1>1 DEF LifeTypeOK
    <2> QED BY <1>1, <2>1, <2>2 DEF LifeTypeOK
  <1>6. WaitsSeen'
    BY <1>1, <1>3 DEF WaitsSeen, bootDone
  <1>7. coord # "idle"
    BY <1>1 DEF StepsInOrder
  <1>8. StepsInOrder'
    <2>1. \A i \in 1..8 : i < step' => Stops(shutdownSteps[i]) \subseteq ended'
      <3>1. \A i \in 1..8 : i < step + 1 => i < step \/ i = step
        BY <1>1
      <3>2. Stops(shutdownSteps[step]) \subseteq ended'
        BY <1>1 DEF s
      <3> QED BY <1>1, <3>1, <3>2, ShutdownStepsAre DEF StepsInOrder
    <2>2. coord' = "finished" => step' > 8
      BY <1>1, ShutdownStepsAre DEF StepsInOrder
    <2> QED BY <1>1, <1>7, <2>1, <2>2, ShutdownStepsAre DEF StepsInOrder
  <1>9. HandlersGone'
    <2>1. CASE step = 3
      BY <1>1, <1>4, <2>1, ShutdownStepsAre DEF HandlersGone, s
    <2>2. CASE step # 3
      <3>1. step' > 3 => step > 3
        BY <1>1, <2>2
      <3> QED BY <1>1, <1>3, <3>1 DEF HandlersGone
    <2> QED BY <2>1, <2>2
  <1>10. NothingStartsLate'
    BY <1>1, <1>2, <1>3 DEF NothingStartsLate
  <1> QED BY <1>5, <1>6, <1>8, <1>9, <1>10

\* A handler begins only while the server listens.
LEMMA TrackKeeps ==
    ASSUME LifeIInv, track
    PROVE  LifeIInv'
  <1>1. /\ UNCHANGED <<bootAt, tasks, up, worker, stopping, shut, coord, step, ended, failed, listening, exit, gaveUp>>
        /\ inflight \/ listening
    BY DEF track, bootVars, stepVars
  <1> QED BY <1>1 DEF LifeIInv, LifeTypeOK, WaitsSeen, StepsInOrder, HandlersGone, NothingStartsLate, bootDone

\* Every step keeps the invariant.
LEMMA LifeStepKeeps == LifeIInv /\ [LifecycleNext]_lifeVars => LifeIInv'
  <1>1. LifeIInv /\ UNCHANGED lifeVars => LifeIInv'
    <2> SUFFICES ASSUME LifeIInv, UNCHANGED lifeVars PROVE LifeIInv'
      OBVIOUS
    <2> USE DEF lifeVars, bootVars, stepVars, httpVars, LifeIInv
    <2>1. LifeTypeOK' /\ WaitsSeen'
      BY DEF LifeTypeOK, WaitsSeen, bootDone
    <2>2. StepsInOrder' /\ HandlersGone' /\ NothingStartsLate'
      BY DEF StepsInOrder, HandlersGone, NothingStartsLate
    <2> QED BY <2>1, <2>2
  <1> QED BY <1>1, BootKeeps, SignalKeeps, SequenceKeeps, RunStepKeeps, TrackKeeps DEF LifecycleNext

\* The inductive invariant gives the property.
LEMMA LifeInvariantEnough == LifeIInv => ShutdownSound
  <1> SUFFICES ASSUME LifeIInv, exit = 0 PROVE ExitZeroMeansStopped
    BY DEF LifeIInv, ShutdownSound, ExitZeroMeansStopped
  <1> DEFINE writers == {"synth", "spike", "fv", "eod", "hourly", "analytics", "runtime"}
  <1>1. coord = "finished" /\ step > 8
    BY ShutdownStepsAre DEF LifeIInv, StepsInOrder
  <1>2. worker = "closed"
    BY <1>1 DEF LifeIInv, StepsInOrder, WaitsSeen
  <1>3. writers \subseteq ended
    <2>1. /\ Stops(shutdownSteps[1]) \subseteq ended /\ Stops(shutdownSteps[2]) \subseteq ended
          /\ Stops(shutdownSteps[4]) \subseteq ended /\ Stops(shutdownSteps[5]) \subseteq ended
      BY <1>1, ShutdownStepsAre DEF LifeIInv, StepsInOrder, LifeTypeOK
    <2> QED BY <2>1, ShutdownStepsAre
  <1>4. gaveUp \/ failed # {} \/ up \cap writers = {}
    BY <1>3 DEF LifeIInv, NothingStartsLate
  <1>5. gaveUp \/ ~inflight
    BY <1>1 DEF LifeIInv, HandlersGone, LifeTypeOK
  <1> QED BY <1>1, <1>2, <1>4, <1>5, ShutdownStepsAre DEF ExitZeroMeansStopped

\* Nothing runs after its stop step, and exit code 0 tells the truth, for any number of signals
\* and whichever steps fail.
THEOREM ShutdownAlwaysSound == LifecycleSpec => []ShutdownSound
  BY LifeInitEstablishes, LifeStepKeeps, LifeInvariantEnough, PTL DEF LifecycleSpec

-----------------------------------------------------------------------------
(* The scanner's trading rules                                             *)

\* Six orders' charges are a number.
LEMMA ChargesCount == OrderCharges \in Nat
  <1>1. IsFiniteSet(Roles)
    <2>1. IsFiniteSet({"FUT"})
      BY FS_Singleton
    <2>2. IsFiniteSet({"FUT"} \cup {"CE"})
      BY <2>1, FS_AddElement
    <2>3. IsFiniteSet(({"FUT"} \cup {"CE"}) \cup {"PE"})
      BY <2>2, FS_AddElement
    <2>4. Roles = ({"FUT"} \cup {"CE"}) \cup {"PE"}
      BY DEF Roles
    <2> QED BY <2>3, <2>4
  <1>2. Cardinality(Roles) \in Nat
    BY <1>1, FS_CardinalityType
  <1> QED BY <1>2 DEF OrderCharges, Charge

\* The signature is the three versions (bookSig).
LEMMA SignatureNow ==
    ASSUME versions \in [Roles -> Nat]
    PROVE  /\ bookSig \in Signature
           /\ bookSig[1] = versions["FUT"] /\ bookSig[2] = versions["CE"] /\ bookSig[3] = versions["PE"]
  BY DEF bookSig, Signature, Roles

\* A leg with a touch has a book, and so a version (evaluateLeg).
LEMMA TouchHasVersion ==
    ASSUME TradingTypeOK, VersionsGrow, NEW r \in Roles, NEW side, executable(r, side)
    PROVE  versions[r] # 0
  BY DEF executable, touchOf, VersionsGrow, NoBook

\* Signatures with the same versions are the same.
LEMMA SameSignature ==
    ASSUME NEW x \in Signature, NEW y \in Signature, NotAfter(x, y), NotAfter(y, x)
    PROVE  x = y
  <1>1. x[1] = y[1] /\ x[2] = y[2] /\ x[3] = y[3]
    <2>1. x[1] \in Nat /\ x[2] \in Nat /\ x[3] \in Nat /\ y[1] \in Nat /\ y[2] \in Nat /\ y[3] \in Nat
      BY DEF Signature
    <2>2. x[1] <= y[1] /\ x[2] <= y[2] /\ x[3] <= y[3] /\ y[1] <= x[1] /\ y[2] <= x[2] /\ y[3] <= x[3]
      BY DEF NotAfter
    <2> QED BY <2>1, <2>2
  <1>2. x = <<x[1], x[2], x[3]>> /\ y = <<y[1], y[2], y[3]>>
    BY DEF Signature
  <1> QED BY <1>1, <1>2

\* One more look at books that all legs have: a signature that differs from the last one has
\* never been seen (evaluateLocked, monitorPositionsLocked).
LEMMA OneMoreLook ==
    ASSUME TradingTypeOK, VersionsGrow, \A r \in Roles : versions[r] # 0,
           NEW s \in Streak, NEW looks \in SUBSET Signature, CountsBooks(s, looks),
           NEW n \in Nat,
           s.sig = bookSig => n <= s.n \/ n = 1,
           s.sig # bookSig => n = s.n + 1
    PROVE  CountsBooks([n |-> n, sig |-> bookSig], looks \cup {bookSig})
  <1>1. /\ bookSig \in Signature
        /\ bookSig[1] = versions["FUT"] /\ bookSig[2] = versions["CE"] /\ bookSig[3] = versions["PE"]
    BY SignatureNow DEF TradingTypeOK
  <1>2. Past(bookSig)
    <2>1. versions["FUT"] < nextVersion /\ versions["CE"] < nextVersion /\ versions["PE"] < nextVersion
      BY DEF VersionsGrow, Roles
    <2>2. versions["FUT"] \in Nat /\ versions["CE"] \in Nat /\ versions["PE"] \in Nat
      BY DEF TradingTypeOK, Roles
    <2> QED BY <1>1, <2>1, <2>2 DEF Past
  <1>3. \A x \in looks \cup {bookSig} : NotAfter(x, bookSig)
    <2> TAKE x \in looks \cup {bookSig}
    <2>1. Past(x)
      BY <1>2 DEF CountsBooks
    <2>2. x[1] <= versions["FUT"] /\ x[2] <= versions["CE"] /\ x[3] <= versions["PE"]
      BY <2>1 DEF Past, Roles
    <2> QED BY <1>1, <2>2 DEF NotAfter
  <1>4. /\ IsFiniteSet(looks) /\ Cardinality(looks) \in Nat /\ IsFiniteSet(looks \cup {bookSig})
        /\ Cardinality(looks \cup {bookSig}) = IF bookSig \in looks THEN Cardinality(looks) ELSE Cardinality(looks) + 1
    BY FS_AddElement, FS_CardinalityType DEF CountsBooks
  <1>5. Cardinality(looks \cup {bookSig}) >= 1
    <2>1. bookSig \in looks => Cardinality(looks) # 0
      BY <1>4, FS_EmptySet
    <2> QED BY <1>4, <2>1
  <1>6. s.n \in Nat /\ s.n <= Cardinality(looks)
    BY DEF Streak, CountsBooks
  <1>7. n <= Cardinality(looks \cup {bookSig})
    <2>1. CASE s.sig = bookSig
      BY <1>4, <1>5, <1>6, <2>1
    <2>2. CASE s.sig # bookSig /\ s.n = 0
      BY <1>5, <2>2
    <2>3. CASE s.sig # bookSig /\ s.n > 0
      <3>1. s.sig \in looks /\ \A x \in looks : NotAfter(x, s.sig)
        BY <2>3 DEF CountsBooks
      <3>2. bookSig \notin looks
        <4>1. SUFFICES ASSUME bookSig \in looks PROVE FALSE
          OBVIOUS
        <4>2. NotAfter(bookSig, s.sig) /\ NotAfter(s.sig, bookSig)
          BY <1>3, <3>1, <4>1
        <4> QED BY <1>1, <2>3, <3>1, <4>2, SameSignature
      <3> QED BY <1>4, <1>6, <2>3, <3>2
    <2> QED BY <1>6, <2>1, <2>2, <2>3
  <1>8. \A x \in looks \cup {bookSig} : Past(x)
    BY <1>2 DEF CountsBooks
  <1> DEFINE now == [n |-> n, sig |-> bookSig]
  <1>9. now.n = n /\ now.sig = bookSig
    OBVIOUS
  <1> QED BY <1>3, <1>4, <1>7, <1>8, <1>9 DEF CountsBooks

\* No looks, no count.
LEMMA NoLooks == CountsBooks(Fresh, {})
  BY FS_EmptySet DEF CountsBooks, Fresh

\* Losing the count, or the streak, keeps what was seen (finishEnter, refreshRowsLocked).
LEMMA CountLost ==
    ASSUME NEW s \in Streak, NEW looks \in SUBSET Signature, CountsBooks(s, looks), NEW y \in Streak, y.n = 0
    PROVE  CountsBooks(y, looks)
  BY FS_CardinalityType DEF CountsBooks, Streak

\* A touch is a price, and a price sum an amount (EvaluateSynthetic, EvaluateExit).
LEMMA Amounts ==
    ASSUME TradingTypeOK
    PROVE  /\ \A d \in Dirs : entryPrice(d) \in [Roles -> Int]
           /\ \A d \in Dirs, p \in [Roles -> Int] : Mispricing(d, p) \in Int /\ carry(d, p) \in Int
           /\ \A x \in Trade : grossPnl(x) \in Int
  <1>1. \A r \in Roles, side \in {"BUY", "SELL"} : touchOf(books[r], side) \in Int
    BY DEF TradingTypeOK, touchOf
  <1>2. \A d \in Dirs, r \in Roles : EntrySide(d, r) \in {"BUY", "SELL"} /\ flipSide(EntrySide(d, r)) \in {"BUY", "SELL"}
    BY DEF EntrySide, flipSide
  <1>3. \A d \in Dirs : entryPrice(d) \in [Roles -> Int]
    BY <1>1, <1>2 DEF entryPrice
  <1>4. \A d \in Dirs, p \in [Roles -> Int] : Mispricing(d, p) \in Int
    BY DEF Mispricing, Strike, Roles
  <1>5. ASSUME NEW d \in Dirs, NEW p \in [Roles -> Int]
        PROVE  carry(d, p) \in Int
    <2> DEFINE premium == (p["CE"] - p["PE"]) * CarryPct
    <2>1. premium \in Int
      BY DEF Roles, CarryPct
    <2>2. premium \div 100 \in Int
      BY <2>1
    <2> HIDE DEF premium
    <2>3. premium \div 100 \in Int /\ -(premium \div 100) \in Int /\ 0 \in Int
      BY <2>2
    <2> QED BY <2>3 DEF carry, premium
  <1>6. ASSUME NEW x \in Trade
        PROVE  grossPnl(x) \in Int
    <2>1. x.dir \in Dirs /\ x.price \in [Roles -> Int]
      BY DEF Trade
    <2>2. exitPrice(x) \in [Roles -> Int]
      BY <1>1, <1>2, <2>1 DEF exitPrice
    <2> DEFINE gain(r) == IF EntrySide(x.dir, r) = "BUY" THEN exitPrice(x)[r] - x.price[r]
                          ELSE x.price[r] - exitPrice(x)[r]
    <2>3. gain("FUT") \in Int /\ gain("CE") \in Int /\ gain("PE") \in Int
      BY <2>1, <2>2 DEF Roles
    <2> HIDE DEF gain
    <2>4. gain("FUT") + gain("CE") + gain("PE") \in Int
      BY <2>3
    <2> QED BY <2>4 DEF grossPnl, gain
  <1> QED BY <1>3, <1>4, <1>5, <1>6

\* What is entered has, with its carry, an edge that pays for it (OpenTradeFromOpportunity).
LEMMA EnteredPays ==
    ASSUME TradingTypeOK, NEW d \in Dirs, ELIGIBLE(d)
    PROVE  LET x == OpenTradeFromOpportunity(d) IN x \in Trade /\ Pays(x) /\ x.dir = d
  <1> DEFINE edge == Mispricing(d, entryPrice(d))
             financed == carry(d, entryPrice(d))
             x == OpenTradeFromOpportunity(d)
  <1>1. entryPrice(d) \in [Roles -> Int] /\ edge \in Int /\ financed \in Int
    BY Amounts
  <1>2. edge + financed - 2 * OrderCharges >= MinNet
    BY <1>1, ChargesCount DEF ELIGIBLE, expectedNet, grossEdge
  <1>3. /\ x = [dir |-> d, price |-> entryPrice(d), edge |-> edge, carry |-> financed]
        /\ x.dir = d /\ x.price = entryPrice(d) /\ x.edge = edge /\ x.carry = financed
    BY DEF OpenTradeFromOpportunity
  <1> HIDE DEF edge, financed, x
  <1>4. x \in Trade
    BY <1>1, <1>3 DEF Trade
  <1>5. Pays(x)
    BY <1>2, <1>3 DEF Pays
  <1>6. x \in Trade /\ Pays(x) /\ x.dir = d
    BY <1>3, <1>4, <1>5
  <1> QED BY <1>6 DEF x

\* Closed at the touch by a rule, or at expiry, it pays (CloseTradeAtTouch, SettleTradeAtExpiry).
LEMMA ClosedPays ==
    ASSUME TradingTypeOK, NEW x \in Trade, Pays(x)
    PROVE  /\ SettleTradeAtExpiry(x) # None /\ ClosePays(SettleTradeAtExpiry(x))
           /\ \A why : CloseTradeAtTouch(x, why) # None /\ CloseTradeAtTouch(x, why).reason = why
           /\ exitReason(x) # "none" => ClosePays(CloseTradeAtTouch(x, exitReason(x)))
           /\ ClosePays(CloseTradeAtTouch(x, "MANUAL"))
  <1>1. OrderCharges \in Int /\ grossPnl(x) \in Int /\ x.edge \in Int /\ x.carry \in Int
    BY ChargesCount, Amounts DEF Trade
  <1>2. (x.edge - 2 * OrderCharges) + x.carry >= MinNet
    BY <1>1 DEF Pays, MinNet
  <1>3. /\ SettleTradeAtExpiry(x).net = x.edge - 2 * OrderCharges /\ SettleTradeAtExpiry(x).trade = x
        /\ SettleTradeAtExpiry(x).reason = "EXPIRED"
        /\ SettleTradeAtExpiry(x).dir = "close" /\ None.dir = "none"
    BY DEF SettleTradeAtExpiry, EntryNetEdge, None
  <1>4. \A why : /\ CloseTradeAtTouch(x, why).net = grossPnl(x) - 2 * OrderCharges
                 /\ CloseTradeAtTouch(x, why).dir = "close" /\ CloseTradeAtTouch(x, why).reason = why
    BY DEF CloseTradeAtTouch
  <1>5. ruleReason(x) # "none" => grossPnl(x) - 2 * OrderCharges > 0
    <2>1. ruleReason(x) # "none" => ~(netPnl(x) <= 0)
      BY DEF ruleReason
    <2> QED BY <1>1, <2>1 DEF netPnl
  <1>6. /\ exitReason(x) # "EXPIRED"
        /\ exitReason(x) # "none" => exitReason(x) = "EXPIRY_SAFETY" \/ ruleReason(x) # "none"
    <2>1. ruleReason(x) \in {"none", "EDGE_CONVERGED", "PROFIT_CAPTURE"}
      BY DEF ruleReason
    <2> QED BY <2>1 DEF exitReason
  <1>7. exitReason(x) # "none" => ClosePays(CloseTradeAtTouch(x, exitReason(x)))
    BY <1>4, <1>5, <1>6 DEF ClosePays
  <1>8. ClosePays(CloseTradeAtTouch(x, "MANUAL"))
    BY <1>4 DEF ClosePays
  <1>9. ClosePays(SettleTradeAtExpiry(x))
    BY <1>2, <1>3 DEF ClosePays
  <1> QED BY <1>3, <1>4, <1>7, <1>8, <1>9

\* A signature of the past stays one: a book that comes has a newer version (ApplyTicks, Clear).
LEMMA PastKept ==
    ASSUME TradingTypeOK, VersionsGrow, nextVersion' \in Nat, nextVersion' >= nextVersion,
           versions' \in [Roles -> Nat],
           \A r \in Roles : versions'[r] \in {versions[r], 0, nextVersion},
           NEW x \in Signature, Past(x)
    PROVE  Past(x)'
  <1>1. x[1] \in Nat /\ x[2] \in Nat /\ x[3] \in Nat /\ nextVersion \in Nat
    BY DEF Signature, TradingTypeOK
  <1>2. x[1] < nextVersion /\ x[2] < nextVersion /\ x[3] < nextVersion
    BY DEF Past
  <1>3. \A k \in 1..3 : x[k] < nextVersion'
    BY <1>1, <1>2
  <1>4. /\ versions'["FUT"] \in {versions["FUT"], 0, nextVersion}
        /\ versions'["CE"] \in {versions["CE"], 0, nextVersion}
        /\ versions'["PE"] \in {versions["PE"], 0, nextVersion}
    BY DEF Roles
  <1>5. /\ versions'["FUT"] # 0 => x[1] <= versions'["FUT"]
        /\ versions'["CE"] # 0 => x[2] <= versions'["CE"]
        /\ versions'["PE"] # 0 => x[3] <= versions'["PE"]
    BY <1>1, <1>2, <1>4 DEF Past
  <1> QED BY <1>3, <1>5 DEF Past

\* A signal is taken only on books of all legs (EvaluateSynthetic, EvaluateExit).
LEMMA SignalHasBooks ==
    ASSUME TradingTypeOK, VersionsGrow
    PROVE  /\ \A d \in Dirs : ELIGIBLE(d) => \A r \in Roles : versions[r] # 0
           /\ \A x : canExit(x) => \A r \in Roles : versions[r] # 0
  BY TouchHasVersion DEF ELIGIBLE, canExit

\* Before the first tick there is nothing to count (NewEngine).
LEMMA TradingStarts == TradingInit => TradingIInv
  <1> SUFFICES ASSUME TradingInit PROVE TradingIInv
    OBVIOUS
  <1>1. None \in {None} /\ Fresh.n = 0 /\ Fresh \in Streak /\ NoBook \in [bid : Nat, ask : Nat, lots : Nat]
    BY DEF Fresh, Streak, NoBook
  <1>2. TradingTypeOK
    BY <1>1 DEF TradingInit, TradingTypeOK, SignalKinds
  <1>3. VersionsGrow
    BY DEF TradingInit, VersionsGrow
  <1>4. \A d \in Dirs : CountsBooks(streak[d], seenBooks[d])
    BY NoLooks DEF TradingInit, SignalKinds
  <1>5. CountsBooks(exits, seenBooks["exit"])
    BY NoLooks DEF TradingInit, SignalKinds
  <1>6. RuleExitsPay
    BY DEF TradingInit, RuleExitsPay
  <1> QED BY <1>2, <1>3, <1>4, <1>5, <1>6 DEF TradingIInv, TradingInit

\* What every step but a look of the engine does to what is counted and to what is traded:
\* it may forget a count, and moves a trade on.
LEMMA NoLookKeeps ==
    ASSUME TradingIInv, TradingTypeOK', VersionsGrow', nextVersion' >= nextVersion,
           \A r \in Roles : versions'[r] \in {versions[r], 0, nextVersion},
           \A d \in Dirs : \/ streak'[d] = streak[d] /\ seenBooks'[d] = seenBooks[d]
                           \/ streak'[d].n = 0 /\ seenBooks'[d] \in {seenBooks[d], {}},
           \/ exits' = exits /\ seenBooks'["exit"] = seenBooks["exit"]
           \/ exits'.n = 0 /\ seenBooks'["exit"] \in {seenBooks["exit"], {}},
           entering' \in {entering, None}, held' \in {held, entering, None},
           closing' \in {closing, None} \/ closing'.reason = "MANUAL",
           closedTrades' = closedTrades \/ (closing # None /\ closedTrades' = closedTrades \cup {closing})
    PROVE  TradingIInv' /\ ActsConfirmed
  <1>0. TradingTypeOK /\ VersionsGrow
    BY DEF TradingIInv
  <1>1. \A x \in Signature : Past(x) => Past(x)'
    BY <1>0, PastKept DEF TradingTypeOK
  <1>2. ASSUME NEW s \in Streak, NEW looks \in SUBSET Signature, CountsBooks(s, looks),
               NEW y \in Streak, NEW after,
               (y = s /\ after = looks) \/ (y.n = 0 /\ after \in {looks, {}})
        PROVE  CountsBooks(y, after)
    <2>1. CASE y = s /\ after = looks
      BY <1>2, <2>1
    <2>2. CASE y.n = 0 /\ after = looks
      BY <1>2, <2>2, CountLost
    <2>3. CASE y.n = 0 /\ after = {}
      BY <1>2, <2>3, FS_EmptySet DEF CountsBooks
    <2> QED BY <1>2, <2>1, <2>2, <2>3
  <1>3. ASSUME NEW d \in Dirs
        PROVE  CountsBooks(streak[d], seenBooks[d])'
    <2>1. /\ streak[d] \in Streak /\ seenBooks[d] \in SUBSET Signature /\ CountsBooks(streak[d], seenBooks[d])
          /\ streak'[d] \in Streak /\ seenBooks'[d] \in SUBSET Signature
      BY DEF TradingIInv, TradingTypeOK, SignalKinds
    <2>2. CountsBooks(streak'[d], seenBooks'[d])
      BY <1>2, <2>1
    <2>3. \A x \in seenBooks'[d] : Past(x)'
      BY <1>1, <2>1, <2>2 DEF CountsBooks
    <2> QED BY <2>2, <2>3 DEF CountsBooks
  <1>4. CountsBooks(exits, seenBooks["exit"])'
    <2>1. /\ exits \in Streak /\ seenBooks["exit"] \in SUBSET Signature /\ CountsBooks(exits, seenBooks["exit"])
          /\ exits' \in Streak /\ seenBooks'["exit"] \in SUBSET Signature
      BY DEF TradingIInv, TradingTypeOK, SignalKinds
    <2>2. CountsBooks(exits', seenBooks'["exit"])
      BY <1>2, <2>1
    <2>3. \A x \in seenBooks'["exit"] : Past(x)'
      BY <1>1, <2>1, <2>2 DEF CountsBooks
    <2> QED BY <2>2, <2>3 DEF CountsBooks
  <1>5. (entering # None => Pays(entering))' /\ (held # None => Pays(held))'
    BY DEF TradingIInv, Pays, OrderCharges
  <1>6. (closing # None => ClosePays(closing))'
    BY DEF TradingIInv, ClosePays
  <1>7. RuleExitsPay'
    BY DEF TradingIInv, ClosePays, RuleExitsPay
  <1>8. TradingIInv'
    BY <1>3, <1>4, <1>5, <1>6, <1>7 DEF TradingIInv
  <1>9. ActsConfirmed
    BY DEF ActsConfirmed
  <1> QED BY <1>8, <1>9

\* One look of the engine counts no book twice, enters and closes on counts that are reached,
\* and closes at what RuleExitsPay says (evaluateLocked, monitorPositionsLocked, autoEnterLocked).
LEMMA LookKeeps ==
    ASSUME SynthTradingBounds, TradingIInv, tick
    PROVE  TradingIInv' /\ ActsConfirmed
  <1>0. /\ TradingTypeOK /\ VersionsGrow /\ UNCHANGED <<marketVars, held, closedTrades>>
        /\ streak' = evaluated /\ monitorPositions /\ autoEnter /\ observe
    BY DEF TradingIInv, tick
  <1>1. VersionsGrow' /\ (\A x : Past(x) <=> Past(x)')
    BY <1>0 DEF VersionsGrow, Past, marketVars
  <1>2. Fresh \in Streak /\ Fresh.n = 0 /\ bookSig \in Signature
    BY <1>0, SignatureNow DEF Fresh, Streak, TradingTypeOK
  <1>3. ASSUME NEW s \in Streak, NEW n \in Nat
        PROVE  [n |-> n, sig |-> bookSig] \in Streak
    BY <1>2 DEF Streak
  <1>4. ASSUME NEW d \in Dirs
        PROVE  /\ streak'[d] \in Streak /\ seenBooks'[d] \in SUBSET Signature
               /\ CountsBooks(streak'[d], seenBooks'[d])
    <2>1. streak[d] \in Streak /\ seenBooks[d] \in SUBSET Signature /\ CountsBooks(streak[d], seenBooks[d])
      BY DEF TradingIInv, TradingTypeOK, SignalKinds
    <2>2. d \in SignalKinds
      BY DEF SignalKinds
    <2>3. CASE ~ELIGIBLE(d)
      <3>1. streak'[d] = Fresh /\ seenBooks'[d] = {}
        BY <1>0, <2>2, <2>3 DEF evaluated, observe
      <3> QED BY <1>2, <3>1, NoLooks
    <2>4. CASE ELIGIBLE(d)
      <3>1. streak'[d] = confirmed(streak[d]) /\ seenBooks'[d] = seenBooks[d] \cup {bookSig}
        BY <1>0, <2>2, <2>4 DEF evaluated, observe
      <3>2. PICK n \in Nat : /\ confirmed(streak[d]) = [n |-> n, sig |-> bookSig]
                             /\ streak[d].sig = bookSig => n <= streak[d].n \/ n = 1
                             /\ streak[d].sig # bookSig => n = streak[d].n + 1
        <4>1. streak[d].n \in Nat /\ streak[d] = [n |-> streak[d].n, sig |-> streak[d].sig]
          BY <2>1 DEF Streak
        <4>2. CASE streak[d].sig = bookSig
          <5> DEFINE n == IF streak[d].n > 1 THEN streak[d].n ELSE 1
          <5>1. confirmed(streak[d]) = [n |-> n, sig |-> bookSig]
            BY <4>1, <4>2 DEF confirmed
          <5>2. n \in Nat /\ (n <= streak[d].n \/ n = 1)
            BY <4>1
          <5> QED BY <4>2, <5>1, <5>2
        <4>3. CASE streak[d].sig # bookSig
          <5>1. confirmed(streak[d]) = [n |-> streak[d].n + 1, sig |-> bookSig]
            BY <4>3 DEF confirmed
          <5> QED BY <4>1, <4>3, <5>1
        <4> QED BY <4>2, <4>3
      <3>3. CountsBooks([n |-> n, sig |-> bookSig], seenBooks[d] \cup {bookSig})
        BY <1>0, <2>1, <2>4, <3>2, SignalHasBooks, OneMoreLook
      <3> QED BY <1>2, <1>3, <2>1, <3>1, <3>2, <3>3
    <2> QED BY <2>3, <2>4
  <1>5. /\ exits' \in Streak /\ seenBooks'["exit"] \in SUBSET Signature
        /\ CountsBooks(exits', seenBooks'["exit"])
    <2>1. exits \in Streak /\ seenBooks["exit"] \in SUBSET Signature /\ CountsBooks(exits, seenBooks["exit"])
      BY DEF TradingIInv, TradingTypeOK, SignalKinds
    <2>2. "exit" \in SignalKinds /\ "exit" \notin Dirs
      BY DEF SignalKinds, Dirs
    <2>3. CASE resting \/ IsPastSettlement
      <3>1. exits' = exits /\ seenBooks'["exit"] = seenBooks["exit"]
        BY <1>0, <2>2, <2>3 DEF monitorPositions, observe
      <3> QED BY <2>1, <3>1
    <2>4. CASE ~(resting \/ IsPastSettlement) /\ ~(ruleReason(held) # "none" /\ canExit(held))
      <3>1. exits' = Fresh /\ seenBooks'["exit"] = {}
        BY <1>0, <2>2, <2>4 DEF monitorPositions, observe, monitored
      <3> QED BY <1>2, <3>1, NoLooks
    <2>5. CASE ~(resting \/ IsPastSettlement) /\ ruleReason(held) # "none" /\ canExit(held)
      <3>1. /\ exits' = IF exits.sig = bookSig THEN exits ELSE [n |-> exits.n + 1, sig |-> bookSig]
            /\ seenBooks'["exit"] = seenBooks["exit"] \cup {bookSig}
        BY <1>0, <2>2, <2>5 DEF monitorPositions, observe, monitored
      <3>2. PICK n \in Nat : /\ exits' = [n |-> n, sig |-> bookSig]
                             /\ exits.sig = bookSig => n <= exits.n \/ n = 1
                             /\ exits.sig # bookSig => n = exits.n + 1
        BY <2>1, <3>1 DEF Streak
      <3>3. CountsBooks([n |-> n, sig |-> bookSig], seenBooks["exit"] \cup {bookSig})
        BY <1>0, <2>1, <2>5, <3>2, SignalHasBooks, OneMoreLook
      <3> QED BY <1>2, <1>3, <2>1, <3>1, <3>2, <3>3
    <2> QED BY <2>3, <2>4, <2>5
  <1>6. \/ entering' = entering
        \/ /\ entering' \in Trade /\ Pays(entering') /\ entering'.dir \in Dirs
           /\ streak'[entering'.dir].n >= Confirmations
    <2>1. SUFFICES ASSUME entering' # entering PROVE /\ entering' \in Trade /\ Pays(entering') /\ entering'.dir \in Dirs
                                                     /\ streak'[entering'.dir].n >= Confirmations
      OBVIOUS
    <2>2. PICK d \in Dirs : /\ ELIGIBLE(d) /\ streak'[d].n >= Confirmations
                            /\ entering' = OpenTradeFromOpportunity(d)
      BY <1>0, <2>1 DEF autoEnter
    <2>3. OpenTradeFromOpportunity(d) \in Trade /\ Pays(OpenTradeFromOpportunity(d)) /\ OpenTradeFromOpportunity(d).dir = d
      BY <1>0, <2>2, EnteredPays
    <2> QED BY <2>2, <2>3
  <1>7. \/ closing' = closing
        \/ /\ ClosePays(closing')
           /\ closing'.reason \in {"EDGE_CONVERGED", "PROFIT_CAPTURE"} => exits'.n >= Confirmations
    <2>1. SUFFICES ASSUME closing' # closing
                   PROVE  /\ ClosePays(closing')
                          /\ closing'.reason \in {"EDGE_CONVERGED", "PROFIT_CAPTURE"} => exits'.n >= Confirmations
      OBVIOUS
    <2>2. ~resting
      BY <1>0, <2>1 DEF monitorPositions
    <2>3. held \in Trade /\ Pays(held)
      BY <1>0, <2>2 DEF resting, TradingTypeOK, TradingIInv
    <2>4. CASE IsPastSettlement
      <3>1. closing' = SettleTradeAtExpiry(held)
        BY <1>0, <2>2, <2>4 DEF monitorPositions
      <3>2. SettleTradeAtExpiry(held).reason = "EXPIRED"
        BY DEF SettleTradeAtExpiry
      <3> QED BY <1>0, <2>3, <3>1, <3>2, ClosedPays
    <2>5. CASE ~IsPastSettlement
      <3>1. /\ closing' = CloseTradeAtTouch(held, exitReason(held)) /\ exitReason(held) # "none"
            /\ exitReason(held) = "EXPIRY_SAFETY" \/ exits'.n >= Confirmations
        BY <1>0, <2>1, <2>2, <2>5 DEF monitorPositions
      <3> QED BY <1>0, <2>3, <3>1, ClosedPays
    <2> QED BY <2>4, <2>5
  <1>8. TradingTypeOK'
    <2>1. streak' \in [Dirs -> Streak] /\ seenBooks' \in [SignalKinds -> SUBSET Signature]
      <3>1. streak' = [d \in Dirs |-> streak'[d]] /\ seenBooks' = [s \in SignalKinds |-> seenBooks'[s]]
        BY <1>0 DEF evaluated, observe
      <3> QED BY <1>4, <1>5, <3>1 DEF SignalKinds
    <2> QED BY <1>0, <1>5, <1>6, <2>1 DEF TradingTypeOK, marketVars
  <1>9. TradingIInv'
    <2>1. \A d \in Dirs : CountsBooks(streak[d], seenBooks[d])'
      BY <1>1, <1>4 DEF CountsBooks
    <2>2. CountsBooks(exits, seenBooks["exit"])'
      BY <1>1, <1>5 DEF CountsBooks
    <2>3. (entering # None => Pays(entering))' /\ (held # None => Pays(held))'
      BY <1>0, <1>6 DEF TradingIInv, Pays, OrderCharges
    <2>4. (closing # None => ClosePays(closing))' /\ RuleExitsPay'
      BY <1>0, <1>7 DEF TradingIInv, ClosePays, RuleExitsPay
    <2> QED BY <1>1, <1>8, <2>1, <2>2, <2>3, <2>4 DEF TradingIInv
  <1>10. ActsConfirmed
    <2>1. Confirmations \in Nat
      BY DEF SynthTradingBounds
    <2>2. \A d \in Dirs : /\ streak'[d].n \in Nat /\ Cardinality(seenBooks'[d]) \in Nat
                          /\ streak'[d].n <= Cardinality(seenBooks'[d])
      BY <1>4, FS_CardinalityType DEF CountsBooks, Streak
    <2>3. exits'.n \in Nat /\ Cardinality(seenBooks'["exit"]) \in Nat /\ exits'.n <= Cardinality(seenBooks'["exit"])
      BY <1>5, FS_CardinalityType DEF CountsBooks, Streak
    <2>4. entering = None /\ entering' # None => Cardinality(seenBooks'[entering'.dir]) >= Confirmations
      BY <1>6, <2>1, <2>2
    <2>5. closing = None /\ closing' # None /\ closing'.reason \in {"EDGE_CONVERGED", "PROFIT_CAPTURE"}
             => Cardinality(seenBooks'["exit"]) >= Confirmations
      BY <1>7, <2>1, <2>3
    <2> QED BY <2>4, <2>5 DEF ActsConfirmed
  <1> QED BY <1>9, <1>10

\* The books that come and go: what the clock and the feed do to them (ApplyTicks, Clear).
LEMMA BooksMove ==
    ASSUME TradingIInv,
           \/ UNCHANGED <<books, versions, nextVersion>>
           \/ ClearBooks /\ UNCHANGED nextVersion
           \/ \E r \in Roles : \E b \in Books(r) : ApplyTicks(r, b)
    PROVE  /\ books' \in [Roles -> [bid : Nat, ask : Nat, lots : Nat]]
           /\ versions' \in [Roles -> Nat] /\ nextVersion' \in Nat /\ VersionsGrow'
           /\ nextVersion' >= nextVersion
           /\ \A r \in Roles : versions'[r] \in {versions[r], 0, nextVersion}
  <1>1. /\ books \in [Roles -> [bid : Nat, ask : Nat, lots : Nat]]
        /\ versions \in [Roles -> Nat] /\ nextVersion \in Nat /\ VersionsGrow
    BY DEF TradingIInv, TradingTypeOK
  <1>2. CASE UNCHANGED <<books, versions, nextVersion>>
    BY <1>1, <1>2 DEF VersionsGrow
  <1>3. CASE ClearBooks /\ UNCHANGED nextVersion
    <2>1. nextVersion > 0
      BY <1>1 DEF VersionsGrow, Roles
    <2>2. NoBook \in [bid : Nat, ask : Nat, lots : Nat]
      BY DEF NoBook
    <2> QED BY <1>1, <1>3, <2>1, <2>2 DEF ClearBooks, VersionsGrow
  <1>4. CASE \E r \in Roles : \E b \in Books(r) : ApplyTicks(r, b)
    <2>0. PICK r \in Roles : \E b \in Books(r) : ApplyTicks(r, b)
      BY <1>4
    <2>1. PICK b \in Books(r) : ApplyTicks(r, b)
      BY <2>0
    <2>2. b \in [bid : Nat, ask : Nat, lots : Nat]
      BY <2>1 DEF Books, Book, NoBook, Roles
    <2>3. /\ books' = [books EXCEPT ![r] = b] /\ nextVersion' = nextVersion + 1
          /\ versions' = [versions EXCEPT ![r] = IF b = NoBook THEN 0 ELSE nextVersion]
      BY <2>1 DEF ApplyTicks
    <2>4. VersionsGrow'
      BY <1>1, <2>3 DEF VersionsGrow
    <2> QED BY <1>1, <2>2, <2>3, <2>4
  <1> QED BY <1>2, <1>3, <1>4

\* No step but a look gives a signal a confirmation, and each keeps what the trades pay.
LEMMA OtherStepsKeep ==
    ASSUME TradingIInv, TradingNext, ~tick
    PROVE  TradingIInv' /\ ActsConfirmed
  <1>0. /\ streak \in [Dirs -> Streak] /\ exits \in Streak /\ seenBooks \in [SignalKinds -> SUBSET Signature]
        /\ entering \in Trade \cup {None} /\ held \in Trade \cup {None}
    BY DEF TradingIInv, TradingTypeOK
  <1>1. Fresh \in Streak /\ Fresh.n = 0
    BY DEF Fresh, Streak
  <1>2. SignalKinds = Dirs \cup {"exit"} /\ "exit" \notin Dirs
    BY DEF SignalKinds, Dirs
  <1> DEFINE NewBooks == \/ UNCHANGED <<books, versions, nextVersion>>
                         \/ ClearBooks /\ UNCHANGED nextVersion
                         \/ \E r \in Roles : \E b \in Books(r) : ApplyTicks(r, b)
             Looked == /\ streak' \in [Dirs -> Streak] /\ exits' \in Streak
                       /\ seenBooks' \in [SignalKinds -> SUBSET Signature]
                       /\ \A d \in Dirs : \/ streak'[d] = streak[d] /\ seenBooks'[d] = seenBooks[d]
                                          \/ streak'[d].n = 0 /\ seenBooks'[d] \in {seenBooks[d], {}}
                       /\ \/ exits' = exits /\ seenBooks'["exit"] = seenBooks["exit"]
                          \/ exits'.n = 0 /\ seenBooks'["exit"] \in {seenBooks["exit"], {}}
             Traded == /\ entering' \in {entering, None} /\ held' \in {held, entering, None}
                       /\ closing' \in {closing, None} \/ closing'.reason = "MANUAL"
                       /\ \/ closedTrades' = closedTrades
                          \/ closing # None /\ closedTrades' = closedTrades \cup {closing}
  <1>3. ASSUME NewBooks, Looked, Traded
        PROVE  TradingIInv' /\ ActsConfirmed
    <2>1. /\ books' \in [Roles -> [bid : Nat, ask : Nat, lots : Nat]]
          /\ versions' \in [Roles -> Nat] /\ nextVersion' \in Nat /\ VersionsGrow'
          /\ nextVersion' >= nextVersion
          /\ \A r \in Roles : versions'[r] \in {versions[r], 0, nextVersion}
      BY <1>3, BooksMove
    <2>2. TradingTypeOK'
      <3>1. entering' \in Trade \cup {None} /\ held' \in Trade \cup {None}
        BY <1>0, <1>3
      <3>2. /\ streak' \in [Dirs -> Streak] /\ exits' \in Streak
            /\ seenBooks' \in [SignalKinds -> SUBSET Signature]
        BY <1>3
      <3> HIDE DEF NewBooks, Looked, Traded
      <3> QED BY <2>1, <3>1, <3>2 DEF TradingTypeOK
    <2> QED BY <1>3, <2>1, <2>2, NoLookKeeps
  <1>4. UNCHANGED marketVars \/ UNCHANGED <<books, versions, nextVersion>> => NewBooks
    BY DEF marketVars
  <1>5. UNCHANGED <<streak, exits, seenBooks>> => Looked
    BY <1>0
  <1>6. refreshRows => \A d \in Dirs : streak'[d] \in Streak /\ (streak'[d] = streak[d] \/ streak'[d].n = 0)
    BY <1>0, <1>1 DEF refreshRows
  <1>7. refreshRows => streak' \in [Dirs -> Streak]
    BY <1>0, <1>1 DEF refreshRows
  <1>8. CASE finishEnter
    <2>1. NewBooks /\ Traded
      BY <1>4, <1>8 DEF finishEnter
    <2>2. CASE /\ exits' = Fresh /\ seenBooks' = [seenBooks EXCEPT !["exit"] = {}]
               /\ streak' = [streak EXCEPT ![entering.dir].n = 0]
      <3>1. \A d \in Dirs : [streak[d] EXCEPT !.n = 0] \in Streak /\ [streak[d] EXCEPT !.n = 0].n = 0
        BY <1>0 DEF Streak
      <3>2. \A d \in Dirs : streak'[d] \in Streak /\ (streak'[d] = streak[d] \/ streak'[d].n = 0)
        BY <1>0, <2>2, <3>1
      <3>3. streak' \in [Dirs -> Streak]
        BY <1>0, <2>2, <3>1
      <3>4. /\ seenBooks' \in [SignalKinds -> SUBSET Signature] /\ seenBooks'["exit"] = {}
            /\ \A d \in Dirs : seenBooks'[d] = seenBooks[d]
        BY <1>0, <1>2, <2>2
      <3>5. Looked
        BY <1>1, <2>2, <3>2, <3>3, <3>4
      <3> QED BY <1>3, <2>1, <3>5
    <2>3. CASE refreshRows /\ UNCHANGED <<held, exits, seenBooks>>
      <3>1. Looked
        BY <1>0, <1>2, <1>6, <1>7, <2>3
      <3> QED BY <1>3, <2>1, <3>1
    <2> QED BY <1>8, <2>2, <2>3 DEF finishEnter
  <1>9. CASE closeStored
    <2>1. NewBooks /\ Traded
      BY <1>4, <1>9 DEF closeStored
    <2>2. /\ seenBooks' \in [SignalKinds -> SUBSET Signature] /\ seenBooks'["exit"] = {}
          /\ \A d \in Dirs : seenBooks'[d] = seenBooks[d]
      BY <1>0, <1>2, <1>9 DEF closeStored
    <2>3. refreshRows /\ exits' = Fresh
      BY <1>9 DEF closeStored
    <2>4. Looked
      BY <1>1, <1>6, <1>7, <2>2, <2>3
    <2> QED BY <1>3, <2>1, <2>4
  <1>10. CASE closeFailed \/ RetryDue
    <2>1. NewBooks /\ Looked /\ Traded
      BY <1>4, <1>5, <1>10 DEF closeFailed, RetryDue, rowVars
    <2> QED BY <1>3, <2>1
  <1>11. CASE CloseManually
    <2>1. CloseTradeAtTouch(held, "MANUAL").reason = "MANUAL"
      BY DEF CloseTradeAtTouch
    <2>2. NewBooks /\ Looked /\ Traded
      BY <1>4, <1>5, <1>11, <2>1 DEF CloseManually, rowVars
    <2> QED BY <1>3, <2>2
  <1>12. CASE \E r \in Roles : \E b \in Books(r) : OnTicks(r, b)
    <2>1. NewBooks /\ UNCHANGED <<rowVars, tradeVars, seenBooks>>
      BY <1>12 DEF OnTicks
    <2>2. Looked /\ Traded
      BY <1>5, <2>1 DEF rowVars, tradeVars
    <2> QED BY <1>3, <2>1, <2>2
  <1>13. CASE FeedLapses \/ InvalidateBooks \/ TimePasses
    <2>1. NewBooks /\ UNCHANGED <<rowVars, tradeVars, seenBooks>>
      BY <1>13 DEF FeedLapses, InvalidateBooks, TimePasses
    <2>2. Looked /\ Traded
      BY <1>5, <2>1 DEF rowVars, tradeVars
    <2> QED BY <1>3, <2>1, <2>2
  <1>14. CASE InvalidateNamespace
    <2>1. NewBooks /\ Traded
      BY <1>14 DEF InvalidateNamespace
    <2>2. Looked
      BY <1>0, <1>1, <1>2, <1>14 DEF InvalidateNamespace
    <2> QED BY <1>3, <2>1, <2>2
  <1>15. CASE Relinked
    <2>1. NewBooks /\ Looked /\ Traded
      BY <1>4, <1>5, <1>15 DEF Relinked, rowVars
    <2> QED BY <1>3, <2>1
  <1> QED BY <1>8, <1>9, <1>10, <1>11, <1>12, <1>13, <1>14, <1>15 DEF TradingNext

\* The scanner enters and closes by a rule only what was confirmed on as many different books
\* in a row as it asks for; no close by an exit rule loses, and a settlement at expiry pays the
\* minimum of the gate less the carry that the gate counted, whatever is switched, cleared, aged,
\* tried again or asked for by hand between two looks (the loop of engine.go, math.go).
THEOREM TradingAlwaysByRules == TradingSpec => RulesKept
  <1> USE SynthTradingBounds
  <1>1. TradingInit => TradingIInv
    BY TradingStarts
  <1>2. TradingIInv /\ [TradingNext]_tradingVars => TradingIInv'
    <2> SUFFICES ASSUME TradingIInv, [TradingNext]_tradingVars PROVE TradingIInv'
      OBVIOUS
    <2>1. CASE tick
      BY <2>1, LookKeeps
    <2>2. CASE TradingNext /\ ~tick
      BY <2>2, OtherStepsKeep
    <2>3. CASE UNCHANGED tradingVars
      BY <2>3 DEF TradingIInv, TradingTypeOK, VersionsGrow, CountsBooks, Past, Pays, OrderCharges, ClosePays,
                  RuleExitsPay, tradingVars, marketVars, rowVars, tradeVars
    <2> QED BY <2>1, <2>2, <2>3
  <1>3. TradingIInv /\ TradingIInv' /\ [TradingNext]_tradingVars
           => [ActsConfirmed /\ RuleExitsPay']_tradingVars
    <2> SUFFICES ASSUME TradingIInv, TradingIInv', TradingNext PROVE ActsConfirmed /\ RuleExitsPay'
      BY DEF TradingNext
    <2>1. ActsConfirmed
      BY LookKeeps, OtherStepsKeep
    <2>2. RuleExitsPay'
      BY DEF TradingIInv
    <2> QED BY <2>1, <2>2
  <1> QED BY <1>1, <1>2, <1>3, PTL DEF TradingSpec, RulesKept


-----------------------------------------------------------------------------
(* The queue of a Dhan lane                                                *)

Feeds == [want : SUBSET LaneTokens, open : BOOLEAN]

\* One operation more at the end of the queue has the last word on its tokens.
LEMMA WantedAppend ==
    ASSUME NEW f \in Feeds, NEW q \in Seq(WireOps), NEW op \in WireOps
    PROVE  WantedAfter(f, Append(q, op)) =
             {t \in LaneTokens : IF Settles(op, t) THEN op.kind = "subscribe" ELSE t \in WantedAfter(f, q)}
  <1> DEFINE r == Append(q, op)
  <1>1. /\ DOMAIN q = 1 .. Len(q) /\ DOMAIN r = 1 .. Len(q) + 1 /\ Len(q) \in Nat
        /\ \A i \in 1 .. Len(q) : r[i] = q[i]
        /\ r[Len(q) + 1] = op
    BY AppendProperties, LenProperties
  <1> HIDE DEF r
  <1> DEFINE n == Len(q) + 1
             Decided(t) == IF Settles(op, t) THEN op.kind = "subscribe" ELSE t \in WantedAfter(f, q)
  <1>2. ASSUME NEW t \in LaneTokens PROVE t \in WantedAfter(f, r) <=> Decided(t)
    <2>1. CASE Settles(op, t)
      <3>1. ~\A j \in DOMAIN r : ~Settles(r[j], t)
        BY <1>1, <2>1
      <3>2. \A i \in DOMAIN r : i # n => ~\A j \in DOMAIN r : j > i => ~Settles(r[j], t)
        BY <1>1, <2>1
      <3>3. n \in DOMAIN r /\ \A j \in DOMAIN r : ~(j > n)
        BY <1>1
      <3>4. t \in WantedAfter(f, r) <=> op.kind = "subscribe" /\ t \in op.tokens
        BY <1>1, <3>1, <3>2, <3>3 DEF WantedAfter
      <3> QED BY <2>1, <3>4 DEF Settles
    <2>2. CASE ~Settles(op, t)
      <3>1. (\A j \in DOMAIN r : ~Settles(r[j], t)) <=> \A j \in DOMAIN q : ~Settles(q[j], t)
        BY <1>1, <2>2
      <3>2. \A i \in DOMAIN q : (\A j \in DOMAIN r : j > i => ~Settles(r[j], t))
                                  <=> \A j \in DOMAIN q : j > i => ~Settles(q[j], t)
        BY <1>1, <2>2
      <3>3. ~(op.kind = "subscribe" /\ t \in op.tokens)
        BY <2>2 DEF Settles
      <3>4. (\E i \in DOMAIN r : r[i].kind = "subscribe" /\ t \in r[i].tokens
                                 /\ \A j \in DOMAIN r : j > i => ~Settles(r[j], t))
            <=> (\E i \in DOMAIN q : q[i].kind = "subscribe" /\ t \in q[i].tokens
                                 /\ \A j \in DOMAIN q : j > i => ~Settles(q[j], t))
        <4>1. ASSUME NEW i \in DOMAIN r, r[i].kind = "subscribe" /\ t \in r[i].tokens
                                 /\ \A j \in DOMAIN r : j > i => ~Settles(r[j], t)
              PROVE  i \in DOMAIN q /\ q[i].kind = "subscribe" /\ t \in q[i].tokens
                                 /\ \A j \in DOMAIN q : j > i => ~Settles(q[j], t)
          <5>1. i # n
            BY <1>1, <3>3, <4>1
          <5>2. i \in DOMAIN q
            BY <1>1, <5>1
          <5> QED BY <1>1, <3>2, <4>1, <5>2
        <4>2. ASSUME NEW i \in DOMAIN q, q[i].kind = "subscribe" /\ t \in q[i].tokens
                                 /\ \A j \in DOMAIN q : j > i => ~Settles(q[j], t)
              PROVE  i \in DOMAIN r /\ r[i].kind = "subscribe" /\ t \in r[i].tokens
                                 /\ \A j \in DOMAIN r : j > i => ~Settles(r[j], t)
          BY <1>1, <3>2, <4>2
        <4> QED BY <4>1, <4>2
      <3>5. t \in WantedAfter(f, r) <=> t \in WantedAfter(f, q)
        BY <3>1, <3>4 DEF WantedAfter
      <3> QED BY <2>2, <3>5
    <2> QED BY <2>1, <2>2
  <1>3. \A t \in WantedAfter(f, r) : t \in LaneTokens
    BY DEF WantedAfter
  <1>4. WantedAfter(f, r) = {t \in LaneTokens : Decided(t)}
    BY <1>2, <1>3
  <1> QED BY <1>4 DEF r

\* What an operation makes of the tokens a feed wants.
LEMMA AppliedFeed ==
    ASSUME NEW f \in Feeds, NEW op \in WireOps
    PROVE  /\ Applied(f, op) \in Feeds
           /\ \A t \in LaneTokens : t \in Applied(f, op).want
                <=> IF Settles(op, t) THEN op.kind = "subscribe" ELSE t \in f.want
           /\ (f.want # {} => f.open) => (Applied(f, op).want # {} => Applied(f, op).open)
  <1> USE DEF WireOps, Feeds
  <1>1. CASE op.kind = "subscribe"
    BY <1>1 DEF Applied, Settles
  <1>2. CASE op.kind = "unsubscribe"
    BY <1>2 DEF Applied, Settles
  <1>3. CASE op.kind = "ensureSocket"
    BY <1>3 DEF Applied, Settles
  <1>4. CASE op.kind = "stop"
    BY <1>4 DEF Applied, Settles, Shut
  <1>5. CASE op.kind = "flush"
    BY <1>5 DEF Applied, Settles
  <1> QED BY <1>1, <1>2, <1>3, <1>4, <1>5

\* Running the first operation of the queue changes nothing in what the whole queue leads to.
LEMMA WantedHead ==
    ASSUME NEW f \in Feeds, NEW op \in WireOps, NEW q \in Seq(WireOps)
    PROVE  WantedAfter(f, <<op>> \o q) = WantedAfter(Applied(f, op), q)
  <1> DEFINE r == <<op>> \o q
             g == Applied(f, op)
  <1>1. /\ DOMAIN q = 1 .. Len(q) /\ DOMAIN r = 1 .. Len(q) + 1 /\ Len(q) \in Nat
        /\ r[1] = op
        /\ \A i \in 1 .. Len(q) : r[i + 1] = q[i]
    <2>1. <<op>> \in Seq(WireOps) /\ Len(<<op>>) = 1 /\ <<op>>[1] = op
      OBVIOUS
    <2>2. /\ r \in Seq(WireOps) /\ Len(r) = 1 + Len(q) /\ Len(q) \in Nat
          /\ \A i \in 1 .. 1 + Len(q) : r[i] = IF i <= 1 THEN <<op>>[i] ELSE q[i - 1]
      BY <2>1, ConcatProperties, LenProperties
    <2> HIDE DEF r
    <2>3. \A i \in 1 .. Len(q) : r[i + 1] = q[i]
      <3>1. \A i \in 1 .. Len(q) : i + 1 \in 1 .. 1 + Len(q) /\ (i + 1) - 1 = i /\ ~(i + 1 <= 1)
        BY <2>2
      <3> QED BY <2>2, <3>1
    <2>4. r[1] = op
      BY <2>1, <2>2
    <2>5. DOMAIN r = 1 .. Len(q) + 1 /\ DOMAIN q = 1 .. Len(q)
      BY <2>2, LenProperties
    <2> QED BY <2>2, <2>3, <2>4, <2>5
  <1> HIDE DEF r
  <1>2. ASSUME NEW t \in LaneTokens PROVE t \in WantedAfter(f, r) <=> t \in WantedAfter(g, q)
    <2> DEFINE Quiet == \A j \in DOMAIN q : ~Settles(q[j], t)
               Later(i) == \A j \in DOMAIN q : j > i => ~Settles(q[j], t)
    <2>1. (\A j \in DOMAIN r : ~Settles(r[j], t)) <=> ~Settles(op, t) /\ Quiet
      <3>1. \A j \in DOMAIN r : j = 1 \/ (j - 1 \in 1 .. Len(q) /\ r[j] = q[j - 1])
        BY <1>1
      <3> QED BY <1>1, <3>1
    <2>2. (\A j \in DOMAIN r : j > 1 => ~Settles(r[j], t)) <=> Quiet
      <3>1. \A j \in DOMAIN r : j > 1 => (j - 1 \in 1 .. Len(q) /\ r[j] = q[j - 1])
        BY <1>1
      <3>2. \A j \in 1 .. Len(q) : j + 1 \in DOMAIN r /\ j + 1 > 1
        BY <1>1
      <3> QED BY <1>1, <3>1, <3>2
    <2>3. ASSUME NEW i \in 1 .. Len(q)
          PROVE  (\A j \in DOMAIN r : j > i + 1 => ~Settles(r[j], t)) <=> Later(i)
      <3>1. \A j \in DOMAIN r : j > i + 1 => (j - 1 \in 1 .. Len(q) /\ r[j] = q[j - 1] /\ j - 1 > i)
        BY <1>1
      <3>2. \A j \in 1 .. Len(q) : j > i => (j + 1 \in DOMAIN r /\ j + 1 > i + 1)
        BY <1>1
      <3> QED BY <1>1, <3>1, <3>2
    <2> HIDE DEF Quiet, Later
    <2>4. (\E i \in DOMAIN r : r[i].kind = "subscribe" /\ t \in r[i].tokens
                               /\ \A j \in DOMAIN r : j > i => ~Settles(r[j], t))
          <=> \/ op.kind = "subscribe" /\ t \in op.tokens /\ Quiet
              \/ \E i \in DOMAIN q : q[i].kind = "subscribe" /\ t \in q[i].tokens /\ Later(i)
      <3>1. ASSUME NEW i \in DOMAIN r, r[i].kind = "subscribe", t \in r[i].tokens,
                   \A j \in DOMAIN r : j > i => ~Settles(r[j], t)
            PROVE  \/ op.kind = "subscribe" /\ t \in op.tokens /\ Quiet
                   \/ \E k \in DOMAIN q : q[k].kind = "subscribe" /\ t \in q[k].tokens /\ Later(k)
        <4>1. CASE i = 1
          BY <1>1, <2>2, <3>1, <4>1
        <4>2. CASE i # 1
          <5>1. i - 1 \in 1 .. Len(q) /\ r[i] = q[i - 1] /\ (i - 1) + 1 = i
            BY <1>1, <4>2
          <5>2. Later(i - 1)
            BY <2>3, <3>1, <5>1
          <5> QED BY <1>1, <3>1, <5>1, <5>2
        <4> QED BY <4>1, <4>2
      <3>2. ASSUME op.kind = "subscribe" /\ t \in op.tokens /\ Quiet
            PROVE  \E i \in DOMAIN r : r[i].kind = "subscribe" /\ t \in r[i].tokens
                               /\ \A j \in DOMAIN r : j > i => ~Settles(r[j], t)
        <4>1. 1 \in DOMAIN r
          BY <1>1
        <4> QED BY <1>1, <2>2, <3>2, <4>1
      <3>3. ASSUME NEW i \in DOMAIN q, q[i].kind = "subscribe" /\ t \in q[i].tokens /\ Later(i)
            PROVE  \E k \in DOMAIN r : r[k].kind = "subscribe" /\ t \in r[k].tokens
                               /\ \A j \in DOMAIN r : j > k => ~Settles(r[j], t)
        <4>1. i + 1 \in DOMAIN r /\ r[i + 1] = q[i] /\ i \in 1 .. Len(q)
          BY <1>1
        <4>2. \A j \in DOMAIN r : j > i + 1 => ~Settles(r[j], t)
          BY <2>3, <3>3, <4>1
        <4> QED BY <3>3, <4>1, <4>2
      <3> QED BY <3>1, <3>2, <3>3
    <2>5. t \in g.want <=> IF Settles(op, t) THEN op.kind = "subscribe" ELSE t \in f.want
      BY AppliedFeed
    <2>6. op.kind = "subscribe" => (Settles(op, t) <=> t \in op.tokens)
      BY DEF Settles
    <2>7. t \in WantedAfter(f, r) <=> \/ op.kind = "subscribe" /\ t \in op.tokens /\ Quiet
                                      \/ \E i \in DOMAIN q : q[i].kind = "subscribe" /\ t \in q[i].tokens /\ Later(i)
                                      \/ t \in f.want /\ ~Settles(op, t) /\ Quiet
      BY <2>1, <2>4 DEF WantedAfter
    <2>8. t \in WantedAfter(g, q) <=> \/ \E i \in DOMAIN q : q[i].kind = "subscribe" /\ t \in q[i].tokens /\ Later(i)
                                      \/ t \in g.want /\ Quiet
      BY DEF WantedAfter, Later, Quiet
    <2> QED BY <2>5, <2>6, <2>7, <2>8
  <1>3. (\A t \in WantedAfter(f, r) : t \in LaneTokens) /\ \A t \in WantedAfter(g, q) : t \in LaneTokens
    BY DEF WantedAfter
  <1> QED BY <1>2, <1>3 DEF r

LEMMA QueuedTyped == ASSUME WireTypeOK PROVE Queued \in Seq(WireOps)
  <1>1. running \in WireOps /\ wire \in Seq(WireOps)
    BY DEF WireTypeOK
  <1>2. <<running>> \in Seq(WireOps)
    BY <1>1
  <1>3. <<running>> \o wire \in Seq(WireOps) /\ <<>> \o wire \in Seq(WireOps)
    BY <1>1, <1>2, ConcatProperties, EmptySeq
  <1> QED BY <1>3 DEF Queued

\* An operation is queued (serial.Go).
LEMMA GoAppends ==
    ASSUME WireTypeOK, NEW op \in WireOps, SerialGo(op)
    PROVE  /\ wire' \in Seq(WireOps) /\ runner' \in {"off", "loop", "op", "gate", "drain"} /\ running' = running
           /\ Queued' = Append(Queued, op)
  <1>1. running \in WireOps /\ wire \in Seq(WireOps) /\ runner \in {"off", "loop", "op", "gate", "drain"}
    BY DEF WireTypeOK
  <1>2. wire' = Append(wire, op) /\ running' = running /\ runner' = IF runner = "off" THEN "loop" ELSE runner
    BY DEF SerialGo
  <1>3. wire' \in Seq(WireOps)
    BY <1>1, <1>2, AppendProperties
  <1>4. ASSUME NEW a \in Seq(WireOps) PROVE a \o Append(wire, op) = Append(a \o wire, op)
    <2>1. <<op>> \in Seq(WireOps) /\ a \o wire \in Seq(WireOps)
      BY <1>1, ConcatProperties
    <2>2. Append(wire, op) = wire \o <<op>> /\ Append(a \o wire, op) = (a \o wire) \o <<op>>
      BY <1>1, <2>1, AppendIsConcat
    <2> QED BY <1>1, <2>1, <2>2, ConcatAssociative
  <1>5. <<>> \in Seq(WireOps) /\ <<running>> \in Seq(WireOps)
    BY <1>1
  <1>6. runner' \in {"op", "gate"} <=> runner \in {"op", "gate"}
    BY <1>1, <1>2
  <1> QED BY <1>1, <1>2, <1>3, <1>4, <1>5, <1>6 DEF Queued

\* Steps that change neither the table nor what the queue leads to.
LEMMA FollowsOn ==
    ASSUME QueueFollowsTable, UNCHANGED <<coordMu, table, wasStopped>>,
           WantedAfter(feed, Queued)' = WantedAfter(feed, Queued),
           \A p \in Declarers : \/ doing'[p] = doing[p]
                                \/ doing'[p].at \notin {"unsub", "sub"} /\ doing[p].at \notin {"unsub", "sub"}
    PROVE  QueueFollowsTable'
  <1>1. HeldTokens' = HeldTokens
    BY DEF HeldTokens
  <1>2. \A p \in Declarers : Meant(p)' = Meant(p)
    BY DEF Meant
  <1> QED BY <1>1, <1>2 DEF QueueFollowsTable

\* An empty queue, and nothing declared (newSerial, NewSubscriptionCoordinator).
LEMMA WireInitEstablishes == WireInit => WireIInv
  <1> SUFFICES ASSUME WireInit PROVE WireIInv
    OBVIOUS
  <1> USE DEF WireInit
  <1>1. IdleProc.at = "idle" /\ \A p \in LaneProcs : doing[p] = IdleProc
    BY DEF IdleProc
  <1>2. WireTypeOK
    <2>1. NoWireOp \in WireOps /\ wire \in Seq(WireOps)
      BY DEF NoWireOp, WireOp, WireOps
    <2>2. IdleProc \in [at : {"idle", "coordinator", "unsub", "sub", "return", "doWait"},
                        unsub : SUBSET LaneTokens, sub : SUBSET LaneTokens]
      BY DEF IdleProc
    <2>3. Shut \in [want : SUBSET LaneTokens, open : BOOLEAN]
      BY DEF Shut
    <2> QED BY <2>1, <2>2, <2>3 DEF WireTypeOK
  <1>3. HoldsCoordinator /\ OneWaits /\ WantOpens
    BY <1>1 DEF HoldsCoordinator, OneWaits, WantOpens, LaneProcs, Declarers, Operator, Nobody, NoWireOp, WireOp, Shut
  <1>4. QueueFollowsTable
    <2>1. Queued = <<>>
      BY DEF Queued
    <2>2. WantedAfter(feed, Queued) = {}
      BY <2>1 DEF WantedAfter, Shut
    <2>3. HeldTokens = {}
      BY DEF HeldTokens
    <2> QED BY <1>1, <2>2, <2>3 DEF QueueFollowsTable, Meant, LaneProcs
  <1> QED BY <1>2, <1>3, <1>4 DEF WireIInv

\* A declarer goes for the coordinator's lock, gets it, or releases it.
LEMMA DeclarerWaits == ASSUME WireIInv, NEW p \in Declarers, Declare(p) \/ Unlocks(p) PROVE WireIInv'
  <1> USE DEF WireIInv
  <1>1. /\ UNCHANGED <<table, wire, runner, running, feed, wasStopped>>
        /\ coordMu' = IF doing[p].at = "return" THEN Nobody ELSE coordMu
        /\ \/ doing[p].at = "idle" /\ doing' = [doing EXCEPT ![p].at = "coordinator"]
           \/ doing[p].at = "return" /\ doing' = [doing EXCEPT ![p] = IdleProc]
    BY DEF Declare, Unlocks, runVars
  <1>2. /\ doing' \in [LaneProcs -> [at : {"idle", "coordinator", "unsub", "sub", "return", "doWait"},
                                     unsub : SUBSET LaneTokens, sub : SUBSET LaneTokens]]
        /\ \A o \in LaneProcs : o # p => doing'[o] = doing[o]
        /\ doing'[p].at \in {"idle", "coordinator"} /\ doing[p].at \in {"idle", "return"}
    BY <1>1 DEF WireTypeOK, LaneProcs, IdleProc
  <1>3. p # Operator /\ p # Nobody /\ p \in LaneProcs
    BY DEF Declarers, Operator, Nobody, LaneProcs
  <1>4. WireTypeOK'
    BY <1>1, <1>2 DEF WireTypeOK
  <1>5. HoldsCoordinator'
    BY <1>1, <1>2, <1>3 DEF HoldsCoordinator, LaneProcs, Operator, Declarers, Nobody
  <1>6. OneWaits' /\ WantOpens'
    BY <1>1, <1>2, <1>3 DEF OneWaits, WantOpens, LaneProcs
  <1>7. QueueFollowsTable'
    <2>1. HeldTokens' = HeldTokens /\ Queued' = Queued
      BY <1>1 DEF HeldTokens, Queued
    <2>2. \A o \in Declarers : Meant(o)' = Meant(o)
      BY <1>1, <1>2, <2>1 DEF Meant, LaneProcs
    <2>3. coordMu' = coordMu \/ coordMu = p
      BY <1>1 DEF HoldsCoordinator
    <2>4. \A o \in Declarers : o # p /\ coordMu = p => doing[o].at \notin {"unsub", "sub", "return"}
      BY DEF HoldsCoordinator
    <2>5. \A o \in Declarers : Meant(o)' = Meant(p) \/ coordMu' \notin {o, Nobody} \/ coordMu' = coordMu
      BY <1>1, <1>2, <2>2, <2>3, <2>4 DEF Meant
    <2> QED BY <1>1, <2>1, <2>2, <2>3, <2>5 DEF QueueFollowsTable
  <1> QED BY <1>4, <1>5, <1>6, <1>7

\* The declarer's set replaces its old one: what it has to send is the difference nobody else covers.
LEMMA TableChanges == ASSUME WireIInv, NEW p \in Declarers, NEW T \in SUBSET LaneTokens, SetTable(p, T) PROVE WireIInv'
  <1> USE DEF WireIInv
  <1> DEFINE others == UNION {table[o] : o \in Declarers \ {p}}
             dropped == (table[p] \ T) \ others
             new == (T \ table[p]) \ others
  <1>0. /\ UNCHANGED <<wire, runner, running, feed, wasStopped>>
        /\ doing[p].at = "coordinator" /\ coordMu = Nobody /\ coordMu' = p
        /\ table' = [table EXCEPT ![p] = T]
        /\ doing' = [doing EXCEPT ![p] = [at |-> "unsub", unsub |-> dropped, sub |-> new]]
    BY DEF SetTable, runVars
  <1>1. table \in [Declarers -> SUBSET LaneTokens]
    BY DEF WireTypeOK
  <1>2. dropped \in SUBSET LaneTokens /\ new \in SUBSET LaneTokens
    BY <1>1
  <1>3. HeldTokens = table[p] \cup others
    BY <1>1 DEF HeldTokens
  <1>4. HeldTokens' = T \cup others
    <2>1. \A o \in Declarers \ {p} : table'[o] = table[o]
      BY <1>0, <1>1
    <2>2. table'[p] = T
      BY <1>0, <1>1
    <2> QED BY <2>1, <2>2 DEF HeldTokens
  <1> DEFINE W == WantedAfter(feed, Queued)
  <1>5. W \subseteq HeldTokens /\ (~wasStopped => W = HeldTokens)
    BY <1>0 DEF QueueFollowsTable, Meant
  <1>6. /\ (W \ dropped) \cup new \subseteq HeldTokens'
        /\ ~wasStopped => (W \ dropped) \cup new = HeldTokens'
    <2> HIDE DEF others, W
    <2> QED BY <1>3, <1>4, <1>5
  <1>7. W' = W
    BY <1>0 DEF Queued
  <1> HIDE DEF others, dropped, new, W
  <1>8. /\ doing'[p] = [at |-> "unsub", unsub |-> dropped, sub |-> new]
        /\ \A o \in LaneProcs : o # p => doing'[o] = doing[o]
        /\ p \in LaneProcs /\ p # Operator
    BY <1>0 DEF WireTypeOK, LaneProcs, Declarers, Operator
  <1>9. WireTypeOK'
    BY <1>0, <1>2 DEF WireTypeOK
  <1>10. HoldsCoordinator'
    BY <1>0, <1>8 DEF HoldsCoordinator, LaneProcs, Declarers, Operator, Nobody
  <1>11. OneWaits' /\ WantOpens'
    BY <1>0, <1>8 DEF OneWaits, WantOpens, LaneProcs
  <1>12. QueueFollowsTable'
    <2>1. coordMu' = p /\ p # Nobody
      BY <1>0 DEF Declarers, Nobody
    <2>2. Meant(p)' = (W \ dropped) \cup new
      BY <1>7, <1>8 DEF Meant, W
    <2> QED BY <1>0, <1>6, <2>1, <2>2 DEF QueueFollowsTable
  <1> QED BY <1>9, <1>10, <1>11, <1>12

\* One more operation that nobody waits for.
LEMMA OneWaitsAppend ==
    ASSUME WireTypeOK, OneWaits, NEW op \in WireOps, wire' = Append(wire, op), running' = running,
           doing'[Operator].at = doing[Operator].at, op.waiter = Nobody, op.kind # "stop"
    PROVE  OneWaits'
  <1>1. /\ DOMAIN wire = 1 .. Len(wire) /\ DOMAIN wire' = 1 .. Len(wire) + 1 /\ Len(wire) \in Nat
        /\ \A i \in 1 .. Len(wire) : wire'[i] = wire[i]
        /\ wire'[Len(wire) + 1] = op
    BY AppendProperties, LenProperties DEF WireTypeOK
  <1>2. \A i \in DOMAIN wire' : wire'[i].waiter = Operator \/ wire'[i].kind = "stop"
                                => i \in DOMAIN wire /\ wire'[i] = wire[i]
    BY <1>1 DEF Operator, Nobody
  <1> QED BY <1>2 DEF OneWaits

\* What the declarer has to send goes to the end of the queue (unsubscribeUpstream, subscribeUpstream).
LEMMA DeclarerSends ==
    ASSUME WireIInv, NEW p \in Declarers, unsubscribeUpstream(p) \/ subscribeUpstream(p)
    PROVE  WireIInv'
  <1> USE DEF WireIInv
  <1> DEFINE first == unsubscribeUpstream(p)
             kind == IF doing[p].at = "unsub" THEN "unsubscribe" ELSE "subscribe"
             S == IF doing[p].at = "unsub" THEN doing[p].unsub ELSE doing[p].sub
             next == IF doing[p].at = "unsub" THEN "sub" ELSE "return"
             op == [kind |-> kind, tokens |-> S, waiter |-> Nobody]
             W == WantedAfter(feed, Queued)
  <1>1. /\ doing[p].at \in {"unsub", "sub"} /\ doing' = [doing EXCEPT ![p].at = next]
        /\ UNCHANGED <<coordMu, table, feed, wasStopped>>
        /\ IF S # {} THEN SerialGo(op) ELSE UNCHANGED <<wire, runner, running>>
    BY DEF unsubscribeUpstream, subscribeUpstream, WireOp, lockVars, runVars
  <1>2. /\ p \in LaneProcs /\ p # Operator /\ p # Nobody
        /\ doing[p] \in [at : {"idle", "coordinator", "unsub", "sub", "return", "doWait"},
                         unsub : SUBSET LaneTokens, sub : SUBSET LaneTokens]
    BY DEF WireTypeOK, LaneProcs, Declarers, Operator, Nobody
  <1>3. op \in WireOps /\ op.waiter = Nobody /\ op.kind = kind /\ op.tokens = S /\ kind # "stop"
    BY <1>2 DEF WireOps
  <1>4. /\ doing' \in [LaneProcs -> [at : {"idle", "coordinator", "unsub", "sub", "return", "doWait"},
                                     unsub : SUBSET LaneTokens, sub : SUBSET LaneTokens]]
        /\ \A o \in LaneProcs : o # p => doing'[o] = doing[o]
        /\ doing'[p].at = next /\ doing'[p].sub = doing[p].sub /\ doing'[p].unsub = doing[p].unsub
    BY <1>1, <1>2 DEF WireTypeOK
  <1> HIDE DEF op
  <1>5. /\ wire' \in Seq(WireOps) /\ runner' \in {"off", "loop", "op", "gate", "drain"} /\ running' = running
        /\ Queued' = IF S # {} THEN Append(Queued, op) ELSE Queued
    <2>1. CASE S # {}
      BY <1>1, <1>3, <2>1, GoAppends
    <2>2. CASE S = {}
      BY <1>1, <2>2 DEF WireTypeOK, Queued
    <2> QED BY <2>1, <2>2
  <1>6. WireTypeOK'
    BY <1>1, <1>4, <1>5 DEF WireTypeOK
  <1>7. HoldsCoordinator'
    BY <1>1, <1>2, <1>4 DEF HoldsCoordinator, LaneProcs, Declarers, Operator
  <1>8. OneWaits' /\ WantOpens'
    <2>1. doing'[Operator].at = doing[Operator].at
      BY <1>2, <1>4 DEF LaneProcs
    <2>2. CASE S # {}
      BY <1>1, <1>3, <1>5, <2>1, <2>2, OneWaitsAppend DEF SerialGo, WantOpens
    <2>3. CASE S = {}
      BY <1>1, <2>1, <2>3 DEF OneWaits, WantOpens
    <2> QED BY <2>2, <2>3
  <1>9. W' = IF kind = "unsubscribe" THEN W \ S ELSE W \cup S
    <2>1. WantedAfter(feed, Queued)' = WantedAfter(feed, Queued')
      BY <1>1
    <2>2. CASE S = {}
      BY <1>5, <2>1, <2>2
    <2>3. CASE S # {}
      <3>1. W' = {t \in LaneTokens : IF Settles(op, t) THEN op.kind = "subscribe" ELSE t \in W}
        BY <1>3, <1>5, <2>1, <2>3, QueuedTyped, WantedAppend DEF WireTypeOK, Feeds
      <3>2. W \subseteq LaneTokens /\ S \subseteq LaneTokens
        BY <1>2 DEF WantedAfter
      <3>3. \A t \in LaneTokens : Settles(op, t) <=> t \in S
        BY <1>3 DEF Settles
      <3> HIDE DEF W, S
      <3> QED BY <1>3, <3>1, <3>2, <3>3
    <2> QED BY <2>2, <2>3
  <1>10. QueueFollowsTable'
    <2>1. coordMu' = p /\ coordMu = p /\ HeldTokens' = HeldTokens
      BY <1>1 DEF HoldsCoordinator, HeldTokens
    <2>2. Meant(p) \subseteq HeldTokens /\ (~wasStopped => Meant(p) = HeldTokens)
      BY <2>1 DEF QueueFollowsTable
    <2>3. Meant(p)' = Meant(p)
      <3>1. CASE doing[p].at = "unsub"
        <4>1. Meant(p) = (W \ doing[p].unsub) \cup doing[p].sub
          BY <3>1 DEF Meant
        <4>2. Meant(p)' = W' \cup doing[p].sub
          BY <1>4, <3>1 DEF Meant
        <4>3. W' = W \ doing[p].unsub
          BY <1>9, <3>1
        <4> HIDE DEF W
        <4> QED BY <4>1, <4>2, <4>3
      <3>2. CASE doing[p].at = "sub"
        <4>1. Meant(p) = W \cup doing[p].sub
          BY <3>2 DEF Meant
        <4>2. Meant(p)' = W'
          BY <1>4, <3>2 DEF Meant
        <4>3. W' = W \cup doing[p].sub
          BY <1>9, <3>2
        <4> HIDE DEF W
        <4> QED BY <4>1, <4>2, <4>3
      <3> QED BY <1>1, <3>1, <3>2
    <2> QED BY <1>1, <1>2, <2>1, <2>2, <2>3 DEF QueueFollowsTable
  <1> QED BY <1>6, <1>7, <1>8, <1>10

\* The holder of opMu queues a stop, a start or a flush and waits for it.
LEMMA OperatorCalls ==
    ASSUME WireIInv, NEW kind \in {"stop", "ensureSocket", "flush"}, LaneCall(kind)
    PROVE  WireIInv'
  <1> USE DEF WireIInv
  <1> DEFINE op == [kind |-> kind, tokens |-> {}, waiter |-> Operator]
             W == WantedAfter(feed, Queued)
  <1>1. /\ doing[Operator].at = "idle" /\ doing' = [doing EXCEPT ![Operator].at = "doWait"]
        /\ UNCHANGED <<coordMu, table, feed>> /\ wasStopped' = (wasStopped \/ kind = "stop")
        /\ SerialGo(op)
    BY DEF LaneCall, SerialDo, WireOp, lockVars
  <1>2. op \in WireOps /\ op.waiter = Operator /\ op.kind = kind
    BY DEF WireOps
  <1>3. /\ doing' \in [LaneProcs -> [at : {"idle", "coordinator", "unsub", "sub", "return", "doWait"},
                                     unsub : SUBSET LaneTokens, sub : SUBSET LaneTokens]]
        /\ \A o \in Declarers : doing'[o] = doing[o]
        /\ doing'[Operator].at = "doWait"
    BY <1>1 DEF WireTypeOK, LaneProcs, Declarers, Operator
  <1> HIDE DEF op
  <1>4. /\ wire' \in Seq(WireOps) /\ runner' \in {"off", "loop", "op", "gate", "drain"} /\ running' = running
        /\ Queued' = Append(Queued, op)
    BY <1>1, <1>2, GoAppends
  <1>5. WireTypeOK'
    BY <1>1, <1>3, <1>4 DEF WireTypeOK
  <1>6. HoldsCoordinator' /\ WantOpens'
    BY <1>1, <1>3 DEF HoldsCoordinator, WantOpens
  <1>7. OneWaits'
    <2>1. /\ DOMAIN wire = 1 .. Len(wire) /\ DOMAIN wire' = 1 .. Len(wire) + 1 /\ Len(wire) \in Nat
          /\ \A i \in 1 .. Len(wire) : wire'[i] = wire[i]
          /\ wire'[Len(wire) + 1] = op
      BY <1>1, <1>2, AppendProperties, LenProperties DEF WireTypeOK, SerialGo
    <2>2. running.waiter # Operator /\ \A i \in DOMAIN wire : wire[i].waiter # Operator
      BY <1>1 DEF OneWaits
    <2>3. \A i \in DOMAIN wire' : i = Len(wire) + 1 \/ (i \in DOMAIN wire /\ wire'[i] = wire[i])
      BY <2>1
    <2> QED BY <1>2, <1>3, <1>4, <2>1, <2>2, <2>3 DEF OneWaits
  <1>8. W' = IF kind = "stop" THEN {} ELSE W
    <2>1. WantedAfter(feed, Queued)' = WantedAfter(feed, Queued')
      BY <1>1
    <2>2. W' = {t \in LaneTokens : IF Settles(op, t) THEN op.kind = "subscribe" ELSE t \in W}
      BY <1>2, <1>4, <2>1, QueuedTyped, WantedAppend DEF WireTypeOK, Feeds
    <2>3. W \subseteq LaneTokens
      BY DEF WantedAfter
    <2>4. \A t \in LaneTokens : (Settles(op, t) <=> kind = "stop") /\ op.kind # "subscribe"
      BY <1>2 DEF Settles
    <2> HIDE DEF W
    <2> QED BY <2>2, <2>3, <2>4
  <1>9. QueueFollowsTable'
    <2>1. HeldTokens' = HeldTokens
      BY <1>1 DEF HeldTokens
    <2>2. ASSUME NEW p \in Declarers
          PROVE  Meant(p)' \subseteq Meant(p) /\ (kind # "stop" => Meant(p)' = Meant(p))
      BY <1>3, <1>8 DEF Meant
    <2> QED BY <1>1, <2>1, <2>2 DEF QueueFollowsTable
  <1> QED BY <1>5, <1>6, <1>7, <1>9

\* The goroutine of the queue takes the next operation, and for some the gate.
LEMMA RunnerTakes == ASSUME WireIInv, RunTakes \/ RunLocks PROVE WireIInv'
  <1> USE DEF WireIInv
  <1>1. UNCHANGED <<coordMu, table, doing, feed, wasStopped>>
    BY DEF RunTakes, RunLocks, lockVars
  <1>2. wire \in Seq(WireOps)
    BY DEF WireTypeOK
  <1>3. /\ wire' \in Seq(WireOps) /\ runner' \in {"off", "loop", "op", "gate", "drain"} /\ running' \in WireOps
        /\ Queued' = Queued /\ OneWaits'
    <2>1. CASE RunLocks
      BY <2>1 DEF RunLocks, WireTypeOK, Queued, OneWaits
    <2>2. CASE RunTakes /\ wire = <<>>
      BY <1>1, <2>2 DEF RunTakes, WireTypeOK, Queued, OneWaits
    <2>3. CASE RunTakes /\ wire # <<>>
      <3>1. runner = "loop" /\ runner' = "op" /\ running' = Head(wire) /\ wire' = Tail(wire)
        BY <2>3 DEF RunTakes
      <3>2. /\ Head(wire) \in WireOps /\ Head(wire) = wire[1] /\ Tail(wire) \in Seq(WireOps) /\ Len(wire) \in Nat
            /\ Len(Tail(wire)) = Len(wire) - 1 /\ 1 \in 1 .. Len(wire)
            /\ \A i \in 1 .. Len(Tail(wire)) : Tail(wire)[i] = wire[i + 1] /\ i + 1 \in 1 .. Len(wire) /\ i + 1 # 1
        BY <1>2, <2>3, HeadTailProperties, LenProperties
      <3>3. <<Head(wire)>> \o Tail(wire) = wire /\ <<>> \o wire = wire
        BY <1>2, <2>3
      <3>4. OneWaits'
        <4>1. /\ DOMAIN wire' = 1 .. Len(Tail(wire)) /\ DOMAIN wire = 1 .. Len(wire)
              /\ \A i \in DOMAIN wire' : wire'[i] = wire[i + 1] /\ i + 1 \in DOMAIN wire /\ i + 1 # 1
              /\ running' = wire[1] /\ 1 \in DOMAIN wire
          BY <1>2, <3>1, <3>2, LenProperties
        <4>2. \A i, j \in DOMAIN wire' : i + 1 = j + 1 => i = j
          BY <4>1, <3>2
        <4> QED BY <1>1, <4>1, <4>2 DEF OneWaits
      <3> QED BY <3>1, <3>2, <3>3, <3>4 DEF Queued
    <2> QED BY <2>1, <2>2, <2>3 DEF RunTakes
  <1>4. WireTypeOK' /\ HoldsCoordinator' /\ WantOpens'
    BY <1>1, <1>3 DEF WireTypeOK, HoldsCoordinator, WantOpens
  <1>5. QueueFollowsTable'
    BY <1>1, <1>3, FollowsOn
  <1> QED BY <1>3, <1>4, <1>5

\* The operation runs: the feed becomes what the queue said it would.
LEMMA OperationRuns == ASSUME WireIInv, RunApplies PROVE WireIInv'
  <1> USE DEF WireIInv
  <1>1. /\ UNCHANGED <<coordMu, table, doing, wire, running, wasStopped>>
        /\ runner \in {"op", "gate"} /\ runner' = "drain" /\ feed' = Applied(feed, running)
    BY DEF RunApplies, lockVars
  <1>2. running \in WireOps /\ feed \in Feeds /\ wire \in Seq(WireOps)
    BY DEF WireTypeOK, Feeds
  <1>3. Queued = <<running>> \o wire /\ Queued' = <<>> \o wire /\ <<>> \o wire = wire
    BY <1>1, <1>2 DEF Queued
  <1>4. WantedAfter(feed, Queued)' = WantedAfter(feed, Queued)
    BY <1>1, <1>2, <1>3, WantedHead
  <1>5. WireTypeOK' /\ WantOpens'
    BY <1>1, <1>2, AppliedFeed DEF WireTypeOK, Feeds, WantOpens
  <1>6. HoldsCoordinator' /\ OneWaits'
    BY <1>1 DEF HoldsCoordinator, OneWaits
  <1> QED BY <1>1, <1>4, <1>5, <1>6, FollowsOn

\* The operation returns to whoever waits for it.
LEMMA OperationReturns == ASSUME WireIInv, RunReturns PROVE WireIInv'
  <1> USE DEF WireIInv
  <1>1. /\ UNCHANGED <<coordMu, table, wire, feed, wasStopped>>
        /\ runner = "drain" /\ runner' = "loop" /\ running' = NoWireOp
        /\ doing' = [p \in LaneProcs |-> IF p = running.waiter THEN [doing[p] EXCEPT !.at = After(doing[p].at)] ELSE doing[p]]
    BY DEF RunReturns, lockVars
  <1>2. running.waiter \in {Operator, Nobody}
    BY DEF WireTypeOK, WireOps
  <1>3. /\ \A o \in Declarers : doing'[o] = doing[o] /\ o \in LaneProcs
        /\ running.waiter # Operator => doing'[Operator] = doing[Operator]
    BY <1>1, <1>2 DEF LaneProcs, Declarers, Operator, Nobody
  <1>4. running.waiter = Operator => doing'[Operator] = [doing[Operator] EXCEPT !.at = "idle"]
    BY <1>1 DEF OneWaits, After, LaneProcs
  <1>5. /\ doing' \in [LaneProcs -> [at : {"idle", "coordinator", "unsub", "sub", "return", "doWait"},
                                     unsub : SUBSET LaneTokens, sub : SUBSET LaneTokens]]
        /\ running.waiter = Operator => doing'[Operator].at = "idle"
    <2>1. \A o \in LaneProcs : doing'[o] \in [at : {"idle", "coordinator", "unsub", "sub", "return", "doWait"},
                                              unsub : SUBSET LaneTokens, sub : SUBSET LaneTokens]
      <3> DEFINE P == [at : {"idle", "coordinator", "unsub", "sub", "return", "doWait"},
                       unsub : SUBSET LaneTokens, sub : SUBSET LaneTokens]
      <3>1. \A o \in LaneProcs : doing[o] \in P
        BY DEF WireTypeOK
      <3>2. Operator \in LaneProcs /\ [doing[Operator] EXCEPT !.at = "idle"] \in P
        BY <3>1 DEF LaneProcs
      <3> HIDE DEF P
      <3>3. \A o \in Declarers : doing'[o] \in P
        BY <1>3, <3>1
      <3>4. doing'[Operator] \in P
        BY <1>2, <1>3, <1>4, <3>1, <3>2
      <3> QED BY <3>3, <3>4 DEF LaneProcs, P
    <2>2. doing' = [o \in LaneProcs |-> doing'[o]]
      BY <1>1
    <2> QED BY <1>4, <2>1, <2>2 DEF WireTypeOK, LaneProcs
  <1>6. NoWireOp \in WireOps /\ NoWireOp.kind = "flush" /\ NoWireOp.waiter = Nobody
    BY DEF NoWireOp, WireOp, WireOps
  <1>7. WireTypeOK'
    BY <1>1, <1>5, <1>6 DEF WireTypeOK
  <1>8. HoldsCoordinator' /\ WantOpens'
    <2>1. doing'[Operator].at \in {"idle", "doWait"}
      BY <1>2, <1>3, <1>5 DEF HoldsCoordinator
    <2>2. \A o \in Declarers : doing'[o] = doing[o]
      BY <1>3
    <2> QED BY <1>1, <2>1, <2>2 DEF HoldsCoordinator, WantOpens
  <1>9. OneWaits'
    BY <1>1, <1>2, <1>3, <1>5, <1>6 DEF OneWaits, Operator, Nobody
  <1>10. QueueFollowsTable'
    <2>1. Queued' = Queued
      BY <1>1 DEF Queued
    <2> QED BY <1>1, <1>3, <2>1, FollowsOn
  <1> QED BY <1>7, <1>8, <1>9, <1>10

\* Deliveries leave the queue and the feed alone.
LEMMA TicksKeep == ASSUME WireIInv, DrainSteps \/ FrameArrives \/ UNCHANGED wireQueueVars PROVE WireIInv'
  <1>1. UNCHANGED <<coordMu, table, doing, wire, runner, running, feed, wasStopped>>
    BY DEF DrainSteps, DrainNext, DeliverLocks, IngestTicks, FrameArrives, wireQueueVars, lockVars, runVars
  <1>2. Queued' = Queued
    BY <1>1 DEF Queued
  <1>3. QueueFollowsTable'
    BY <1>1, <1>2, FollowsOn DEF WireIInv
  <1> QED BY <1>1, <1>3 DEF WireIInv, WireTypeOK, HoldsCoordinator, OneWaits, WantOpens

LEMMA WireStepKeeps == WireIInv /\ [WireNext]_wireQueueVars => WireIInv'
  <1> SUFFICES ASSUME WireIInv, [WireNext]_wireQueueVars PROVE WireIInv'
    OBVIOUS
  <1>1. CASE \E p \in Declarers : Declare(p) \/ DeclarerSteps(p)
    BY <1>1, DeclarerWaits, TableChanges, DeclarerSends DEF DeclarerSteps
  <1>2. CASE \E kind \in {"stop", "ensureSocket", "flush"} : LaneCall(kind)
    BY <1>2, OperatorCalls
  <1>3. CASE RunnerSteps
    BY <1>3, RunnerTakes, OperationRuns, OperationReturns DEF RunnerSteps
  <1>4. CASE DrainSteps \/ FrameArrives \/ UNCHANGED wireQueueVars
    BY <1>4, TicksKeep
  <1> QED BY <1>1, <1>2, <1>3, <1>4 DEF WireNext

\* With nobody waiting no stop is queued, so what is shut after the queue is shut now.
LEMMA WireInvariantEnough == WireIInv => WireSound
  <1> SUFFICES ASSUME WireIInv PROVE WireSound
    OBVIOUS
  <1> USE DEF WireIInv
  <1>1. coordMu = Nobody => /\ WantedAfter(feed, Queued) \subseteq HeldTokens
                            /\ ~wasStopped => WantedAfter(feed, Queued) = HeldTokens
    <2> SUFFICES ASSUME coordMu = Nobody
                 PROVE  /\ WantedAfter(feed, Queued) \subseteq HeldTokens
                        /\ ~wasStopped => WantedAfter(feed, Queued) = HeldTokens
      OBVIOUS
    <2>1. "fairvalue" \in Declarers /\ "fairvalue" # Nobody
      BY DEF Declarers, Nobody
    <2>2. Meant("fairvalue") = WantedAfter(feed, Queued)
      BY <2>1 DEF Meant, HoldsCoordinator
    <2> QED BY <2>1, <2>2 DEF QueueFollowsTable
  <1>2. ~OpenAfter(feed, Queued) /\ doing[Operator].at = "idle" => feed = Shut
    <2> SUFFICES ASSUME ~OpenAfter(feed, Queued), doing[Operator].at = "idle" PROVE feed = Shut
      OBVIOUS
    <2>1. running.kind # "stop" /\ \A i \in DOMAIN wire : wire[i].kind # "stop"
      BY DEF OneWaits
    <2>2. \A j \in DOMAIN Queued : Queued[j].kind # "stop"
      <3>1. wire \in Seq(WireOps) /\ running \in WireOps
        BY DEF WireTypeOK
      <3>2. CASE runner \in {"op", "gate"}
        <4>1. <<running>> \in Seq(WireOps) /\ Len(<<running>>) = 1 /\ <<running>>[1] = running
          BY <3>1
        <4>2. /\ Queued = <<running>> \o wire /\ Len(Queued) = 1 + Len(wire) /\ Queued \in Seq(WireOps)
              /\ \A i \in 1 .. 1 + Len(wire) : Queued[i] = IF i <= 1 THEN <<running>>[i] ELSE wire[i - 1]
          BY <3>1, <3>2, <4>1, ConcatProperties DEF Queued
        <4>3. ASSUME NEW j \in DOMAIN Queued PROVE Queued[j].kind # "stop"
          <5>1. j \in 1 .. 1 + Len(wire) /\ DOMAIN wire = 1 .. Len(wire) /\ Len(wire) \in Nat
            BY <3>1, <4>2, LenProperties
          <5>2. CASE j = 1
            BY <2>1, <4>1, <4>2, <5>1, <5>2
          <5>3. CASE j # 1
            <6>1. j - 1 \in DOMAIN wire /\ Queued[j] = wire[j - 1]
              BY <4>2, <5>1, <5>3
            <6> QED BY <2>1, <6>1
          <5> QED BY <5>2, <5>3
        <4> QED BY <4>3
      <3>3. CASE runner \notin {"op", "gate"}
        BY <2>1, <3>1, <3>3, ConcatEmptySeq DEF Queued
      <3> QED BY <3>2, <3>3
    <2>3. ~feed.open
      BY <2>2 DEF OpenAfter
    <2>4. feed.want = {} /\ feed \in [want : SUBSET LaneTokens, open : BOOLEAN]
      BY <2>3 DEF WantOpens, WireTypeOK
    <2> QED BY <2>3, <2>4 DEF Shut
  <1> QED BY <1>1, <1>2 DEF WireSound

\* A Dhan feed follows its coordinator through the queue, and is shut when a stop has returned
\* (serial.Do, serial.Go, SetOwnerTokens, Stop).
THEOREM WireAlwaysSound == WireSpec => []WireSound
  <1> QED BY WireInitEstablishes, WireStepKeeps, WireInvariantEnough, PTL DEF WireSpec
=============================================================================
