----------------------------- MODULE SpikeProofs -----------------------------
(***************************************************************************)
(* Proofs about the Spike monitor, for every value of its constants: any   *)
(* symbols, trades, room in the queue of candidates, switches, midnights,  *)
(* process ends and failures of the store.                                 *)
(***************************************************************************)
EXTENDS Spike, FiniteSetTheorems, SequenceTheorems, TLAPS

-----------------------------------------------------------------------------
(* Ids and rows                                                            *)

\* The next id is one no trade has (evaluateLocked's new candidate).
LEMMA NextIdIsFree ==
    ASSUME NEW n \in Nat, UsedIds = 1..n
    PROVE  Cardinality(UsedIds) = n
  BY FS_Interval

\* What a step leaves of the trades it leaves of the sets made of them.
LEMMA SameTrades ==
    ASSUME trades' = trades
    PROVE  /\ UsedIds' = UsedIds
           /\ \A id : Symbol(id)' = Symbol(id) /\ Legs(id)' = Legs(id)
           /\ rows' = rows => \A s : OpenRows(s)' = OpenRows(s)
  BY DEF UsedIds, Symbol, Legs, OpenRows

\* What is in the queue is a candidate.
LEMMA Candidates ==
    ASSUME SpikeIInv
    PROVE  /\ queue \in Seq(CandidateType) /\ Len(queue) \in Nat
           /\ \A i \in 1..Len(queue) : queue[i].id \in Ids /\ queue[i].gen \in Nat
  <1>1. queue \in Seq(CandidateType)
    BY DEF SpikeIInv, SpikeTypeOK
  <1>2. Len(queue) \in Nat /\ \A i \in 1..Len(queue) : queue[i] \in CandidateType
    BY <1>1, ElementOfSeq, LenProperties
  <1> QED BY <1>1, <1>2 DEF CandidateType

\* At the start there are no trades (New).
LEMMA SpikeStarts ==
    ASSUME SpikeBounds, SpikeInit
    PROVE  SpikeIInv
  <1>1. SpikeTypeOK
    <2>1. queue \in Seq(CandidateType)
      BY DEF SpikeInit
    <2>2. op \in OpType
      BY DEF SpikeInit, NoOp, OpType
    <2>3. eng \in EngineType
      BY DEF SpikeInit, NewEngine, EngineType
    <2>4. reg \in RegType
      BY DEF SpikeInit, RegType
    <2>5. /\ prev \in [Symbols -> {"none", "live", "cut"}]
          /\ open \in [Symbols -> Ids \cup {0}] /\ pending \in [Symbols -> Ids \cup {0}]
      BY DEF SpikeInit, NoPrevious, NoneOpen
    <2>6. DOMAIN trades = Ids /\ rows \in [Ids -> {"none", "open", "closed"}]
      BY DEF SpikeInit
    <2>7. today \in Nat \ {0} /\ wanted \subseteq Symbols \X (Nat \ {0})
      BY DEF SpikeInit
    <2>8. control \in BOOLEAN /\ doubt \in BOOLEAN
      BY DEF SpikeInit
    <2> QED BY <2>1, <2>2, <2>3, <2>4, <2>5, <2>6, <2>7, <2>8 DEF SpikeTypeOK
  <1>2. UsedIds = {} /\ Len(queue) = 0 /\ op = NoOp /\ NoOp.kind = "none" /\ ~NoOp.ok /\ NoOp.gen = 0
    BY DEF UsedIds, SpikeInit, NoTrade, NoOp
  <1>3. TradesKnown
    <2>1. UsedIds = 1..0 /\ 0 \in 0..MaxTrades
      BY <1>2 DEF SpikeBounds
    <2> QED BY <1>2, <2>1 DEF TradesKnown, SpikeInit, NoneOpen
  <1>4. OneOpenRow /\ EntriesFresh /\ PendingHeld
    BY <1>2 DEF OneOpenRow, EntriesFresh, PendingHeld, SpikeInit, NoneOpen
  <1>5. CutIsOld
    BY <1>2 DEF CutIsOld, SpikeInit, NewEngine, NoPrevious
  <1>6. OpSound /\ AgreesButWrite
    BY <1>2 DEF OpSound, AgreesButWrite, SpikeInit, NewEngine
  <1> QED BY <1>1, <1>3, <1>4, <1>5, <1>6 DEF SpikeIInv

-----------------------------------------------------------------------------
(* Steps that leave trades, positions, candidates and the operation alone  *)

\* The registry, the connection and the clock may take samples and pending marks away, and
\* never bring a sample of an earlier generation into the current one.
LEMMA QuietKeeps ==
    ASSUME SpikeIInv, UNCHANGED <<open, queue, op, trades, rows, control, doubt, wanted>>,
           reg' \in RegType, today' \in Nat \ {0}, eng' \in EngineType,
           prev' \in [Symbols -> {"none", "live", "cut"}],
           eng'.loaded = eng.loaded, eng'.paper = eng.paper, eng'.gen = eng.gen,
           eng'.active => eng.active, reg'.gen = reg.gen \/ reg'.gen > reg.gen,
           pending' \in {pending, NoneOpen},
           \A s \in Symbols : prev'[s] = "cut" => prev[s] = "cut" \/ reg'.gen > reg.gen
    PROVE  SpikeIInv'
  <1>1. /\ UsedIds' = UsedIds /\ \A id : Symbol(id)' = Symbol(id) /\ Legs(id)' = Legs(id)
        /\ \A s : OpenRows(s)' = OpenRows(s)
    BY SameTrades
  <1>2. TradesKnown'
    BY <1>1 DEF SpikeIInv, TradesKnown, NoneOpen
  <1>3. OneOpenRow' /\ EntriesFresh'
    BY <1>1 DEF SpikeIInv, OneOpenRow, EntriesFresh
  <1>4. CutIsOld'
    <2>1. reg.gen \in Nat /\ reg'.gen \in Nat /\ eng.gen \in Nat /\ op.gen \in Nat
      BY DEF SpikeIInv, SpikeTypeOK, RegType, EngineType, OpType
    <2>2. \A i \in 1..Len(queue) : queue[i].gen \in Nat
      BY Candidates
    <2> QED BY <2>1, <2>2 DEF SpikeIInv, CutIsOld
  <1>5. OpSound'
    <2>1. OpenLegs' = OpenLegs
      BY <1>1 DEF OpenLegs
    <2> QED BY <1>1, <2>1 DEF SpikeIInv, OpSound
  <1>6. AgreesButWrite'
    BY <1>1 DEF SpikeIInv, AgreesButWrite
  <1>7. PendingHeld'
    BY DEF SpikeIInv, PendingHeld, NoneOpen
  <1>8. SpikeTypeOK'
    <2>1. pending' \in [Symbols -> Ids \cup {0}]
      BY DEF SpikeIInv, SpikeTypeOK, NoneOpen
    <2> QED BY <2>1 DEF SpikeIInv, SpikeTypeOK
  <1> QED BY <1>2, <1>3, <1>4, <1>5, <1>6, <1>7, <1>8 DEF SpikeIInv

\* A switch, a change of session and midnight (SwitchTo and its hooks).
LEMMA RegistryKeeps ==
    ASSUME SpikeIInv, RegistryStep
    PROVE  SpikeIInv'
  <1>1. reg \in RegType /\ today \in Nat \ {0} /\ eng \in EngineType /\ prev \in [Symbols -> {"none", "live", "cut"}]
    BY DEF SpikeIInv, SpikeTypeOK
  <1>2. /\ NoPrevious \in [Symbols -> {"none", "live", "cut"}] /\ \A s \in Symbols : NoPrevious[s] = "none"
        /\ today + 1 \in Nat \ {0}
    BY <1>1 DEF NoPrevious
  <1>a. [eng EXCEPT !.active = FALSE, !.connected = FALSE] \in EngineType
    BY <1>1 DEF EngineType
  <1>b. ASSUME NEW x \in {"none", "reset", "stored", "ready", "lost"}, NEW b \in BOOLEAN
        PROVE  /\ [reg EXCEPT !.ready = b, !.step = x] \in RegType /\ [reg EXCEPT !.step = x] \in RegType
               /\ [reg EXCEPT !.ready = b, !.step = x].gen = reg.gen /\ [reg EXCEPT !.step = x].gen = reg.gen
    BY <1>1 DEF RegType
  <1>c. /\ [reg EXCEPT !.step = "stored", !.gen = @ + 1, !.dhan = ~@] \in RegType
        /\ [reg EXCEPT !.step = "stored", !.gen = @ + 1, !.dhan = ~@].gen > reg.gen
    <2> DEFINE other == ~reg.dhan
    <2>1. reg.gen + 1 \in Nat /\ reg.gen + 1 > reg.gen /\ other \in BOOLEAN
      BY <1>1 DEF RegType
    <2> HIDE DEF other
    <2>2. /\ [reg EXCEPT !.step = "stored", !.gen = reg.gen + 1, !.dhan = other] \in RegType
          /\ [reg EXCEPT !.step = "stored", !.gen = reg.gen + 1, !.dhan = other].gen = reg.gen + 1
      BY <1>1, <2>1 DEF RegType
    <2> QED BY <2>1, <2>2 DEF other
  <1>3. CASE SwitchReset
    <2>1. /\ reg' \in RegType /\ reg'.gen = reg.gen /\ eng' \in EngineType
          /\ eng'.loaded = eng.loaded /\ eng'.paper = eng.paper /\ eng'.gen = eng.gen /\ ~eng'.active
      BY <1>1, <1>a, <1>b, <1>3 DEF SwitchReset, Invalidate, EngineType
    <2> QED BY <1>1, <1>2, <1>3, <2>1, QuietKeeps DEF SwitchReset, Invalidate, dbVars
  <1>4. CASE SwitchStore
    <2>1. reg' \in RegType /\ reg'.gen > reg.gen
      BY <1>c, <1>4 DEF SwitchStore
    <2>2. prev' \in [Symbols -> {"none", "live", "cut"}]
      BY <1>1, <1>4 DEF SwitchStore
    <2> QED BY <1>1, <1>4, <2>1, <2>2, QuietKeeps DEF SwitchStore, feedVars, dbVars
  <1>5. CASE SwitchEnd \/ SessionExpires \/ SessionLost \/ SessionInstalled \/ Midnight
    <2>1. UNCHANGED <<eng, viewVars, feedVars, queue, op, trades, dbVars>> /\ reg'.gen = reg.gen /\ reg' \in RegType
      BY <1>1, <1>b, <1>5 DEF SwitchEnd, SessionExpires, SessionLost, SessionInstalled, SessionChange, Midnight
    <2>2. today' \in Nat \ {0}
      BY <1>1, <1>2, <1>5 DEF SwitchEnd, SessionExpires, SessionLost, SessionInstalled, SessionChange, Midnight
    <2> QED BY <1>1, <2>1, <2>2, QuietKeeps DEF viewVars, feedVars, dbVars
  <1>6. CASE SessionInvalidate
    <2>1. /\ reg' \in RegType /\ reg'.gen = reg.gen /\ eng' \in EngineType
          /\ eng'.loaded = eng.loaded /\ eng'.paper = eng.paper /\ eng'.gen = eng.gen /\ (eng'.active => eng.active)
      BY <1>1, <1>a, <1>b, <1>6 DEF SessionInvalidate, Invalidate, EngineType
    <2> QED BY <1>1, <1>2, <1>6, <2>1, QuietKeeps DEF SessionInvalidate, Invalidate, feedVars, dbVars
  <1>7. CASE OnRuntimeReady
    <2>1. reg' \in RegType /\ reg'.gen = reg.gen
      BY <1>1, <1>b, <1>7 DEF OnRuntimeReady
    <2> QED BY <1>1, <1>2, <1>7, <2>1, QuietKeeps DEF OnRuntimeReady, feedVars, dbVars
  <1> QED BY <1>3, <1>4, <1>5, <1>6, <1>7 DEF RegistryStep

\* Connection reports, ticks without a candidate, and the stop (OnConnection, OnTicks, Stop).
LEMMA CallbacksKeep ==
    ASSUME SpikeIInv,
           \/ \E b \in BOOLEAN : OnConnection(b)
           \/ TicksArrive \/ TicksIgnored \/ (\E s \in Symbols : TicksSample(s))
           \/ Stop \/ StopTokens
    PROVE  SpikeIInv'
  <1>1. reg \in RegType /\ today \in Nat \ {0} /\ eng \in EngineType /\ prev \in [Symbols -> {"none", "live", "cut"}]
    BY DEF SpikeIInv, SpikeTypeOK
  <1>2. /\ \A b \in BOOLEAN : [eng EXCEPT !.connected = b] \in EngineType
        /\ [eng EXCEPT !.stopped = TRUE] \in EngineType
        /\ \A s \in Symbols : [prev EXCEPT ![s] = "live"] \in [Symbols -> {"none", "live", "cut"}]
        /\ NoPrevious \in [Symbols -> {"none", "live", "cut"}] /\ \A s \in Symbols : NoPrevious[s] = "none"
    BY <1>1 DEF EngineType, NoPrevious
  <1>3. ASSUME NEW b \in BOOLEAN, OnConnection(b)
        PROVE  SpikeIInv'
    BY <1>1, <1>2, <1>3, QuietKeeps DEF OnConnection, regVars, feedVars, dbVars
  <1>4. CASE TicksArrive \/ TicksIgnored \/ StopTokens
    <2>1. UNCHANGED <<regVars, eng, viewVars, wanted, queue, op, trades, dbVars>>
      BY <1>4 DEF TicksArrive, TicksIgnored, StopTokens
    <2> QED BY <1>1, <2>1, QuietKeeps DEF regVars, viewVars, dbVars
  <1>5. ASSUME NEW s \in Symbols, TicksSample(s)
        PROVE  SpikeIInv'
    BY <1>1, <1>2, <1>5, QuietKeeps DEF TicksSample, regVars, dbVars
  <1>6. CASE Stop
    BY <1>1, <1>2, <1>6, QuietKeeps DEF Stop, regVars, viewVars, feedVars, dbVars
  <1> QED BY <1>3, <1>4, <1>5, <1>6

-----------------------------------------------------------------------------
(* Operations                                                              *)

\* The holder of opMu changes hands, or goes on, and nothing is written.
LEMMA OpMoves ==
    ASSUME SpikeIInv, UNCHANGED <<regVars, eng, viewVars, wanted, queue, trades, rows, control>>,
           doubt' = doubt,
           op' \in OpType, ~op.ok, ~op'.ok, op'.gen <= reg.gen, OpSound',
           op.kind = "enter" => op'.kind = "enter" /\ op'.id = op.id,
           op'.kind \in {"enter", "close"} => op'.id \in UsedIds
    PROVE  SpikeIInv'
  <1>1. /\ UsedIds' = UsedIds /\ \A id : Symbol(id)' = Symbol(id) /\ Legs(id)' = Legs(id)
        /\ \A s : OpenRows(s)' = OpenRows(s)
    BY SameTrades
  <1>2. TradesKnown'
    BY <1>1 DEF SpikeIInv, TradesKnown, viewVars
  <1>3. OneOpenRow' /\ EntriesFresh'
    BY <1>1 DEF SpikeIInv, OneOpenRow, EntriesFresh
  <1>4. CutIsOld'
    BY DEF SpikeIInv, CutIsOld, regVars, viewVars
  <1>5. AgreesButWrite'
    BY <1>1 DEF SpikeIInv, AgreesButWrite, viewVars
  <1>6. PendingHeld'
    BY DEF SpikeIInv, PendingHeld, viewVars
  <1>7. SpikeTypeOK'
    BY DEF SpikeIInv, SpikeTypeOK, regVars, viewVars
  <1> QED BY <1>2, <1>3, <1>4, <1>5, <1>6, <1>7 DEF SpikeIInv

\* Nobody holds opMu, or one of the operations does, with the fields it was given.
LEMMA OpFields ==
    ASSUME SpikeIInv
    PROVE  /\ op \in OpType /\ op.id \in Ids \cup {0} /\ op.gen \in Nat /\ op.day \in Nat /\ op.ok \in BOOLEAN
           /\ OpFree => op = NoOp
           /\ NoOp \in OpType /\ NoOp.kind = "none" /\ NoOp.step = "none" /\ ~NoOp.ok /\ NoOp.gen = 0 /\ NoOp.id = 0
           /\ op.gen <= reg.gen /\ reg.gen \in Nat /\ 0 <= reg.gen
  <1>1. op \in OpType
    BY DEF SpikeIInv, SpikeTypeOK
  <1>2. op.id \in Ids \cup {0} /\ op.gen \in Nat /\ op.day \in Nat /\ op.ok \in BOOLEAN
    BY <1>1 DEF OpType
  <1>3. OpFree => op = NoOp
    BY DEF SpikeIInv, OpSound, OpFree
  <1>4. NoOp \in OpType /\ NoOp.kind = "none" /\ NoOp.step = "none" /\ ~NoOp.ok /\ NoOp.gen = 0 /\ NoOp.id = 0
    BY DEF NoOp, OpType
  <1>5. op.gen <= reg.gen /\ reg.gen \in Nat /\ 0 <= reg.gen
    BY DEF SpikeIInv, CutIsOld, SpikeTypeOK, RegType
  <1> QED BY <1>1, <1>2, <1>3, <1>4, <1>5

\* The next step of an operation.
LEMMA OpGoesOn ==
    ASSUME NEW x \in OpType, NEW step \in {"ready", "idle", "clear", "apply", "tokens"}
    PROVE  LET y == [x EXCEPT !.step = step] IN
            /\ y \in OpType /\ y.kind = x.kind /\ y.id = x.id /\ y.gen = x.gen /\ y.day = x.day
            /\ y.step = step /\ y.ok = x.ok
  BY DEF OpType

\* The answer to its write (Answer).
LEMMA OpAnswered ==
    ASSUME NEW x \in OpType, NEW ok \in BOOLEAN
    PROVE  LET y == [x EXCEPT !.step = "finish", !.ok = ok] IN
            /\ y \in OpType /\ y.kind = x.kind /\ y.id = x.id /\ y.gen = x.gen /\ y.day = x.day
            /\ y.step = "finish" /\ y.ok = ok
  BY DEF OpType

\* SetPaper, Close and reconcile take opMu.
LEMMA BeginsKeep ==
    ASSUME SpikeIInv, OpBegin, \A young \in BOOLEAN : ~EnterBegin(young)
    PROVE  SpikeIInv'
  <1>0. eng.loaded \in BOOLEAN /\ reg.gen \in Nat /\ today \in Nat \ {0}
    BY DEF SpikeIInv, SpikeTypeOK, EngineType, RegType
  <1>1. CASE ReconcileBegin
    <2> DEFINE step == IF ~eng.loaded \/ eng.day # today THEN "load" ELSE "ready"
    <2>1. OpFree /\ op' = [NoOp EXCEPT !.kind = "reconcile", !.gen = reg.gen, !.day = today, !.step = step]
      BY <1>1 DEF ReconcileBegin
    <2>2. step = "load" \/ (step = "ready" /\ eng.loaded)
      OBVIOUS
    <2> HIDE DEF step
    <2>3. op' \in OpType /\ op'.kind = "reconcile" /\ op'.gen = reg.gen /\ op'.day = today /\ op'.step = step /\ ~op'.ok
      BY <1>0, <2>1, <2>2 DEF NoOp, OpType
    <2>4. OpSound'
      BY <1>0, <1>1, <2>2, <2>3 DEF OpSound, ReconcileBegin, SpikeIInv
    <2>5. UNCHANGED <<regVars, eng, viewVars, wanted, queue, trades, rows, control, doubt>>
      BY <1>1 DEF ReconcileBegin, feedVars, dbVars
    <2>6. ~op.ok /\ op.kind # "enter" /\ op'.gen <= reg.gen
      BY <1>0, <2>1, <2>3, OpFields
    <2> QED BY <2>3, <2>4, <2>5, <2>6, OpMoves
  <1>2. ASSUME NEW kind \in {"pause", "resume"}, SetPaperBegin(kind)
        PROVE  SpikeIInv'
    <2>1. OpFree /\ op' = [NoOp EXCEPT !.kind = kind, !.step = "write"]
      BY <1>2 DEF SetPaperBegin
    <2>2. op' \in OpType /\ op'.kind = kind /\ op'.gen = 0 /\ op'.step = "write" /\ ~op'.ok
      BY <2>1 DEF NoOp, OpType
    <2>3. OpSound'
      BY <1>2, <2>2 DEF OpSound, SetPaperBegin, SpikeIInv
    <2>4. UNCHANGED <<regVars, eng, viewVars, wanted, queue, trades, rows, control, doubt>>
      BY <1>2 DEF SetPaperBegin, feedVars, dbVars
    <2>5. ~op.ok /\ op.kind # "enter" /\ op'.gen <= reg.gen
      BY <1>0, <2>1, <2>2, OpFields
    <2>6. op'.kind \notin {"enter", "close"}
      BY <2>2
    <2> QED BY <2>2, <2>3, <2>4, <2>5, <2>6, OpMoves
  <1>3. ASSUME NEW s \in Symbols, CloseBegin(s)
        PROVE  SpikeIInv'
    <2>1. OpFree /\ op' = [NoOp EXCEPT !.kind = "close", !.step = "write", !.id = open[s]] /\ open[s] # 0
      BY <1>3 DEF CloseBegin
    <2>2. open[s] \in Ids /\ open[s] \in UsedIds /\ Symbol(open[s]) = s
      BY <2>1 DEF SpikeIInv, SpikeTypeOK, TradesKnown
    <2>3. op' \in OpType /\ op'.kind = "close" /\ op'.gen = 0 /\ op'.step = "write" /\ op'.id = open[s] /\ ~op'.ok
      BY <2>1, <2>2 DEF NoOp, OpType
    <2>4. OpSound'
      BY <1>3, <2>2, <2>3 DEF OpSound, CloseBegin, SpikeIInv, viewVars, Symbol
    <2>5. UNCHANGED <<regVars, eng, viewVars, wanted, queue, trades, rows, control, doubt>>
      BY <1>3 DEF CloseBegin, feedVars, dbVars
    <2>6. ~op.ok /\ op.kind # "enter" /\ op'.gen <= reg.gen
      BY <1>0, <2>1, <2>3, OpFields
    <2> QED BY <2>2, <2>3, <2>4, <2>5, <2>6, OpMoves
  <1> QED BY <1>1, <1>2, <1>3 DEF OpBegin

\* reconcile's steps that change no more than the operation, and the lane's table.
LEMMA ReconcileMoves ==
    ASSUME SpikeIInv, ReconcileReady \/ ReconcileAbort \/ ReconcileTokens
    PROVE  SpikeIInv'
  <1>1. op.kind = "reconcile" /\ ~op.ok
    BY DEF ReconcileReady, ReconcileAbort, ReconcileTokens, ReconcileEnds, SpikeIInv, OpSound
  <1>2. UNCHANGED <<regVars, eng, viewVars, wanted, queue, trades, rows, control, doubt>>
    BY DEF ReconcileReady, ReconcileAbort, ReconcileTokens, feedVars, dbVars
  <1>3. CASE op' = NoOp
    <2>1. op' \in OpType /\ op'.kind = "none" /\ ~op'.ok /\ op'.gen <= reg.gen
      BY <1>3, OpFields
    <2>2. OpSound'
      BY <1>2, <1>3, <2>1 DEF OpSound, SpikeIInv, NoOp
    <2> QED BY <1>1, <1>2, <2>1, <2>2, OpMoves
  <1>4. CASE op.step = "ready" /\ \E step \in {"apply", "idle"} : op' = [op EXCEPT !.step = step]
    <2>1. PICK step \in {"apply", "idle"} : op' = [op EXCEPT !.step = step]
      BY <1>4
    <2>2. op' \in OpType /\ op'.kind = "reconcile" /\ op'.gen = op.gen /\ op'.day = op.day /\ op'.step = step /\ ~op'.ok
      <3>1. op \in OpType
        BY OpFields
      <3>2. step \in {"ready", "idle", "clear", "apply", "tokens"}
        OBVIOUS
      <3>3. /\ op' \in OpType /\ op'.kind = op.kind /\ op'.gen = op.gen /\ op'.day = op.day
            /\ op'.step = step /\ op'.ok = op.ok
        BY <2>1, <3>1, <3>2, OpGoesOn
      <3> QED BY <1>1, <3>3
    <2>3. OpSound'
      BY <1>1, <1>2, <1>4, <2>2 DEF OpSound, SpikeIInv
    <2>4. op'.gen <= reg.gen
      BY <2>2, OpFields
    <2> QED BY <1>1, <1>2, <2>2, <2>3, <2>4, OpMoves
  <1> QED BY <1>3, <1>4 DEF ReconcileReady, ReconcileAbort, ReconcileTokens, ReconcileEnds

-----------------------------------------------------------------------------
(* Writes                                                                  *)

\* A row that opens or closes is one of its symbol's (the insert and the update).
LEMMA RowsAfter ==
    ASSUME NEW id \in UsedIds, trades' = trades, rows \in [Ids -> {"none", "open", "closed"}]
    PROVE  /\ rows' = [rows EXCEPT ![id] = "open"] =>
                \A s : OpenRows(s)' = IF s = Symbol(id) THEN OpenRows(s) \cup {id} ELSE OpenRows(s)
           /\ rows' = [rows EXCEPT ![id] = "closed"] =>
                \A s : OpenRows(s)' = IF s = Symbol(id) THEN OpenRows(s) \ {id} ELSE OpenRows(s)
  <1>1. UsedIds' = UsedIds /\ \A i : Symbol(i)' = Symbol(i)
    BY SameTrades
  <1>2. id \in Ids /\ UsedIds \subseteq Ids
    BY DEF UsedIds
  <1> QED BY <1>1, <1>2 DEF OpenRows

\* The database takes the write of op, and the process is told or not.
LEMMA CommitKeeps ==
    ASSUME SpikeIInv, op.step = "write", Applicable, Commit, NEW ok \in BOOLEAN, Answer(ok),
           doubt' = TRUE \/ (ok /\ doubt' = doubt),
           UNCHANGED <<regVars, eng, viewVars, feedVars, queue, trades>>
    PROVE  SpikeIInv'
  <1>1. /\ SpikeTypeOK /\ TradesKnown /\ OneOpenRow /\ CutIsOld /\ OpSound
        /\ AgreesButWrite /\ PendingHeld /\ EntriesFresh
    BY DEF SpikeIInv
  <1>2. /\ op' \in OpType /\ op'.kind = op.kind /\ op'.id = op.id /\ op'.gen = op.gen /\ op'.day = op.day
        /\ op'.step = "finish" /\ op'.ok = ok
    <2>1. op \in OpType
      BY OpFields
    <2> QED BY <2>1, OpAnswered DEF Answer
  <1>3. UsedIds' = UsedIds /\ \A id : Symbol(id)' = Symbol(id) /\ Legs(id)' = Legs(id)
    BY SameTrades
  <1>4. op.kind \in {"enter", "close", "pause", "resume"} /\ ~op.ok
    BY <1>1, OpFields DEF OpSound, SpikeTypeOK, OpType
  <1>5. rows \in [Ids -> {"none", "open", "closed"}] /\ control \in BOOLEAN
    BY <1>1 DEF SpikeTypeOK
  <1>6. op.kind \in {"enter", "close"} => op.id \in UsedIds /\ op.id \in Ids
    BY <1>1 DEF TradesKnown, UsedIds
  <1>7. /\ op.kind = "enter" => rows' = [rows EXCEPT ![op.id] = "open"] /\ control' = control
        /\ op.kind = "close" => rows' = [rows EXCEPT ![op.id] = "closed"] /\ control' = control
        /\ op.kind \in {"pause", "resume"} => rows' = rows /\ control' = (op.kind = "resume")
    BY DEF Commit
  <1>8. /\ op.kind = "enter" => \A s : OpenRows(s)' = IF s = Symbol(op.id) THEN {op.id} ELSE OpenRows(s)
        /\ op.kind = "close" => /\ rows[op.id] = "open"
                                /\ \A s : OpenRows(s)' = IF s = Symbol(op.id) THEN {} ELSE OpenRows(s)
        /\ op.kind \in {"pause", "resume"} => \A s : OpenRows(s)' = OpenRows(s)
    <2>1. ASSUME op.kind = "enter"
          PROVE  \A s : OpenRows(s)' = IF s = Symbol(op.id) THEN {op.id} ELSE OpenRows(s)
      <3>1. OpenRows(Symbol(op.id)) = {}
        BY <2>1 DEF Applicable
      <3>2. \A s : OpenRows(s)' = IF s = Symbol(op.id) THEN OpenRows(s) \cup {op.id} ELSE OpenRows(s)
        BY <1>5, <1>6, <1>7, <2>1, RowsAfter
      <3> QED BY <3>1, <3>2
    <2>2. ASSUME op.kind = "close"
          PROVE  /\ rows[op.id] = "open"
                 /\ \A s : OpenRows(s)' = IF s = Symbol(op.id) THEN {} ELSE OpenRows(s)
      <3>1. rows[op.id] = "open"
        BY <2>2 DEF Applicable
      <3>2. OpenRows(Symbol(op.id)) \subseteq {op.id}
        BY <1>1, <1>6, <2>2, <3>1 DEF OneOpenRow, OpenRows
      <3>3. \A s : OpenRows(s)' = IF s = Symbol(op.id) THEN OpenRows(s) \ {op.id} ELSE OpenRows(s)
        BY <1>5, <1>6, <1>7, <2>2, RowsAfter
      <3> QED BY <3>1, <3>2, <3>3
    <2>3. ASSUME op.kind \in {"pause", "resume"}
          PROVE  \A s : OpenRows(s)' = OpenRows(s)
      BY <1>3, <1>7, <2>3 DEF OpenRows
    <2> QED BY <2>1, <2>2, <2>3
  <1>9. rows' \in [Ids -> {"none", "open", "closed"}] /\ control' \in BOOLEAN
    BY <1>4, <1>5, <1>6, <1>7
  <1>10. SpikeTypeOK'
    BY <1>1, <1>2, <1>9 DEF SpikeTypeOK, regVars, viewVars, feedVars
  <1>11. TradesKnown'
    <2>1. \A id \in Ids : rows'[id] # "none" => id \in UsedIds
      BY <1>1, <1>4, <1>5, <1>6, <1>7 DEF TradesKnown
    <2> QED BY <1>1, <1>2, <1>3, <2>1 DEF TradesKnown, viewVars
  <1>12. OneOpenRow'
    <2> SUFFICES ASSUME NEW i \in UsedIds, NEW j \in UsedIds, rows'[i] = "open", rows'[j] = "open", Symbol(i) = Symbol(j)
                 PROVE  i = j
      BY <1>3 DEF OneOpenRow
    <2>1. i \in OpenRows(Symbol(i))' /\ j \in OpenRows(Symbol(i))'
      BY <1>3 DEF OpenRows
    <2>2. CASE op.kind = "enter" /\ Symbol(i) = Symbol(op.id)
      BY <1>3, <1>8, <2>1, <2>2
    <2>3. CASE op.kind = "close" /\ Symbol(i) = Symbol(op.id)
      BY <1>3, <1>8, <2>1, <2>3
    <2>4. CASE ~(op.kind \in {"enter", "close"} /\ Symbol(i) = Symbol(op.id))
      <3>1. i \in OpenRows(Symbol(i)) /\ j \in OpenRows(Symbol(i))
        BY <1>3, <1>4, <1>8, <2>1, <2>4
      <3> QED BY <1>1, <3>1 DEF OneOpenRow, OpenRows
    <2> QED BY <2>2, <2>3, <2>4
  <1>13. CutIsOld'
    BY <1>1, <1>2 DEF CutIsOld, regVars, viewVars
  <1>14. OpSound'
    BY <1>1, <1>2, <1>3, <1>4 DEF OpSound, regVars, viewVars
  <1>15. AgreesButWrite'
    <2> SUFFICES ASSUME eng'.loaded, ~doubt' PROVE AgreesButWrite'
      BY DEF AgreesButWrite
    <2>1. ok /\ ~doubt /\ eng.loaded /\ eng' = eng /\ open' = open
      BY DEF regVars, viewVars
    <2>2. control = eng.paper /\ \A s \in Symbols : OpenRows(s) = IF open[s] = 0 THEN {} ELSE {open[s]}
      BY <1>1, <1>4, <2>1 DEF AgreesButWrite
    <2>3. control' = IF op.kind \in {"pause", "resume"} THEN op.kind = "resume" ELSE eng.paper
      BY <1>4, <1>7, <2>2
    <2>4. \A s \in Symbols :
            OpenRows(s)' = IF op.kind = "enter" /\ Symbol(op.id) = s THEN {op.id}
                           ELSE IF op.kind = "close" /\ Symbol(op.id) = s THEN {}
                           ELSE IF open[s] = 0 THEN {} ELSE {open[s]}
      BY <1>4, <1>8, <2>2
    <2> QED BY <1>2, <1>3, <2>1, <2>3, <2>4 DEF AgreesButWrite
  <1>16. PendingHeld'
    BY <1>1, <1>2 DEF PendingHeld, viewVars
  <1>17. EntriesFresh'
    <2> SUFFICES ASSUME NEW id \in Ids, rows'[id] # "none" PROVE trades[id].seen = "live"
      BY DEF EntriesFresh
    <2>1. CASE op.kind = "enter" /\ id = op.id
      BY <1>1, <2>1 DEF OpSound
    <2>2. CASE ~(op.kind = "enter" /\ id = op.id)
      <3>1. rows[id] # "none"
        BY <1>4, <1>5, <1>6, <1>7, <1>8, <2>2
      <3> QED BY <1>1, <3>1 DEF EntriesFresh
    <2> QED BY <2>1, <2>2
  <1> QED BY <1>10, <1>11, <1>12, <1>13, <1>14, <1>15, <1>16, <1>17 DEF SpikeIInv

\* A write is committed, refused, or fails, and its operation goes on to finish (Write).
LEMMA WriteKeeps ==
    ASSUME SpikeIInv, Write
    PROVE  SpikeIInv'
  <1>1. CASE Applicable /\ Commit /\ \E ok \in BOOLEAN : Answer(ok) /\ (doubt' = TRUE \/ (ok /\ doubt' = doubt))
    <2>1. PICK ok \in BOOLEAN : Answer(ok) /\ (doubt' = TRUE \/ (ok /\ doubt' = doubt))
      BY <1>1
    <2> QED BY <1>1, <2>1, CommitKeeps DEF Write
  <1>2. CASE Answer(FALSE) /\ UNCHANGED dbVars
    <2>1. op \in OpType /\ op.gen <= reg.gen /\ op.step = "write" /\ ~op.ok
      BY OpFields DEF Write, SpikeIInv, OpSound
    <2>2. op.kind \in {"enter", "close", "pause", "resume"}
      BY <2>1, OpFields DEF SpikeIInv, OpSound, OpType
    <2>3. /\ op' \in OpType /\ op'.kind = op.kind /\ op'.id = op.id /\ op'.gen = op.gen /\ op'.day = op.day
          /\ op'.step = "finish" /\ ~op'.ok
      BY <1>2, <2>1, OpAnswered DEF Answer
    <2>4. UNCHANGED <<regVars, eng, viewVars, wanted, queue, trades, rows, control, doubt>>
      BY <1>2 DEF Write, feedVars, dbVars
    <2>5. OpSound'
      <3>1. \A id : Symbol(id)' = Symbol(id)
        BY <2>4, SameTrades
      <3> QED BY <2>2, <2>3, <2>4, <3>1 DEF SpikeIInv, OpSound, viewVars
    <2>6. op'.kind \in {"enter", "close"} => op'.id \in UsedIds
      BY <2>3 DEF SpikeIInv, TradesKnown
    <2> QED BY <2>1, <2>3, <2>4, <2>5, <2>6, OpMoves
  <1> QED BY <1>1, <1>2 DEF Write

\* enter takes the candidate at the head of the queue; what it goes on with is of the current
\* generation, and so came of a live sample.
LEMMA EnterBeginKeeps ==
    ASSUME SpikeIInv, NEW young \in BOOLEAN, EnterBegin(young)
    PROVE  SpikeIInv'
  <1> DEFINE cand == Head(queue)
             step == IF young /\ Valid(cand) /\ open[Symbol(cand.id)] = 0 THEN "write" ELSE "finish"
  <1>1. /\ SpikeTypeOK /\ TradesKnown /\ OneOpenRow /\ CutIsOld /\ OpSound
        /\ AgreesButWrite /\ PendingHeld /\ EntriesFresh
    BY DEF SpikeIInv
  <1>2. UNCHANGED <<regVars, eng, viewVars, feedVars, trades, rows, control, doubt>>
    BY DEF EnterBegin, dbVars
  <1>3. queue \in Seq(CandidateType) /\ queue # <<>> /\ queue' = Tail(queue) /\ OpFree
    BY Candidates DEF EnterBegin
  <1>4. /\ queue' \in Seq(CandidateType) /\ cand \in CandidateType /\ cand = queue[1] /\ 1 \in 1..Len(queue)
        /\ Len(queue') = Len(queue) - 1 /\ \A i \in 1..Len(queue') : queue'[i] = queue[i + 1] /\ i + 1 \in 1..Len(queue)
    BY <1>3, EmptySeq, HeadTailProperties
  <1>5. \A i \in 1..Len(queue) : i = 1 \/ (i - 1 \in 1..Len(queue') /\ queue'[i - 1] = queue[i])
    BY <1>3, <1>4, LenProperties
  <1>6. step \in {"write", "finish"}
    OBVIOUS
  <1>7. op' = [NoOp EXCEPT !.kind = "enter", !.id = cand.id, !.step = step]
    BY DEF EnterBegin
  <1>8. cand.id \in Ids /\ cand.id \in UsedIds /\ cand.gen \in Nat
    BY <1>1, <1>4 DEF CandidateType, TradesKnown
  <1>9. step = "write" => /\ eng.paper /\ eng.loaded /\ trades[cand.id].seen = "live"
                          /\ cand.gen = reg.gen
    <2> SUFFICES ASSUME step = "write" PROVE eng.paper /\ eng.loaded /\ trades[cand.id].seen = "live" /\ cand.gen = reg.gen
      OBVIOUS
    <2>1. eng.paper /\ eng.active /\ reg.gen = cand.gen
      BY DEF Valid
    <2>2. trades[cand.id].seen # "cut"
      BY <1>1, <1>4, <1>8, <2>1 DEF CutIsOld, SpikeTypeOK, RegType
    <2>3. trades[cand.id].seen \in {"live", "cut"}
      BY <1>1, <1>8 DEF TradesKnown
    <2> QED BY <1>1, <2>1, <2>2, <2>3 DEF OpSound
  <1> HIDE DEF cand, step
  <1>10. op' \in OpType /\ op'.kind = "enter" /\ op'.id = cand.id /\ op'.step = step /\ op'.gen = 0 /\ ~op'.ok
    BY <1>6, <1>7, <1>8 DEF NoOp, OpType
  <1>11. /\ UsedIds' = UsedIds /\ \A id : Symbol(id)' = Symbol(id) /\ Legs(id)' = Legs(id)
         /\ \A s : OpenRows(s)' = OpenRows(s)
    BY <1>2, SameTrades
  <1>12. SpikeTypeOK'
    BY <1>1, <1>2, <1>4, <1>10 DEF SpikeTypeOK, regVars, viewVars, feedVars
  <1>13. TradesKnown'
    BY <1>1, <1>2, <1>4, <1>8, <1>10, <1>11 DEF TradesKnown, viewVars
  <1>14. OneOpenRow' /\ EntriesFresh'
    BY <1>1, <1>2, <1>11 DEF OneOpenRow, EntriesFresh
  <1>15. CutIsOld'
    BY <1>1, <1>2, <1>4, <1>10, OpFields DEF CutIsOld, regVars, viewVars
  <1>16. OpSound'
    BY <1>1, <1>2, <1>6, <1>9, <1>10 DEF OpSound
  <1>17. AgreesButWrite'
    BY <1>1, <1>2, <1>3, <1>10, <1>11, OpFields DEF AgreesButWrite, viewVars
  <1>18. PendingHeld'
    <2> SUFFICES ASSUME NEW s \in Symbols, pending[s] # 0
                 PROVE  pending[s] = cand.id \/ \E i \in 1..Len(queue') : queue'[i].id = pending[s]
      BY <1>2, <1>10 DEF PendingHeld, viewVars
    <2>1. PICK i \in 1..Len(queue) : queue[i].id = pending[s]
      BY <1>1, <1>3 DEF PendingHeld, OpFree
    <2>2. CASE i = 1
      BY <1>4, <2>1, <2>2
    <2>3. CASE i # 1
      <3>1. i - 1 \in 1..Len(queue') /\ queue'[i - 1] = queue[i]
        BY <1>5, <2>3
      <3> QED BY <2>1, <3>1
    <2> QED BY <2>2, <2>3
  <1> QED BY <1>12, <1>13, <1>14, <1>15, <1>16, <1>17, <1>18 DEF SpikeIInv

\* An operation that has been answered lets go of opMu, and memory follows the store: the
\* position, the pending mark or the control (enter, Close and SetPaper after their write).
LEMMA FinishesKeep ==
    ASSUME SpikeIInv, EnterFinish \/ CloseFinish \/ SetPaperFinish
    PROVE  SpikeIInv'
  <1>1. /\ SpikeTypeOK /\ TradesKnown /\ OneOpenRow /\ CutIsOld /\ OpSound
        /\ AgreesButWrite /\ PendingHeld /\ EntriesFresh
    BY DEF SpikeIInv
  <1>2. /\ op.step = "finish" /\ op' = NoOp /\ op' \in OpType /\ op'.kind = "none" /\ ~op'.ok /\ op'.gen = 0
        /\ op.kind \in {"enter", "close", "pause", "resume"} /\ op.ok \in BOOLEAN /\ op.id \in Ids \cup {0}
    BY OpFields DEF EnterFinish, CloseFinish, SetPaperFinish
  <1>3. UNCHANGED <<regVars, prev, feedVars, queue, trades, rows, control, doubt>>
    BY DEF EnterFinish, CloseFinish, SetPaperFinish, viewVars, dbVars
  <1>4. /\ UsedIds' = UsedIds /\ \A id : Symbol(id)' = Symbol(id) /\ Legs(id)' = Legs(id)
        /\ \A s : OpenRows(s)' = OpenRows(s)
    BY <1>3, SameTrades
  <1>5. op.kind \in {"enter", "close"} => op.id \in UsedIds /\ Symbol(op.id) \in Symbols /\ op.id # 0
    BY <1>1 DEF TradesKnown, UsedIds, Symbol, Ids
  <1>6. /\ open \in [Symbols -> Ids \cup {0}] /\ pending \in [Symbols -> Ids \cup {0}] /\ eng \in EngineType
    BY <1>1 DEF SpikeTypeOK
  <1>7. /\ eng' \in EngineType /\ eng'.loaded = eng.loaded /\ eng'.gen = eng.gen /\ eng'.active = eng.active
        /\ eng'.paper = IF op.ok /\ op.kind \in {"pause", "resume"} THEN op.kind = "resume" ELSE eng.paper
    <2>1. CASE SetPaperFinish /\ op.ok
      <3> DEFINE b == op.kind = "resume"
      <3>1. b \in BOOLEAN /\ eng' = [eng EXCEPT !.paper = b]
        BY <2>1 DEF SetPaperFinish
      <3>2. op.kind \in {"pause", "resume"}
        BY <2>1 DEF SetPaperFinish
      <3> HIDE DEF b
      <3>3. eng' \in EngineType /\ eng'.loaded = eng.loaded /\ eng'.gen = eng.gen /\ eng'.active = eng.active /\ eng'.paper = b
        BY <1>6, <3>1 DEF EngineType
      <3> QED BY <2>1, <3>2, <3>3 DEF b
    <2>2. CASE ~(SetPaperFinish /\ op.ok)
      BY <1>6, <2>2 DEF EnterFinish, CloseFinish, SetPaperFinish
    <2> QED BY <2>1, <2>2
  <1>8. \A s \in Symbols :
            open'[s] = IF op.ok /\ op.kind = "enter" /\ Symbol(op.id) = s THEN op.id
                       ELSE IF op.ok /\ op.kind = "close" /\ Symbol(op.id) = s THEN 0 ELSE open[s]
    BY <1>6 DEF EnterFinish, CloseFinish, SetPaperFinish, viewVars
  <1>9. \A s \in Symbols :
            /\ pending'[s] \in {pending[s], 0}
            /\ op.kind = "enter" /\ pending[s] = op.id /\ pending[s] # 0 => pending'[s] = 0
    BY <1>1, <1>6 DEF EnterFinish, CloseFinish, SetPaperFinish, viewVars, TradesKnown
  <1>10. open' \in [Symbols -> Ids \cup {0}] /\ pending' \in [Symbols -> Ids \cup {0}]
    BY <1>2, <1>5, <1>6 DEF EnterFinish, CloseFinish, SetPaperFinish, viewVars
  <1>11. SpikeTypeOK'
    BY <1>1, <1>2, <1>3, <1>7, <1>10 DEF SpikeTypeOK, regVars, feedVars
  <1>12. TradesKnown'
    BY <1>1, <1>2, <1>3, <1>4, <1>5, <1>8, <1>9 DEF TradesKnown
  <1>13. OneOpenRow' /\ EntriesFresh'
    BY <1>1, <1>3, <1>4 DEF OneOpenRow, EntriesFresh
  <1>14. CutIsOld'
    BY <1>1, <1>2, <1>3, <1>7, OpFields DEF CutIsOld, regVars
  <1>15. OpSound'
    BY <1>1, <1>2, <1>7 DEF OpSound, NoOp
  <1>16. AgreesButWrite'
    <2> SUFFICES ASSUME eng.loaded, ~doubt
                 PROVE  /\ control = eng'.paper
                        /\ \A s \in Symbols : OpenRows(s) = IF open'[s] = 0 THEN {} ELSE {open'[s]}
      BY <1>2, <1>3, <1>4, <1>7 DEF AgreesButWrite
    <2>1. /\ control = IF op.ok /\ op.kind \in {"pause", "resume"} THEN op.kind = "resume" ELSE eng.paper
          /\ \A s \in Symbols :
                OpenRows(s) = IF op.ok /\ op.kind = "enter" /\ Symbol(op.id) = s THEN {op.id}
                              ELSE IF op.ok /\ op.kind = "close" /\ Symbol(op.id) = s THEN {}
                              ELSE IF open[s] = 0 THEN {} ELSE {open[s]}
      BY <1>1 DEF AgreesButWrite
    <2>2. control = eng'.paper
      BY <1>7, <2>1
    <2>3. \A s \in Symbols : OpenRows(s) = IF open'[s] = 0 THEN {} ELSE {open'[s]}
      BY <1>5, <1>8, <2>1
    <2> QED BY <2>2, <2>3
  <1>17. PendingHeld'
    BY <1>1, <1>2, <1>3, <1>9 DEF PendingHeld
  <1> QED BY <1>11, <1>12, <1>13, <1>14, <1>15, <1>16, <1>17 DEF SpikeIInv

-----------------------------------------------------------------------------
(* A candidate                                                             *)

\* A signal takes the next id, and the generation its sample is of (evaluateLocked).
LEMMA TicksSignalKeeps ==
    ASSUME SpikeBounds, SpikeIInv, NEW s \in Symbols, TicksSignal(s)
    PROVE  SpikeIInv'
  <1> DEFINE id == Cardinality(UsedIds) + 1
             cand == [id |-> id, gen |-> eng.gen]
             trade == [symbol |-> s, roll |-> eng.roll, seen |-> prev[s]]
  <1>1. /\ SpikeTypeOK /\ TradesKnown /\ OneOpenRow /\ CutIsOld /\ OpSound
        /\ AgreesButWrite /\ PendingHeld /\ EntriesFresh
    BY DEF SpikeIInv
  <1>2. /\ UNCHANGED <<regVars, eng, open, wanted, op, rows, control, doubt>>
        /\ prev[s] # "none" /\ <<s, eng.roll>> \in wanted /\ pending[s] = 0 /\ id \in Ids
        /\ queue' = Append(queue, cand) /\ pending' = [pending EXCEPT ![s] = id]
        /\ trades' = [trades EXCEPT ![id] = trade] /\ prev' = [prev EXCEPT ![s] = "live"]
    BY DEF TicksSignal, dbVars
  <1>3. PICK n \in 0..MaxTrades : UsedIds = 1..n
    BY <1>1 DEF TradesKnown
  <1>4. id = n + 1 /\ id \in Nat /\ id # 0 /\ id \notin UsedIds
    <2>1. n \in Nat
      BY <1>3 DEF SpikeBounds
    <2>2. Cardinality(UsedIds) = n
      BY <1>3, <2>1, NextIdIsFree
    <2> HIDE DEF id
    <2>3. id = n + 1
      BY <2>2 DEF id
    <2> QED BY <1>3, <2>1, <2>3
  <1>5. eng.roll \in Nat \ {0} /\ eng.gen \in Nat /\ reg.gen \in Nat
    BY <1>1, <1>2 DEF SpikeTypeOK, EngineType, RegType
  <1>6. prev[s] \in {"live", "cut"} /\ (prev[s] = "cut" => eng.gen < reg.gen)
    BY <1>1, <1>2 DEF SpikeTypeOK, CutIsOld
  <1>7. /\ cand \in CandidateType /\ cand.id = id /\ cand.gen = eng.gen
        /\ trade \in [symbol : Symbols, roll : Nat \ {0}, seen : {"live", "cut"}]
        /\ trade.symbol = s /\ trade.roll = eng.roll /\ trade.seen = prev[s]
    BY <1>2, <1>5, <1>6 DEF CandidateType
  <1> HIDE DEF id, cand, trade
  <1>8. /\ queue \in Seq(CandidateType) /\ queue' \in Seq(CandidateType) /\ Len(queue) \in Nat
        /\ Len(queue') = Len(queue) + 1 /\ queue'[Len(queue) + 1] = cand
        /\ \A i \in 1..Len(queue) : queue'[i] = queue[i] /\ i \in 1..Len(queue')
        /\ \A i \in 1..Len(queue') : i \in 1..Len(queue) \/ i = Len(queue) + 1
        /\ Len(queue) + 1 \in 1..Len(queue')
    BY <1>2, <1>7, Candidates, AppendProperties
  <1>9. /\ DOMAIN trades' = Ids /\ trades'[id] = trade
        /\ \A i \in Ids : i # id => trades'[i] = trades[i]
    BY <1>1, <1>2 DEF SpikeTypeOK
  <1>10. UsedIds' = UsedIds \cup {id} /\ UsedIds' = 1..(n + 1) /\ n + 1 \in 0..MaxTrades
    <2>1. UsedIds' = UsedIds \cup {id}
      BY <1>2, <1>5, <1>7, <1>9 DEF UsedIds
    <2> QED BY <1>2, <1>3, <1>4, <2>1 DEF Ids, SpikeBounds
  <1>11. /\ \A i \in UsedIds : i \in Ids /\ i # id /\ Symbol(i)' = Symbol(i) /\ Legs(i)' = Legs(i) /\ trades'[i] = trades[i]
         /\ trades'[id].symbol = s
    BY <1>4, <1>7, <1>9 DEF Symbol, Legs, UsedIds
  <1>12. rows[id] = "none"
    BY <1>1, <1>2, <1>4 DEF TradesKnown
  <1>13. \A x : OpenRows(x)' = OpenRows(x)
    BY <1>2, <1>10, <1>11, <1>12 DEF OpenRows
  <1>14. OpenLegs' = OpenLegs
    BY <1>1, <1>2, <1>11 DEF OpenLegs, TradesKnown
  <1>15. /\ pending' \in [Symbols -> Ids \cup {0}] /\ pending'[s] = id
         /\ \A x \in Symbols : x # s => pending'[x] = pending[x]
    BY <1>1, <1>2 DEF SpikeTypeOK
  <1>16. SpikeTypeOK'
    <2>1. prev' \in [Symbols -> {"none", "live", "cut"}]
      BY <1>1, <1>2 DEF SpikeTypeOK
    <2> QED BY <1>1, <1>2, <1>8, <1>9, <1>15, <2>1 DEF SpikeTypeOK, regVars
  <1>17. TradesKnown'
    <2>1. \A i \in UsedIds' : trades'[i] \in [symbol : Symbols, roll : Nat \ {0}, seen : {"live", "cut"}]
      BY <1>1, <1>7, <1>9, <1>10, <1>11 DEF TradesKnown
    <2>2. \A i \in Ids : rows'[i] # "none" => i \in UsedIds'
      BY <1>1, <1>2, <1>10 DEF TradesKnown
    <2>3. \A x \in Symbols : open'[x] # 0 => open'[x] \in UsedIds' /\ trades'[open'[x]].symbol = x
      BY <1>1, <1>2, <1>10, <1>11 DEF TradesKnown, Symbol
    <2>6. \A x \in Symbols : pending'[x] # 0 => pending'[x] \in UsedIds' /\ trades'[pending'[x]].symbol = x
      <3> SUFFICES ASSUME NEW x \in Symbols, pending'[x] # 0
                   PROVE  pending'[x] \in UsedIds' /\ trades'[pending'[x]].symbol = x
        OBVIOUS
      <3>1. CASE x = s
        BY <1>10, <1>11, <1>15, <3>1
      <3>2. CASE x # s
        <4>1. pending'[x] = pending[x] /\ pending[x] \in UsedIds /\ trades[pending[x]].symbol = x
          BY <1>1, <1>15, <3>2 DEF TradesKnown, Symbol
        <4> QED BY <1>10, <1>11, <4>1
      <3> QED BY <3>1, <3>2
    <2>4. \A i \in 1..Len(queue') : queue'[i].id \in UsedIds'
      BY <1>1, <1>7, <1>8, <1>10 DEF TradesKnown
    <2>5. op'.kind \in {"enter", "close"} => op'.id \in UsedIds'
      BY <1>1, <1>2, <1>10 DEF TradesKnown
    <2> QED BY <1>2, <1>10, <2>1, <2>2, <2>3, <2>4, <2>5, <2>6 DEF TradesKnown, Symbol
  <1>18. OneOpenRow'
    BY <1>1, <1>2, <1>10, <1>11, <1>12 DEF OneOpenRow
  <1>19. CutIsOld'
    <2>1. \A x \in Symbols : prev'[x] = "cut" => prev[x] = "cut"
      BY <1>1, <1>2 DEF SpikeTypeOK
    <2>2. \A i \in 1..Len(queue) : trades'[queue[i].id] = trades[queue[i].id]
      BY <1>1, <1>11 DEF TradesKnown
    <2>3. \A i \in 1..Len(queue') :
            queue'[i].gen <= reg.gen /\ (trades'[queue'[i].id].seen = "cut" => queue'[i].gen < reg.gen)
      <3> SUFFICES ASSUME NEW i \in 1..Len(queue')
                   PROVE  queue'[i].gen <= reg.gen /\ (trades'[queue'[i].id].seen = "cut" => queue'[i].gen < reg.gen)
        OBVIOUS
      <3>1. CASE i \in 1..Len(queue)
        BY <1>1, <1>8, <2>2, <3>1 DEF CutIsOld
      <3>2. CASE i = Len(queue) + 1
        BY <1>1, <1>6, <1>7, <1>8, <1>9, <3>2 DEF CutIsOld
      <3> QED BY <1>8, <3>1, <3>2
    <2> QED BY <1>1, <1>2, <2>1, <2>3 DEF CutIsOld, regVars
  <1>20. OpSound'
    <2>1. op.kind \in {"enter", "close"} => trades'[op.id] = trades[op.id]
      BY <1>1, <1>11 DEF TradesKnown
    <2> QED BY <1>1, <1>2, <1>14, <2>1 DEF OpSound, Symbol
  <1>21. AgreesButWrite'
    <2>1. op.kind \in {"enter", "close"} => trades'[op.id] = trades[op.id]
      BY <1>1, <1>11 DEF TradesKnown
    <2> QED BY <1>1, <1>2, <1>13, <2>1 DEF AgreesButWrite, Symbol
  <1>22. PendingHeld'
    <2> SUFFICES ASSUME NEW x \in Symbols, pending'[x] # 0
                 PROVE  (op.kind = "enter" /\ pending'[x] = op.id) \/ \E i \in 1..Len(queue') : queue'[i].id = pending'[x]
      BY <1>2 DEF PendingHeld
    <2>1. CASE x = s
      BY <1>7, <1>8, <1>15, <2>1
    <2>2. CASE x # s
      BY <1>1, <1>8, <1>15, <2>2 DEF PendingHeld
    <2> QED BY <2>1, <2>2
  <1>23. EntriesFresh'
    BY <1>1, <1>2, <1>9, <1>12 DEF EntriesFresh
  <1> QED BY <1>16, <1>17, <1>18, <1>19, <1>20, <1>21, <1>22, <1>23 DEF SpikeIInv

-----------------------------------------------------------------------------
(* reconcile, and a new process                                            *)

\* The load: positions and control are those of the store (reconcile's ReadState).
LEMMA ReconcileLoadKeeps ==
    ASSUME SpikeIInv, ReconcileLoad
    PROVE  SpikeIInv'
  <1>1. /\ SpikeTypeOK /\ TradesKnown /\ OneOpenRow /\ CutIsOld /\ OpSound
        /\ AgreesButWrite /\ PendingHeld /\ EntriesFresh
    BY DEF SpikeIInv
  <1>2. /\ UNCHANGED <<regVars, pending, feedVars, queue, trades, rows, control>> /\ ~doubt'
        /\ op.kind = "reconcile" /\ op.step = "load" /\ ~op.ok /\ op.day \in Nat \ {0}
        /\ \A s \in Symbols : prev'[s] = "none"
        /\ prev' \in [Symbols -> {"none", "live", "cut"}] /\ doubt' \in BOOLEAN
    BY <1>1, OpFields DEF ReconcileLoad, ReconcileStep, NoPrevious, OpSound
  <1>3. /\ op' \in OpType /\ op'.kind = "reconcile" /\ op'.gen = op.gen /\ op'.day = op.day /\ op'.step = "ready" /\ ~op'.ok
    BY <1>2, OpGoesOn, OpFields DEF ReconcileLoad, ReconcileStep
  <1>4. /\ eng' \in EngineType /\ eng'.loaded /\ eng'.gen = eng.gen /\ eng'.paper = control
    BY <1>1, <1>2 DEF ReconcileLoad, SpikeTypeOK, EngineType
  <1>5. /\ UsedIds' = UsedIds /\ \A id : Symbol(id)' = Symbol(id) /\ Legs(id)' = Legs(id)
        /\ \A s : OpenRows(s)' = OpenRows(s)
    BY <1>2, SameTrades
  <1>6. ASSUME NEW s \in Symbols
        PROVE  \/ OpenRows(s) = {} /\ open'[s] = 0
               \/ OpenRows(s) = {open'[s]} /\ open'[s] \in UsedIds /\ Symbol(open'[s]) = s /\ open'[s] # 0 /\ open'[s] \in Ids
    <2>1. open'[s] = IF OpenRows(s) = {} THEN 0 ELSE CHOOSE id \in OpenRows(s) : TRUE
      BY DEF ReconcileLoad
    <2>2. CASE OpenRows(s) # {}
      <3>1. open'[s] \in OpenRows(s)
        BY <2>1, <2>2
      <3>2. \A id \in OpenRows(s) : id = open'[s]
        BY <1>1, <3>1 DEF OneOpenRow, OpenRows
      <3> QED BY <3>1, <3>2 DEF OpenRows, UsedIds, Ids
    <2> QED BY <2>1, <2>2
  <1>7. open' \in [Symbols -> Ids \cup {0}]
    <2>1. open' = [s \in Symbols |-> open'[s]]
      BY DEF ReconcileLoad
    <2> QED BY <1>6, <2>1
  <1>8. SpikeTypeOK'
    BY <1>1, <1>2, <1>3, <1>4, <1>7 DEF SpikeTypeOK, regVars, feedVars
  <1>9. TradesKnown'
    BY <1>1, <1>2, <1>3, <1>5, <1>6 DEF TradesKnown
  <1>10. OneOpenRow' /\ EntriesFresh'
    BY <1>1, <1>2, <1>5 DEF OneOpenRow, EntriesFresh
  <1>11. CutIsOld'
    BY <1>1, <1>2, <1>3, <1>4 DEF CutIsOld, regVars
  <1>12. OpSound'
    BY <1>1, <1>2, <1>3, <1>4 DEF OpSound
  <1>13. AgreesButWrite'
    BY <1>2, <1>3, <1>4, <1>5, <1>6 DEF AgreesButWrite
  <1>14. PendingHeld'
    BY <1>1, <1>2, <1>3 DEF PendingHeld
  <1> QED BY <1>8, <1>9, <1>10, <1>11, <1>12, <1>13, <1>14 DEF SpikeIInv

\* The universes take effect: the lane is to have the nearest contracts and those of the open
\* positions; or, without a session, it goes idle (reconcile's apply and invalidate).
LEMMA ReconcileTurnKeeps ==
    ASSUME SpikeIInv, ReconcileApply \/ ReconcileIdle
    PROVE  SpikeIInv'
  <1>1. /\ SpikeTypeOK /\ TradesKnown /\ OneOpenRow /\ CutIsOld /\ OpSound
        /\ AgreesButWrite /\ PendingHeld /\ EntriesFresh
    BY DEF SpikeIInv
  <1> DEFINE idle == op.step = "idle"
             step == IF idle THEN "clear" ELSE "tokens"
  <1>2. /\ UNCHANGED <<regVars, open, queue, trades, rows, control, doubt>>
        /\ op.kind = "reconcile" /\ ~op.ok /\ op.day \in Nat \ {0} /\ op.step \in {"apply", "idle"}
        /\ op.gen \in Nat /\ op.gen <= reg.gen /\ eng.loaded /\ op' = [op EXCEPT !.step = step]
    BY <1>1, OpFields DEF ReconcileApply, ReconcileIdle, ReconcileStep, dbVars, OpSound
  <1>3. /\ op' \in OpType /\ op'.kind = "reconcile" /\ op'.gen = op.gen /\ op'.day = op.day /\ op'.step = step /\ ~op'.ok
    <2>1. step \in {"ready", "idle", "clear", "apply", "tokens"} /\ op \in OpType
      BY OpFields
    <2> HIDE DEF step
    <2> QED BY <1>2, <2>1, OpGoesOn
  <1>4. eng' \in EngineType /\ eng'.loaded = eng.loaded /\ eng'.gen = op.gen /\ eng'.paper = eng.paper
    <2>1. CASE ReconcileIdle
      BY <1>1, <1>2, <2>1 DEF ReconcileIdle, SpikeTypeOK, EngineType
    <2>2. CASE ReconcileApply
      BY <1>1, <1>2, <2>2 DEF ReconcileApply, SpikeTypeOK, EngineType
    <2> QED BY <2>1, <2>2
  <1>5. \/ op.gen = reg.gen /\ eng.gen = op.gen /\ UNCHANGED <<prev, pending>>
        \/ prev' = NoPrevious /\ pending' = NoneOpen
    BY DEF ReconcileApply, ReconcileIdle
  <1>6. /\ \A s \in Symbols : prev'[s] # "cut" /\ pending'[s] \in {pending[s], 0}
        /\ prev' \in [Symbols -> {"none", "live", "cut"}] /\ pending' \in [Symbols -> Ids \cup {0}]
    <2>1. CASE op.gen = reg.gen /\ eng.gen = op.gen /\ UNCHANGED <<prev, pending>>
      BY <1>1, <2>1 DEF SpikeTypeOK, CutIsOld, RegType
    <2>2. CASE prev' = NoPrevious /\ pending' = NoneOpen
      BY <2>2 DEF NoPrevious, NoneOpen
    <2> QED BY <1>5, <2>1, <2>2
  <1>7. /\ UsedIds' = UsedIds /\ \A id : Symbol(id)' = Symbol(id) /\ Legs(id)' = Legs(id)
        /\ \A s : OpenRows(s)' = OpenRows(s)
    BY <1>2, SameTrades
  <1>8. OpenLegs' = OpenLegs /\ OpenLegs \subseteq Symbols \X (Nat \ {0})
    <2>1. OpenLegs' = OpenLegs
      BY <1>2, <1>7 DEF OpenLegs
    <2>2. ASSUME NEW s \in Symbols, open[s] # 0
          PROVE  Legs(open[s]) \in Symbols \X (Nat \ {0})
      <3>1. trades[open[s]] \in [symbol : Symbols, roll : Nat \ {0}, seen : {"live", "cut"}]
        BY <1>1, <2>2 DEF TradesKnown
      <3> QED BY <3>1 DEF Legs
    <2> QED BY <2>1, <2>2 DEF OpenLegs
  <1>9. wanted' \subseteq Symbols \X (Nat \ {0}) /\ (step = "tokens" => OpenLegs \subseteq wanted')
    <2>1. CASE ReconcileIdle
      BY <1>1, <2>1 DEF ReconcileIdle, ReconcileStep, feedVars, SpikeTypeOK
    <2>2. CASE ReconcileApply
      <3>1. wanted' = buildUniverses(op.day) \cup OpenLegs
        BY <2>2 DEF ReconcileApply
      <3>2. buildUniverses(op.day) \subseteq Symbols \X (Nat \ {0})
        BY <1>2 DEF buildUniverses
      <3> QED BY <1>8, <3>1, <3>2
    <2> QED BY <2>1, <2>2
  <1>10. eng'.active => step = "tokens"
    BY <1>1 DEF ReconcileApply, ReconcileIdle, ReconcileStep, SpikeTypeOK, EngineType
  <1>s. step \in {"clear", "tokens"}
    OBVIOUS
  <1> HIDE DEF idle, step
  <1>11. SpikeTypeOK'
    BY <1>1, <1>2, <1>3, <1>4, <1>6, <1>9 DEF SpikeTypeOK, regVars
  <1>12. TradesKnown'
    <2>1. \A s \in Symbols : pending'[s] # 0 => pending'[s] \in UsedIds' /\ trades'[pending'[s]].symbol = s
      BY <1>1, <1>2, <1>6, <1>7 DEF TradesKnown, Symbol
    <2> QED BY <1>1, <1>2, <1>3, <1>7, <2>1 DEF TradesKnown, Symbol
  <1>13. OneOpenRow' /\ EntriesFresh'
    BY <1>1, <1>2, <1>7 DEF OneOpenRow, EntriesFresh
  <1>14. CutIsOld'
    BY <1>1, <1>2, <1>3, <1>4, <1>6 DEF CutIsOld, regVars
  <1>15. OpSound'
    BY <1>2, <1>3, <1>4, <1>8, <1>9, <1>s DEF OpSound
  <1>16. AgreesButWrite'
    BY <1>1, <1>2, <1>3, <1>4, <1>7 DEF AgreesButWrite
  <1>17. PendingHeld'
    BY <1>1, <1>2, <1>3, <1>6 DEF PendingHeld
  <1> QED BY <1>11, <1>12, <1>13, <1>14, <1>15, <1>16, <1>17 DEF SpikeIInv

\* A new process has nothing in memory; the store is what it was (New, and Start's first load).
LEMMA RestartKeeps ==
    ASSUME SpikeIInv, Restart
    PROVE  SpikeIInv'
  <1>1. /\ SpikeTypeOK /\ TradesKnown /\ OneOpenRow /\ CutIsOld /\ OpSound
        /\ AgreesButWrite /\ PendingHeld /\ EntriesFresh
    BY DEF SpikeIInv
  <1>2. /\ UNCHANGED <<today, trades, rows, control, doubt>> /\ queue' = <<>> /\ Len(queue') = 0
        /\ prev' = NoPrevious /\ open' = NoneOpen /\ pending' = NoneOpen /\ wanted' = {} /\ op' = NoOp
        /\ eng' = NewEngine /\ reg' = [reg EXCEPT !.step = "none"]
    BY DEF Restart, dbVars
  <1>3. /\ op' \in OpType /\ op'.kind = "none" /\ op'.step = "none" /\ ~op'.ok /\ op'.gen = 0
        /\ eng' \in EngineType /\ ~eng'.loaded /\ ~eng'.active /\ eng'.gen = 0
        /\ reg' \in RegType /\ reg'.gen = reg.gen /\ reg.gen \in Nat
    BY <1>1, <1>2, OpFields DEF NewEngine, EngineType, RegType, SpikeTypeOK
  <1>4. /\ open' \in [Symbols -> Ids \cup {0}] /\ pending' \in [Symbols -> Ids \cup {0}]
        /\ prev' \in [Symbols -> {"none", "live", "cut"}] /\ queue' \in Seq(CandidateType)
        /\ \A s \in Symbols : open'[s] = 0 /\ pending'[s] = 0 /\ prev'[s] = "none"
    BY <1>2 DEF NoneOpen, NoPrevious
  <1>5. UsedIds' = UsedIds /\ \A id : Symbol(id)' = Symbol(id)
    BY <1>2, SameTrades
  <1>6. SpikeTypeOK'
    BY <1>1, <1>2, <1>3, <1>4 DEF SpikeTypeOK
  <1>7. TradesKnown'
    BY <1>1, <1>2, <1>3, <1>4, <1>5 DEF TradesKnown
  <1>8. OneOpenRow' /\ EntriesFresh'
    BY <1>1, <1>2, <1>5 DEF OneOpenRow, EntriesFresh
  <1>9. CutIsOld'
    BY <1>2, <1>3, <1>4 DEF CutIsOld
  <1>10. OpSound' /\ AgreesButWrite'
    BY <1>2, <1>3 DEF OpSound, AgreesButWrite
  <1>11. PendingHeld'
    BY <1>4 DEF PendingHeld
  <1> QED BY <1>6, <1>7, <1>8, <1>9, <1>10, <1>11 DEF SpikeIInv

-----------------------------------------------------------------------------
(* Theorems                                                                *)

\* The parts hold from the start and every step keeps them.
LEMMA SpikeStepKeeps ==
    ASSUME SpikeBounds, SpikeIInv, [SpikeNext]_spikeVars
    PROVE  SpikeIInv'
  <1>1. CASE ~eng.stopped /\ (RegistryStep \/ CallbackStep)
    BY <1>1, RegistryKeeps, CallbacksKeep, TicksSignalKeeps DEF CallbackStep
  <1>2. CASE OpBegin
    BY <1>2, BeginsKeep, EnterBeginKeeps
  <1>3. CASE OpStep
    BY <1>3, WriteKeeps, FinishesKeep, ReconcileLoadKeeps, ReconcileTurnKeeps, ReconcileMoves DEF OpStep
  <1>4. CASE Stop \/ StopTokens \/ Restart
    BY <1>4, CallbacksKeep, RestartKeeps
  <1>5. CASE UNCHANGED spikeVars
    <2>1. UNCHANGED <<open, queue, op, trades, rows, control, doubt, wanted, reg, today, eng, prev, pending>>
      BY <1>5 DEF spikeVars, regVars, viewVars, feedVars, dbVars
    <2>2. reg \in RegType /\ today \in Nat \ {0} /\ eng \in EngineType /\ prev \in [Symbols -> {"none", "live", "cut"}]
      BY DEF SpikeIInv, SpikeTypeOK
    <2> QED BY <2>1, <2>2, QuietKeeps
  <1> QED BY <1>1, <1>2, <1>3, <1>4, <1>5 DEF SpikeNext

\* In every state the engine's positions and control are those of the store but for the write
\* just made, its trades are known and fresh, and its operation may rely on what it was given.
THEOREM SpikeInvariant == SpikeSpec => []SpikeIInv
  <1>1. SpikeInit => SpikeIInv
    BY SpikeBounds, SpikeStarts
  <1>2. SpikeIInv /\ [SpikeNext]_spikeVars => SpikeIInv'
    BY SpikeBounds, SpikeStepKeeps
  <1> QED BY <1>1, <1>2, PTL DEF SpikeSpec

\* Whatever switches, session changes, midnights, failures and restarts come between, the engine
\* shows what a restart would restore, has entered on live samples only, and has no index blocked
\* by a candidate nobody will decide on (enter, reconcile, SetPaper, Close, Invalidate).
THEOREM SpikeAlwaysSound == SpikeSpec => []SpikeSound
  <1>1. SpikeIInv => SpikeSound
    <2> SUFFICES ASSUME SpikeIInv PROVE SpikeSound
      OBVIOUS
    <2>1. StoreAgrees
      BY OpFields DEF SpikeIInv, AgreesButWrite, StoreAgrees, OpFree
    <2>2. PendingBacked
      BY DEF SpikeIInv, PendingHeld, PendingBacked
    <2> QED BY <2>1, <2>2 DEF SpikeSound, SpikeIInv
  <1> QED BY <1>1, SpikeInvariant, PTL

\* A row opens only by enter's write, which goes on only while the engine's control allows it.
LEMMA EntriesAllowed ==
    ASSUME SpikeIInv, [SpikeNext]_spikeVars
    PROVE  NoEntryWhilePaused
  <1>1. CASE Write
    <2> SUFFICES ASSUME NEW id \in Ids, rows[id] = "none", rows'[id] = "open"
                 PROVE  eng.paper /\ (control \/ doubt)
      BY DEF NoEntryWhilePaused
    <2>1. Commit /\ op.step = "write" /\ rows \in [Ids -> {"none", "open", "closed"}]
      BY <1>1 DEF Write, dbVars, SpikeIInv, SpikeTypeOK
    <2>2. op.kind = "enter"
      BY <2>1 DEF Commit
    <2>3. eng.paper /\ eng.loaded /\ ~op.ok
      BY <2>1, <2>2, OpFields DEF SpikeIInv, OpSound
    <2>4. doubt \/ control = eng.paper
      BY <2>3 DEF SpikeIInv, AgreesButWrite
    <2> QED BY <2>3, <2>4
  <1>2. CASE UNCHANGED rows
    BY <1>2 DEF NoEntryWhilePaused
  <1>3. RegistryStep \/ CallbackStep => UNCHANGED rows
    BY DEF RegistryStep, SwitchReset, SwitchStore, SwitchEnd, SessionExpires, SessionLost, SessionInstalled,
           SessionChange, SessionInvalidate, OnRuntimeReady, Midnight, CallbackStep, OnConnection,
           TicksArrive, TicksIgnored, TicksSample, TicksSignal, dbVars
  <1>4. OpBegin \/ (OpStep /\ ~Write) => UNCHANGED rows
    BY DEF OpBegin, ReconcileBegin, EnterBegin, SetPaperBegin, CloseBegin, OpStep, EnterFinish, SetPaperFinish,
           CloseFinish, ReconcileLoad, ReconcileReady, ReconcileIdle, ReconcileApply, ReconcileAbort,
           ReconcileTokens, dbVars
  <1>5. Stop \/ StopTokens \/ Restart \/ UNCHANGED spikeVars => UNCHANGED rows
    BY DEF Stop, StopTokens, Restart, spikeVars, dbVars
  <1> QED BY <1>1, <1>2, <1>3, <1>4, <1>5 DEF SpikeNext, OpStep

\* The lane's table is what reconcile wanted, which has the legs of every open position.
LEMMA LegsStay ==
    ASSUME SpikeIInv, [SpikeNext]_spikeVars
    PROVE  PositionKept
  <1> SUFFICES ASSUME NEW s \in Symbols, open[s] # 0, open'[s] = open[s],
                      Legs(open[s]) \in subscribed, Legs(open[s]) \notin subscribed'
               PROVE  reg'.step = "reset" \/ op.step = "clear" \/ eng.stopped
    BY DEF PositionKept
  <1>0. subscribed' # subscribed
    OBVIOUS
  <1>1. CASE SwitchReset
    BY <1>1 DEF SwitchReset, SpikeIInv, SpikeTypeOK, RegType
  <1>2. CASE ReconcileTokens
    <2>1. op.step = "tokens" /\ op.kind = "reconcile" => OpenLegs \subseteq wanted
      BY DEF SpikeIInv, OpSound
    <2>2. Legs(open[s]) \in OpenLegs
      BY DEF OpenLegs
    <2> QED BY <1>2, <2>1, <2>2 DEF ReconcileTokens, ReconcileEnds
  <1>3. CASE StopTokens
    BY <1>3 DEF StopTokens
  <1>4. CASE Restart
    BY <1>4 DEF Restart, NoneOpen
  <1>5. RegistryStep \/ CallbackStep => SwitchReset
    BY <1>0 DEF RegistryStep, SwitchStore, SwitchEnd, SessionExpires, SessionLost, SessionInstalled,
           SessionChange, SessionInvalidate, OnRuntimeReady, Midnight, CallbackStep, OnConnection,
           TicksArrive, TicksIgnored, TicksSample, TicksSignal, feedVars
  <1>6. ~OpBegin /\ (OpStep => ReconcileTokens)
    BY <1>0 DEF OpBegin, ReconcileBegin, EnterBegin, SetPaperBegin, CloseBegin, OpStep, Write, EnterFinish,
           SetPaperFinish, CloseFinish, ReconcileLoad, ReconcileReady, ReconcileIdle, ReconcileApply,
           ReconcileAbort, feedVars
  <1>7. ~Stop /\ ~UNCHANGED spikeVars
    BY <1>0 DEF Stop, spikeVars, feedVars
  <1> QED BY <1>1, <1>2, <1>3, <1>4, <1>5, <1>6, <1>7 DEF SpikeNext

\* No step opens a spread that the operator's pause forbids, or drops the legs of an open position
\* from the lane while their data still flows, whatever was decided before it (enter, reconcile).
THEOREM SpikeNeverForbidden == SpikeSpec => SpikeSteps
  <1>1. SpikeIInv /\ [SpikeNext]_spikeVars => [NoEntryWhilePaused /\ PositionKept]_spikeVars
    BY EntriesAllowed, LegsStay
  <1> QED BY <1>1, SpikeInvariant, PTL DEF SpikeSpec, SpikeSteps
=============================================================================
