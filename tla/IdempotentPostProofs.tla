------------------------ MODULE IdempotentPostProofs ------------------------
(* Proofs about IdempotentPost. *)
EXTENDS IdempotentPost, TLAPS

\* A step is first-order unless it names the SMT solver.
USE ZenonT(30)

Stored == Requests \cup {Absent, Claimed}
Labels == {"no", "claim", "fetch", "parse", "insert", "clear", "store", "done", "gone"}

-----------------------------------------------------------------------------
(* What the statements do *)

\* A statement touches one key: only the DELETE makes it absent, and only the
\* UPDATE puts a response there, its own.
LEMMA RunFacts ==
    ASSUME TypeOK, NEW s \in Statements, NEW r \in Requests, Run(s, r)
    PROVE  /\ idem' \in [Keys -> Stored]
           /\ rows' = IF s \in {"insert", "commit"} THEN rows \cup {r} ELSE rows
           /\ \A k \in Keys : k # KeyOf[r] => idem'[k] = idem[k]
           /\ s # "clear" /\ idem[KeyOf[r]] # Absent => idem'[KeyOf[r]] # Absent
           /\ s = "claim" => idem'[KeyOf[r]] # Absent
           /\ \/ idem'[KeyOf[r]] \in {idem[KeyOf[r]], Absent, Claimed}
              \/ s = "store" /\ idem'[KeyOf[r]] = r
<1>0. KeyOf[r] \in Keys /\ Absent # Claimed /\ r # Absent /\ idem \in [Keys -> Stored]
  BY PostAssumption DEF TypeOK, Stored
<1>1. rows' = IF s \in {"insert", "commit"} THEN rows \cup {r} ELSE rows
  BY DEF Run
<1>2. CASE s = "claim"
  <2>1. idem' = [idem EXCEPT ![KeyOf[r]] = IF @ = Absent THEN Claimed ELSE @]
    BY <1>2 DEF Run, ClaimRow
  <2> QED BY <1>0, <1>1, <1>2, <2>1 DEF Stored
<1>3. CASE s = "clear"
  <2>1. idem' = [idem EXCEPT ![KeyOf[r]] = Absent]
    BY <1>3 DEF Run
  <2> QED BY <1>0, <1>1, <1>3, <2>1 DEF Stored
<1>4. CASE s = "store"
  <2>1. idem' = [idem EXCEPT ![KeyOf[r]] = IF @ = Absent THEN Absent ELSE r]
    BY <1>4 DEF Run, StoreRow
  <2> QED BY <1>0, <1>1, <1>4, <2>1 DEF Stored
<1>5. CASE s \notin {"claim", "clear", "store"}
  <2>1. idem' = idem
    BY <1>5 DEF Run
  <2> QED BY <1>0, <1>1, <1>5, <2>1
<1> QED BY <1>2, <1>3, <1>4, <1>5

\* A statement that fails changes nothing now.
LEMMA FailFacts ==
    ASSUME TypeOK, NEW s \in Statements, NEW r \in Requests, Fail(s, r)
    PROVE  /\ idem' = idem /\ rows' = rows
           /\ late' = late \/ (s \in faults.break /\ late' = late \cup {<<s, r>>})
BY DEF Fail

-----------------------------------------------------------------------------
(* Type correctness *)

LEMMA TypeInit == Init => TypeOK
BY DEF Init, TypeOK, Outcomes

LEMMA GotoType ==
    ASSUME TypeOK, NEW r \in Requests, NEW l \in Labels, Goto(r, l)
    PROVE  /\ pc' \in [Requests -> Labels] /\ answer' \in [Requests -> Outcomes \cup Requests]
           /\ pc' = [pc EXCEPT ![r] = l] /\ answer' = answer
BY DEF TypeOK, Goto, Labels

LEMMA AnswerType ==
    ASSUME TypeOK, NEW r \in Requests, NEW a \in Outcomes \cup Requests, Answer(r, a)
    PROVE  /\ pc' \in [Requests -> Labels] /\ answer' \in [Requests -> Outcomes \cup Requests]
           /\ pc' = [pc EXCEPT ![r] = "done"] /\ answer' = [answer EXCEPT ![r] = a]
BY DEF TypeOK, Answer, Labels

\* Every step of a handler runs one statement, or fails at one, or touches no
\* table; the response is stored from "store" only.
Effect(r) ==
    \/ \E s \in Statements : Run(s, r) /\ UNCHANGED late /\ (s = "store" => pc[r] = "store")
    \/ \E s \in Statements : Fail(s, r) /\ (s = "store" => pc[r] = "store")
    \/ UNCHANGED <<idem, rows, late>>

\* Then it goes on to another label, to "store" only with its row, or answers:
\* with its own row from "store", or with the response it found.
Move(r) ==
    \/ \E l \in Labels : Goto(r, l) /\ (l = "store" => r \in rows')
    \/ \E a \in Outcomes \cup Requests :
          Answer(r, a) /\ (a \in Requests => a = idem[KeyOf[r]] \/ (a = r /\ pc[r] = "store"))

LEMMA HandlerShape ==
    ASSUME TypeOK, NEW r \in Requests, Handler(r)
    PROVE  Effect(r) /\ Move(r)
<1> USE DEF Labels, Statements, Outcomes
<1>0. Requests \cap Outcomes = {}
  BY PostAssumption DEF Outcomes
<1>1. CASE Arrive(r)
  BY <1>0, <1>1 DEF Arrive, Effect, Move
<1>2. CASE Claim(r)
  BY <1>0, <1>2 DEF Claim, Effect, Move
<1>3. CASE Fetch(r)
  BY <1>0, <1>3 DEF Fetch, Effect, Move
<1>4. CASE Parse(r)
  BY <1>0, <1>4 DEF Parse, Effect, Move
<1>5. CASE Insert(r)
  <2>0. Run("insert", r) => r \in rows'
    BY DEF Run
  <2>1. CASE InsertDirect(r)
    BY <1>0, <2>0, <2>1 DEF InsertDirect, Effect, Move
  <2>2. CASE InsertTransactional(r)
    BY <1>0, <2>0, <2>2 DEF InsertTransactional, Effect, Move
  <2>3. CASE InsertBatched(r)
    BY <1>0, <2>0, <2>3 DEF InsertBatched, Effect, Move
  <2> QED BY <1>5, <2>1, <2>2, <2>3 DEF Insert
<1>6. CASE Clear(r)
  BY <1>0, <1>6 DEF Clear, Effect, Move
<1>7. CASE Store(r)
  BY <1>0, <1>7 DEF Store, Effect, Move
<1> QED BY <1>1, <1>2, <1>3, <1>4, <1>5, <1>6, <1>7 DEF Handler

LEMMA TypeStep == TypeOK /\ [Next]_vars => TypeOK'
<1> SUFFICES ASSUME TypeOK, [Next]_vars PROVE TypeOK'
  OBVIOUS
<1>0. mode' \in Modes /\ faults' \in Regimes
  BY DEF TypeOK, Next, vars
<1>1. ASSUME NEW r \in Requests, Handler(r) PROVE TypeOK'
  <2>1. Effect(r) /\ Move(r)
    BY <1>1, HandlerShape
  <2>2. pc' \in [Requests -> Labels] /\ answer' \in [Requests -> Outcomes \cup Requests]
    BY <2>1, GotoType, AnswerType DEF Move
  <2>3. /\ idem' \in [Keys -> Stored] /\ rows' \subseteq Requests
        /\ late' \subseteq Statements \X Requests
    <3>1. CASE \E s \in Statements : Run(s, r) /\ UNCHANGED late
      BY <3>1, RunFacts, SMTT(60) DEF TypeOK
    <3>2. CASE \E s \in Statements : Fail(s, r)
      BY <3>2, FailFacts, SMTT(60) DEF TypeOK, Stored
    <3>3. CASE UNCHANGED <<idem, rows, late>>
      BY <3>3 DEF TypeOK, Stored
    <3> QED BY <2>1, <3>1, <3>2, <3>3 DEF Effect
  <2> QED BY <1>0, <2>2, <2>3 DEF TypeOK, Stored, Labels
<1>2. ASSUME NEW x \in late, LateRuns(x) PROVE TypeOK'
  <2>1. x[1] \in Statements /\ x[2] \in Requests
    BY DEF TypeOK
  <2>2. idem' \in [Keys -> Stored] /\ rows' \subseteq Requests
    BY <1>2, <2>1, RunFacts, SMTT(60) DEF TypeOK, LateRuns
  <2> QED BY <1>0, <1>2, <2>2 DEF TypeOK, LateRuns, Stored
<1>3. ASSUME NEW x \in late, LateDies(x) PROVE TypeOK'
  BY <1>0, <1>3 DEF TypeOK, LateDies
<1>4. CASE Crash
  <2>1. late' \subseteq Statements \X Requests
    BY <1>4, SMTT(60) DEF TypeOK, Crash, InProgress
  <2>2. pc' \in [Requests -> Labels]
    BY <1>4 DEF TypeOK, Crash, Labels
  <2> QED BY <1>0, <1>4, <2>1, <2>2 DEF TypeOK, Crash, Labels
<1>5. CASE UNCHANGED vars
  BY <1>5 DEF TypeOK, vars
<1> QED BY <1>1, <1>2, <1>3, <1>4, <1>5 DEF Next

\* The tables, the statements on their way and the handlers keep their types,
\* for any requests, keys, write path and failures.
THEOREM TypeCorrect == Spec => []TypeOK
BY TypeInit, TypeStep, PTL DEF Spec

-----------------------------------------------------------------------------
(* A response speaks of a row of its key *)

\* A request that is to store its response, now or late, has its row.
StoreHasRow ==
    \A r \in Requests : pc[r] = "store" \/ <<"store", r>> \in late => r \in rows

\* The response stored for a key, and the answer to a request, are those of a
\* request with the same key.
SameKey ==
    /\ \A k \in Keys : idem[k] \in Requests => KeyOf[idem[k]] = k
    /\ \A r \in Requests : answer[r] \in Requests => KeyOf[answer[r]] = KeyOf[r]

ResponseInv == AnsweredHasRow /\ StoreHasRow /\ SameKey

LEMMA ResponseInit == Init => ResponseInv
BY PostAssumption DEF Init, ResponseInv, AnsweredHasRow, StoreHasRow, SameKey, Outcomes

\* The part of a step that touches the tables.
LEMMA TablesStep ==
    ASSUME TypeOK, ResponseInv, NEW s \in Statements, NEW r \in Requests,
           Run(s, r), s = "store" => r \in rows
    PROVE  /\ rows \subseteq rows'
           /\ \A k \in Keys : idem'[k] \in Requests => idem'[k] \in rows' /\ KeyOf[idem'[k]] = k
<1>1. rows \subseteq rows'
  BY RunFacts
<1>2. Absent \notin Requests /\ Claimed \notin Requests /\ KeyOf[r] \in Keys
  BY PostAssumption
<1>3. ASSUME NEW k \in Keys, idem'[k] \in Requests
      PROVE  idem'[k] = idem[k] \/ (k = KeyOf[r] /\ idem'[k] = r /\ r \in rows)
  BY <1>2, <1>3, RunFacts, SMTT(60)
<1> QED BY <1>1, <1>3 DEF ResponseInv, AnsweredHasRow, SameKey

LEMMA ResponseStep == TypeOK /\ ResponseInv /\ [Next]_vars => ResponseInv'
<1> SUFFICES ASSUME TypeOK, ResponseInv, [Next]_vars PROVE ResponseInv'
  OBVIOUS
<1>1. ASSUME NEW r \in Requests, Handler(r) PROVE ResponseInv'
  <2>1. Effect(r) /\ Move(r)
    BY <1>1, HandlerShape
  <2>2. /\ rows \subseteq rows'
        /\ \A k \in Keys : idem'[k] \in Requests => idem'[k] \in rows' /\ KeyOf[idem'[k]] = k
        /\ \A q \in Requests : <<"store", q>> \in late' => q \in rows'
    <3>1. CASE \E s \in Statements : Run(s, r) /\ UNCHANGED late /\ (s = "store" => pc[r] = "store")
      <4>1. PICK s \in Statements : Run(s, r) /\ UNCHANGED late /\ (s = "store" => pc[r] = "store")
        BY <3>1
      <4>2. s = "store" => r \in rows
        BY <4>1 DEF ResponseInv, StoreHasRow
      <4> QED BY <4>1, <4>2, TablesStep DEF ResponseInv, StoreHasRow
    <3>2. CASE \E s \in Statements : Fail(s, r) /\ (s = "store" => pc[r] = "store")
      <4>1. PICK s \in Statements : Fail(s, r) /\ (s = "store" => pc[r] = "store")
        BY <3>2
      <4>2. idem' = idem /\ rows' = rows /\ (late' = late \/ late' = late \cup {<<s, r>>})
        BY <4>1, FailFacts
      <4>3. \A q \in Requests : <<"store", q>> \in late' => <<"store", q>> \in late \/ pc[q] = "store"
        BY <4>1, <4>2, SMTT(60)
      <4> QED BY <4>2, <4>3 DEF ResponseInv, StoreHasRow, AnsweredHasRow, SameKey
    <3>3. CASE UNCHANGED <<idem, rows, late>>
      BY <3>3 DEF ResponseInv, StoreHasRow, AnsweredHasRow, SameKey
    <3> QED BY <2>1, <3>1, <3>2, <3>3 DEF Effect
  <2>3. \A q \in Requests : pc'[q] = "store" => q \in rows'
    <3>1. \A q \in Requests : pc[q] = "store" => q \in rows
      BY DEF ResponseInv, StoreHasRow
    <3> QED BY <2>1, <2>2, <3>1, GotoType, AnswerType, SMTT(60) DEF Move, TypeOK
  <2>4. \A q \in Requests : answer'[q] \in Requests => answer'[q] \in rows' /\ KeyOf[answer'[q]] = KeyOf[q]
    <3>1. \A q \in Requests : answer[q] \in Requests => answer[q] \in rows /\ KeyOf[answer[q]] = KeyOf[q]
      BY DEF ResponseInv, AnsweredHasRow, SameKey
    <3>2. CASE answer' = answer
      BY <2>2, <3>1, <3>2
    <3>3. ASSUME NEW a \in Outcomes \cup Requests, Answer(r, a),
                 a \in Requests => a = idem[KeyOf[r]] \/ (a = r /\ pc[r] = "store")
          PROVE  \A q \in Requests : answer'[q] \in Requests =>
                     answer'[q] \in rows' /\ KeyOf[answer'[q]] = KeyOf[q]
      <4>1. answer' = [answer EXCEPT ![r] = a] /\ answer \in [Requests -> Outcomes \cup Requests]
        BY <3>3 DEF Answer, TypeOK
      <4>2. a \in Requests => a \in rows /\ KeyOf[a] = KeyOf[r]
        <5>1. KeyOf[r] \in Keys
          BY PostAssumption
        <5>2. idem[KeyOf[r]] \in Requests =>
                  idem[KeyOf[r]] \in rows /\ KeyOf[idem[KeyOf[r]]] = KeyOf[r]
          BY <5>1 DEF ResponseInv, AnsweredHasRow, SameKey
        <5>3. pc[r] = "store" => r \in rows
          BY DEF ResponseInv, StoreHasRow
        <5> QED BY <3>3, <5>2, <5>3
      <4> QED BY <2>2, <3>1, <4>1, <4>2
    <3> QED BY <2>1, <3>2, <3>3 DEF Move, Goto
  <2> QED BY <2>2, <2>3, <2>4 DEF ResponseInv, AnsweredHasRow, StoreHasRow, SameKey
<1>2. ASSUME NEW x \in late, LateRuns(x) PROVE ResponseInv'
  <2>1. x[1] \in Statements /\ x[2] \in Requests /\ x = <<x[1], x[2]>>
    BY SMTT(60) DEF TypeOK
  <2>2. x[1] = "store" => x[2] \in rows
    BY <2>1 DEF ResponseInv, StoreHasRow
  <2>3. /\ rows \subseteq rows'
        /\ \A k \in Keys : idem'[k] \in Requests => idem'[k] \in rows' /\ KeyOf[idem'[k]] = k
    BY <1>2, <2>1, <2>2, TablesStep DEF LateRuns
  <2>4. late' \subseteq late /\ pc' = pc /\ answer' = answer
    BY <1>2 DEF LateRuns
  <2> QED BY <2>3, <2>4 DEF ResponseInv, AnsweredHasRow, StoreHasRow, SameKey
<1>3. ASSUME NEW x \in late, LateDies(x) PROVE ResponseInv'
  BY <1>3 DEF LateDies, ResponseInv, AnsweredHasRow, StoreHasRow, SameKey
<1>4. CASE Crash
  <2>1. \A q \in Requests : pc'[q] = "store" => pc[q] = "store"
    BY <1>4 DEF Crash, TypeOK
  <2>2. \A q \in Requests : <<"store", q>> \in late' => <<"store", q>> \in late \/ pc[q] = "store"
    BY <1>4 DEF Crash
  <2>3. UNCHANGED <<idem, rows, answer>>
    BY <1>4 DEF Crash
  <2> QED BY <2>1, <2>2, <2>3 DEF ResponseInv, AnsweredHasRow, StoreHasRow, SameKey
<1>5. CASE UNCHANGED vars
  BY <1>5 DEF vars, ResponseInv, AnsweredHasRow, StoreHasRow, SameKey
<1> QED BY <1>1, <1>2, <1>3, <1>4, <1>5 DEF Next

\* A 201, given or replayed, and a stored response speak of a row that exists,
\* on every write path and under every failure (idem_store, replay).
THEOREM AnswersHaveRows == Spec => []AnsweredHasRow
<1>1. ResponseInv => AnsweredHasRow
  BY DEF ResponseInv
<1> QED BY <1>1, TypeInit, TypeStep, ResponseInit, ResponseStep, PTL DEF Spec

-----------------------------------------------------------------------------
(* One row per key *)

\* The INSERT of r, or the COMMIT of its transaction, may still happen.
Inserting(r) == <<"insert", r>> \in late \/ <<"commit", r>> \in late
Clearing(r) == <<"clear", r>> \in late

\* r has come through the claim and has not given it back.
Holds(r) ==
    \/ pc[r] \in {"parse", "insert", "clear", "store"}
    \/ Inserting(r) \/ Clearing(r) \/ r \in rows

OneHolder == \A q, r \in Requests : KeyOf[q] = KeyOf[r] /\ Holds(q) /\ Holds(r) => q = r
HeldIsClaimed == \A r \in Requests : Holds(r) => idem[KeyOf[r]] # Absent

\* A request with a row clears nothing, one whose INSERT may still happen is
\* over, and one whose DELETE may still happen is over and inserts nothing.
InPhase(r) ==
    /\ r \in rows => pc[r] \in {"store", "done", "gone"} /\ ~Inserting(r) /\ ~Clearing(r)
    /\ Inserting(r) => pc[r] \in {"done", "gone"} /\ ~Clearing(r)
    /\ Clearing(r) => pc[r] \in {"done", "gone"}
    /\ ~(<<"insert", r>> \in late /\ <<"commit", r>> \in late)

HolderInv == OneHolder /\ HeldIsClaimed /\ \A r \in Requests : InPhase(r)

\* A step of r leaves the others alone: it is enough to see that r comes to
\* hold its key only when nobody does, and frees it only with its own hold.
LEMMA HolderFrame ==
    ASSUME TypeOK, HolderInv, NEW r \in Requests,
           \A q \in Requests \ {r} : pc'[q] = pc[q] /\ (q \in rows' <=> q \in rows),
           \A q \in Requests \ {r}, s \in Statements : <<s, q>> \in late' <=> <<s, q>> \in late,
           \A k \in Keys : k # KeyOf[r] => idem'[k] = idem[k],
           Holds(r)' => Holds(r) \/ idem[KeyOf[r]] = Absent,
           idem'[KeyOf[r]] = Absent => ~Holds(r)' /\ (Holds(r) \/ idem[KeyOf[r]] = Absent),
           InPhase(r)'
    PROVE  HolderInv'
<1>0. /\ \A q \in Requests : KeyOf[q] \in Keys
      /\ "insert" \in Statements /\ "commit" \in Statements /\ "clear" \in Statements
  BY PostAssumption DEF Statements
<1>1. \A q \in Requests \ {r} : /\ Inserting(q)' <=> Inserting(q)
                                /\ Clearing(q)' <=> Clearing(q)
  BY <1>0 DEF Inserting, Clearing
<1>2. \A q \in Requests \ {r} : Holds(q)' <=> Holds(q)
  BY <1>1 DEF Holds
<1>3. \A q \in Requests \ {r} : InPhase(q)'
  BY <1>0, <1>1 DEF HolderInv, InPhase
<1>4. \A q \in Requests \ {r} : KeyOf[q] = KeyOf[r] /\ Holds(q) => ~Holds(r) /\ idem[KeyOf[r]] # Absent
  BY DEF HolderInv, OneHolder, HeldIsClaimed
<1>5. OneHolder'
  BY <1>2, <1>4 DEF HolderInv, OneHolder
<1>6. HeldIsClaimed'
  BY <1>0, <1>2, <1>4 DEF HolderInv, HeldIsClaimed
<1> QED BY <1>3, <1>5, <1>6 DEF HolderInv

LEMMA HolderInit == Init => HolderInv
BY DEF Init, HolderInv, OneHolder, HeldIsClaimed, InPhase, Holds, Inserting, Clearing

\* What a handler leaves alone.
LEMMA HandlerFrame ==
    ASSUME TypeOK, NEW r \in Requests, Handler(r)
    PROVE  /\ \A q \in Requests \ {r} : pc'[q] = pc[q] /\ (q \in rows' <=> q \in rows)
           /\ \A q \in Requests \ {r}, s \in Statements : <<s, q>> \in late' <=> <<s, q>> \in late
           /\ \A k \in Keys : k # KeyOf[r] => idem'[k] = idem[k]
<1>1. Effect(r) /\ Move(r)
  BY HandlerShape
<1>2. \A q \in Requests \ {r} : pc'[q] = pc[q]
  BY <1>1, GotoType, AnswerType, SMTT(60) DEF Move, TypeOK
<1>3. CASE \E s \in Statements : Run(s, r) /\ UNCHANGED late
  BY <1>2, <1>3, RunFacts, SMTT(60)
<1>4. CASE \E s \in Statements : Fail(s, r)
  BY <1>2, <1>4, FailFacts, SMTT(60)
<1>5. CASE UNCHANGED <<idem, rows, late>>
  BY <1>2, <1>5
<1> QED BY <1>1, <1>3, <1>4, <1>5 DEF Effect

LEMMA HandlerHolder ==
    ASSUME TypeOK, HolderInv, InsertIsKnown, NEW r \in Requests, Handler(r)
    PROVE  HolderInv'
<1> DEFINE k == KeyOf[r]
<1>0. /\ k \in Keys /\ InPhase(r) /\ (Holds(r) => idem[k] # Absent)
      /\ pc \in [Requests -> Labels]
  BY PostAssumption DEF HolderInv, HeldIsClaimed, TypeOK, Labels
<1> SUFFICES /\ Holds(r)' => Holds(r) \/ idem[k] = Absent
             /\ idem'[k] = Absent => ~Holds(r)' /\ (Holds(r) \/ idem[k] = Absent)
             /\ InPhase(r)'
  BY HandlerFrame, HolderFrame
<1> USE DEF Statements, Labels
<1>1. CASE Arrive(r) \/ Fetch(r)
  <2>1. /\ pc[r] \in {"no", "fetch"} /\ pc'[r] \in {"claim", "done"} /\ idem' = idem /\ rows' = rows
        /\ late' = late \/ late' = late \cup {<<"fetch", r>>}
    BY <1>0, <1>1, FailFacts DEF Arrive, Fetch, Goto, Answer
  <2>2. Inserting(r)' = Inserting(r) /\ Clearing(r)' = Clearing(r)
    BY <2>1, SMTT(60) DEF Inserting, Clearing
  <2>3. <<"insert", r>> \in late' <=> <<"insert", r>> \in late
    BY <2>1
  <2>4. <<"commit", r>> \in late' <=> <<"commit", r>> \in late
    BY <2>1
  <2> QED BY <1>0, <2>1, <2>2, <2>3, <2>4 DEF Holds, InPhase
<1>2. CASE Claim(r)
  <2>1. ~Holds(r) /\ ~Inserting(r) /\ ~Clearing(r) /\ r \notin rows /\ pc[r] = "claim"
    BY <1>0, <1>2 DEF Claim, Holds, InPhase
  <2>2. rows' = rows /\ (late' = late \/ late' = late \cup {<<"claim", r>>})
    BY <1>2, RunFacts, FailFacts DEF Claim
  <2>3. ~Inserting(r)' /\ ~Clearing(r)' /\ r \notin rows'
    BY <2>1, <2>2 DEF Inserting, Clearing
  <2>4. InPhase(r)'
    BY <2>3 DEF InPhase, Inserting
  <2>5. CASE Run("claim", r) /\ Goto(r, IF idem[k] = Absent THEN "parse" ELSE "fetch")
    <3>1. pc'[r] = IF idem[k] = Absent THEN "parse" ELSE "fetch"
      BY <1>0, <2>5 DEF Goto
    <3>2. idem'[k] # Absent
      BY <2>5, RunFacts
    <3> QED BY <2>3, <2>4, <3>1, <3>2 DEF Holds
  <2>6. CASE Fail("claim", r) /\ Answer(r, "error")
    <3>1. pc'[r] = "done" /\ idem' = idem
      BY <1>0, <2>6, FailFacts DEF Answer
    <3> QED BY <2>3, <2>4, <3>1 DEF Holds
  <2> QED BY <1>2, <2>5, <2>6 DEF Claim
<1>3. CASE Parse(r)
  <2>1. /\ pc[r] = "parse" /\ pc'[r] \in {"done", "insert"}
        /\ idem' = idem /\ rows' = rows /\ late' = late
    BY <1>0, <1>3 DEF Parse, Goto, Answer
  <2>2. Holds(r) /\ r \notin rows /\ ~Inserting(r) /\ ~Clearing(r)
    BY <1>0, <2>1 DEF Holds, InPhase
  <2> QED BY <1>0, <2>1, <2>2 DEF InPhase, Inserting, Clearing
<1>4. CASE Insert(r)
  <2>1. Holds(r) /\ r \notin rows /\ ~Inserting(r) /\ ~Clearing(r) /\ idem[k] # Absent
    BY <1>0, <1>4 DEF Insert, Holds, InPhase
  <2>2. CASE Run("insert", r) /\ UNCHANGED late /\ Goto(r, "store")
    <3>1. pc'[r] = "store" /\ late' = late /\ idem'[k] # Absent
      BY <1>0, <2>1, <2>2, RunFacts DEF Goto
    <3> QED BY <2>1, <3>1 DEF InPhase, Inserting, Clearing
  <2>3. CASE UNCHANGED <<idem, rows, late>> /\ (Goto(r, "clear") \/ Answer(r, "error"))
    <3>1. pc'[r] \in {"clear", "done"}
      BY <1>0, <2>3 DEF Goto, Answer
    <3> QED BY <2>1, <2>3, <3>1 DEF InPhase, Inserting, Clearing
  <2>4. CASE Fail("commit", r) /\ Answer(r, "error")
    <3>1. /\ pc'[r] = "done" /\ idem' = idem /\ rows' = rows
          /\ late' = late \/ late' = late \cup {<<"commit", r>>}
      BY <1>0, <2>4, FailFacts DEF Answer
    <3>2. <<"insert", r>> \notin late' /\ ~Clearing(r)' /\ r \notin rows'
      BY <2>1, <3>1 DEF Inserting, Clearing
    <3> QED BY <2>1, <3>1, <3>2 DEF InPhase
  <2>5. CASE mode = "direct" /\ Fail("insert", r) /\ Goto(r, "clear")
    <3>1. UNCHANGED <<idem, rows, late>>
      BY <1>0, <2>5, FailFacts DEF InsertIsKnown, TypeOK
    <3> QED BY <2>3, <2>5, <3>1
  <2> QED BY <1>4, <2>2, <2>3, <2>4, <2>5
          DEF Insert, InsertDirect, InsertTransactional, InsertBatched
<1>5. CASE Clear(r)
  <2>1. Holds(r) /\ r \notin rows /\ ~Inserting(r) /\ ~Clearing(r) /\ idem[k] # Absent
    BY <1>0, <1>5 DEF Clear, Holds, InPhase
  <2>2. pc'[r] = "done"
    BY <1>0, <1>5 DEF Clear, Answer
  <2>3. CASE Run("clear", r) /\ UNCHANGED late
    <3>1. r \notin rows' /\ late' = late
      BY <2>1, <2>3, RunFacts
    <3> QED BY <2>1, <2>2, <3>1 DEF Holds, InPhase, Inserting, Clearing
  <2>4. CASE Fail("clear", r)
    <3>1. /\ idem' = idem /\ rows' = rows
          /\ late' = late \/ late' = late \cup {<<"clear", r>>}
      BY <2>4, FailFacts
    <3>2. <<"insert", r>> \notin late' /\ <<"commit", r>> \notin late'
      BY <2>1, <3>1 DEF Inserting
    <3> QED BY <2>1, <2>2, <3>1, <3>2 DEF InPhase, Inserting
  <2> QED BY <1>5, <2>3, <2>4 DEF Clear
<1>6. CASE Store(r)
  <2>1. Holds(r) /\ ~Inserting(r) /\ ~Clearing(r) /\ idem[k] # Absent
    BY <1>0, <1>6 DEF Store, Holds, InPhase
  <2>2. pc'[r] = "done"
    BY <1>0, <1>6 DEF Store, Answer
  <2>3. idem'[k] # Absent /\ (late' = late \/ late' = late \cup {<<"store", r>>})
    BY <1>6, <2>1, RunFacts, FailFacts DEF Store
  <2>4. <<"insert", r>> \notin late' /\ <<"commit", r>> \notin late' /\ <<"clear", r>> \notin late'
    BY <2>1, <2>3 DEF Inserting, Clearing
  <2> QED BY <2>1, <2>2, <2>3, <2>4 DEF InPhase, Inserting, Clearing
<1> QED BY <1>1, <1>2, <1>3, <1>4, <1>5, <1>6 DEF Handler

LEMMA HolderStep == InsertIsKnown /\ TypeOK /\ HolderInv /\ [Next]_vars => HolderInv'
<1> SUFFICES ASSUME InsertIsKnown, TypeOK, HolderInv, [Next]_vars PROVE HolderInv'
  OBVIOUS
<1> USE DEF Statements
<1>1. ASSUME NEW r \in Requests, Handler(r) PROVE HolderInv'
  BY <1>1, HandlerHolder
<1>2. ASSUME NEW x \in late, LateRuns(x) \/ LateDies(x) PROVE HolderInv'
  <2>0. PICK s \in Statements, r \in Requests : x = <<s, r>>
    BY SMTT(60) DEF TypeOK
  <2>1. /\ late' = late \ {<<s, r>>} /\ pc' = pc
        /\ Run(s, r) \/ UNCHANGED <<idem, rows>>
    BY <1>2, <2>0 DEF LateRuns, LateDies
  <2>2. /\ \A k \in Keys : k # KeyOf[r] => idem'[k] = idem[k]
        /\ rows' = rows \/ (s \in {"insert", "commit"} /\ rows' = rows \cup {r})
        /\ s # "clear" /\ idem[KeyOf[r]] # Absent => idem'[KeyOf[r]] # Absent
    BY <2>1, RunFacts, SMTT(60)
  <2>3. /\ \A q \in Requests \ {r} : pc'[q] = pc[q] /\ (q \in rows' <=> q \in rows)
        /\ \A q \in Requests \ {r}, t \in Statements : <<t, q>> \in late' <=> <<t, q>> \in late
    BY <2>1, <2>2
  <2>4. /\ InPhase(r) /\ (Holds(r) => idem[KeyOf[r]] # Absent) /\ <<s, r>> \in late
    BY <2>0 DEF HolderInv, HeldIsClaimed
  <2>5. InPhase(r)'
    BY <2>1, <2>2, <2>4 DEF InPhase, Inserting, Clearing
  <2>6. Holds(r)' => Holds(r)
    BY <2>1, <2>2, <2>4 DEF Holds, Inserting, Clearing
  <2>7. idem'[KeyOf[r]] = Absent => ~Holds(r)' /\ (Holds(r) \/ idem[KeyOf[r]] = Absent)
    <3>1. CASE s = "clear"
      <4>1. r \notin rows /\ ~Inserting(r) /\ pc[r] \in {"done", "gone"} /\ Holds(r)
        BY <2>4, <3>1 DEF InPhase, Clearing, Holds
      <4> QED BY <2>1, <2>2, <3>1, <4>1 DEF Holds, Inserting, Clearing
    <3>2. CASE s # "clear"
      BY <2>2, <2>4, <2>6, <3>2
    <3> QED BY <3>1, <3>2
  <2> QED BY <2>2, <2>3, <2>5, <2>6, <2>7, HolderFrame
<1>3. CASE Crash
  <2>1. /\ UNCHANGED <<idem, rows>>
        /\ \A q \in Requests : pc'[q] = IF q \in InProgress THEN "gone" ELSE pc[q]
    BY <1>3 DEF Crash
  <2>2. \A q \in Requests, t \in Statements :
            <<t, q>> \in late' => <<t, q>> \in late \/ (q \in InProgress /\ pc[q] = t)
    BY <1>3 DEF Crash
  <2>3. \A q \in Requests : pc[q] \in {"insert", "commit", "clear"} => ~Inserting(q) /\ ~Clearing(q) /\ q \notin rows
    BY DEF HolderInv, InPhase
  <2>4. \A q \in Requests : InPhase(q)'
    <3> SUFFICES ASSUME NEW q \in Requests PROVE InPhase(q)'
      OBVIOUS
    <3>1. InPhase(q)
      BY DEF HolderInv
    <3>2. CASE q \in InProgress
      <4>1. pc'[q] = "gone"
        BY <2>1, <3>2
      <4>2. ~Inserting(q) /\ ~Clearing(q)
        BY <3>1, <3>2 DEF InPhase, InProgress
      <4> QED BY <2>1, <2>2, <2>3, <4>1, <4>2 DEF InPhase, Inserting, Clearing
    <3>3. CASE q \notin InProgress
      <4>1. pc'[q] = pc[q]
        BY <2>1, <3>3
      <4>2. \A t \in Statements : <<t, q>> \in late' => <<t, q>> \in late
        BY <2>2, <3>3
      <4> QED BY <2>1, <3>1, <4>1, <4>2 DEF InPhase, Inserting, Clearing
    <3> QED BY <3>2, <3>3
  <2>5. \A q \in Requests : pc[q] # "commit"
    BY DEF TypeOK
  <2>6. \A q \in Requests : Holds(q)' => Holds(q)
    BY <2>1, <2>2, <2>5 DEF Holds, Inserting, Clearing, InProgress
  <2> QED BY <2>1, <2>4, <2>6 DEF HolderInv, OneHolder, HeldIsClaimed
<1>4. CASE UNCHANGED vars
  BY <1>4, SMTT(60) DEF vars, HolderInv, OneHolder, HeldIsClaimed, InPhase, Holds, Inserting, Clearing
<1> QED BY <1>1, <1>2, <1>3, <1>4 DEF Next

\* The write path and what may go wrong stay the same.
LEMMA EnvKept == [Next]_vars => mode' = mode /\ faults' = faults
BY DEF Next, vars

\* Requests with one key insert one row at most, however they interleave, fail,
\* run late and are retried, and wherever the process is killed: always on the
\* transactional and the batched path, and on the direct path when the outcome
\* of the INSERT is known (the claim, the clearing of it, the write paths).
THEOREM OneRow == Spec => []FaultsOneRowPerKey
<1> DEFINE Inv == InsertIsKnown => HolderInv
<1>1. TypeOK /\ Inv => FaultsOneRowPerKey
  BY DEF HolderInv, OneHolder, FaultsOneRowPerKey, OneRowPerKey, Holds, TypeOK
<1>2. TypeOK /\ Inv /\ [Next]_vars => Inv'
  <2>1. [Next]_vars => (InsertIsKnown' <=> InsertIsKnown)
    BY EnvKept DEF InsertIsKnown
  <2> QED BY <2>1, HolderStep
<1> QED BY <1>1, <1>2, TypeInit, TypeStep, HolderInit, PTL DEF Spec

-----------------------------------------------------------------------------
(* Claims are resolved *)

\* What a request with the claim may be doing.
Claiming == {"parse", "insert", "clear", "store"}

\* A claim has a request that works on it, and nothing that may run late
\* touches the idempotency table.
ClaimInv ==
    /\ \A x \in late : x[1] \in {"fetch", "insert"}
    /\ \A k \in Keys : idem[k] = Claimed => \E r \in Requests : KeyOf[r] = k /\ pc[r] \in Claiming

LEMMA ClaimHandler ==
    ASSUME TypeOK, Cleaned, ClaimInv, NEW r \in Requests, Handler(r)
    PROVE  ClaimInv'
<1> USE DEF Statements, Labels
<1>0. KeyOf[r] \in Keys /\ pc \in [Requests -> Labels] /\ Claimed \notin Requests /\ Absent # Claimed
  BY PostAssumption DEF TypeOK
<1>1. \A t \in Statements : t \in faults.break => t \in {"fetch", "insert"}
  BY DEF Cleaned
<1>2. /\ \A q \in Requests \ {r} : pc'[q] = pc[q]
      /\ \A k \in Keys : k # KeyOf[r] => idem'[k] = idem[k]
  BY HandlerFrame
<1>3. \A x \in late' : x[1] \in {"fetch", "insert"}
  <2>1. Effect(r)
    BY HandlerShape
  <2>2. CASE \E t \in Statements : Fail(t, r)
    <3>1. PICK t \in Statements : Fail(t, r)
      BY <2>2
    <3>2. late' = late \/ (t \in faults.break /\ late' = late \cup {<<t, r>>})
      BY <3>1, FailFacts
    <3> QED BY <1>1, <3>2, SMTT(60) DEF ClaimInv
  <2> QED BY <2>1, <2>2 DEF Effect, ClaimInv
<1>4. pc'[r] \in Claiming \/ idem'[KeyOf[r]] # Claimed \/ (idem' = idem /\ pc[r] \notin Claiming)
  <2>1. CASE Arrive(r) \/ Fetch(r)
    BY <1>0, <2>1, FailFacts DEF Arrive, Fetch, Claiming
  <2>2. CASE Claim(r)
    <3>1. CASE Run("claim", r) /\ Goto(r, IF idem[KeyOf[r]] = Absent THEN "parse" ELSE "fetch")
      <4>1. pc'[r] = IF idem[KeyOf[r]] = Absent THEN "parse" ELSE "fetch"
        BY <1>0, <3>1 DEF Goto
      <4>2. CASE idem[KeyOf[r]] = Absent
        BY <4>1, <4>2 DEF Claiming
      <4>3. CASE idem[KeyOf[r]] # Absent
        <5>1. idem' = [idem EXCEPT ![KeyOf[r]] = IF @ = Absent THEN Claimed ELSE @]
          BY <3>1 DEF Run, ClaimRow
        <5>2. idem' = idem
          BY <1>0, <4>3, <5>1 DEF TypeOK
        <5> QED BY <2>2, <5>2 DEF Claim, Claiming
      <4> QED BY <4>2, <4>3
    <3>2. CASE Fail("claim", r)
      BY <2>2, <3>2, FailFacts DEF Claim, Claiming
    <3> QED BY <2>2, <3>1, <3>2 DEF Claim
  <2>3. CASE Parse(r)
    <3>1. Goto(r, "insert")
      BY <2>3 DEF Parse, Cleaned
    <3> QED BY <1>0, <3>1 DEF Goto, Claiming
  <2>4. CASE Insert(r)
    <3>1. /\ "commit" \notin faults.refuse \cup faults.break
          /\ "begin" \notin faults.refuse \cup faults.break
      BY DEF Cleaned
    <3>2. ~Fail("commit", r)
      BY <3>1 DEF Fail
    <3>3. Goto(r, "store") \/ Goto(r, "clear")
      BY <2>4, <3>1, <3>2 DEF Insert, InsertDirect, InsertTransactional, InsertBatched
    <3> QED BY <1>0, <3>3 DEF Goto, Claiming
  <2>5. CASE Clear(r)
    <3>1. "clear" \notin faults.refuse \cup faults.break
      BY DEF Cleaned
    <3>2. Run("clear", r)
      BY <2>5, <3>1 DEF Clear, Fail
    <3>3. idem' = [idem EXCEPT ![KeyOf[r]] = Absent]
      BY <3>2 DEF Run
    <3> QED BY <1>0, <3>3 DEF TypeOK
  <2>6. CASE Store(r)
    <3>1. "store" \notin faults.refuse \cup faults.break
      BY DEF Cleaned
    <3>2. Run("store", r)
      BY <2>6, <3>1 DEF Store, Fail
    <3>3. idem' = [idem EXCEPT ![KeyOf[r]] = IF @ = Absent THEN Absent ELSE r]
      BY <3>2 DEF Run, StoreRow
    <3> QED BY <1>0, <3>3 DEF TypeOK
  <2> QED BY <2>1, <2>2, <2>3, <2>4, <2>5, <2>6 DEF Handler
<1>5. ASSUME NEW k \in Keys, idem'[k] = Claimed
      PROVE  \E q \in Requests : KeyOf[q] = k /\ pc'[q] \in Claiming
  <2>1. CASE k = KeyOf[r] /\ pc'[r] \in Claiming
    BY <2>1
  <2>2. CASE ~(k = KeyOf[r] /\ pc'[r] \in Claiming)
    <3>1. idem[k] = Claimed /\ (k = KeyOf[r] => pc[r] \notin Claiming)
      BY <1>2, <1>4, <1>5, <2>2
    <3>2. PICK q \in Requests : KeyOf[q] = k /\ pc[q] \in Claiming
      BY <3>1 DEF ClaimInv
    <3>3. q # r
      BY <3>1, <3>2
    <3> QED BY <1>2, <3>2, <3>3
  <2> QED BY <2>1, <2>2
<1> QED BY <1>3, <1>5 DEF ClaimInv

LEMMA ClaimStep == Cleaned /\ TypeOK /\ ClaimInv /\ [Next]_vars => ClaimInv'
<1> SUFFICES ASSUME Cleaned, TypeOK, ClaimInv, [Next]_vars PROVE ClaimInv'
  OBVIOUS
<1>1. ASSUME NEW r \in Requests, Handler(r) PROVE ClaimInv'
  BY <1>1, ClaimHandler
<1>2. ASSUME NEW x \in late, LateRuns(x) \/ LateDies(x) PROVE ClaimInv'
  <2>1. x[1] \in {"fetch", "insert"} /\ late' \subseteq late /\ pc' = pc
    BY <1>2 DEF ClaimInv, LateRuns, LateDies
  <2>2. idem' = idem
    BY <1>2, <2>1 DEF LateRuns, LateDies, Run
  <2> QED BY <2>1, <2>2 DEF ClaimInv
<1>3. ~Crash
  BY DEF Crash, Cleaned
<1>4. CASE UNCHANGED vars
  BY <1>4 DEF vars, ClaimInv
<1> QED BY <1>1, <1>2, <1>3, <1>4 DEF Next

\* For any requests and keys, and on every write path: when only those statements
\* fail whose failure the handler cleans up after, a claim without a response has
\* a request that still works on it (the returns behind the claim, idem_clear).
THEOREM ClaimsAreResolved == Spec => []SoundClaimResolved
<1> DEFINE Inv == Cleaned => ClaimInv
<1>1. Init => Inv
  BY PostAssumption DEF Init, ClaimInv
<1>2. TypeOK /\ Inv /\ [Next]_vars => Inv'
  <2>1. [Next]_vars => (Cleaned' <=> Cleaned)
    BY EnvKept DEF Cleaned
  <2> QED BY <2>1, ClaimStep
<1>3. Inv => SoundClaimResolved
  BY DEF ClaimInv, Claiming, SoundClaimResolved, ClaimResolved, InProgress
<1> QED BY <1>1, <1>2, <1>3, TypeInit, TypeStep, PTL DEF Spec

-----------------------------------------------------------------------------
(* One answer per key, whatever fails *)

\* The response of r is stored, or given, or may still be stored.
Told(r) ==
    idem[KeyOf[r]] = r \/ <<"store", r>> \in late \/ \E q \in Requests : answer[q] = r

\* r may give the claim back, or its response counts.  A row whose INSERT broke
\* is not in this: the key was freed behind it, and nobody is told of it.
Owns(r) == pc[r] \in Claiming \/ Clearing(r) \/ Told(r)

OneOwner == \A q, r \in Requests : KeyOf[q] = KeyOf[r] /\ Owns(q) /\ Owns(r) => q = r
OwnedIsClaimed == \A r \in Requests : Owns(r) => idem[KeyOf[r]] # Absent

\* Nobody is told of a request before it stores, nor of one that clears.
OwnPhase(r) ==
    /\ pc[r] \in {"no", "claim", "fetch", "parse", "insert", "clear"} => ~Told(r)
    /\ Clearing(r) => pc[r] \in {"done", "gone"} /\ ~Told(r)

OwnerInv == OneOwner /\ OwnedIsClaimed /\ \A r \in Requests : OwnPhase(r)

LEMMA OwnerInit == Init => OwnerInv
BY PostAssumption, SMTT(60) DEF Init, OwnerInv, OneOwner, OwnedIsClaimed, OwnPhase, Owns, Told, Clearing, Claiming, Outcomes

\* As with HolderFrame; the others are told of no more than before.
LEMMA OwnerFrame ==
    ASSUME TypeOK, OwnerInv, NEW r \in Requests,
           \A q \in Requests \ {r} : pc'[q] = pc[q] /\ (Told(q)' => Told(q)),
           \A q \in Requests \ {r} : <<"clear", q>> \in late' <=> <<"clear", q>> \in late,
           \A k \in Keys : k # KeyOf[r] => idem'[k] = idem[k],
           Owns(r)' => Owns(r) \/ idem[KeyOf[r]] = Absent,
           idem'[KeyOf[r]] = Absent => ~Owns(r)' /\ (Owns(r) \/ idem[KeyOf[r]] = Absent),
           OwnPhase(r)'
    PROVE  OwnerInv'
<1>0. \A q \in Requests : KeyOf[q] \in Keys
  BY PostAssumption
<1>1. \A q \in Requests \ {r} : Clearing(q)' <=> Clearing(q)
  BY DEF Clearing
<1>2. \A q \in Requests \ {r} : Owns(q)' => Owns(q)
  BY <1>1 DEF Owns
<1>3. \A q \in Requests \ {r} : OwnPhase(q)'
  BY <1>1 DEF OwnerInv, OwnPhase
<1>4. \A q \in Requests \ {r} : KeyOf[q] = KeyOf[r] /\ Owns(q) => ~Owns(r) /\ idem[KeyOf[r]] # Absent
  BY DEF OwnerInv, OneOwner, OwnedIsClaimed
<1>5. OneOwner'
  BY <1>2, <1>4 DEF OwnerInv, OneOwner
<1>6. OwnedIsClaimed'
  BY <1>0, <1>2, <1>4 DEF OwnerInv, OwnedIsClaimed
<1> QED BY <1>3, <1>5, <1>6 DEF OwnerInv

\* A handler tells of another request only what it found, of its own only at
\* the end.
LEMMA HandlerTells ==
    ASSUME TypeOK, SameKey, NEW r \in Requests, Handler(r), NEW q \in Requests, Told(q)'
    PROVE  Told(q) \/ (q = r /\ pc[r] = "store")
<1> USE DEF Statements
<1>0. /\ Effect(r) /\ Move(r) /\ KeyOf[r] \in Keys /\ KeyOf[q] \in Keys
      /\ Absent \notin Requests /\ Claimed \notin Requests
  BY HandlerShape, PostAssumption
<1>1. ASSUME idem'[KeyOf[q]] = q PROVE Told(q) \/ (q = r /\ pc[r] = "store")
  <2>1. CASE \E s \in Statements : Run(s, r) /\ (s = "store" => pc[r] = "store")
    <3>1. PICK s \in Statements : Run(s, r) /\ (s = "store" => pc[r] = "store")
      BY <2>1
    <3>2. idem'[KeyOf[q]] = idem[KeyOf[q]] \/ (s = "store" /\ q = r)
      BY <1>0, <1>1, <3>1, RunFacts, SMTT(60)
    <3> QED BY <1>1, <3>1, <3>2 DEF Told
  <2>2. CASE idem' = idem
    BY <1>1, <2>2 DEF Told
  <2> QED BY <1>0, <2>1, <2>2, FailFacts DEF Effect
<1>2. ASSUME <<"store", q>> \in late' PROVE Told(q) \/ (q = r /\ pc[r] = "store")
  <2>1. CASE \E s \in Statements : Fail(s, r) /\ (s = "store" => pc[r] = "store")
    <3>1. PICK s \in Statements : Fail(s, r) /\ (s = "store" => pc[r] = "store")
      BY <2>1
    <3>2. late' = late \/ late' = late \cup {<<s, r>>}
      BY <3>1, FailFacts
    <3> QED BY <1>2, <3>1, <3>2, SMTT(60) DEF Told
  <2>2. CASE late' = late
    BY <1>2, <2>2 DEF Told
  <2> QED BY <1>0, <2>1, <2>2 DEF Effect
<1>3. ASSUME NEW p \in Requests, answer'[p] = q PROVE Told(q) \/ (q = r /\ pc[r] = "store")
  <2>1. CASE \E l \in Labels : Goto(r, l)
    BY <1>3, <2>1, GotoType DEF Told
  <2>2. CASE \E a \in Outcomes \cup Requests :
               Answer(r, a) /\ (a \in Requests => a = idem[KeyOf[r]] \/ (a = r /\ pc[r] = "store"))
    <3>1. PICK a \in Outcomes \cup Requests :
               Answer(r, a) /\ (a \in Requests => a = idem[KeyOf[r]] \/ (a = r /\ pc[r] = "store"))
      BY <2>2
    <3>2. answer' = [answer EXCEPT ![r] = a]
      BY <3>1, AnswerType
    <3>3. CASE p # r
      BY <1>3, <3>2, <3>3 DEF Told, TypeOK
    <3>4. CASE p = r
      <4>1. a = q
        BY <1>3, <3>2, <3>4 DEF TypeOK
      <4>2. q = idem[KeyOf[r]] \/ (q = r /\ pc[r] = "store")
        BY <3>1, <4>1
      <4> QED BY <1>0, <4>2, SMTT(60) DEF Told, SameKey
    <3> QED BY <3>3, <3>4
  <2> QED BY <1>0, <2>1, <2>2 DEF Move
<1> QED BY <1>1, <1>2, <1>3 DEF Told

LEMMA OwnerHandler ==
    ASSUME TypeOK, SameKey, OwnerInv, NEW r \in Requests, Handler(r)
    PROVE  OwnerInv'
<1> DEFINE k == KeyOf[r]
<1> USE DEF Statements
<1>0. /\ k \in Keys /\ OwnPhase(r) /\ (Owns(r) => idem[k] # Absent) /\ pc \in [Requests -> Labels]
  BY PostAssumption DEF OwnerInv, OwnedIsClaimed, TypeOK, Labels
<1>1. /\ \A q \in Requests \ {r} : pc'[q] = pc[q]
      /\ \A q \in Requests \ {r} : <<"clear", q>> \in late' <=> <<"clear", q>> \in late
      /\ \A l \in Keys : l # k => idem'[l] = idem[l]
  BY HandlerFrame
<1>2. \A q \in Requests \ {r} : Told(q)' => Told(q)
  BY HandlerTells
<1>3. Told(r)' => Told(r) \/ pc[r] = "store"
  BY HandlerTells
<1> SUFFICES /\ Owns(r)' => Owns(r) \/ idem[k] = Absent
             /\ idem'[k] = Absent => ~Owns(r)' /\ (Owns(r) \/ idem[k] = Absent)
             /\ OwnPhase(r)'
  BY <1>1, <1>2, OwnerFrame
<1>4. CASE Arrive(r) \/ Fetch(r)
  <2>1. /\ pc[r] \in {"no", "fetch"} /\ pc'[r] \in {"claim", "done"} /\ idem' = idem
        /\ late' = late \/ late' = late \cup {<<"fetch", r>>}
    BY <1>0, <1>4, FailFacts DEF Arrive, Fetch, Goto, Answer, Labels
  <2>2. Clearing(r)' <=> Clearing(r)
    BY <2>1 DEF Clearing
  <2>3. ~Told(r) /\ ~Clearing(r)
    BY <1>0, <2>1 DEF OwnPhase
  <2>4. ~Told(r)' /\ ~Clearing(r)' /\ ~Owns(r)'
    BY <1>3, <2>1, <2>2, <2>3 DEF Owns, Claiming
  <2> QED BY <2>1, <2>4 DEF OwnPhase
<1>5. CASE Claim(r)
  <2>1. ~Told(r) /\ ~Clearing(r) /\ pc[r] = "claim"
    BY <1>0, <1>5 DEF Claim, OwnPhase
  <2>2. late' = late \/ late' = late \cup {<<"claim", r>>}
    BY <1>5, FailFacts DEF Claim
  <2>3. ~Told(r)' /\ ~Clearing(r)'
    BY <1>3, <2>1, <2>2 DEF Clearing
  <2>4. CASE Run("claim", r) /\ Goto(r, IF idem[k] = Absent THEN "parse" ELSE "fetch")
    <3>1. pc'[r] = IF idem[k] = Absent THEN "parse" ELSE "fetch"
      BY <1>0, <2>4 DEF Goto
    <3>2. idem'[k] # Absent
      BY <2>4, RunFacts
    <3> QED BY <2>3, <3>1, <3>2 DEF Owns, OwnPhase, Claiming
  <2>5. CASE Fail("claim", r) /\ Answer(r, "error")
    <3>1. pc'[r] = "done" /\ idem' = idem
      BY <1>0, <2>5, FailFacts DEF Answer
    <3> QED BY <2>3, <3>1 DEF Owns, OwnPhase, Claiming
  <2> QED BY <1>5, <2>4, <2>5 DEF Claim
<1>6. CASE Parse(r) \/ Insert(r)
  <2>1. pc[r] \in {"parse", "insert"}
    BY <1>6 DEF Parse, Insert
  <2>2. Owns(r) /\ ~Told(r) /\ ~Clearing(r) /\ idem[k] # Absent
    BY <1>0, <2>1 DEF Owns, Claiming, OwnPhase
  <2>3. /\ idem'[k] # Absent
        /\ late' = late \/ \E s \in {"insert", "commit"} : late' = late \cup {<<s, r>>}
    <3>1. CASE Parse(r)
      BY <2>2, <3>1 DEF Parse
    <3>2. CASE Insert(r)
      <4>1. Run("insert", r) => idem'[k] # Absent
        BY <2>2, RunFacts
      <4>2. Fail("insert", r) \/ Fail("commit", r) =>
               idem' = idem /\ (late' = late \/ \E s \in {"insert", "commit"} : late' = late \cup {<<s, r>>})
        BY FailFacts
      <4> QED BY <2>2, <3>2, <4>1, <4>2 DEF Insert, InsertDirect, InsertTransactional, InsertBatched
    <3> QED BY <1>6, <3>1, <3>2
  <2>4. ~Told(r)' /\ ~Clearing(r)'
    BY <1>3, <2>1, <2>2, <2>3 DEF Clearing
  <2> QED BY <2>2, <2>3, <2>4 DEF OwnPhase
<1>7. CASE Clear(r)
  <2>1. pc[r] = "clear" /\ pc'[r] = "done"
    BY <1>0, <1>7 DEF Clear, Answer
  <2>2. Owns(r) /\ ~Told(r) /\ idem[k] # Absent /\ ~Clearing(r)
    BY <1>0, <2>1 DEF Owns, Claiming, OwnPhase
  <2>3. ~Told(r)'
    BY <1>3, <2>1, <2>2
  <2>4. CASE Run("clear", r) /\ UNCHANGED late
    <3>1. ~Clearing(r)' /\ ~Owns(r)'
      BY <2>1, <2>2, <2>3, <2>4 DEF Clearing, Owns, Claiming
    <3> QED BY <2>1, <2>2, <2>3, <3>1 DEF OwnPhase
  <2>5. CASE Fail("clear", r)
    <3>1. idem' = idem
      BY <2>5, FailFacts
    <3> QED BY <2>1, <2>2, <2>3, <3>1 DEF OwnPhase
  <2> QED BY <1>7, <2>4, <2>5 DEF Clear
<1>8. CASE Store(r)
  <2>1. pc[r] = "store" /\ pc'[r] = "done"
    BY <1>0, <1>8 DEF Store, Answer
  <2>2. Owns(r) /\ idem[k] # Absent /\ ~Clearing(r)
    BY <1>0, <2>1 DEF Owns, Claiming, OwnPhase
  <2>3. idem'[k] # Absent /\ (late' = late \/ late' = late \cup {<<"store", r>>})
    BY <1>8, <2>2, RunFacts, FailFacts DEF Store
  <2>4. ~Clearing(r)'
    BY <2>2, <2>3, SMTT(60) DEF Clearing
  <2> QED BY <2>1, <2>2, <2>3, <2>4 DEF OwnPhase
<1> QED BY <1>4, <1>5, <1>6, <1>7, <1>8 DEF Handler

LEMMA OwnerStep == TypeOK /\ SameKey /\ OwnerInv /\ [Next]_vars => OwnerInv'
<1> SUFFICES ASSUME TypeOK, SameKey, OwnerInv, [Next]_vars PROVE OwnerInv'
  OBVIOUS
<1> USE DEF Statements
<1>1. ASSUME NEW r \in Requests, Handler(r) PROVE OwnerInv'
  BY <1>1, OwnerHandler
<1>2. ASSUME NEW x \in late, LateRuns(x) \/ LateDies(x) PROVE OwnerInv'
  <2>0. PICK s \in Statements, r \in Requests : x = <<s, r>>
    BY SMTT(60) DEF TypeOK
  <2>1. /\ late' = late \ {<<s, r>>} /\ pc' = pc /\ answer' = answer
        /\ Run(s, r) \/ UNCHANGED <<idem, rows>>
    BY <1>2, <2>0 DEF LateRuns, LateDies
  <2>2. /\ \A k \in Keys : k # KeyOf[r] => idem'[k] = idem[k]
        /\ s # "clear" /\ idem[KeyOf[r]] # Absent => idem'[KeyOf[r]] # Absent
        /\ \/ idem'[KeyOf[r]] \in {idem[KeyOf[r]], Absent, Claimed}
           \/ s = "store" /\ idem'[KeyOf[r]] = r
    BY <2>1, RunFacts, SMTT(60)
  <2>3. \A q \in Requests : Told(q)' => Told(q)
    <3> SUFFICES ASSUME NEW q \in Requests, Told(q)' PROVE Told(q)
      OBVIOUS
    <3>1. CASE idem'[KeyOf[q]] = q
      <4>0. KeyOf[q] \in Keys /\ Absent \notin Requests /\ Claimed \notin Requests
        BY PostAssumption
      <4>1. idem[KeyOf[q]] = q \/ (s = "store" /\ q = r)
        BY <2>2, <3>1, <4>0
      <4> QED BY <2>0, <4>1 DEF Told
    <3>2. CASE <<"store", q>> \in late' \/ \E p \in Requests : answer'[p] = q
      BY <2>1, <3>2 DEF Told
    <3> QED BY <3>1, <3>2 DEF Told
  <2>4. \A q \in Requests \ {r} : <<"clear", q>> \in late' <=> <<"clear", q>> \in late
    BY <2>1
  <2>5. OwnPhase(r) /\ (Owns(r) => idem[KeyOf[r]] # Absent)
    BY DEF OwnerInv, OwnedIsClaimed
  <2>6. Clearing(r)' => Clearing(r)
    BY <2>1 DEF Clearing
  <2>7. OwnPhase(r)' /\ (Owns(r)' => Owns(r))
    BY <2>1, <2>3, <2>5, <2>6 DEF OwnPhase, Owns
  <2>8. idem'[KeyOf[r]] = Absent => ~Owns(r)' /\ (Owns(r) \/ idem[KeyOf[r]] = Absent)
    <3>1. CASE s = "clear"
      <4>1. Clearing(r) /\ ~Told(r) /\ pc[r] \in {"done", "gone"} /\ Owns(r)
        BY <2>0, <2>5, <3>1 DEF OwnPhase, Clearing, Owns
      <4>2. ~Clearing(r)' /\ ~Told(r)' /\ pc'[r] \in {"done", "gone"}
        BY <2>1, <2>3, <3>1, <4>1 DEF Clearing
      <4> QED BY <4>1, <4>2 DEF Owns, Claiming
    <3>2. CASE s # "clear"
      BY <2>2, <2>5, <2>7, <3>2
    <3> QED BY <3>1, <3>2
  <2> QED BY <2>1, <2>2, <2>3, <2>4, <2>7, <2>8, OwnerFrame
<1>3. CASE Crash
  <2>1. /\ UNCHANGED <<idem, answer>>
        /\ \A q \in Requests : pc'[q] = IF q \in InProgress THEN "gone" ELSE pc[q]
    BY <1>3 DEF Crash
  <2>2. \A q \in Requests, t \in Statements :
            <<t, q>> \in late' => <<t, q>> \in late \/ (q \in InProgress /\ pc[q] = t)
    BY <1>3 DEF Crash
  <2>3. ASSUME NEW q \in Requests
        PROVE  /\ Told(q)' => Told(q) \/ pc[q] = "store"
               /\ Clearing(q)' => Clearing(q) \/ pc[q] = "clear"
    BY <2>1, <2>2 DEF Told, Clearing
  <2>4. ASSUME NEW q \in Requests PROVE OwnPhase(q)' /\ (Owns(q)' => Owns(q))
    <3>1. OwnPhase(q)
      BY DEF OwnerInv
    <3>2. Owns(q)' => Owns(q)
      BY <2>1, <2>3 DEF Owns, Claiming, InProgress
    <3>3. pc'[q] \in {"no", "claim", "fetch", "parse", "insert", "clear"} => pc'[q] = pc[q]
      BY <2>1
    <3>4. Clearing(q)' => pc'[q] \in {"done", "gone"} /\ ~Told(q)'
      BY <2>1, <2>3, <3>1 DEF OwnPhase, InProgress
    <3> QED BY <2>3, <3>1, <3>2, <3>3, <3>4 DEF OwnPhase
  <2> QED BY SMTT(30), <2>1, <2>4 DEF OwnerInv, OneOwner, OwnedIsClaimed
<1>4. CASE UNCHANGED vars
  BY SMTT(30), <1>4 DEF vars, OwnerInv, OneOwner, OwnedIsClaimed, OwnPhase, Owns, Told, Clearing
<1> QED BY <1>1, <1>2, <1>3, <1>4 DEF Next

\* Whatever fails, the direct INSERT included: all requests of a key that are
\* answered with 201, the first one and the replays, are answered with the same
\* row (the replay and the response of handler.cpp.j2).
THEOREM OneAnswer == Spec => []OneAnswerPerKey
<1> DEFINE Inv == ResponseInv /\ OwnerInv
<1>1. TypeOK /\ Inv => OneAnswerPerKey
  <2> SUFFICES ASSUME Inv, NEW r \in Requests, NEW s \in Requests,
                      KeyOf[r] = KeyOf[s], answer[r] \in Requests, answer[s] \in Requests
               PROVE  answer[r] = answer[s]
    BY DEF OneAnswerPerKey
  <2>1. KeyOf[answer[r]] = KeyOf[answer[s]]
    BY DEF ResponseInv, SameKey
  <2>2. Owns(answer[r]) /\ Owns(answer[s])
    BY DEF Owns, Told
  <2> QED BY <2>1, <2>2 DEF OwnerInv, OneOwner
<1>2. TypeOK /\ Inv /\ [Next]_vars => Inv'
  BY ResponseStep, OwnerStep DEF ResponseInv
<1> QED BY <1>1, <1>2, TypeInit, TypeStep, ResponseInit, OwnerInit, PTL DEF Spec

=============================================================================
