--------------------------- MODULE IdempotentPost ---------------------------
(***************************************************************************)
(* The POST handler the generator emits for a resource with idempotency    *)
(* enabled (src/generator/templates/handler.cpp.j2, the part under         *)
(* 'POST' in r.methods), for requests that carry an idempotency key.       *)
(*                                                                         *)
(* Requests run on any worker thread and interleave; each SQL statement is *)
(* one step.  A statement may be refused without effect, or its connection *)
(* may break: then the server may have executed it, may execute it later,  *)
(* or never.  A row is known by the request that inserted it, and so is    *)
(* the stored response.                                                    *)
(***************************************************************************)
EXTENDS FiniteSets

CONSTANTS
    Requests,       \* POSTs, retries included
    Keys, KeyOf,    \* the idempotency key each of them carries
    Absent, Claimed,    \* no row for a key; a row without status and body
    Modes,          \* write paths: "direct", "transactional", "batched"
    Regimes         \* what may go wrong, see `faults`

Statements == {"claim", "fetch", "begin", "insert", "commit", "clear", "store"}
Outcomes == {"none", "rejected", "malformed", "conflict", "error"}

ASSUME PostAssumption ==
    /\ KeyOf \in [Requests -> Keys]
    /\ Absent \notin Requests \cup {Claimed} /\ Claimed \notin Requests
    /\ Requests \cap Outcomes = {}
    /\ Modes \subseteq {"direct", "transactional", "batched"}
    /\ Regimes \subseteq [refuse : SUBSET Statements, break : SUBSET Statements,
                          malformed : SUBSET Requests, crash : BOOLEAN]

VARIABLES
    mode,       \* the write path the generator emitted for the resource
    faults,     \* chosen at the start: which statements may be refused, under
                \* which the connection may break, which requests are answered
                \* with 400 or 401 for what they hold, may the process be killed
    idem,       \* the idempotency table: per key Absent, Claimed or a response
    rows,       \* rows of the resource's table
    late,       \* statements of broken connections that may still run
    pc,         \* how far the handler of each request is
    answer      \* what it has answered: 201 with a row, or an outcome

vars == <<mode, faults, idem, rows, late, pc, answer>>

Goto(r, l) == pc' = [pc EXCEPT ![r] = l] /\ UNCHANGED answer
Answer(r, a) == pc' = [pc EXCEPT ![r] = "done"] /\ answer' = [answer EXCEPT ![r] = a]

-----------------------------------------------------------------------------
(* Statements *)

\* INSERT ... ON CONFLICT (key) DO NOTHING.
ClaimRow(k, x) == [idem EXCEPT ![k] = IF @ = Absent THEN Claimed ELSE @]

\* UPDATE ... WHERE key = $1.
StoreRow(k, x) == [idem EXCEPT ![k] = IF @ = Absent THEN Absent ELSE x]

\* The effect of statement s of request r on the database.
Run(s, r) ==
    /\ idem' = CASE s = "claim" -> ClaimRow(KeyOf[r], r)
                 [] s = "clear" -> [idem EXCEPT ![KeyOf[r]] = Absent]
                 [] s = "store" -> StoreRow(KeyOf[r], r)
                 [] OTHER -> idem
    /\ rows' = IF s \in {"insert", "commit"} THEN rows \cup {r} ELSE rows

\* It fails: without effect, or with an effect that is still to come.
Fail(s, r) ==
    /\ \/ s \in faults.refuse /\ UNCHANGED late
       \/ s \in faults.break /\ late' = late \cup {<<s, r>>}
    /\ UNCHANGED <<idem, rows>>

-----------------------------------------------------------------------------
Init ==
    /\ mode \in Modes /\ faults \in Regimes
    /\ idem = [k \in Keys |-> Absent] /\ rows = {} /\ late = {}
    /\ pc = [r \in Requests |-> "no"] /\ answer = [r \in Requests |-> "none"]

(* The handler *)

\* The role check and the token bucket come before the claim.
Arrive(r) ==
    /\ pc[r] = "no"
    /\ Goto(r, "claim") \/ Answer(r, "rejected")
    /\ UNCHANGED <<idem, rows, late>>

Claim(r) ==
    /\ pc[r] = "claim"
    /\ \/ /\ Run("claim", r) /\ UNCHANGED late
          /\ Goto(r, IF idem[KeyOf[r]] = Absent THEN "parse" ELSE "fetch")
       \/ Fail("claim", r) /\ Answer(r, "error")

FetchUnscoped(r) ==
    /\ pc[r] = "fetch"
    /\ \/ /\ UNCHANGED <<idem, rows, late>>
          /\ \E k \in Keys :
               Answer(r, IF idem[k] \in Requests THEN idem[k] ELSE "conflict")
       \/ Fail("fetch", r) /\ Answer(r, "conflict")

\* Replay the stored response; 409 when there is none yet or it cannot be read.
Fetch(r) ==
    /\ pc[r] = "fetch"
    /\ \/ /\ UNCHANGED <<idem, rows, late>>
          /\ Answer(r, IF idem[KeyOf[r]] \in Requests THEN idem[KeyOf[r]] ELSE "conflict")
       \/ Fail("fetch", r) /\ Answer(r, "conflict")

\* Body, validations and owner.
Parse(r) ==
    /\ pc[r] = "parse"
    /\ \/ r \in faults.malformed /\ Answer(r, "malformed")
       \/ r \notin faults.malformed /\ Goto(r, "insert")
    /\ UNCHANGED <<idem, rows, late>>

\* One INSERT of its own; a failing before-insert hook ends the same way.
InsertDirect(r) ==
    \/ Run("insert", r) /\ UNCHANGED late /\ Goto(r, "store")
    \/ Fail("insert", r) /\ Goto(r, "clear")

\* BEGIN, hooks, INSERT and COMMIT on one connection.  A statement inside the
\* transaction that fails rolls it back and clears the claim.  A failing
\* checkout, BEGIN or COMMIT returns at once; the COMMIT may have happened.
InsertTransactional(r) ==
    \/ Run("insert", r) /\ UNCHANGED late /\ Goto(r, "store")
    \/ "insert" \in faults.refuse \cup faults.break /\ Goto(r, "clear") /\ UNCHANGED <<idem, rows, late>>
    \/ "begin" \in faults.refuse \cup faults.break /\ Answer(r, "error") /\ UNCHANGED <<idem, rows, late>>
    \/ Fail("commit", r) /\ Answer(r, "error")

\* Db::write() only puts the row in a queue.
InsertBatched(r) ==
    Run("insert", r) /\ UNCHANGED late /\ Goto(r, "store")

Insert(r) ==
    /\ pc[r] = "insert"
    /\ \/ mode = "direct" /\ InsertDirect(r)
       \/ mode = "transactional" /\ InsertTransactional(r)
       \/ mode = "batched" /\ InsertBatched(r)

ClearForgotten(r) ==
    /\ pc[r] = "clear" /\ Answer(r, "error")
    /\ UNCHANGED <<idem, rows, late>>

\* Give the claim back; whether that worked is not looked at.
Clear(r) ==
    /\ pc[r] = "clear" /\ Answer(r, "error")
    /\ \/ Run("clear", r) /\ UNCHANGED late
       \/ Fail("clear", r)

StoreOrClear(r) ==
    /\ pc[r] = "store"
    /\ \/ Run("store", r) /\ UNCHANGED late /\ Answer(r, r)
       \/ Fail("store", r) /\ Goto(r, "clear")

\* Keep the response for a replay; whether that worked is not looked at.
Store(r) ==
    /\ pc[r] = "store" /\ Answer(r, r)
    /\ \/ Run("store", r) /\ UNCHANGED late
       \/ Fail("store", r)

-----------------------------------------------------------------------------
(* Broken connections and the end of the process *)

LateRuns(x) == Run(x[1], x[2]) /\ late' = late \ {x} /\ UNCHANGED <<pc, answer>>
LateDies(x) == late' = late \ {x} /\ UNCHANGED <<idem, rows, pc, answer>>

InProgress == {r \in Requests : pc[r] \notin {"no", "done", "gone"}}

\* Statements the server has received may still run (of a transaction, its
\* COMMIT); a batched row is lost.
Crash ==
    /\ faults.crash /\ InProgress # {}
    /\ \E S \in SUBSET {r \in InProgress : pc[r] \in Statements
                                           /\ (pc[r] = "insert" => mode # "batched")} :
         late' = late \cup {<<pc[r], r>> : r \in S}
    /\ pc' = [r \in Requests |-> IF r \in InProgress THEN "gone" ELSE pc[r]]
    /\ UNCHANGED <<idem, rows, answer>>

Handler(r) ==
    Arrive(r) \/ Claim(r) \/ Fetch(r) \/ Parse(r) \/ Insert(r) \/ Clear(r) \/ Store(r)

Next ==
    /\ \/ \E r \in Requests : Handler(r)
       \/ \E x \in late : LateRuns(x) \/ LateDies(x)
       \/ Crash
    /\ UNCHANGED <<mode, faults>>

Spec == Init /\ [][Next]_vars

-----------------------------------------------------------------------------
(* Properties *)

\* Every variable has its type.
TypeOK ==
    /\ mode \in Modes /\ faults \in Regimes
    /\ idem \in [Keys -> Requests \cup {Absent, Claimed}]
    /\ rows \subseteq Requests
    /\ late \subseteq Statements \X Requests
    /\ pc \in [Requests -> {"no", "claim", "fetch", "parse", "insert", "clear",
                           "store", "done", "gone"}]
    /\ answer \in [Requests -> Outcomes \cup Requests]

OneRowPerKey == \A r, s \in rows : KeyOf[r] = KeyOf[s] => r = s

\* The outcome of an INSERT is known: it runs in a transaction or is queued, or
\* no connection breaks under it.
InsertIsKnown == mode # "direct" \/ "insert" \notin faults.break

\* However requests with one key interleave, fail and are retried, they insert
\* one row at most, unless an INSERT fails with an unknown outcome (the claim of
\* handler.cpp.j2, its clearing, the three write paths).
FaultsOneRowPerKey == InsertIsKnown => OneRowPerKey

\* Requests with one key that are answered with 201 are answered with the same
\* row, the replays included, whatever fails (handler.cpp.j2, replay and
\* response).
OneAnswerPerKey ==
    \A r, s \in Requests :
        KeyOf[r] = KeyOf[s] /\ answer[r] \in Requests /\ answer[s] \in Requests
            => answer[r] = answer[s]

\* A response that is replayed, or was given, speaks of a row that exists.
AnsweredHasRow ==
    /\ \A k \in Keys : idem[k] \in Requests => idem[k] \in rows
    /\ \A r \in Requests : answer[r] \in Requests => answer[r] \in rows

\* A claim without a response belongs to a request that is still running or to
\* a statement still to come: once the first request is over, a retry is
\* either replayed or run.
ClaimResolved ==
    \A k \in Keys : idem[k] = Claimed =>
        \E r \in Requests : KeyOf[r] = k /\ (r \in InProgress \/ \E s \in Statements : <<s, r>> \in late)

\* Only those statements fail whose failure the handler cleans up after.
Cleaned ==
    /\ faults.refuse \subseteq {"claim", "fetch", "insert"}
    /\ faults.break \subseteq {"fetch", "insert"}
    /\ faults.malformed = {} /\ ~faults.crash

\* When only those statements fail, a claim does not outlive the request that
\* made it: it is replaced by an answer or taken back (handler.cpp.j2).
SoundClaimResolved == Cleaned => ClaimResolved
=============================================================================
