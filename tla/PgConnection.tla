---------------------------- MODULE PgConnection ----------------------------
(***************************************************************************)
(* One connection to PostgreSQL: PgConnection (src/spido-pg/src/           *)
(* connection.cpp) with the backend at the other end of its socket.        *)
(*                                                                         *)
(* A message is its type and the number of the request it answers, 0 for   *)
(* one the server sends on its own.  A step of the client is one message   *)
(* that recv_msg() returns, or its failure: the socket broke, the message  *)
(* was malformed, or the 30 s timeout linked to the I/O went off, in which *)
(* case the answer may still arrive.                                       *)
(***************************************************************************)
EXTENDS Naturals, Sequences, FiniteSets

CONSTANTS
    Names,        \* statement names given to prepare()
    Methods,      \* how the server may authenticate: "trust", "password", "scram"
    MaxRequests,  \* bound on requests, over all sessions
    MaxConnects,  \* bound on connect() and close() calls
    MaxPushed     \* bound on messages the server sends on its own

ASSUME ConnAssumption ==
    "trust" \in Methods /\ MaxRequests \in Nat /\ MaxConnects \in Nat /\ MaxPushed \in Nat

VARIABLES
    state,        \* state_
    epoch,        \* epoch_
    call,         \* the call the owner is in
    handles,      \* the StmtHandles prepare() has returned
    done,         \* history: how the last request ended
    c2s, s2c,     \* the socket, in both directions
    up,           \* the backend is there
    method,       \* how it authenticates this session
    parsed,       \* statements of the session
    completed,    \* requests it has completed
    requests, connects, pushed

clientVars == <<state, epoch, call, handles, done>>
serverVars == <<up, method, parsed, completed>>
counters   == <<requests, connects, pushed>>
vars == <<clientVars, c2s, s2c, serverVars, counters>>

NoCall == [op |-> "none", n |-> 0, name |-> "", from |-> {}, err |-> FALSE]
Msg(type, n) == [type |-> type, n |-> n, name |-> ""]
Handle(name) == [name |-> name, epoch |-> epoch]

Init ==
    /\ state = "Disconnected" /\ epoch = 1 /\ call = NoCall
    /\ handles = {} /\ done = {}
    /\ c2s = << >> /\ s2c = << >> /\ up = FALSE /\ method = "trust"
    /\ parsed = {} /\ completed = {}
    /\ requests = 0 /\ connects = 0 /\ pushed = 0

-----------------------------------------------------------------------------
(* close() and connect() *)

\* close(): Terminate, the descriptor, the state, the epoch.
Disconnect(e) ==
    /\ state' = "Disconnected" /\ epoch' = epoch + e
    /\ up' = FALSE /\ c2s' = << >> /\ s2c' = << >>

Close ==
    /\ call = NoCall /\ connects < MaxConnects /\ connects' = connects + 1
    /\ Disconnect(1)
    /\ UNCHANGED <<call, handles, done, method, parsed, completed, requests, pushed>>

\* close(), then no ring or no socket; or nobody who accepts: close() again.
ConnectFails ==
    /\ call = NoCall /\ connects < MaxConnects /\ connects' = connects + 1
    /\ \E closes \in {1, 2} : Disconnect(closes)
    /\ UNCHANGED <<call, handles, done, method, parsed, completed, requests, pushed>>

Connect ==
    /\ call = NoCall /\ connects < MaxConnects /\ connects' = connects + 1
    /\ state' = "Authenticating" /\ epoch' = epoch + 1
    /\ call' = [NoCall EXCEPT !.op = "connect"]
    /\ up' = TRUE /\ method' \in Methods /\ parsed' = {}
    /\ c2s' = <<Msg("Startup", 0)>> /\ s2c' = << >>
    /\ UNCHANGED <<handles, done, completed, requests, pushed>>

Connecting == call.op = "connect"

Reply(m) == c2s' = IF up THEN Append(c2s, Msg(m, 0)) ELSE c2s

\* authenticate(): one message.
AuthStep ==
    LET m == Head(s2c).type
    IN  /\ Connecting /\ s2c # << >> /\ s2c' = Tail(s2c)
        /\ \/ m = "AuthPassword" /\ Reply("Password") /\ UNCHANGED <<state, call>>
           \/ m = "AuthSASL" /\ Reply("SASLInitial") /\ UNCHANGED <<state, call>>
           \/ m = "AuthContinue" /\ Reply("SASLResponse") /\ UNCHANGED <<state, call>>
           \/ m \in {"AuthFinal", "AuthOk", "ParameterStatus", "KeyData"} /\ UNCHANGED <<c2s, state, call>>
           \/ m = "ReadyForQuery" /\ state' = "Ready" /\ call' = NoCall /\ UNCHANGED c2s
        /\ UNCHANGED <<epoch, handles, done, serverVars, counters>>

\* An ErrorResponse, a message that does not check out, no message at all, or
\* a reply that cannot be sent.
AuthFails ==
    /\ Connecting
    /\ call' = NoCall /\ Disconnect(1)
    /\ UNCHANGED <<handles, done, method, parsed, completed, counters>>

-----------------------------------------------------------------------------
(* exec(), prepare() and exec_prepared() *)

\* A bug: after a timeout the connection goes back to its owner as Ready.
FinishAlwaysReady(c, err, st) ==
    /\ call' = NoCall /\ state' = "Ready"
    /\ done' = {[n |-> c.n, from |-> c.from, ok |-> ~err]}
    /\ handles' = handles

\* prepare() returns its handle with the name, unless the server has refused.
Finish(c, err, st) ==
    /\ call' = NoCall /\ state' = st
    /\ done' = {[n |-> c.n, from |-> c.from, ok |-> ~err]}
    /\ handles' = IF c.op = "prepare" /\ ~(st = "Ready" /\ err)
                  THEN handles \cup {Handle(c.name)} ELSE handles

\* The call is turned away unless the state is Ready.
NotReady(name) ==
    /\ call = NoCall /\ state # "Ready"
    /\ handles' = handles \cup {Handle(name)}
    /\ UNCHANGED <<state, epoch, call, done, c2s, s2c, serverVars, counters>>

Begin(op, name) ==
    LET c == [op |-> op, n |-> requests + 1, name |-> name, from |-> {}, err |-> FALSE]
    IN  /\ call = NoCall /\ state = "Ready" /\ requests < MaxRequests
        /\ requests' = requests + 1
        /\ \/ /\ state' = "Busy" /\ call' = c
              /\ c2s' = IF up THEN Append(c2s, [type |-> op, n |-> c.n, name |-> name]) ELSE c2s
              /\ UNCHANGED <<handles, done>>
           \/ Finish(c, TRUE, "Error") /\ UNCHANGED c2s
        /\ UNCHANGED <<epoch, s2c, serverVars, connects, pushed>>

Exec == Begin("exec", "")

Prepare(name) == Begin("prepare", name)

\* The handle's epoch is not looked at.
ExecPrepared(h) == h \in handles /\ Begin("exec_prepared", h.name)

Draining == call.op \in {"exec", "prepare", "exec_prepared"}

\* A bug: only the first message of an answer can make it an error.
DrainedFirst(c, m) ==
    [c EXCEPT !.from = IF m.n = 0 THEN @ ELSE @ \cup {m.n},
              !.err = @ \/ (m.type = "ErrorResponse" /\ c.from = {})]

Drained(c, m) ==
    [c EXCEPT !.from = IF m.n = 0 THEN @ ELSE @ \cup {m.n},
              !.err = @ \/ m.type = "ErrorResponse"]

\* drain_until_ready(): one message.
DrainStep ==
    LET m == Head(s2c)
        c == Drained(call, m)
    IN  /\ Draining /\ s2c # << >> /\ s2c' = Tail(s2c)
        /\ \/ m.type = "ReadyForQuery" /\ Finish(c, c.err, "Ready")
           \/ m.type # "ReadyForQuery" /\ call' = c /\ UNCHANGED <<state, handles, done>>
        /\ UNCHANGED <<epoch, c2s, serverVars, counters>>

\* A bug: the receive has no timeout.
DrainFailsBroken ==
    /\ Draining /\ ~up
    /\ Finish(call, TRUE, "Error")
    /\ UNCHANGED <<epoch, c2s, s2c, serverVars, counters>>

\* recv_msg() fails, or a row cannot be decoded.
DrainFails ==
    /\ Draining
    /\ Finish(call, TRUE, "Error")
    /\ UNCHANGED <<epoch, c2s, s2c, serverVars, counters>>

-----------------------------------------------------------------------------
(* The server, as far as the client depends on it *)

Accepted == <<Msg("AuthOk", 0), Msg("ParameterStatus", 0), Msg("KeyData", 0), Msg("ReadyForQuery", 0)>>

\* The ways it may answer a message of the client.
Answers(m) ==
    LET A(t) == Msg(t, m.n)
        refused == <<A("ErrorResponse"), A("ReadyForQuery")>>
        rows == <<A("DataRow"), A("CommandComplete"), A("ReadyForQuery")>>
        bound == <<A("BindComplete"), A("DataRow"), A("CommandComplete"), A("ReadyForQuery")>>
    IN  CASE m.type = "Startup" ->
                 {IF method = "trust" THEN Accepted
                  ELSE IF method = "password" THEN <<Msg("AuthPassword", 0)>>
                  ELSE <<Msg("AuthSASL", 0)>>}
          [] m.type = "Password" -> {Accepted}
          [] m.type = "SASLInitial" -> {<<Msg("AuthContinue", 0)>>}
          [] m.type = "SASLResponse" ->
                 {<<Msg("AuthFinal", 0), Msg("AuthOk", 0), Msg("ParameterStatus", 0), Msg("KeyData", 0),
                    Msg("ReadyForQuery", 0)>>}
          [] m.type = "exec" -> {rows, refused, <<A("DataRow"), A("ErrorResponse"), A("ReadyForQuery")>>}
          [] m.type = "prepare" ->
                 IF m.name \in parsed THEN {refused}
                 ELSE {refused, <<A("ParseComplete"), A("ReadyForQuery")>>}
          [] m.type = "exec_prepared" ->
                 IF m.name \in parsed THEN {refused, bound} ELSE {refused}

Serve ==
    LET m == Head(c2s)
    IN  /\ up /\ c2s # << >> /\ c2s' = Tail(c2s)
        /\ \E a \in Answers(m) :
            LET ok == \A i \in DOMAIN a : a[i].type # "ErrorResponse"
            IN  /\ s2c' = s2c \o a
                /\ parsed' = IF ok /\ m.type = "prepare" THEN parsed \cup {m.name} ELSE parsed
                /\ completed' = IF ok THEN completed \cup {m.n} ELSE completed
        /\ UNCHANGED <<clientVars, up, method, counters>>

\* A notice, a parameter change or a notification.
Push ==
    /\ up /\ state \in {"Ready", "Busy"} /\ pushed < MaxPushed /\ pushed' = pushed + 1
    /\ s2c' = Append(s2c, Msg("NoticeResponse", 0))
    /\ UNCHANGED <<clientVars, c2s, serverVars, requests, connects>>

\* The backend goes away; what it has sent arrives up to some point.
Die ==
    /\ up /\ up' = FALSE
    /\ c2s' = << >>
    /\ \E i \in 0 .. Len(s2c) : s2c' = SubSeq(s2c, 1, i)
    /\ UNCHANGED <<clientVars, method, parsed, completed, counters>>

-----------------------------------------------------------------------------
Client ==
    \/ Close \/ Connect \/ ConnectFails \/ AuthStep \/ AuthFails
    \/ Exec \/ DrainStep \/ DrainFails
    \/ \E name \in Names : Prepare(name) \/ NotReady(name)
    \/ \E h \in handles : ExecPrepared(h)

Next == Client \/ Serve \/ Push \/ Die

Spec == Init /\ [][Next]_vars

\* The thread inside a call goes on; the server need not.
Fairness == WF_vars(AuthStep \/ AuthFails \/ DrainStep \/ DrainFails)

FairSpec == Spec /\ Fairness

-----------------------------------------------------------------------------
States == {"Disconnected", "Authenticating", "Ready", "Busy", "Error"}
Requests == 0 .. MaxRequests
Calls == [op : {"none", "connect", "exec", "prepare", "exec_prepared"}, n : Requests,
          name : Names \cup {""}, from : SUBSET Requests, err : BOOLEAN]

(* The state is the one the call under way has set (connection.cpp:304, 614,  *)
(* 649, 682): Authenticating inside connect(), Busy inside a request, and     *)
(* neither outside; a handle without a name is never kept.                    *)
TypeOK ==
    /\ state \in States /\ epoch \in Nat /\ call \in Calls
    /\ handles \subseteq [name : Names, epoch : 1 .. epoch]
    /\ done \subseteq [n : Requests, from : SUBSET Requests, ok : BOOLEAN]
    /\ up \in BOOLEAN /\ method \in Methods /\ parsed \subseteq Names
    /\ completed \subseteq Requests
    /\ state = "Authenticating" <=> Connecting
    /\ state = "Busy" <=> Draining

(* A connection that is Ready agrees with its server.  Its socket has nothing *)
(* of an earlier round in either direction: any end of drain_until_ready()    *)
(* other than the ReadyForQuery of the request leaves the state Error, until  *)
(* the next connect().  And the epoch of a handle tells whether the session   *)
(* has the statement: one of the current epoch was parsed in this session.    *)
(* (exec_prepared() does not look at it: connection.cpp:677.)                 *)
InSync ==
    state = "Ready" => /\ c2s = << >>
                       /\ \A i \in DOMAIN s2c : s2c[i].n = 0
                       /\ \A h \in handles : h.epoch = epoch => h.name \in parsed

(* A result is made of the answer to its own request, and a result without an *)
(* error belongs to a request that the server has completed: a late answer to *)
(* a request that timed out never reaches a later caller.                     *)
OwnAnswer ==
    \A d \in done : /\ d.from \subseteq {d.n}
                    /\ d.ok => d.n \in completed

(* Every call returns, whatever the server does: a receive that gets nothing  *)
(* ends with the timeout linked to it (connection.cpp:92).                    *)
CallReturns == call # NoCall ~> call = NoCall
=============================================================================
