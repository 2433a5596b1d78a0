------------------------- MODULE PgConnectionProofs -------------------------
(***************************************************************************)
(* Proofs about PgConnection: a result belongs to its own request, for any *)
(* number of requests, reconnects and messages the server sends on its     *)
(* own, and with the timeout and the end of the backend at any moment.     *)
(*                                                                         *)
(* The argument is the protocol's: at most one message of the client is    *)
(* unanswered, and an answer ends with the only ReadyForQuery of its round.*)
(* RoundInv says so of the socket during a request, LoginInv during        *)
(* connect(); a connection whose state is Error promises nothing.          *)
(***************************************************************************)
EXTENDS PgConnection, TLAPS

\* A step is first-order unless it names the SMT solver.
USE ZenonT(30)

Logins == {"Startup", "Password", "SASLInitial", "SASLResponse"}
Ops == {"exec", "prepare", "exec_prepared"}
Asks == {"AuthPassword", "AuthSASL", "AuthContinue"}

ToServer == {m \in [type : Logins \cup Ops, n : Requests, name : Names \cup {""}] :
               m.type = "prepare" => m.name \in Names}
Types == Asks \cup {"AuthFinal", "AuthOk", "ParameterStatus", "KeyData", "ReadyForQuery",
                   "ErrorResponse", "NoticeResponse", "DataRow", "CommandComplete",
                   "ParseComplete", "BindComplete"}
ToClient == [type : Types, n : Requests, name : {""}]

Wire ==
    /\ c2s \in Seq(ToServer) /\ s2c \in Seq(ToClient) /\ requests \in Requests
    /\ epoch >= 1 /\ (call.op = "prepare" => call.name \in Names)

Is(i, t) == s2c[i].type = t

\* Nothing of a finished round is in the socket.
Quiet == \A i \in DOMAIN s2c : s2c[i].n = 0 /\ ~Is(i, "ReadyForQuery")

\* During connect(): one side speaks, and ReadyForQuery comes last.
LoginInv ==
    Connecting =>
        /\ Len(c2s) <= 1
        /\ c2s # << >> => s2c = << >> /\ c2s[1].n = 0 /\ c2s[1].type \in Logins
        /\ \A i \in DOMAIN s2c :
             /\ s2c[i].n = 0
             /\ Is(i, "ReadyForQuery") => i = Len(s2c)
             /\ s2c[i].type \in Asks => Len(s2c) = 1

\* The server has done what the call asked for.
Served == call.n \in completed /\ (call.op = "prepare" => call.name \in parsed)

\* During a request: it is unanswered, or its answer is in the socket or lost,
\* and an answer without an error was given by a server that has done its part.
RoundInv ==
    Draining =>
        /\ call.from \subseteq {call.n}
        /\ Len(c2s) <= 1
        /\ c2s # << >> =>
             /\ Quiet
             /\ c2s[1].n = call.n /\ c2s[1].type = call.op /\ c2s[1].name = call.name
        /\ \A i \in DOMAIN s2c :
             /\ s2c[i].n \in {0, call.n}
             /\ Is(i, "ReadyForQuery") =>
                  /\ \A j \in DOMAIN s2c : j > i => s2c[j].n = 0 /\ ~Is(j, "ReadyForQuery")
                  /\ Served \/ call.err \/ \E j \in DOMAIN s2c : j < i /\ Is(j, "ErrorResponse")

ReadyInv == state = "Ready" => c2s = << >> /\ Quiet

\* In a session that may be used, the handles of its epoch are parsed.
HandlesInv ==
    state \in {"Authenticating", "Ready", "Busy"} =>
        \A h \in handles : h.epoch = epoch => h.name \in parsed

ConnInv == TypeOK /\ Wire /\ LoginInv /\ RoundInv /\ ReadyInv /\ HandlesInv /\ OwnAnswer

-----------------------------------------------------------------------------
(* Sequences of messages *)

LEMMA TailFacts ==
    ASSUME NEW S, NEW q \in Seq(S), q # << >>
    PROVE  /\ Tail(q) \in Seq(S) /\ Head(q) = q[1] /\ q[1] \in S
           /\ Len(q) \in Nat \ {0} /\ Len(Tail(q)) = Len(q) - 1
           /\ DOMAIN q = 1 .. Len(q) /\ DOMAIN Tail(q) = 1 .. Len(q) - 1
           /\ \A i \in 1 .. Len(q) - 1 : Tail(q)[i] = q[i + 1]
BY SMTT(60)

LEMMA AppendFacts ==
    ASSUME NEW S, NEW q \in Seq(S), NEW x \in S
    PROVE  /\ Append(q, x) \in Seq(S) /\ Len(q) \in Nat
           /\ DOMAIN q = 1 .. Len(q) /\ DOMAIN Append(q, x) = 1 .. Len(q) + 1
           /\ Len(Append(q, x)) = Len(q) + 1
           /\ Append(q, x)[Len(q) + 1] = x
           /\ \A i \in 1 .. Len(q) : Append(q, x)[i] = q[i]
BY SMTT(60)

LEMMA OneMessage ==
    ASSUME NEW S, NEW x \in S, NEW q, q = << >> \/ q = Append(<< >>, x)
    PROVE  q \in Seq(S) /\ Len(q) <= 1 /\ (q # << >> => q[1] = x)
<1>1. CASE q = << >>
  BY <1>1, SMTT(60)
<1>2. CASE q = Append(<< >>, x)
  BY <1>2, SMTT(60)
<1> QED BY <1>1, <1>2

LEMMA ConcatFacts ==
    ASSUME NEW S, NEW p \in Seq(S), NEW q \in Seq(S)
    PROVE  /\ p \o q \in Seq(S) /\ Len(p) \in Nat /\ Len(q) \in Nat
           /\ DOMAIN p = 1 .. Len(p) /\ DOMAIN q = 1 .. Len(q)
           /\ Len(p \o q) = Len(p) + Len(q) /\ DOMAIN (p \o q) = 1 .. Len(p) + Len(q)
           /\ \A i \in 1 .. Len(p) : (p \o q)[i] = p[i]
           /\ \A i \in Len(p) + 1 .. Len(p) + Len(q) : (p \o q)[i] = q[i - Len(p)]
BY SMTT(60)

LEMMA PrefixFacts ==
    ASSUME NEW S, NEW q \in Seq(S), NEW n \in 0 .. Len(q)
    PROVE  /\ SubSeq(q, 1, n) \in Seq(S) /\ Len(SubSeq(q, 1, n)) = n
           /\ DOMAIN q = 1 .. Len(q) /\ DOMAIN SubSeq(q, 1, n) = 1 .. n
           /\ \A i \in 1 .. n : SubSeq(q, 1, n)[i] = q[i]
BY SMTT(60)

-----------------------------------------------------------------------------
(* What the server answers *)

LEMMA BoundNat == MaxRequests \in Nat
BY ConnAssumption

LEMMA ZeroRequest == 0 \in Requests
BY BoundNat, SMTT(60) DEF Requests

LEMMA NextRequest ==
    ASSUME NEW r \in Requests, r < MaxRequests
    PROVE  r + 1 \in Requests
BY BoundNat, SMTT(60) DEF Requests

\* Messages of request n that do not end a round, and the one that does.
Plain(n) == {m \in ToClient : m.n = n /\ m.type # "ReadyForQuery" /\ m.type \notin Asks}
Ready(n) == {m \in ToClient : m.n = n /\ m.type = "ReadyForQuery"}

\* An answer that ends a round.
Round(a, n) ==
    /\ a \in Seq(ToClient)
    /\ \A i \in DOMAIN a : /\ a[i].n = n /\ a[i].type \notin Asks
                           /\ a[i].type = "ReadyForQuery" <=> i = Len(a)

LEMMA Round2 ==
    ASSUME NEW n, NEW x \in Plain(n), NEW r \in Ready(n)
    PROVE  Round(<<x, r>>, n)
BY SMTT(60) DEF Round, Plain, Ready, Asks

LEMMA Round3 ==
    ASSUME NEW n, NEW x \in Plain(n), NEW y \in Plain(n), NEW r \in Ready(n)
    PROVE  Round(<<x, y, r>>, n)
BY SMTT(60) DEF Round, Plain, Ready, Asks

LEMMA Round4 ==
    ASSUME NEW n, NEW x \in Plain(n), NEW y \in Plain(n), NEW z \in Plain(n), NEW r \in Ready(n)
    PROVE  Round(<<x, y, z, r>>, n)
BY SMTT(60) DEF Round, Plain, Ready, Asks

LEMMA Round5 ==
    ASSUME NEW n, NEW x \in Plain(n), NEW y \in Plain(n), NEW z \in Plain(n), NEW u \in Plain(n),
           NEW r \in Ready(n)
    PROVE  Round(<<x, y, z, u, r>>, n)
BY SMTT(60) DEF Round, Plain, Ready, Asks

LEMMA MsgFacts ==
    ASSUME NEW t \in Types, NEW n \in Requests
    PROVE  Msg(t, n) \in ToClient /\ Msg(t, n).type = t /\ Msg(t, n).n = n
BY DEF Msg, ToClient

LEMMA PlainMessages ==
    ASSUME NEW n \in Requests
    PROVE  /\ Msg("AuthFinal", n) \in Plain(n) /\ Msg("AuthOk", n) \in Plain(n)
           /\ Msg("ParameterStatus", n) \in Plain(n) /\ Msg("KeyData", n) \in Plain(n)
           /\ Msg("ErrorResponse", n) \in Plain(n) /\ Msg("DataRow", n) \in Plain(n)
           /\ Msg("CommandComplete", n) \in Plain(n) /\ Msg("ParseComplete", n) \in Plain(n)
           /\ Msg("BindComplete", n) \in Plain(n) /\ Msg("ReadyForQuery", n) \in Ready(n)
<1>1. Msg("AuthFinal", n) \in Plain(n)
  BY MsgFacts, SMTT(60) DEF Plain, Types, Asks
<1>2. Msg("AuthOk", n) \in Plain(n)
  BY MsgFacts, SMTT(60) DEF Plain, Types, Asks
<1>3. Msg("ParameterStatus", n) \in Plain(n)
  BY MsgFacts, SMTT(60) DEF Plain, Types, Asks
<1>4. Msg("KeyData", n) \in Plain(n)
  BY MsgFacts, SMTT(60) DEF Plain, Types, Asks
<1>5. Msg("ErrorResponse", n) \in Plain(n)
  BY MsgFacts, SMTT(60) DEF Plain, Types, Asks
<1>6. Msg("DataRow", n) \in Plain(n)
  BY MsgFacts, SMTT(60) DEF Plain, Types, Asks
<1>7. Msg("CommandComplete", n) \in Plain(n)
  BY MsgFacts, SMTT(60) DEF Plain, Types, Asks
<1>8. Msg("ParseComplete", n) \in Plain(n)
  BY MsgFacts, SMTT(60) DEF Plain, Types, Asks
<1>9. Msg("BindComplete", n) \in Plain(n)
  BY MsgFacts, SMTT(60) DEF Plain, Types, Asks
<1>10. Msg("ReadyForQuery", n) \in Ready(n)
  BY MsgFacts DEF Ready, Types
<1> QED BY <1>1, <1>2, <1>3, <1>4, <1>5, <1>6, <1>7, <1>8, <1>9, <1>10

\* The server answers a step of the login with one question, or lets the client
\* in.
LEMMA LoginAnswers ==
    ASSUME NEW m \in ToServer, m.type \in Logins, NEW a \in Answers(m)
    PROVE  \/ \E x \in ToClient : x.n = 0 /\ x.type \in Asks /\ a = <<x>>
           \/ Round(a, 0)
<1>1. \/ a \in {<<Msg("AuthPassword", 0)>>, <<Msg("AuthSASL", 0)>>, <<Msg("AuthContinue", 0)>>}
      \/ a = Accepted
      \/ a = <<Msg("AuthFinal", 0), Msg("AuthOk", 0), Msg("ParameterStatus", 0), Msg("KeyData", 0),
               Msg("ReadyForQuery", 0)>>
  BY DEF Answers, Logins
<1>2. CASE a \in {<<Msg("AuthPassword", 0)>>, <<Msg("AuthSASL", 0)>>, <<Msg("AuthContinue", 0)>>}
  <2>1. PICK t \in Asks : a = <<Msg(t, 0)>>
    BY <1>2 DEF Asks
  <2>2. Msg(t, 0) \in ToClient /\ Msg(t, 0).n = 0 /\ Msg(t, 0).type = t
    BY ZeroRequest, MsgFacts DEF Types
  <2> QED BY <2>1, <2>2
<1>3. CASE a = Accepted
  BY <1>3, ZeroRequest, PlainMessages, Round4 DEF Accepted
<1>4. CASE a = <<Msg("AuthFinal", 0), Msg("AuthOk", 0), Msg("ParameterStatus", 0), Msg("KeyData", 0),
                Msg("ReadyForQuery", 0)>>
  BY <1>4, ZeroRequest, PlainMessages, Round5
<1> QED BY <1>1, <1>2, <1>3, <1>4

\* It answers a request with one round.
LEMMA OpAnswers ==
    ASSUME NEW m \in ToServer, m.type \in Ops, NEW a \in Answers(m)
    PROVE  Round(a, m.n)
<1> DEFINE n == m.n
<1>0. n \in Requests
  BY DEF ToServer
<1>1. \/ a = <<Msg("ErrorResponse", n), Msg("ReadyForQuery", n)>>
      \/ a = <<Msg("ParseComplete", n), Msg("ReadyForQuery", n)>>
      \/ a = <<Msg("DataRow", n), Msg("CommandComplete", n), Msg("ReadyForQuery", n)>>
      \/ a = <<Msg("DataRow", n), Msg("ErrorResponse", n), Msg("ReadyForQuery", n)>>
      \/ a = <<Msg("BindComplete", n), Msg("DataRow", n), Msg("CommandComplete", n), Msg("ReadyForQuery", n)>>
  BY DEF Answers, Ops
<1> HIDE DEF n
<1>2. CASE a = <<Msg("ErrorResponse", n), Msg("ReadyForQuery", n)>>
  BY <1>0, <1>2, PlainMessages, Round2 DEF n
<1>3. CASE a = <<Msg("ParseComplete", n), Msg("ReadyForQuery", n)>>
  BY <1>0, <1>3, PlainMessages, Round2 DEF n
<1>4. CASE a = <<Msg("DataRow", n), Msg("CommandComplete", n), Msg("ReadyForQuery", n)>>
  BY <1>0, <1>4, PlainMessages, Round3 DEF n
<1>5. CASE a = <<Msg("DataRow", n), Msg("ErrorResponse", n), Msg("ReadyForQuery", n)>>
  BY <1>0, <1>5, PlainMessages, Round3 DEF n
<1>6. CASE a = <<Msg("BindComplete", n), Msg("DataRow", n), Msg("CommandComplete", n), Msg("ReadyForQuery", n)>>
  BY <1>0, <1>6, PlainMessages, Round4 DEF n
<1> QED BY <1>1, <1>2, <1>3, <1>4, <1>5, <1>6

-----------------------------------------------------------------------------
(* Calls that end or open a session, and calls that fail *)

LEMMA NoCallFacts ==
    /\ NoCall \in Calls /\ NoCall.op = "none" /\ NoCall.n = 0
    /\ call' = NoCall => ~Connecting' /\ ~Draining'
    /\ call = NoCall => ~Connecting /\ ~Draining
<1>1. NoCall \in Calls /\ NoCall.op = "none" /\ NoCall.n = 0
  BY ZeroRequest DEF NoCall, Calls
<1> QED BY <1>1 DEF Connecting, Draining

LEMMA EndSession ==
    ASSUME ConnInv, Close \/ ConnectFails \/ AuthFails
    PROVE  ConnInv'
<1>1. /\ state' = "Disconnected" /\ call' = NoCall /\ c2s' = << >> /\ s2c' = << >> /\ up' = FALSE
      /\ epoch' \in {epoch + 1, epoch + 2}
      /\ UNCHANGED <<handles, done, method, parsed, completed, requests>>
  BY DEF Close, ConnectFails, AuthFails, Disconnect, counters
<1>2. TypeOK'
  <2>1. handles' \subseteq [name : Names, epoch : 1 .. epoch'] /\ epoch' \in Nat
    BY <1>1, SMTT(60) DEF ConnInv, TypeOK
  <2> QED BY <1>1, <2>1, NoCallFacts DEF ConnInv, TypeOK, States
<1>3. Wire'
  BY <1>1, NoCallFacts, SMTT(60) DEF ConnInv, Wire, TypeOK
<1> QED BY <1>1, <1>2, <1>3, NoCallFacts
        DEF ConnInv, LoginInv, RoundInv, ReadyInv, HandlesInv, OwnAnswer

LEMMA StartSession ==
    ASSUME ConnInv, Connect
    PROVE  ConnInv'
<1>1. /\ state' = "Authenticating" /\ call' = [NoCall EXCEPT !.op = "connect"] /\ up' = TRUE
      /\ c2s' = <<Msg("Startup", 0)>> /\ s2c' = << >> /\ epoch' = epoch + 1
      /\ method' \in Methods /\ parsed' = {} /\ UNCHANGED <<handles, done, completed, requests>>
  BY DEF Connect
<1>2. call' \in Calls /\ call'.op = "connect"
  BY <1>1, ZeroRequest DEF NoCall, Calls
<1>3. Connecting' /\ ~Draining'
  BY <1>2 DEF Connecting, Draining
<1>4. /\ handles' \subseteq [name : Names, epoch : 1 .. epoch'] /\ epoch' \in Nat
      /\ \A h \in handles' : h.epoch # epoch'
  BY <1>1, SMTT(60) DEF ConnInv, TypeOK
<1>5. TypeOK'
  BY <1>1, <1>2, <1>3, <1>4 DEF ConnInv, TypeOK, States
<1>6. Msg("Startup", 0) \in ToServer /\ Msg("Startup", 0).n = 0 /\ Msg("Startup", 0).type \in Logins
  BY ZeroRequest DEF Msg, ToServer, Logins
<1>7. Wire' /\ Len(c2s') = 1 /\ c2s'[1] = Msg("Startup", 0)
  BY <1>1, <1>2, <1>6, SMTT(60) DEF ConnInv, Wire, TypeOK
<1>8. LoginInv'
  BY <1>1, <1>6, <1>7, SMTT(60) DEF LoginInv
<1> QED BY <1>1, <1>3, <1>4, <1>5, <1>7, <1>8
        DEF ConnInv, RoundInv, ReadyInv, HandlesInv, OwnAnswer

\* A new handle carries the epoch of the connection.
LEMMA HandleFacts ==
    ASSUME ConnInv, NEW name \in Names, handles' \in {handles, handles \cup {Handle(name)}}, epoch' = epoch
    PROVE  /\ handles' \subseteq [name : Names, epoch : 1 .. epoch']
           /\ epoch' \in Nat
BY SMTT(60) DEF ConnInv, TypeOK, Wire, Handle

LEMMA FinishFacts ==
    ASSUME ConnInv, NEW c \in Calls, c.op = "prepare" => c.name \in Names,
           NEW err \in BOOLEAN, NEW st \in {"Ready", "Error"}, Finish(c, err, st),
           UNCHANGED <<epoch, up, method, parsed, completed>>
    PROVE  /\ TypeOK' /\ state' = st /\ call' = NoCall /\ ~Connecting' /\ ~Draining'
           /\ \A d \in done' : d.n = c.n /\ d.from = c.from /\ d.ok = ~err
<1>1. /\ call' = NoCall /\ state' = st
      /\ done' = {[n |-> c.n, from |-> c.from, ok |-> ~err]}
      /\ handles' \in {handles, handles \cup {Handle(c.name)}}
      /\ c.op # "prepare" => handles' = handles
  BY DEF Finish
<1>2. [n |-> c.n, from |-> c.from, ok |-> ~err] \in [n : Requests, from : SUBSET Requests, ok : BOOLEAN]
  BY DEF Calls
<1>3. handles' \subseteq [name : Names, epoch : 1 .. epoch']
  BY <1>1, HandleFacts DEF ConnInv, TypeOK
<1>4. ~Connecting' /\ ~Draining'
  BY <1>1, NoCallFacts
<1>5. TypeOK'
  BY <1>1, <1>2, <1>3, <1>4, NoCallFacts DEF ConnInv, TypeOK, States
<1> QED BY <1>1, <1>4, <1>5, SMTT(60)

\* A call that fails leaves the state Error, and nothing depends on the socket.
LEMMA FailCall ==
    ASSUME ConnInv, NEW c \in Calls, c.op = "prepare" => c.name \in Names, c.from \subseteq {c.n},
           Finish(c, TRUE, "Error"), requests' \in Requests,
           UNCHANGED <<epoch, c2s, s2c, up, method, parsed, completed>>
    PROVE  ConnInv'
<1>1. /\ TypeOK' /\ state' = "Error" /\ call' = NoCall /\ ~Connecting' /\ ~Draining'
      /\ \A d \in done' : d.n = c.n /\ d.from = c.from /\ d.ok = ~TRUE
  BY FinishFacts
<1>2. Wire'
  BY <1>1, NoCallFacts DEF ConnInv, Wire
<1>3. OwnAnswer'
  BY <1>1 DEF OwnAnswer
<1> QED BY <1>1, <1>2, <1>3 DEF ConnInv, LoginInv, RoundInv, ReadyInv, HandlesInv

LEMMA DrainFailsStep ==
    ASSUME ConnInv, DrainFails
    PROVE  ConnInv'
<1>1. /\ call \in Calls /\ call.from \subseteq {call.n}
      /\ call.op = "prepare" => call.name \in Names
  BY DEF DrainFails, ConnInv, TypeOK, RoundInv, Wire
<1>2. /\ Finish(call, TRUE, "Error") /\ requests' \in Requests
      /\ UNCHANGED <<epoch, c2s, s2c, up, method, parsed, completed>>
  BY DEF DrainFails, serverVars, counters, ConnInv, Wire
<1> QED BY <1>1, <1>2, FailCall

LEMMA NotReadyStep ==
    ASSUME ConnInv, NEW name \in Names, NotReady(name)
    PROVE  ConnInv'
<1>1. /\ call = NoCall /\ state # "Ready" /\ handles' = handles \cup {Handle(name)}
      /\ UNCHANGED <<state, epoch, call, done, c2s, s2c, up, method, parsed, completed, requests>>
  BY DEF NotReady, serverVars, counters
<1>2. handles' \subseteq [name : Names, epoch : 1 .. epoch']
  BY <1>1, HandleFacts
<1>3. ~Connecting /\ ~Draining /\ ~Connecting' /\ ~Draining'
  BY <1>1, NoCallFacts
<1>4. TypeOK'
  BY <1>1, <1>2, <1>3 DEF ConnInv, TypeOK
<1>5. state' \notin {"Authenticating", "Ready", "Busy"}
  BY <1>1, <1>3 DEF ConnInv, TypeOK
<1> QED BY <1>1, <1>3, <1>4, <1>5
        DEF ConnInv, Wire, LoginInv, RoundInv, ReadyInv, HandlesInv, OwnAnswer

-----------------------------------------------------------------------------
(* A request is sent *)

LEMMA BeginStep ==
    ASSUME ConnInv, NEW op \in Ops, NEW name \in Names \cup {""},
           op = "prepare" => name \in Names, Begin(op, name)
    PROVE  ConnInv'
<1> DEFINE n == requests + 1
           c == [op |-> op, n |-> n, name |-> name, from |-> {}, err |-> FALSE]
           m == [type |-> op, n |-> n, name |-> name]
<1>0. /\ state = "Ready" /\ requests' = n /\ requests < MaxRequests
      /\ UNCHANGED <<epoch, s2c, up, method, parsed, completed>>
  BY DEF Begin, serverVars
<1>1. n \in Requests
  BY <1>0, NextRequest DEF ConnInv, Wire
<1>2. /\ c \in Calls /\ c.op = op /\ c.n = n /\ c.name = name /\ c.from = {}
      /\ m \in ToServer /\ m.type = op /\ m.n = n /\ m.name = name
  <2> HIDE DEF n
  <2> QED BY <1>1 DEF Calls, Ops, ToServer
<1>3. \/ /\ state' = "Busy" /\ call' = c /\ UNCHANGED <<handles, done>>
         /\ c2s' = IF up THEN Append(c2s, m) ELSE c2s
      \/ Finish(c, TRUE, "Error") /\ UNCHANGED c2s
  BY DEF Begin
<1>4. c2s = << >> /\ Quiet
  BY <1>0 DEF ConnInv, ReadyInv
<1> HIDE DEF c, m
<1>5. CASE Finish(c, TRUE, "Error") /\ UNCHANGED c2s
  BY <1>0, <1>1, <1>2, <1>5, FailCall
<1>6. CASE /\ state' = "Busy" /\ call' = c /\ UNCHANGED <<handles, done>>
           /\ c2s' = IF up THEN Append(c2s, m) ELSE c2s
  <2>1. ~Connecting' /\ Draining'
    BY <1>2, <1>6 DEF Connecting, Draining, Ops
  <2>2. TypeOK'
    BY <1>0, <1>2, <1>6, <2>1 DEF ConnInv, TypeOK, States
  <2>3. c2s' = << >> \/ c2s' = Append(<< >>, m)
    BY <1>4, <1>6
  <2>4. /\ c2s' \in Seq(ToServer) /\ Len(c2s') <= 1
        /\ c2s' # << >> => c2s'[1] = m
    BY <1>2, <2>3, OneMessage
  <2>5. Wire'
    BY <1>0, <1>1, <1>2, <1>6, <2>4 DEF ConnInv, Wire
  <2>6. Quiet'
    BY <1>0, <1>4 DEF Quiet, Is
  <2>7. RoundInv'
    BY <1>2, <1>6, <2>4, <2>6 DEF RoundInv, Quiet, Is
  <2> QED BY <1>0, <1>6, <2>1, <2>2, <2>5, <2>7
          DEF ConnInv, LoginInv, ReadyInv, HandlesInv, OwnAnswer
<1> QED BY <1>3, <1>5, <1>6

-----------------------------------------------------------------------------
(* A message is read *)

\* During the login.
LEMMA AuthStepStep ==
    ASSUME ConnInv, AuthStep
    PROVE  ConnInv'
<1>0. /\ Connecting /\ s2c # << >> /\ s2c' = Tail(s2c)
      /\ UNCHANGED <<epoch, handles, done, up, method, parsed, completed, requests>>
  BY DEF AuthStep, serverVars, counters
<1>1. /\ s2c \in Seq(ToClient) /\ c2s \in Seq(ToServer) /\ call \in Calls
      /\ state = "Authenticating" /\ ~Draining
  BY <1>0 DEF ConnInv, Wire, TypeOK, Connecting, Draining
<1>2. /\ s2c' \in Seq(ToClient) /\ Len(s2c) \in Nat \ {0} /\ Len(s2c') = Len(s2c) - 1
      /\ DOMAIN s2c = 1 .. Len(s2c) /\ DOMAIN s2c' = 1 .. Len(s2c) - 1
      /\ \A i \in 1 .. Len(s2c) - 1 : s2c'[i] = s2c[i + 1]
      /\ Head(s2c) = s2c[1]
  BY <1>0, <1>1, TailFacts
<1>3. /\ c2s = << >>
      /\ \A i \in DOMAIN s2c : /\ s2c[i].n = 0
                               /\ Is(i, "ReadyForQuery") => i = Len(s2c)
                               /\ s2c[i].type \in Asks => Len(s2c) = 1
  BY <1>0 DEF ConnInv, LoginInv
<1>4. \A i \in DOMAIN s2c' :
         /\ s2c'[i].n = 0
         /\ s2c'[i].type = "ReadyForQuery" => i = Len(s2c')
         /\ s2c'[i].type \notin Asks
  <2> SUFFICES ASSUME NEW i \in DOMAIN s2c'
               PROVE  /\ s2c'[i].n = 0
                      /\ s2c'[i].type = "ReadyForQuery" => i = Len(s2c')
                      /\ s2c'[i].type \notin Asks
    OBVIOUS
  <2>1. s2c'[i] = s2c[i + 1] /\ i + 1 \in DOMAIN s2c /\ Len(s2c) # 1 /\ i \in Nat
    BY <1>2, SMTT(60)
  <2> QED BY <1>2, <1>3, <2>1, SMTT(60) DEF Is
<1>5. \/ /\ s2c[1].type \in Asks /\ UNCHANGED <<state, call>>
         /\ \E t \in Logins : Reply(t)
      \/ UNCHANGED <<c2s, state, call>>
      \/ s2c[1].type = "ReadyForQuery" /\ state' = "Ready" /\ call' = NoCall /\ UNCHANGED c2s
  BY <1>2 DEF AuthStep, Asks, Logins
<1>6. CASE s2c[1].type \in Asks /\ UNCHANGED <<state, call>> /\ \E t \in Logins : Reply(t)
  <2>1. PICK t \in Logins : Reply(t)
    BY <1>6
  <2>2. /\ Msg(t, 0) \in ToServer /\ Msg(t, 0).n = 0 /\ Msg(t, 0).type = t
    BY ZeroRequest DEF Msg, ToServer, Logins
  <2>3. c2s' = << >> \/ c2s' = Append(<< >>, Msg(t, 0))
    BY <1>3, <2>1 DEF Reply
  <2>4. /\ c2s' \in Seq(ToServer) /\ Len(c2s') <= 1
        /\ c2s' # << >> => c2s'[1] = Msg(t, 0)
    BY <2>2, <2>3, OneMessage
  <2>5. Len(s2c) = 1 /\ s2c' = << >>
    BY <1>2, <1>3, <1>6, SMTT(60)
  <2>6. LoginInv'
    BY <1>4, <2>2, <2>4, <2>5 DEF LoginInv, Is
  <2> QED BY <1>0, <1>1, <1>2, <1>6, <2>4, <2>6
          DEF ConnInv, TypeOK, Wire, RoundInv, ReadyInv, HandlesInv, OwnAnswer, Connecting, Draining
<1>7. CASE UNCHANGED <<c2s, state, call>>
  <2>1. c2s' = << >> /\ Len(c2s') = 0
    BY <1>3, <1>7
  <2>2. LoginInv'
    <3>1. Len(c2s') <= 1
      BY <2>1, SMTT(60)
    <3>2. c2s' # << >> => s2c' = << >> /\ c2s'[1].n = 0 /\ c2s'[1].type \in Logins
      BY <2>1
    <3>3. \A i \in DOMAIN s2c' :
             /\ s2c'[i].n = 0
             /\ s2c'[i].type = "ReadyForQuery" => i = Len(s2c')
             /\ s2c'[i].type \in Asks => Len(s2c') = 1
      BY <1>4
    <3> QED BY <3>1, <3>2, <3>3, Zenon DEF LoginInv, Is
  <2> QED BY <1>0, <1>1, <1>2, <1>7, <2>2
          DEF ConnInv, TypeOK, Wire, RoundInv, ReadyInv, HandlesInv, OwnAnswer, Connecting, Draining
<1>8. CASE s2c[1].type = "ReadyForQuery" /\ state' = "Ready" /\ call' = NoCall /\ UNCHANGED c2s
  <2>1. s2c' = << >>
    BY <1>2, <1>3, <1>8, SMTT(60) DEF Is
  <2>2. ~Connecting' /\ ~Draining' /\ call' \in Calls /\ call'.op = "none"
    BY <1>8, NoCallFacts
  <2>3. TypeOK'
    BY <1>0, <1>8, <2>2 DEF ConnInv, TypeOK, States
  <2>4. ReadyInv'
    BY <1>3, <1>8, <2>1, SMTT(60) DEF ReadyInv, Quiet
  <2> QED BY <1>0, <1>1, <1>2, <1>8, <2>2, <2>3, <2>4
          DEF ConnInv, Wire, LoginInv, RoundInv, HandlesInv, OwnAnswer
<1> QED BY <1>5, <1>6, <1>7, <1>8

\* What drain_until_ready() has gathered, after one more message.
LEMMA DrainedFacts ==
    ASSUME NEW c \in Calls, NEW m \in ToClient, c.from \subseteq {c.n}, m.n \in {0, c.n}
    PROVE  /\ Drained(c, m) \in Calls
           /\ Drained(c, m).op = c.op /\ Drained(c, m).n = c.n /\ Drained(c, m).name = c.name
           /\ Drained(c, m).from \subseteq {c.n}
           /\ Drained(c, m).err = (c.err \/ m.type = "ErrorResponse")
<1> DEFINE f == IF m.n = 0 THEN c.from ELSE c.from \cup {m.n}
           e == c.err \/ m.type = "ErrorResponse"
           d == Drained(c, m)
<1>1. f \in SUBSET Requests /\ f \subseteq {c.n}
  BY DEF Calls, ToClient
<1>2. e \in BOOLEAN
  OBVIOUS
<1>3. d = [c EXCEPT !.from = f, !.err = e]
  BY DEF Drained
<1> HIDE DEF f, e, d
<1>4. d \in Calls /\ d.op = c.op /\ d.n = c.n /\ d.name = c.name /\ d.from = f /\ d.err = e
  BY <1>1, <1>2, <1>3 DEF Calls
<1> QED BY <1>1, <1>4 DEF d, e

\* During a request.
LEMMA DrainStepStep ==
    ASSUME ConnInv, DrainStep
    PROVE  ConnInv'
<1> DEFINE m == s2c[1]
           c == Drained(call, m)
<1>0. /\ Draining /\ s2c # << >> /\ s2c' = Tail(s2c)
      /\ UNCHANGED <<epoch, c2s, up, method, parsed, completed, requests>>
  BY DEF DrainStep, serverVars, counters
<1>1. /\ s2c \in Seq(ToClient) /\ c2s \in Seq(ToServer) /\ call \in Calls
      /\ state = "Busy" /\ ~Connecting
  BY <1>0 DEF ConnInv, Wire, TypeOK, Connecting, Draining
<1>2. /\ s2c' \in Seq(ToClient) /\ Len(s2c) \in Nat \ {0}
      /\ DOMAIN s2c = 1 .. Len(s2c) /\ DOMAIN s2c' = 1 .. Len(s2c) - 1
      /\ \A i \in 1 .. Len(s2c) - 1 : s2c'[i] = s2c[i + 1]
      /\ Head(s2c) = m /\ m \in ToClient /\ 1 \in DOMAIN s2c
  BY <1>0, <1>1, TailFacts, SMTT(60)
<1>3. /\ call.from \subseteq {call.n} /\ Len(c2s) <= 1
      /\ c2s # << >> => /\ Quiet /\ c2s[1].n = call.n
                        /\ c2s[1].type = call.op /\ c2s[1].name = call.name
      /\ \A i \in DOMAIN s2c : s2c[i].n \in {0, call.n}
  BY <1>0 DEF ConnInv, RoundInv
<1>4. \A i \in DOMAIN s2c : Is(i, "ReadyForQuery") =>
         /\ \A j \in DOMAIN s2c : j > i => s2c[j].n = 0 /\ ~Is(j, "ReadyForQuery")
         /\ Served \/ call.err \/ \E j \in DOMAIN s2c : j < i /\ Is(j, "ErrorResponse")
  BY <1>0 DEF ConnInv, RoundInv
<1>5. /\ c \in Calls /\ c.op = call.op /\ c.n = call.n /\ c.name = call.name
      /\ c.from \subseteq {call.n} /\ c.err = (call.err \/ m.type = "ErrorResponse")
  BY <1>1, <1>2, <1>3, DrainedFacts
<1>6. \/ m.type = "ReadyForQuery" /\ Finish(c, c.err, "Ready")
      \/ m.type # "ReadyForQuery" /\ call' = c /\ UNCHANGED <<state, handles, done>>
  BY <1>2 DEF DrainStep
<1>7. c.op = "prepare" => c.name \in Names
  BY <1>5 DEF ConnInv, Wire
<1> HIDE DEF c, m
<1>8. \A i \in DOMAIN s2c' : i \in Nat /\ i + 1 \in DOMAIN s2c /\ s2c'[i] = s2c[i + 1]
  BY <1>2, SMTT(60)
<1>9. CASE m.type = "ReadyForQuery" /\ Finish(c, c.err, "Ready")
  <2>1. Is(1, "ReadyForQuery")
    BY <1>9 DEF Is, m
  <2>2. c2s = << >>
    BY <1>2, <1>3, <2>1 DEF Quiet
  <2>3. Quiet'
    <3> SUFFICES ASSUME NEW i \in DOMAIN s2c'
                 PROVE  s2c'[i].n = 0 /\ s2c'[i].type # "ReadyForQuery"
      BY DEF Quiet, Is
    <3>1. i + 1 > 1
      BY <1>2, SMTT(60)
    <3> QED BY <1>2, <1>4, <1>8, <2>1, <3>1, SMTT(60) DEF Is
  <2>4. Served \/ call.err
    BY <1>2, <1>4, <2>1, SMTT(60)
  <2>5. c.err \in BOOLEAN
    BY <1>5 DEF Calls
  <2>6. /\ TypeOK' /\ state' = "Ready" /\ call' = NoCall /\ ~Connecting' /\ ~Draining'
        /\ \A d \in done' : d.n = c.n /\ d.from = c.from /\ d.ok = ~c.err
    BY <1>0, <1>5, <1>7, <1>9, <2>5, FinishFacts
  <2>7. OwnAnswer'
    BY <1>0, <1>5, <2>4, <2>6 DEF OwnAnswer, Served
  <2>8. HandlesInv'
    <3>1. handles' = IF c.op = "prepare" /\ ~c.err THEN handles \cup {Handle(c.name)} ELSE handles
      BY <1>9 DEF Finish
    <3>2. c.op = "prepare" /\ ~c.err => c.name \in parsed
      BY <1>5, <2>4 DEF Served
    <3>3. \A h \in handles : h.epoch = epoch => h.name \in parsed
      BY <1>1 DEF ConnInv, HandlesInv
    <3>4. Handle(c.name).name = c.name
      BY DEF Handle
    <3> QED BY <1>0, <3>1, <3>2, <3>3, <3>4 DEF HandlesInv
  <2>9. Wire'
    BY <1>0, <1>1, <1>2, <2>6, NoCallFacts DEF ConnInv, Wire
  <2> QED BY <1>0, <2>2, <2>3, <2>6, <2>7, <2>8, <2>9 DEF ConnInv, LoginInv, RoundInv, ReadyInv
<1>10. CASE m.type # "ReadyForQuery" /\ call' = c /\ UNCHANGED <<state, handles, done>>
  <2>1. ~Connecting' /\ Draining'
    BY <1>0, <1>5, <1>10 DEF Connecting, Draining
  <2>2. TypeOK'
    BY <1>0, <1>1, <1>5, <1>10, <2>1 DEF ConnInv, TypeOK
  <2>3. Wire'
    BY <1>0, <1>1, <1>2, <1>7, <1>10 DEF ConnInv, Wire
  <2>4. Quiet => Quiet'
    BY <1>8 DEF Quiet, Is
  <2>5. \A i \in DOMAIN s2c' : s2c'[i].n \in {0, c.n}
    BY <1>3, <1>5, <1>8
  <2>6. ASSUME NEW i \in DOMAIN s2c', s2c'[i].type = "ReadyForQuery"
        PROVE  /\ \A j \in DOMAIN s2c' : j > i => s2c'[j].n = 0 /\ s2c'[j].type # "ReadyForQuery"
               /\ Served' \/ c.err \/ \E j \in DOMAIN s2c' : j < i /\ s2c'[j].type = "ErrorResponse"
    <3>1. i \in Nat /\ i + 1 \in DOMAIN s2c /\ Is(i + 1, "ReadyForQuery")
      BY <1>8, <2>6 DEF Is
    <3>2. ASSUME NEW j \in DOMAIN s2c', j > i
          PROVE  s2c'[j].n = 0 /\ s2c'[j].type # "ReadyForQuery"
      <4>1. j \in Nat /\ j + 1 \in DOMAIN s2c /\ j + 1 > i + 1 /\ s2c'[j] = s2c[j + 1]
        BY <1>8, <3>1, <3>2, SMTT(60)
      <4> QED BY <1>4, <3>1, <4>1 DEF Is
    <3>3. Served => Served'
      BY <1>0, <1>5, <1>10 DEF Served
    <3>4. ASSUME NEW j \in DOMAIN s2c, j < i + 1, Is(j, "ErrorResponse")
          PROVE  c.err \/ \E k \in DOMAIN s2c' : k < i /\ s2c'[k].type = "ErrorResponse"
      <4>1. CASE j = 1
        BY <1>5, <3>4, <4>1 DEF Is, m
      <4>2. CASE j # 1
        <5>1. j - 1 \in DOMAIN s2c' /\ j - 1 < i /\ s2c'[j - 1] = s2c[j]
          BY <1>2, <3>1, <3>4, <4>2, SMTT(60)
        <5> QED BY <3>4, <5>1 DEF Is
      <4> QED BY <4>1, <4>2
    <3>5. call.err => c.err
      BY <1>5
    <3> QED BY <1>4, <3>1, <3>2, <3>3, <3>4, <3>5
  <2>7. RoundInv'
    BY <1>0, <1>3, <1>5, <1>10, <2>4, <2>5, <2>6 DEF RoundInv, Is
  <2> QED BY <1>0, <1>1, <1>10, <2>1, <2>2, <2>3, <2>7
          DEF ConnInv, LoginInv, ReadyInv, HandlesInv, OwnAnswer
<1> QED BY <1>6, <1>9, <1>10

-----------------------------------------------------------------------------
(* The server's steps *)

\* An answer, and whether it has an error.
NoError(a) == \A i \in DOMAIN a : a[i].type # "ErrorResponse"

LEMMA LoginServed ==
    ASSUME NEW a \in Seq(ToClient), s2c = << >>, s2c' = s2c \o a, c2s' = << >>,
           Round(a, 0) \/ \E x \in ToClient : x.n = 0 /\ x.type \in Asks /\ a = <<x>>
    PROVE  LoginInv'
<1>1. s2c' = a /\ Len(a) \in Nat /\ DOMAIN a = 1 .. Len(a)
  BY ConcatFacts, SMTT(60)
<1>2. CASE Round(a, 0)
  BY <1>1, <1>2, SMTT(60) DEF LoginInv, Round, Is
<1>3. CASE \E x \in ToClient : x.n = 0 /\ x.type \in Asks /\ a = <<x>>
  <2>1. PICK x \in ToClient : x.n = 0 /\ x.type \in Asks /\ a = <<x>>
    BY <1>3
  <2>2. Len(a) = 1 /\ DOMAIN a = {1} /\ a[1] = x
    BY <2>1, SMTT(60)
  <2> QED BY <1>1, <2>1, <2>2, SMTT(60) DEF LoginInv, Is, Asks
<1> QED BY <1>2, <1>3

LEMMA RequestServed ==
    ASSUME ConnInv, Draining, Quiet, call' = call, c2s' = << >>,
           NEW a, Round(a, call.n), s2c' = s2c \o a, NoError(a) => Served'
    PROVE  RoundInv'
<1>1. s2c \in Seq(ToClient) /\ a \in Seq(ToClient) /\ call.from \subseteq {call.n}
  BY DEF ConnInv, Wire, Round, RoundInv
<1> DEFINE k == Len(s2c)
           l == Len(a)
<1>2. /\ k \in Nat /\ l \in Nat /\ DOMAIN s2c = 1 .. k /\ DOMAIN a = 1 .. l
      /\ DOMAIN s2c' = 1 .. k + l
      /\ \A i \in 1 .. k : s2c'[i] = s2c[i]
      /\ \A i \in k + 1 .. k + l : s2c'[i] = a[i - k]
  BY <1>1, ConcatFacts, SMTT(60)
<1> HIDE DEF k, l
<1>3. \A i \in 1 .. k : s2c'[i].n = 0 /\ s2c'[i].type # "ReadyForQuery"
  BY <1>2 DEF Quiet, Is
<1>4. \A i \in k + 1 .. k + l : /\ s2c'[i].n = call.n
                                /\ s2c'[i].type = "ReadyForQuery" => i = k + l
  <2> SUFFICES ASSUME NEW i \in k + 1 .. k + l
               PROVE  s2c'[i].n = call.n /\ (s2c'[i].type = "ReadyForQuery" => i = k + l)
    OBVIOUS
  <2>1. i - k \in DOMAIN a /\ s2c'[i] = a[i - k]
    BY <1>2, SMTT(60)
  <2>2. a[i - k].n = call.n /\ (a[i - k].type = "ReadyForQuery" => i - k = l)
    BY <2>1 DEF Round, l
  <2> QED BY <1>2, <2>1, <2>2, SMTT(60)
<1>5. \A i \in DOMAIN s2c' : i \in 1 .. k \/ i \in k + 1 .. k + l
  BY <1>2, SMTT(60)
<1>6. ~NoError(a) => \E j \in DOMAIN s2c' : j < k + l /\ s2c'[j].type = "ErrorResponse"
  <2> SUFFICES ASSUME NEW i \in DOMAIN a, a[i].type = "ErrorResponse"
               PROVE  \E j \in DOMAIN s2c' : j < k + l /\ s2c'[j].type = "ErrorResponse"
    BY DEF NoError
  <2>1. i # l
    BY DEF Round, l
  <2>2. k + i \in DOMAIN s2c' /\ k + i < k + l /\ s2c'[k + i] = a[i]
    BY <1>2, <2>1, SMTT(60)
  <2> QED BY <2>2
<1>7. \A i \in DOMAIN s2c' : s2c'[i].n \in {0, call.n}
  BY <1>3, <1>4, <1>5
<1>8. ASSUME NEW i \in DOMAIN s2c', s2c'[i].type = "ReadyForQuery"
      PROVE  /\ \A j \in DOMAIN s2c' : j > i => s2c'[j].n = 0 /\ s2c'[j].type # "ReadyForQuery"
             /\ Served' \/ call.err \/ \E j \in DOMAIN s2c' : j < i /\ s2c'[j].type = "ErrorResponse"
  <2>1. i = k + l
    BY <1>3, <1>4, <1>5, <1>8
  <2>2. \A j \in DOMAIN s2c' : ~(j > i)
    BY <1>2, <2>1, SMTT(60)
  <2> QED BY <1>6, <2>1, <2>2
<1>9. Len(c2s') <= 1
  BY SMTT(60)
<1> QED BY <1>1, <1>7, <1>8, <1>9 DEF RoundInv, Is

LEMMA ServeStep ==
    ASSUME ConnInv, Serve
    PROVE  ConnInv'
<1> DEFINE m == c2s[1]
<1>1. /\ c2s # << >> /\ c2s' = Tail(c2s)
      /\ UNCHANGED <<state, epoch, call, handles, done, up, method, requests>>
  BY DEF Serve, clientVars, counters
<1>2. c2s \in Seq(ToServer) /\ s2c \in Seq(ToClient)
  BY DEF ConnInv, Wire
<1>3. /\ c2s' \in Seq(ToServer) /\ Head(c2s) = m /\ m \in ToServer
      /\ Len(c2s) \in Nat \ {0} /\ Len(c2s') = Len(c2s) - 1
  BY <1>1, <1>2, TailFacts
<1>4. PICK a \in Answers(m) :
         /\ s2c' = s2c \o a
         /\ parsed' = IF NoError(a) /\ m.type = "prepare" THEN parsed \cup {m.name} ELSE parsed
         /\ completed' = IF NoError(a) THEN completed \cup {m.n} ELSE completed
  BY <1>3 DEF Serve, NoError
<1>5. /\ m.type \in Logins \cup Ops /\ m.n \in Requests
      /\ m.type = "prepare" => m.name \in Names
  BY <1>3 DEF ToServer
<1> HIDE DEF m
<1>6. m.type \in Logins => Round(a, 0) \/ \E x \in ToClient : x.n = 0 /\ x.type \in Asks /\ a = <<x>>
  BY <1>3, LoginAnswers
<1>7. m.type \in Ops => Round(a, m.n)
  BY <1>3, OpAnswers
<1>8. a \in Seq(ToClient)
  <2>1. (\E x \in ToClient : a = <<x>>) => a \in Seq(ToClient)
    BY SMTT(60)
  <2> QED BY <1>5, <1>6, <1>7, <2>1 DEF Round
<1>9. Wire'
  BY <1>1, <1>2, <1>3, <1>4, <1>8, ConcatFacts DEF ConnInv, Wire
<1>10. parsed \subseteq parsed' /\ parsed' \subseteq Names /\ completed \subseteq completed' /\ completed' \subseteq Requests
  BY <1>4, <1>5 DEF ConnInv, TypeOK
<1>11. TypeOK'
  BY <1>1, <1>10 DEF ConnInv, TypeOK, Connecting, Draining
<1>12. ReadyInv'
  BY <1>1 DEF ConnInv, ReadyInv
<1>13. LoginInv'
  <2>1. CASE ~Connecting
    BY <1>1, <2>1 DEF LoginInv, Connecting
  <2>2. CASE Connecting
    <3>1. Len(c2s) <= 1 /\ s2c = << >> /\ m.type \in Logins
      BY <1>1, <2>2 DEF ConnInv, LoginInv, m
    <3>2. c2s' = << >>
      BY <1>3, <3>1, SMTT(60)
    <3> QED BY <1>4, <1>6, <1>8, <3>1, <3>2, LoginServed
  <2> QED BY <2>1, <2>2
<1>14. RoundInv'
  <2>1. CASE ~Draining
    BY <1>1, <2>1 DEF RoundInv, Draining
  <2>2. CASE Draining
    <3>1. /\ Len(c2s) <= 1 /\ Quiet
          /\ m.n = call.n /\ m.type = call.op /\ m.name = call.name
      BY <1>1, <2>2 DEF ConnInv, RoundInv, m
    <3>2. c2s' = << >>
      BY <1>3, <3>1, SMTT(60)
    <3>3. Round(a, call.n)
      BY <1>7, <2>2, <3>1 DEF Draining, Ops
    <3>4. NoError(a) => Served'
      BY <1>1, <1>4, <3>1 DEF Served
    <3> QED BY <1>1, <1>4, <2>2, <3>1, <3>2, <3>3, <3>4, RequestServed
  <2> QED BY <2>1, <2>2
<1> QED BY <1>1, <1>9, <1>10, <1>11, <1>12, <1>13, <1>14 DEF ConnInv, HandlesInv, OwnAnswer

LEMMA PushStep ==
    ASSUME ConnInv, Push
    PROVE  ConnInv'
<1> DEFINE m == Msg("NoticeResponse", 0)
           k == Len(s2c)
<1>1. /\ state \in {"Ready", "Busy"} /\ s2c' = Append(s2c, m)
      /\ UNCHANGED <<state, epoch, call, handles, done, c2s, up, method, parsed, completed, requests>>
  BY DEF Push, clientVars, serverVars
<1>2. m \in ToClient /\ m.n = 0 /\ m.type = "NoticeResponse"
  BY ZeroRequest, MsgFacts DEF Types
<1> HIDE DEF m
<1>3. /\ s2c' \in Seq(ToClient) /\ k \in Nat /\ DOMAIN s2c = 1 .. k /\ DOMAIN s2c' = 1 .. k + 1
      /\ s2c'[k + 1] = m /\ \A i \in 1 .. k : s2c'[i] = s2c[i]
  BY <1>1, <1>2, AppendFacts, SMTT(30) DEF ConnInv, Wire
<1> HIDE DEF k
<1>4. /\ \A i \in DOMAIN s2c : i \in DOMAIN s2c' /\ s2c'[i] = s2c[i] /\ i \in Nat
      /\ \A i \in DOMAIN s2c' : i \in DOMAIN s2c \/ (i = k + 1 /\ s2c'[i] = m)
  BY <1>3, SMTT(60)
<1>5. \A i \in DOMAIN s2c' :
         i \in DOMAIN s2c \/ (s2c'[i].n = 0 /\ s2c'[i].type # "ReadyForQuery")
  BY <1>2, <1>4
<1>6. Quiet => Quiet'
  BY <1>4, <1>5 DEF Quiet, Is
<1>7. ~Connecting /\ ~Connecting'
  BY <1>1 DEF ConnInv, TypeOK, Connecting
<1>8. Served => Served'
  BY <1>1 DEF Served
<1>9. RoundInv'
  <2> SUFFICES ASSUME Draining' PROVE RoundInv'
    BY DEF RoundInv
  <2>1. Draining
    BY <1>1 DEF Draining
  <2>2. ASSUME NEW i \in DOMAIN s2c', s2c'[i].type = "ReadyForQuery"
        PROVE  /\ \A j \in DOMAIN s2c' : j > i => s2c'[j].n = 0 /\ s2c'[j].type # "ReadyForQuery"
               /\ Served' \/ call.err \/ \E j \in DOMAIN s2c' : j < i /\ s2c'[j].type = "ErrorResponse"
    <3>1. i \in DOMAIN s2c /\ Is(i, "ReadyForQuery")
      BY <1>4, <1>5, <2>2 DEF Is
    <3>2. /\ \A j \in DOMAIN s2c : j > i => s2c[j].n = 0 /\ s2c[j].type # "ReadyForQuery"
          /\ Served \/ call.err \/ \E j \in DOMAIN s2c : j < i /\ s2c[j].type = "ErrorResponse"
      BY <2>1, <3>1 DEF ConnInv, RoundInv, Is
    <3> QED BY <1>4, <1>5, <1>8, <3>2
  <2>3. \A i \in DOMAIN s2c' : s2c'[i].n \in {0, call.n}
    BY <1>4, <1>5, <2>1 DEF ConnInv, RoundInv
  <2>4. /\ call.from \subseteq {call.n} /\ Len(c2s) <= 1
        /\ c2s # << >> => /\ Quiet /\ c2s[1].n = call.n
                          /\ c2s[1].type = call.op /\ c2s[1].name = call.name
    BY <2>1 DEF ConnInv, RoundInv
  <2> QED BY <1>1, <1>6, <2>2, <2>3, <2>4 DEF RoundInv, Is
<1>10. TypeOK' /\ Wire'
  BY <1>1, <1>3 DEF ConnInv, TypeOK, Wire, Connecting, Draining
<1> QED BY <1>1, <1>6, <1>7, <1>9, <1>10 DEF ConnInv, LoginInv, ReadyInv, HandlesInv, OwnAnswer

\* What has arrived of a stream keeps its order, and its ReadyForQuery still
\* has everything before it.
LEMMA DieStep ==
    ASSUME ConnInv, Die
    PROVE  ConnInv'
<1>1. PICK k \in 0 .. Len(s2c) : s2c' = SubSeq(s2c, 1, k)
  BY DEF Die
<1>2. /\ c2s' = << >> /\ Len(c2s') = 0 /\ up' = FALSE
      /\ UNCHANGED <<state, epoch, call, handles, done, method, parsed, completed, requests>>
  BY DEF Die, clientVars, counters
<1>3. /\ s2c' \in Seq(ToClient) /\ Len(s2c) \in Nat /\ Len(s2c') = k
      /\ DOMAIN s2c = 1 .. Len(s2c) /\ DOMAIN s2c' = 1 .. k
      /\ \A i \in 1 .. k : s2c'[i] = s2c[i]
  BY <1>1, PrefixFacts, SMTT(60) DEF ConnInv, Wire
<1>4. \A i \in DOMAIN s2c' : i \in DOMAIN s2c /\ s2c'[i] = s2c[i] /\ i \in Nat /\ i <= k
  BY <1>1, <1>3, SMTT(60)
<1>5. TypeOK' /\ Wire'
  <2>1. TypeOK'
    BY <1>2 DEF ConnInv, TypeOK, Connecting, Draining
  <2>2. c2s' \in Seq(ToServer)
    BY <1>2, SMTT(60)
  <2>3. Wire'
    BY <1>2, <1>3, <2>2 DEF ConnInv, Wire
  <2> QED BY <2>1, <2>3
<1>6. ReadyInv'
  BY <1>2, <1>4 DEF ConnInv, ReadyInv, Quiet, Is
<1>7. LoginInv'
  <2> SUFFICES ASSUME Connecting'
               PROVE  \A i \in DOMAIN s2c' :
                         /\ s2c'[i].n = 0
                         /\ s2c'[i].type = "ReadyForQuery" => i = Len(s2c')
                         /\ s2c'[i].type \in Asks => Len(s2c') = 1
    BY <1>2, SMTT(60) DEF LoginInv, Is
  <2>1. Connecting
    BY <1>2 DEF Connecting
  <2> TAKE i \in DOMAIN s2c'
  <2>2. /\ s2c[i].n = 0
        /\ s2c[i].type = "ReadyForQuery" => i = Len(s2c)
        /\ s2c[i].type \in Asks => Len(s2c) = 1
    BY <1>4, <2>1 DEF ConnInv, LoginInv, Is
  <2>3. i \in 1 .. k /\ k \in 0 .. Len(s2c)
    BY <1>1, <1>3
  <2> QED BY <1>3, <1>4, <2>2, <2>3, SMTT(60)
<1>8. Served => Served'
  BY <1>2 DEF Served
<1>9. RoundInv'
  <2> SUFFICES ASSUME Draining' PROVE RoundInv'
    BY DEF RoundInv
  <2>1. Draining
    BY <1>2 DEF Draining
  <2>2. ASSUME NEW i \in DOMAIN s2c', s2c'[i].type = "ReadyForQuery"
        PROVE  /\ \A j \in DOMAIN s2c' : j > i => s2c'[j].n = 0 /\ s2c'[j].type # "ReadyForQuery"
               /\ Served' \/ call.err \/ \E j \in DOMAIN s2c' : j < i /\ s2c'[j].type = "ErrorResponse"
    <3>1. i \in DOMAIN s2c /\ Is(i, "ReadyForQuery")
      BY <1>4, <2>2 DEF Is
    <3>2. /\ \A j \in DOMAIN s2c : j > i => s2c[j].n = 0 /\ s2c[j].type # "ReadyForQuery"
          /\ Served \/ call.err \/ \E j \in DOMAIN s2c : j < i /\ s2c[j].type = "ErrorResponse"
      BY <2>1, <3>1 DEF ConnInv, RoundInv, Is
    <3>3. \A j \in DOMAIN s2c : j < i => j \in DOMAIN s2c' /\ s2c'[j] = s2c[j]
      BY <1>3, SMTT(60)
    <3> QED BY <1>4, <1>8, <3>2, <3>3
  <2>3. \A i \in DOMAIN s2c' : s2c'[i].n \in {0, call.n}
    BY <1>4, <2>1 DEF ConnInv, RoundInv
  <2>4. call.from \subseteq {call.n}
    BY <2>1 DEF ConnInv, RoundInv
  <2> QED BY <1>2, <2>2, <2>3, <2>4, SMTT(60) DEF RoundInv, Is
<1> QED BY <1>2, <1>5, <1>6, <1>7, <1>9 DEF ConnInv, HandlesInv, OwnAnswer

-----------------------------------------------------------------------------
(* The theorems *)

LEMMA ConnInvInit == Init => ConnInv
<1> SUFFICES ASSUME Init PROVE ConnInv
  OBVIOUS
<1> USE DEF Init
<1>1. ~Connecting /\ ~Draining /\ call \in Calls /\ call.op = "none"
  BY NoCallFacts
<1>2. "trust" \in Methods
  BY ConnAssumption
<1>3. TypeOK
  BY <1>1, <1>2 DEF TypeOK, States
<1>4. Wire
  BY <1>1, ZeroRequest, SMTT(60) DEF Wire
<1> QED BY <1>1, <1>3, <1>4 DEF ConnInv, LoginInv, RoundInv, ReadyInv, HandlesInv, OwnAnswer

LEMMA ConnInvNext == ConnInv /\ [Next]_vars => ConnInv'
<1> SUFFICES ASSUME ConnInv, [Next]_vars PROVE ConnInv'
  OBVIOUS
<1>1. CASE Close \/ ConnectFails \/ AuthFails
  BY <1>1, EndSession
<1>2. CASE Connect
  BY <1>2, StartSession
<1>3. CASE AuthStep
  BY <1>3, AuthStepStep
<1>4. CASE Exec
  BY <1>4, BeginStep DEF Exec, Ops
<1>5. CASE DrainStep
  BY <1>5, DrainStepStep
<1>6. CASE DrainFails
  BY <1>6, DrainFailsStep
<1>7. ASSUME NEW name \in Names, Prepare(name)
      PROVE  ConnInv'
  BY <1>7, BeginStep DEF Prepare, Ops
<1>8. ASSUME NEW name \in Names, NotReady(name)
      PROVE  ConnInv'
  BY <1>8, NotReadyStep
<1>9. ASSUME NEW h \in handles, ExecPrepared(h)
      PROVE  ConnInv'
  <2>1. h.name \in Names
    BY DEF ConnInv, TypeOK
  <2> QED BY <1>9, <2>1, BeginStep DEF ExecPrepared, Ops
<1>10. CASE Serve
  BY <1>10, ServeStep
<1>11. CASE Push
  BY <1>11, PushStep
<1>12. CASE Die
  BY <1>12, DieStep
<1>13. CASE UNCHANGED vars
  BY <1>13, SMTT(30) DEF vars, clientVars, serverVars, counters, ConnInv, TypeOK, Wire, LoginInv, RoundInv, ReadyInv,
               HandlesInv, OwnAnswer, Connecting, Draining, Quiet, Is, Served
<1> QED BY <1>1, <1>2, <1>3, <1>4, <1>5, <1>6, <1>7, <1>8, <1>9, <1>10, <1>11, <1>12, <1>13
        DEF Next, Client

LEMMA ConnInvHolds == Spec => []ConnInv
BY ConnInvInit, ConnInvNext, PTL DEF Spec

(* The state of the connection is the one its call has set, and every handle  *)
(* that prepare() returned has a name and an epoch the connection has had     *)
(* (connection.cpp:304, 614, 649, 682).                                       *)
THEOREM TypeCorrect == Spec => []TypeOK
<1>1. ConnInv => TypeOK
  BY DEF ConnInv
<1> QED BY <1>1, ConnInvHolds, PTL

(* A connection that is Ready has nothing of an earlier round in its socket,  *)
(* and a handle of its epoch names a statement of the session, whatever has   *)
(* timed out, broken or been refused before: only the ReadyForQuery that ends *)
(* the round of the request leaves drain_until_ready() with the state Ready.  *)
THEOREM ReadyInSync == Spec => []InSync
<1>1. ConnInv => InSync
  BY DEF ConnInv, InSync, ReadyInv, HandlesInv, Quiet
<1> QED BY <1>1, ConnInvHolds, PTL

(* The result of exec(), prepare() and exec_prepared() is made of messages of *)
(* the call's own round, and one without an error belongs to a request that   *)
(* the server has completed, for any number of requests and reconnects.       *)
THEOREM ResultsOwn == Spec => []OwnAnswer
<1>1. ConnInv => OwnAnswer
  BY DEF ConnInv
<1> QED BY <1>1, ConnInvHolds, PTL
=============================================================================
