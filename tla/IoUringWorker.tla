---------------------------- MODULE IoUringWorker ----------------------------
(***************************************************************************)
(* One worker of the HTTP server: IoUringWorker (src/spido/src/server/     *)
(* io_uring_server.cpp), the io_uring it drives, its connections and their *)
(* clients.  A step of the worker is the handling of one completion; what  *)
(* it queues is submitted when the completion queue has been drained.      *)
(*                                                                         *)
(* A request is the pair of its client and its number, and so is the       *)
(* response to it.  A socket is known by its client.  `fixed` is           *)
(* files_registered_: whether accepted sockets live in the ring's own file *)
(* table or are plain descriptors, which can be shut down.                 *)
(***************************************************************************)
EXTENDS Integers, Sequences, FiniteSets, FiniteSetsExt, SequencesExt

CONSTANTS
    NSlots,       \* size of the file table
    NBufs,        \* buffers of the provided-buffer ring (4096)
    Clients, None,
    Script,       \* Script[k]: the requests of client k, each "keep", "close" or "bad"
    Timeouts,     \* are the timeouts of ServerConfig set?
    Fixed,        \* values files_registered_ may have
    Pipelining    \* may a client send a request before it has its answers?

ASSUME WorkerAssumption ==
    /\ NSlots \in Nat \ {0} /\ NBufs \in Nat \ {0}
    /\ None \notin Clients /\ Fixed \subseteq BOOLEAN
    /\ \A k \in Clients : Script[k] \in Seq({"keep", "close", "bad"})
    /\ Timeouts \in BOOLEAN /\ Pipelining \in BOOLEAN

Slots == 1 .. NSlots
Answers(k) == [i \in DOMAIN Script[k] |-> <<k, i>>]

VARIABLES
    pc, stop_, stopper,    \* run(), stop_, and the thread that calls stop()
    conns, live,           \* conns_by_fd_, live_conns_
    accept_inflight, timer_inflight,
    sq,                    \* entries prepared and not yet submitted
    fixed,
    submitted, armed, cq,  \* the ring: to be started, under way, completed
    files,                 \* which socket a slot refers to
    bufs,                  \* buffers the kernel may fill
    efd,                   \* the eventfd is readable
    shut,                  \* sockets that were shut down
    peer, sent, read, got  \* clients: state, requests sent, those received
                           \* from the socket, responses that arrived

workerVars == <<pc, conns, live, accept_inflight, timer_inflight, sq>>
stopVars   == <<stop_, stopper>>
clientVars == <<peer, sent, got>>
vars == <<workerVars, stopVars, fixed, submitted, armed, cq, files, bufs, efd, shut, read, clientVars>>

NewConn == [fd |-> TRUE, in |-> << >>, out |-> << >>, recv |-> FALSE, send |-> FALSE,
            want |-> FALSE]

Sqe(op, s, pay) == [op |-> op, slot |-> s, pay |-> pay]
Cancel(op, s)   == [op |-> "Cancel", slot |-> s, target |-> op]
Cqe(op, s, k, res, more, pay) ==
    [op |-> op, slot |-> s, own |-> k, res |-> res, more |-> more, pay |-> pay]

Init ==
    /\ pc = "start" /\ stop_ = FALSE /\ stopper = "idle"
    /\ conns = [s \in Slots |-> None] /\ live = 0
    /\ accept_inflight = FALSE /\ timer_inflight = FALSE /\ sq = << >>
    /\ fixed \in Fixed
    /\ submitted = << >> /\ armed = {} /\ cq = << >>
    /\ files = [s \in Slots |-> None] /\ bufs = NBufs /\ efd = FALSE /\ shut = {}
    /\ peer = [k \in Clients |-> "new"]
    /\ sent = [k \in Clients |-> 0] /\ read = [k \in Clients |-> 0]
    /\ got = [k \in Clients |-> << >>]

-----------------------------------------------------------------------------
(* What the handlers are made of.  w.c is the connection, w.q what has been *)
(* prepared for the ring, w.shut whether the socket was shut down.          *)

SubmitRecv(s, w) ==
    IF w.c.recv \/ w.c.want \/ ~w.c.fd THEN w
    ELSE [w EXCEPT !.c.recv = TRUE, !.q = Append(@, Sqe("Recv", s, << >>))]

SubmitSend(s, w) ==
    IF w.c.send \/ ~w.c.fd \/ w.c.out = << >> THEN w
    ELSE [w EXCEPT !.c.send = TRUE, !.q = Append(@, Sqe("Send", s, w.c.out))]

CancelAndClose(s, w) ==
    LET recv == IF w.c.recv THEN <<Cancel("Recv", s)>> ELSE << >>
        send == IF w.c.send THEN <<Cancel("Send", s)>> ELSE << >>
    IN  [w EXCEPT !.c.fd = FALSE, !.q = @ \o recv \o send \o <<Sqe("Close", s, << >>)>>]

\* Mutant: every socket is shut down, one in the file table too.
CloseConnShutsAll(s, w, aborting) ==
    LET busy == w.c.recv \/ w.c.send
    IN  IF ~w.c.want \/ ~w.c.fd THEN w
        ELSE IF ~aborting /\ busy THEN [w EXCEPT !.shut = TRUE]
        ELSE IF ~aborting /\ w.c.out # << >> THEN w
        ELSE CancelAndClose(s, w)

\* close_conn(): while operations are under way a plain descriptor is shut
\* down and nothing more; otherwise they are cancelled and the file closed.
CloseConn(s, w, aborting) ==
    LET busy == w.c.recv \/ w.c.send
    IN  IF ~w.c.want \/ ~w.c.fd THEN w
        ELSE IF ~aborting /\ busy /\ ~fixed THEN [w EXCEPT !.shut = TRUE]
        ELSE IF ~aborting /\ ~busy /\ w.c.out # << >> THEN w
        ELSE CancelAndClose(s, w)

Kind(q) == Script[q[1]][q[2]]

\* process_input(), for requests that fit max_request_bytes: answer every whole
\* request up to the first that ends the connection.  A bad one is answered but
\* stays in the input.
ProcessInput(c) ==
    LET ends == {i \in DOMAIN c.in : Kind(c.in[i]) # "keep"}
        n    == IF ends = {} THEN Len(c.in) ELSE Min(ends)
        bad  == ends # {} /\ Kind(c.in[n]) = "bad"
    IN  [c EXCEPT !.in = SubSeq(@, IF bad THEN n ELSE n + 1, Len(@)),
                  !.out = @ \o SubSeq(c.in, 1, n),
                  !.want = @ \/ ends # {}]

Work(c) == [c |-> c, q |-> << >>, shut |-> FALSE]

\* Mutant: at the end of the input the output is dropped.
HandleRecvDropsOut(s, c, e) ==
    LET c1 == [c EXCEPT !.recv = @ /\ e.more]
        w  == Work(ProcessInput([c1 EXCEPT !.in = @ \o e.pay]))
    IN  IF e.res <= 0 THEN CloseConn(s, Work([c1 EXCEPT !.want = TRUE, !.out = << >>]), stop_)
        ELSE CloseConn(s, SubmitRecv(s, SubmitSend(s, w)), stop_)

HandleRecv(s, c, e) ==
    LET c1 == [c EXCEPT !.recv = @ /\ e.more]
        w  == Work(ProcessInput([c1 EXCEPT !.in = @ \o e.pay]))
    IN  IF e.res <= 0 THEN CloseConn(s, Work([c1 EXCEPT !.want = TRUE]), stop_)
        ELSE CloseConn(s, SubmitRecv(s, SubmitSend(s, w)), stop_)

\* Mutant: what has been sent stays in the output.
HandleSendKeepsOut(s, c, e) ==
    LET c1 == [c EXCEPT !.send = FALSE]
    IN  IF e.res <= 0 THEN CloseConn(s, Work([c1 EXCEPT !.want = TRUE]), stop_)
        ELSE CloseConn(s, SubmitSend(s, Work(c1)), stop_)

HandleSend(s, c, e) ==
    LET c1 == [c EXCEPT !.send = FALSE]
        c2 == [c1 EXCEPT !.out = SubSeq(@, e.res + 1, Len(@))]
    IN  IF e.res <= 0 THEN CloseConn(s, Work([c1 EXCEPT !.want = TRUE]), stop_)
        ELSE CloseConn(s, SubmitSend(s, Work(c2)), stop_)

-----------------------------------------------------------------------------
(* run(): one completion at a time *)

\* The entry of the connection in slot s becomes w.c, and what it prepared is
\* queued.
Put(s, w) ==
    /\ conns' = [conns EXCEPT ![s] = w.c]
    /\ sq' = sq \o w.q
    /\ shut' = IF w.shut THEN shut \cup {files[s]} ELSE shut

Open == {s \in Slots : conns[s] # None /\ conns[s].fd}

\* The connections of S want to close and do so if they can, in the order of
\* their slots, with the entries of `first` before theirs and those of `last`
\* behind.
CloseAll(S, first, last) ==
    LET w == [s \in S |-> CloseConn(s, Work([conns[s] EXCEPT !.want = TRUE]), stop_)]
    IN  /\ conns' = [s \in Slots |-> IF s \in S THEN w[s].c ELSE conns[s]]
        /\ sq' = sq \o first \o FlattenSeq([s \in Slots |-> IF s \in S THEN w[s].q ELSE << >>]) \o last
        /\ shut' = shut \cup {files[s] : s \in {t \in S : w[t].shut}}

Poll  == Sqe("Eventfd", 0, << >>)
Timer == Sqe("Timer", 0, << >>)

SubmitAccept ==
    IF accept_inflight \/ stop_ THEN << >> ELSE <<Sqe("Accept", 0, << >>)>>

Op(e, k) == [op |-> e.op, slot |-> e.slot, own |-> k, pay |-> e.pay]

\* io_uring_submit(): the kernel gets to the entries in their order.  The poll
\* and the timer depend on nothing before them.
HandOver(q) ==
    LET Alone(e) == e.op \in {"Eventfd", "Timer"}
    IN  /\ armed' = armed \cup {Op(e, None) : e \in {x \in Range(q) : Alone(x)}}
        /\ submitted' = submitted \o SelectSeq(q, LAMBDA e : ~Alone(e))

Start ==
    /\ pc = "start"
    /\ HandOver(<<Poll>> \o SubmitAccept \o <<Timer>>)
    /\ accept_inflight' = ~stop_ /\ timer_inflight' = TRUE
    /\ pc' = IF stop_ THEN "exit" ELSE "wait"
    /\ UNCHANGED <<conns, live, sq, stopVars, fixed, cq, files, bufs, efd, shut, read, clientVars>>

Take(op) ==
    /\ pc \in {"wait", "drain"} /\ cq # << >> /\ Head(cq).op = op
    /\ cq' = Tail(cq) /\ pc' = "drain"

\* stop_ sends this through abort_all(); the poll is armed again.
OnEventfd ==
    LET accept == IF accept_inflight THEN <<Cancel("Accept", 0)>> ELSE << >>
    IN  /\ Take("Eventfd")
        /\ efd' = FALSE
        /\ IF stop_ THEN CloseAll(Open, accept, <<Poll>>) ELSE CloseAll({}, << >>, <<Poll>>)
        /\ UNCHANGED <<live, accept_inflight, timer_inflight, stopVars, fixed, submitted,
                       armed, files, bufs, read, clientVars>>

\* sweep_deadlines() and the next period, unless the worker is stopping.  Any
\* open connections may be the ones set_deadline() gave a time that is over.
OnTimer ==
    /\ Take("Timer")
    /\ timer_inflight' = ~stop_
    /\ IF stop_ THEN UNCHANGED <<conns, sq, shut>>
       ELSE \E due \in SUBSET Open : (due = {} => Open = {}) /\ CloseAll(due, << >>, <<Timer>>)
    /\ UNCHANGED <<live, accept_inflight, stopVars, fixed, submitted, armed, files,
                   bufs, efd, read, clientVars>>

\* handle_accept() with attach_conn(); a multishot accept that ended is renewed.
OnAccept ==
    LET e == Head(cq)
        w == SubmitRecv(e.slot, Work(NewConn))
        again == IF e.more \/ stop_ THEN << >> ELSE <<Sqe("Accept", 0, << >>)>>
    IN  /\ Take("Accept")
        /\ IF e.res < 0 THEN UNCHANGED <<conns, live>> /\ sq' = sq \o again
           ELSE /\ conns' = [conns EXCEPT ![e.slot] = w.c]
                /\ live' = live + 1
                /\ sq' = sq \o w.q \o again
        /\ accept_inflight' = (e.more \/ ~stop_)
        /\ UNCHANGED <<timer_inflight, stopVars, fixed, submitted, armed, files, bufs,
                       efd, shut, read, clientVars>>

\* release_conn()
OnClose ==
    LET s == Head(cq).slot
    IN  /\ Take("Close")
        /\ conns' = [conns EXCEPT ![s] = None]
        /\ live' = IF conns[s] = None THEN live ELSE live - 1
        /\ UNCHANGED <<accept_inflight, timer_inflight, sq, stopVars, fixed, submitted,
                       armed, files, bufs, efd, shut, read, clientVars>>

\* Mutant: the completion of a cancel frees the slot.
OnCancelNoopReleases ==
    LET s == Head(cq).slot
    IN  /\ Take("CancelNoop")
        /\ conns' = IF s = 0 THEN conns ELSE [conns EXCEPT ![s] = None]
        /\ live' = IF s = 0 \/ conns[s] = None THEN live ELSE live - 1
        /\ UNCHANGED <<accept_inflight, timer_inflight, sq, stopVars, fixed, submitted,
                       armed, files, bufs, efd, shut, read, clientVars>>

OnCancelNoop ==
    /\ Take("CancelNoop")
    /\ UNCHANGED <<conns, live, accept_inflight, timer_inflight, sq, stopVars, fixed,
                   submitted, armed, files, bufs, efd, shut, read, clientVars>>

ReturnBuffer(e) == bufs' = IF e.res > 0 THEN bufs + 1 ELSE bufs

\* handle_recv(); a buffer that came with data goes back to the ring.
OnRecv ==
    LET e == Head(cq)
    IN  /\ Take("Recv")
        /\ IF conns[e.slot] = None THEN UNCHANGED <<conns, sq, shut, bufs>>
           ELSE /\ Put(e.slot, HandleRecv(e.slot, conns[e.slot], e))
                /\ ReturnBuffer(e)
        /\ UNCHANGED <<live, accept_inflight, timer_inflight, stopVars, fixed, submitted,
                       armed, files, efd, read, clientVars>>

OnSend ==
    LET e == Head(cq)
    IN  /\ Take("Send")
        /\ IF conns[e.slot] = None THEN UNCHANGED <<conns, sq, shut>>
           ELSE Put(e.slot, HandleSend(e.slot, conns[e.slot], e))
        /\ UNCHANGED <<live, accept_inflight, timer_inflight, stopVars, fixed, submitted,
                       armed, files, bufs, efd, read, clientVars>>

\* The queue is drained: submit, look at the loop's condition, wait.
Submit ==
    /\ pc = "drain" /\ cq = << >>
    /\ HandOver(sq) /\ sq' = << >>
    /\ pc' = IF stop_ /\ live = 0 THEN "exit" ELSE "wait"
    /\ UNCHANGED <<conns, live, accept_inflight, timer_inflight, stopVars, fixed, cq, files,
                   bufs, efd, shut, read, clientVars>>

\* stop(), on another thread: the flag, then the eventfd.
StopFlag ==
    /\ stopper = "idle" /\ stopper' = "wake" /\ stop_' = TRUE
    /\ UNCHANGED <<workerVars, fixed, submitted, armed, cq, files, bufs, efd, shut, read, clientVars>>

\* Mutant: nothing is written to the eventfd.
StopWakeSilent ==
    /\ stopper = "wake" /\ stopper' = "done"
    /\ UNCHANGED <<workerVars, stop_, fixed, submitted, armed, cq, files, bufs, efd, shut, read, clientVars>>

StopWake ==
    /\ stopper = "wake" /\ stopper' = "done" /\ efd' = TRUE
    /\ UNCHANGED <<workerVars, stop_, fixed, submitted, armed, cq, files, bufs, shut, read, clientVars>>

-----------------------------------------------------------------------------
(* The ring, as the worker uses it.  An operation under way holds on to its *)
(* socket.  Completions are delivered in the order they are posted, that of *)
(* a cancelled operation before that of its cancel.                         *)

Post(e) == cq' = cq \o e
Rest(x) == armed' = armed \ {x}
ringFrame == <<workerVars, stopVars, fixed, efd, shut>>

Found(op, s) == {x \in armed : x.op = op /\ x.slot = s}
Cancelled(x) == Cqe(x.op, x.slot, x.own, -1, FALSE, << >>)

StartOp(e) ==
    LET k == IF e.slot = 0 THEN None ELSE files[e.slot]
        noop == <<Cqe("CancelNoop", e.slot, None, 0, FALSE, << >>)>>
    IN  \/ /\ e.op = "Close"
           /\ files' = [files EXCEPT ![e.slot] = None]
           /\ Post(<<Cqe("Close", e.slot, k, 0, FALSE, << >>)>>)
           /\ UNCHANGED armed
        \/ /\ e.op = "Cancel"
           /\ UNCHANGED files
           /\ \/ Found(e.target, e.slot) = {} /\ Post(noop) /\ UNCHANGED armed
              \/ \E x \in Found(e.target, e.slot) : Rest(x) /\ Post(<<Cancelled(x)>> \o noop)
        \/ /\ e.op \in {"Recv", "Send"} /\ k = None
           /\ Post(<<Cqe(e.op, e.slot, None, -1, FALSE, << >>)>>)
           /\ UNCHANGED <<armed, files>>
        \/ /\ e.op = "Accept" \/ (e.op \in {"Recv", "Send"} /\ k # None)
           /\ armed' = armed \cup {Op(e, k)}
           /\ UNCHANGED <<files, cq>>

Issue ==
    /\ submitted # << >> /\ submitted' = Tail(submitted)
    /\ StartOp(Head(submitted))
    /\ UNCHANGED <<ringFrame, bufs, read, clientVars>>

\* The poll and the timer.  A period in which no connection is overdue only
\* renews the timer, and is left out.
Signalled(x) ==
    /\ x \in armed
    /\ \/ x.op = "Eventfd" /\ efd
       \/ x.op = "Timer" /\ Timeouts /\ (\E s \in Open : ~conns[s].want)
    /\ Rest(x) /\ Post(<<Cqe(x.op, 0, None, 1, FALSE, << >>)>>)
    /\ UNCHANGED <<ringFrame, submitted, files, bufs, read, clientVars>>

\* Multishot accept into a free slot; with none free the socket is dropped.
Accepted(x) ==
    /\ x \in armed /\ x.op = "Accept"
    /\ \E k \in Clients :
        /\ peer[k] = "new" /\ peer' = [peer EXCEPT ![k] = "conn"]
        /\ \/ \E s \in Slots :
                /\ files[s] = None
                /\ files' = [files EXCEPT ![s] = k]
                /\ Post(<<Cqe("Accept", s, k, 1, TRUE, << >>)>>)
                /\ UNCHANGED armed
           \/ /\ \A s \in Slots : files[s] # None
              /\ Post(<<Cqe("Accept", 0, None, -1, FALSE, << >>)>>)
              /\ Rest(x) /\ UNCHANGED files
    /\ UNCHANGED <<ringFrame, submitted, bufs, read, sent, got>>

\* Multishot receive: data into a buffer, no buffer left, or the end.
Received(x) ==
    LET k == x.own
        Done(res, more, pay) == Post(<<Cqe("Recv", x.slot, k, res, more, pay)>>)
    IN  /\ x \in armed /\ x.op = "Recv"
        /\ \/ /\ read[k] < sent[k] /\ bufs > 0 /\ bufs' = bufs - 1
              /\ read' = [read EXCEPT ![k] = @ + 1]
              /\ \/ Done(1, TRUE, <<<<k, read[k] + 1>>>>) /\ UNCHANGED armed
                 \/ Done(1, FALSE, <<<<k, read[k] + 1>>>>) /\ Rest(x)
           \/ /\ read[k] < sent[k] /\ bufs = 0
              /\ Done(-1, FALSE, << >>) /\ Rest(x)
              /\ UNCHANGED <<bufs, read>>
           \/ /\ k \in shut \/ (peer[k] = "gone" /\ read[k] = sent[k])
              /\ Done(0, FALSE, << >>) /\ Rest(x)
              /\ UNCHANGED <<bufs, read>>
        /\ UNCHANGED <<ringFrame, submitted, files, clientVars>>

Sent(x) ==
    /\ x \in armed /\ x.op = "Send" /\ x.own \notin shut
    /\ \E n \in DOMAIN x.pay :
        /\ got' = [got EXCEPT ![x.own] = @ \o SubSeq(x.pay, 1, n)]
        /\ Post(<<Cqe("Send", x.slot, x.own, n, FALSE, << >>)>>)
    /\ Rest(x)
    /\ UNCHANGED <<ringFrame, submitted, files, bufs, read, peer, sent>>

SendFailed(x) ==
    /\ x \in armed /\ x.op = "Send"
    /\ x.own \in shut \/ peer[x.own] = "gone"
    /\ Rest(x) /\ Post(<<Cqe("Send", x.slot, x.own, -1, FALSE, << >>)>>)
    /\ UNCHANGED <<ringFrame, submitted, files, bufs, read, clientVars>>

-----------------------------------------------------------------------------
(* Clients *)

clientFrame == <<workerVars, stopVars, fixed, submitted, armed, cq, files, bufs, efd, shut, read, got>>

\* The server still has the socket.
Connected(k) == (\E s \in Slots : files[s] = k) \/ \E x \in armed : x.own = k

Request(k) ==
    /\ peer[k] = "conn" /\ Connected(k) /\ sent[k] < Len(Script[k])
    /\ Pipelining \/ Len(got[k]) = sent[k]
    /\ sent' = [sent EXCEPT ![k] = @ + 1]
    /\ UNCHANGED <<clientFrame, peer>>

HangUp(k) ==
    /\ peer[k] = "conn" /\ Connected(k) /\ peer' = [peer EXCEPT ![k] = "gone"]
    /\ UNCHANGED <<clientFrame, sent>>

-----------------------------------------------------------------------------
Worker ==
    \/ Start \/ Submit
    \/ OnEventfd \/ OnTimer \/ OnAccept \/ OnClose \/ OnCancelNoop \/ OnRecv \/ OnSend

Ring(x) == Signalled(x) \/ Accepted(x) \/ Received(x) \/ Sent(x) \/ SendFailed(x)

Terminated == pc = "exit" /\ UNCHANGED vars

Next ==
    \/ Worker \/ StopFlag \/ StopWake \/ Terminated
    \/ /\ pc # "exit"      \* with the worker go the ring and its sockets
       /\ \/ Issue
          \/ \E x \in armed : Ring(x)
          \/ \E k \in Clients : Request(k) \/ HangUp(k)

Spec == Init /\ [][Next]_vars

-----------------------------------------------------------------------------
(* Properties *)

Request_ == UNION {{k} \X (1 .. Len(Script[k])) : k \in Clients}
Conn == [fd : BOOLEAN, in : Seq(Request_), out : Seq(Request_), recv : BOOLEAN, send : BOOLEAN,
         want : BOOLEAN]

\* Every variable has its type.
TypeOK ==
    /\ pc \in {"start", "wait", "drain", "exit"}
    /\ \A s \in Slots : conns[s] = None \/ conns[s] \in Conn
    /\ live \in 0 .. NSlots /\ bufs \in 0 .. NBufs
    /\ \A s \in Slots : files[s] \in Clients \cup {None}
    /\ shut \subseteq Clients
    /\ \A k \in Clients : read[k] <= sent[k] /\ sent[k] <= Len(Script[k])

InQueue(op, s) == \E i \in DOMAIN cq : cq[i].op = op /\ cq[i].slot = s

\* Whenever no completion about a slot is waiting, the worker's table and the
\* kernel's agree on whether it is in use, and live_conns_ counts the table.
TableMatchesFiles ==
    /\ live = Cardinality({s \in Slots : conns[s] # None})
    /\ \A s \in Slots : ~InQueue("Accept", s) /\ ~InQueue("Close", s)
            => (conns[s] = None <=> files[s] = None)

\* A client is sent the answers to its own requests, in order and each once.
AnsweredInOrder ==
    \A k \in Clients : IsPrefix(got[k], Answers(k))

\* Every buffer is the kernel's or on its way to the worker.
BuffersConserved ==
    bufs + Cardinality({i \in DOMAIN cq : cq[i].op = "Recv" /\ cq[i].res > 0}) = NBufs

\* The worker loses no slot and no buffer, and gives none back twice
\* (drop_conn, release_buf), whatever order completions arrive in.
ResourcesConserved == TypeOK /\ TableMatchesFiles /\ BuffersConserved

\* An operation on a slot is queued, under way, or completed for good.
Under(op, s) ==
    \/ \E i \in DOMAIN sq : sq[i].op = op /\ sq[i].slot = s
    \/ \E i \in DOMAIN submitted : submitted[i].op = op /\ submitted[i].slot = s
    \/ \E x \in armed : x.op = op /\ x.slot = s
    \/ \E i \in DOMAIN cq : cq[i].op = op /\ cq[i].slot = s /\ ~cq[i].more

\* The flags of an open connection say what the ring is doing for it.
FlagsMatchRing ==
    \A s \in Open : /\ conns[s].recv <=> Under("Recv", s)
                    /\ conns[s].send <=> Under("Send", s)

\* What a send under way reads is what its connection still has to send: its
\* bytes are not moved or changed before the kernel is done with them.
OutputUntouched ==
    \A s \in Open : \A x \in Range(sq) \cup Range(submitted) \cup armed :
        x.op = "Send" /\ x.slot = s => x.pay = conns[s].out

\* An open connection and the ring agree: recv_armed and send_in_flight are
\* set as long as the operation is under way, so there is never a second one
\* (io_uring_server.cpp submit_recv, submit_send), and the output is left alone.
RingMatchesConn == FlagsMatchRing /\ OutputUntouched

\* In the file table a connection that is to close, because its client or its
\* deadline says so or an operation failed, has its close on the way: it gives
\* the slot back whatever the client does.
CloseOnTheWay ==
    fixed => \A s \in Slots : conns[s] # None /\ conns[s].want => Under("Close", s)

Quiet == cq = << >> /\ submitted = << >> /\ ~efd /\ stopper = "done"

\* A worker that still waits after stop() has worked off everything it was sent
\* does so for a connection nobody has told to close: one that an accept under
\* way during abort_all() brought.
StopWaitsForLate ==
    pc = "wait" /\ Quiet /\ stop_ => \E s \in Slots : conns[s] # None /\ ~conns[s].want
=============================================================================
