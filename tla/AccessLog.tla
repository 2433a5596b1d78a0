------------------------------ MODULE AccessLog ------------------------------
(***************************************************************************)
(* The life of a server: Server::listen() (src/spido/src/server/           *)
(* server.cpp), which starts the access log and the workers, waits for a   *)
(* signal and takes everything down again; the workers as the producers of *)
(* log lines (process_input() in io_uring_server.cpp); and the access log  *)
(* (access_log.cpp), one lock-free ring per worker and one writer thread.  *)
(*                                                                         *)
(* A line is a pair of its worker and the number of the request it is      *)
(* about.  A worker's step is one access to what it shares with the writer:*)
(* the loads of reserve(), the formatting into the slot, the store of      *)
(* commit().  The loop of peek_at() reads the worker's counter once per    *)
(* line; its result is that of its last load, so it is one step.           *)
(***************************************************************************)
EXTENDS Integers, Sequences

CONSTANTS
    NWorkers,     \* cfg.threads
    Capacity,     \* entries of a ring (4096)
    KBatch,       \* lines per writev (64)
    Requests,     \* Requests[w]: how many reach worker w
    WriteFails    \* may a write to the file fail or be short?

ASSUME LogAssumption ==
    /\ NWorkers \in Nat \ {0} /\ Capacity \in Nat \ {0}
    /\ KBatch \in Nat \ {0} /\ WriteFails \in BOOLEAN
    /\ Requests \in [1 .. NWorkers -> Nat]

Workers == 1 .. NWorkers
Lines == UNION {{w} \X (1 .. Requests[w]) : w \in Workers}
NoLine == <<0, 0>>

VARIABLES
    main,         \* listen(): where it is
    at,           \* the worker the loops over the pool have come to
    stop_flag, sigterm,    \* stop() called, SIGTERM pending
    caller,       \* the thread that calls stop()
    wpc, wstop,   \* each worker: where it is, its stop_
    served,       \* requests a worker has answered
    head, tail, buf,       \* each worker's AccessLogRing
    pc, ring, iov,         \* writer_loop(): where it is, the ring, its lines
    stop_,        \* AccessLogger::stop_
    file          \* the lines in the log file

serverVars == <<main, at, stop_flag, sigterm, caller>>
workerVars == <<wpc, wstop, served>>
ringVars == <<head, tail, buf>>
writerVars == <<pc, ring, iov>>
vars == <<serverVars, workerVars, ringVars, writerVars, stop_, file>>

Init ==
    /\ main = "block" /\ at = 1 /\ stop_flag = FALSE /\ sigterm = FALSE
    /\ caller = "idle"
    /\ wpc = [w \in Workers |-> "off"] /\ wstop = [w \in Workers |-> FALSE]
    /\ served = [w \in Workers |-> 0]
    /\ head = [w \in Workers |-> 0] /\ tail = [w \in Workers |-> 0]
    /\ buf = [w \in Workers |-> [i \in 0 .. Capacity - 1 |-> NoLine]]
    /\ pc = "off" /\ ring = 1 /\ iov = 0
    /\ stop_ = FALSE /\ file = << >>

-----------------------------------------------------------------------------
(* Server::listen(), ThreadPool and Server::stop() *)

\* From here on SIGTERM is blocked and stays pending; before, it kills.
Block ==
    /\ main = "block" /\ main' = "create"
    /\ UNCHANGED <<at, stop_flag, sigterm, caller, workerVars, ringVars, writerVars, stop_, file>>

CreateLog ==
    /\ main = "create" /\ main' = "start"
    /\ pc' = "check"
    /\ UNCHANGED <<at, stop_flag, sigterm, caller, workerVars, ringVars, ring, iov, stop_, file>>

StartWorker ==
    /\ main = "start"
    /\ wpc' = [wpc EXCEPT ![at] = "run"]
    /\ IF at < NWorkers
       THEN at' = at + 1 /\ UNCHANGED main
       ELSE at' = 1 /\ main' = "wait"
    /\ UNCHANGED <<stop_flag, sigterm, caller, wstop, served, ringVars, writerVars, stop_, file>>

\* The loop around sigwait() looks at the flag once, before it waits.
Wait ==
    /\ main = "wait" /\ main' = (IF stop_flag THEN "stop" ELSE "sigwait")
    /\ UNCHANGED <<at, stop_flag, sigterm, caller, workerVars, ringVars, writerVars, stop_, file>>

SigWait ==
    /\ main = "sigwait" /\ sigterm
    /\ sigterm' = FALSE /\ stop_flag' = TRUE
    /\ main' = "stop"
    /\ UNCHANGED <<at, caller, workerVars, ringVars, writerVars, stop_, file>>

StopWorker ==
    /\ main = "stop"
    /\ wstop' = [wstop EXCEPT ![at] = TRUE]
    /\ IF at < NWorkers
       THEN at' = at + 1 /\ UNCHANGED main
       ELSE at' = 1 /\ main' = "join"
    /\ UNCHANGED <<stop_flag, sigterm, caller, wpc, served, ringVars, writerVars, stop_, file>>

\* Mutant: the log is stopped before the workers have been joined.
JoinWorkerNoWait ==
    /\ main = "join"
    /\ at' = 1 /\ main' = "stoplog"
    /\ UNCHANGED <<stop_flag, sigterm, caller, workerVars, ringVars, writerVars, stop_, file>>

JoinWorker ==
    /\ main = "join" /\ wpc[at] = "exit"
    /\ IF at < NWorkers
       THEN at' = at + 1 /\ UNCHANGED main
       ELSE at' = 1 /\ main' = "stoplog"
    /\ UNCHANGED <<stop_flag, sigterm, caller, workerVars, ringVars, writerVars, stop_, file>>

StopLog ==
    /\ main = "stoplog" /\ main' = "joinlog"
    /\ stop_' = TRUE
    /\ UNCHANGED <<at, stop_flag, sigterm, caller, workerVars, ringVars, writerVars, file>>

JoinLog ==
    /\ main = "joinlog" /\ pc = "exit" /\ main' = "done"
    /\ UNCHANGED <<at, stop_flag, sigterm, caller, workerVars, ringVars, writerVars, stop_, file>>

\* stop(), called on some thread: the flag, then the signal that ends sigwait().
RequestStop ==
    /\ main # "block" /\ caller = "idle"
    /\ stop_flag' = TRUE /\ caller' = "kill"
    /\ UNCHANGED <<main, at, sigterm, workerVars, ringVars, writerVars, stop_, file>>

\* Mutant: stop() relies on the flag alone.
KillNobody ==
    /\ caller = "kill"
    /\ caller' = "done"
    /\ UNCHANGED <<main, at, stop_flag, sigterm, workerVars, ringVars, writerVars, stop_, file>>

Kill ==
    /\ caller = "kill"
    /\ sigterm' = TRUE /\ caller' = "done"
    /\ UNCHANGED <<main, at, stop_flag, workerVars, ringVars, writerVars, stop_, file>>

\* SIGINT or SIGTERM from outside the process.
Signal ==
    /\ main # "block" /\ caller = "idle"
    /\ sigterm' = TRUE /\ caller' = "done"
    /\ UNCHANGED <<main, at, stop_flag, workerVars, ringVars, writerVars, stop_, file>>

Server ==
    Block \/ CreateLog \/ StartWorker \/ Wait \/ SigWait \/ StopWorker \/ JoinWorker \/ StopLog \/ JoinLog

-----------------------------------------------------------------------------
(* A worker: a request is answered and its line logged, best effort *)

\* Mutant: the ring takes one entry more than it has.
FullOneLate(w) == head[w] - tail[w] > Capacity

Full(w) == head[w] - tail[w] > Capacity - 1

Reserve(w) ==
    /\ wpc[w] = "run" /\ served[w] < Requests[w]
    /\ served' = [served EXCEPT ![w] = @ + 1]
    /\ wpc' = [wpc EXCEPT ![w] = IF Full(w) THEN "run" ELSE "fill"]
    /\ UNCHANGED <<serverVars, wstop, ringVars, writerVars, stop_, file>>

Fill(w) ==
    /\ wpc[w] = "fill"
    /\ buf' = [buf EXCEPT ![w][head[w] % Capacity] = <<w, served[w]>>]
    /\ wpc' = [wpc EXCEPT ![w] = "commit"]
    /\ UNCHANGED <<serverVars, wstop, served, head, tail, writerVars, stop_, file>>

Commit(w) ==
    /\ wpc[w] = "commit"
    /\ head' = [head EXCEPT ![w] = @ + 1]
    /\ wpc' = [wpc EXCEPT ![w] = "run"]
    /\ UNCHANGED <<serverVars, wstop, served, tail, buf, writerVars, stop_, file>>

\* run() returns once it is stopped and its connections are gone.
Exit(w) ==
    /\ wpc[w] = "run" /\ wstop[w]
    /\ wpc' = [wpc EXCEPT ![w] = "exit"]
    /\ UNCHANGED <<serverVars, wstop, served, ringVars, writerVars, stop_, file>>

Worker(w) == Reserve(w) \/ Fill(w) \/ Commit(w) \/ Exit(w)

-----------------------------------------------------------------------------
(* writer_loop() *)

\* The lines that a peek at ring r from now on would see.
Pending(r) == head[r] - tail[r]

\* After the ring comes the next one, after the last one the test of stop_.
NextRing ==
    IF ring < NWorkers
    THEN ring' = ring + 1 /\ pc' = "peek"
    ELSE ring' = 1 /\ pc' = "check"

Check ==
    /\ pc = "check"
    /\ pc' = (IF stop_ THEN "drain" ELSE "peek")
    /\ UNCHANGED <<serverVars, workerVars, ringVars, ring, iov, stop_, file>>

Peek ==
    /\ pc = "peek"
    /\ iov' = (IF Pending(ring) < KBatch THEN Pending(ring) ELSE KBatch)
    /\ IF iov' = 0 THEN NextRing ELSE pc' = "writev" /\ UNCHANGED ring
    /\ UNCHANGED <<serverVars, workerVars, ringVars, stop_, file>>

\* The first n lines of the ring, as the slots are now.
Slots(r, n) == [i \in 1 .. n |-> buf[r][(tail[r] + i - 1) % Capacity]]

\* k of the lines reach the file; what a short write leaves out is not retried.
Writev ==
    /\ pc = "writev" /\ pc' = "consume"
    /\ \E k \in 0 .. iov : /\ k = iov \/ WriteFails
                         /\ file' = file \o Slots(ring, k)
    /\ UNCHANGED <<serverVars, workerVars, ringVars, ring, iov, stop_>>

\* EINTR: nothing was written, and the ring is left as it is.
Interrupted ==
    /\ pc = "writev" /\ WriteFails
    /\ NextRing
    /\ UNCHANGED <<serverVars, workerVars, ringVars, iov, stop_, file>>

Consume ==
    /\ pc = "consume"
    /\ tail' = [tail EXCEPT ![ring] = @ + iov]
    /\ NextRing
    /\ UNCHANGED <<serverVars, workerVars, head, buf, iov, stop_, file>>

\* The final drain, line by line; the result of the write is not looked at.
Drain ==
    /\ pc = "drain"
    /\ IF Pending(ring) > 0
       THEN /\ \E k \in 0 .. 1 : /\ k = 1 \/ WriteFails
                               /\ file' = file \o Slots(ring, k)
            /\ tail' = [tail EXCEPT ![ring] = @ + 1]
            /\ UNCHANGED <<pc, ring>>
       ELSE /\ IF ring < NWorkers THEN ring' = ring + 1 /\ UNCHANGED pc
                                  ELSE ring' = 1 /\ pc' = "exit"
            /\ UNCHANGED <<tail, file>>
    /\ UNCHANGED <<serverVars, workerVars, head, buf, iov, stop_>>

Writer == Check \/ Peek \/ Writev \/ Interrupted \/ Consume \/ Drain

Terminated == main = "done" /\ caller # "kill" /\ UNCHANGED vars

Next ==
    \/ Server \/ RequestStop \/ Kill \/ Signal
    \/ \E w \in Workers : Worker(w)
    \/ Writer
    \/ Terminated

Spec == Init /\ [][Next]_vars

\* Threads run; a worker that is stopped loses its connections and returns.
FairSpec ==
    /\ Spec
    /\ WF_vars(Server) /\ WF_vars(Kill) /\ WF_vars(Writer)
    /\ \A w \in Workers : WF_vars(Worker(w)) /\ WF_vars(Exit(w))

-----------------------------------------------------------------------------
(* Properties *)

\* Every variable has its type; in particular no slot is written to the file
\* before a line was formatted into it (AccessLogRing::reserve(), commit()).
TypeOK ==
    /\ main \in {"block", "create", "start", "wait", "sigwait", "stop", "join",
                 "stoplog", "joinlog", "done"}
    /\ at \in Workers /\ ring \in Workers /\ iov \in 0 .. KBatch
    /\ stop_flag \in BOOLEAN /\ sigterm \in BOOLEAN /\ stop_ \in BOOLEAN
    /\ caller \in {"idle", "kill", "done"}
    /\ wpc \in [Workers -> {"off", "run", "fill", "commit", "exit"}]
    /\ wstop \in [Workers -> BOOLEAN] /\ served \in [Workers -> Nat]
    /\ head \in [Workers -> Nat] /\ tail \in [Workers -> Nat]
    /\ buf \in [Workers -> [0 .. Capacity - 1 -> Lines \cup {NoLine}]]
    /\ pc \in {"off", "check", "peek", "writev", "consume", "drain", "exit"}
    /\ file \in Seq(Lines)

\* Lines that have left ring r for the file, the ones not yet consumed included.
Gone(r) == tail[r] + (IF pc = "consume" /\ ring = r THEN iov ELSE 0)

\* The lines of ring r that are still on their way to the file.
Queued(r) == [i \in 1 .. head[r] - Gone(r) |-> buf[r][(Gone(r) + i - 1) % Capacity]]

Queue == INSTANCE LogQueue WITH queue <- [r \in Workers |-> Queued(r)]

\* The rings, their two counters and the writer thread behave as a bounded
\* first-in first-out queue per worker: no line is written twice, before it
\* was formatted, out of order or after its slot was formatted anew.
IsBoundedQueue == Queue!Spec

\* When listen() returns, every line that a worker committed has been taken
\* by the writer: the log is stopped only after the workers are gone.
NothingLeftBehind == main = "done" => \A w \in Workers : head[w] = tail[w]

\* A stop, by stop() or by a signal and at any moment after listen() has
\* blocked the signals, makes listen() return.
StopReturns == (caller # "idle") ~> (main = "done")
=============================================================================
