------------------------------ MODULE PgNotify ------------------------------
(***************************************************************************)
(* The listener (src/spido-pg/src/notify.cpp): a thread that keeps a       *)
(* session with LISTEN on the invalidation channel and hands what arrives  *)
(* to the handler Db has registered before start().                        *)
(*                                                                         *)
(* The steps of connect_and_subscribe() are those PgConnection may take    *)
(* another thread's time for.  A notification is the key and the version   *)
(* it names.  EntityCache completes this module with the handler.          *)
(***************************************************************************)
EXTENDS Naturals, Sequences

CONSTANT MaxSessions   \* bound on calls of connect()

VARIABLES
    running,     \* running_
    conn,        \* conn_: "none", "new", "ready" or "closed"
    npc,         \* where loop() is
    spc,         \* where stop() is
    alive,       \* the session exists at the server
    listening,   \* the session has done its LISTEN
    inbox,       \* notifications on their way
    handling,    \* the one the handler is called with
    sessions,    \* calls of connect() so far
    lost,        \* history: keys with a notification that no session carried
    refused,     \* history: the server has refused a LISTEN
    raced        \* history: stop() found the thread between its check and connect()

notifyVars == <<running, conn, npc, spc, alive, listening, inbox, handling, sessions, lost, refused, raced>>
history == <<lost, refused, raced>>

NotifyInit ==
    /\ running = FALSE /\ conn = "none" /\ npc = "off" /\ spc = "idle"
    /\ alive = FALSE /\ listening = FALSE /\ inbox = << >> /\ handling = << >> /\ sessions = 0
    /\ lost = {} /\ refused = FALSE /\ raced = FALSE

Drop(s) == lost' = lost \cup {s[i].key : i \in DOMAIN s}

-----------------------------------------------------------------------------
(* loop() *)

\* The head of the loop, with the only look at running_.
Top(c) ==
    LET p == IF ~running THEN "exit" ELSE IF c = "ready" THEN "recv" ELSE "connect"
    IN  npc' = p /\ conn' = IF p = "connect" THEN "new" ELSE c

NStart ==
    /\ npc = "off" /\ running' = TRUE /\ npc' = "connect" /\ conn' = "new"
    /\ UNCHANGED <<spc, alive, listening, inbox, handling, history, sessions>>

\* A bug: after a reconnect nothing is subscribed.
NConnectOnly ==
    /\ npc = "connect" /\ sessions < MaxSessions /\ sessions' = sessions + 1
    /\ \/ conn' = "ready" /\ alive' = TRUE /\ npc' = IF sessions = 0 THEN "listen" ELSE "recv"
       \/ conn' = "none" /\ npc' = "sleep" /\ UNCHANGED alive
    /\ UNCHANGED <<running, spc, listening, inbox, handling, history>>

NConnect ==
    /\ npc = "connect" /\ sessions < MaxSessions /\ sessions' = sessions + 1
    /\ \/ conn' = "ready" /\ npc' = "listen" /\ alive' = TRUE
       \/ conn' = "none" /\ npc' = "sleep" /\ UNCHANGED alive
    /\ UNCHANGED <<running, spc, listening, inbox, handling, history>>

\* The LISTEN: done, refused by the server, or the connection is of no use.
NListen ==
    /\ npc = "listen"
    /\ \/ conn = "ready" /\ alive /\ listening' = TRUE /\ npc' = "recv" /\ UNCHANGED <<conn, refused>>
       \/ conn = "ready" /\ alive /\ refused' = TRUE /\ npc' = "sleep" /\ UNCHANGED <<conn, listening>>
       \/ (conn # "ready" \/ ~alive) /\ conn' = "closed" /\ npc' = "sleep" /\ UNCHANGED <<listening, refused>>
    /\ UNCHANGED <<running, spc, alive, inbox, handling, lost, raced, sessions>>

NSleep ==
    /\ npc = "sleep" /\ Top(conn)
    /\ UNCHANGED <<running, spc, alive, listening, inbox, handling, history, sessions>>

NRecv ==
    /\ npc = "recv" /\ inbox # << >>
    /\ handling' = <<Head(inbox)>> /\ inbox' = Tail(inbox) /\ npc' = "handle"
    /\ UNCHANGED <<running, conn, spc, alive, listening, history, sessions>>

\* The end of the session: close(), and round again.
NBroken ==
    /\ npc = "recv" /\ inbox = << >> /\ ~alive
    /\ Top("closed")
    /\ UNCHANGED <<running, spc, alive, listening, inbox, handling, history, sessions>>

\* The handler has returned.
NHandled ==
    /\ handling' = << >> /\ Top(conn)
    /\ UNCHANGED <<running, spc, alive, listening, inbox, history, sessions>>

-----------------------------------------------------------------------------
(* stop(), on another thread *)

StopFlag ==
    /\ spc = "idle" /\ running /\ running' = FALSE /\ spc' = "close"
    /\ UNCHANGED <<conn, npc, alive, listening, inbox, handling, history, sessions>>

\* A bug: the connection is left to the destructor.
StopCloseLater ==
    /\ spc = "close" /\ spc' = "join"
    /\ raced' = (npc = "connect")
    /\ UNCHANGED <<running, conn, npc, alive, listening, inbox, handling, lost, refused, sessions>>

\* If there is a connection, Terminate and close(): the server ends the
\* session, and with it what it still had to send.
StopClose ==
    /\ spc = "close" /\ spc' = "join"
    /\ raced' = (npc = "connect")
    /\ IF conn = "none" THEN UNCHANGED <<conn, alive, listening, inbox, lost>>
       ELSE conn' = "closed" /\ alive' = FALSE /\ listening' = FALSE /\ inbox' = << >> /\ Drop(inbox)
    /\ UNCHANGED <<running, npc, handling, refused, sessions>>

StopJoin ==
    /\ spc = "join" /\ npc = "exit" /\ spc' = "done"
    /\ UNCHANGED <<running, conn, npc, alive, listening, inbox, handling, history, sessions>>

-----------------------------------------------------------------------------
(* The server *)

\* The session ends; part of what it was to be sent arrives.
NDie ==
    /\ alive /\ alive' = FALSE /\ listening' = FALSE
    /\ \E n \in 0 .. Len(inbox) :
        inbox' = SubSeq(inbox, 1, n) /\ Drop(SubSeq(inbox, n + 1, Len(inbox)))
    /\ UNCHANGED <<running, conn, npc, spc, handling, refused, raced, sessions>>

\* A commit notifies the sessions that listen.
Notify(key, version) ==
    /\ IF listening THEN inbox' = Append(inbox, [key |-> key, version |-> version]) /\ UNCHANGED lost
       ELSE UNCHANGED inbox /\ lost' = lost \cup {key}
    /\ UNCHANGED <<running, conn, npc, spc, alive, listening, handling, refused, raced, sessions>>

-----------------------------------------------------------------------------
NotifyStep == NConnect \/ NListen \/ NSleep \/ NRecv \/ NBroken
NotifyNext == NStart \/ NotifyStep \/ StopFlag \/ StopClose \/ StopJoin \/ NDie

-----------------------------------------------------------------------------
(* A thread that waits in recv() for the session it has opened has its       *)
(* LISTEN, unless the server has refused one: the loop then finds a          *)
(* connection that is ready and reads from it (notify.cpp:65, 94).           *)
ReadsSubscribed ==
    npc = "recv" /\ alive /\ ~refused => listening

(* stop() does not wait for a thread that waits for a session, unless it     *)
(* came between the thread's look at running_ and the end of connect(): then *)
(* nobody closes the new session, and join() waits for its next message      *)
(* (notify.cpp:77).                                                          *)
StopWakesReader ==
    spc = "join" /\ npc = "recv" /\ alive => raced
=============================================================================
