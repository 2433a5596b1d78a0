------------------------------ MODULE Request ------------------------------
(***************************************************************************)
(* A connection's requests on their way through a worker: routes are added *)
(* before the server listens, bytes arrive in whatever portions the socket *)
(* delivers them, and process_input() of io_uring_server.cpp parses,       *)
(* routes and answers as many requests as there are in the buffer.         *)
(***************************************************************************)
EXTENDS HttpParser, Router, SequencesExt

CONSTANTS Routes,     \* routes that may be added
          Streams,    \* what a client may send: sequences of requests
          MaxBody     \* cfg_.max_request_bytes

VARIABLES
    router, added,    \* the router, and the routes it was given
    listening,
    sent,             \* the requests the client sends
    wire, in,         \* what has not arrived yet, and Conn::in
    answers, want_close,
    cut               \* history: see ParsedAsSent

vars == <<router, added, listening, sent, wire, in, answers, want_close, cut>>

-----------------------------------------------------------------------------
(* What a client sends: a request is [method, path, version, headers, body, *)
(* chunks], where chunks are the sizes the body is cut into, << >> when it   *)
(* is not chunked.                                                          *)

Bytes(values) == [i \in DOMAIN values |-> Lex("byte", values[i])]

RECURSIVE Chunked(_, _)
Chunked(body, sizes) ==
    IF sizes = << >> THEN Bytes(<<0>>) \o CRLF \o CRLF
    ELSE Bytes(<<Head(sizes)>>) \o CRLF \o Bytes(SubSeq(body, 1, Head(sizes))) \o CRLF
         \o Chunked(SubSeq(body, Head(sizes) + 1, Len(body)), Tail(sizes))

Encode(q) ==
    <<Lex("method", q.method), Lex("target", q.path), Lex("version", q.version)>> \o CRLF
    \o FlattenSeq([i \in DOMAIN q.headers |-> <<Lex("header", q.headers[i])>> \o CRLF]) \o CRLF
    \o (IF q.chunks = << >> THEN Bytes(q.body) ELSE Chunked(q.body, q.chunks))

Stream(reqs) == FlattenSeq([i \in DOMAIN reqs |-> Encode(reqs[i])])

Init ==
    /\ router = NoRoutes /\ added = {} /\ listening = FALSE
    /\ sent \in Streams /\ wire = Stream(sent)
    /\ in = << >> /\ answers = << >> /\ want_close = FALSE /\ cut = FALSE

-----------------------------------------------------------------------------
\* Router::add() and add_static(), before listen().
AddRoute(route) ==
    /\ ~listening /\ route \notin added
    /\ router' = Add(router, route) /\ added' = added \cup {route}
    /\ UNCHANGED <<listening, sent, wire, in, answers, want_close, cut>>

Listen ==
    /\ ~listening /\ listening' = TRUE
    /\ UNCHANGED <<router, added, sent, wire, in, answers, want_close, cut>>

\* The answer to a request that was parsed.
Answer(r) ==
    LET found == Find(router, r.method, r.target)
    IN  [status |-> IF found.route = NoRoute THEN 404 ELSE 200, method |-> r.method, path |-> r.target,
         body |-> [i \in DOMAIN r.body |-> r.body[i].v], route |-> found.route, params |-> found.params]

Refusal(status) ==
    [status |-> status, method |-> "Unknown", path |-> [segs |-> << >>, slash |-> FALSE], body |-> << >>,
     route |-> NoRoute, params |-> << >>]

\* process_input(): from the front of the buffer until more is needed, or the
\* connection is to be closed.
RECURSIVE ProcessInput(_, _)
ProcessInput(buf, out) ==
    LET r == Parse(buf, MaxBody)
        rest == SubSeq(r.buf, r.used + 1, Len(r.buf))
    IN  CASE r.st = "NeedMore" -> [in |-> r.buf, out |-> out, close |-> FALSE]
          [] r.st = "BadRequest" -> [in |-> r.buf, out |-> Append(out, Refusal(400)), close |-> TRUE]
          [] r.st = "TooLarge" -> [in |-> r.buf, out |-> Append(out, Refusal(413)), close |-> TRUE]
          [] r.st = "Done" /\ ~r.keep_alive -> [in |-> rest, out |-> Append(out, Answer(r)), close |-> TRUE]
          [] r.st = "Done" /\ r.keep_alive -> ProcessInput(rest, Append(out, Answer(r)))

\* History: n pieces end in a chunked request, right after its headers or with
\* its first chunk complete.
RECURSIVE EndsInChunks(_, _)
EndsInChunks(reqs, n) ==
    /\ reqs # << >> /\ n > 0
    /\ LET q == Head(reqs)
           headers == 7 + 3 * Len(q.headers)
       IN  IF n >= Len(Encode(q)) THEN EndsInChunks(Tail(reqs), n - Len(Encode(q)))
           ELSE q.chunks # << >> /\ (n = headers \/ n >= headers + Head(q.chunks) + 5)

\* handle_recv() with n more pieces.
Recv(n) ==
    LET done == ProcessInput(in \o SubSeq(wire, 1, n), answers)
        arrived == Len(Stream(sent)) - Len(wire) + n
    IN  /\ listening /\ ~want_close /\ n \in 1 .. Len(wire)
        /\ wire' = SubSeq(wire, n + 1, Len(wire))
        /\ in' = done.in /\ answers' = done.out /\ want_close' = done.close
        /\ cut' = (cut \/ EndsInChunks(sent, arrived))
        /\ UNCHANGED <<router, added, listening, sent>>

Next ==
    \/ \E route \in Routes : AddRoute(route)
    \/ Listen
    \/ \E n \in 1 .. Len(wire) : Recv(n)

Spec == Init /\ [][Next]_vars

-----------------------------------------------------------------------------
(* Properties *)

\* What a request calls for, from what it is and not from its bytes.
Lengths(q) == SelectSeq(q.headers, LAMBDA h : h.name = "length")
Verdict(q) ==
    LET bad == \/ q.method = "Unknown" \/ q.version \notin {10, 11}
               \/ \E i \in DOMAIN q.headers : q.headers[i].name \in {"length?", "coding?"}
        large == Len(q.body) > MaxBody
        both == q.chunks # << >> /\ Lengths(q) # << >>
    IN  IF bad \/ (both /\ ~large) THEN 400 ELSE IF large THEN 413 ELSE 200

KeepsAlive(q) ==
    LET says == SelectSeq(q.headers, LAMBDA h : h.name \in {"close", "keep-alive"})
    IN  IF says = << >> THEN q.version = 11 ELSE says[Len(says)].name = "keep-alive"

\* How many of the requests are to be answered: those up to the first that is
\* refused or ends the connection.
Answerable(reqs) ==
    LET ends == {i \in DOMAIN reqs : Verdict(reqs[i]) # 200 \/ ~KeepsAlive(reqs[i])}
    IN  IF ends = {} THEN Len(reqs) ELSE CHOOSE i \in ends : \A j \in ends : i <= j

\* The state's type.
TypeOK ==
    /\ added \subseteq Routes /\ listening \in BOOLEAN /\ want_close \in BOOLEAN /\ cut \in BOOLEAN
    /\ \A i \in DOMAIN answers : answers[i].status \in {200, 400, 404, 413}
    /\ Len(wire) + Len(in) <= Len(Stream(sent))

AnswersRequest(a, q) ==
    IF Verdict(q) = 200 THEN a.status \in {200, 404} /\ a.method = q.method /\ a.path = q.path /\ a.body = q.body
    ELSE a.status = Verdict(q)

\* However the bytes are cut into portions, the requests are parsed as they
\* were sent: in order, each with its own body, a refused one refused for its
\* own reason, and none behind a request that ends the connection.  When
\* everything has arrived nothing is waited for: the connection has had all its
\* answers, and is left open with an empty buffer or to be closed
\* (http_parser.cpp:425).  It takes the condition that no portion ends behind
\* the first chunk of a body, or right in front of it: the parser decodes in
\* place and then starts again from offset 0 (http_parser.cpp:412), and takes
\* the end of the buffer for a malformed size (http_parser.cpp:382).
ParsedAsSent ==
    /\ TypeOK
    /\ ~cut =>
         /\ Len(answers) <= Answerable(sent)
         /\ \A i \in DOMAIN answers : AnswersRequest(answers[i], sent[i])
         /\ wire = << >> => Len(answers) = Answerable(sent) /\ (want_close \/ in = << >>)

\* A request goes to the most specific of the routes for it, with the values
\* of that route's parameters, whatever the order in which routes were added;
\* it goes to none only if there is none, or if every one has a parameter where
\* another pattern has the path's own segment, because the search in the trie
\* does not come back (router.cpp:86).
RoutedToMostSpecific ==
    \A i \in DOMAIN answers : answers[i].status \in {200, 404} =>
        LET a == answers[i]
            for == {r \in added : Matches(r, a.method, a.path)}
            segs == a.route.path.segs
        IN  IF a.route = NoRoute THEN \A r \in for : Hidden(added, r, a.path)
            ELSE /\ a.route \in for
                 /\ \A r \in for \ {a.route} : Before(a.route, r)
                 /\ a.params = [j \in 1 .. Len(a.params) |->
                        a.path.segs[SetToSortSeq({k \in DOMAIN segs : segs[k] \in Params}, <)[j]]]
                 /\ Len(a.params) = Cardinality({k \in DOMAIN segs : segs[k] \in Params})
=============================================================================
