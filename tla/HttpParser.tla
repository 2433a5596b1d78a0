----------------------------- MODULE HttpParser -----------------------------
(***************************************************************************)
(* HttpParser::parse() of src/spido/src/server/http_parser.cpp.            *)
(*                                                                         *)
(* The buffer is a sequence of pieces [k |-> kind, v |-> value].  A method *)
(* with its space, a target, a version, a header up to its value are one   *)
(* piece each: a part of such a piece is to the parser as good as nothing. *)
(* Line ends are two pieces, and what follows the headers is one piece per *)
(* byte, because there it matters where the buffer ends.  A byte's value   *)
(* is that of a hexadecimal digit, or NoDigit.                             *)
(***************************************************************************)
EXTENDS Naturals, Sequences

NoDigit == 16
Lex(kind, value) == [k |-> kind, v |-> value]
CRLF == <<Lex("cr", 0), Lex("lf", 0)>>

Is(buf, p, kind) == p <= Len(buf) /\ buf[p].k = kind
Crlf(buf, p) == Is(buf, p, "cr") /\ Is(buf, p + 1, "lf")

\* The first place from p on with a piece of one of the kinds, or the end.
RECURSIVE Seek(_, _, _)
Seek(buf, p, kinds) == IF p > Len(buf) \/ buf[p].k \in kinds THEN p ELSE Seek(buf, p + 1, kinds)

Fails(status) == [st |-> status]

-----------------------------------------------------------------------------
\* method_from() tells the known methods from all others.
MethodFrom(lex) == lex.k = "method" /\ lex.v # "Unknown"

\* The scan for the method: bytes left in front of it are part of its name.
MethodAt(buf) ==
    LET p == Seek(buf, 1, {"method", "target", "version", "header", "cr", "lf"})
    IN  IF p > Len(buf) THEN "NeedMore"
        ELSE IF p = 1 /\ MethodFrom(buf[p]) THEN "ok" ELSE "BadRequest"

\* The version: 11 and 10 are known, and a line that ends without one of them
\* is refused.
VersionAt(buf, p) ==
    IF p > Len(buf) THEN "NeedMore"
    ELSE IF buf[p].k # "version" \/ buf[p].v \notin {10, 11}
         THEN IF Seek(buf, p, {"cr"}) <= Len(buf) THEN "BadRequest" ELSE "NeedMore"
    ELSE IF Len(buf) < p + 2 THEN "NeedMore"
    ELSE IF Crlf(buf, p + 1) THEN "ok" ELSE "BadRequest"

\* parse_content_length(): the length, if it is a number of a size allowed.
ContentLength(h, value, max_body) ==
    IF value.name = "length?" THEN Fails("BadRequest")
    ELSE IF value.n > max_body THEN Fails("TooLarge")
    ELSE [h EXCEPT !.cl = value.n, !.has_cl = TRUE]

\* What a header says of the body and of the connection.
HeaderSays(h, value, max_body) ==
    CASE value.name \in {"length", "length?"} -> ContentLength(h, value, max_body)
      [] value.name = "close" -> [h EXCEPT !.keep_alive = FALSE]
      [] value.name = "keep-alive" -> [h EXCEPT !.keep_alive = TRUE]
      [] value.name = "chunked" -> [h EXCEPT !.te = TRUE]
      [] value.name = "coding?" -> Fails("BadRequest")
      [] value.name = "other" -> h

RECURSIVE Headers(_, _, _, _)
Headers(buf, p, h, max_body) ==
    LET cr == Seek(buf, p, {"cr"})
        said == HeaderSays(h, buf[p].v, max_body)
    IN  IF p > Len(buf) THEN Fails("NeedMore")
        ELSE IF buf[p].k \notin {"cr", "header"} THEN Fails("BadRequest")
        ELSE IF cr >= Len(buf) THEN Fails("NeedMore")
        ELSE IF ~Crlf(buf, cr) THEN Fails("BadRequest")
        ELSE IF cr = p THEN [h EXCEPT !.p = p + 2]
        ELSE IF said.st # "Done" THEN said
        ELSE Headers(buf, cr + 2, said, max_body)

-----------------------------------------------------------------------------
(* Transfer-Encoding: chunked, decoded in place *)

RECURSIVE HexValue(_, _, _)
HexValue(buf, p, q) == IF p = q THEN 0 ELSE 16 * HexValue(buf, p, q - 1) + buf[q - 1].v

\* The end of the digits that start at p.
RECURSIVE DigitsEnd(_, _)
DigitsEnd(buf, p) == IF Is(buf, p, "byte") /\ buf[p].v # NoDigit THEN DigitsEnd(buf, p + 1) ELSE p

\* The trailer section after the last chunk.
RECURSIVE Trailers(_, _)
Trailers(buf, p) ==
    LET cr == Seek(buf, p, {"cr"})
    IN  IF Len(buf) < p + 1 THEN Fails("NeedMore")
        ELSE IF Crlf(buf, p) THEN [st |-> "Done", p |-> p + 2]
        ELSE IF cr > Len(buf) THEN Fails("NeedMore")
        ELSE IF ~Crlf(buf, cr) THEN Fails("BadRequest")
        ELSE Trailers(buf, cr + 2)

\* memmove(write, p, size)
Moved(buf, w, p, size) ==
    [i \in DOMAIN buf |-> IF i \in w .. w + size - 1 THEN buf[p + i - w] ELSE buf[i]]

\* One chunk after the other, from p, to w; `start` is where the body starts.
RECURSIVE Chunks(_, _, _, _, _)
Chunks(buf, p, w, start, max_body) ==
    LET q == DigitsEnd(buf, p)
        size == HexValue(buf, p, q)
        e == Seek(buf, q, {"cr", "lf"})
        d == e + 2
        end == Trailers(buf, d)
        Stop(status) == [st |-> status, buf |-> buf]
    IN  IF q = p THEN Stop("BadRequest")
        ELSE IF Len(buf) < e + 1 THEN Stop("NeedMore")
        ELSE IF ~Crlf(buf, e) THEN Stop("BadRequest")
        ELSE IF size = 0
             THEN IF end.st # "Done" THEN Stop(end.st)
                  ELSE [st |-> "Done", buf |-> buf, used |-> end.p - 1, body |-> SubSeq(buf, start, w - 1)]
        ELSE IF w - start + size > max_body THEN Stop("TooLarge")
        ELSE IF Len(buf) < d + size + 1 THEN Stop("NeedMore")
        ELSE LET next == Moved(buf, w, d, size)
             IN  IF ~Crlf(next, d + size) THEN [st |-> "BadRequest", buf |-> next]
                 ELSE Chunks(next, d + size + 2, w + size, start, max_body)

-----------------------------------------------------------------------------
\* A body of the announced length, or none.
ContentBody(buf, h) ==
    IF h.has_cl /\ h.cl > Len(buf) - h.p + 1 THEN [st |-> "NeedMore", buf |-> buf]
    ELSE [st |-> "Done", buf |-> buf, used |-> h.p - 1 + h.cl, body |-> SubSeq(buf, h.p, h.p - 1 + h.cl)]

\* A bug: a body of both kinds is taken for a chunked one.
BodyBoth(buf, h, max_body) == IF h.te THEN Chunks(buf, h.p, h.p, h.p, max_body) ELSE ContentBody(buf, h)

Body(buf, h, max_body) ==
    IF h.te /\ h.has_cl THEN [st |-> "BadRequest", buf |-> buf]
    ELSE IF h.te THEN Chunks(buf, h.p, h.p, h.p, max_body)
    ELSE ContentBody(buf, h)

\* The status and the buffer; for a request that is Done the request, its
\* body, and how much of the buffer it was.
Parse(buf, max_body) ==
    LET version == VersionAt(buf, 3)
        start == [st |-> "Done", p |-> 0, cl |-> 0, has_cl |-> FALSE, te |-> FALSE,
                  keep_alive |-> buf[3].v = 11]
        h == Headers(buf, 6, start, max_body)
        b == Body(buf, h, max_body)
        Stop(status) == [st |-> status, buf |-> buf]
    IN  IF MethodAt(buf) # "ok" THEN Stop(MethodAt(buf))
        ELSE IF Len(buf) = 1 THEN Stop("NeedMore")
        ELSE IF buf[2].k # "target" THEN Stop("BadRequest")
        ELSE IF version # "ok" THEN Stop(version)
        ELSE IF h.st # "Done" THEN Stop(h.st)
        ELSE IF b.st # "Done" THEN b
        ELSE [st |-> "Done", buf |-> b.buf, used |-> b.used, method |-> buf[1].v, target |-> buf[2].v,
              keep_alive |-> h.keep_alive, body |-> b.body]
=============================================================================
