----------------------------- MODULE MCRequest -----------------------------
(***************************************************************************)
(* Instances of Request: routes that share prefixes, literal and not, and  *)
(* streams of one or two requests of every kind.                           *)
(***************************************************************************)
EXTENDS Request

Path(segs) == [segs |-> segs, slash |-> FALSE]
Route(m, segs) == [method |-> m, path |-> Path(segs)]

MCRoutes ==
    {Route("GET", <<"a", "b">>), Route("GET", <<"a", ":x">>), Route("GET", <<"a", ":y", "c">>),
     Route("GET", <<"a", "b", ":x">>), Route("GET", <<":x", "b", "c">>), Route("POST", <<"a", ":x">>)}

MCNoRoute == Route("Unknown", << >>)

H(name, n) == [name |-> name, n |-> n]
Req(m, segs, version, headers, body, chunks) ==
    [method |-> m, path |-> Path(segs), version |-> version, headers |-> headers, body |-> body, chunks |-> chunks]

Get(segs) == Req("GET", segs, 11, << >>, << >>, << >>)
Post(body) == Req("POST", <<"a", "b">>, 11, <<H("length", Len(body))>>, body, << >>)
Chunky(body, sizes, more) == Req("POST", <<"a", "b">>, 11, <<H("chunked", 0)>> \o more, body, sizes)

MCStreams ==
    {<<Get(<<"a", "b">>), Get(<<"a", "b", "c">>)>>,
     <<Get(<<"a", "d">>), Get(<<"a", "d", "c">>)>>,
     <<Get(<<"d", "b", "c">>), Req("GET", <<"a">>, 10, << >>, << >>, << >>), Get(<<"a", "b">>)>>,
     <<[Get(<<"a", "d">>) EXCEPT !.path.slash = TRUE], [Get(<<"a", "b">>) EXCEPT !.path.slash = TRUE]>>,
     <<Post(<<1, 16>>), Get(<<"a", "b">>), Post(<<16>>)>>,
     <<Post(<<1, 1, 1, 1>>), Get(<<"a", "b">>)>>,
     <<Chunky(<<16, 2, 1>>, <<2, 1>>, << >>), Get(<<"a", "b">>)>>,
     <<Get(<<"a", "b">>), Chunky(<<1, 2, 1, 2>>, <<2, 2>>, << >>)>>,
     <<Chunky(<<1>>, <<1>>, <<H("length", 1)>>), Get(<<"a", "b">>)>>,
     <<Req("GET", <<"a", "b">>, 10, <<H("close", 0), H("other", 0), H("keep-alive", 0)>>, << >>, << >>), Get(<<"a">>)>>,
     <<Req("GET", <<"a", "b">>, 11, <<H("close", 0)>>, << >>, << >>), Get(<<"a">>)>>,
     <<Req("GET", <<"a", "b">>, 11, <<H("length?", 0)>>, << >>, << >>)>>,
     <<Req("GET", <<"a", "b">>, 11, <<H("coding?", 0)>>, << >>, << >>)>>,
     <<Req("Unknown", <<"a", "b">>, 11, << >>, << >>, << >>)>>,
     <<Req("GET", <<"a", "b">>, 20, << >>, << >>, << >>)>>}
=============================================================================
