--------------------------- MODULE MCRequestStream --------------------------
(* RequestStream with a few requests: no parameter, scalars, strings first *)
(* and last, and (NestedRequests) an array as a parameter.                 *)
EXTENDS RequestStream

Req(id, method, params) == [id |-> id, method |-> method, params |-> params]

FlatRequests ==
    { Req(0, "test/ping", <<>>),
      Req(1, "samplelist/import", <<Str("kick")>>),
      Req(2, "samplelist/import", <<Str("kick"), Int64(1)>>),
      Req(3, "session/create", <<Nil, Str("kick")>>) }

NestedRequests ==
    { Req(0, "test/ping", <<>>),
      Req(1, "session/create", <<Pair(Int64(1), Str("kick"))>>),
      Req(2, "session/create", <<Str("kick"), Pair(Nil, Nil), Int64(0)>>) }

\* The rest of an integer may read as a number, or as a whole request.
ForgedRests == { <<Tag("int", 0)>>, Encode(Req(3, "session/create", <<>>)) }
=============================================================================
