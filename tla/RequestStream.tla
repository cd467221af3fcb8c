---------------------------- MODULE RequestStream ---------------------------
(***************************************************************************)
(* From a client's requests to the requests the server dispatches: the     *)
(* encoding of source/api/proto/Request.c, TCP cutting the byte stream     *)
(* into reads, RequestUnmarshal, and the loop of haze_on_read, for one     *)
(* connection.                                                             *)
(*                                                                         *)
(* The stream is a sequence of elements: a MessagePack tag with its value, *)
(* or the body that follows a string's tag.  mpack reports the same error  *)
(* for a piece of an element as for none of it; what the other piece reads *)
(* as, when the next read starts with it, is any of Rests: the bytes of an *)
(* integer, a text or a binary may well be those of an envelope.           *)
(*                                                                         *)
(* Memory is assumed for RequestUnmarshal.  Without it the process ends,   *)
(* since RequestNew's result and the buffers of strings and binaries are   *)
(* used unchecked; or the connection is closed (no copy of the method); or *)
(* the request has no method (Dispatcher, MethodNotSpecified), or a nil or *)
(* nothing in the place of a parameter (no Object, no longer array).       *)
(***************************************************************************)
EXTENDS Integers, Sequences

CONSTANTS
    Methods,        \* method names
    Texts,          \* contents of string parameters, the empty one apart
    Empty,          \* the empty string
    Requests,       \* the requests the client may send
    Rests,          \* what the rest of an element may read as
    IdModulus,      \* 2^32, the width of msgid and of the message type
    MaxRequests     \* bound: requests the client sends

Tag(k, n)  == [k |-> k, n |-> n]
Body(text) == [k |-> "body", n |-> text]

\* A parameter is nil, an integer, a string or an array of two of these.
Nil       == [t |-> "nil", v |-> 0]
Int64(i)  == [t |-> "int", v |-> i]
Str(text) == [t |-> "str", v |-> text]
Pair(a, b) == [t |-> "arr", v |-> <<a, b>>]
Scalars   == {Nil} \union [t : {"int"}, v : Int] \union [t : {"str"}, v : Texts \union {Empty}]
Params    == Scalars \union [t : {"arr"}, v : Scalars \X Scalars]

\* The elements of a stream.
Elements ==
    [k : {"nil", "str"}, n : {0}] \union [k : {"int"}, n : Int] \union [k : {"arr"}, n : Nat]
    \union [k : {"body"}, n : Texts \union {Empty} \union Methods]

ASSUME RequestsAssumption ==
    /\ IdModulus \in Nat \ {0}
    /\ MaxRequests \in Nat
    /\ Empty \notin Texts
    /\ Requests \subseteq [id : Nat, method : Methods, params : Seq(Params)]
    /\ Rests \subseteq Seq(Elements)

VARIABLES
    sent,           \* the requests the client has sent
    wire,           \* elements sent and not read yet
    buffer,         \* conn->buffer: its whole elements
    part,           \* the buffer ends with a piece of an element, or a string's tag
    dispatched,     \* the requests ServerDispatch was called with, in order
    conn,           \* "open" until haze_on_read closes it
    reading,        \* haze_on_read is in its loop
    ends,           \* where in the stream each request ends
    cutAt           \* where in the stream TCP first cut a request in two

vars == <<sent, wire, buffer, part, dispatched, conn, reading, ends, cutAt>>

NoCut == -1

-----------------------------------------------------------------------------
(* RequestMarshal.                                                         *)

EncodeScalar(p) ==
    IF p.t = "str" THEN <<Tag("str", 0), Body(p.v)>> ELSE <<Tag(p.t, p.v)>>

EncodeParam(p) ==
    IF p.t = "arr"
    THEN <<Tag("arr", 2)>> \o EncodeScalar(p.v[1]) \o EncodeScalar(p.v[2])
    ELSE EncodeScalar(p)

EncodeParams(ps) ==
    LET enc[i \in 0 .. Len(ps)] == IF i = 0 THEN <<>> ELSE enc[i - 1] \o EncodeParam(ps[i])
    IN  enc[Len(ps)]

Encode(r) ==
    <<Tag("arr", 4), Tag("int", 0), Tag("int", r.id), Tag("str", 0), Body(r.method),
      Tag("arr", Len(r.params))>> \o EncodeParams(r.params)

-----------------------------------------------------------------------------
(* RequestUnmarshal.                                                       *)

\* RequestParamAppend at index i, from 0: gaps are filled with nil.
ParamAppend(ps, p, i) == ps \o [j \in 1 .. i - Len(ps) |-> Nil] \o <<p>>

\* Mutant of ReadParam: the body of a string is not skipped.
ReadParamNoBody(b, s, i) ==
    IF s.err \/ s.at > Len(b)
    THEN [s EXCEPT !.err = TRUE, !.params = ParamAppend(@, Nil, i)]
    ELSE LET tag == b[s.at]
             text == IF s.at < Len(b) THEN b[s.at + 1].n ELSE Empty
         IN  IF tag.k = "arr" THEN [s EXCEPT !.at = @ + 1]
             ELSE [s EXCEPT !.at = @ + 1,
                            !.params = ParamAppend(@, IF tag.k = "str" THEN Str(text)
                                                      ELSE [t |-> tag.k, v |-> tag.n], i)]

\* One round of the parameter loop: at is the next element of b, err the
\* reader's error flag.  mpack_read_tag in error returns a nil tag,
\* mpack_read_bytes in error zero-fills; an array's tag is skipped and nothing
\* is appended for it.
ReadParam(b, s, i) ==
    LET gone   == s.err \/ s.at > Len(b)
        tag    == IF gone THEN Tag("nil", 0) ELSE b[s.at]
        add(p) == ParamAppend(s.params, p, i)
    IN  CASE gone -> [at |-> s.at, err |-> TRUE, params |-> add(Nil)]
          [] ~gone /\ tag.k = "arr" -> [at |-> s.at + 1, err |-> FALSE, params |-> s.params]
          [] ~gone /\ tag.k = "str" ->
                IF s.at + 1 > Len(b)
                THEN [at |-> s.at, err |-> TRUE, params |-> add(Str(Empty))]
                ELSE [at |-> s.at + 2, err |-> FALSE, params |-> add(Str(b[s.at + 1].n))]
          [] OTHER -> [at |-> s.at + 1, err |-> FALSE, params |-> add([t |-> tag.k, v |-> tag.n])]

\* The state of the reader after the loop over count parameters.
ReadParams(b, count) ==
    LET s0 == [at |-> 7, err |-> FALSE, params |-> <<>>]
        s[i \in 0 .. count] == IF i = 0 THEN s0 ELSE ReadParam(b, s[i - 1], i - 1)
    IN  s[count]

\* The envelope as far as the tag of the parameters; msgid and type are cut
\* to their 32 bits.
Envelope(b) ==
    /\ Len(b) >= 6
    /\ b[1] = Tag("arr", 4)
    /\ b[2].k = "int" /\ b[2].n % IdModulus = 0
    /\ b[3].k = "int"
    /\ b[4].k = "str"
    /\ b[6].k = "arr"

\* The request, and b->len = bytes consumed.  mpack_reader_remaining is 0 when
\* the reader is in error: everything counts as consumed, a piece of an
\* element too.
RequestUnmarshal(b) ==
    LET s == ReadParams(b, b[6].n)
    IN  [request  |-> [id |-> b[3].n % IdModulus, method |-> b[5].n, params |-> s.params],
         consumed |-> IF s.err THEN Len(b) ELSE s.at - 1,
         all      |-> s.err]

-----------------------------------------------------------------------------
Init ==
    /\ sent = <<>>
    /\ wire = <<>>
    /\ buffer = <<>>
    /\ part = FALSE
    /\ dispatched = <<>>
    /\ conn = "open"
    /\ reading = FALSE
    /\ ends = <<>>
    /\ cutAt = NoCut

StreamLen == IF ends = <<>> THEN 0 ELSE ends[Len(ends)]

\* The client writes a request to its socket.
Send(r) ==
    /\ conn = "open"
    /\ Len(sent) < MaxRequests
    /\ sent' = Append(sent, r)
    /\ wire' = wire \o Encode(r)
    /\ ends' = Append(ends, StreamLen + Len(Encode(r)))
    /\ UNCHANGED <<buffer, part, dispatched, conn, reading, cutAt>>

\* Where in the stream a read of n elements ends, before any cut.
ReadEnd(n) == StreamLen - Len(wire) + n

\* haze_on_read is called with the first n elements that are in flight; the
\* next read starts with a tag.
OnRead(n) ==
    /\ conn = "open"
    /\ ~reading
    /\ n < Len(wire) => wire[n + 1].k # "body"
    /\ buffer' = buffer \o SubSeq(wire, 1, n)
    /\ wire' = SubSeq(wire, n + 1, Len(wire))
    /\ reading' = TRUE
    /\ cutAt' = IF cutAt # NoCut \/ \E i \in DOMAIN ends : ends[i] = ReadEnd(n) THEN cutAt ELSE ReadEnd(n)
    /\ UNCHANGED <<sent, part, dispatched, conn, ends>>

\* It is called with n elements and a piece of the one after them, which is
\* empty only between a string's tag and its body.
OnReadInside(n, rest) ==
    /\ conn = "open"
    /\ ~reading
    /\ buffer' = buffer \o SubSeq(wire, 1, n)
    /\ part' = TRUE
    /\ wire' = rest \o SubSeq(wire, n + 2, Len(wire))
    /\ reading' = TRUE
    /\ cutAt' = IF cutAt # NoCut THEN cutAt ELSE ReadEnd(n)
    /\ UNCHANGED <<sent, dispatched, conn, ends>>

Take(u) ==
    /\ dispatched' = Append(dispatched, u.request)
    /\ buffer' = SubSeq(buffer, u.consumed + 1, Len(buffer))
    /\ part' = (part /\ ~u.all)

\* Mutants of Dispatch: one request a read; a buffer that is not a request is
\* dropped and the connection kept.
DispatchOnePerRead ==
    /\ reading
    /\ buffer # <<>> \/ part
    /\ reading' = FALSE
    /\ IF Envelope(buffer)
       THEN Take(RequestUnmarshal(buffer)) /\ UNCHANGED conn
       ELSE conn' = "closed" /\ UNCHANGED <<dispatched, buffer, part>>
    /\ UNCHANGED <<sent, wire, ends, cutAt>>
DispatchDropsMalformed ==
    /\ reading
    /\ buffer # <<>> \/ part
    /\ IF Envelope(buffer)
       THEN Take(RequestUnmarshal(buffer))
       ELSE buffer' = <<>> /\ part' = FALSE /\ UNCHANGED dispatched
    /\ UNCHANGED <<sent, wire, conn, reading, ends, cutAt>>

\* One round of its loop: RequestUnmarshal fails and the connection is closed,
\* or the request is dispatched and its bytes are taken out of the buffer.
Dispatch ==
    /\ reading
    /\ buffer # <<>> \/ part
    /\ IF Envelope(buffer)
       THEN /\ Take(RequestUnmarshal(buffer))
            /\ UNCHANGED <<conn, reading>>
       ELSE /\ conn' = "closed"
            /\ reading' = FALSE
            /\ UNCHANGED <<dispatched, buffer, part>>
    /\ UNCHANGED <<sent, wire, ends, cutAt>>

\* The buffer is empty: haze_on_read returns.
ReadDone ==
    /\ reading
    /\ buffer = <<>> /\ ~part
    /\ reading' = FALSE
    /\ UNCHANGED <<sent, wire, buffer, part, dispatched, conn, ends, cutAt>>

\* The client has nothing more to send and the server nothing more to read.
Done ==
    /\ ~reading
    /\ conn = "closed" \/ (wire = <<>> /\ Len(sent) = MaxRequests)
    /\ UNCHANGED vars

\* TCP delivers what it likes of what is in flight.
Read ==
    \/ \E n \in 1 .. Len(wire) : OnRead(n)
    \/ \E n \in 0 .. Len(wire) - 1, rest \in Rests : OnReadInside(n, rest)

Next ==
    \/ \E r \in Requests : Send(r)
    \/ Read
    \/ Dispatch
    \/ ReadDone
    \/ Done

\* TCP delivers what was sent, and haze_on_read runs to its end.
Fairness == WF_vars(Read) /\ WF_vars(Dispatch \/ ReadDone)

Spec == Init /\ [][Next]_vars /\ Fairness

-----------------------------------------------------------------------------
\* Request i came before the first cut; it is the one that was cut.
Whole(i)  == cutAt = NoCut \/ ends[i] <= cutAt
CutOne(i) == ~Whole(i) /\ (i = 1 \/ Whole(i - 1))

\* The types of the variables; of what is dispatched, up to the request that
\* was cut.
TypeOK ==
    /\ sent \in Seq(Requests)
    /\ ends \in Seq(Nat) /\ Len(ends) = Len(sent)
    /\ cutAt \in Nat \union {NoCut}
    /\ \A i \in DOMAIN dispatched \intersect DOMAIN sent :
        Whole(i) \/ CutOne(i) => dispatched[i] \in [id : 0 .. IdModulus - 1, method : Methods, params : Seq(Params)]
    /\ conn \in {"open", "closed"}
    /\ reading \in BOOLEAN
    /\ part \in BOOLEAN

\* docs/proto.md: MessagePack-RPC "over a byte stream".  The server dispatches
\* the client's requests as they were sent, in order, and keeps the connection.
DispatchedAsSent ==
    /\ conn = "open"
    /\ Len(dispatched) <= Len(sent)
    /\ \A i \in DOMAIN dispatched : dispatched[i] = sent[i]

\* So it does while every read ends where a request ends, whatever number of
\* requests a read brings.
WholeAsSent == cutAt = NoCut => DispatchedAsSent

\* However TCP cuts the stream, the requests that came whole before the first
\* cut are dispatched as they were sent, and the one that was cut, if it is
\* dispatched, has the client's msgid and method and as many parameters.  What
\* is dispatched after that one may be anything.
AsSentUpToCut ==
    \A i \in DOMAIN dispatched \intersect DOMAIN sent :
        /\ Whole(i) => dispatched[i] = sent[i]
        /\ CutOne(i) => /\ dispatched[i].id = sent[i].id
                        /\ dispatched[i].method = sent[i].method
                        /\ Len(dispatched[i].params) = Len(sent[i].params)

\* Every request the client sends is dispatched in the end, unless it or one
\* before it was cut.
EveryRequestDispatched ==
    \A k \in 1 .. MaxRequests :
        Len(sent) >= k ~> (Len(dispatched) >= k \/ (k \in DOMAIN ends /\ ~Whole(k)))
=============================================================================
