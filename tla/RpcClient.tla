------------------------------ MODULE RpcClient -----------------------------
(***************************************************************************)
(* The RPC client of hazectl (hazectl/clients/mpackrpc_client.go): calls   *)
(* on goroutines of their own, the goroutine of readLoop, the map of       *)
(* pending calls between them, and a server at the other end of the        *)
(* connection.  A section under c.mu is one step, and so is conn.Write,    *)
(* which net.Conn does not interleave with another.  encoder.Encode is     *)
(* neither: every goroutine uses the one encoder, with its one scratch     *)
(* buffer and a conn.Write for each element.  Once a write of another call *)
(* falls into an Encode, the server may read anything.                     *)
(***************************************************************************)
EXTENDS Integers, Sequences, FiniteSets

CONSTANTS
    Calls,          \* goroutines, each in one Call
    MaxBack         \* bound: messages under way when an answer to mixed bytes is added

NoCall == "no call"
NoResp == [kind |-> "response", id |-> 0, from |-> NoCall]

ASSUME CallsAssumption == IsFiniteSet(Calls) /\ NoCall \notin Calls /\ MaxBack \in Nat

Ids == 1 .. Cardinality(Calls)

VARIABLES
    seq,            \* c.seq
    msgID,          \* each call's msgID, 0 before it has one
    pending,        \* c.pending: the call waiting under each id, or NoCall
    chan,           \* each call's channel: "empty", "full" or "closed"
    inChan,         \* the response in a full channel
    pc,             \* where each call is
    got,            \* what each finished call returned: a response, Err or None
    wire,           \* requests on their way to the server
    torn,           \* the bytes of two calls are mixed on the wire, after these
    back,           \* messages on their way to the client
    sock,           \* the connection: "open" or "closed"
    reader,         \* readLoop: "decode", "lookup", "deliver" or "exited"
    resp,           \* the response readLoop holds
    ch              \* the call whose channel readLoop will send to

callVars == <<seq, msgID, pc, got>>
chanVars == <<chan, inChan>>
netVars  == <<wire, torn, back, sock>>
loopVars == <<reader, resp, ch>>
vars     == <<callVars, pending, chanVars, netVars, loopVars>>

Err  == [kind |-> "err", id |-> 0, from |-> NoCall]
None == [kind |-> "none", id |-> 0, from |-> NoCall]

\* A message of the server: "response" is MsgType 1, "other" decodes as another
\* type, "malformed" does not decode.  from is the call whose request it
\* answers, NoCall for a request nobody made.
Msg(kind, id, from) == [kind |-> kind, id |-> id, from |-> from]

Init ==
    /\ seq = 0
    /\ msgID = [g \in Calls |-> 0]
    /\ pending = [i \in Ids |-> NoCall]
    /\ chan = [g \in Calls |-> "empty"]
    /\ inChan = [g \in Calls |-> NoResp]
    /\ pc = [g \in Calls |-> "start"]
    /\ got = [g \in Calls |-> None]
    /\ wire = <<>>
    /\ torn = FALSE
    /\ back = <<>>
    /\ sock = "open"
    /\ reader = "decode"
    /\ resp = NoResp
    /\ ch = NoCall

-----------------------------------------------------------------------------
(* Call.                                                                   *)

\* Mutants of NewMsgId: the counter is advanced twice; it is read and not
\* advanced.
NewMsgIdTwice(g) ==
    /\ pc[g] = "start"
    /\ seq' = seq + 2
    /\ msgID' = [msgID EXCEPT ![g] = seq + 1]
    /\ pc' = [pc EXCEPT ![g] = "register"]
    /\ UNCHANGED <<got, pending, chanVars, netVars, loopVars>>
NewMsgIdStale(g) ==
    /\ pc[g] = "start"
    /\ msgID' = [msgID EXCEPT ![g] = seq + 1]
    /\ pc' = [pc EXCEPT ![g] = "register"]
    /\ UNCHANGED <<seq, got, pending, chanVars, netVars, loopVars>>

\* atomic.AddUint32(&c.seq, 1).
NewMsgId(g) ==
    /\ pc[g] = "start"
    /\ seq' = seq + 1
    /\ msgID' = [msgID EXCEPT ![g] = seq + 1]
    /\ pc' = [pc EXCEPT ![g] = "register"]
    /\ UNCHANGED <<got, pending, chanVars, netVars, loopVars>>

\* The channel is put into the map.
Register(g) ==
    /\ pc[g] = "register"
    /\ pending' = [pending EXCEPT ![msgID[g]] = g]
    /\ pc' = [pc EXCEPT ![g] = "write"]
    /\ UNCHANGED <<seq, msgID, got, chanVars, netVars, loopVars>>

\* The request goes out three times: conn.Write, then encoder.Encode twice.
Encodes  == {"encode1", "encode2"}
Encoding == {"encoding1", "encoding2"}
Writing  == {"write"} \union Encodes \union Encoding

\* Another call is inside encoder.Encode.
Mixes(g) == \E h \in Calls \ {g} : pc[h] \in Encoding

\* What the server will read of g's bytes.  The first writes after it closed
\* may still succeed.
Put(g) == wire' = IF sock = "open" /\ ~torn' THEN Append(wire, [id |-> msgID[g], from |-> g]) ELSE wire

ConnWrite(g) ==
    /\ pc[g] = "write"
    /\ torn' = (torn \/ Mixes(g))
    /\ Put(g)
    /\ pc' = [pc EXCEPT ![g] = "encode1"]
    /\ UNCHANGED <<seq, msgID, got, pending, chanVars, back, sock, loopVars>>

EncodeBegins(g) ==
    /\ pc[g] \in Encodes
    /\ torn' = (torn \/ Mixes(g))
    /\ pc' = [pc EXCEPT ![g] = IF @ = "encode1" THEN "encoding1" ELSE "encoding2"]
    /\ UNCHANGED <<seq, msgID, got, pending, chanVars, wire, back, sock, loopVars>>

EncodeEnds(g) ==
    /\ pc[g] \in Encoding
    /\ torn' = torn
    /\ Put(g)
    /\ pc' = [pc EXCEPT ![g] = IF @ = "encoding1" THEN "encode2" ELSE "wait"]
    /\ UNCHANGED <<seq, msgID, got, pending, chanVars, back, sock, loopVars>>

\* Marshal fails, or a write once the connection is gone: removePending, and
\* Call returns the error.
WriteFails(g) ==
    /\ pc[g] \in Writing
    /\ pc[g] = "write" \/ sock = "closed"
    /\ pending' = [pending EXCEPT ![msgID[g]] = NoCall]
    /\ pc' = [pc EXCEPT ![g] = "done"]
    /\ got' = [got EXCEPT ![g] = Err]
    /\ UNCHANGED <<seq, msgID, chanVars, netVars, loopVars>>

\* <-respChan: a response, or the channel was closed.
Receive(g) ==
    /\ pc[g] = "wait"
    /\ chan[g] # "empty"
    /\ got' = [got EXCEPT ![g] = IF chan[g] = "full" THEN inChan[g] ELSE Err]
    /\ chan' = [chan EXCEPT ![g] = IF @ = "full" THEN "empty" ELSE @]
    /\ inChan' = [inChan EXCEPT ![g] = NoResp]
    /\ pc' = [pc EXCEPT ![g] = "done"]
    /\ UNCHANGED <<seq, msgID, pending, netVars, loopVars>>

-----------------------------------------------------------------------------
(* readLoop.                                                               *)

\* A message that decodes; one that is no response is skipped.
Decode ==
    /\ reader = "decode"
    /\ back # <<>>
    /\ Head(back).kind # "malformed"
    /\ back' = Tail(back)
    /\ IF Head(back).kind = "response"
       THEN resp' = Head(back) /\ reader' = "lookup"
       ELSE UNCHANGED <<resp, reader>>
    /\ UNCHANGED <<callVars, pending, chanVars, wire, torn, sock, ch>>

\* The decoder finds the end of the connection, or a message it cannot decode.
NoMore == (back = <<>> /\ sock = "closed") \/ (back # <<>> /\ Head(back).kind = "malformed")

\* Mutant of DecodeFails: the loop ends without closing the channels.
DecodeFailsSilently ==
    /\ reader = "decode"
    /\ NoMore
    /\ pending' = [i \in Ids |-> NoCall]
    /\ reader' = "exited"
    /\ UNCHANGED <<callVars, chanVars, netVars, resp, ch>>

\* Every pending channel is closed, and the loop ends; the connection stays as
\* it is.
DecodeFails ==
    /\ reader = "decode"
    /\ NoMore
    /\ chan' = [g \in Calls |-> IF \E i \in Ids : pending[i] = g THEN "closed" ELSE chan[g]]
    /\ pending' = [i \in Ids |-> NoCall]
    /\ reader' = "exited"
    /\ UNCHANGED <<callVars, inChan, netVars, resp, ch>>

\* c.pending[id]; an id nobody was given is not in the map.
Waiting(id) == IF id \in Ids THEN pending[id] ELSE NoCall

\* Mutant of Lookup: the entry stays in the map.
LookupKeeps ==
    /\ reader = "lookup"
    /\ ch' = Waiting(resp.id)
    /\ reader' = IF Waiting(resp.id) = NoCall THEN "decode" ELSE "deliver"
    /\ UNCHANGED <<callVars, pending, chanVars, netVars, resp>>

\* The call is looked up and taken out of the map; a response nobody waits for
\* is dropped.
Lookup ==
    /\ reader = "lookup"
    /\ ch' = Waiting(resp.id)
    /\ pending' = [i \in Ids |-> IF i = resp.id THEN NoCall ELSE pending[i]]
    /\ reader' = IF Waiting(resp.id) = NoCall THEN "decode" ELSE "deliver"
    /\ resp' = IF Waiting(resp.id) = NoCall THEN NoResp ELSE resp
    /\ UNCHANGED <<callVars, chanVars, netVars>>

\* ch <- &resp.
Deliver ==
    /\ reader = "deliver"
    /\ chan[ch] = "empty"
    /\ chan' = [chan EXCEPT ![ch] = "full"]
    /\ inChan' = [inChan EXCEPT ![ch] = resp]
    /\ reader' = "decode"
    /\ resp' = NoResp
    /\ ch' = NoCall
    /\ UNCHANGED <<callVars, pending, netVars>>

-----------------------------------------------------------------------------
(* The server.                                                             *)

\* A request is answered under its msgid, or, an import, not at all; or the
\* server sends a message that is no response.
Serve ==
    /\ sock = "open"
    /\ wire # <<>>
    /\ wire' = Tail(wire)
    /\ back' \in {back, Append(back, Msg("response", Head(wire).id, Head(wire).from)),
                  Append(back, Msg("other", 0, NoCall)), Append(back, Msg("malformed", 0, NoCall))}
    /\ UNCHANGED <<callVars, pending, chanVars, torn, sock, loopVars>>

\* Of mixed bytes it may read any request, and answers under the msgid it reads.
ServeTorn ==
    /\ sock = "open"
    /\ torn
    /\ wire = <<>>
    /\ Len(back) < MaxBack
    /\ \E id \in Ids \union {0} : back' = Append(back, Msg("response", id, NoCall))
    /\ UNCHANGED <<callVars, pending, chanVars, wire, torn, sock, loopVars>>

\* It closes: a request cut by TCP, a signal, a crash.  Responses the client
\* has not read yet may be lost with the connection.
ServerCloses ==
    /\ sock = "open"
    /\ sock' = "closed"
    /\ wire' = <<>>
    /\ \E n \in 0 .. Len(back) : back' = SubSeq(back, 1, n)
    /\ UNCHANGED <<callVars, pending, chanVars, torn, loopVars>>

\* Close, as SendRequest defers it.
Close ==
    /\ sock = "open"
    /\ \A g \in Calls : pc[g] = "done"
    /\ sock' = "closed"
    /\ wire' = <<>>
    /\ back' = <<>>
    /\ UNCHANGED <<callVars, pending, chanVars, torn, loopVars>>

CallStep(g) ==
    \/ NewMsgId(g) \/ Register(g)
    \/ ConnWrite(g) \/ EncodeBegins(g) \/ EncodeEnds(g) \/ WriteFails(g)
    \/ Receive(g)
LoopStep    == Decode \/ DecodeFails \/ Lookup \/ Deliver

Next ==
    \/ \E g \in Calls : CallStep(g)
    \/ LoopStep
    \/ Serve
    \/ ServeTorn
    \/ ServerCloses
    \/ Close

\* The Go scheduler runs every goroutine that can go on.  The server owes nothing.
Spec == Init /\ [][Next]_vars /\ WF_vars(LoopStep) /\ \A g \in Calls : WF_vars(CallStep(g))

-----------------------------------------------------------------------------
\* The types of the variables.
TypeOK ==
    /\ seq \in 0 .. Cardinality(Calls)
    /\ msgID \in [Calls -> {0} \union Ids]
    /\ pending \in [Ids -> Calls \union {NoCall}]
    /\ chan \in [Calls -> {"empty", "full", "closed"}]
    /\ pc \in [Calls -> {"start", "register", "wait", "done"} \union Writing]
    /\ torn \in BOOLEAN
    /\ sock \in {"open", "closed"}
    /\ reader \in {"decode", "lookup", "deliver", "exited"}
    /\ ch \in Calls \union {NoCall}

\* A call that returns a response returns one under its own msgid, with any
\* number of calls in flight and answers in any order, and while no two calls
\* have written at once it is the answer to its own request.  It is never the
\* answer to another call's.
OwnResponse ==
    \A g \in Calls : pc[g] = "done" /\ got[g] # Err =>
        /\ got[g].kind = "response"
        /\ got[g].id = msgID[g]
        /\ got[g].from = g \/ (torn /\ got[g].from = NoCall)

\* readLoop finds room in the channel it sends to: it is never closed (Go
\* would panic) and never full (readLoop, and every other call with it, would
\* wait), although the server answers a call up to three times, or any number
\* of times when it reads mixed bytes.
DeliverNeverBlocks == reader = "deliver" => chan[ch] = "empty"

\* A call that is in the map when the connection goes, or when a message that
\* does not decode is under way, returns, with the answer that comes before it
\* or with an error, if readLoop has not ended yet.  (A call that registers
\* after readLoop has ended, and whose writes succeed, waits for ever.)
ReleasedOnClose ==
    \A g \in Calls :
        (/\ sock = "closed" \/ \E i \in DOMAIN back : back[i].kind = "malformed"
         /\ reader # "exited"
         /\ \E i \in Ids : pending[i] = g) ~> pc[g] = "done"
=============================================================================
