-------------------------- MODULE RpcClientProofs ---------------------------
(***************************************************************************)
(* The safety properties of RpcClient, for every finite set of calls.      *)
(***************************************************************************)
EXTENDS RpcClient, FiniteSetTheorems, SequenceTheorems, TLAPS

\* Requests, and messages of the server.
Msgs    == [id : Ids, from : Calls]
Answers == [kind : {"response", "other", "malformed"}, id : Ids \union {0}, from : Calls \union {NoCall}]

\* The calls that have a message id, and the call readLoop sends to.
Started == {g \in Calls : pc[g] # "start"}
OnDelivery(g) == reader = "deliver" /\ ch = g

(***************************************************************************)
(* The inductive invariant.  OwnResponse needs that an id is given out     *)
(* once (IdsGivenOnce), so that what is under way under an id belongs to   *)
(* its call, or to no call when bytes were mixed (Honest).  DeliverNeverBlocks needs that a call is in the map, *)
(* or is being delivered to, and not both, while its channel is empty      *)
(* (MapSound, DeliverySound).                                              *)
(***************************************************************************)

\* The types of what TypeOK leaves out.
Typed ==
    /\ TypeOK
    /\ inChan \in [Calls -> Answers]
    /\ got \in [Calls -> Answers \union {Err, None}]
    /\ wire \in Seq(Msgs)
    /\ back \in Seq(Answers)
    /\ resp \in Answers

\* atomic.AddUint32 gives every call an id of its own.
IdsGivenOnce ==
    /\ seq = Cardinality(Started)
    /\ \A g \in Calls : pc[g] # "start" => msgID[g] \in 1 .. seq
    /\ \A g, h \in Started : msgID[g] = msgID[h] => g = h

\* A request carries the id of the call it is from, and so does a response,
\* unless it answers a request nobody made.
Own(m)    == m \in Msgs /\ m.from \in Started /\ m.id = msgID[m.from]
Answer(m) ==
    /\ m \in Answers
    /\ m.kind = "response" =>
         (m.from \in Started /\ m.id = msgID[m.from]) \/ (torn /\ m.from = NoCall)

\* A response that call g may return.
Fits(m, g) ==
    /\ m \in Answers
    /\ m.kind = "response"
    /\ m.id = msgID[g]
    /\ m.from = g \/ (torn /\ m.from = NoCall)

Honest ==
    /\ \A i \in DOMAIN wire : Own(wire[i])
    /\ \A i \in DOMAIN back : Answer(back[i])
    /\ reader \in {"lookup", "deliver"} => Answer(resp) /\ resp.kind = "response"
    /\ \A g \in Calls : chan[g] = "full" => Fits(inChan[g], g)

\* A call in the map is under its id, and nothing has been sent to it yet.
MapSound ==
    \A i \in Ids : pending[i] # NoCall =>
        /\ pc[pending[i]] \in Writing \union {"wait"}
        /\ msgID[pending[i]] = i
        /\ chan[pending[i]] = "empty"
        /\ ~OnDelivery(pending[i])

\* readLoop sends to the call of the response it holds.
DeliverySound ==
    reader = "deliver" =>
        /\ ch \in Started
        /\ pc[ch] # "register"
        /\ Fits(resp, ch)
        /\ chan[ch] = "empty"

\* Nothing is sent to a call that has not registered.
Unregistered ==
    \A g \in Calls : pc[g] \in {"start", "register"} => chan[g] = "empty"

IInv ==
    /\ Typed
    /\ IdsGivenOnce
    /\ Honest
    /\ MapSound
    /\ DeliverySound
    /\ Unregistered
    /\ OwnResponse

-----------------------------------------------------------------------------
(* Facts the steps share.                                                  *)

\* The places of the writes of a call.
LEMMA WritingFacts == Writing = {"write", "encode1", "encoding1", "encode2", "encoding2"}
BY DEF Writing, Encodes, Encoding

\* There are as many ids as calls, a natural number.
LEMMA CallsCount == Cardinality(Calls) \in Nat
BY FS_CardinalityType, CallsAssumption

\* A message of the invariant stays one while calls keep their ids.
LEMMA OwnStays ==
    ASSUME NEW m, Own(m), Started \subseteq Started',
           \A g \in Started : msgID'[g] = msgID[g]
    PROVE  Own(m)'
BY DEF Own, Msgs, Ids

\* The same of the server's messages, and of what a call may return.
LEMMA AnswerStays ==
    ASSUME Started \subseteq Started', \A g \in Started : msgID'[g] = msgID[g], torn => torn'
    PROVE  /\ \A m : Answer(m) => Answer(m)'
           /\ \A m : \A g \in Started : Fits(m, g) => Fits(m, g)'
BY DEF Answer, Fits, Answers, Ids

\* The first element and the rest of a sequence that is not empty.
LEMMA HeadTail ==
    ASSUME NEW S, NEW q \in Seq(S), q # <<>>
    PROVE  /\ Head(q) \in S /\ Tail(q) \in Seq(S)
           /\ 1 \in DOMAIN q /\ Head(q) = q[1]
           /\ \A i \in DOMAIN Tail(q) : i + 1 \in DOMAIN q /\ Tail(q)[i] = q[i + 1]
<1>1. Len(q) \in Nat /\ Len(q) # 0 /\ DOMAIN q = 1 .. Len(q)
  BY EmptySeq
<1>2. Tail(q) \in Seq(S) /\ DOMAIN Tail(q) = 1 .. Len(q) - 1 /\ \A i \in 1 .. Len(q) - 1 : Tail(q)[i] = q[i + 1]
  BY <1>1, HeadTailProperties
<1>3. Head(q) = q[1] /\ Head(q) \in S
  BY <1>1, HeadTailProperties
<1> QED
  BY <1>1, <1>2, <1>3

\* What a step keeps that gives out no id.
LEMMA IdsStay ==
    ASSUME IInv, UNCHANGED <<seq, msgID>>, \A g \in Calls : pc'[g] = "start" <=> pc[g] = "start", torn => torn'
    PROVE  /\ Started' = Started
           /\ IdsGivenOnce'
           /\ \A m : Own(m) => Own(m)'
           /\ \A m : Answer(m) => Answer(m)'
           /\ \A m : \A g \in Calls : Fits(m, g) => Fits(m, g)'
<1>1. Started' = Started
  BY DEF Started
<1>2. IdsGivenOnce'
  BY <1>1 DEF IInv, IdsGivenOnce
<1>3. \A m : Own(m) => Own(m)'
  BY <1>1, OwnStays
<1>4. \A m : Answer(m) => Answer(m)'
  BY <1>1, AnswerStays
<1>5. \A m : \A g \in Calls : Fits(m, g) => Fits(m, g)'
  BY DEF Fits, Answers, Ids
<1> QED
  BY <1>1, <1>2, <1>3, <1>4, <1>5

\* What a finished call has returned stays what it may return.
LEMMA ReturnedStays ==
    ASSUME IInv, UNCHANGED <<msgID, got>>, torn => torn', \A g \in Calls : pc'[g] = "done" => pc[g] = "done"
    PROVE  OwnResponse'
BY DEF IInv, OwnResponse

\* What a step of a call keeps that does not touch the connection or readLoop.
LEMMA HonestStays ==
    ASSUME IInv, UNCHANGED <<netVars, loopVars>>, \A m : Own(m) => Own(m)', \A m : Answer(m) => Answer(m)',
           \A m : \A g \in Started : Fits(m, g) => Fits(m, g)',
           \A g \in Calls : chan'[g] = "full" => chan[g] = "full" /\ inChan'[g] = inChan[g]
    PROVE  Honest'
<1>1. \A g \in Calls : chan[g] = "full" => g \in Started
  BY DEF IInv, Unregistered, Started
<1> QED
  BY <1>1 DEF IInv, Honest, netVars, loopVars

-----------------------------------------------------------------------------
\* The first state satisfies the invariant.
LEMMA InitIInv == Init => IInv
<1> SUFFICES ASSUME Init PROVE IInv
  OBVIOUS
<1> USE DEF Init
<1>1. Typed
  <2>1. NoResp \in Answers
    BY DEF NoResp, Answers
  <2>2. inChan \in [Calls -> Answers] /\ got \in [Calls -> Answers \union {Err, None}] /\ resp \in Answers
    BY <2>1
  <2>3. seq \in 0 .. Cardinality(Calls) /\ msgID \in [Calls -> {0} \union Ids]
    BY CallsCount
  <2>4. pending \in [Ids -> Calls \union {NoCall}] /\ ch \in Calls \union {NoCall}
    OBVIOUS
  <2>5. chan \in [Calls -> {"empty", "full", "closed"}]
    OBVIOUS
  <2>6. pc \in [Calls -> {"start", "register", "wait", "done"} \union Writing]
    OBVIOUS
  <2>7. torn \in BOOLEAN /\ sock \in {"open", "closed"} /\ reader \in {"decode", "lookup", "deliver", "exited"}
    OBVIOUS
  <2>8. TypeOK
    BY <2>3, <2>4, <2>5, <2>6, <2>7 DEF TypeOK
  <2> QED
    BY <2>2, <2>8 DEF Typed
<1>2. Started = {}
  BY DEF Started
<1>3. IdsGivenOnce
  BY <1>2, FS_EmptySet DEF IdsGivenOnce
<1>4. Honest
  BY DEF Honest
<1>5. MapSound /\ DeliverySound /\ Unregistered /\ OwnResponse
  BY DEF MapSound, DeliverySound, Unregistered, OwnResponse
<1> QED
  BY <1>1, <1>3, <1>4, <1>5 DEF IInv

-----------------------------------------------------------------------------
(* One lemma per step of a call.                                           *)

\* atomic.AddUint32 gives an id nobody has: there are fewer calls with an id
\* than calls.
LEMMA NewMsgIdKeeps ==
    ASSUME IInv, NEW g \in Calls, NewMsgId(g)
    PROVE  IInv'
<1> USE DEF IInv, NewMsgId, chanVars, netVars, loopVars
<1>a. torn' = torn
  OBVIOUS
<1>1. g \notin Started /\ Started' = Started \union {g} /\ Started \subseteq Calls
  BY DEF Started, Typed, TypeOK
<1>2. IsFiniteSet(Started) /\ seq \in Nat /\ seq = Cardinality(Started)
  BY <1>1, FS_Subset, CallsAssumption, FS_CardinalityType DEF IdsGivenOnce
<1>3. Cardinality(Started') = seq + 1 /\ Cardinality(Started') <= Cardinality(Calls)
  <2>1. Cardinality(Started \union {g}) = seq + 1
    BY <1>1, <1>2, FS_AddElement
  <2>2. Started' \in SUBSET Calls
    BY <1>1
  <2> QED
    BY <1>1, <2>1, <2>2, FS_Subset, CallsAssumption
<1>4. seq + 1 \in Ids /\ seq + 1 \in 0 .. Cardinality(Calls)
  BY <1>2, <1>3, CallsCount DEF Ids
<1>5. Typed'
  BY <1>4 DEF Typed, TypeOK, Msgs, Answers, Ids
<1>6. \A h \in Started : msgID'[h] = msgID[h] /\ msgID[h] \in 1 .. seq
  BY <1>1 DEF IdsGivenOnce, Started, Typed, TypeOK
<1>7. msgID'[g] = seq + 1
  BY DEF Typed, TypeOK
<1>8. IdsGivenOnce'
  <2>1. seq' = Cardinality(Started')
    BY <1>3
  <2>2. \A h \in Started' : msgID'[h] \in 1 .. seq'
    BY <1>1, <1>2, <1>6, <1>7
  <2>3. \A h, k \in Started' : msgID'[h] = msgID'[k] => h = k
    BY <1>1, <1>2, <1>6, <1>7 DEF IdsGivenOnce
  <2>4. \A h \in Calls : pc'[h] # "start" => h \in Started'
    BY DEF Started
  <2> QED
    BY <2>1, <2>2, <2>3, <2>4 DEF IdsGivenOnce
<1>9. /\ \A m : Own(m) => Own(m)'
      /\ \A m : Answer(m) => Answer(m)'
      /\ \A m : \A h \in Started : Fits(m, h) => Fits(m, h)'
  BY <1>a, <1>1, <1>6, OwnStays, AnswerStays
<1>10. Honest'
  BY <1>9, HonestStays
<1>11. MapSound'
  BY <1>1, WritingFacts DEF MapSound, Typed, TypeOK, OnDelivery, Ids
<1>12. DeliverySound'
  BY <1>1, <1>9 DEF DeliverySound, Started, Typed, TypeOK
<1>13. Unregistered' /\ OwnResponse'
  <2>1. \A h \in Calls : pc'[h] = "done" => pc[h] = "done" /\ h # g
    BY DEF Typed, TypeOK
  <2> QED
    BY <2>1 DEF Unregistered, OwnResponse, Typed, TypeOK
<1> QED
  BY <1>5, <1>8, <1>10, <1>11, <1>12, <1>13

\* The map gets an entry for a call nothing has been sent to.
LEMMA RegisterKeeps ==
    ASSUME IInv, NEW g \in Calls, Register(g)
    PROVE  IInv'
<1> USE DEF IInv, Register, chanVars, netVars, loopVars
<1>1. pc'[g] = "write" /\ \A h \in Calls : h # g => pc'[h] = pc[h]
  BY DEF Typed, TypeOK
<1>2. g \in Started /\ msgID[g] \in Ids
  <2>1. g \in Started /\ msgID[g] \in 1 .. seq
    BY DEF Started, IdsGivenOnce
  <2> QED
    BY <2>1, CallsCount DEF Typed, TypeOK, Ids
<1>3. /\ Started' = Started /\ IdsGivenOnce'
      /\ \A m : Own(m) => Own(m)'
      /\ \A m : Answer(m) => Answer(m)'
      /\ \A m : \A h \in Calls : Fits(m, h) => Fits(m, h)'
  BY <1>1, IdsStay
<1>4. Typed'
  BY <1>2, WritingFacts DEF Typed, TypeOK, Msgs, Answers, Ids
<1>5. Honest'
  <2>1. \A h \in Started : h \in Calls
    BY DEF Started
  <2> QED
    BY <1>3, <2>1, HonestStays
<1>6. MapSound'
  <2> SUFFICES ASSUME NEW i \in Ids, pending'[i] # NoCall
               PROVE  /\ pc'[pending'[i]] \in Writing \union {"wait"}
                      /\ msgID'[pending'[i]] = i
                      /\ chan'[pending'[i]] = "empty"
                      /\ ~(reader' = "deliver" /\ ch' = pending'[i])
    BY DEF MapSound, OnDelivery, Ids
  <2>1. CASE i = msgID[g]
    <3>1. pending'[i] = g
      BY <2>1, <1>2 DEF Typed, TypeOK
    <3>2. chan[g] = "empty" /\ ~OnDelivery(g)
      BY DEF Unregistered, DeliverySound, OnDelivery
    <3> QED
      BY <1>1, <2>1, <3>1, <3>2, WritingFacts DEF OnDelivery
  <2>2. CASE i # msgID[g]
    <3>1. pending'[i] = pending[i] /\ pending[i] \in Calls
      BY <2>2, <1>2 DEF Typed, TypeOK
    <3>2. pc[pending[i]] \in Writing \union {"wait"} /\ msgID[pending[i]] = i /\ chan[pending[i]] = "empty"
          /\ ~OnDelivery(pending[i])
      BY <3>1 DEF MapSound
    <3> QED
      BY <1>1, <2>2, <3>1, <3>2 DEF OnDelivery
  <2> QED
    BY <2>1, <2>2
<1>7. DeliverySound'
  BY <1>1, <1>3 DEF DeliverySound, Started
<1>8. Unregistered' /\ OwnResponse'
  BY <1>1 DEF Unregistered, OwnResponse
<1> QED
  BY <1>3, <1>4, <1>5, <1>6, <1>7, <1>8

\* A write puts the call's own request on the wire, or, mixed, nothing that is
\* anybody's.
LEMMA WriteKeeps ==
    ASSUME IInv, NEW g \in Calls, ConnWrite(g) \/ EncodeBegins(g) \/ EncodeEnds(g)
    PROVE  IInv'
<1> DEFINE m == [id |-> msgID[g], from |-> g]
<1>a. /\ UNCHANGED <<seq, msgID, got, pending, chan, inChan, back, sock, reader, resp, ch>>
      /\ torn => torn'
      /\ torn' \in BOOLEAN
      /\ wire' = wire \/ wire' = Append(wire, m)
      /\ pc[g] \in Writing
      /\ pc' \in [Calls -> {"start", "register", "wait", "done"} \union Writing]
      /\ pc'[g] \in {"encode1", "encoding1", "encode2", "encoding2", "wait"}
      /\ \A h \in Calls : h # g => pc'[h] = pc[h]
  <2>1. CASE ConnWrite(g)
    BY <2>1, WritingFacts DEF IInv, Typed, TypeOK, ConnWrite, Put, Mixes, chanVars, loopVars
  <2>2. CASE EncodeBegins(g)
    BY <2>2, WritingFacts DEF IInv, Typed, TypeOK, EncodeBegins, Encodes, Mixes, chanVars, loopVars
  <2>3. CASE EncodeEnds(g)
    BY <2>3, WritingFacts DEF IInv, Typed, TypeOK, EncodeEnds, Encoding, Put, chanVars, loopVars
  <2> QED
    BY <2>1, <2>2, <2>3
<1> USE DEF IInv
<1>1. pc[g] \in {"write", "encode1", "encoding1", "encode2", "encoding2"}
  BY <1>a, WritingFacts
<1>2. /\ Started' = Started /\ IdsGivenOnce'
      /\ \A x : Own(x) => Own(x)'
      /\ \A x : Answer(x) => Answer(x)'
      /\ \A x : \A h \in Calls : Fits(x, h) => Fits(x, h)'
  BY <1>a, <1>1, IdsStay
<1>3. m \in Msgs /\ Own(m)
  <2>1. g \in Started /\ msgID[g] \in 1 .. seq
    BY <1>1 DEF Started, IdsGivenOnce
  <2>2. m \in Msgs
    BY <2>1, CallsCount DEF Typed, TypeOK, Ids, Msgs
  <2> QED
    BY <2>1, <2>2 DEF Own
<1> HIDE DEF m
<1>5. wire' \in Seq(Msgs) /\ \A i \in DOMAIN wire' : Own(wire'[i])
  <2>1. CASE wire' = wire
    BY <2>1 DEF Typed, Honest
  <2>2. CASE wire' = Append(wire, m)
    <3>1. wire' \in Seq(Msgs) /\ DOMAIN wire' = 1 .. Len(wire) + 1 /\ DOMAIN wire = 1 .. Len(wire) /\ Len(wire) \in Nat
      BY <1>3, <2>2, AppendProperties, LenProperties DEF Typed
    <3>2. wire'[Len(wire) + 1] = m /\ \A i \in DOMAIN wire : wire'[i] = wire[i]
      BY <1>3, <2>2, AppendProperties, LenProperties DEF Typed
    <3> QED
      BY <1>3, <3>1, <3>2 DEF Honest
  <2> QED
    BY <1>a, <2>1, <2>2
<1>6. Typed'
  BY <1>a, <1>5 DEF Typed, TypeOK, Msgs, Answers, Ids
<1>7. Honest'
  BY <1>a, <1>2, <1>5 DEF Honest
<1>8. MapSound'
  BY <1>a, <1>1, WritingFacts DEF Typed, TypeOK, MapSound, OnDelivery, Ids
<1>9. DeliverySound' /\ Unregistered'
  <2>1. DeliverySound'
    BY <1>a, <1>1, <1>2 DEF Typed, TypeOK, DeliverySound, Started
  <2>2. Unregistered'
    BY <1>a, <1>1 DEF Typed, TypeOK, Unregistered
  <2> QED
    BY <2>1, <2>2
<1>10. OwnResponse'
  BY <1>a, ReturnedStays
<1> QED
  BY <1>2, <1>6, <1>7, <1>8, <1>9, <1>10

\* removePending takes the call's own entry, if it is still there.
LEMMA WriteFailsKeeps ==
    ASSUME IInv, NEW g \in Calls, WriteFails(g)
    PROVE  IInv'
<1> USE DEF IInv, WriteFails, chanVars, netVars, loopVars
<1>1. /\ pc[g] \notin {"start", "register", "wait", "done"} /\ pc'[g] = "done"
      /\ \A h \in Calls : h # g => pc'[h] = pc[h]
  BY WritingFacts DEF Typed, TypeOK
<1>2. /\ Started' = Started /\ IdsGivenOnce'
      /\ \A m : Own(m) => Own(m)'
      /\ \A m : Answer(m) => Answer(m)'
      /\ \A m : \A h \in Calls : Fits(m, h) => Fits(m, h)'
  BY <1>1, IdsStay
<1>3. \A i \in Ids : pending'[i] # NoCall => pending'[i] = pending[i] /\ i # msgID[g]
  BY DEF Typed, TypeOK
<1>4. Typed'
  BY <1>1 DEF Typed, TypeOK, Msgs, Answers, Ids
<1>5. Honest'
  <2>1. \A h \in Started : h \in Calls
    BY DEF Started
  <2> QED
    BY <1>2, <2>1, HonestStays
<1>6. MapSound'
  BY <1>1, <1>3 DEF MapSound, OnDelivery, Typed, TypeOK, Ids
<1>7. DeliverySound' /\ Unregistered'
  BY <1>1, <1>2 DEF DeliverySound, Unregistered, Fits, Answers, Ids
<1>8. OwnResponse'
  BY <1>1 DEF OwnResponse, Typed, TypeOK
<1> QED
  BY <1>2, <1>4, <1>5, <1>6, <1>7, <1>8

\* The channel holds the call's own response; nobody sends to it again.
LEMMA ReceiveKeeps ==
    ASSUME IInv, NEW g \in Calls, Receive(g)
    PROVE  IInv'
<1> USE DEF IInv, Receive, netVars, loopVars
<1>1. /\ pc[g] = "wait" /\ pc'[g] = "done"
      /\ \A h \in Calls : h # g => pc'[h] = pc[h] /\ chan'[h] = chan[h] /\ inChan'[h] = inChan[h] /\ got'[h] = got[h]
      /\ chan'[g] = IF chan[g] = "full" THEN "empty" ELSE chan[g]
  BY DEF Typed, TypeOK
<1>2. /\ Started' = Started /\ IdsGivenOnce'
      /\ \A m : Own(m) => Own(m)'
      /\ \A m : Answer(m) => Answer(m)'
      /\ \A m : \A h \in Calls : Fits(m, h) => Fits(m, h)'
  BY <1>1, IdsStay
<1>3. got'[g] = Err \/ (Fits(got'[g], g) /\ got'[g] \in Answers)
  BY DEF Honest, Typed, Fits
<1>a. NoResp \in Answers
  BY DEF NoResp, Answers
<1>4. Typed'
  BY <1>1, <1>3, <1>a DEF Typed, TypeOK, Msgs, Answers, Ids
<1>5. Honest'
  <2>1. \A h \in Started : h \in Calls
    BY DEF Started
  <2>2. \A h \in Calls : chan'[h] = "full" => chan[h] = "full" /\ inChan'[h] = inChan[h]
    BY <1>1
  <2> QED
    BY <1>2, <2>1, <2>2, HonestStays
<1>6. \A i \in Ids : pending[i] # g
  BY CallsAssumption DEF MapSound
<1>7. MapSound'
  BY <1>1, <1>6 DEF MapSound, OnDelivery, Typed, TypeOK, Ids
<1>8. DeliverySound' /\ Unregistered'
  BY <1>1, <1>2 DEF DeliverySound, Unregistered, Typed, TypeOK, Fits, Answers, Ids
<1>9. OwnResponse'
  BY <1>1, <1>3 DEF OwnResponse, Fits
<1> QED
  BY <1>2, <1>4, <1>5, <1>7, <1>8, <1>9

-----------------------------------------------------------------------------
(* One lemma per step of readLoop.                                         *)

\* The response that is read was honest on its way.
LEMMA DecodeKeeps ==
    ASSUME IInv, Decode
    PROVE  IInv'
<1> USE DEF IInv, Decode, callVars, chanVars
<1>1. back \in Seq(Answers) /\ back # <<>>
  BY DEF Typed
<1>2. /\ Started' = Started /\ IdsGivenOnce'
      /\ \A m : Own(m) => Own(m)'
      /\ \A m : Answer(m) => Answer(m)'
      /\ \A m : \A h \in Calls : Fits(m, h) => Fits(m, h)'
  BY IdsStay
<1>3. /\ Head(back) \in Answers /\ Answer(Head(back)) /\ back' \in Seq(Answers)
      /\ \A i \in DOMAIN back' : Answer(back'[i])
  BY <1>1, HeadTail DEF Honest
<1>4. Typed'
  BY <1>3 DEF Typed, TypeOK, Msgs, Answers, Ids
<1>5. Honest'
  BY <1>2, <1>3 DEF Honest
<1>6. MapSound' /\ DeliverySound' /\ Unregistered'
  BY DEF MapSound, DeliverySound, Unregistered, OnDelivery, Ids
<1>7. OwnResponse'
  BY ReturnedStays
<1> QED
  BY <1>2, <1>4, <1>5, <1>6, <1>7

\* The channels of the calls in the map are closed, and the map is emptied.
LEMMA DecodeFailsKeeps ==
    ASSUME IInv, DecodeFails
    PROVE  IInv'
<1> USE DEF IInv, DecodeFails, callVars, netVars
<1>1. /\ Started' = Started /\ IdsGivenOnce'
      /\ \A m : Own(m) => Own(m)'
      /\ \A m : Answer(m) => Answer(m)'
      /\ \A m : \A h \in Calls : Fits(m, h) => Fits(m, h)'
  BY IdsStay
<1>2. Typed'
  BY DEF Typed, TypeOK, Msgs, Answers, Ids
<1>3. Honest'
  BY <1>1 DEF Honest
<1>4. MapSound' /\ DeliverySound'
  BY DEF MapSound, DeliverySound, OnDelivery, Ids
<1>5. Unregistered'
  <2>1. \A g \in Calls : pc[g] \in {"start", "register"} => \A i \in Ids : pending[i] # g
    BY WritingFacts, CallsAssumption DEF MapSound
  <2>2. \A g \in Calls : (\A i \in Ids : pending[i] # g) => chan'[g] = chan[g]
    OBVIOUS
  <2> QED
    BY <2>1, <2>2 DEF Unregistered
<1>6. OwnResponse'
  BY ReturnedStays
<1> QED
  BY <1>1, <1>2, <1>3, <1>4, <1>5, <1>6

\* The call found under an id may return the response: it alone was given that
\* id.
LEMMA LookupPreserves ==
    ASSUME IInv, Lookup
    PROVE  IInv'
<1> USE DEF IInv, Lookup, callVars, chanVars, netVars
<1>1. /\ Started' = Started /\ IdsGivenOnce'
      /\ \A m : Own(m) => Own(m)'
      /\ \A m : Answer(m) => Answer(m)'
      /\ \A m : \A h \in Calls : Fits(m, h) => Fits(m, h)'
  BY IdsStay
<1>2. Answer(resp) /\ resp.kind = "response" /\ resp \in Answers
  BY DEF Honest, Answer
<1>a. NoResp \in Answers
  BY DEF NoResp, Answers
<1>b. Waiting(resp.id) \in Calls \union {NoCall}
  BY DEF Waiting, Typed, TypeOK
<1>3. Typed'
  <2>1. resp' \in Answers /\ ch' \in Calls \union {NoCall} /\ reader' \in {"decode", "deliver"}
    BY <1>2, <1>a, <1>b
  <2>2. pending' \in [Ids -> Calls \union {NoCall}]
    BY DEF Typed, TypeOK
  <2> QED
    BY <2>1, <2>2 DEF Typed, TypeOK, Msgs, Answers, Ids
<1>4. Honest'
  BY <1>1, <1>2 DEF Honest
<1>5. \A i \in Ids : pending'[i] = IF i = resp.id THEN NoCall ELSE pending[i]
  BY DEF Typed, TypeOK
<1>c. reader' = "deliver" =>
        /\ ch' \in Calls /\ pc[ch'] \in Writing \union {"wait"} /\ resp' = resp
        /\ msgID[ch'] = resp.id /\ chan[ch'] = "empty"
  BY <1>b DEF MapSound, Waiting
<1>6. DeliverySound'
  <2> SUFFICES ASSUME reader' = "deliver"
               PROVE  DeliverySound'
    BY DEF DeliverySound
  <2>1. ch' \in Started /\ pc[ch'] # "register"
    BY <1>c, WritingFacts DEF Started
  <2>2. resp.from = ch' \/ (torn /\ resp.from = NoCall)
    BY <1>2, <1>c, <2>1 DEF IdsGivenOnce, Answer
  <2> QED
    BY <1>1, <1>2, <1>c, <2>1, <2>2 DEF DeliverySound, Fits, Answers, Ids
<1>7. MapSound'
  <2> SUFFICES ASSUME NEW i \in Ids, pending'[i] # NoCall
               PROVE  /\ pc'[pending'[i]] \in Writing \union {"wait"}
                      /\ msgID'[pending'[i]] = i
                      /\ chan'[pending'[i]] = "empty"
                      /\ ~(reader' = "deliver" /\ ch' = pending'[i])
    BY DEF MapSound, OnDelivery, Ids
  <2>1. i # resp.id /\ pending'[i] = pending[i]
    BY <1>5
  <2>2. /\ pc[pending[i]] \in Writing \union {"wait"}
        /\ msgID[pending[i]] = i /\ chan[pending[i]] = "empty"
    BY <2>1 DEF MapSound
  <2> QED
    BY <1>c, <2>1, <2>2
<1>8. Unregistered'
  BY DEF Unregistered
<1>9. OwnResponse'
  BY ReturnedStays
<1> QED
  BY <1>1, <1>3, <1>4, <1>6, <1>7, <1>8, <1>9

\* The response goes to a call that may return it and is no longer in the map.
LEMMA DeliverKeeps ==
    ASSUME IInv, Deliver
    PROVE  IInv'
<1> USE DEF IInv, Deliver, callVars, netVars
<1>1. /\ Started' = Started /\ IdsGivenOnce'
      /\ \A m : Own(m) => Own(m)'
      /\ \A m : Answer(m) => Answer(m)'
      /\ \A m : \A h \in Calls : Fits(m, h) => Fits(m, h)'
  BY IdsStay
<1>2. ch \in Calls /\ pc[ch] \notin {"start", "register"} /\ Fits(resp, ch) /\ resp \in Answers
  BY DEF DeliverySound, Started, Fits
<1>a. NoResp \in Answers
  BY DEF NoResp, Answers
<1>3. /\ chan'[ch] = "full" /\ inChan'[ch] = resp
      /\ \A h \in Calls : h # ch => chan'[h] = chan[h] /\ inChan'[h] = inChan[h]
  BY <1>2 DEF Typed, TypeOK
<1>4. Typed'
  BY <1>2, <1>a DEF Typed, TypeOK, Msgs, Answers, Ids
<1>5. Honest'
  <2>1. \A g \in Calls : chan'[g] = "full" => Fits(inChan'[g], g)
    BY <1>2, <1>3 DEF Honest
  <2>2. \A g \in Calls : chan'[g] = "full" => (Fits(inChan[g], g))'
    BY <2>1 DEF Fits, Answers, Ids
  <2> QED
    BY <1>1, <2>2 DEF Honest
<1>6. \A i \in Ids : pending[i] # ch
  BY <1>2, CallsAssumption DEF MapSound, OnDelivery
<1>7. MapSound'
  BY <1>3, <1>6 DEF MapSound, OnDelivery, Typed, TypeOK, Ids
<1>8. DeliverySound' /\ Unregistered'
  BY <1>2, <1>3 DEF DeliverySound, Unregistered
<1>9. OwnResponse'
  BY ReturnedStays
<1> QED
  BY <1>1, <1>4, <1>5, <1>7, <1>8, <1>9

-----------------------------------------------------------------------------
(* The server and the connection.                                          *)

\* Steps that only take messages away or answer one of them.
LEMMA NetworkKeeps ==
    ASSUME IInv, UNCHANGED <<callVars, pending, chanVars, torn, loopVars>>, sock' \in {"open", "closed"},
           wire' \in Seq(Msgs), \A i \in DOMAIN wire' : Own(wire'[i]),
           back' \in Seq(Answers), \A i \in DOMAIN back' : Answer(back'[i])
    PROVE  IInv'
<1> USE DEF IInv, callVars, chanVars, loopVars
<1>1. /\ Started' = Started /\ IdsGivenOnce'
      /\ \A m : Own(m) => Own(m)'
      /\ \A m : Answer(m) => Answer(m)'
      /\ \A m : \A h \in Calls : Fits(m, h) => Fits(m, h)'
  BY IdsStay
<1>2. Typed'
  BY DEF Typed, TypeOK, Msgs, Answers, Ids
<1>3. Honest'
  BY <1>1 DEF Honest
<1>4. MapSound' /\ DeliverySound' /\ Unregistered'
  BY <1>1 DEF MapSound, DeliverySound, Unregistered, OnDelivery, Fits, Answers, Ids
<1>5. OwnResponse'
  BY ReturnedStays
<1> QED
  BY <1>1, <1>2, <1>3, <1>4, <1>5

\* One more message under way.
LEMMA OneMore ==
    ASSUME back \in Seq(Answers), \A i \in DOMAIN back : Answer(back[i]), NEW m \in Answers, Answer(m),
           back' = Append(back, m)
    PROVE  back' \in Seq(Answers) /\ \A i \in DOMAIN back' : Answer(back'[i])
<1>1. back' \in Seq(Answers) /\ DOMAIN back' = 1 .. Len(back) + 1 /\ DOMAIN back = 1 .. Len(back) /\ Len(back) \in Nat
  BY AppendProperties, LenProperties
<1>2. back'[Len(back) + 1] = m /\ \A i \in DOMAIN back : back'[i] = back[i]
  BY AppendProperties, LenProperties
<1> QED
  BY <1>1, <1>2

\* The server answers under the id of the request, or sends what no call may
\* return.
LEMMA ServeKeeps ==
    ASSUME IInv, Serve
    PROVE  IInv'
<1>1. wire \in Seq(Msgs) /\ wire # <<>> /\ back \in Seq(Answers) /\ sock' \in {"open", "closed"}
  BY DEF IInv, Typed, TypeOK, Serve
<1>2. wire' \in Seq(Msgs) /\ \A i \in DOMAIN wire' : Own(wire'[i])
  BY <1>1, HeadTail DEF IInv, Honest, Serve
<1> DEFINE h == Head(wire)
<1>3. h \in Msgs /\ Own(h)
  BY <1>1, HeadTail DEF IInv, Honest
<1>4. back' \in Seq(Answers) /\ \A i \in DOMAIN back' : Answer(back'[i])
  <2>1. CASE back' = back
    BY <1>1, <2>1 DEF IInv, Honest
  <2>2. ASSUME NEW m, m \in {Msg("response", h.id, h.from), Msg("other", 0, NoCall), Msg("malformed", 0, NoCall)}
        PROVE  m \in Answers /\ Answer(m)
    <3> HIDE DEF h
    <3>1. h.id \in Ids /\ h.from \in Calls /\ h.from \in Started /\ h.id = msgID[h.from]
      BY <1>3 DEF Own, Msgs
    <3> QED
      BY <2>2, <3>1 DEF Msg, Answers, Answer
  <2>3. CASE \E m \in {Msg("response", h.id, h.from), Msg("other", 0, NoCall), Msg("malformed", 0, NoCall)} :
                back' = Append(back, m)
    BY <1>1, <2>2, <2>3, OneMore DEF IInv, Honest
  <2> QED
    BY <2>1, <2>3 DEF Serve
<1> QED
  BY <1>1, <1>2, <1>4, NetworkKeeps DEF Serve

\* What it answers to mixed bytes is from no call.
LEMMA ServeTornKeeps ==
    ASSUME IInv, ServeTorn
    PROVE  IInv'
<1>1. wire \in Seq(Msgs) /\ back \in Seq(Answers) /\ sock' \in {"open", "closed"} /\ wire' = wire
  BY DEF IInv, Typed, TypeOK, ServeTorn
<1>2. PICK id \in Ids \union {0} : back' = Append(back, Msg("response", id, NoCall))
  BY DEF ServeTorn
<1>3. Msg("response", id, NoCall) \in Answers /\ Answer(Msg("response", id, NoCall))
  BY DEF Msg, Answers, Answer, ServeTorn
<1>4. back' \in Seq(Answers) /\ \A i \in DOMAIN back' : Answer(back'[i])
  BY <1>1, <1>2, <1>3, OneMore DEF IInv, Honest
<1> QED
  BY <1>1, <1>4, NetworkKeeps DEF ServeTorn, IInv, Honest

\* What is lost with the connection is the end of what was under way.
LEMMA ClosesKeeps ==
    ASSUME IInv, ServerCloses \/ Close
    PROVE  IInv'
<1>1. back \in Seq(Answers)
  BY DEF IInv, Typed
<1>2. PICK n \in 0 .. Len(back) : back' = SubSeq(back, 1, n)
  <2>1. CASE ServerCloses
    BY <2>1 DEF ServerCloses
  <2>2. CASE Close
    <3>1. SubSeq(back, 1, 0) = <<>>
      BY SubSeqEmpty
    <3> QED
      BY <1>1, <2>2, <3>1, LenProperties DEF Close
  <2> QED
    BY <2>1, <2>2
<1>3. DOMAIN back = 1 .. Len(back) /\ Len(back) \in Nat /\ \A i \in 1 .. n : back[i] \in Answers
  BY <1>1, <1>2, LenProperties
<1>4. back' \in Seq(Answers) /\ DOMAIN back' = 1 .. n /\ \A i \in 1 .. n : back'[i] = back[i]
  <2>1. back' \in Seq(Answers) /\ Len(back') = n /\ \A i \in 1 .. n : back'[i] = back[i]
    BY <1>2, <1>3, SubSeqProperties
  <2> QED
    BY <2>1, LenProperties
<1>5. \A i \in DOMAIN back' : Answer(back'[i])
  BY <1>2, <1>3, <1>4 DEF IInv, Honest
<1>6. wire' = <<>> /\ sock' = "closed"
  BY DEF ServerCloses, Close
<1>7. wire' \in Seq(Msgs) /\ \A i \in DOMAIN wire' : Own(wire'[i])
  BY <1>6
<1> QED
  BY <1>4, <1>5, <1>6, <1>7, NetworkKeeps DEF ServerCloses, Close

-----------------------------------------------------------------------------
\* Every step keeps the invariant.
LEMMA NextKeeps == IInv /\ [Next]_vars => IInv'
<1> SUFFICES ASSUME IInv, [Next]_vars PROVE IInv'
  OBVIOUS
<1>1. CASE UNCHANGED vars
  <2>1. wire' \in Seq(Msgs) /\ back' \in Seq(Answers) /\ sock' \in {"open", "closed"}
    BY <1>1 DEF IInv, Typed, TypeOK, vars, netVars
  <2>2. (\A i \in DOMAIN wire' : Own(wire'[i])) /\ (\A i \in DOMAIN back' : Answer(back'[i]))
    BY <1>1 DEF IInv, Honest, vars, netVars
  <2> QED
    BY <1>1, <2>1, <2>2, NetworkKeeps DEF vars, netVars
<1>2. CASE \E g \in Calls : CallStep(g)
  BY <1>2, NewMsgIdKeeps, RegisterKeeps, WriteKeeps, WriteFailsKeeps, ReceiveKeeps DEF CallStep
<1>3. CASE LoopStep
  BY <1>3, DecodeKeeps, DecodeFailsKeeps, LookupPreserves, DeliverKeeps DEF LoopStep
<1>4. CASE Serve \/ ServeTorn \/ ServerCloses \/ Close
  BY <1>4, ServeKeeps, ServeTornKeeps, ClosesKeeps
<1> QED
  BY <1>1, <1>2, <1>3, <1>4 DEF Next

\* The invariant holds in every reachable state of the client.
THEOREM Invariance == Spec => []IInv
<1> QED
  BY InitIInv, NextKeeps, PTL DEF Spec

\* The types of the client's variables: the counter stays within the ids, for
\* any number of calls.
THEOREM TypeCorrect == Spec => []TypeOK
<1>1. IInv => TypeOK
  BY DEF IInv, Typed
<1> QED
  BY <1>1, Invariance, PTL

\* A call of hazectl returns only a response under its own msgid, with any number
\* of calls in flight, repeated writes and repeated answers: the answer to its own
\* request, or, once two calls have mixed their bytes through the one encoder, to
\* a request nobody made, never to another call's.
THEOREM OwnAnswer == Spec => []OwnResponse
<1>1. IInv => OwnResponse
  BY DEF IInv
<1> QED
  BY <1>1, Invariance, PTL

\* readLoop never sends to a channel that is full or closed: it neither waits
\* for a call nor panics.
THEOREM NeverBlocks == Spec => []DeliverNeverBlocks
<1>1. IInv => DeliverNeverBlocks
  BY DEF IInv, DeliverySound, DeliverNeverBlocks
<1> QED
  BY <1>1, Invariance, PTL
=============================================================================
