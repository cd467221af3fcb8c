------------------------------ MODULE Messages ------------------------------
(***************************************************************************)
(* Responses and notifications: the objects they carry                     *)
(* (source/msgpack/Object.c), how they are put together, marshalled and    *)
(* unmarshalled (source/api/proto/Response.c and Notification.c), and how  *)
(* the C++ client does the same with responses                             *)
(* (clients/cpp/src/proto/Response.cpp).  A message is built, marshalled,  *)
(* perhaps cut short on its way, and read by any of the three functions    *)
(* that read messages.                                                     *)
(*                                                                         *)
(* Bytes are a sequence of elements, a MessagePack tag or the bytes that   *)
(* follow one; of an empty string there are none.  A cut inside an element *)
(* is the cut before it.  "bool" stands for the types whose value is only  *)
(* copied: bool, float and double.                                         *)
(***************************************************************************)
EXTENDS Integers, Sequences, SequencesExt

CONSTANTS
    Objects,        \* the objects callers pass, their elements and their copies
    MaxDepth,       \* bound: arrays inside arrays
    Depth,          \* of an object: the arrays inside it
    Methods,        \* names of notifications
    LongMethods,    \* those that do not fit NOTIFICATION_MAX_METHOD_SIZE
    MsgIds,         \* msgids of responses
    Empty,          \* the empty string
    ArrayCapFirst,  \* OBJECT_ARRAY_INITIAL_CAPACITY, 8
    MaxParams,      \* NOTIFICATION_MAX_PARAMS, 4096
    MaxLen          \* bound: parameters a caller appends

NoMethod == "no method"
NoObj    == [t |-> "null", v |-> 0]     \* a NULL Object pointer
Nil      == [t |-> "nil", v |-> 0]
Types    == {"und", "nil", "bool", "int", "uint", "str", "bin", "array", "map"}

\* Objects are trees: an array is deeper than its elements.
ASSUME ObjectsAssumption ==
    /\ MaxDepth \in Nat /\ Depth \in [Objects -> 0 .. MaxDepth]
    /\ \A o \in Objects :
        /\ o.t \in Types /\ o = [t |-> o.t, v |-> o.v]
        /\ o.t = "nil" => o.v = 0
        /\ o.t = "int" => o.v \in Int
        /\ o.t = "uint" => o.v \in Nat
        /\ o.t = "array" => o.v \in Seq(Objects) /\ \A i \in DOMAIN o.v : Depth[o.v[i]] < Depth[o]

ASSUME MessagesAssumption ==
    /\ LongMethods \subseteq Methods /\ NoMethod \notin Methods
    /\ MsgIds \subseteq Nat
    /\ ArrayCapFirst \in Nat \ {0} /\ MaxParams \in Nat \ {0} /\ MaxLen \in Nat

VARIABLES
    n,              \* the notification: its method and params
    capacity,       \* n->params->capacity
    response,       \* the response: its msgid, error and result
    buffer,         \* what was marshalled, or NoBuffer
    meant,          \* the message it was marshalled from
    cut,            \* bytes were lost at its end
    got             \* what an unmarshalling function made of it

vars == <<n, capacity, response, buffer, meant, cut, got>>

Tag(k, i)   == [k |-> k, n |-> i]
Body(bytes) == [k |-> "body", n |-> bytes]
NoBuffer    == <<Tag("no buffer", 0)>>
NoMsg       == [kind |-> "null"]

-----------------------------------------------------------------------------
(* Objects.                                                                *)

\* ObjectCopy: all but the table of a map.
ObjectCopy[o \in Objects] ==
    IF o.t = "array" THEN [t |-> "array", v |-> [i \in DOMAIN o.v |-> ObjectCopy[o.v[i]]]]
    ELSE IF o.t = "map" THEN [t |-> "map", v |-> 0] ELSE o

ASSUME CopiesAssumption == \A o \in Objects : ObjectCopy[o] \in Objects

\* An object and all that is in it.
Parts[o \in Objects] ==
    {o} \union (IF o.t = "array" THEN UNION {Parts[o.v[i]] : i \in DOMAIN o.v} ELSE {})

\* Text and binary values.  mpack writes an integer that is not negative as unsigned.
WriteBytes(o) == IF o.v = Empty THEN <<Tag(o.t, 0)>> ELSE <<Tag(o.t, 1), Body(o.v)>>
WriteInt(o)   == <<Tag(IF o.v >= 0 THEN "uint" ELSE "int", o.v)>>

\* Mutant of ResponseScalar: what has no encoding is left out.
ResponseScalarSkips(o) ==
    CASE o.t \in {"str", "bin"} -> WriteBytes(o)
      [] o.t \in {"int", "uint"} -> WriteInt(o)
      [] o.t \in {"bool", "nil"} -> <<Tag(o.t, o.v)>>
      [] OTHER -> <<>>

\* In a response an empty binary, a map and an undefined object are nil.
ResponseScalar(o) ==
    CASE o.t = "str" \/ (o.t = "bin" /\ o.v # Empty) -> WriteBytes(o)
      [] o.t \in {"int", "uint"} -> WriteInt(o)
      [] o.t = "bool" -> <<Tag("bool", o.v)>>
      [] OTHER -> <<Tag("nil", 0)>>

\* In a notification a map and an undefined object are not written.
NotificationScalar(o) ==
    CASE o.t \in {"str", "bin"} -> WriteBytes(o)
      [] o.t \in {"int", "uint"} -> WriteInt(o)
      [] o.t \in {"bool", "nil"} -> <<Tag(o.t, o.v)>>
      [] OTHER -> <<>>

\* What is written of each object: an array as its length and its elements.
Written(inResponse) ==
    LET w[o \in Objects] ==
            IF o.t = "array"
            THEN <<Tag("arr", Len(o.v))>> \o FlattenSeq([i \in DOMAIN o.v |-> w[o.v[i]]])
            ELSE IF inResponse THEN ResponseScalar(o) ELSE NotificationScalar(o)
    IN  w

\* ObjectMarshalMPack of a response: NULL is nil.
ObjectMarshalMPack(o) == IF o = NoObj THEN <<Tag("nil", 0)>> ELSE Written(TRUE)[o]

\* ObjectMarshalMPack of the C++ client, whose objects are never NULL.
ClientObjectMarshal(o) == Written(TRUE)[o]

\* NotificationWriteObject: its result, and what it writes of an object it
\* can write.
NotificationCanWrite(o)    == \A x \in Parts[o] : x.t \notin {"und", "map"}
NotificationWriteObject(o) == Written(FALSE)[o]

-----------------------------------------------------------------------------
(* Reading.  The three functions that read an object differ in what they   *)
(* return at the end of the bytes, and in how an array is read: the strict *)
(* one has a limit for its length and refuses it unless every element can  *)
(* be read; the others go on to its count with the reader in error.        *)
(* mpack_peek_tag returns a nil tag in error, which the strict one takes   *)
(* for a nil.  In an array ObjectArrayAppend copies what was read, which   *)
(* holds no map and is its own copy.                                       *)

ServerReader       == [atEnd |-> NoObj, strict |-> FALSE]
ClientReader       == [atEnd |-> Nil, strict |-> FALSE]
NotificationReader == [atEnd |-> Nil, strict |-> TRUE]

\* Where the reader is, its error flag and the object read.
Read(at, err, obj) == [at |-> at, err |-> err, obj |-> obj]

\* The bytes after the tag of a string or a binary.
ReadBytes(c, b, p) ==
    LET Value(bytes) == [t |-> b[p].k, v |-> bytes]
    IN  IF b[p].n = 0 THEN Read(p + 1, FALSE, Value(Empty))
        ELSE IF p = Len(b) THEN Read(p, TRUE, IF c.strict THEN NoObj ELSE Value(Empty))
        ELSE Read(p + 2, FALSE, Value(b[p + 1].n))

\* One round of the loop over the elements of an array; read is what is read
\* at each place, and NULL is left out.
ReadElement(c, read, s) ==
    LET r == IF s.err THEN Read(s.at, TRUE, c.atEnd) ELSE read[s.at]
    IN  IF s.err /\ c.strict THEN s
        ELSE [at |-> r.at, err |-> r.err,
              objs |-> IF r.obj = NoObj THEN s.objs ELSE Append(s.objs, r.obj)]

\* count elements from place p on.
ReadElements(c, read, p, count) ==
    LET s[i \in 0 .. count] ==
            IF i = 0 THEN [at |-> p, err |-> FALSE, objs |-> <<>>]
            ELSE ReadElement(c, read, s[i - 1])
    IN  s[count]

ReadArray(c, b, read, p) ==
    LET s == ReadElements(c, read, p + 1, b[p].n)
    IN  IF c.strict /\ b[p].n > MaxParams THEN Read(p, TRUE, NoObj)
        ELSE Read(s.at, s.err, IF c.strict /\ s.err THEN NoObj ELSE [t |-> "array", v |-> s.objs])

ReadObject(c, b, read, p) ==
    IF p > Len(b) THEN Read(p, TRUE, c.atEnd)
    ELSE IF b[p].k \in {"str", "bin"} THEN ReadBytes(c, b, p)
    ELSE IF b[p].k = "arr" THEN ReadArray(c, b, read, p)
    ELSE Read(p + 1, FALSE, [t |-> b[p].k, v |-> b[p].n])

\* What is read at each place of b, the one after its end included.
Reading(c, b) ==
    LET read[p \in 1 .. Len(b) + 1] == ReadObject(c, b, read, p)
    IN  read

-----------------------------------------------------------------------------
(* Messages.                                                               *)

NotificationHead(m, count) ==
    <<Tag("arr", 3), Tag("uint", 2), Tag("str", 1), Body(m.method), Tag("arr", count)>>

\* Mutant of MarshalNotification: it leaves out a parameter it cannot write.
MarshalNotificationInPart(m) ==
    IF m.method = NoMethod THEN NoBuffer
    ELSE LET can == SelectSeq(m.params, NotificationCanWrite)
         IN  NotificationHead(m, Len(can))
             \o FlattenSeq([i \in DOMAIN can |-> NotificationWriteObject(can[i])])

MarshalNotification(m) ==
    IF m.method = NoMethod \/ \E i \in DOMAIN m.params : ~NotificationCanWrite(m.params[i])
    THEN NoBuffer
    ELSE NotificationHead(m, Len(m.params))
         \o FlattenSeq([i \in DOMAIN m.params |-> NotificationWriteObject(m.params[i])])

ResponseHead(m) == <<Tag("arr", 4), Tag("uint", 1), Tag("uint", m.msgid)>>

MarshalResponse(m) ==
    ResponseHead(m) \o (ObjectMarshalMPack(m.error) \o ObjectMarshalMPack(m.result))

ClientMarshalResponse(m) ==
    ResponseHead(m) \o (ClientObjectMarshal(m.error) \o ClientObjectMarshal(m.result))

\* The first tags a message must start with.
NotificationStart(b) ==
    /\ Len(b) >= 5
    /\ b[1] = Tag("arr", 3) /\ b[2] = Tag("uint", 2) /\ b[3].k = "str" /\ b[5].k = "arr"
    /\ b[4].n \notin LongMethods
    /\ b[5].n <= MaxParams

NotificationParams(b) ==
    ReadElements(NotificationReader, Reading(NotificationReader, b), 6, b[5].n)

\* Mutant of UnmarshalNotification: the error flag of the reader is not looked at.
UnmarshalNotificationUnchecked(b) ==
    IF ~NotificationStart(b) THEN NoMsg
    ELSE [kind |-> "notification", method |-> b[4].n, params |-> NotificationParams(b).objs]

\* NotificationUnmarshal: the parameters are read as the elements of an array
\* are, and the error flag of the reader decides at the end.
UnmarshalNotification(b) ==
    IF ~NotificationStart(b) \/ NotificationParams(b).err THEN NoMsg
    ELSE [kind |-> "notification", method |-> b[4].n, params |-> NotificationParams(b).objs]

NilToNull(o) == IF o.t = "nil" THEN NoObj ELSE o

ResponseStart(b) ==
    /\ Len(b) >= 3
    /\ b[1] = Tag("arr", 4) /\ b[2] = Tag("uint", 1) /\ b[3].k = "uint"

ResponseOf(b, error, result) ==
    [kind |-> "response", msgid |-> b[3].n, error |-> error, result |-> result]

\* ResponseUnmarshal: a nil error or result is NULL.
UnmarshalResponse(b) ==
    LET read   == Reading(ServerReader, b)
        error  == read[4]
        result == read[error.at]
    IN  IF ~ResponseStart(b) \/ error.err \/ result.err THEN NoMsg
        ELSE ResponseOf(b, NilToNull(error.obj), NilToNull(result.obj))

\* Response::Unmarshal of the C++ client: a nil stays a nil object.
ClientUnmarshalResponse(b) ==
    LET read   == Reading(ClientReader, b)
        error  == read[4]
        result == read[error.at]
    IN  IF ~ResponseStart(b) \/ error.err \/ result.err THEN NoMsg
        ELSE ResponseOf(b, error.obj, result.obj)

-----------------------------------------------------------------------------
NotificationNew == [kind |-> "notification", method |-> NoMethod, params |-> <<>>]
ResponseNew     == [kind |-> "response", msgid |-> 0, error |-> NoObj, result |-> NoObj]

Init ==
    /\ n = NotificationNew
    /\ capacity = ArrayCapFirst
    /\ response = ResponseNew
    /\ buffer = NoBuffer
    /\ meant = NoMsg
    /\ cut = FALSE
    /\ got = NoMsg

Operands == Objects \union {NoObj}

\* A caller builds one message, of one kind.
Building   == meant = NoMsg
sendVars   == <<buffer, meant, cut, got>>
NoResponse == response.error = NoObj /\ response.result = NoObj
NoNotification == n.params = <<>> /\ n.method = NoMethod

\* NotificationSetMethod.
NotificationSetMethod(method) ==
    /\ Building /\ NoResponse
    /\ n' = [n EXCEPT !.method = method]
    /\ UNCHANGED <<capacity, response, sendVars>>

\* Mutant of ObjectArrayAppend: it grows one element late.
ObjectArrayAppendLate(o) ==
    /\ Building /\ NoResponse
    /\ Len(n.params) < MaxLen
    /\ capacity' = IF Len(n.params) > capacity THEN 2 * capacity ELSE capacity
    /\ n' = [n EXCEPT !.params = Append(@, ObjectCopy[o])]
    /\ UNCHANGED <<response, sendVars>>

\* ObjectArrayAppend to the parameters: the array grows when it is full, then
\* the copy may fail.
ObjectArrayAppend(o) ==
    /\ Building /\ NoResponse
    /\ Len(n.params) < MaxLen
    /\ capacity' = IF Len(n.params) >= capacity THEN 2 * capacity ELSE capacity
    /\ n' \in {n, [n EXCEPT !.params = Append(@, ObjectCopy[o])]}
    /\ UNCHANGED <<response, sendVars>>

\* ObjectArrayRemove.
ObjectArrayRemove(i) ==
    /\ Building
    /\ i \in DOMAIN n.params
    /\ n' = [n EXCEPT !.params = RemoveAt(@, i)]
    /\ UNCHANGED <<capacity, response, sendVars>>

\* ResponseSetMsgId with ResponseSetErrorObject or ResponseSetResultObject, as
\* the constructors of responses call them.
ResponseSet(msgid, error, result) ==
    /\ Building /\ NoNotification
    /\ response' = [kind |-> "response", msgid |-> msgid, error |-> error, result |-> result]
    /\ UNCHANGED <<n, capacity, sendVars>>

NotificationMarshal ==
    /\ Building /\ NoResponse
    /\ buffer' = MarshalNotification(n)
    /\ meant' = n
    /\ UNCHANGED <<n, capacity, response, cut, got>>

ResponseMarshal ==
    /\ Building /\ NoNotification
    /\ buffer' = MarshalResponse(response)
    /\ meant' = response
    /\ UNCHANGED <<n, capacity, response, cut, got>>

\* Response::Marshal of the C++ client: CreateStrResult, CreateError,
\* CreateStrArrayResult and CreateNilResult set both fields.
ClientMarshal ==
    /\ Building /\ NoNotification
    /\ response.error # NoObj /\ response.result # NoObj
    /\ buffer' = ClientMarshalResponse(response)
    /\ meant' = response
    /\ UNCHANGED <<n, capacity, response, cut, got>>

Sent == meant # NoMsg /\ buffer # NoBuffer

\* The reader has only the first k elements yet.
Cut(k) ==
    /\ Sent /\ ~cut /\ got = NoMsg
    /\ k \in 1 .. Len(buffer) - 1
    /\ buffer' = SubSeq(buffer, 1, k)
    /\ cut' = TRUE
    /\ UNCHANGED <<n, capacity, response, meant, got>>

\* The three functions are tried on what came; none changes it.
NotificationUnmarshal ==
    /\ Sent
    /\ got' = UnmarshalNotification(buffer)
    /\ UNCHANGED <<n, capacity, response, buffer, meant, cut>>

ResponseUnmarshal ==
    /\ Sent
    /\ got' = UnmarshalResponse(buffer)
    /\ UNCHANGED <<n, capacity, response, buffer, meant, cut>>

ClientUnmarshal ==
    /\ Sent
    /\ got' = ClientUnmarshalResponse(buffer)
    /\ UNCHANGED <<n, capacity, response, buffer, meant, cut>>

\* NotificationFree or ResponseFree; the next message starts anew.
Free ==
    /\ ~Building
    /\ n' = NotificationNew
    /\ capacity' = ArrayCapFirst
    /\ response' = ResponseNew
    /\ buffer' = NoBuffer
    /\ meant' = NoMsg
    /\ cut' = FALSE
    /\ got' = NoMsg

Next ==
    \/ \E method \in Methods : NotificationSetMethod(method)
    \/ \E o \in Objects : ObjectArrayAppend(o)
    \/ \E i \in DOMAIN n.params : ObjectArrayRemove(i)
    \/ \E id \in MsgIds, error \in Operands, result \in Operands : ResponseSet(id, error, result)
    \/ NotificationMarshal
    \/ ResponseMarshal
    \/ ClientMarshal
    \/ \E k \in 1 .. Len(buffer) : Cut(k)
    \/ NotificationUnmarshal
    \/ ResponseUnmarshal
    \/ ClientUnmarshal
    \/ Free

Spec == Init /\ [][Next]_vars

-----------------------------------------------------------------------------
(* What a reader should find, stated on the objects and not on the bytes.  *)

\* In a response an empty binary is nil.
Arrived(inResponse) ==
    LET a[o \in Objects] ==
            IF o.t = "array" THEN [t |-> "array", v |-> [i \in DOMAIN o.v |-> a[o.v[i]]]]
            ELSE IF o.t \in {"map", "und"} \/ (inResponse /\ o.t = "bin" /\ o.v = Empty) THEN Nil
            ELSE IF o.t = "int" /\ o.v >= 0 THEN [t |-> "uint", v |-> o.v] ELSE o
    IN  a

\* What arrives of an error or a result.
Seen(o) == IF o = NoObj THEN Nil ELSE Arrived(TRUE)[o]

\* Nothing in it is a map, undefined, or a binary without bytes.
Carried(o) ==
    o = NoObj \/ \A x \in Parts[o] : x.t \notin {"map", "und"} /\ ~(x.t = "bin" /\ x.v = Empty)

Fits(o) == \A x \in Parts[o] : x.t = "array" => Len(x.v) <= MaxParams

\* The types of the variables; the parameters stay inside their array.
TypeOK ==
    /\ n \in [kind : {"notification"}, method : Methods \union {NoMethod}, params : Seq(Objects)]
    /\ capacity \in Nat \ {0} /\ Len(n.params) <= capacity
    /\ response \in [kind : {"response"}, msgid : Nat, error : Operands, result : Operands]
    /\ meant \in {NoMsg, n, response}
    /\ got.kind \in {"null", "notification", "response"}
    /\ cut \in BOOLEAN

\* A notification is marshalled whole or not at all, and what arrives is what
\* was meant: parameters in order, nested arrays too, an integer that is not
\* negative as an unsigned one.  A reader refuses it only for its limits.
NotificationArrives ==
    meant.kind = "notification" /\ buffer # NoBuffer =>
        /\ \A i \in DOMAIN meant.params : \A x \in Parts[meant.params[i]] : x.t \notin {"map", "und"}
        /\ ~cut =>
            UnmarshalNotification(buffer) =
                IF \/ meant.method \in LongMethods
                   \/ Len(meant.params) > MaxParams
                   \/ \E i \in DOMAIN meant.params : ~Fits(meant.params[i])
                THEN NoMsg
                ELSE [meant EXCEPT !.params = [i \in DOMAIN @ |-> Arrived(FALSE)[@[i]]]]

\* A response that has come whole is accepted by the server's reader and by the
\* C++ client's, whichever of the two wrote it, and an error or a result that the
\* response codec carries is read in its own place as it was meant, nested arrays
\* too; where the server has NULL the client has a nil.  That holds for one field
\* also when the other is a map, which ObjectMarshalMPack cannot write: of that
\* field nothing is said, but it shifts nothing that follows it.
ResponseArrives ==
    Sent /\ meant.kind = "response" /\ ~cut =>
        LET server == UnmarshalResponse(buffer)
            client == ClientUnmarshalResponse(buffer)
        IN  /\ server.kind = "response" /\ server.msgid = meant.msgid
            /\ client.kind = "response" /\ client.msgid = meant.msgid
            /\ Carried(meant.error) =>
                 server.error = NilToNull(Seen(meant.error)) /\ client.error = Seen(meant.error)
            /\ Carried(meant.result) =>
                 server.result = NilToNull(Seen(meant.result)) /\ client.result = Seen(meant.result)

\* A message that has not come whole is refused, wherever it is cut, and so is
\* a message of the other kind.
PartRefused == got # NoMsg => ~cut /\ got.kind = meant.kind
=============================================================================
