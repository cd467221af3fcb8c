----------------------------- MODULE Dispatcher -----------------------------
(***************************************************************************)
(* From requests to answers: ServerDispatch (source/server/Dispatch.c),    *)
(* DispatchRPCMessage (source/api/Dispatcher.c) with the functions it      *)
(* calls, and the responses of source/api/proto/Response.c, for several    *)
(* connections.  Requests of one connection are dispatched in the order    *)
(* they came; ServerDispatch runs to completion.                           *)
(*                                                                         *)
(* ContextNew creates the session before the server starts, so the session *)
(* is never NULL here.  An accepted import is put on the context's request *)
(* queue; nothing in the program takes jobs from it.  The functions of the *)
(* sample list that no method reaches may be called between any two        *)
(* requests (OtherCaller).                                                 *)
(***************************************************************************)
EXTENDS SampleList, FiniteSetsExt

CONSTANTS
    Conns,          \* connections
    Methods,        \* method names clients use
    ParamNames,     \* strings clients pass as a parameter
    SessionName,    \* the name ContextNew's session got
    MaxRequests,    \* bound: requests clients send, all together
    MaxLost         \* bound: answers lost for want of memory

ASSUME DispatcherAssumption == MaxRequests \in Nat /\ MaxLost \in Nat

VARIABLES
    sent,           \* requests of each connection, in order; the n-th has msgid n
    handled,        \* how many of them were dispatched
    replies,        \* responses written to each connection, in order
    jobs,           \* the context's request queue
    lost,           \* <<c, msgid>> of answers and jobs lost for want of memory
    open            \* connections that are open

vars == <<sampleVars, sent, handled, replies, jobs, lost, open>>

Str(name)  == [t |-> "str", v |-> name]
Other      == [t |-> "other", v |-> 0]     \* any parameter that is not a string
ParamLists == {<<>>, <<Other>>} \union {<<Str(n)>> : n \in ParamNames}

-----------------------------------------------------------------------------
(* Responses, as ResponseMarshal writes them: a field that is not set is   *)
(* nil.                                                                    *)

\* Mutant of ResponseCreateError: the id of the response is not set.
ResponseCreateErrorNoId(msgid, err) == [msgid |-> 0, error |-> err, result |-> "nil"]

ResponseCreateError(msgid, err)     == [msgid |-> msgid, error |-> err, result |-> "nil"]
ResponseCreateString(msgid, value)  == [msgid |-> msgid, error |-> "nil", result |-> value]
ResponseCreateInt(msgid)            == [msgid |-> msgid, error |-> "nil", result |-> "int"]

\* The message of a failure goes where the result goes.
ResponseCreateResult(msgid, res) ==
    [msgid |-> msgid, error |-> "nil", result |-> IF res = "ok" THEN "nil" ELSE res]

ResponseCreateResultAudio(msgid, res) ==
    IF res = "ok" THEN [msgid |-> msgid, error |-> "nil", result |-> "nil"]
                  ELSE ResponseCreateError(msgid, res)

\* FnSessionCreate with a session that exists.
FnSessionCreate == "Session already started!"

-----------------------------------------------------------------------------
(* What a handler does with the request it answers: the response is sent;  *)
(* or ObjectCreateStr or ObjectCreateInt had no memory for what it says,   *)
(* and ResponseMarshal writes nil for both fields; or memory runs out in   *)
(* ResponseNew, ResponseMarshal or haze_send.                              *)

Lose(c, rq) ==
    /\ Cardinality(lost) < MaxLost
    /\ lost' = lost \union {<<c, rq.msgid>>}
    /\ UNCHANGED <<replies, jobs>>

Blank(msgid) == [msgid |-> msgid, error |-> "nil", result |-> "nil"]

Reply(c, rq, response) ==
    \/ /\ \E r \in {response, Blank(response.msgid)} : replies' = [replies EXCEPT ![c] = Append(@, r)]
       /\ UNCHANGED <<jobs, lost>>
    \/ Lose(c, rq)

\* JobQueuePush, whose result the caller ignores.
JobQueuePush(c, rq, job) ==
    \/ /\ jobs' = Append(jobs, job)
       /\ UNCHANGED <<replies, lost>>
    \/ Lose(c, rq)

NoParam(rq)   == rq.params = <<>>
OneString(rq) == Len(rq.params) = 1 /\ rq.params[1].t = "str"
ParamError(rq) == IF Len(rq.params) # 1 THEN "Expected 1 parameter." ELSE "Expected a string."

\* Mutant of SamplelistImport: a request with a wrong parameter is dropped.
SamplelistImportSilent(c, rq) ==
    /\ rq.method = "samplelist/import"
    /\ IF OneString(rq)
       THEN JobQueuePush(c, rq, [conn |-> c, msgid |-> rq.msgid, payload |-> rq.params[1].v])
       ELSE UNCHANGED <<replies, jobs, lost>>
    /\ UNCHANGED sampleVars

\* RequestSetMethod had no memory for the name of the method.
MethodNotSpecified(c, rq) ==
    /\ Reply(c, rq, ResponseCreateError(rq.msgid, "Method not specified."))
    /\ UNCHANGED sampleVars

TestPing(c, rq) ==
    /\ rq.method = "test/ping"
    /\ Reply(c, rq, IF NoParam(rq) THEN ResponseCreateString(rq.msgid, "pong!")
                                   ELSE ResponseCreateError(rq.msgid, "Pong, but ..."))
    /\ UNCHANGED sampleVars

SessionCreate(c, rq) ==
    /\ rq.method = "session/create"
    /\ Reply(c, rq, IF OneString(rq) THEN ResponseCreateResult(rq.msgid, FnSessionCreate)
                                     ELSE ResponseCreateError(rq.msgid, ParamError(rq)))
    /\ UNCHANGED sampleVars

SessionGetName(c, rq) ==
    /\ rq.method = "session/get_name"
    /\ Reply(c, rq, IF NoParam(rq) THEN ResponseCreateString(rq.msgid, SessionName)
                                   ELSE ResponseCreateError(rq.msgid, "Expected 0 parameters."))
    /\ UNCHANGED sampleVars

SessionGetWorkingTime(c, rq) ==
    /\ rq.method = "session/get_working_time"
    /\ Reply(c, rq, IF NoParam(rq) THEN ResponseCreateInt(rq.msgid)
                                   ELSE ResponseCreateError(rq.msgid, "Expected 0 parameters."))
    /\ UNCHANGED sampleVars

SamplelistImport(c, rq) ==
    /\ rq.method = "samplelist/import"
    /\ IF OneString(rq)
       THEN JobQueuePush(c, rq, [conn |-> c, msgid |-> rq.msgid, payload |-> rq.params[1].v])
       ELSE Reply(c, rq, ResponseCreateError(rq.msgid, ParamError(rq)))
    /\ UNCHANGED sampleVars

\* The sample list is asked first, then the answer is built from its result.
SamplelistRemove(c, rq) ==
    /\ rq.method = "samplelist/remove"
    /\ IF OneString(rq)
       THEN /\ SampleListDeleteSampleByName(rq.params[1].v)
            /\ Reply(c, rq, ResponseCreateResultAudio(rq.msgid, result'))
       ELSE /\ Reply(c, rq, ResponseCreateError(rq.msgid, ParamError(rq)))
            /\ UNCHANGED sampleVars

SamplelistPlay(c, rq) ==
    /\ rq.method = "samplelist/play"
    /\ IF OneString(rq)
       THEN /\ FnSamplePlay(rq.params[1].v)
            /\ Reply(c, rq, ResponseCreateResultAudio(rq.msgid, result'))
       ELSE /\ Reply(c, rq, ResponseCreateError(rq.msgid, ParamError(rq)))
            /\ UNCHANGED sampleVars

Handled == {"test/ping", "session/create", "session/get_name", "session/get_working_time",
            "samplelist/import", "samplelist/remove", "samplelist/play"}

MethodNotFound(c, rq) ==
    /\ rq.method \notin Handled
    /\ Reply(c, rq, ResponseCreateError(rq.msgid, "Method not found."))
    /\ UNCHANGED sampleVars

-----------------------------------------------------------------------------
Init ==
    /\ SampleInit
    /\ sent = [c \in Conns |-> <<>>]
    /\ handled = [c \in Conns |-> 0]
    /\ replies = [c \in Conns |-> <<>>]
    /\ jobs = <<>>
    /\ lost = {}
    /\ open = Conns

TotalSent == MapThenSumSet(LAMBDA c : Len(sent[c]), Conns)

\* A client sends a request; its msgids are unique on its connection.
Send(c, method, params) ==
    /\ c \in open
    /\ TotalSent < MaxRequests
    /\ sent' = [sent EXCEPT ![c] = Append(@, [msgid |-> Len(@) + 1, method |-> method, params |-> params])]
    /\ UNCHANGED <<sampleVars, handled, replies, jobs, lost, open>>

\* ServerDispatch for the next request of a connection.
DispatchRPCMessage(c) ==
    /\ c \in open
    /\ handled[c] < Len(sent[c])
    /\ LET rq == sent[c][handled[c] + 1]
       IN  \/ MethodNotSpecified(c, rq)
           \/ TestPing(c, rq)
           \/ SessionCreate(c, rq)
           \/ SessionGetName(c, rq)
           \/ SessionGetWorkingTime(c, rq)
           \/ SamplelistImport(c, rq)
           \/ SamplelistRemove(c, rq)
           \/ SamplelistPlay(c, rq)
           \/ MethodNotFound(c, rq)
    /\ handled' = [handled EXCEPT ![c] = @ + 1]
    /\ UNCHANGED <<sent, open>>

\* The connection is closed; requests not dispatched yet are dropped.
Close(c) ==
    /\ c \in open
    /\ open' = open \ {c}
    /\ UNCHANGED <<sampleVars, sent, handled, replies, jobs, lost>>

\* FnSampleListImportSample and the functions of the sample list, which no
\* method reaches yet: they may be called whenever no request is handled.
OtherCaller == SampleNext /\ UNCHANGED <<sent, handled, replies, jobs, lost, open>>

Next ==
    \/ \E c \in Conns :
        \/ \E method \in Methods, params \in ParamLists : Send(c, method, params)
        \/ DispatchRPCMessage(c)
        \/ Close(c)
    \/ OtherCaller

Spec == Init /\ [][Next]_vars

-----------------------------------------------------------------------------
Answered(c) == {replies[c][i].msgid : i \in DOMAIN replies[c]}
Queued(c)   == {jobs[i].msgid : i \in {j \in DOMAIN jobs : jobs[j].conn = c}}
Lost(c)     == {l[2] : l \in {m \in lost : m[1] = c}}

\* What the fields of a response may hold.
Errors  == {"nil", "Pong, but ...", "Expected 0 parameters.", "Expected 1 parameter.",
            "Expected a string.", "Method not specified.", "Method not found.", "err"}
Results == {"nil", "int", "pong!", FnSessionCreate, SessionName}

\* The types of the variables.
TypeOK ==
    /\ SampleTypeOK
    /\ sent \in [Conns -> Seq([msgid : Nat, method : Methods, params : ParamLists])]
    /\ handled \in [Conns -> Nat]
    /\ \A c \in Conns : handled[c] <= Len(sent[c])
    /\ replies \in [Conns -> Seq([msgid : Nat \ {0}, error : Errors, result : Results])]
    /\ jobs \in Seq([conn : Conns, msgid : Nat \ {0}, payload : ParamNames])
    /\ lost \subseteq Conns \X (Nat \ {0})
    /\ open \subseteq Conns

\* A connection gets its answers in the order of its requests, each at most
\* once and under the request's msgid, whatever the other connections ask.
RepliesInOrder ==
    \A c \in Conns :
        /\ Answered(c) \subseteq 1 .. handled[c]
        /\ \A i, j \in DOMAIN replies[c] : i < j => replies[c][i].msgid < replies[c][j].msgid

\* No dispatched request is forgotten: it is answered, or a job that holds its
\* own path under its own connection and msgid waits for the answer, one job
\* for one request; only want of memory loses it, and what is lost left
\* neither an answer nor a job behind.
NoRequestForgotten ==
    \A c \in Conns :
        /\ 1 .. handled[c] = Answered(c) \union Queued(c) \union Lost(c)
        /\ Lost(c) \intersect (Answered(c) \union Queued(c)) = {}
        /\ \A i \in DOMAIN jobs : jobs[i].conn = c =>
            /\ jobs[i].payload = sent[c][jobs[i].msgid].params[1].v
            /\ \A j \in DOMAIN jobs : jobs[j].conn = c /\ jobs[j].msgid = jobs[i].msgid => i = j
=============================================================================
