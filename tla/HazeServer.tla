----------------------------- MODULE HazeServer -----------------------------
(***************************************************************************)
(* The connection life cycle of source/server/HazeServer.c on its libuv    *)
(* loop.  The loop is single threaded: a callback runs to completion, so   *)
(* every action that starts one requires pc = "idle".  haze_on_read is the *)
(* only callback with a loop in it; its iterations are the actions between *)
(* "idle" and "idle" and nothing interleaves with them.                    *)
(*                                                                         *)
(* Lengths are in the unit of the constants (in the code: bytes).          *)
(***************************************************************************)
EXTENDS Integers, Sequences

CONSTANTS
    Conns,          \* addresses calloc may return for a HazeConn (reused)
    ReadMax,        \* most bytes libuv delivers in one read (65536)
    BufferFirst,    \* first capacity of a connection's buffer (1024)
    BufferLimit,    \* largest backlog haze_on_read tolerates (4 MB)
    ConnCapFirst,   \* first capacity of the connections array (8)
    MaxWrites       \* bound: pending write requests per connection

ASSUME ConstantsAssumption ==
    /\ ReadMax \in Nat \ {0}
    /\ BufferFirst \in Nat \ {0}
    /\ BufferLimit \in Nat
    /\ ConnCapFirst \in Nat \ {0}
    /\ MaxWrites \in Nat \ {0}

\* One read never exceeds the backlog limit: 64 KB against 4 MB.
ASSUME ReadFitsAssumption == ReadMax <= BufferLimit

NoConn == "no conn"

ASSUME NoConnAssumption == NoConn \notin Conns

VARIABLES
    conn,           \* what each HazeConn address holds, see ConnStates
    uvCloses,       \* uv_close calls on each handle since its uv_tcp_init
    connections,    \* the first conn_len entries of server->connections
    conn_cap,       \* server->conn_cap
    addFailed,      \* open connections whose HazeServerAddConnection failed
    buffer_len,     \* conn->buffer_len
    buffer_cap,     \* conn->buffer_cap
    writes,         \* uv_write requests libuv still holds for the handle
    pc,             \* where the running callback is
    cur,            \* the connection haze_on_read runs for
    db,             \* what ServerDispatch returned to haze_on_read
    pos,            \* loop index of HazeServerBroadcast, from 1
    loop,           \* life of the loop and of the server object, see LoopStates
    listener        \* the listening handle, see ListenerStates

connVars   == <<conn, uvCloses, buffer_len, buffer_cap, writes>>
regVars    == <<connections, conn_cap, addFailed>>
readVars   == <<pc, cur, db, pos>>
serverVars == <<loop, listener>>
vars       == <<connVars, regVars, readVars, serverVars>>

(***************************************************************************)
(* "none": not allocated.  "open": reading.  "closing": uv_close was       *)
(* called with haze_on_close.  "walked": uv_close was called by the walk   *)
(* of HazeServerFree, with _OnHandleClose.  "leaked": that close is done,  *)
(* the memory is still allocated.                                          *)
(***************************************************************************)
ConnStates == {"none", "open", "closing", "walked", "leaked"}

(***************************************************************************)
(* "running": in uv_run.  "stopping": uv_stop was called, the iteration in *)
(* progress still finishes.  "stopped": uv_run returned.  "draining":      *)
(* HazeServerFree has walked the handles and spins on uv_loop_close.       *)
(* "freed": loop and server are freed.                                     *)
(***************************************************************************)
LoopStates == {"running", "stopping", "stopped", "draining", "freed"}

\* "stalled": still open, but libuv has stopped polling it because a callback
\* returned without accepting the connection it was called for.
ListenerStates == {"open", "stalled", "closing", "closed"}

Allocated(c) == conn[c] # "none"
IsClosing(c) == conn[c] \in {"closing", "walked", "leaked"}   \* uv_is_closing
Registered   == {connections[i] : i \in DOMAIN connections}

\* The loop calls back while uv_run is running, in main or in HazeServerFree.
Polling == pc = "idle" /\ loop \in {"running", "stopping"}
Calling == pc = "idle" /\ loop \in {"running", "stopping", "draining"}

\* ServerDispatch's answer: the contract of Dispatch.c as haze_on_read sees it.
\* haze_on_read does not trust the count it gets back, so any count may come.
NoBytes == [ok |-> FALSE, response |-> FALSE, notification |-> FALSE, consumed |-> 0]
DispatchBytes == [ok : {TRUE}, response : BOOLEAN, notification : BOOLEAN,
                  consumed : 0 .. ReadMax + 1] \union {NoBytes}

\* HazeServerNew, a HazeServerStart that returned 0, HazeServerSetupSignals.
Init ==
    /\ conn = [c \in Conns |-> "none"]
    /\ uvCloses = [c \in Conns |-> 0]
    /\ connections = <<>>
    /\ conn_cap = 0
    /\ addFailed = {}
    /\ buffer_len = [c \in Conns |-> 0]
    /\ buffer_cap = [c \in Conns |-> 0]
    /\ writes = [c \in Conns |-> 0]
    /\ pc = "idle"
    /\ cur = NoConn
    /\ db = NoBytes
    /\ pos = 1
    /\ loop = "running"
    /\ listener = "open"

-----------------------------------------------------------------------------
(* Calls the callbacks make.                                               *)

\* uv_close(handle, haze_on_close).  libuv aborts on a second call.
UvClose(c) ==
    /\ conn' = [conn EXCEPT ![c] = "closing"]
    /\ uvCloses' = [uvCloses EXCEPT ![c] = @ + 1]

\* haze_send: an allocation failure, or uv_write refusing a closing handle,
\* leaves no request behind; otherwise libuv holds one more.
haze_send(c) ==
    \/ writes' = writes
    \/ /\ ~IsClosing(c)
       /\ writes[c] < MaxWrites
       /\ writes' = [writes EXCEPT ![c] = @ + 1]

\* Mutant of HazeServerAddConnection: it grows one connection late.
AddConnectionLate(c) ==
    /\ connections' = Append(connections, c)
    /\ conn_cap' = IF Len(connections) > conn_cap THEN conn_cap * 2 ELSE conn_cap
    /\ UNCHANGED addFailed

\* HazeServerAddConnection, its result ignored by the caller.  Only a realloc
\* can fail, and then the connection stays open without being registered.
HazeServerAddConnection(c) ==
    \/ /\ Len(connections) < conn_cap
       /\ connections' = Append(connections, c)
       /\ UNCHANGED <<conn_cap, addFailed>>
    \/ /\ Len(connections) >= conn_cap
       /\ connections' = Append(connections, c)
       /\ conn_cap' = IF conn_cap = 0 THEN ConnCapFirst ELSE conn_cap * 2
       /\ UNCHANGED addFailed
    \/ /\ Len(connections) >= conn_cap
       /\ addFailed' = addFailed \union {c}
       /\ UNCHANGED <<connections, conn_cap>>

\* Mutants of WithoutConn: nothing removed; the length shrinks without the swap.
WithoutConnKept(c) == connections
WithoutConnNoSwap(c) ==
    IF c \in Registered THEN SubSeq(connections, 1, Len(connections) - 1) ELSE connections

\* HazeServerRemoveConnection: the last entry moves into the first slot that
\* holds c.
WithoutConn(c) ==
    LET n == Len(connections)
        Holds(i) == connections[i] = c
    IN  IF \E i \in 1 .. n : Holds(i)
        THEN LET k == CHOOSE i \in 1 .. n : Holds(i) /\ \A j \in 1 .. i - 1 : ~Holds(j)
             IN  [j \in 1 .. n - 1 |-> IF j = k THEN connections[n] ELSE connections[j]]
        ELSE connections

\* The capacity the doubling loop of haze_on_read stops at.
IsBufferCap(cap, old, need) ==
    LET from == IF old = 0 THEN BufferFirst ELSE old
    IN  /\ cap >= need
        /\ \E k \in 0 .. need : cap = from * 2^k
        /\ cap > from => cap < 2 * need

-----------------------------------------------------------------------------
(* Callbacks.                                                              *)

\* haze_on_connect when uv_accept or uv_read_start fails: closed at once,
\* never registered.
OnConnectFail(c) ==
    /\ Polling
    /\ listener = "open"
    /\ conn[c] = "none"
    /\ UvClose(c)
    /\ UNCHANGED <<buffer_len, buffer_cap, writes, regVars, readVars, serverVars>>

\* haze_on_connect when calloc or uv_tcp_init fails: it returns without uv_accept.
OnConnectNoMem ==
    /\ Polling
    /\ listener = "open"
    /\ listener' = "stalled"
    /\ UNCHANGED <<connVars, regVars, readVars, loop>>

\* haze_on_connect, the whole way.
OnConnect(c) ==
    /\ Polling
    /\ listener = "open"
    /\ conn[c] = "none"
    /\ conn' = [conn EXCEPT ![c] = "open"]
    /\ HazeServerAddConnection(c)
    /\ UNCHANGED <<uvCloses, buffer_len, buffer_cap, writes, readVars, serverVars>>

\* Mutant of OnReadFail: frees the connection without waiting for the close callback.
OnReadFailFrees(c) ==
    /\ Polling
    /\ conn[c] = "open"
    /\ connections' = WithoutConn(c)
    /\ addFailed' = addFailed \ {c}
    /\ conn' = [conn EXCEPT ![c] = "none"]
    /\ UNCHANGED <<uvCloses, buffer_len, buffer_cap, writes, conn_cap, readVars, serverVars>>

\* haze_on_read with nread < 0 (end of file, an error, haze_on_alloc out of
\* memory), or the buffer cannot be resized for the bytes that came.
OnReadFail(c) ==
    /\ Polling
    /\ conn[c] = "open"
    /\ UvClose(c)
    /\ UNCHANGED <<buffer_len, buffer_cap, writes, regVars, readVars, serverVars>>

\* haze_on_read with nread bytes, as far as its loop.
OnRead(c, nread) ==
    /\ Polling
    /\ conn[c] = "open"
    /\ LET new_len == buffer_len[c] + nread
       IN  /\ buffer_len' = [buffer_len EXCEPT ![c] = new_len]
           /\ \/ new_len <= buffer_cap[c] /\ UNCHANGED buffer_cap
              \/ /\ new_len > buffer_cap[c]
                 /\ \E cap \in 1 .. 2 * new_len + BufferFirst :
                        /\ IsBufferCap(cap, buffer_cap[c], new_len)
                        /\ buffer_cap' = [buffer_cap EXCEPT ![c] = cap]
    /\ pc' = "dispatch"
    /\ cur' = c
    /\ UNCHANGED <<conn, uvCloses, writes, regVars, db, pos, serverVars>>

\* One round of the loop: ServerDispatch on the whole buffer.
Dispatch(r) ==
    /\ pc = "dispatch"
    /\ r.consumed <= buffer_len[cur] + 1
    /\ IF ~r.ok
       THEN /\ UvClose(cur)
            /\ pc' = "check"
            /\ UNCHANGED <<writes, db, pos>>
       ELSE /\ IF r.response THEN haze_send(cur) ELSE UNCHANGED writes
            /\ pc' = IF r.notification THEN "broadcast" ELSE "consume"
            /\ db' = r
            /\ pos' = 1
            /\ UNCHANGED <<conn, uvCloses>>
    /\ UNCHANGED <<buffer_len, buffer_cap, regVars, cur, serverVars>>

\* HazeServerBroadcast, one connection a step.
Broadcast ==
    /\ pc = "broadcast"
    /\ IF pos <= Len(connections)
       THEN haze_send(connections[pos]) /\ pos' = pos + 1 /\ UNCHANGED pc
       ELSE pc' = "consume" /\ UNCHANGED <<writes, pos>>
    /\ UNCHANGED <<conn, uvCloses, buffer_len, buffer_cap, regVars, cur, db, serverVars>>

\* Mutants of Consume: a count beyond the buffer is not refused; one message
\* per read callback, the rest left in the buffer.
ConsumeUnchecked ==
    /\ pc = "consume"
    /\ IF db.consumed = 0
       THEN /\ UvClose(cur)
            /\ pc' = "check"
            /\ UNCHANGED buffer_len
       ELSE /\ buffer_len' = [buffer_len EXCEPT ![cur] = @ - db.consumed]
            /\ pc' = IF buffer_len[cur] > db.consumed THEN "dispatch" ELSE "check"
            /\ UNCHANGED <<conn, uvCloses>>
    /\ db' = NoBytes
    /\ pos' = 1
    /\ UNCHANGED <<buffer_cap, writes, regVars, cur, serverVars>>
ConsumeOnce ==
    /\ pc = "consume"
    /\ IF db.consumed = 0 \/ db.consumed > buffer_len[cur]
       THEN UvClose(cur) /\ UNCHANGED buffer_len
       ELSE /\ buffer_len' = [buffer_len EXCEPT ![cur] = @ - db.consumed]
            /\ UNCHANGED <<conn, uvCloses>>
    /\ pc' = "check"
    /\ db' = NoBytes
    /\ pos' = 1
    /\ UNCHANGED <<buffer_cap, writes, regVars, cur, serverVars>>

\* The count of consumed bytes is checked and the rest of the buffer moved up.
Consume ==
    /\ pc = "consume"
    /\ IF db.consumed = 0 \/ db.consumed > buffer_len[cur]
       THEN /\ UvClose(cur)
            /\ pc' = "check"
            /\ UNCHANGED buffer_len
       ELSE /\ buffer_len' = [buffer_len EXCEPT ![cur] = @ - db.consumed]
            /\ pc' = IF buffer_len[cur] > db.consumed THEN "dispatch" ELSE "check"
            /\ UNCHANGED <<conn, uvCloses>>
    /\ db' = NoBytes
    /\ pos' = 1
    /\ UNCHANGED <<buffer_cap, writes, regVars, cur, serverVars>>

\* After the loop: the backlog limit.
CheckBacklog ==
    /\ pc = "check"
    /\ IF buffer_len[cur] > BufferLimit THEN UvClose(cur) ELSE UNCHANGED <<conn, uvCloses>>
    /\ pc' = "idle"
    /\ cur' = NoConn
    /\ UNCHANGED <<buffer_len, buffer_cap, writes, regVars, db, pos, serverVars>>

\* haze_on_write_done with status 0; libuv reports a write of a closing handle
\* as cancelled, never as done.
OnWriteOk(c) ==
    /\ Polling
    /\ writes[c] > 0
    /\ ~IsClosing(c)
    /\ writes' = [writes EXCEPT ![c] = @ - 1]
    /\ UNCHANGED <<conn, uvCloses, buffer_len, buffer_cap, regVars, readVars, serverVars>>

\* Mutant of OnWriteFail: closes without asking uv_is_closing.
OnWriteFailAlwaysCloses(c) ==
    /\ Calling
    /\ writes[c] > 0
    /\ UvClose(c)
    /\ writes' = [writes EXCEPT ![c] = @ - 1]
    /\ UNCHANGED <<buffer_len, buffer_cap, regVars, readVars, serverVars>>

\* haze_on_write_done with status < 0.
OnWriteFail(c) ==
    /\ Calling
    /\ writes[c] > 0
    /\ IF IsClosing(c) THEN UNCHANGED <<conn, uvCloses>> ELSE UvClose(c)
    /\ writes' = [writes EXCEPT ![c] = @ - 1]
    /\ UNCHANGED <<buffer_len, buffer_cap, regVars, readVars, serverVars>>

\* Mutant of OnClose: only a connection found in the registry is freed.
OnCloseIfRegistered(c) ==
    /\ Calling
    /\ conn[c] = "closing"
    /\ writes[c] = 0
    /\ c \in Registered
    /\ connections' = WithoutConn(c)
    /\ conn' = [conn EXCEPT ![c] = "none"]
    /\ uvCloses' = [uvCloses EXCEPT ![c] = 0]
    /\ buffer_len' = [buffer_len EXCEPT ![c] = 0]
    /\ buffer_cap' = [buffer_cap EXCEPT ![c] = 0]
    /\ UNCHANGED <<conn_cap, addFailed, writes, readVars, serverVars>>

\* haze_on_close: unregister, then free.  libuv has called back every pending
\* write of the handle before.
OnClose(c) ==
    /\ Calling
    /\ conn[c] = "closing"
    /\ writes[c] = 0
    /\ connections' = WithoutConn(c)
    /\ addFailed' = addFailed \ {c}
    /\ conn' = [conn EXCEPT ![c] = "none"]
    /\ uvCloses' = [uvCloses EXCEPT ![c] = 0]
    /\ buffer_len' = [buffer_len EXCEPT ![c] = 0]
    /\ buffer_cap' = [buffer_cap EXCEPT ![c] = 0]
    /\ UNCHANGED <<conn_cap, writes, readVars, serverVars>>

\* _OnSignal.
OnSignal ==
    /\ Polling
    /\ loop = "running"
    /\ loop' = "stopping"
    /\ UNCHANGED <<connVars, regVars, readVars, listener>>

\* uv_run returns to main.
RunReturns ==
    /\ pc = "idle"
    /\ loop = "stopping"
    /\ loop' = "stopped"
    /\ UNCHANGED <<connVars, regVars, readVars, listener>>

\* Mutant of CloseWalk: the walk closes the listening handle only.
CloseWalkListener ==
    /\ loop = "stopped"
    /\ listener' = "closing"
    /\ loop' = "draining"
    /\ UNCHANGED <<connVars, regVars, readVars>>

\* HazeServerFree: uv_walk with _CloseWalkCb.
CloseWalk ==
    /\ loop = "stopped"
    /\ LET live == {c \in Conns : conn[c] = "open"}
       IN  /\ conn' = [c \in Conns |-> IF c \in live THEN "walked" ELSE conn[c]]
           /\ uvCloses' = [c \in Conns |-> IF c \in live THEN uvCloses[c] + 1 ELSE uvCloses[c]]
    /\ listener' = "closing"
    /\ loop' = "draining"
    /\ UNCHANGED <<buffer_len, buffer_cap, writes, regVars, readVars>>

\* _OnHandleClose for a connection: its data is not the marker 1, nothing is freed.
OnHandleClose(c) ==
    /\ Calling
    /\ conn[c] = "walked"
    /\ writes[c] = 0
    /\ conn' = [conn EXCEPT ![c] = "leaked"]
    /\ UNCHANGED <<uvCloses, buffer_len, buffer_cap, writes, regVars, readVars, serverVars>>

\* _OnHandleClose for the listening handle (and the signal handle with it).
OnListenerClose ==
    /\ Calling
    /\ listener = "closing"
    /\ listener' = "closed"
    /\ UNCHANGED <<connVars, regVars, readVars, loop>>

\* uv_loop_close no longer reports UV_EBUSY: loop and server are freed.
ServerFree ==
    /\ loop = "draining"
    /\ listener = "closed"
    /\ \A c \in Conns : conn[c] \in {"none", "leaked"} /\ writes[c] = 0
    /\ loop' = "freed"
    /\ UNCHANGED <<connVars, regVars, readVars, listener>>

\* The process has left HazeServerFree.
Done ==
    /\ loop = "freed"
    /\ UNCHANGED vars

ReadLoop == (\E r \in DispatchBytes : Dispatch(r)) \/ Broadcast \/ Consume \/ CheckBacklog

Next ==
    \/ \E c \in Conns :
        \/ OnConnectFail(c)
        \/ OnConnect(c)
        \/ OnReadFail(c)
        \/ \E nread \in 1 .. ReadMax : OnRead(c, nread)
        \/ OnWriteOk(c)
        \/ OnWriteFail(c)
        \/ OnClose(c)
        \/ OnHandleClose(c)
    \/ OnConnectNoMem
    \/ ReadLoop
    \/ OnSignal
    \/ RunReturns
    \/ CloseWalk
    \/ OnListenerClose
    \/ ServerFree
    \/ Done

(***************************************************************************)
(* What the loop owes.  A callback in progress finishes.  Every iteration  *)
(* of uv_run calls back the closing handles, their cancelled writes first, *)
(* whatever else happens in it: strong fairness, as a read callback in     *)
(* between disables them for a while.  An iteration ends, so uv_run        *)
(* returns once stopped; main then runs HazeServerFree, where only closing *)
(* handles are left.  Clients, the signal and the network are not fair: a  *)
(* write to a peer that does not read may stay pending for ever.           *)
(***************************************************************************)
Fairness ==
    /\ WF_vars(ReadLoop)
    /\ \A c \in Conns :
        /\ SF_vars(IsClosing(c) /\ OnWriteFail(c))
        /\ SF_vars(OnClose(c))
        /\ WF_vars(OnHandleClose(c))
    /\ SF_vars(RunReturns)
    /\ WF_vars(CloseWalk)
    /\ WF_vars(OnListenerClose)
    /\ WF_vars(ServerFree)

Spec == Init /\ [][Next]_vars
FairSpec == Spec /\ Fairness

-----------------------------------------------------------------------------
(* Properties.                                                             *)

\* The types of the variables.
TypeOK ==
    /\ conn \in [Conns -> ConnStates]
    /\ uvCloses \in [Conns -> Nat]
    /\ connections \in Seq(Conns)
    /\ conn_cap \in Nat
    /\ addFailed \in SUBSET Conns
    /\ buffer_len \in [Conns -> Nat]
    /\ buffer_cap \in [Conns -> Nat]
    /\ writes \in [Conns -> Nat]
    /\ pc \in {"idle", "dispatch", "broadcast", "consume", "check"}
    /\ cur \in Conns \union {NoConn}
    /\ db \in DispatchBytes
    /\ pos \in Nat \ {0}
    /\ loop \in LoopStates
    /\ listener \in ListenerStates

\* HazeServerBroadcast dereferences every entry of server->connections: an
\* entry is never a freed HazeConn, and no connection is listed twice.
RegistrySound ==
    /\ \A i \in DOMAIN connections : Allocated(connections[i])
    /\ \A i, j \in DOMAIN connections : connections[i] = connections[j] => i = j

\* Every connection the server reads from is in server->connections, so that
\* a broadcast reaches it, unless its HazeServerAddConnection ran out of
\* memory: the swap in HazeServerRemoveConnection loses no other connection.
RegistryComplete ==
    \A c \in Conns : conn[c] = "open" => c \in Registered \union addFailed

\* uv_close is called at most once on a handle (libuv aborts on the second
\* call), although a failed read, a failed write, the parser, the backlog
\* check and the walk of HazeServerFree all close.
CloseOnce == \A c \in Conns : uvCloses[c] <= 1

\* Between callbacks the buffer of a connection that is still read is empty:
\* haze_on_read keeps nothing for the next read.
NothingKeptBetweenReads ==
    \A c \in Conns : pc = "idle" /\ conn[c] = "open" => buffer_len[c] = 0

\* A write request libuv holds points to a stream in allocated memory, which
\* haze_on_write_done passes to uv_is_closing.
WriteTargetAllocated == \A c \in Conns : writes[c] > 0 => Allocated(c)

\* The two stores through a grown array stay inside it: the memcpy into
\* conn->buffer and the append to server->connections.
StoresInBounds ==
    /\ Len(connections) <= conn_cap
    /\ \A c \in Conns : buffer_len[c] <= buffer_cap[c]

\* No callback that uses the loop or the server is due once HazeServerFree has
\* freed them: no handle is closing and no write is pending.
NothingPendingAfterFree ==
    loop = "freed" =>
        /\ listener = "closed"
        /\ \A c \in Conns : conn[c] \in {"none", "leaked"} /\ writes[c] = 0

\* A connection leaves the registry in the step that frees it, and no other
\* connection leaves with it.
LeavesOnlyWhenFreed ==
    [][\A c \in Conns : c \in Registered /\ c \notin Registered' => Allocated(c) /\ conn'[c] = "none"]_vars

\* What the server's clients see of it, see ConnectionSpec.
LifeOf(c) == IF conn[c] \in {"walked", "leaked"} THEN "abandoned" ELSE conn[c]
ToSend    == IF pc = "broadcast" THEN {connections[i] : i \in pos .. Len(connections)} ELSE {}
ServerOf  == IF loop = "freed" THEN "over" ELSE IF loop = "draining" THEN "down" ELSE "up"

Peers == INSTANCE ConnectionSpec WITH
    life <- [c \in Conns |-> LifeOf(c)], members <- Registered, todo <- ToSend, server <- ServerOf

\* The array of connections is a set of members: each broadcast goes once to
\* every member and to nobody else, a member leaves only when it is freed, no
\* callback comes between the sends of a broadcast or after the server is
\* freed, and the shutdown leaves no connection half closed.
ImplementsConnections == Peers!Spec

\* A connection that haze_on_close will be called for is freed in the end, in
\* uv_run or, when a signal comes first, in the drain of HazeServerFree.
ClosingIsFreed == \A c \in Conns : conn[c] = "closing" ~> conn[c] = "none"

\* Once a signal has stopped the loop, HazeServerFree terminates: the drain
\* does not wait for ever on a handle nobody closes.
ShutdownCompletes == loop = "stopping" ~> loop = "freed"
=============================================================================
