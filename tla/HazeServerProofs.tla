-------------------------- MODULE HazeServerProofs --------------------------
(***************************************************************************)
(* The safety properties of HazeServer, for every set of connections and   *)
(* every value of the bounds that satisfies the assumptions.               *)
(***************************************************************************)
EXTENDS HazeServer, SequenceTheorems, TLAPS

(***************************************************************************)
(* The inductive invariant.  CloseOnce is not inductive: it needs to know  *)
(* that a handle that is still read has not been closed (CloseCount), and  *)
(* that the backlog check after the loop of haze_on_read, which closes     *)
(* without asking whether the loop already did, cannot fire (ReadPhase:    *)
(* the backlog is what one read brought).                                  *)
(***************************************************************************)

\* A handle was closed once if it is closing, and not at all before.
CloseCount ==
    \A c \in Conns : uvCloses[c] = IF conn[c] \in {"none", "open"} THEN 0 ELSE 1

\* Where haze_on_read is, and what its connection's buffer holds there.
ReadPhase ==
    /\ pc # "idle" =>
        /\ cur \in Conns
        /\ loop \in {"running", "stopping"}
        /\ buffer_len[cur] <= ReadMax
    /\ pc \in {"dispatch", "broadcast", "consume"} => conn[cur] = "open"
    /\ pc = "check" => \/ conn[cur] = "open" /\ buffer_len[cur] = 0
                       \/ conn[cur] = "closing"

\* Only the connection haze_on_read runs for has bytes in its buffer, as long
\* as no connection is closing; calloc hands out an empty one.
OthersEmpty ==
    \A c \in Conns :
        conn[c] \in {"none", "open"} /\ (pc = "idle" \/ c # cur) => buffer_len[c] = 0

\* What no longer happens in a handle's, and in the server's, last state.
LastStates ==
    /\ NothingPendingAfterFree
    /\ loop \in {"draining", "freed"} => \A c \in Conns : conn[c] # "open"
    /\ \A c \in Conns : conn[c] = "leaked" => writes[c] = 0

IInv ==
    /\ TypeOK
    /\ RegistrySound
    /\ RegistryComplete
    /\ CloseCount
    /\ ReadPhase
    /\ OthersEmpty
    /\ WriteTargetAllocated
    /\ StoresInBounds
    /\ LastStates

-----------------------------------------------------------------------------
(* What HazeServerRemoveConnection and HazeServerAddConnection do.         *)

\* In a registry without duplicates the swap takes out c, keeps every other
\* connection, and creates no duplicate.
LEMMA SwapRemove ==
    ASSUME NEW c \in Conns, connections \in Seq(Conns), RegistrySound
    PROVE  /\ WithoutConn(c) \in Seq(Conns)
           /\ Len(WithoutConn(c)) <= Len(connections)
           /\ \A i \in DOMAIN WithoutConn(c) : WithoutConn(c)[i] # c
           /\ \A i \in DOMAIN WithoutConn(c) : WithoutConn(c)[i] \in Registered
           /\ \A i, j \in DOMAIN WithoutConn(c) :
                WithoutConn(c)[i] = WithoutConn(c)[j] => i = j
           /\ \A d \in Registered : d # c =>
                \E i \in DOMAIN WithoutConn(c) : WithoutConn(c)[i] = d
<1> DEFINE n == Len(connections)
<1> DEFINE Holds(i) == connections[i] = c
<1> n \in Nat /\ DOMAIN connections = 1 .. n /\ \A i \in 1 .. n : connections[i] \in Conns
  BY LenProperties, ElementOfSeq
<1> HIDE DEF n
<1>1. CASE ~ \E i \in 1 .. n : Holds(i)
  <2>1. WithoutConn(c) = connections
    BY <1>1 DEF WithoutConn, n
  <2> QED
    BY <1>1, <2>1 DEF Registered, RegistrySound
<1>2. CASE \E i \in 1 .. n : Holds(i)
  <2> DEFINE k == CHOOSE i \in 1 .. n : Holds(i) /\ \A j \in 1 .. i - 1 : ~Holds(j)
  <2> DEFINE w == [j \in 1 .. n - 1 |-> IF j = k THEN connections[n] ELSE connections[j]]
  <2>1. WithoutConn(c) = w
    BY <1>2 DEF WithoutConn, n
  <2>2. k \in 1 .. n /\ connections[k] = c
    <3>1. PICK i \in 1 .. n : Holds(i)
      BY <1>2
    <3>2. Holds(i) /\ \A j \in 1 .. i - 1 : ~Holds(j)
      BY <3>1 DEF RegistrySound
    <3> QED
      BY <3>2
  <2> HIDE DEF k
  <2>3. n - 1 \in Nat
    BY <2>2
  <2>4. w \in Seq(Conns) /\ Len(w) = n - 1 /\ DOMAIN w = 1 .. n - 1
    <3>1. \A j \in 1 .. n - 1 : w[j] \in Conns
      BY <2>2, <2>3
    <3>2. w \in [1 .. n - 1 -> Conns]
      BY <3>1
    <3> QED
      BY <3>2, <2>3, IsASeq
  <2>5. \A j \in 1 .. n - 1 : w[j] # c /\ w[j] \in Registered
    BY <2>2, <2>3 DEF RegistrySound, Registered
  <2>6. \A i, j \in 1 .. n - 1 : w[i] = w[j] => i = j
    BY <2>2, <2>3 DEF RegistrySound
  <2>7. ASSUME NEW d \in Registered, d # c
        PROVE  \E i \in 1 .. n - 1 : w[i] = d
    <3>1. PICK j \in 1 .. n : connections[j] = d
      BY DEF Registered
    <3>2. CASE j = n
      <4>1. k \in 1 .. n - 1 /\ w[k] = d
        BY <2>2, <2>3, <2>7, <3>1, <3>2
      <4> QED
        BY <4>1
    <3>3. CASE j # n
      <4>1. j \in 1 .. n - 1
        BY <3>3
      <4>2. j # k
        BY <2>2, <2>7, <3>1
      <4>3. w[j] = d
        BY <3>1, <4>1, <4>2
      <4> QED
        BY <4>1, <4>3
    <3> QED
      BY <3>2, <3>3
  <2> HIDE DEF w
  <2>8. Len(WithoutConn(c)) <= Len(connections)
    BY <2>1, <2>3, <2>4 DEF n
  <2> QED
    BY <2>1, <2>4, <2>5, <2>6, <2>7, <2>8
<1> QED
  BY <1>1, <1>2

\* A connection that is not registered yet is appended, or left out and noted;
\* the array has room for it.
LEMMA AddConnection ==
    ASSUME NEW c \in Conns, TypeOK, StoresInBounds, c \notin Registered, RegistrySound,
           HazeServerAddConnection(c)
    PROVE  /\ connections' \in Seq(Conns)
           /\ conn_cap' \in Nat
           /\ addFailed' \in SUBSET Conns
           /\ Len(connections') <= conn_cap'
           /\ \A i \in DOMAIN connections' : connections'[i] = c \/ connections'[i] \in Registered
           /\ \A i, j \in DOMAIN connections' : connections'[i] = connections'[j] => i = j
           /\ Registered \subseteq Registered'
           /\ addFailed \subseteq addFailed'
           /\ c \in Registered' \union addFailed'
<1> DEFINE n == Len(connections)
<1> n \in Nat /\ DOMAIN connections = 1 .. n /\ conn_cap \in Nat
  BY LenProperties DEF TypeOK
<1>1. CASE /\ connections' = Append(connections, c)
           /\ addFailed' = addFailed
           /\ \/ n < conn_cap /\ conn_cap' = conn_cap
              \/ n >= conn_cap /\ conn_cap' = IF conn_cap = 0 THEN ConnCapFirst ELSE conn_cap * 2
  <2> DEFINE a == Append(connections, c)
  <2>1. /\ a \in Seq(Conns) /\ Len(a) = n + 1 /\ DOMAIN a = 1 .. n + 1
        /\ \A i \in 1 .. n : a[i] = connections[i]
        /\ a[n + 1] = c
    BY AppendProperties, LenProperties DEF TypeOK
  <2> HIDE DEF a
  <2>2. Registered' = {a[i] : i \in 1 .. n + 1}
    BY <1>1, <2>1 DEF Registered, a
  <2>3. \A i \in 1 .. n + 1 : a[i] = c \/ a[i] \in Registered
    BY <2>1 DEF Registered
  <2>4. \A i, j \in 1 .. n + 1 : a[i] = a[j] => i = j
    BY <2>1 DEF Registered, RegistrySound
  <2>5. Registered \subseteq Registered' /\ c \in Registered'
    <3>1. c \in {a[i] : i \in 1 .. n + 1}
      BY <2>1
    <3>2. ASSUME NEW d \in Registered PROVE d \in {a[i] : i \in 1 .. n + 1}
      BY <2>1 DEF Registered
    <3> QED
      BY <2>2, <3>1, <3>2
  <2>6. conn_cap' \in Nat /\ n + 1 <= conn_cap'
    <3>1. n <= conn_cap
      BY DEF StoresInBounds
    <3> HIDE DEF n
    <3> QED
      BY <1>1, <3>1, ConstantsAssumption
  <2>7. connections' = a
    BY <1>1 DEF a
  <2> QED
    BY <1>1, <2>1, <2>3, <2>4, <2>5, <2>6, <2>7 DEF TypeOK
<1>2. CASE connections' = connections /\ conn_cap' = conn_cap /\ addFailed' = addFailed \union {c}
  BY <1>2 DEF TypeOK, StoresInBounds, Registered, RegistrySound
<1> QED
  BY <1>1, <1>2 DEF HazeServerAddConnection

-----------------------------------------------------------------------------
(* The invariant is inductive.                                             *)

\* A server that has just started satisfies the invariant.
LEMMA InitInv == Init => IInv
<1> SUFFICES ASSUME Init PROVE IInv
  OBVIOUS
<1> USE DEF Init
<1>1. TypeOK
  <2>1. connections \in Seq(Conns) /\ NoBytes \in DispatchBytes
    BY EmptySeq DEF DispatchBytes
  <2> QED
    BY <2>1 DEF TypeOK, ConnStates, LoopStates, ListenerStates
<1>2. RegistrySound /\ RegistryComplete /\ StoresInBounds
  BY EmptySeq DEF RegistrySound, RegistryComplete, StoresInBounds
<1>3. CloseCount /\ ReadPhase /\ OthersEmpty /\ WriteTargetAllocated /\ LastStates
  BY DEF CloseCount, ReadPhase, OthersEmpty, WriteTargetAllocated, LastStates, NothingPendingAfterFree
<1> QED
  BY <1>1, <1>2, <1>3 DEF IInv

\* The registry facts survive a step that leaves the registry alone, frees
\* nothing and opens nothing.
LEMMA RegistryKept ==
    ASSUME IInv, UNCHANGED regVars, conn' \in [Conns -> ConnStates],
           \A c \in Conns : conn[c] # "none" => conn'[c] # "none",
           \A c \in Conns : conn'[c] = "open" => conn[c] = "open"
    PROVE  /\ RegistrySound'
           /\ RegistryComplete'
           /\ connections' \in Seq(Conns) /\ conn_cap' \in Nat /\ addFailed' \in SUBSET Conns
           /\ Len(connections') <= conn_cap'
<1>1. \A i \in DOMAIN connections : connections[i] \in Conns
  BY ElementOfSeq, LenProperties DEF IInv, TypeOK
<1> QED
  BY <1>1 DEF IInv, TypeOK, RegistrySound, RegistryComplete, StoresInBounds, Allocated, Registered, regVars

\* haze_on_connect: an address that was free is opened and registered.
LEMMA OnConnectInv ==
    ASSUME IInv, NEW c \in Conns, OnConnect(c)
    PROVE  IInv'
<1> USE DEF OnConnect, Polling
<1>1. c \notin Registered
  BY DEF IInv, RegistrySound, Registered, Allocated
<1>2. /\ connections' \in Seq(Conns)
      /\ conn_cap' \in Nat
      /\ addFailed' \in SUBSET Conns
      /\ Len(connections') <= conn_cap'
      /\ \A i \in DOMAIN connections' : connections'[i] = c \/ connections'[i] \in Registered
      /\ \A i, j \in DOMAIN connections' : connections'[i] = connections'[j] => i = j
      /\ Registered \subseteq Registered'
      /\ addFailed \subseteq addFailed'
      /\ c \in Registered' \union addFailed'
  BY <1>1, AddConnection DEF IInv
<1>3. TypeOK'
  BY <1>2 DEF IInv, TypeOK, ConnStates, readVars, serverVars
<1>4. RegistrySound'
  <2>1. \A d \in Registered : d \in Conns /\ conn[d] # "none"
    BY ElementOfSeq, LenProperties DEF IInv, TypeOK, RegistrySound, Registered, Allocated
  <2>2. \A d \in Registered \union {c} : conn'[d] # "none"
    BY <2>1 DEF IInv, TypeOK
  <2> QED
    BY <1>2, <2>2 DEF RegistrySound, Allocated
<1>5. RegistryComplete'
  BY <1>2 DEF IInv, TypeOK, RegistryComplete
<1>6. CloseCount' /\ WriteTargetAllocated' /\ StoresInBounds'
  BY <1>2 DEF IInv, TypeOK, CloseCount, WriteTargetAllocated, Allocated, StoresInBounds
<1>7. ReadPhase' /\ LastStates'
  BY DEF IInv, TypeOK, ReadPhase, LastStates, NothingPendingAfterFree, readVars, serverVars
<1>8. OthersEmpty'
  BY DEF IInv, TypeOK, OthersEmpty, readVars
<1> QED
  BY <1>3, <1>4, <1>5, <1>6, <1>7, <1>8 DEF IInv

\* haze_on_close: the connection leaves the registry as it is freed.
LEMMA CloseCallbackInv ==
    ASSUME IInv, NEW c \in Conns, OnClose(c)
    PROVE  IInv'
<1> USE DEF OnClose, Calling
<1>1. connections \in Seq(Conns) /\ RegistrySound
  BY DEF IInv, TypeOK
<1>2. /\ connections' \in Seq(Conns)
      /\ Len(connections') <= Len(connections)
      /\ \A i \in DOMAIN connections' : connections'[i] # c /\ connections'[i] \in Registered
      /\ \A i, j \in DOMAIN connections' : connections'[i] = connections'[j] => i = j
      /\ \A d \in Registered : d # c => \E i \in DOMAIN connections' : connections'[i] = d
  BY <1>1, SwapRemove
<1>3. TypeOK'
  BY <1>2 DEF IInv, TypeOK, ConnStates, readVars, serverVars
<1>4. RegistrySound'
  <2>1. \A d \in Registered : d \in Conns /\ conn[d] # "none"
    BY <1>1, ElementOfSeq, LenProperties DEF RegistrySound, Registered, Allocated
  <2>2. \A d \in Registered : d # c => conn'[d] # "none"
    BY <2>1 DEF IInv, TypeOK
  <2> QED
    BY <1>2, <2>2 DEF RegistrySound, Allocated
<1>5. RegistryComplete'
  <2> SUFFICES ASSUME NEW d \in Conns, conn'[d] = "open"
               PROVE  d \in Registered' \union addFailed'
    BY DEF RegistryComplete
  <2>1. d # c /\ conn[d] = "open"
    BY DEF IInv, TypeOK
  <2>2. d \in Registered \/ d \in addFailed
    BY <2>1 DEF IInv, RegistryComplete
  <2>3. CASE d \in Registered
    <3>1. PICK i \in DOMAIN connections' : connections'[i] = d
      BY <1>2, <2>1, <2>3
    <3> QED
      BY <3>1 DEF Registered
  <2>4. CASE d \in addFailed
    BY <2>1, <2>4
  <2> QED
    BY <2>2, <2>3, <2>4
<1>6. StoresInBounds'
  <2>1. Len(connections) \in Nat /\ Len(connections') \in Nat
    BY <1>1, <1>2, LenProperties
  <2> QED
    BY <1>2, <2>1 DEF IInv, TypeOK, StoresInBounds
<1>7. CloseCount' /\ WriteTargetAllocated'
  BY DEF IInv, TypeOK, CloseCount, WriteTargetAllocated, Allocated
<1>8. ReadPhase' /\ OthersEmpty'
  BY DEF IInv, TypeOK, ReadPhase, OthersEmpty, readVars, serverVars
<1>9. LastStates'
  BY DEF IInv, TypeOK, LastStates, NothingPendingAfterFree, serverVars
<1> QED
  BY <1>3, <1>4, <1>5, <1>6, <1>7, <1>8, <1>9 DEF IInv

\* The callbacks that close a handle and change nothing else but its writes.
LEMMA ClosingInv ==
    ASSUME IInv, NEW c \in Conns,
           OnConnectFail(c) \/ OnReadFail(c) \/ OnWriteFail(c) \/ OnWriteOk(c) \/ OnHandleClose(c)
    PROVE  IInv'
<1> USE DEF IInv, TypeOK
<1>a. /\ UNCHANGED <<buffer_len, buffer_cap, regVars, readVars, serverVars>>
      /\ pc = "idle" /\ loop \in {"running", "stopping", "draining"}
      /\ \/ writes' = writes
         \/ writes[c] > 0 /\ writes' = [writes EXCEPT ![c] = @ - 1]
      /\ \/ UNCHANGED <<conn, uvCloses>>
         \/ /\ conn[c] \in {"none", "open"} /\ writes[c] \in Nat
            /\ conn[c] = "none" => loop # "draining" /\ writes' = writes
            /\ conn' = [conn EXCEPT ![c] = "closing"]
            /\ uvCloses' = [uvCloses EXCEPT ![c] = @ + 1]
         \/ /\ conn[c] = "walked" /\ writes[c] = 0 /\ writes' = writes
            /\ conn' = [conn EXCEPT ![c] = "leaked"] /\ uvCloses' = uvCloses
  <2>1. CASE OnConnectFail(c)
    BY <2>1 DEF OnConnectFail, UvClose, Polling
  <2>2. CASE OnReadFail(c)
    BY <2>2 DEF OnReadFail, UvClose, Polling
  <2>3. CASE OnWriteFail(c)
    <3>1. conn[c] # "none"
      BY <2>3 DEF OnWriteFail, WriteTargetAllocated, Allocated
    <3>2. IsClosing(c) \/ conn[c] = "open"
      BY <3>1 DEF IsClosing, ConnStates
    <3> QED
      BY <2>3, <3>2 DEF OnWriteFail, UvClose, Calling
  <2>4. CASE OnWriteOk(c)
    BY <2>4 DEF OnWriteOk, Polling
  <2>5. CASE OnHandleClose(c)
    BY <2>5 DEF OnHandleClose, Calling
  <2> QED
    BY <2>1, <2>2, <2>3, <2>4, <2>5
<1>1. conn' \in [Conns -> ConnStates] /\ uvCloses' \in [Conns -> Nat] /\ writes' \in [Conns -> Nat]
  <2>1. conn' \in [Conns -> ConnStates]
    BY <1>a DEF ConnStates
  <2>2. uvCloses' \in [Conns -> Nat]
    <3>1. uvCloses[c] + 1 \in Nat
      OBVIOUS
    <3>2. uvCloses' = uvCloses \/ uvCloses' = [uvCloses EXCEPT ![c] = uvCloses[c] + 1]
      BY <1>a
    <3> QED
      BY <3>1, <3>2
  <2>3. writes' \in [Conns -> Nat]
    <3>1. CASE writes' = writes
      BY <3>1
    <3>2. CASE writes[c] > 0 /\ writes' = [writes EXCEPT ![c] = writes[c] - 1]
      <4>1. writes[c] - 1 \in Nat
        BY <3>2
      <4> QED
        BY <3>2, <4>1
    <3> QED
      BY <1>a, <3>1, <3>2
  <2> QED
    BY <2>1, <2>2, <2>3
<1>2. /\ RegistrySound'
      /\ RegistryComplete'
      /\ connections' \in Seq(Conns) /\ conn_cap' \in Nat /\ addFailed' \in SUBSET Conns
      /\ Len(connections') <= conn_cap'
  <2>1. UNCHANGED regVars
    BY <1>a
  <2>2. \A d \in Conns : conn[d] # "none" => conn'[d] # "none"
    BY <1>a
  <2>3. \A d \in Conns : conn'[d] = "open" => conn[d] = "open"
    BY <1>a
  <2> QED
    BY <1>1, <2>1, <2>2, <2>3, RegistryKept
<1>3. TypeOK'
  BY <1>a, <1>1, <1>2 DEF readVars, serverVars
<1>4. StoresInBounds'
  BY <1>a, <1>2 DEF StoresInBounds
<1>5. CloseCount'
  <2> SUFFICES ASSUME NEW d \in Conns
               PROVE  uvCloses'[d] = IF conn'[d] \in {"none", "open"} THEN 0 ELSE 1
    BY DEF CloseCount
  <2>1. uvCloses[d] = IF conn[d] \in {"none", "open"} THEN 0 ELSE 1
    BY DEF CloseCount
  <2>2. CASE d = c
    BY <1>a, <2>1, <2>2
  <2>3. CASE d # c
    BY <1>a, <2>1, <2>3
  <2> QED
    BY <2>2, <2>3
<1>6. WriteTargetAllocated'
  BY <1>a DEF WriteTargetAllocated, Allocated
<1>7. ReadPhase' /\ OthersEmpty'
  BY <1>a DEF ReadPhase, OthersEmpty, readVars, serverVars
<1>8. LastStates'
  <2>1. loop' \in {"draining", "freed"} => \A d \in Conns : conn'[d] # "open"
    BY <1>a DEF LastStates, serverVars
  <2>2. \A d \in Conns : conn'[d] = "leaked" => writes'[d] = 0
    <3> TAKE d \in Conns
    <3>1. conn[d] = "leaked" => writes[d] = 0
      BY DEF LastStates
    <3>2. CASE d = c
      BY <1>a, <3>1, <3>2
    <3>3. CASE d # c
      BY <1>a, <3>1, <3>3
    <3> QED
      BY <3>2, <3>3
  <2>3. loop' # "freed"
    BY <1>a DEF serverVars
  <2> QED
    BY <2>1, <2>2, <2>3 DEF LastStates, NothingPendingAfterFree
<1> QED
  BY <1>2, <1>3, <1>4, <1>5, <1>6, <1>7, <1>8

\* haze_on_read as far as its loop: one read's bytes on top of an empty buffer.
LEMMA OnReadInv ==
    ASSUME IInv, NEW c \in Conns, NEW nread \in 1 .. ReadMax, OnRead(c, nread)
    PROVE  IInv'
<1> USE ConstantsAssumption DEF IInv, TypeOK
<1> DEFINE new_len == buffer_len[c] + nread
<1>1. /\ pc = "idle" /\ loop \in {"running", "stopping"} /\ conn[c] = "open"
      /\ buffer_len' = [buffer_len EXCEPT ![c] = new_len]
      /\ pc' = "dispatch" /\ cur' = c
      /\ UNCHANGED <<conn, uvCloses, writes, regVars, db, pos, serverVars>>
  BY DEF OnRead, Polling
<1>2. buffer_len[c] = 0
  BY <1>1 DEF OthersEmpty
<1>3. new_len \in Nat /\ new_len <= ReadMax
  BY <1>2
<1> HIDE DEF new_len
<1>4. buffer_cap' \in [Conns -> Nat] /\ \A d \in Conns : buffer_len'[d] <= buffer_cap'[d]
  <2>1. CASE new_len <= buffer_cap[c] /\ buffer_cap' = buffer_cap
    BY <1>1, <1>3, <2>1 DEF StoresInBounds
  <2>2. ASSUME NEW cap \in 1 .. 2 * new_len + BufferFirst,
               IsBufferCap(cap, buffer_cap[c], new_len),
               buffer_cap' = [buffer_cap EXCEPT ![c] = cap]
        PROVE  buffer_cap' \in [Conns -> Nat] /\ \A d \in Conns : buffer_len'[d] <= buffer_cap'[d]
    <3>1. cap \in Nat /\ new_len <= cap
      BY <1>3, <2>2 DEF IsBufferCap
    <3> QED
      BY <1>1, <1>3, <2>2, <3>1 DEF StoresInBounds
  <2> QED
    BY <2>1, <2>2 DEF OnRead, new_len
<1>5. /\ RegistrySound'
      /\ RegistryComplete'
      /\ connections' \in Seq(Conns) /\ conn_cap' \in Nat /\ addFailed' \in SUBSET Conns
      /\ Len(connections') <= conn_cap'
  BY <1>1, RegistryKept
<1>6. TypeOK'
  BY <1>1, <1>3, <1>4, <1>5 DEF serverVars
<1>7. StoresInBounds'
  BY <1>4, <1>5 DEF StoresInBounds
<1>8. CloseCount' /\ WriteTargetAllocated'
  BY <1>1 DEF CloseCount, WriteTargetAllocated, Allocated
<1>9. ReadPhase' /\ OthersEmpty'
  BY <1>1, <1>3 DEF ReadPhase, OthersEmpty, serverVars
<1>10. LastStates'
  BY <1>1 DEF LastStates, NothingPendingAfterFree, serverVars
<1> QED
  BY <1>5, <1>6, <1>7, <1>8, <1>9, <1>10

\* haze_send keeps the write counts and never queues on a closing handle.
LEMMA SendEffect ==
    ASSUME writes \in [Conns -> Nat], NEW c \in Conns, haze_send(c)
    PROVE  /\ writes' \in [Conns -> Nat]
           /\ \A d \in Conns : writes'[d] > 0 => writes[d] > 0 \/ (~IsClosing(c) /\ d = c)
           /\ \A d \in Conns : IsClosing(d) => writes'[d] = writes[d]
<1>1. CASE writes' = writes
  BY <1>1
<1>2. CASE ~IsClosing(c) /\ writes' = [writes EXCEPT ![c] = writes[c] + 1]
  <2>1. writes[c] + 1 \in Nat
    OBVIOUS
  <2>2. writes' \in [Conns -> Nat]
    BY <1>2, <2>1
  <2>3. \A d \in Conns : d # c => writes'[d] = writes[d]
    BY <1>2
  <2> QED
    BY <1>2, <2>2, <2>3
<1> QED
  BY <1>1, <1>2 DEF haze_send

\* The steps of the loop of haze_on_read that keep the connection open.
LEMMA LoopKeepsOpenInv ==
    ASSUME IInv, pc \in {"dispatch", "broadcast", "consume"},
           UNCHANGED <<conn, uvCloses, buffer_cap, regVars, cur, serverVars>>,
           writes' \in [Conns -> Nat], \A d \in Conns : writes'[d] > 0 => Allocated(d),
           \A d \in Conns : IsClosing(d) => writes'[d] = writes[d],
           db' \in DispatchBytes, pos' \in Nat \ {0},
           buffer_len' \in [Conns -> Nat],
           \A d \in Conns : buffer_len'[d] <= buffer_len[d],
           pc' \in {"dispatch", "broadcast", "consume", "check"},
           pc' = "check" => buffer_len'[cur] = 0
    PROVE  IInv'
<1> USE ConstantsAssumption DEF IInv, TypeOK
<1>1. cur \in Conns /\ loop \in {"running", "stopping"} /\ buffer_len[cur] <= ReadMax /\ conn[cur] = "open"
  BY DEF ReadPhase
<1>2. /\ RegistrySound'
      /\ RegistryComplete'
      /\ connections' \in Seq(Conns) /\ conn_cap' \in Nat /\ addFailed' \in SUBSET Conns
      /\ Len(connections') <= conn_cap'
  BY RegistryKept
<1>3. TypeOK'
  BY <1>2 DEF serverVars
<1>4. StoresInBounds'
  BY <1>2 DEF StoresInBounds
<1>5. CloseCount' /\ WriteTargetAllocated'
  BY DEF CloseCount, WriteTargetAllocated, Allocated
<1>6. ReadPhase'
  BY <1>1 DEF ReadPhase, serverVars
<1>7. OthersEmpty'
  BY <1>1 DEF OthersEmpty
<1>8. LastStates'
  BY <1>1 DEF LastStates, NothingPendingAfterFree, IsClosing, serverVars
<1> QED
  BY <1>2, <1>3, <1>4, <1>5, <1>6, <1>7, <1>8

\* The steps of the loop that close the connection and leave the loop.
LEMMA LoopClosesInv ==
    ASSUME IInv, pc \in {"dispatch", "broadcast", "consume"}, UvClose(cur), pc' = "check",
           db' \in DispatchBytes, pos' \in Nat \ {0},
           UNCHANGED <<buffer_len, buffer_cap, writes, regVars, cur, serverVars>>
    PROVE  IInv'
<1> USE ConstantsAssumption DEF IInv, TypeOK
<1>1. cur \in Conns /\ loop \in {"running", "stopping"} /\ buffer_len[cur] <= ReadMax /\ conn[cur] = "open"
  BY DEF ReadPhase
<1>2. conn' = [conn EXCEPT ![cur] = "closing"] /\ uvCloses' = [uvCloses EXCEPT ![cur] = uvCloses[cur] + 1]
  BY DEF UvClose
<1>3. conn' \in [Conns -> ConnStates] /\ uvCloses' \in [Conns -> Nat]
  BY <1>1, <1>2 DEF ConnStates
<1>4. /\ RegistrySound'
      /\ RegistryComplete'
      /\ connections' \in Seq(Conns) /\ conn_cap' \in Nat /\ addFailed' \in SUBSET Conns
      /\ Len(connections') <= conn_cap'
  BY <1>1, <1>2, <1>3, RegistryKept
<1>5. TypeOK'
  BY <1>3, <1>4 DEF serverVars
<1>6. StoresInBounds'
  BY <1>4 DEF StoresInBounds
<1>7. CloseCount' /\ WriteTargetAllocated'
  BY <1>1, <1>2 DEF CloseCount, WriteTargetAllocated, Allocated
<1>8. ReadPhase' /\ OthersEmpty'
  BY <1>1, <1>2 DEF ReadPhase, OthersEmpty, serverVars
<1>9. LastStates'
  BY <1>1, <1>2 DEF LastStates, NothingPendingAfterFree, serverVars
<1> QED
  BY <1>4, <1>5, <1>6, <1>7, <1>8, <1>9

\* One call of ServerDispatch: the connection is closed, or answered.
LEMMA DispatchInv ==
    ASSUME IInv, NEW r \in DispatchBytes, Dispatch(r)
    PROVE  IInv'
<1> USE DEF IInv, TypeOK
<1>1. pc = "dispatch" /\ cur \in Conns /\ conn[cur] = "open"
  BY DEF Dispatch, ReadPhase
<1>2. CASE ~r.ok
  BY <1>1, <1>2, LoopClosesInv DEF Dispatch
<1>3. CASE r.ok
  <2>1. /\ UNCHANGED <<conn, uvCloses, buffer_len, buffer_cap, regVars, cur, serverVars>>
        /\ db' = r /\ pos' = 1 /\ pc' \in {"broadcast", "consume"}
        /\ haze_send(cur) \/ writes' = writes
    BY <1>3 DEF Dispatch
  <2>2. /\ writes' \in [Conns -> Nat]
        /\ \A d \in Conns : writes'[d] > 0 => Allocated(d)
        /\ \A d \in Conns : IsClosing(d) => writes'[d] = writes[d]
    <3>1. CASE writes' = writes
      BY <3>1 DEF WriteTargetAllocated
    <3>2. CASE haze_send(cur)
      BY <1>1, <3>2, SendEffect DEF WriteTargetAllocated, Allocated
    <3> QED
      BY <2>1, <3>1, <3>2
  <2>3. /\ db' \in DispatchBytes /\ pos' \in Nat \ {0} /\ buffer_len' \in [Conns -> Nat]
        /\ \A d \in Conns : buffer_len'[d] <= buffer_len[d]
        /\ pc' \in {"dispatch", "broadcast", "consume", "check"} /\ pc' # "check"
    BY <2>1
  <2>4. IInv /\ pc \in {"dispatch", "broadcast", "consume"}
    BY <1>1
  <2> QED
    BY ONLY <2>1, <2>2, <2>3, <2>4, LoopKeepsOpenInv
<1> QED
  BY <1>2, <1>3

\* The registry holds allocated connections only, so every target of the
\* broadcast is one.
LEMMA BroadcastInv ==
    ASSUME IInv, Broadcast
    PROVE  IInv'
<1> USE DEF IInv, TypeOK
<1>1. pc = "broadcast" /\ UNCHANGED <<conn, uvCloses, buffer_len, buffer_cap, regVars, cur, db, serverVars>>
  BY DEF Broadcast
<1>a. pos + 1 \in Nat \ {0} /\ \A d \in Conns : buffer_len[d] <= buffer_len[d]
  OBVIOUS
<1>2. CASE pos <= Len(connections) /\ haze_send(connections[pos]) /\ pos' = pos + 1 /\ pc' = pc
  <2>1. pos \in DOMAIN connections /\ connections[pos] \in Conns
    BY <1>2, ElementOfSeq, LenProperties
  <2>2. Allocated(connections[pos])
    BY <2>1 DEF RegistrySound
  <2>3. /\ writes' \in [Conns -> Nat]
        /\ \A d \in Conns : writes'[d] > 0 => Allocated(d)
        /\ \A d \in Conns : IsClosing(d) => writes'[d] = writes[d]
    BY <1>2, <2>1, <2>2, SendEffect DEF WriteTargetAllocated
  <2> QED
    BY <1>1, <1>2, <1>a, <2>3, LoopKeepsOpenInv
<1>3. CASE pc' = "consume" /\ UNCHANGED <<writes, pos>>
  BY <1>1, <1>3, <1>a, LoopKeepsOpenInv DEF WriteTargetAllocated
<1> QED
  BY <1>2, <1>3 DEF Broadcast

\* The consumed bytes leave the buffer, or a count out of range closes.
LEMMA ConsumeInv ==
    ASSUME IInv, Consume
    PROVE  IInv'
<1> USE DEF IInv, TypeOK
<1>1. /\ pc = "consume" /\ db' = NoBytes /\ pos' = 1
      /\ UNCHANGED <<buffer_cap, writes, regVars, cur, serverVars>>
      /\ NoBytes \in DispatchBytes
  BY DEF Consume, DispatchBytes
<1>2. cur \in Conns /\ conn[cur] = "open"
  BY <1>1 DEF ReadPhase
<1>3. CASE db.consumed = 0 \/ db.consumed > buffer_len[cur]
  BY <1>1, <1>3, LoopClosesInv DEF Consume
<1>4. CASE ~(db.consumed = 0 \/ db.consumed > buffer_len[cur])
  <2>1. /\ buffer_len' = [buffer_len EXCEPT ![cur] = buffer_len[cur] - db.consumed]
        /\ pc' = IF buffer_len[cur] > db.consumed THEN "dispatch" ELSE "check"
        /\ UNCHANGED <<conn, uvCloses>>
    BY <1>4 DEF Consume
  <2>2. db.consumed \in Nat
    <3>1. CASE db = NoBytes
      BY <3>1 DEF NoBytes
    <3>2. CASE db \in [ok : {TRUE}, response : BOOLEAN, notification : BOOLEAN,
                       consumed : 0 .. ReadMax + 1]
      <4>1. db.consumed \in 0 .. ReadMax + 1
        BY <3>2
      <4> QED
        BY <4>1, ConstantsAssumption
    <3> QED
      BY <3>1, <3>2 DEF DispatchBytes
  <2>3. buffer_len[cur] \in Nat /\ buffer_len[cur] - db.consumed \in 0 .. buffer_len[cur]
    BY <1>2, <1>4, <2>2
  <2>4. buffer_len' \in [Conns -> Nat] /\ \A d \in Conns : buffer_len'[d] <= buffer_len[d]
    <3>1. PICK m \in 0 .. buffer_len[cur] : buffer_len' = [buffer_len EXCEPT ![cur] = m]
      BY <2>1, <2>3
    <3> QED
      BY <1>2, <2>3, <3>1
  <2>5. pc' \in {"dispatch", "check"} /\ (pc' = "check" => buffer_len'[cur] = 0)
    BY <1>2, <2>1, <2>2, <2>3
  <2>6. /\ writes' \in [Conns -> Nat]
        /\ \A d \in Conns : writes'[d] > 0 => Allocated(d)
        /\ \A d \in Conns : IsClosing(d) => writes'[d] = writes[d]
    BY <1>1 DEF WriteTargetAllocated
  <2>7. /\ IInv /\ pc \in {"dispatch", "broadcast", "consume"}
        /\ UNCHANGED <<conn, uvCloses, buffer_cap, regVars, cur, serverVars>>
        /\ db' \in DispatchBytes /\ pos' \in Nat \ {0}
        /\ pc' \in {"dispatch", "broadcast", "consume", "check"}
    BY <1>1, <2>1, <2>5
  <2> QED
    BY ONLY <2>4, <2>5, <2>6, <2>7, LoopKeepsOpenInv
<1> QED
  BY <1>3, <1>4

\* The backlog check never closes: what is left is at most one read.
LEMMA CheckBacklogInv ==
    ASSUME IInv, CheckBacklog
    PROVE  IInv' /\ UNCHANGED <<conn, uvCloses>>
<1> USE ConstantsAssumption, ReadFitsAssumption DEF IInv, TypeOK
<1>1. pc = "check" /\ cur \in Conns /\ buffer_len[cur] <= ReadMax /\ loop \in {"running", "stopping"}
  BY DEF CheckBacklog, ReadPhase
<1>2. ~(buffer_len[cur] > BufferLimit)
  BY <1>1
<1>3. /\ UNCHANGED <<conn, uvCloses, buffer_len, buffer_cap, writes, regVars, db, pos, serverVars>>
      /\ pc' = "idle" /\ cur' = NoConn
  BY <1>2 DEF CheckBacklog
<1>4. /\ RegistrySound'
      /\ RegistryComplete'
      /\ connections' \in Seq(Conns) /\ conn_cap' \in Nat /\ addFailed' \in SUBSET Conns
      /\ Len(connections') <= conn_cap'
  BY <1>3, RegistryKept
<1>5. TypeOK'
  BY <1>3, <1>4 DEF serverVars
<1>6. CloseCount' /\ WriteTargetAllocated' /\ StoresInBounds'
  BY <1>3, <1>4 DEF CloseCount, WriteTargetAllocated, Allocated, StoresInBounds
<1>7. ReadPhase' /\ LastStates'
  BY <1>3 DEF ReadPhase, LastStates, NothingPendingAfterFree, serverVars
<1>8. OthersEmpty'
  <2>1. conn[cur] = "open" => buffer_len[cur] = 0
    BY <1>1 DEF ReadPhase
  <2>2. conn[cur] # "none"
    BY <1>1 DEF ReadPhase
  <2> QED
    BY <1>1, <1>3, <2>1, <2>2 DEF OthersEmpty
<1> QED
  BY <1>3, <1>4, <1>5, <1>6, <1>7, <1>8

\* The life of the loop: signal, return of uv_run, walk, drain, free.
LEMMA LoopLifeInv ==
    ASSUME IInv,
           OnConnectNoMem \/ OnSignal \/ RunReturns \/ CloseWalk \/ OnListenerClose
           \/ ServerFree \/ UNCHANGED vars
    PROVE  IInv'
<1> USE DEF IInv, TypeOK
<1>1. CASE CloseWalk
  <2> USE DEF CloseWalk
  <2>1. /\ loop = "stopped" /\ pc = "idle"
        /\ UNCHANGED <<buffer_len, buffer_cap, writes, regVars, readVars>>
        /\ listener' = "closing" /\ loop' = "draining"
        /\ conn' = [c \in Conns |-> IF conn[c] = "open" THEN "walked" ELSE conn[c]]
        /\ uvCloses' = [c \in Conns |-> IF conn[c] = "open" THEN uvCloses[c] + 1 ELSE uvCloses[c]]
    BY <1>1 DEF ReadPhase
  <2>2. conn' \in [Conns -> ConnStates] /\ uvCloses' \in [Conns -> Nat]
    BY <2>1 DEF ConnStates
  <2>3. /\ RegistrySound'
        /\ RegistryComplete'
        /\ connections' \in Seq(Conns) /\ conn_cap' \in Nat /\ addFailed' \in SUBSET Conns
        /\ Len(connections') <= conn_cap'
    BY <2>1, <2>2, RegistryKept
  <2>4. TypeOK' /\ StoresInBounds'
    BY <2>1, <2>2, <2>3 DEF readVars, LoopStates, ListenerStates, StoresInBounds
  <2>5. CloseCount' /\ WriteTargetAllocated'
    BY <2>1 DEF CloseCount, WriteTargetAllocated, Allocated
  <2>6. ReadPhase' /\ OthersEmpty' /\ LastStates'
    BY <2>1 DEF ReadPhase, OthersEmpty, LastStates, NothingPendingAfterFree, readVars
  <2> QED
    BY <2>3, <2>4, <2>5, <2>6
<1>2. CASE OnConnectNoMem \/ OnSignal \/ RunReturns \/ OnListenerClose \/ ServerFree \/ UNCHANGED vars
  <2>1. /\ UNCHANGED <<connVars, regVars, readVars>>
        /\ loop' \in LoopStates /\ listener' \in ListenerStates
        /\ loop' = loop \/ (pc = "idle" /\ loop' # "freed" /\ loop' # "draining") \/ ServerFree
        /\ loop = "freed" => listener' = listener
        /\ ServerFree => loop' = "freed" /\ listener' = "closed" /\ loop = "draining"
    BY <1>2 DEF OnConnectNoMem, OnSignal, RunReturns, OnListenerClose, ServerFree, Polling, Calling,
                vars, serverVars, LoopStates, ListenerStates
  <2>2. /\ RegistrySound'
        /\ RegistryComplete'
        /\ connections' \in Seq(Conns) /\ conn_cap' \in Nat /\ addFailed' \in SUBSET Conns
        /\ Len(connections') <= conn_cap'
    BY <2>1, RegistryKept DEF connVars
  <2>3. TypeOK' /\ StoresInBounds'
    BY <2>1, <2>2 DEF connVars, readVars, StoresInBounds
  <2>4. CloseCount' /\ WriteTargetAllocated' /\ OthersEmpty'
    BY <2>1 DEF CloseCount, WriteTargetAllocated, Allocated, OthersEmpty, connVars, readVars
  <2>5. ReadPhase'
    BY <2>1 DEF ReadPhase, connVars, readVars
  <2>6. LastStates'
    BY <2>1 DEF LastStates, NothingPendingAfterFree, ServerFree, connVars
  <2> QED
    BY <2>2, <2>3, <2>4, <2>5, <2>6
<1> QED
  BY <1>1, <1>2

\* Every step of the server keeps the invariant: one case per callback.
LEMMA NextInv == IInv /\ [Next]_vars => IInv'
<1> SUFFICES ASSUME IInv, [Next]_vars PROVE IInv'
  OBVIOUS
<1>1. ASSUME NEW c \in Conns, OnConnect(c) PROVE IInv'
  BY <1>1, OnConnectInv
<1>2. ASSUME NEW c \in Conns, NEW nread \in 1 .. ReadMax, OnRead(c, nread) PROVE IInv'
  BY <1>2, OnReadInv
<1>3. ASSUME NEW c \in Conns, OnClose(c) PROVE IInv'
  BY <1>3, CloseCallbackInv
<1>4. ASSUME NEW c \in Conns,
             OnConnectFail(c) \/ OnReadFail(c) \/ OnWriteFail(c) \/ OnWriteOk(c) \/ OnHandleClose(c)
      PROVE  IInv'
  BY <1>4, ClosingInv
<1>5. CASE ReadLoop
  BY <1>5, DispatchInv, BroadcastInv, ConsumeInv, CheckBacklogInv DEF ReadLoop
<1>6. CASE OnConnectNoMem \/ OnSignal \/ RunReturns \/ CloseWalk \/ OnListenerClose
           \/ ServerFree \/ UNCHANGED vars
  BY <1>6, LoopLifeInv
<1> QED
  BY <1>1, <1>2, <1>3, <1>4, <1>5, <1>6 DEF Next, Done

-----------------------------------------------------------------------------
(* The theorems.                                                           *)

\* The invariant holds in every state of the server.
THEOREM InductiveInvariant == Spec => []IInv
<1>1. Init => IInv
  BY InitInv
<1>2. IInv /\ [Next]_vars => IInv'
  BY NextInv
<1> QED
  BY <1>1, <1>2, PTL DEF Spec

\* Every variable of the server keeps its type (HazeServer.h's structures).
THEOREM TypeCorrect == Spec => []TypeOK
<1>1. IInv => TypeOK
  BY DEF IInv
<1> QED
  BY <1>1, InductiveInvariant, PTL

\* HazeServerBroadcast and HazeServerRemoveConnection only ever touch
\* allocated connections, each listed once, and the registry has every
\* connection the server reads from whose registration did not fail.
THEOREM RegistryCorrect == Spec => [](RegistrySound /\ RegistryComplete)
<1>1. IInv => RegistrySound /\ RegistryComplete
  BY DEF IInv
<1> QED
  BY <1>1, InductiveInvariant, PTL

\* No handle is closed twice, whichever of the five places in HazeServer.c
\* closes it first.
THEOREM ClosedAtMostOnce == Spec => []CloseOnce
<1>1. IInv => CloseOnce
  <2> SUFFICES ASSUME IInv, NEW c \in Conns PROVE uvCloses[c] <= 1
    BY DEF CloseOnce
  <2>1. uvCloses[c] = 0 \/ uvCloses[c] = 1
    BY DEF IInv, CloseCount
  <2> QED
    BY <2>1
<1> QED
  BY <1>1, InductiveInvariant, PTL

\* haze_on_read returns with an empty buffer or a closing connection.
THEOREM ReadsKeepNothing == Spec => []NothingKeptBetweenReads
<1>1. IInv => NothingKeptBetweenReads
  BY DEF IInv, OthersEmpty, NothingKeptBetweenReads
<1> QED
  BY <1>1, InductiveInvariant, PTL

\* haze_on_write and the sends of the dispatcher: a write that is pending
\* points to a connection that is allocated, and nothing is due after
\* HazeServerFree.
THEOREM CallbacksSafe == Spec => [](WriteTargetAllocated /\ NothingPendingAfterFree)
<1>1. IInv => WriteTargetAllocated /\ NothingPendingAfterFree
  BY DEF IInv, LastStates
<1> QED
  BY <1>1, InductiveInvariant, PTL

\* The memcpy of haze_on_read into the buffer it has grown, and the append of
\* haze_on_connect to the registry it has grown, stay inside the arrays.
THEOREM StoresStayInBounds == Spec => []StoresInBounds
<1>1. IInv => StoresInBounds
  BY DEF IInv
<1> QED
  BY <1>1, InductiveInvariant, PTL

\* Disconnecting one client never unregisters another, and never leaves the
\* one that is freed registered: the swap with the last entry is correct.
THEOREM LeavingIsFreeing == Spec => LeavesOnlyWhenFreed
<1> DEFINE Leaves ==
        \A c \in Conns : c \in Registered /\ c \notin Registered' => Allocated(c) /\ conn'[c] = "none"
<1>1. IInv /\ [Next]_vars => [Leaves]_vars
  <2> SUFFICES ASSUME IInv, [Next]_vars, NEW d \in Conns, d \in Registered, d \notin Registered'
               PROVE  Allocated(d) /\ conn'[d] = "none"
    OBVIOUS
  <2>1. connections' # connections
    BY DEF Registered
  <2>2. PICK c \in Conns : OnConnect(c) \/ OnClose(c)
    BY <2>1 DEF Next, OnConnectFail, OnReadFail, OnRead, OnWriteOk, OnWriteFail, OnHandleClose,
                OnConnectNoMem, ReadLoop, Dispatch, Broadcast, Consume, CheckBacklog, OnSignal,
                RunReturns, CloseWalk, OnListenerClose, ServerFree, Done, vars, regVars
  <2>3. ~OnConnect(c)
    <3> SUFFICES ASSUME OnConnect(c) PROVE FALSE
      OBVIOUS
    <3>1. c \notin Registered
      BY DEF OnConnect, IInv, RegistrySound, Registered, Allocated
    <3>2. Registered \subseteq Registered'
      BY <3>1, AddConnection DEF IInv, OnConnect
    <3> QED
      BY <3>2
  <2>4. OnClose(c)
    BY <2>2, <2>3
  <2>5. connections' = WithoutConn(c) /\ conn[c] = "closing" /\ conn'[c] = "none"
    BY <2>4 DEF OnClose, IInv, TypeOK
  <2>6. d = c
    <3> SUFFICES ASSUME d # c PROVE FALSE
      OBVIOUS
    <3>1. PICK i \in DOMAIN WithoutConn(c) : WithoutConn(c)[i] = d
      BY SwapRemove DEF IInv, TypeOK
    <3> QED
      BY <2>5, <3>1 DEF Registered
  <2> QED
    BY <2>5, <2>6 DEF Allocated
<1> QED
  BY <1>1, InductiveInvariant, PTL DEF Spec, LeavesOnlyWhenFreed

-----------------------------------------------------------------------------
(* The refinement: each callback, each step of haze_on_read, is a step of  *)
(* ConnectionSpec or leaves what it talks about alone.                     *)

\* What the clients see of every connection.
Lives == [c \in Conns |-> LifeOf(c)]

\* A step that touches neither the lives of the connections, nor the registry,
\* nor a broadcast, nor the end of the server is a stutter.
LEMMA StutterMaps ==
    ASSUME connections' = connections,
           \A c \in Conns : LifeOf(c)' = LifeOf(c),
           ToSend' = ToSend, ServerOf' = ServerOf
    PROVE  UNCHANGED Peers!vars
BY DEF Peers!vars, Registered

\* The callbacks that change the life of one connection and not the registry:
\* accept and close it, or close it.
LEMMA LifeMaps ==
    ASSUME IInv, NEW c \in Conns, NEW s \in {"none", "open"}, conn[c] = s,
           conn' = [conn EXCEPT ![c] = "closing"],
           UNCHANGED <<connections, loop>>, pc # "broadcast", pc' # "broadcast",
           loop # "freed", s = "none" => loop # "draining"
    PROVE  Peers!Next
<1>1. Lives' = [Lives EXCEPT ![c] = "closing"]
  BY DEF Lives, LifeOf, IInv, TypeOK
<1>2. ToSend = {} /\ ToSend' = {} /\ Registered' = Registered /\ ServerOf' = ServerOf
  BY DEF ToSend, Registered, ServerOf
<1>3. ServerOf # "over" /\ (s = "none" => ServerOf = "up") /\ Lives[c] = s
  BY DEF ServerOf, Lives, LifeOf, IInv, TypeOK, LoopStates
<1>4. Peers!Refuse(c) \/ Peers!Close(c)
  BY <1>1, <1>2, <1>3 DEF Peers!Refuse, Peers!Close, Peers!Free, Lives
<1> QED
  BY <1>4 DEF Peers!Next

\* haze_on_connect: an accepted connection becomes a member, or memory for the
\* array ran out.
LEMMA OnConnectMaps ==
    ASSUME IInv, NEW c \in Conns, OnConnect(c)
    PROVE  Peers!Next
<1> USE DEF OnConnect, Polling
<1>1. c \notin Registered
  BY DEF IInv, RegistrySound, Registered, Allocated
<1>2. /\ \A i \in DOMAIN connections' : connections'[i] = c \/ connections'[i] \in Registered
      /\ Registered \subseteq Registered'
  BY <1>1, AddConnection DEF IInv
<1>3. Registered' \in {Registered, Registered \union {c}}
  <2>1. Registered' \subseteq Registered \union {c}
    BY <1>2 DEF Registered
  <2> QED
    BY <1>2, <2>1
<1>4. Lives' = [Lives EXCEPT ![c] = "open"] /\ Lives[c] = "none"
  BY DEF Lives, LifeOf, IInv, TypeOK
<1>5. ToSend = {} /\ ToSend' = {} /\ ServerOf = "up" /\ ServerOf' = "up"
  BY DEF ToSend, ServerOf, readVars, serverVars
<1>6. Peers!Accept(c)
  BY <1>3, <1>4, <1>5 DEF Peers!Accept, Peers!Free, Lives
<1> QED
  BY <1>6 DEF Peers!Next

\* haze_on_close: the connection that is freed leaves the members, alone.
LEMMA OnCloseMaps ==
    ASSUME IInv, NEW c \in Conns, OnClose(c)
    PROVE  Peers!Next
<1> USE DEF OnClose, Calling
<1>1. connections \in Seq(Conns) /\ RegistrySound
  BY DEF IInv, TypeOK
<1>2. /\ \A i \in DOMAIN connections' : connections'[i] # c /\ connections'[i] \in Registered
      /\ \A d \in Registered : d # c => \E i \in DOMAIN connections' : connections'[i] = d
  BY <1>1, SwapRemove
<1>3. Registered' = Registered \ {c}
  <2>1. Registered' \subseteq Registered \ {c}
    BY <1>2 DEF Registered
  <2>2. ASSUME NEW d \in Registered \ {c} PROVE d \in Registered'
    <3>1. PICK i \in DOMAIN connections' : connections'[i] = d
      BY <1>2
    <3> QED
      BY <3>1 DEF Registered
  <2> QED
    BY <2>1, <2>2
<1>4. Lives' = [Lives EXCEPT ![c] = "none"] /\ Lives[c] = "closing"
  BY DEF Lives, LifeOf, IInv, TypeOK
<1>5. ToSend = {} /\ ToSend' = {} /\ ServerOf' = ServerOf /\ ServerOf # "over"
  BY DEF ToSend, ServerOf, readVars, serverVars
<1>6. Peers!Gone(c)
  BY <1>3, <1>4, <1>5 DEF Peers!Gone, Peers!Free, Lives
<1> QED
  BY <1>6 DEF Peers!Next

\* ServerDispatch refuses and the connection is closed; or its answer starts a
\* broadcast to every member; or nothing is seen of it.
LEMMA DispatchMaps ==
    ASSUME IInv, NEW r \in DispatchBytes, Dispatch(r)
    PROVE  Peers!Next \/ UNCHANGED Peers!vars
<1>1. /\ pc = "dispatch" /\ cur \in Conns /\ conn[cur] = "open" /\ loop \in {"running", "stopping"}
      /\ UNCHANGED <<connections, cur, loop>>
  BY DEF Dispatch, IInv, ReadPhase, regVars, serverVars
<1>2. CASE ~r.ok
  BY <1>1, <1>2, LifeMaps DEF Dispatch, UvClose
<1>3. CASE r.ok /\ ~r.notification
  <2>1. conn' = conn /\ pc' = "consume"
    BY <1>3 DEF Dispatch
  <2>2. ToSend = {} /\ ToSend' = {} /\ ServerOf' = ServerOf
    BY <1>1, <2>1 DEF ToSend, ServerOf
  <2> QED
    BY <1>1, <2>1, <2>2, StutterMaps DEF LifeOf
<1>4. CASE r.ok /\ r.notification
  <2>1. conn' = conn /\ pc' = "broadcast" /\ pos' = 1
    BY <1>4 DEF Dispatch
  <2>2. DOMAIN connections = 1 .. Len(connections)
    BY LenProperties DEF IInv, TypeOK
  <2>3. ToSend = {} /\ ToSend' = Registered
    BY <1>1, <2>1, <2>2 DEF ToSend, Registered
  <2>4. Lives' = Lives /\ Registered' = Registered /\ ServerOf = "up" /\ ServerOf' = "up" /\ Lives[cur] = "open"
    BY <1>1, <2>1 DEF Lives, LifeOf, Registered, ServerOf
  <2>5. Peers!Notify
    BY <1>1, <2>3, <2>4 DEF Peers!Notify, Peers!Free, Lives
  <2> QED
    BY <2>5 DEF Peers!Next
<1> QED
  BY <1>2, <1>3, <1>4

\* One round of HazeServerBroadcast: the member at the index has not been sent
\* to, and, as no member is listed twice, will not be sent to again.
LEMMA BroadcastMaps ==
    ASSUME IInv, Broadcast
    PROVE  Peers!Next \/ UNCHANGED Peers!vars
<1>1. /\ pc = "broadcast" /\ UNCHANGED <<conn, connections, loop>> /\ pos \in Nat \ {0}
      /\ connections \in Seq(Conns)
  BY DEF Broadcast, IInv, TypeOK, regVars, serverVars
<1> DEFINE len == Len(connections)
<1>2. len \in Nat /\ DOMAIN connections = 1 .. len /\ \A i \in 1 .. len : connections[i] \in Conns
  BY <1>1, LenProperties, ElementOfSeq
<1>3. \A i, j \in 1 .. len : connections[i] = connections[j] => i = j
  BY <1>2 DEF IInv, RegistrySound
<1>4. ToSend = {connections[i] : i \in pos .. len}
  BY <1>1 DEF ToSend
<1>5. Lives' = Lives /\ Registered' = Registered /\ ServerOf' = ServerOf
  BY <1>1 DEF Lives, LifeOf, Registered, ServerOf
<1>6. CASE pos <= len
  <2>1. pos' = pos + 1 /\ pc' = "broadcast"
    BY <1>1, <1>6 DEF Broadcast
  <2>2. ToSend' = {connections[i] : i \in pos + 1 .. len}
    BY <1>1, <2>1 DEF ToSend
  <2> HIDE DEF len
  <2>3. pos \in 1 .. len /\ pos \in pos .. len
    BY <1>1, <1>2, <1>6
  <2>4. connections[pos] \in ToSend /\ connections[pos] \in Conns
    BY <1>2, <1>4, <2>3
  <2>5. ASSUME NEW d PROVE d \in ToSend' <=> d \in ToSend /\ d # connections[pos]
    <3>1. ASSUME d \in ToSend' PROVE d \in ToSend /\ d # connections[pos]
      <4>1. PICK i \in pos + 1 .. len : d = connections[i]
        BY <2>2, <3>1
      <4>2. i \in pos .. len /\ i \in 1 .. len /\ i # pos
        BY <1>1, <1>2
      <4> QED
        BY <1>3, <1>4, <2>3, <4>1, <4>2
    <3>2. ASSUME d \in ToSend, d # connections[pos] PROVE d \in ToSend'
      <4>1. PICK i \in pos .. len : d = connections[i]
        BY <1>4, <3>2
      <4>2. i # pos
        BY <3>2, <4>1
      <4>3. i \in pos + 1 .. len
        BY <1>1, <1>2, <4>2
      <4> QED
        BY <2>2, <4>1, <4>3
    <3> QED
      BY <3>1, <3>2
  <2>6. ToSend' = ToSend \ {connections[pos]}
    BY <2>5
  <2>7. Peers!Send(connections[pos])
    BY <1>5, <2>4, <2>6 DEF Peers!Send, Lives
  <2> QED
    BY <2>4, <2>7 DEF Peers!Next
<1>7. CASE ~(pos <= len)
  <2>1. pc' = "consume"
    BY <1>7 DEF Broadcast
  <2>2. pos .. len = {}
    BY <1>1, <1>2, <1>7
  <2>3. ToSend = {} /\ ToSend' = {}
    BY <1>4, <2>1, <2>2 DEF ToSend
  <2> QED
    BY <1>5, <2>3 DEF Peers!vars, Lives
<1> QED
  BY <1>6, <1>7

\* After the answer: the connection is closed for a bad count, or goes on.
LEMMA ConsumeMaps ==
    ASSUME IInv, Consume
    PROVE  Peers!Next \/ UNCHANGED Peers!vars
<1>1. /\ pc = "consume" /\ cur \in Conns /\ conn[cur] = "open" /\ loop \in {"running", "stopping"}
      /\ UNCHANGED <<connections, cur, loop>> /\ pc' # "broadcast"
  BY DEF Consume, IInv, ReadPhase, regVars, serverVars
<1>2. CASE db.consumed = 0 \/ db.consumed > buffer_len[cur]
  BY <1>1, <1>2, LifeMaps DEF Consume, UvClose
<1>3. CASE ~(db.consumed = 0 \/ db.consumed > buffer_len[cur])
  <2>1. conn' = conn
    BY <1>3 DEF Consume
  <2> QED
    BY <1>1, <2>1, StutterMaps DEF LifeOf, ToSend, ServerOf
<1> QED
  BY <1>2, <1>3

\* HazeServerFree: the walk abandons the open connections; the last close
\* callback lets it end.
LEMMA ShutdownMaps ==
    ASSUME IInv, CloseWalk \/ ServerFree
    PROVE  Peers!Next
<1>1. pc = "idle" /\ pc' = "idle" /\ connections' = connections /\ ToSend = {} /\ ToSend' = {}
  BY DEF CloseWalk, ServerFree, IInv, ReadPhase, regVars, readVars, ToSend
<1>2. CASE CloseWalk
  <2>1. Lives' = [c \in Conns |-> IF Lives[c] = "open" THEN "abandoned" ELSE Lives[c]]
    BY <1>2 DEF CloseWalk, Lives, LifeOf, IInv, TypeOK
  <2>2. ServerOf = "up" /\ ServerOf' = "down" /\ Registered' = Registered
    BY <1>1, <1>2 DEF CloseWalk, ServerOf, Registered
  <2>3. Peers!Shutdown
    BY <1>1, <2>1, <2>2 DEF Peers!Shutdown, Peers!Free, Lives
  <2> QED
    BY <2>3 DEF Peers!Next
<1>3. CASE ServerFree
  <2>1. Lives' = Lives /\ \A c \in Conns : Lives[c] \in {"none", "abandoned"}
    BY <1>3 DEF ServerFree, Lives, LifeOf, connVars
  <2>2. ServerOf = "down" /\ ServerOf' = "over" /\ Registered' = Registered
    BY <1>1, <1>3 DEF ServerFree, ServerOf, Registered
  <2>3. Peers!End
    BY <1>1, <2>1, <2>2 DEF Peers!End, Peers!Free, Lives
  <2> QED
    BY <2>3 DEF Peers!Next
<1> QED
  BY <1>2, <1>3

\* The callbacks of one connection.
LEMMA CallbackMaps ==
    ASSUME IInv, NEW c \in Conns,
           \/ OnConnectFail(c) \/ OnConnect(c) \/ OnReadFail(c) \/ OnWriteOk(c) \/ OnWriteFail(c)
           \/ OnClose(c) \/ OnHandleClose(c) \/ \E nread \in 1 .. ReadMax : OnRead(c, nread)
    PROVE  Peers!Next \/ UNCHANGED Peers!vars
<1>1. CASE OnConnectFail(c)
  <2>1. conn' = [conn EXCEPT ![c] = "closing"] /\ conn[c] = "none" /\ pc = "idle" /\ pc' = "idle"
        /\ UNCHANGED <<connections, loop>> /\ loop \in {"running", "stopping"}
    BY <1>1 DEF OnConnectFail, UvClose, Polling, regVars, readVars, serverVars
  <2> QED
    BY <2>1, LifeMaps
<1>2. CASE OnReadFail(c)
  <2>1. conn' = [conn EXCEPT ![c] = "closing"] /\ conn[c] = "open" /\ pc = "idle" /\ pc' = "idle"
        /\ UNCHANGED <<connections, loop>> /\ loop \in {"running", "stopping"}
    BY <1>2 DEF OnReadFail, UvClose, Polling, regVars, readVars, serverVars
  <2> QED
    BY <2>1, LifeMaps
<1>3. CASE OnWriteFail(c) /\ ~IsClosing(c)
  <2>1. conn' = [conn EXCEPT ![c] = "closing"] /\ pc = "idle" /\ pc' = "idle" /\ writes[c] > 0
        /\ UNCHANGED <<connections, loop>> /\ loop \in {"running", "stopping", "draining"}
    BY <1>3 DEF OnWriteFail, UvClose, Calling, regVars, readVars, serverVars
  <2>2. conn[c] = "open"
    BY <1>3, <2>1 DEF IInv, TypeOK, WriteTargetAllocated, Allocated, IsClosing, ConnStates
  <2> QED
    BY <2>1, <2>2, LifeMaps
<1>4. CASE (OnWriteFail(c) /\ IsClosing(c)) \/ OnWriteOk(c) \/ OnHandleClose(c)
           \/ \E nread \in 1 .. ReadMax : OnRead(c, nread)
  <2>1. /\ UNCHANGED <<connections, loop>> /\ pc # "broadcast" /\ pc' # "broadcast"
        /\ conn' = conn \/ (conn[c] = "walked" /\ conn' = [conn EXCEPT ![c] = "leaked"])
    BY <1>4 DEF OnWriteFail, OnWriteOk, OnHandleClose, OnRead, Polling, Calling, regVars, readVars, serverVars
  <2>2. \A d \in Conns : LifeOf(d)' = LifeOf(d)
    BY <2>1 DEF LifeOf, IInv, TypeOK
  <2> QED
    BY <2>1, <2>2, StutterMaps DEF ToSend, ServerOf
<1> QED
  BY <1>1, <1>2, <1>3, <1>4, OnConnectMaps, OnCloseMaps

\* The array of connections, with its swaps, growth and failures, and the
\* callbacks of HazeServer.c implement a set of members that every broadcast
\* goes to once.
THEOREM ServerKeepsMembers == Spec => ImplementsConnections
<1>1. Init => Peers!Init
  <2> SUFFICES ASSUME Init PROVE Peers!Init
    OBVIOUS
  <2>1. Registered = {} /\ ToSend = {} /\ ServerOf = "up" /\ \A c \in Conns : LifeOf(c) = "none"
    BY DEF Init, Registered, ToSend, ServerOf, LifeOf
  <2> QED
    BY <2>1 DEF Peers!Init
<1>2. IInv /\ [Next]_vars => [Peers!Next]_Peers!vars
  <2> SUFFICES ASSUME IInv, [Next]_vars PROVE Peers!Next \/ UNCHANGED Peers!vars
    OBVIOUS
  <2>1. CASE ReadLoop
    <3>1. CASE CheckBacklog
      <4>1. UNCHANGED <<conn, connections, loop>> /\ pc = "check" /\ pc' = "idle"
        BY <3>1, CheckBacklogInv DEF CheckBacklog, regVars, serverVars
      <4> QED
        BY <4>1, StutterMaps DEF LifeOf, ToSend, ServerOf
    <3> QED
      BY <2>1, <3>1, DispatchMaps, BroadcastMaps, ConsumeMaps DEF ReadLoop
  <2>2. CASE OnConnectNoMem \/ OnSignal \/ RunReturns \/ OnListenerClose \/ UNCHANGED vars
    <3>1. UNCHANGED <<conn, connections, pc, pos>> /\ ServerOf' = ServerOf
      BY <2>2 DEF OnConnectNoMem, OnSignal, RunReturns, OnListenerClose, ServerOf, vars, connVars, regVars,
                  readVars, serverVars
    <3> QED
      BY <3>1, StutterMaps DEF LifeOf, ToSend
  <2> QED
    BY <2>1, <2>2, CallbackMaps, ShutdownMaps DEF Next, Done
<1> QED
  BY <1>1, <1>2, InductiveInvariant, PTL DEF Spec, ImplementsConnections, Peers!Spec
=============================================================================
