--------------------------- MODULE ConnectionSpec ---------------------------
(***************************************************************************)
(* What the server promises about its clients, whatever array it keeps     *)
(* them in: a set of members that a client enters when it is accepted and  *)
(* leaves when its connection is gone, and notifications that each go once *)
(* to every member and to nobody else before anything else happens.        *)
(* HazeServer implements it.                                               *)
(***************************************************************************)
CONSTANT Conns          \* connections

VARIABLES
    life,               \* "none", "open", "closing", or "abandoned" by the shutdown
    members,            \* those a notification goes to
    todo,               \* members the notification under way has not gone to yet
    server              \* "up", "down" once the shutdown has begun, "over"

vars == <<life, members, todo, server>>

Init ==
    /\ life = [c \in Conns |-> "none"]
    /\ members = {}
    /\ todo = {}
    /\ server = "up"

\* Nothing else happens while a notification is under way, or at the end.
Free == todo = {} /\ server # "over"

\* A connection becomes a member, unless there is no memory to note it.
Accept(c) ==
    /\ Free /\ server = "up"
    /\ life[c] = "none"
    /\ life' = [life EXCEPT ![c] = "open"]
    /\ members' \in {members, members \union {c}}
    /\ UNCHANGED <<todo, server>>

Refuse(c) ==
    /\ Free /\ server = "up"
    /\ life[c] = "none"
    /\ life' = [life EXCEPT ![c] = "closing"]
    /\ UNCHANGED <<members, todo, server>>

Close(c) ==
    /\ Free
    /\ life[c] = "open"
    /\ life' = [life EXCEPT ![c] = "closing"]
    /\ UNCHANGED <<members, todo, server>>

\* Only now does the connection leave, and no other leaves with it.
Gone(c) ==
    /\ Free
    /\ life[c] = "closing"
    /\ life' = [life EXCEPT ![c] = "none"]
    /\ members' = members \ {c}
    /\ UNCHANGED <<todo, server>>

\* A request of an open connection causes a notification.
Notify ==
    /\ Free /\ server = "up"
    /\ \E c \in Conns : life[c] = "open"
    /\ todo' = members
    /\ UNCHANGED <<life, members, server>>

\* It goes to one member; whether it is written is up to memory and the peer.
Send(c) ==
    /\ c \in todo
    /\ todo' = todo \ {c}
    /\ UNCHANGED <<life, members, server>>

Shutdown ==
    /\ Free /\ server = "up"
    /\ life' = [c \in Conns |-> IF life[c] = "open" THEN "abandoned" ELSE life[c]]
    /\ server' = "down"
    /\ UNCHANGED <<members, todo>>

End ==
    /\ Free /\ server = "down"
    /\ \A c \in Conns : life[c] \in {"none", "abandoned"}
    /\ server' = "over"
    /\ UNCHANGED <<life, members, todo>>

Next ==
    \/ \E c \in Conns : Accept(c) \/ Refuse(c) \/ Close(c) \/ Gone(c) \/ Send(c)
    \/ Notify
    \/ Shutdown
    \/ End

Spec == Init /\ [][Next]_vars
=============================================================================
