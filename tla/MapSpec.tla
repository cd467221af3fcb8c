------------------------------ MODULE MapSpec -------------------------------
(***************************************************************************)
(* What a table of objects promises its callers, whatever it is made of:   *)
(* several finite maps that share nothing.  Each step is one call, with    *)
(* the arguments it was made with.  ObjectTable implements it.             *)
(***************************************************************************)
CONSTANTS
    Tables,         \* handles of tables
    Keys,           \* what a caller may use as a key
    Comparable,     \* the keys that are equal to themselves
    Values,         \* what a caller may store
    Kept,           \* what is kept of each value
    NoValue,        \* what a lookup answers when it finds nothing
    NoMap           \* a table that does not exist

VARIABLES
    maps,           \* the map of each table
    call,           \* the last call and its arguments
    answer          \* what it returned

vars == <<maps, call, answer>>

EmptyMap == [k \in Comparable |-> NoValue]

\* What t has under k, and the maps once it has v there.  A key that is not
\* equal to itself is never found.
At(t, k)      == IF k \in Comparable THEN maps[t][k] ELSE NoValue
With(t, k, v) == IF k \in Comparable THEN [maps EXCEPT ![t][k] = v] ELSE maps

Init ==
    /\ maps = [t \in Tables |-> NoMap]
    /\ call = <<"none">>
    /\ answer = "ok"

\* A call that needs memory may fail, and has no effect when it does.
Fail == answer' = "fail" /\ UNCHANGED maps

Create(t) ==
    /\ call' = <<"create", t>>
    /\ maps[t] = NoMap
    /\ \/ answer' = "ok" /\ maps' = [maps EXCEPT ![t] = EmptyMap]
       \/ Fail

Set(t, k, v) ==
    /\ call' = <<"set", t, k, v>>
    /\ maps[t] # NoMap
    /\ \/ answer' = "ok" /\ maps' = With(t, k, Kept[v])
       \/ Fail

Get(t, k) ==
    /\ call' = <<"get", t, k>>
    /\ maps[t] # NoMap
    /\ answer' = At(t, k)
    /\ UNCHANGED maps

Remove(t, k) ==
    /\ call' = <<"remove", t, k>>
    /\ maps[t] # NoMap
    /\ answer' = IF At(t, k) = NoValue THEN "fail" ELSE "ok"
    /\ maps' = With(t, k, NoValue)

Copy(s, t) ==
    /\ call' = <<"copy", s, t>>
    /\ maps[s] # NoMap
    /\ maps[t] = NoMap
    /\ \/ answer' = "ok" /\ maps' = [maps EXCEPT ![t] = maps[s]]
       \/ Fail

Free(t) ==
    /\ call' = <<"free", t>>
    /\ maps[t] # NoMap
    /\ answer' = "ok"
    /\ maps' = [maps EXCEPT ![t] = NoMap]

Next ==
    \E t \in Tables :
        \/ Create(t)
        \/ \E k \in Keys : Get(t, k) \/ Remove(t, k) \/ \E v \in Values : Set(t, k, v)
        \/ \E s \in Tables : Copy(s, t)
        \/ Free(t)

Spec == Init /\ [][Next]_vars
=============================================================================
