---------------------------- MODULE ObjectTable -----------------------------
(***************************************************************************)
(* The map tables of source/msgpack/Object.c.  A table is a growing array  *)
(* of addresses of pairs; a pair owns copies of its key and its value.     *)
(* Every allocation may fail.                                              *)
(***************************************************************************)
EXTENDS Integers, Sequences

CONSTANTS
    Tables,         \* table handles of callers
    Comparable,     \* keys ObjectEquals compares: booleans, numbers, strings
    OtherKeys,      \* keys it does not: nil, binary, array, map, a NaN
    PlainValues,    \* values ObjectCopy copies whole
    MapValues,      \* map objects, whose table ObjectCopy leaves behind
    NullMap,        \* a map object without a table
    NoValue,        \* a NULL Object pointer
    Addrs,          \* where pairs are allocated
    Null,           \* a NULL table, and an address that is not allocated
    FirstCapacity   \* OBJECT_MAP_INITIAL_CAPACITY, 8

Keys   == Comparable \union OtherKeys
Values == PlainValues \union MapValues
Stored == PlainValues \union {NullMap}
Pairs  == [key : Keys, value : Stored]

ASSUME ObjectTableAssumption ==
    /\ Comparable \intersect OtherKeys = {}
    /\ MapValues \intersect Stored = {}
    /\ NoValue \notin Stored
    /\ Null \notin Pairs
    /\ Null \notin [pairs : Seq(Addrs), capacity : Nat]
    /\ Null \notin [Comparable -> Stored \union {NoValue}]
    /\ FirstCapacity \in Nat \ {0}

VARIABLES
    table,          \* the table of each handle: [pairs, capacity], or Null
    heap,           \* the pair at each address, or Null
    call,           \* the last call and its arguments
    answer          \* what it returned

vars == <<table, heap, call, answer>>

Init ==
    /\ table = [t \in Tables |-> Null]
    /\ heap = [a \in Addrs |-> Null]
    /\ call = <<"none">>
    /\ answer = "ok"

Live(t)   == table[t] # Null
Slots(t)  == DOMAIN table[t].pairs
PairAt(t, i) == heap[table[t].pairs[i]]

\* Mutant of ObjectCopy: the table of a map is copied too.
ObjectCopyWhole(v) == v

ObjectCopy(v) == IF v \in MapValues THEN NullMap ELSE v

ObjectEquals(a, b) == a = b /\ a \in Comparable

\* The linear search of set, get and remove.
Matches(t, k) == {i \in Slots(t) : ObjectEquals(PairAt(t, i).key, k)}
FirstMatch(t, k) == CHOOSE i \in Matches(t, k) : \A j \in Matches(t, k) : i <= j

Fail == answer' = "fail" /\ UNCHANGED <<table, heap>>

-----------------------------------------------------------------------------
ObjectMapTableCreate(t) ==
    /\ ~Live(t)
    /\ \/ /\ table' = [table EXCEPT ![t] = [pairs |-> <<>>, capacity |-> FirstCapacity]]
          /\ answer' = "ok"
          /\ UNCHANGED heap
       \/ Fail

\* ObjectMapTableSet of a key it finds: the copy is made before the old value
\* is freed.
Replace(t, k, v) ==
    /\ Matches(t, k) # {}
    /\ \/ /\ heap' = [heap EXCEPT ![table[t].pairs[FirstMatch(t, k)]].value = ObjectCopy(v)]
          /\ answer' = "ok"
          /\ UNCHANGED table
       \/ Fail

Grown(t) ==
    IF Len(table[t].pairs) >= table[t].capacity THEN 2 * table[t].capacity ELSE table[t].capacity

\* ObjectMapTableSet of a key it does not find: the array may not grow; it
\* stays grown when there is no memory for the pair.
Insert(t, k, v) ==
    /\ Matches(t, k) = {}
    /\ \/ \E a \in Addrs :
            /\ heap[a] = Null
            /\ heap' = [heap EXCEPT ![a] = [key |-> k, value |-> ObjectCopy(v)]]
            /\ table' = [table EXCEPT ![t] = [pairs |-> Append(@.pairs, a), capacity |-> Grown(t)]]
            /\ answer' = "ok"
       \/ /\ table' = [table EXCEPT ![t].capacity = Grown(t)]
          /\ answer' = "fail"
          /\ UNCHANGED heap
       \/ Fail

ObjectMapTableSet(t, k, v) == Live(t) /\ (Replace(t, k, v) \/ Insert(t, k, v))

\* Mutant of ObjectMapTableGet: the search does not look at the last pair.
GetShort(t, k) ==
    /\ Live(t)
    /\ answer' = IF Matches(t, k) \ {Len(table[t].pairs)} = {} THEN NoValue
                 ELSE PairAt(t, FirstMatch(t, k)).value
    /\ UNCHANGED <<table, heap>>

ObjectMapTableGet(t, k) ==
    /\ Live(t)
    /\ answer' = IF Matches(t, k) = {} THEN NoValue ELSE PairAt(t, FirstMatch(t, k)).value
    /\ UNCHANGED <<table, heap>>

WithoutSlot(s, i) == [j \in 1 .. Len(s) - 1 |-> IF j < i THEN s[j] ELSE s[j + 1]]

\* Mutant of ObjectMapTableRemove: the pairs are moved up from one slot late.
RemoveLate(t, k) ==
    /\ Live(t)
    /\ IF Matches(t, k) = {} THEN Fail
       ELSE LET i == FirstMatch(t, k)
            IN  /\ heap' = [heap EXCEPT ![table[t].pairs[i]] = Null]
                /\ table' = [table EXCEPT ![t].pairs = WithoutSlot(@, i + 1)]
                /\ answer' = "ok"

ObjectMapTableRemove(t, k) ==
    /\ Live(t)
    /\ IF Matches(t, k) = {} THEN Fail
       ELSE LET i == FirstMatch(t, k)
            IN  /\ heap' = [heap EXCEPT ![table[t].pairs[i]] = Null]
                /\ table' = [table EXCEPT ![t].pairs = WithoutSlot(@, i)]
                /\ answer' = "ok"

-----------------------------------------------------------------------------
\* The capacity of a table that n insertions have filled.
GrownFor(n) ==
    {c \in FirstCapacity .. FirstCapacity + 2 * n :
        /\ \E i \in 0 .. n : c = FirstCapacity * 2^i
        /\ c >= n /\ (c = FirstCapacity \/ c < 2 * n)}

\* ObjectMapTableCopy: a set for every pair of the source.  Its keys are
\* distinct where they compare (KeysDistinct), so each set inserts.  When one
\* fails, what was copied is freed.
ObjectMapTableCopy(s, t) ==
    /\ Live(s) /\ ~Live(t)
    /\ \/ \E new \in [Slots(s) -> {a \in Addrs : heap[a] = Null}] :
            /\ \A i, j \in Slots(s) : new[i] = new[j] => i = j
            /\ heap' = [a \in Addrs |-> IF \E i \in Slots(s) : new[i] = a
                                        THEN PairAt(s, CHOOSE i \in Slots(s) : new[i] = a)
                                        ELSE heap[a]]
            /\ \E c \in GrownFor(Len(table[s].pairs)) :
                table' = [table EXCEPT ![t] = [pairs |-> new, capacity |-> c]]
            /\ answer' = "ok"
       \/ Fail

ObjectMapTableFree(t) ==
    /\ Live(t)
    /\ heap' = [a \in Addrs |-> IF \E i \in Slots(t) : table[t].pairs[i] = a THEN Null ELSE heap[a]]
    /\ table' = [table EXCEPT ![t] = Null]
    /\ answer' = "ok"

Called(c) == call' = c

Next ==
    \E t \in Tables :
        \/ Called(<<"create", t>>) /\ ObjectMapTableCreate(t)
        \/ \E k \in Keys :
            \/ \E v \in Values : Called(<<"set", t, k, v>>) /\ ObjectMapTableSet(t, k, v)
            \/ Called(<<"get", t, k>>) /\ ObjectMapTableGet(t, k)
            \/ Called(<<"remove", t, k>>) /\ ObjectMapTableRemove(t, k)
        \/ \E s \in Tables : Called(<<"copy", s, t>>) /\ ObjectMapTableCopy(s, t)
        \/ Called(<<"free", t>>) /\ ObjectMapTableFree(t)

Spec == Init /\ [][Next]_vars

-----------------------------------------------------------------------------
\* The types of the variables.
TypeOK ==
    /\ table \in [Tables -> [pairs : Seq(Addrs), capacity : Nat] \union {Null}]
    /\ heap \in [Addrs -> Pairs \union {Null}]
    /\ answer \in {"ok", "fail", NoValue} \union Stored

\* Every pair belongs to one slot of one table: a remove or a free leaves no
\* slot with a freed pair, a copy shares none with its source, and none is
\* lost, whichever allocation fails.  No slot is beyond the array, also after a
\* growth whose insertion failed and in a copy of a table that has shrunk.
PairsOwned ==
    /\ \A t \in Tables : Live(t) => Len(table[t].pairs) <= table[t].capacity
    /\ \A t \in Tables : Live(t) => \A i \in Slots(t) : PairAt(t, i) # Null
    /\ \A t, u \in Tables : Live(t) /\ Live(u) =>
        \A i \in Slots(t), j \in Slots(u) :
            table[t].pairs[i] = table[u].pairs[j] => t = u /\ i = j
    /\ \A a \in Addrs : heap[a] # Null =>
        \E t \in Tables : Live(t) /\ \E i \in Slots(t) : table[t].pairs[i] = a

\* A key that compares occurs once in a table, which a copy relies on.
KeysDistinct ==
    \A t \in Tables : Live(t) =>
        \A i, j \in Slots(t) :
            ObjectEquals(PairAt(t, i).key, PairAt(t, j).key) => i = j

\* The map a table stands for.
Holds(t, k) == \E i \in Slots(t) : PairAt(t, i).key = k
Held(t, k)  == PairAt(t, CHOOSE i \in Slots(t) : PairAt(t, i).key = k).value
MapOf(t) ==
    IF Live(t) THEN [k \in Comparable |-> IF Holds(t, k) THEN Held(t, k) ELSE NoValue] ELSE Null

Map == INSTANCE MapSpec WITH
    Kept <- [v \in Values |-> ObjectCopy(v)], NoMap <- Null,
    maps <- [t \in Tables |-> MapOf(t)]

\* The tables are maps that share nothing: ObjectMapTableGet(t, k) returns what
\* ObjectMapTableSet(t, k, v) stored last in t under k, in t or in the table t
\* was copied from, until it is removed; a removal says whether there was
\* something; a key that does not compare is taken and never found; and only a
\* call that needs memory may fail, and it then changes nothing.
ImplementsMap == Map!Spec
=============================================================================
