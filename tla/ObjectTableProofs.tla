------------------------- MODULE ObjectTableProofs --------------------------
(***************************************************************************)
(* The invariants of ObjectTable, and that it implements MapSpec, for all  *)
(* tables, keys, values and addresses.                                     *)
(***************************************************************************)
EXTENDS ObjectTable, SequenceTheorems, WellFoundedInduction, TLAPS

-----------------------------------------------------------------------------
(* The linear search and the removal of an element.                        *)

\* A search from the front stops at the least of its matches.
LEMMA LeastElement ==
    ASSUME NEW S, S \subseteq Nat, S # {}
    PROVE  \E k \in S : \A j \in S : k <= j
<1> DEFINE R == OpToRel(<, Nat)
<1>1. IsWellFoundedOn(R, Nat)
  BY NatLessThanWellFounded
<1>2. \A j, k \in Nat : j < k => <<j, k>> \in R
  BY DEF OpToRel
<1> HIDE DEF R
<1>3. PICK k \in S : \A j \in S : ~(<<j, k>> \in R)
  BY <1>1, WFMin
<1>4. \A j \in S : ~(j < k)
  BY <1>2, <1>3
<1>5. \A j \in S : k <= j
  BY <1>4
<1> QED
  BY <1>5

\* Removing element k and moving up the ones after it.
LEMMA ShiftUp ==
    ASSUME NEW S, NEW s \in Seq(S), NEW k \in 1 .. Len(s)
    PROVE  LET t == [j \in 1 .. Len(s) - 1 |-> IF j < k THEN s[j] ELSE s[j + 1]]
           IN  /\ t \in Seq(S)
               /\ Len(t) = Len(s) - 1
               /\ DOMAIN t = 1 .. Len(s) - 1
               /\ \A j \in 1 .. Len(s) - 1 : t[j] = IF j < k THEN s[j] ELSE s[j + 1]
<1> DEFINE n == Len(s)
           t == [j \in 1 .. n - 1 |-> IF j < k THEN s[j] ELSE s[j + 1]]
<1>1. n \in Nat /\ \A i \in 1 .. n : s[i] \in S
  BY LenProperties, ElementOfSeq
<1> HIDE DEF n
<1>2. n - 1 \in Nat
  BY <1>1 DEF n
<1>3. \A j \in 1 .. n - 1 : j \in 1 .. n /\ j + 1 \in 1 .. n
  BY <1>1
<1>4. t \in [1 .. n - 1 -> S]
  BY <1>1, <1>3
<1> HIDE DEF t
<1>5. t \in Seq(S) /\ Len(t) = n - 1
  BY ONLY <1>2, <1>4, IsASeq
<1> QED
  BY <1>5 DEF n

-----------------------------------------------------------------------------
\* The addresses in the slots of a table.
Slot(t, i) == table[t].pairs[i]

\* Key q is found in a table with value w.
Found(t, q, w) == \E i \in Slots(t) : PairAt(t, i).key = q /\ PairAt(t, i).value = w

\* An array is never empty, so that doubling it makes room.
CapacityPositive == \A t \in Tables : Live(t) => table[t].capacity > 0

\* The inductive invariant.
IInv ==
    /\ TypeOK
    /\ PairsOwned
    /\ KeysDistinct
    /\ CapacityPositive

-----------------------------------------------------------------------------
\* A table is an array of addresses.
LEMMA Shape ==
    ASSUME TypeOK, NEW t \in Tables, Live(t)
    PROVE  /\ table[t] \in [pairs : Seq(Addrs), capacity : Nat]
           /\ table[t].pairs \in Seq(Addrs)
           /\ Len(table[t].pairs) \in Nat
           /\ Slots(t) = 1 .. Len(table[t].pairs)
           /\ \A i \in Slots(t) : Slot(t, i) \in Addrs
           /\ table[t].capacity \in Nat
<1>1. table[t] \in [pairs : Seq(Addrs), capacity : Nat]
  BY DEF TypeOK, Live
<1>2. table[t].pairs \in Seq(Addrs) /\ table[t].capacity \in Nat
  BY <1>1
<1>3. Len(table[t].pairs) \in Nat /\ DOMAIN table[t].pairs = 1 .. Len(table[t].pairs)
  BY <1>2, LenProperties
<1>4. \A i \in 1 .. Len(table[t].pairs) : table[t].pairs[i] \in Addrs
  BY <1>2, ElementOfSeq
<1> QED
  BY <1>1, <1>2, <1>3, <1>4 DEF Slots, Slot

\* What PairsOwned and KeysDistinct say of the slots.
LEMMA SlotFacts ==
    ASSUME IInv, NEW t \in Tables, Live(t)
    PROVE  /\ \A i \in Slots(t) : PairAt(t, i) \in Pairs /\ heap[Slot(t, i)] = PairAt(t, i)
           /\ \A i, j \in Slots(t) : Slot(t, i) = Slot(t, j) => i = j
           /\ \A u \in Tables : u # t /\ Live(u) =>
                \A i \in Slots(t), j \in Slots(u) : Slot(t, i) # Slot(u, j)
<1>1. \A i \in Slots(t) : Slot(t, i) \in Addrs
  BY Shape DEF IInv
<1>2. \A i \in Slots(t) : heap[Slot(t, i)] # Null
  BY DEF IInv, PairsOwned, PairAt, Slot
<1> QED
  BY <1>1, <1>2 DEF IInv, TypeOK, PairsOwned, PairAt, Slot

\* The search returns a slot of its table with the key, and finds no key that
\* does not compare.
LEMMA SearchFinds ==
    ASSUME IInv, NEW t \in Tables, Live(t), NEW k \in Keys, Matches(t, k) # {}
    PROVE  /\ FirstMatch(t, k) \in Slots(t)
           /\ PairAt(t, FirstMatch(t, k)).key = k
           /\ k \in Comparable
<1>1. Matches(t, k) \subseteq Slots(t) /\ Slots(t) \subseteq Nat
  BY Shape DEF Matches, IInv
<1>2. \E i \in Matches(t, k) : \A j \in Matches(t, k) : i <= j
  BY <1>1, LeastElement
<1>3. FirstMatch(t, k) \in Matches(t, k)
  BY <1>2 DEF FirstMatch
<1> QED
  BY <1>1, <1>3 DEF Matches, ObjectEquals

\* ObjectCopy returns what a table may store.
LEMMA CopyStored ==
    ASSUME NEW v \in Values
    PROVE  ObjectCopy(v) \in Stored
  BY DEF ObjectCopy, Stored, Values

-----------------------------------------------------------------------------
\* The invariant holds when there is no table.
LEMMA InitIInv == Init => IInv
<1> SUFFICES ASSUME Init PROVE IInv
  OBVIOUS
<1>1. \A t \in Tables : ~Live(t)
  BY DEF Init, Live
<1>2. TypeOK
  BY DEF Init, TypeOK
<1>3. PairsOwned
  BY <1>1 DEF Init, PairsOwned
<1> QED
  BY <1>1, <1>2, <1>3 DEF IInv, KeysDistinct, CapacityPositive

\* A call that changes neither tables nor pairs, but the capacity of one.
LEMMA AnswerKeeps ==
    ASSUME IInv, UNCHANGED heap, answer' \in {"ok", "fail", NoValue} \union Stored,
           table' \in [Tables -> [pairs : Seq(Addrs), capacity : Nat] \union {Null}],
           \A t \in Tables : Live(t)' <=> Live(t),
           \A t \in Tables : Live(t) => /\ table'[t].pairs = table[t].pairs
                                        /\ table'[t].capacity >= table[t].capacity
    PROVE  IInv'
<1> USE DEF IInv
<1>1. TypeOK'
  BY DEF TypeOK
<1>2. \A t \in Tables : Live(t) => Slots(t)' = Slots(t) /\ \A i \in Slots(t) : PairAt(t, i)' = PairAt(t, i)
  BY DEF Slots, PairAt
<1>3. ASSUME NEW t \in Tables, Live(t)
      PROVE  Len(table'[t].pairs) <= table'[t].capacity /\ table'[t].capacity > 0
  <2>1. table'[t] \in [pairs : Seq(Addrs), capacity : Nat]
    BY <1>3 DEF Live
  <2>2. table'[t].capacity \in Nat
    BY <2>1
  <2>3. table'[t].capacity >= table[t].capacity /\ table'[t].pairs = table[t].pairs
    BY <1>3
  <2>4. Len(table[t].pairs) <= table[t].capacity /\ table[t].capacity > 0
    BY <1>3 DEF PairsOwned, CapacityPositive
  <2> QED
    BY <1>3, <2>2, <2>3, <2>4, Shape
<1>4. CapacityPositive'
  BY <1>3 DEF CapacityPositive
<1>5. PairsOwned'
  <2>1. \A t \in Tables : Live(t)' => \A i \in Slots(t)' : PairAt(t, i)' # Null
    BY <1>2 DEF PairsOwned
  <2>2. \A t, u \in Tables : Live(t)' /\ Live(u)' =>
          \A i \in Slots(t)', j \in Slots(u)' :
            table'[t].pairs[i] = table'[u].pairs[j] => t = u /\ i = j
    BY <1>2 DEF PairsOwned
  <2>3. \A a \in Addrs : heap'[a] # Null =>
          \E t \in Tables : Live(t)' /\ \E i \in Slots(t)' : table'[t].pairs[i] = a
    BY <1>2 DEF PairsOwned
  <2> QED
    BY <2>1, <2>2, <2>3, <1>3 DEF PairsOwned
<1>6. KeysDistinct'
  BY <1>2 DEF KeysDistinct
<1> QED
  BY <1>1, <1>4, <1>5, <1>6

\* A step on one table: the others and their pairs stay.
OnlyTable(t) ==
    \A u \in Tables : u # t =>
        /\ table'[u] = table[u]
        /\ Live(u) => \A i \in Slots(u) : heap'[Slot(u, i)] = heap[Slot(u, i)]

\* What the invariant says of one table.
OwnTable(t) ==
    Live(t) =>
        /\ Len(table[t].pairs) <= table[t].capacity
        /\ table[t].capacity > 0
        /\ \A i \in Slots(t) : PairAt(t, i) # Null
        /\ \A i, j \in Slots(t) : Slot(t, i) = Slot(t, j) => i = j
        /\ \A i, j \in Slots(t) : ObjectEquals(PairAt(t, i).key, PairAt(t, j).key) => i = j

\* A step on one table keeps the invariant when that table keeps its part,
\* shares no pair with another, and no pair is lost.
LEMMA StepKeeps ==
    ASSUME IInv, TypeOK', NEW t \in Tables, OnlyTable(t), OwnTable(t)',
           \A u \in Tables : u # t /\ Live(u) /\ Live(t)' =>
                \A i \in Slots(t)', j \in Slots(u) : Slot(t, i)' # Slot(u, j),
           \A a \in Addrs : heap'[a] # Null =>
                \/ Live(t)' /\ \E i \in Slots(t)' : Slot(t, i)' = a
                \/ \E u \in Tables : u # t /\ Live(u) /\ \E i \in Slots(u) : Slot(u, i) = a
    PROVE  IInv'
<1> USE DEF IInv
<1>1. \A u \in Tables : u # t => /\ Live(u)' <=> Live(u)
                                 /\ Slots(u)' = Slots(u)
                                 /\ \A i \in Slots(u) : Slot(u, i)' = Slot(u, i)
                                 /\ table'[u] = table[u]
  BY DEF OnlyTable, Live, Slots, Slot
<1>2. \A u \in Tables : u # t /\ Live(u) => \A i \in Slots(u) : PairAt(u, i)' = PairAt(u, i)
  BY <1>1 DEF OnlyTable, PairAt, Slot
<1>3. PairsOwned'
  <2>1. \A u \in Tables : Live(u)' => Len(table'[u].pairs) <= table'[u].capacity
    BY <1>1 DEF PairsOwned, OwnTable
  <2>2. \A u \in Tables : Live(u)' => \A i \in Slots(u)' : PairAt(u, i)' # Null
    BY <1>1, <1>2 DEF PairsOwned, OwnTable
  <2>3. \A u, w \in Tables : Live(u)' /\ Live(w)' =>
          \A i \in Slots(u)', j \in Slots(w)' : Slot(u, i)' = Slot(w, j)' => u = w /\ i = j
    <3> SUFFICES ASSUME NEW u \in Tables, NEW w \in Tables, Live(u)', Live(w)',
                        NEW i \in Slots(u)', NEW j \in Slots(w)', Slot(u, i)' = Slot(w, j)'
                 PROVE  u = w /\ i = j
      OBVIOUS
    <3>1. CASE u = t /\ w = t
      BY <3>1 DEF OwnTable
    <3>2. CASE u # t /\ w # t
      BY <3>2, <1>1 DEF PairsOwned, Slot
    <3>3. CASE u = t /\ w # t
      BY <3>3, <1>1
    <3>4. CASE u # t /\ w = t
      BY <3>4, <1>1
    <3> QED
      BY <3>1, <3>2, <3>3, <3>4
  <2>4. \A a \in Addrs : heap'[a] # Null =>
          \E u \in Tables : Live(u)' /\ \E i \in Slots(u)' : Slot(u, i)' = a
    BY <1>1
  <2> QED
    BY <2>1, <2>2, <2>3, <2>4 DEF PairsOwned, Slot
<1>4. KeysDistinct'
  BY <1>1, <1>2 DEF KeysDistinct, OwnTable
<1>5. CapacityPositive'
  BY <1>1 DEF CapacityPositive, OwnTable
<1> QED
  BY <1>3, <1>4, <1>5

\* The type of the tables after a step that makes the array of t be s.
LEMMA NewArray ==
    ASSUME TypeOK, NEW t \in Tables, NEW s \in Seq(Addrs), NEW c \in Nat,
           table' = [table EXCEPT ![t] = [pairs |-> s, capacity |-> c]]
    PROVE  /\ table' \in [Tables -> [pairs : Seq(Addrs), capacity : Nat] \union {Null}]
           /\ Live(t)'
           /\ table'[t].pairs = s /\ table'[t].capacity = c
           /\ Slots(t)' = 1 .. Len(s)
           /\ \A i \in 1 .. Len(s) : Slot(t, i)' = s[i] /\ s[i] \in Addrs
           /\ \A u \in Tables : u # t => table'[u] = table[u]
<1> DEFINE new == [pairs |-> s, capacity |-> c]
<1>1. new \in [pairs : Seq(Addrs), capacity : Nat] /\ new.pairs = s /\ new.capacity = c
  OBVIOUS
<1>2. Null \notin [pairs : Seq(Addrs), capacity : Nat]
  BY ObjectTableAssumption
<1> HIDE DEF new
<1>3. table'[t] = new /\ new # Null /\ \A u \in Tables : u # t => table'[u] = table[u]
  BY <1>1, <1>2 DEF TypeOK, new
<1>4. table' \in [Tables -> [pairs : Seq(Addrs), capacity : Nat] \union {Null}]
  BY <1>1 DEF TypeOK, new
<1>5. DOMAIN s = 1 .. Len(s) /\ \A i \in 1 .. Len(s) : s[i] \in Addrs
  BY LenProperties, ElementOfSeq
<1> QED
  BY <1>1, <1>3, <1>4, <1>5 DEF Live, Slots, Slot

\* ObjectMapTableCreate: an empty table.
LEMMA CreateKeeps ==
    ASSUME IInv, NEW t \in Tables, ~Live(t), UNCHANGED heap, answer' = "ok",
           table' = [table EXCEPT ![t] = [pairs |-> <<>>, capacity |-> FirstCapacity]]
    PROVE  IInv' /\ OnlyTable(t) /\ Live(t)' /\ \A q, w : ~Found(t, q, w)'
<1>1. <<>> \in Seq(Addrs) /\ Len(<<>>) = 0 /\ FirstCapacity \in Nat /\ FirstCapacity > 0 /\ TypeOK
  BY EmptySeq, ObjectTableAssumption DEF IInv
<1>2. /\ table' \in [Tables -> [pairs : Seq(Addrs), capacity : Nat] \union {Null}]
      /\ Live(t)'
      /\ table'[t].pairs = <<>> /\ table'[t].capacity = FirstCapacity
      /\ Slots(t)' = 1 .. 0
      /\ \A u \in Tables : u # t => table'[u] = table[u]
  BY <1>1, NewArray
<1>3. TypeOK'
  BY <1>1, <1>2 DEF TypeOK
<1>4. OnlyTable(t) /\ OwnTable(t)'
  BY <1>1, <1>2 DEF OnlyTable, OwnTable
<1>5. \A a \in Addrs : heap'[a] # Null =>
        \E u \in Tables : u # t /\ Live(u) /\ \E i \in Slots(u) : Slot(u, i) = a
  BY DEF IInv, PairsOwned, Slot
<1>6. \A q, w : ~Found(t, q, w)'
  BY <1>2 DEF Found
<1>7. IInv'
  BY <1>2, <1>3, <1>4, <1>5, StepKeeps
<1> QED
  BY <1>2, <1>4, <1>6, <1>7

\* ObjectMapTableSet of a key it finds: the key has the new value, the others
\* what they had.
LEMMA ReplaceKeeps ==
    ASSUME IInv, NEW t \in Tables, Live(t), NEW k \in Keys, NEW v \in Values,
           Replace(t, k, v), answer' = "ok"
    PROVE  /\ IInv' /\ OnlyTable(t) /\ Live(t)'
           /\ \A q, w : Found(t, q, w)' <=> IF q = k THEN w = ObjectCopy(v) ELSE Found(t, q, w)
<1> USE DEF IInv
<1>1. PICK m, a, pair :
        /\ m = FirstMatch(t, k)
        /\ a = Slot(t, m)
        /\ pair = [heap[a] EXCEPT !.value = ObjectCopy(v)]
  OBVIOUS
<1>2. m \in Slots(t) /\ PairAt(t, m).key = k /\ k \in Comparable
  BY <1>1, SearchFinds DEF Replace
<1>3. a \in Addrs /\ heap[a] \in Pairs /\ heap[a].key = k /\ ObjectCopy(v) \in Stored
  BY <1>1, <1>2, Shape, SlotFacts, CopyStored
<1>4. heap' = [heap EXCEPT ![a] = pair] /\ UNCHANGED table
  BY <1>1 DEF Replace, Fail, Slot
<1>5. pair \in Pairs /\ pair.key = heap[a].key /\ pair.value = ObjectCopy(v)
  BY <1>1, <1>3 DEF Pairs
<1>6. heap'[a] = pair /\ \A b \in Addrs : b # a => heap'[b] = heap[b]
  BY <1>3, <1>4 DEF TypeOK
<1>7. TypeOK'
  BY <1>3, <1>4, <1>5 DEF TypeOK
<1>8. \A b \in Addrs : (heap'[b] = Null <=> heap[b] = Null) /\ (heap[b] # Null => heap'[b].key = heap[b].key)
  <2>1. pair # Null /\ heap[a] # Null
    BY <1>3, <1>5, ObjectTableAssumption
  <2> QED
    BY <2>1, <1>5, <1>6
<1>9. \A u \in Tables : (Live(u)' <=> Live(u)) /\ Slots(u)' = Slots(u)
  BY <1>4 DEF Live, Slots
<1>10. \A u \in Tables : Live(u) => \A j \in Slots(u) : PairAt(u, j)' # Null /\ PairAt(u, j)'.key = PairAt(u, j).key
  <2> SUFFICES ASSUME NEW u \in Tables, Live(u), NEW j \in Slots(u)
               PROVE  PairAt(u, j)' # Null /\ PairAt(u, j)'.key = PairAt(u, j).key
    OBVIOUS
  <2>1. Slot(u, j) \in Addrs /\ heap[Slot(u, j)] # Null
    BY Shape, SlotFacts, ObjectTableAssumption
  <2> QED
    BY <2>1, <1>4, <1>8 DEF PairAt, Slot
<1>11. PairsOwned'
  BY <1>4, <1>8, <1>9, <1>10 DEF PairsOwned
<1>12. KeysDistinct'
  BY <1>9, <1>10 DEF KeysDistinct, ObjectEquals
<1>13. CapacityPositive'
  BY <1>4, <1>9 DEF CapacityPositive
<1>14. ASSUME NEW u \in Tables, Live(u), NEW j \in Slots(u), u # t \/ j # m
       PROVE  heap'[Slot(u, j)] = heap[Slot(u, j)]
  <2>1. Slot(u, j) \in Addrs /\ Slot(u, j) # a
    BY <1>1, <1>2, <1>14, Shape, SlotFacts
  <2> QED
    BY <2>1, <1>6
<1>15. OnlyTable(t)
  BY <1>4, <1>14 DEF OnlyTable
<1>16. PairAt(t, m)' = pair
  BY <1>1, <1>4, <1>6 DEF PairAt, Slot
<1>17. \A j \in Slots(t) : j # m => PairAt(t, j)' = PairAt(t, j)
  BY <1>4, <1>14 DEF PairAt, Slot
<1>18. \A j \in Slots(t) : PairAt(t, j).key = k => j = m
  BY <1>2 DEF KeysDistinct, ObjectEquals
<1>19. ASSUME NEW q, NEW w PROVE Found(t, q, w)' <=> IF q = k THEN w = ObjectCopy(v) ELSE Found(t, q, w)
  <2>1. Found(t, q, w)' <=> \E j \in Slots(t) : PairAt(t, j)'.key = q /\ PairAt(t, j)'.value = w
    BY <1>9 DEF Found
  <2> QED
    BY ONLY <2>1, <1>2, <1>3, <1>5, <1>16, <1>17, <1>18 DEF Found
<1> QED
  BY <1>7, <1>9, <1>11, <1>12, <1>13, <1>15, <1>19

\* The array of a table has room for one more pair after it has grown.
LEMMA GrownFits ==
    ASSUME IInv, NEW t \in Tables, Live(t)
    PROVE  /\ Grown(t) \in Nat
           /\ Grown(t) >= table[t].capacity
           /\ Len(table[t].pairs) + 1 <= Grown(t)
<1>1. Len(table[t].pairs) \in Nat /\ table[t].capacity \in Nat
  BY Shape DEF IInv
<1>2. Len(table[t].pairs) <= table[t].capacity /\ table[t].capacity > 0
  BY DEF IInv, PairsOwned, CapacityPositive
<1> QED
  BY <1>1, <1>2 DEF Grown

\* ObjectMapTableSet of a key it does not find: one more pair.
LEMMA InsertKeeps ==
    ASSUME IInv, NEW t \in Tables, Live(t), NEW k \in Keys, NEW v \in Stored,
           Matches(t, k) = {}, answer' = "ok",
           NEW a \in Addrs, heap[a] = Null,
           heap' = [heap EXCEPT ![a] = [key |-> k, value |-> v]],
           table' = [table EXCEPT ![t] = [pairs |-> Append(table[t].pairs, a), capacity |-> Grown(t)]]
    PROVE  /\ IInv' /\ OnlyTable(t) /\ Live(t)'
           /\ \A q, w : Found(t, q, w)' <=> Found(t, q, w) \/ (q = k /\ w = v)
\* The array before and after the step, as constants.
<1>0. PICK n, s, c : n = Len(table[t].pairs) /\ s = Append(table[t].pairs, a) /\ c = Grown(t)
  OBVIOUS
<1> DEFINE pair == [key |-> k, value |-> v]
<1>1. TypeOK /\ n \in Nat /\ Slots(t) = 1 .. n /\ table[t].pairs \in Seq(Addrs)
  BY <1>0, Shape DEF IInv
<1>2. s \in Seq(Addrs) /\ Len(s) = n + 1 /\ s[n + 1] = a /\ \A i \in 1 .. n : s[i] = table[t].pairs[i]
  BY <1>0, <1>1, AppendProperties
<1>3. c \in Nat /\ n + 1 <= c /\ c > 0
  BY <1>0, <1>1, GrownFits
<1>4. /\ table' \in [Tables -> [pairs : Seq(Addrs), capacity : Nat] \union {Null}]
      /\ Live(t)'
      /\ table'[t].pairs = s /\ table'[t].capacity = c
      /\ Slots(t)' = 1 .. n + 1
      /\ \A i \in 1 .. n + 1 : Slot(t, i)' = s[i] /\ s[i] \in Addrs
      /\ \A u \in Tables : u # t => table'[u] = table[u]
  <2>1. table' = [table EXCEPT ![t] = [pairs |-> s, capacity |-> c]]
    BY <1>0
  <2>2. TypeOK /\ t \in Tables /\ s \in Seq(Addrs) /\ c \in Nat
    BY <1>1, <1>2, <1>3
  <2>3. /\ table' \in [Tables -> [pairs : Seq(Addrs), capacity : Nat] \union {Null}]
        /\ Live(t)'
        /\ table'[t].pairs = s /\ table'[t].capacity = c
        /\ Slots(t)' = 1 .. Len(s)
        /\ \A i \in 1 .. Len(s) : Slot(t, i)' = s[i] /\ s[i] \in Addrs
        /\ \A u \in Tables : u # t => table'[u] = table[u]
    BY ONLY <2>1, <2>2, NewArray, Zenon
  <2>4. Len(s) = n + 1
    BY <1>2
  <2> QED
    BY ONLY <2>3, <2>4, Zenon
<1>5. pair \in Pairs /\ pair.key = k
  BY DEF Pairs
<1> HIDE DEF pair
<1>6. heap'[a] = pair /\ pair # Null /\ \A b \in Addrs : b # a => heap'[b] = heap[b]
  BY <1>1, <1>5, ObjectTableAssumption DEF TypeOK, pair
<1>7. TypeOK'
  BY <1>1, <1>4, <1>5 DEF TypeOK, pair
\* The slots before the step hold other addresses, and the same pairs after it.
<1>8. ASSUME NEW u \in Tables, Live(u), NEW i \in Slots(u)
      PROVE  Slot(u, i) \in Addrs /\ Slot(u, i) # a /\ heap'[Slot(u, i)] = heap[Slot(u, i)]
  <2>1. Slot(u, i) \in Addrs /\ heap[Slot(u, i)] \in Pairs
    BY <1>1, <1>8, Shape, SlotFacts
  <2>2. Slot(u, i) # a
    BY <2>1, ObjectTableAssumption
  <2> QED
    BY <2>1, <2>2, <1>6
<1>9. OnlyTable(t)
  BY <1>4, <1>8 DEF OnlyTable
<1>10. \A i \in Slots(t)' : i \in Slots(t) \/ i = n + 1
  BY ONLY <1>1, <1>4
<1>11. \A i \in Slots(t) : i \in Slots(t)' /\ Slot(t, i)' = Slot(t, i) /\ PairAt(t, i)' = PairAt(t, i) /\ i # n + 1
  <2>1. \A i \in 1 .. n : i \in 1 .. n + 1 /\ i # n + 1 /\ s[i] = Slot(t, i)
    BY ONLY <1>1, <1>2 DEF Slot
  <2>2. \A i \in Slots(t) : Slot(t, i)' = Slot(t, i)
    BY ONLY <1>1, <1>4, <2>1
  <2>3. \A i \in Slots(t) : PairAt(t, i)' = heap'[Slot(t, i)'] /\ PairAt(t, i) = heap[Slot(t, i)]
    BY DEF PairAt, Slot
  <2>4. \A i \in Slots(t) : heap'[Slot(t, i)] = heap[Slot(t, i)]
    BY <1>8
  <2> QED
    BY ONLY <2>1, <2>2, <2>3, <2>4, <1>1, <1>4
<1>12. n + 1 \in Slots(t)' /\ Slot(t, n + 1)' = a /\ PairAt(t, n + 1)' = pair
  <2>1. n + 1 \in 1 .. n + 1
    BY <1>1
  <2> QED
    BY <2>1, <1>2, <1>4, <1>6 DEF PairAt, Slot
<1>13. \A i \in Slots(t) : PairAt(t, i) # Null /\ ~ObjectEquals(PairAt(t, i).key, k) /\ ~ObjectEquals(k, PairAt(t, i).key)
  BY DEF IInv, PairsOwned, Matches, ObjectEquals
<1>14. \A i, j \in Slots(t) : /\ Slot(t, i) = Slot(t, j) => i = j
                              /\ ObjectEquals(PairAt(t, i).key, PairAt(t, j).key) => i = j
  BY SlotFacts DEF IInv, KeysDistinct
<1>15. OwnTable(t)'
  <2>1. Len(table'[t].pairs) <= table'[t].capacity /\ table'[t].capacity > 0
    BY <1>2, <1>3, <1>4
  <2>2. \A i \in Slots(t)' : PairAt(t, i)' # Null
    BY ONLY <1>6, <1>10, <1>11, <1>12, <1>13
  <2>3. \A i \in Slots(t) : Slot(t, i) # a
    BY <1>8
  <2>4. \A i, j \in Slots(t)' : Slot(t, i)' = Slot(t, j)' => i = j
    BY ONLY <2>3, <1>10, <1>11, <1>12, <1>14
  <2>5. \A i, j \in Slots(t)' : ObjectEquals(PairAt(t, i)'.key, PairAt(t, j)'.key) => i = j
    BY ONLY <1>5, <1>10, <1>11, <1>12, <1>13, <1>14
  <2> QED
    BY ONLY <2>1, <2>2, <2>4, <2>5 DEF OwnTable
<1>16. \A u \in Tables : u # t /\ Live(u) /\ Live(t)' =>
         \A i \in Slots(t)', j \in Slots(u) : Slot(t, i)' # Slot(u, j)
  <2>1. \A u \in Tables : u # t /\ Live(u) => \A i \in Slots(t), j \in Slots(u) : Slot(t, i) # Slot(u, j)
    BY SlotFacts
  <2> QED
    BY <2>1, <1>8, <1>10, <1>11, <1>12
<1>17. \A b \in Addrs : heap'[b] # Null =>
         \/ Live(t)' /\ \E i \in Slots(t)' : Slot(t, i)' = b
         \/ \E u \in Tables : u # t /\ Live(u) /\ \E i \in Slots(u) : Slot(u, i) = b
  <2> SUFFICES ASSUME NEW b \in Addrs, heap'[b] # Null
               PROVE  \/ \E i \in Slots(t)' : Slot(t, i)' = b
                      \/ \E u \in Tables : u # t /\ Live(u) /\ \E i \in Slots(u) : Slot(u, i) = b
    BY <1>4
  <2>1. CASE b = a
    BY <2>1, <1>12
  <2>2. CASE b # a
    <3>1. heap[b] # Null
      BY <2>2, <1>6
    <3>2. PICK u \in Tables : Live(u) /\ \E i \in Slots(u) : Slot(u, i) = b
      BY <3>1 DEF IInv, PairsOwned, Slot
    <3> QED
      BY <3>2, <1>11
  <2> QED
    BY <2>1, <2>2
<1>18. \A q, w : Found(t, q, w)' <=> Found(t, q, w) \/ (q = k /\ w = v)
  <2>1. pair.key = k /\ pair.value = v
    BY DEF pair
  <2> QED
    BY ONLY <2>1, <1>10, <1>11, <1>12 DEF Found
<1>19. IInv'
  BY <1>7, <1>9, <1>15, <1>16, <1>17, StepKeeps
<1> QED
  BY <1>4, <1>9, <1>18, <1>19

\* ObjectMapTableRemove of a key it finds: that key and no other is gone.
LEMMA RemoveKeeps ==
    ASSUME IInv, NEW t \in Tables, Live(t), NEW k \in Keys, Matches(t, k) # {}, answer' = "ok",
           heap' = [heap EXCEPT ![Slot(t, FirstMatch(t, k))] = Null],
           table' = [table EXCEPT ![t] = [pairs |-> WithoutSlot(table[t].pairs, FirstMatch(t, k)),
                                          capacity |-> table[t].capacity]]
    PROVE  /\ IInv' /\ OnlyTable(t) /\ Live(t)'
           /\ \A q, w : Found(t, q, w)' <=> Found(t, q, w) /\ q # k
<1>0. PICK m, n, a, s, c :
        /\ m = FirstMatch(t, k) /\ n = Len(table[t].pairs) /\ a = Slot(t, m)
        /\ s = WithoutSlot(table[t].pairs, m) /\ c = table[t].capacity
  OBVIOUS
<1>1. /\ TypeOK /\ n \in Nat /\ Slots(t) = 1 .. n /\ table[t].pairs \in Seq(Addrs) /\ c \in Nat
      /\ \A i \in 1 .. n : Slot(t, i) \in Addrs
  BY <1>0, Shape DEF IInv
<1>2. m \in 1 .. n /\ a \in Addrs /\ PairAt(t, m).key = k /\ k \in Comparable
  BY <1>0, <1>1, SearchFinds
<1> DEFINE from(j) == IF j < m THEN j ELSE j + 1
<1>3. s \in Seq(Addrs) /\ Len(s) = n - 1 /\ \A j \in 1 .. n - 1 : s[j] = table[t].pairs[from(j)]
  <2>1. s = [j \in 1 .. n - 1 |-> IF j < m THEN table[t].pairs[j] ELSE table[t].pairs[j + 1]]
    BY <1>0 DEF WithoutSlot
  <2> QED
    BY <2>1, <1>0, <1>1, <1>2, ShiftUp
<1>4. /\ table' \in [Tables -> [pairs : Seq(Addrs), capacity : Nat] \union {Null}]
      /\ Live(t)'
      /\ table'[t].pairs = s /\ table'[t].capacity = c
      /\ Slots(t)' = 1 .. n - 1
      /\ \A i \in 1 .. n - 1 : Slot(t, i)' = s[i] /\ s[i] \in Addrs
      /\ \A u \in Tables : u # t => table'[u] = table[u]
  <2>1. table' = [table EXCEPT ![t] = [pairs |-> s, capacity |-> c]]
    BY <1>0
  <2>2. TypeOK /\ t \in Tables /\ s \in Seq(Addrs) /\ c \in Nat
    BY <1>1, <1>3
  <2>3. /\ table' \in [Tables -> [pairs : Seq(Addrs), capacity : Nat] \union {Null}]
        /\ Live(t)'
        /\ table'[t].pairs = s /\ table'[t].capacity = c
        /\ Slots(t)' = 1 .. Len(s)
        /\ \A i \in 1 .. Len(s) : Slot(t, i)' = s[i] /\ s[i] \in Addrs
        /\ \A u \in Tables : u # t => table'[u] = table[u]
    BY ONLY <2>1, <2>2, NewArray, Zenon
  <2>4. Len(s) = n - 1
    BY <1>3
  <2> QED
    BY ONLY <2>3, <2>4, Zenon
<1>5. heap'[a] = Null /\ \A b \in Addrs : b # a => heap'[b] = heap[b]
  BY <1>0, <1>1, <1>2 DEF TypeOK
<1>6. TypeOK'
  BY <1>0, <1>1, <1>4 DEF TypeOK
<1>7. \A j \in 1 .. n - 1 : from(j) \in 1 .. n /\ from(j) # m
  BY ONLY <1>1, <1>2
<1>8. \A i, j \in 1 .. n - 1 : from(i) = from(j) => i = j
  BY ONLY <1>1, <1>2
<1>9. \A i \in 1 .. n : i # m => \E j \in 1 .. n - 1 : from(j) = i
  <2>1. \A i \in 1 .. n : i < m => i \in 1 .. n - 1 /\ from(i) = i
    BY ONLY <1>1, <1>2
  <2>2. \A i \in 1 .. n : i > m => i - 1 \in 1 .. n - 1 /\ from(i - 1) = i
    BY ONLY <1>1, <1>2
  <2> HIDE DEF from
  <2>3. \A i \in 1 .. n : i # m => i < m \/ i > m
    BY ONLY <1>1, <1>2
  <2> QED
    BY ONLY <2>1, <2>2, <2>3
<1> HIDE DEF from
<1>10. \A i, j \in Slots(t) : /\ PairAt(t, i) # Null
                              /\ Slot(t, i) = Slot(t, j) => i = j
                              /\ ObjectEquals(PairAt(t, i).key, PairAt(t, j).key) => i = j
  BY SlotFacts, ObjectTableAssumption DEF IInv, KeysDistinct
<1>11. \A i \in 1 .. n : i # m => Slot(t, i) # a
  BY <1>0, <1>1, <1>2, <1>10
<1>12. \A j \in 1 .. n - 1 : Slot(t, j)' = Slot(t, from(j))
  BY ONLY <1>3, <1>4 DEF Slot
<1>13. \A j \in 1 .. n - 1 : PairAt(t, j)' = PairAt(t, from(j))
  <2>1. \A j \in 1 .. n - 1 : PairAt(t, j)' = heap'[Slot(t, j)'] /\ PairAt(t, from(j)) = heap[Slot(t, from(j))]
    BY DEF PairAt, Slot
  <2>2. \A j \in 1 .. n - 1 : heap'[Slot(t, from(j))] = heap[Slot(t, from(j))]
    BY ONLY <1>1, <1>5, <1>7, <1>11
  <2> QED
    BY ONLY <2>1, <2>2, <1>12
<1>14. ASSUME NEW u \in Tables, u # t, Live(u), NEW j \in Slots(u)
       PROVE  /\ Slot(u, j) \in Addrs
              /\ heap'[Slot(u, j)] = heap[Slot(u, j)]
              /\ \A i \in Slots(t) : Slot(t, i) # Slot(u, j)
  <2>1. Slot(u, j) \in Addrs /\ \A i \in Slots(t) : Slot(t, i) # Slot(u, j)
    BY <1>1, <1>14, Shape, SlotFacts
  <2> QED
    BY <2>1, <1>0, <1>1, <1>2, <1>5
<1>15. OnlyTable(t)
  BY <1>4, <1>14 DEF OnlyTable
<1>16. OwnTable(t)'
  <2>1. n <= c /\ c > 0
    BY <1>0 DEF IInv, PairsOwned, CapacityPositive
  <2>2. Len(table'[t].pairs) <= table'[t].capacity /\ table'[t].capacity > 0
    BY ONLY <2>1, <1>1, <1>3, <1>4
  <2>3. \A i \in 1 .. n - 1 : PairAt(t, i)' # Null
    BY ONLY <1>1, <1>7, <1>10, <1>13
  <2>4. \A i, j \in 1 .. n - 1 : Slot(t, i)' = Slot(t, j)' => i = j
    BY ONLY <1>1, <1>7, <1>8, <1>10, <1>12
  <2>5. \A i, j \in 1 .. n - 1 : ObjectEquals(PairAt(t, i)'.key, PairAt(t, j)'.key) => i = j
    BY ONLY <1>1, <1>7, <1>8, <1>10, <1>13
  <2> QED
    BY ONLY <2>2, <2>3, <2>4, <2>5, <1>4 DEF OwnTable
<1>17. \A u \in Tables : u # t /\ Live(u) /\ Live(t)' =>
         \A i \in Slots(t)', j \in Slots(u) : Slot(t, i)' # Slot(u, j)
  BY ONLY <1>1, <1>4, <1>7, <1>12, <1>14
<1>18. \A b \in Addrs : heap'[b] # Null =>
         \/ Live(t)' /\ \E i \in Slots(t)' : Slot(t, i)' = b
         \/ \E u \in Tables : u # t /\ Live(u) /\ \E i \in Slots(u) : Slot(u, i) = b
  <2> SUFFICES ASSUME NEW b \in Addrs, heap'[b] # Null
               PROVE  \/ \E i \in Slots(t)' : Slot(t, i)' = b
                      \/ \E u \in Tables : u # t /\ Live(u) /\ \E i \in Slots(u) : Slot(u, i) = b
    BY <1>4
  <2>1. b # a /\ heap[b] # Null
    BY <1>5
  <2>2. PICK u \in Tables : Live(u) /\ \E i \in Slots(u) : Slot(u, i) = b
    BY <2>1 DEF IInv, PairsOwned, Slot
  <2>3. CASE u = t
    <3>1. PICK i \in 1 .. n : Slot(t, i) = b
      BY <2>2, <2>3, <1>1
    <3>2. i # m
      BY <3>1, <2>1, <1>0
    <3>3. PICK j \in 1 .. n - 1 : from(j) = i
      BY <3>2, <1>9
    <3> QED
      BY <3>1, <3>3, <1>4, <1>12
  <2>4. CASE u # t
    BY <2>2, <2>4
  <2> QED
    BY <2>3, <2>4
<1>19. \A i \in 1 .. n : PairAt(t, i).key = k => i = m
  BY ONLY <1>1, <1>2, <1>10 DEF ObjectEquals
<1>20. ASSUME NEW q, NEW w PROVE Found(t, q, w)' <=> Found(t, q, w) /\ q # k
  <2>1. ASSUME Found(t, q, w)' PROVE Found(t, q, w) /\ q # k
    <3>1. PICK j \in 1 .. n - 1 : PairAt(t, j)'.key = q /\ PairAt(t, j)'.value = w
      BY <2>1, <1>4 DEF Found
    <3>2. from(j) \in Slots(t) /\ from(j) # m /\ PairAt(t, from(j)).key = q /\ PairAt(t, from(j)).value = w
      BY ONLY <3>1, <1>1, <1>7, <1>13
    <3> QED
      BY <3>2, <1>1, <1>19 DEF Found
  <2>2. ASSUME Found(t, q, w), q # k PROVE Found(t, q, w)'
    <3>1. PICK i \in 1 .. n : PairAt(t, i).key = q /\ PairAt(t, i).value = w
      BY <2>2, <1>1 DEF Found
    <3>2. PICK j \in 1 .. n - 1 : from(j) = i
      BY <3>1, <2>2, <1>2, <1>9
    <3>3. PairAt(t, j)'.key = q /\ PairAt(t, j)'.value = w /\ j \in Slots(t)'
      BY ONLY <3>1, <3>2, <1>4, <1>13
    <3> QED
      BY <3>3 DEF Found
  <2> QED
    BY <2>1, <2>2
<1>21. IInv'
  BY <1>6, <1>15, <1>16, <1>17, <1>18, StepKeeps
<1> QED
  BY <1>4, <1>15, <1>20, <1>21

\* ObjectMapTableCopy: the same is found in the copy.
LEMMA CopyKeeps ==
    ASSUME IInv, NEW r \in Tables, NEW t \in Tables, Live(r), ~Live(t),
           NEW new \in [Slots(r) -> {a \in Addrs : heap[a] = Null}],
           \A i, j \in Slots(r) : new[i] = new[j] => i = j,
           heap' = [a \in Addrs |-> IF \E i \in Slots(r) : new[i] = a
                                    THEN PairAt(r, CHOOSE i \in Slots(r) : new[i] = a)
                                    ELSE heap[a]],
           NEW c \in GrownFor(Len(table[r].pairs)),
           table' = [table EXCEPT ![t] = [pairs |-> new, capacity |-> c]],
           answer' = "ok"
    PROVE  /\ IInv' /\ OnlyTable(t) /\ Live(t)'
           /\ \A q, w : Found(t, q, w)' <=> Found(r, q, w)
<1>0. PICK n : n = Len(table[r].pairs)
  OBVIOUS
<1>1. TypeOK /\ n \in Nat /\ Slots(r) = 1 .. n
  BY <1>0, Shape DEF IInv
<1>2. c \in Nat /\ n <= c /\ c > 0
  BY <1>0, <1>1, ObjectTableAssumption DEF GrownFor
<1>3. new \in Seq(Addrs) /\ Len(new) = n
  <2>1. new \in [1 .. n -> Addrs]
    BY <1>1
  <2> QED
    BY ONLY <2>1, <1>1
<1>4. /\ table' \in [Tables -> [pairs : Seq(Addrs), capacity : Nat] \union {Null}]
      /\ Live(t)'
      /\ table'[t].pairs = new /\ table'[t].capacity = c
      /\ Slots(t)' = 1 .. n
      /\ \A i \in 1 .. n : Slot(t, i)' = new[i] /\ new[i] \in Addrs
      /\ \A u \in Tables : u # t => table'[u] = table[u]
  BY <1>1, <1>2, <1>3, NewArray
<1>5. \A i \in 1 .. n : heap[new[i]] = Null /\ heap'[new[i]] = PairAt(r, i) /\ new[i] \in Addrs
  <2> SUFFICES ASSUME NEW i \in 1 .. n
               PROVE  heap[new[i]] = Null /\ heap'[new[i]] = PairAt(r, i) /\ new[i] \in Addrs
    OBVIOUS
  <2>1. i \in Slots(r) /\ new[i] \in Addrs /\ heap[new[i]] = Null
    BY <1>1
  <2>2. (CHOOSE j \in Slots(r) : new[j] = new[i]) = i
    BY <2>1
  <2> QED
    BY <2>1, <2>2
<1>6. \A a \in Addrs : (\A i \in 1 .. n : new[i] # a) => heap'[a] = heap[a]
  BY <1>1
<1>7. \A i \in 1 .. n : PairAt(r, i) \in Pairs
  BY <1>1, SlotFacts
<1>8. TypeOK'
  <2>1. \A a \in Addrs : heap'[a] \in Pairs \union {Null}
    BY <1>1, <1>5, <1>6, <1>7 DEF TypeOK
  <2>2. heap' \in [Addrs -> Pairs \union {Null}]
    BY <2>1
  <2> QED
    BY <2>2, <1>4 DEF TypeOK
<1>9. \A i \in 1 .. n : PairAt(t, i)' = PairAt(r, i)
  <2> SUFFICES ASSUME NEW i \in 1 .. n PROVE PairAt(t, i)' = PairAt(r, i)
    OBVIOUS
  <2>1. Slot(t, i)' = new[i] /\ heap'[new[i]] = PairAt(r, i)
    BY ONLY <1>4, <1>5
  <2>2. PairAt(t, i)' = heap'[Slot(t, i)']
    BY ONLY DEF PairAt, Slot
  <2> QED
    BY ONLY <2>1, <2>2
<1>10. ASSUME NEW u \in Tables, Live(u), NEW j \in Slots(u)
       PROVE  heap'[Slot(u, j)] = heap[Slot(u, j)] /\ \A i \in 1 .. n : new[i] # Slot(u, j)
  <2>1. Slot(u, j) \in Addrs /\ heap[Slot(u, j)] \in Pairs
    BY <1>1, <1>10, Shape, SlotFacts
  <2>2. \A i \in 1 .. n : new[i] # Slot(u, j)
    BY <2>1, <1>5, ObjectTableAssumption
  <2> QED
    BY <2>1, <2>2, <1>6
<1>11. OnlyTable(t)
  BY ONLY <1>4, <1>10 DEF OnlyTable
<1>12. OwnTable(t)'
  <2>1. \A i, j \in 1 .. n : ObjectEquals(PairAt(r, i).key, PairAt(r, j).key) => i = j
    BY <1>1 DEF IInv, KeysDistinct
  <2>2. \A i \in 1 .. n : PairAt(t, i)' # Null
    BY <1>7, <1>9, ObjectTableAssumption
  <2>3. \A i, j \in 1 .. n : Slot(t, i)' = Slot(t, j)' => i = j
    BY <1>1, <1>4
  <2>4. \A i, j \in 1 .. n : ObjectEquals(PairAt(t, i)'.key, PairAt(t, j)'.key) => i = j
    BY ONLY <2>1, <1>9
  <2> QED
    BY ONLY <2>2, <2>3, <2>4, <1>2, <1>3, <1>4 DEF OwnTable
<1>13. \A u \in Tables : u # t /\ Live(u) /\ Live(t)' =>
         \A i \in Slots(t)', j \in Slots(u) : Slot(t, i)' # Slot(u, j)
  BY ONLY <1>4, <1>10
<1>14. \A b \in Addrs : heap'[b] # Null =>
         \/ Live(t)' /\ \E i \in Slots(t)' : Slot(t, i)' = b
         \/ \E u \in Tables : u # t /\ Live(u) /\ \E i \in Slots(u) : Slot(u, i) = b
  <2> SUFFICES ASSUME NEW b \in Addrs, heap'[b] # Null
               PROVE  \/ \E i \in 1 .. n : Slot(t, i)' = b
                      \/ \E u \in Tables : u # t /\ Live(u) /\ \E i \in Slots(u) : Slot(u, i) = b
    BY <1>4
  <2>1. CASE \E i \in 1 .. n : new[i] = b
    BY ONLY <2>1, <1>4
  <2>2. CASE \A i \in 1 .. n : new[i] # b
    <3>1. heap[b] # Null
      BY <2>2, <1>6
    <3>2. PICK u \in Tables : Live(u) /\ \E i \in Slots(u) : Slot(u, i) = b
      BY <3>1 DEF IInv, PairsOwned, Slot
    <3> QED
      BY <3>2
  <2> QED
    BY <2>1, <2>2
<1>15. \A q, w : Found(t, q, w)' <=> Found(r, q, w)
  BY ONLY <1>1, <1>4, <1>9 DEF Found
<1>16. IInv'
  BY <1>8, <1>11, <1>12, <1>13, <1>14, StepKeeps
<1> QED
  BY <1>4, <1>11, <1>15, <1>16

\* ObjectMapTableFree: the table is gone, with its pairs and no others.
LEMMA FreeKeeps ==
    ASSUME IInv, NEW t \in Tables, ObjectMapTableFree(t)
    PROVE  IInv' /\ OnlyTable(t) /\ ~Live(t)'
<1> USE DEF ObjectMapTableFree
<1>1. TypeOK /\ \A a \in Addrs : heap'[a] = IF \E i \in Slots(t) : Slot(t, i) = a THEN Null ELSE heap[a]
  BY DEF IInv, Slot
<1>2. TypeOK'
  BY <1>1 DEF TypeOK
<1>3. ~Live(t)' /\ \A u \in Tables : u # t => table'[u] = table[u]
  BY <1>1 DEF TypeOK, Live
<1>4. \A u \in Tables : u # t /\ Live(u) => \A j \in Slots(u) : heap'[Slot(u, j)] = heap[Slot(u, j)]
  <2> SUFFICES ASSUME NEW u \in Tables, u # t, Live(u), NEW j \in Slots(u)
               PROVE  heap'[Slot(u, j)] = heap[Slot(u, j)]
    OBVIOUS
  <2>1. Slot(u, j) \in Addrs /\ \A i \in Slots(t) : Slot(t, i) # Slot(u, j)
    BY <1>1, Shape, SlotFacts
  <2> QED
    BY <2>1, <1>1
<1>5. OnlyTable(t) /\ OwnTable(t)'
  BY <1>3, <1>4 DEF OnlyTable, OwnTable
<1>6. \A b \in Addrs : heap'[b] # Null =>
        \E u \in Tables : u # t /\ Live(u) /\ \E i \in Slots(u) : Slot(u, i) = b
  <2> SUFFICES ASSUME NEW b \in Addrs, heap'[b] # Null
               PROVE  \E u \in Tables : u # t /\ Live(u) /\ \E i \in Slots(u) : Slot(u, i) = b
    OBVIOUS
  <2>1. heap[b] # Null /\ ~\E i \in Slots(t) : Slot(t, i) = b
    BY <1>1
  <2>2. PICK u \in Tables : Live(u) /\ \E i \in Slots(u) : Slot(u, i) = b
    BY <2>1 DEF IInv, PairsOwned, Slot
  <2> QED
    BY <2>1, <2>2
<1>7. IInv'
  BY <1>2, <1>3, <1>5, <1>6, StepKeeps
<1> QED
  BY <1>3, <1>5, <1>7

-----------------------------------------------------------------------------
\* How ObjectMapTableSet and ObjectMapTableRemove write one field.
LEMMA WholeRecord ==
    ASSUME TypeOK, NEW t \in Tables, Live(t)
    PROVE  /\ [table EXCEPT ![t].capacity = Grown(t)]
                     = [table EXCEPT ![t] = [pairs |-> table[t].pairs, capacity |-> Grown(t)]]
           /\ \A i : [table EXCEPT ![t].pairs = WithoutSlot(@, i)]
                     = [table EXCEPT ![t] = [pairs |-> WithoutSlot(table[t].pairs, i), capacity |-> table[t].capacity]]
<1>1. table[t] \in [pairs : Seq(Addrs), capacity : Nat]
  BY Shape
<1>2. \A x : [table[t] EXCEPT !.pairs = x] = [pairs |-> x, capacity |-> table[t].capacity]
  BY <1>1
<1>3. \A x : [table[t] EXCEPT !.capacity = x] = [pairs |-> table[t].pairs, capacity |-> x]
  BY <1>1
<1>4. [table EXCEPT ![t].capacity = Grown(t)]
      = [table EXCEPT ![t] = [pairs |-> table[t].pairs, capacity |-> Grown(t)]]
  BY <1>3
<1>5. ASSUME NEW i
      PROVE  [table EXCEPT ![t].pairs = WithoutSlot(@, i)]
             = [table EXCEPT ![t] = [pairs |-> WithoutSlot(table[t].pairs, i), capacity |-> table[t].capacity]]
  BY <1>2
<1> QED
  BY <1>4, <1>5

\* A call that fails.
LEMMA FailKeeps == ASSUME IInv, Fail PROVE IInv'
<1>1. /\ table' \in [Tables -> [pairs : Seq(Addrs), capacity : Nat] \union {Null}]
      /\ \A t \in Tables : Live(t)' <=> Live(t)
      /\ \A t \in Tables : Live(t) => table'[t].capacity >= table[t].capacity
  <2>1. \A t \in Tables : Live(t) => table[t].capacity \in Nat
    BY Shape DEF IInv
  <2> QED
    BY <2>1 DEF Fail, IInv, TypeOK, Live
<1> QED
  BY <1>1, AnswerKeeps DEF Fail

\* ObjectMapTableSet, whichever allocation fails.
LEMMA SetKeeps ==
    ASSUME IInv, NEW t \in Tables, NEW k \in Keys, NEW v \in Values,
           ObjectMapTableSet(t, k, v)
    PROVE  IInv'
<1> USE DEF ObjectMapTableSet
<1>0. TypeOK /\ Live(t) /\ ObjectCopy(v) \in Stored
  BY CopyStored DEF IInv
<1>1. CASE Fail
  BY <1>1, FailKeeps
<1>2. CASE Replace(t, k, v) /\ ~Fail
  BY <1>0, <1>2, ReplaceKeeps DEF Replace
<1>3. ASSUME Matches(t, k) = {}, answer' = "ok", NEW a \in Addrs, heap[a] = Null,
             heap' = [heap EXCEPT ![a] = [key |-> k, value |-> ObjectCopy(v)]],
             table' = [table EXCEPT ![t] = [pairs |-> Append(@.pairs, a), capacity |-> Grown(t)]]
      PROVE  IInv'
  <2>1. table' = [table EXCEPT ![t] = [pairs |-> Append(table[t].pairs, a), capacity |-> Grown(t)]]
    BY <1>3
  <2> QED
    BY <1>0, <1>3, <2>1, InsertKeeps
<1>4. CASE table' = [table EXCEPT ![t].capacity = Grown(t)] /\ answer' = "fail" /\ UNCHANGED heap
  <2>1. PICK s, c : s = table[t].pairs /\ c = Grown(t)
    OBVIOUS
  <2>2. s \in Seq(Addrs) /\ c \in Nat /\ c >= table[t].capacity
    BY <2>1, <1>0, Shape, GrownFits
  <2>3. table' = [table EXCEPT ![t] = [pairs |-> s, capacity |-> c]]
    BY <1>0, <1>4, <2>1, WholeRecord
  <2>4. /\ table' \in [Tables -> [pairs : Seq(Addrs), capacity : Nat] \union {Null}]
        /\ Live(t)' /\ table'[t].pairs = s /\ table'[t].capacity = c
        /\ \A u \in Tables : u # t => table'[u] = table[u]
    BY ONLY <2>2, <2>3, <1>0, NewArray
  <2>5. \A u \in Tables : Live(u) => table[u].capacity \in Nat
    BY <1>0, Shape
  <2>6. \A u \in Tables : Live(u)' <=> Live(u)
    BY <2>4, <1>0 DEF Live
  <2>7. \A u \in Tables : Live(u) => table'[u].pairs = table[u].pairs /\ table'[u].capacity >= table[u].capacity
    BY ONLY <2>1, <2>2, <2>4, <2>5
  <2> QED
    BY <1>4, <2>4, <2>6, <2>7, AnswerKeeps
<1> QED
  BY <1>1, <1>2, <1>3, <1>4 DEF Insert

\* ObjectMapTableGet answers a stored value or none.
LEMMA GetKeeps ==
    ASSUME IInv, NEW t \in Tables, NEW k \in Keys, ObjectMapTableGet(t, k)
    PROVE  IInv' /\ (Matches(t, k) = {} => answer' = NoValue)
<1> USE DEF ObjectMapTableGet
<1>1. answer' \in {NoValue} \union Stored
  <2>1. CASE Matches(t, k) = {}
    BY <2>1
  <2>2. CASE Matches(t, k) # {}
    <3>1. PairAt(t, FirstMatch(t, k)) \in Pairs
      BY <2>2, SearchFinds, SlotFacts
    <3> QED
      BY <2>2, <3>1 DEF Pairs
  <2> QED
    BY <2>1, <2>2
<1>2. /\ table' \in [Tables -> [pairs : Seq(Addrs), capacity : Nat] \union {Null}]
      /\ \A u \in Tables : Live(u)' <=> Live(u)
      /\ \A u \in Tables : Live(u) => table'[u].capacity >= table[u].capacity
  <2>1. \A u \in Tables : Live(u) => table[u].capacity \in Nat
    BY Shape DEF IInv
  <2> QED
    BY <2>1 DEF IInv, TypeOK, Live
<1>3. IInv'
  BY <1>1, <1>2, AnswerKeeps
<1> QED
  BY <1>3

\* ObjectMapTableRemove, whether it finds the key or not.
LEMMA RemoveStepKeeps ==
    ASSUME IInv, NEW t \in Tables, NEW k \in Keys, ObjectMapTableRemove(t, k)
    PROVE  IInv'
<1> USE DEF ObjectMapTableRemove
<1>0. TypeOK /\ Live(t)
  BY DEF IInv
<1>1. CASE Matches(t, k) = {}
  BY <1>1, FailKeeps
<1>2. CASE Matches(t, k) # {}
  <2>1. table' = [table EXCEPT ![t].pairs = WithoutSlot(@, FirstMatch(t, k))]
    BY <1>2
  <2>2. table' = [table EXCEPT ![t] = [pairs |-> WithoutSlot(table[t].pairs, FirstMatch(t, k)),
                                       capacity |-> table[t].capacity]]
    BY <1>0, <2>1, WholeRecord
  <2> QED
    BY <1>0, <1>2, <2>2, RemoveKeeps DEF Slot
<1> QED
  BY <1>1, <1>2

\* Every step keeps the invariant.
LEMMA NextIInv == IInv /\ [Next]_vars => IInv'
<1> SUFFICES ASSUME IInv, [Next]_vars PROVE IInv'
  OBVIOUS
<1>1. ASSUME NEW t \in Tables, ObjectMapTableCreate(t) PROVE IInv'
  BY <1>1, CreateKeeps, FailKeeps DEF ObjectMapTableCreate
<1>2. ASSUME NEW r \in Tables, NEW t \in Tables, ObjectMapTableCopy(r, t) PROVE IInv'
  BY <1>2, CopyKeeps, FailKeeps DEF ObjectMapTableCopy
<1>3. CASE UNCHANGED vars
  BY <1>3 DEF vars, IInv, TypeOK, PairsOwned, KeysDistinct, CapacityPositive, Live, Slots, PairAt
<1> QED
  BY <1>1, <1>2, <1>3, SetKeeps, GetKeeps, RemoveStepKeeps, FreeKeeps DEF Next

\* The invariant holds always.
LEMMA Inductive == Spec => []IInv
  BY InitIInv, NextIInv, PTL DEF Spec

-----------------------------------------------------------------------------
(***************************************************************************)
(* ObjectTable implements MapSpec.  MapOf is determined by what is found   *)
(* in a table (MapAt); each operation changes that as MapSpec says, and    *)
(* the other tables keep what is found in them.                            *)
(***************************************************************************)

FoundInMap ==
    \A t \in Tables :
        /\ ~Live(t) => MapOf(t) = Null
        /\ IInv /\ Live(t) =>
            /\ MapOf(t) \in [Comparable -> Stored \union {NoValue}]
            /\ MapOf(t) # Null
            /\ \A k \in Comparable : \A w : Found(t, k, w) => w \in Stored /\ MapOf(t)[k] = w
            /\ \A k \in Comparable : (\A w : ~Found(t, k, w)) => MapOf(t)[k] = NoValue

\* The map of a table holds what is found in it.
LEMMA MapAt == FoundInMap
<1> SUFFICES ASSUME NEW t \in Tables, IInv, Live(t)
             PROVE  /\ MapOf(t) \in [Comparable -> Stored \union {NoValue}]
                    /\ MapOf(t) # Null
                    /\ \A k \in Comparable : \A w : Found(t, k, w) => w \in Stored /\ MapOf(t)[k] = w
                    /\ \A k \in Comparable : (\A w : ~Found(t, k, w)) => MapOf(t)[k] = NoValue
  BY DEF FoundInMap, MapOf
<1>1. MapOf(t) = [k \in Comparable |-> IF Holds(t, k) THEN Held(t, k) ELSE NoValue]
  BY DEF MapOf
<1>2. \A i \in Slots(t) : PairAt(t, i).key \in Keys /\ PairAt(t, i).value \in Stored
  BY SlotFacts DEF Pairs
<1>3. ASSUME NEW k \in Comparable, NEW i \in Slots(t), PairAt(t, i).key = k
      PROVE  Holds(t, k) /\ Held(t, k) = PairAt(t, i).value
  <2>1. \A j \in Slots(t) : PairAt(t, j).key = k => j = i
    BY <1>3 DEF IInv, KeysDistinct, ObjectEquals
  <2>2. (CHOOSE j \in Slots(t) : PairAt(t, j).key = k) = i
    BY <1>3, <2>1
  <2> QED
    BY <1>3, <2>2 DEF Holds, Held
<1>4. \A k \in Comparable : \A w : Found(t, k, w) => w \in Stored /\ Holds(t, k) /\ Held(t, k) = w
  BY <1>2, <1>3 DEF Found
<1>5. \A k \in Comparable : (\A w : ~Found(t, k, w)) => ~Holds(t, k)
  BY DEF Found, Holds
<1>6. \A k \in Comparable : Holds(t, k) => Held(t, k) \in Stored
  BY <1>2, <1>3 DEF Holds
<1>7. MapOf(t) \in [Comparable -> Stored \union {NoValue}]
  BY <1>1, <1>6
<1> QED
  BY <1>1, <1>4, <1>5, <1>7, ObjectTableAssumption

\* The same after a step.
LEMMA MapAtNext ==
    ASSUME NEW t \in Tables
    PROVE  /\ ~Live(t)' => MapOf(t)' = Null
           /\ IInv' /\ Live(t)' =>
                /\ MapOf(t)' \in [Comparable -> Stored \union {NoValue}]
                /\ \A k \in Comparable : \A w : Found(t, k, w)' => w \in Stored /\ MapOf(t)'[k] = w
                /\ \A k \in Comparable : (\A w : ~Found(t, k, w)') => MapOf(t)'[k] = NoValue
<1>1. FoundInMap'
  BY MapAt, PTL
<1> QED
  BY <1>1 DEF FoundInMap

\* What is found determines the map.
LEMMA SameMap ==
    ASSUME IInv, IInv', NEW t \in Tables, NEW u \in Tables, Live(u), Live(t)',
           \A q, w : Found(t, q, w)' <=> Found(u, q, w)
    PROVE  MapOf(t)' = MapOf(u)
<1>1. /\ MapOf(u) \in [Comparable -> Stored \union {NoValue}]
      /\ \A k \in Comparable : \A w : Found(u, k, w) => MapOf(u)[k] = w
      /\ \A k \in Comparable : (\A w : ~Found(u, k, w)) => MapOf(u)[k] = NoValue
  BY MapAt DEF FoundInMap
<1>2. /\ MapOf(t)' \in [Comparable -> Stored \union {NoValue}]
      /\ \A k \in Comparable : \A w : Found(t, k, w)' => MapOf(t)'[k] = w
      /\ \A k \in Comparable : (\A w : ~Found(t, k, w)') => MapOf(t)'[k] = NoValue
  BY MapAtNext
<1>3. \A k \in Comparable : MapOf(t)'[k] = MapOf(u)[k]
  BY <1>1, <1>2
<1> QED
  BY ONLY <1>1, <1>2, <1>3

\* The map of t after a step that changes what is found under one key.
LEMMA OneKey ==
    ASSUME IInv, IInv', NEW t \in Tables, Live(t), Live(t)', NEW k \in Comparable, NEW v,
           \A q, w : q # k => (Found(t, q, w)' <=> Found(t, q, w)),
           \/ Found(t, k, v)'
           \/ v = NoValue /\ \A w : ~Found(t, k, w)'
    PROVE  MapOf(t)' = [MapOf(t) EXCEPT ![k] = v]
<1>1. /\ MapOf(t) \in [Comparable -> Stored \union {NoValue}]
      /\ \A q \in Comparable : \A w : Found(t, q, w) => MapOf(t)[q] = w
      /\ \A q \in Comparable : (\A w : ~Found(t, q, w)) => MapOf(t)[q] = NoValue
  BY MapAt DEF FoundInMap
<1>2. /\ MapOf(t)' \in [Comparable -> Stored \union {NoValue}]
      /\ \A q \in Comparable : \A w : Found(t, q, w)' => MapOf(t)'[q] = w
      /\ \A q \in Comparable : (\A w : ~Found(t, q, w)') => MapOf(t)'[q] = NoValue
  BY MapAtNext
<1>3. \A q \in Comparable : q # k => MapOf(t)'[q] = MapOf(t)[q]
  BY <1>1, <1>2
<1>4. MapOf(t)'[k] = v
  BY <1>2
<1> QED
  BY ONLY <1>1, <1>2, <1>3, <1>4

\* A step on one table leaves the maps of the others.
LEMMA OthersStay ==
    ASSUME IInv, IInv', NEW t \in Tables, OnlyTable(t)
    PROVE  \A u \in Tables : u # t => MapOf(u)' = MapOf(u)
<1> SUFFICES ASSUME NEW u \in Tables, u # t PROVE MapOf(u)' = MapOf(u)
  OBVIOUS
<1>1. table'[u] = table[u] /\ (Live(u)' <=> Live(u)) /\ Slots(u)' = Slots(u)
  BY DEF OnlyTable, Live, Slots
<1>2. CASE Live(u)
  <2>1. \A i \in Slots(u) : PairAt(u, i)' = PairAt(u, i)
    BY <1>1, <1>2 DEF OnlyTable, PairAt, Slot
  <2>2. \A q, w : Found(u, q, w)' <=> Found(u, q, w)
    BY ONLY <1>1, <2>1 DEF Found
  <2> QED
    BY <1>1, <1>2, <2>2, SameMap
<1>3. CASE ~Live(u)
  BY <1>1, <1>3, MapAt, MapAtNext DEF FoundInMap
<1> QED
  BY <1>2, <1>3

\* A step that leaves all arrays and pairs leaves the maps.
LEMMA AllStay ==
    ASSUME IInv, IInv', UNCHANGED heap, \A u \in Tables : Live(u)' <=> Live(u),
           \A u \in Tables : Live(u) => table'[u].pairs = table[u].pairs
    PROVE  \A u \in Tables : MapOf(u)' = MapOf(u)
<1> SUFFICES ASSUME NEW u \in Tables PROVE MapOf(u)' = MapOf(u)
  OBVIOUS
<1>1. CASE Live(u)
  <2>1. Slots(u)' = Slots(u) /\ \A i \in Slots(u) : PairAt(u, i)' = PairAt(u, i)
    BY <1>1 DEF Slots, PairAt
  <2>2. \A q, w : Found(u, q, w)' <=> Found(u, q, w)
    BY ONLY <2>1 DEF Found
  <2> QED
    BY <1>1, <2>2, SameMap
<1>2. CASE ~Live(u)
  BY <1>2, MapAt, MapAtNext DEF FoundInMap
<1> QED
  BY <1>1, <1>2

\* The abstract variable.
Maps == [t \in Tables |-> MapOf(t)]

\* What a step of the abstract specification needs.
LEMMA MapsAfter ==
    ASSUME IInv, IInv', NEW t \in Tables, OnlyTable(t), NEW x, MapOf(t)' = x
    PROVE  Maps' = [Maps EXCEPT ![t] = x]
<1>1. \A u \in Tables : u # t => MapOf(u)' = MapOf(u)
  BY OthersStay
<1>2. Maps' = [u \in Tables |-> MapOf(u)']
  BY DEF Maps
<1> QED
  BY ONLY <1>1, <1>2, MapOf(t)' = x, t \in Tables DEF Maps

\* A call that fails is Fail.
LEMMA FailMaps == ASSUME IInv, Fail PROVE Map!Fail /\ UNCHANGED Maps
<1>1. IInv'
  BY FailKeeps
<1>2. \A u \in Tables : MapOf(u)' = MapOf(u)
  BY <1>1, AllStay DEF Fail, Live
<1>3. Map!Fail
  BY <1>2 DEF Fail, Map!Fail
<1> QED
  BY <1>2, <1>3 DEF Maps

\* ObjectMapTableCreate is Create.
LEMMA CreateMaps ==
    ASSUME IInv, NEW t \in Tables, Called(<<"create", t>>), ObjectMapTableCreate(t)
    PROVE  Map!Create(t)
<1>0. ~Live(t) /\ Maps[t] = Null /\ call' = <<"create", t>>
  BY MapAt DEF FoundInMap, Maps, ObjectMapTableCreate, Called
<1>1. CASE Fail
  BY <1>0, <1>1, FailMaps DEF Map!Create, Maps
<1>2. CASE ~Fail
  <2>1. ~Live(t) /\ answer' = "ok" /\ IInv' /\ OnlyTable(t) /\ Live(t)' /\ \A q, w : ~Found(t, q, w)'
    BY <1>2, CreateKeeps DEF ObjectMapTableCreate
  <2>2. MapOf(t)' = [k \in Comparable |-> NoValue]
    BY <2>1, MapAtNext
  <2>3. Maps' = [Maps EXCEPT ![t] = [k \in Comparable |-> NoValue]]
    BY <2>1, <2>2, MapsAfter
  <2> QED
    BY <1>0, <2>1, <2>3 DEF Map!Create, Map!EmptyMap, Maps
<1> QED
  BY <1>1, <1>2

\* The function MapSpec is given for ObjectCopy.
Copies == [v \in Values |-> ObjectCopy(v)]

\* ObjectMapTableSet is Set: a key that compares gets a copy of the value.
LEMMA SetMaps ==
    ASSUME IInv, NEW t \in Tables, NEW k \in Keys, NEW v \in Values,
           Called(<<"set", t, k, v>>), ObjectMapTableSet(t, k, v)
    PROVE  Map!Set(t, k, v)
<1> USE DEF ObjectMapTableSet
<1>c. call' = <<"set", t, k, v>> /\ Copies[v] = ObjectCopy(v)
  BY DEF Called, Copies
<1>0. Live(t) /\ ObjectCopy(v) \in Stored /\ IInv'
  BY CopyStored, SetKeeps
<1>1. Maps[t] # Null
  BY <1>0, MapAt DEF FoundInMap, Maps
<1>2. CASE Fail
  BY <1>1, <1>2, <1>c, FailMaps DEF Map!Set, Maps
<1>3. CASE Replace(t, k, v) /\ ~Fail
  <2>1. answer' = "ok" /\ k \in Comparable
    BY <1>0, <1>3, SearchFinds DEF Replace
  <2>2. OnlyTable(t) /\ Live(t)' /\ \A q, w : Found(t, q, w)' <=> IF q = k THEN w = ObjectCopy(v) ELSE Found(t, q, w)
    BY <1>0, <1>3, <2>1, ReplaceKeeps
  <2>3. MapOf(t)' = [MapOf(t) EXCEPT ![k] = ObjectCopy(v)]
    BY <1>0, <2>1, <2>2, OneKey
  <2>4. Maps' = [Maps EXCEPT ![t][k] = ObjectCopy(v)]
    <3>1. PICK x : x = [MapOf(t) EXCEPT ![k] = ObjectCopy(v)]
      OBVIOUS
    <3>2. Maps' = [Maps EXCEPT ![t] = x]
      BY <1>0, <2>2, <2>3, <3>1, MapsAfter
    <3> QED
      BY ONLY <3>1, <3>2, t \in Tables DEF Maps
  <2> QED
    BY <1>1, <1>c, <2>1, <2>4 DEF Map!Set, Map!With, Maps, Copies
<1>4. ASSUME Matches(t, k) = {}, answer' = "ok", NEW a \in Addrs, heap[a] = Null,
             heap' = [heap EXCEPT ![a] = [key |-> k, value |-> ObjectCopy(v)]],
             table' = [table EXCEPT ![t] = [pairs |-> Append(@.pairs, a), capacity |-> Grown(t)]]
      PROVE  Map!Set(t, k, v)
  <2>1. OnlyTable(t) /\ Live(t)' /\ \A q, w : Found(t, q, w)' <=> Found(t, q, w) \/ (q = k /\ w = ObjectCopy(v))
    BY <1>0, <1>4, InsertKeeps
  <2>2. CASE k \in Comparable
    <3>1. MapOf(t)' = [MapOf(t) EXCEPT ![k] = ObjectCopy(v)]
      BY <1>0, <2>1, <2>2, OneKey
    <3>2. Maps' = [Maps EXCEPT ![t][k] = ObjectCopy(v)]
      <4>1. PICK x : x = [MapOf(t) EXCEPT ![k] = ObjectCopy(v)]
        OBVIOUS
      <4>2. Maps' = [Maps EXCEPT ![t] = x]
        BY <1>0, <2>1, <3>1, <4>1, MapsAfter
      <4> QED
        BY ONLY <4>1, <4>2, t \in Tables DEF Maps
    <3> QED
      BY <1>1, <1>4, <1>c, <2>2, <3>2 DEF Map!Set, Map!With, Maps, Copies
  <2>3. CASE k \notin Comparable
    <3>1. MapOf(t)' = MapOf(t)
      <4>1. /\ MapOf(t) \in [Comparable -> Stored \union {NoValue}]
            /\ \A q \in Comparable : \A w : Found(t, q, w) => MapOf(t)[q] = w
            /\ \A q \in Comparable : (\A w : ~Found(t, q, w)) => MapOf(t)[q] = NoValue
        BY <1>0, MapAt DEF FoundInMap
      <4>2. /\ MapOf(t)' \in [Comparable -> Stored \union {NoValue}]
            /\ \A q \in Comparable : \A w : Found(t, q, w)' => MapOf(t)'[q] = w
            /\ \A q \in Comparable : (\A w : ~Found(t, q, w)') => MapOf(t)'[q] = NoValue
        BY <1>0, <2>1, MapAtNext
      <4>3. \A q \in Comparable : \A w : Found(t, q, w)' <=> Found(t, q, w)
        BY ONLY <2>1, <2>3
      <4>4. \A q \in Comparable : MapOf(t)'[q] = MapOf(t)[q]
        BY ONLY <4>1, <4>2, <4>3
      <4> QED
        BY ONLY <4>1, <4>2, <4>4
    <3>2. \A u \in Tables : MapOf(u)' = MapOf(u)
      BY <3>1, <1>0, <2>1, OthersStay
    <3> QED
      BY <1>1, <1>4, <1>c, <2>3, <3>2 DEF Map!Set, Map!With, Maps
  <2> QED
    BY <2>2, <2>3
<1>5. CASE table' = [table EXCEPT ![t].capacity = Grown(t)] /\ answer' = "fail" /\ UNCHANGED heap
  <2>1. PICK s, c : s = table[t].pairs /\ c = Grown(t)
    OBVIOUS
  <2>2. TypeOK /\ s \in Seq(Addrs) /\ c \in Nat
    BY <2>1, <1>0, Shape, GrownFits DEF IInv
  <2>3. table' = [table EXCEPT ![t] = [pairs |-> s, capacity |-> c]]
    BY <1>0, <1>5, <2>1, <2>2, WholeRecord
  <2>4. Live(t)' /\ table'[t].pairs = s /\ \A u \in Tables : u # t => table'[u] = table[u]
    BY ONLY <2>2, <2>3, NewArray, t \in Tables
  <2>5. /\ \A u \in Tables : Live(u)' <=> Live(u)
        /\ \A u \in Tables : Live(u) => table'[u].pairs = table[u].pairs
    BY <2>1, <2>4, <1>0 DEF Live
  <2>6. \A u \in Tables : MapOf(u)' = MapOf(u)
    BY <2>5, <1>0, <1>5, AllStay
  <2> QED
    BY <1>1, <1>5, <1>c, <2>6 DEF Map!Set, Map!Fail, Maps
<1> QED
  BY <1>2, <1>3, <1>4, <1>5 DEF Insert

\* ObjectMapTableGet is Get.
LEMMA GetMaps ==
    ASSUME IInv, NEW t \in Tables, NEW k \in Keys, Called(<<"get", t, k>>), ObjectMapTableGet(t, k)
    PROVE  Map!Get(t, k)
<1> USE DEF ObjectMapTableGet
<1>c. call' = <<"get", t, k>>
  BY DEF Called
<1>1. IInv' /\ Live(t)
  BY GetKeeps
<1>2. Maps[t] # Null /\ Maps[t] = MapOf(t)
  BY <1>1, MapAt DEF FoundInMap, Maps
<1>3. \A u \in Tables : MapOf(u)' = MapOf(u)
  BY <1>1, AllStay DEF Live
<1>4. CASE k \in Comparable
  <2>1. answer' = MapOf(t)[k]
    <3>1. CASE Matches(t, k) = {}
      <4>1. \A w : ~Found(t, k, w)
        BY <1>4, <3>1 DEF Found, Matches, ObjectEquals
      <4> QED
        BY <4>1, <3>1, <1>1, <1>4, MapAt DEF FoundInMap
    <3>2. CASE Matches(t, k) # {}
      <4>1. Found(t, k, PairAt(t, FirstMatch(t, k)).value)
        BY <1>1, <3>2, SearchFinds DEF Found
      <4> QED
        BY <4>1, <3>2, <1>1, <1>4, MapAt DEF FoundInMap
    <3> QED
      BY <3>1, <3>2
  <2> QED
    BY <1>2, <1>3, <1>4, <1>c, <2>1 DEF Map!Get, Map!At, Maps
<1>5. CASE k \notin Comparable
  <2>1. answer' = NoValue
    BY <1>1, <1>5, SearchFinds
  <2> QED
    BY <1>2, <1>3, <1>5, <1>c, <2>1 DEF Map!Get, Map!At, Maps
<1> QED
  BY <1>4, <1>5

\* ObjectMapTableRemove is Remove.
LEMMA RemoveMaps ==
    ASSUME IInv, NEW t \in Tables, NEW k \in Keys, Called(<<"remove", t, k>>), ObjectMapTableRemove(t, k)
    PROVE  Map!Remove(t, k)
<1> USE DEF ObjectMapTableRemove
<1>c. call' = <<"remove", t, k>>
  BY DEF Called
<1>0. TypeOK /\ Live(t)
  BY DEF IInv
<1>m. Maps[t] # Null /\ Maps[t] = MapOf(t) /\ MapOf(t) \in [Comparable -> Stored \union {NoValue}]
  BY <1>0, MapAt DEF FoundInMap, Maps
<1>1. CASE Matches(t, k) = {}
  <2>1. UNCHANGED Maps /\ answer' = "fail"
    BY <1>1, FailMaps DEF Fail
  <2>2. CASE k \in Comparable
    <3>1. \A w : ~Found(t, k, w)
      BY <1>1, <2>2 DEF Found, Matches, ObjectEquals
    <3>2. Maps[t][k] = NoValue
      BY <3>1, <2>2, <1>0, <1>m, MapAt DEF FoundInMap
    <3>3. [Maps EXCEPT ![t][k] = NoValue] = Maps
      <4>1. PICK x : x = MapOf(t)
        OBVIOUS
      <4>2. [x EXCEPT ![k] = NoValue] = x
        BY ONLY <4>1, <1>m, <3>2
      <4>3. [Maps EXCEPT ![t] = x] = Maps
        BY ONLY <4>1, <1>m, t \in Tables DEF Maps
      <4> QED
        BY ONLY <4>1, <4>2, <4>3, <1>m
    <3> QED
      BY <1>c, <1>m, <2>1, <2>2, <3>2, <3>3 DEF Map!Remove, Map!At, Map!With, Maps
  <2>3. CASE k \notin Comparable
    BY <1>c, <1>m, <2>1, <2>3 DEF Map!Remove, Map!At, Map!With, Maps
  <2> QED
    BY <2>2, <2>3
<1>2. CASE Matches(t, k) # {}
  <2>1. k \in Comparable /\ Found(t, k, PairAt(t, FirstMatch(t, k)).value)
    BY <1>0, <1>2, SearchFinds DEF Found
  <2>2. table' = [table EXCEPT ![t] = [pairs |-> WithoutSlot(table[t].pairs, FirstMatch(t, k)),
                                       capacity |-> table[t].capacity]]
    BY <1>0, <1>2, WholeRecord
  <2>3. IInv' /\ OnlyTable(t) /\ Live(t)' /\ \A q, w : Found(t, q, w)' <=> Found(t, q, w) /\ q # k
    BY <1>0, <1>2, <2>2, RemoveKeeps DEF Slot
  <2>4. MapOf(t)' = [MapOf(t) EXCEPT ![k] = NoValue]
    <3>1. /\ \A q, w : q # k => (Found(t, q, w)' <=> Found(t, q, w))
          /\ \A w : ~Found(t, k, w)'
      BY <2>3
    <3> QED
      BY ONLY IInv, <1>0, <2>1, <2>3, <3>1, OneKey, t \in Tables
  <2>5. Maps' = [Maps EXCEPT ![t][k] = NoValue]
    <3>1. PICK x : x = [MapOf(t) EXCEPT ![k] = NoValue]
      OBVIOUS
    <3>2. Maps' = [Maps EXCEPT ![t] = x]
      BY <2>3, <2>4, <3>1, MapsAfter
    <3> QED
      BY ONLY <3>1, <3>2, t \in Tables DEF Maps
  <2>6. Maps[t] # Null /\ Maps[t][k] # NoValue
    BY <1>0, <2>1, MapAt, ObjectTableAssumption DEF FoundInMap, Maps
  <2> QED
    BY <1>2, <1>c, <2>1, <2>5, <2>6 DEF Map!Remove, Map!At, Map!With, Maps
<1> QED
  BY <1>1, <1>2

\* ObjectMapTableCopy is Copy.
LEMMA CopyMaps ==
    ASSUME IInv, NEW r \in Tables, NEW t \in Tables, Called(<<"copy", r, t>>), ObjectMapTableCopy(r, t)
    PROVE  Map!Copy(r, t)
<1>0. Maps[r] # Null /\ Maps[t] = Null /\ call' = <<"copy", r, t>>
  BY MapAt DEF FoundInMap, Maps, ObjectMapTableCopy, Called
<1>1. CASE Fail
  BY <1>0, <1>1, FailMaps DEF Map!Copy, Maps
<1>2. CASE ~Fail
  <2>1. /\ IInv' /\ OnlyTable(t) /\ Live(t)' /\ Live(r) /\ answer' = "ok"
        /\ \A q, w : Found(t, q, w)' <=> Found(r, q, w)
    BY <1>2, CopyKeeps DEF ObjectMapTableCopy
  <2>2. MapOf(t)' = MapOf(r)
    BY <2>1, SameMap
  <2>3. Maps' = [Maps EXCEPT ![t] = Maps[r]]
    <3>1. PICK x : x = MapOf(r)
      OBVIOUS
    <3>2. Maps' = [Maps EXCEPT ![t] = x]
      BY <2>1, <2>2, <3>1, MapsAfter
    <3> QED
      BY ONLY <3>1, <3>2, t \in Tables, r \in Tables DEF Maps
  <2> QED
    BY <1>0, <2>1, <2>3 DEF Map!Copy, Maps
<1> QED
  BY <1>1, <1>2

\* ObjectMapTableFree is Free.
LEMMA FreeMaps ==
    ASSUME IInv, NEW t \in Tables, Called(<<"free", t>>), ObjectMapTableFree(t)
    PROVE  Map!Free(t)
<1>0. Maps[t] # Null /\ call' = <<"free", t>> /\ answer' = "ok"
  BY MapAt DEF FoundInMap, Maps, ObjectMapTableFree, Called
<1>1. IInv' /\ OnlyTable(t) /\ ~Live(t)'
  BY FreeKeeps
<1>2. MapOf(t)' = Null
  BY <1>1, MapAtNext
<1>3. Maps' = [Maps EXCEPT ![t] = Null]
  BY <1>1, <1>2, MapsAfter
<1> QED
  BY <1>0, <1>3 DEF Map!Free, Maps

-----------------------------------------------------------------------------
\* Object.c: the types of the tables.
THEOREM TypeCorrect == Spec => []TypeOK
<1>1. IInv => TypeOK
  BY DEF IInv
<1> QED
  BY <1>1, Inductive, PTL

\* ObjectMapTableSet, Remove, Copy and Free: every pair belongs to one slot of
\* one table, and no slot is beyond its array.
THEOREM EveryPairOwned == Spec => []PairsOwned
<1>1. IInv => PairsOwned
  BY DEF IInv
<1> QED
  BY <1>1, Inductive, PTL

\* ObjectMapTableSet: a key that compares is in a table once.
THEOREM KeysStayDistinct == Spec => []KeysDistinct
<1>1. IInv => KeysDistinct
  BY DEF IInv
<1> QED
  BY <1>1, Inductive, PTL

\* The tables of Object.c implement independent maps: every call of
\* ObjectMapTableCreate, Set, Get, Remove, Copy and Free answers what MapSpec
\* answers to the same call with the same arguments.
THEOREM TablesAreMaps == Spec => ImplementsMap
<1>1. Init => Map!Init
  <2> SUFFICES ASSUME Init PROVE Map!Init
    OBVIOUS
  <2>1. \A t \in Tables : MapOf(t) = Null
    BY DEF Init, MapOf, Live
  <2> QED
    BY <2>1 DEF Init, Map!Init
<1>2. IInv /\ [Next]_vars => [Map!Next]_Map!vars
  <2> SUFFICES ASSUME IInv, [Next]_vars PROVE [Map!Next]_Map!vars
    OBVIOUS
  <2>1. CASE Next
    BY <2>1, CreateMaps, SetMaps, GetMaps, RemoveMaps, CopyMaps, FreeMaps DEF Next, Map!Next
  <2>2. CASE UNCHANGED vars
    <3>1. \A t \in Tables : MapOf(t)' = MapOf(t)
      BY <2>2 DEF vars, MapOf, Live, Holds, Held, Slots, PairAt
    <3> QED
      BY <2>2, <3>1 DEF vars, Map!vars
  <2> QED
    BY <2>1, <2>2
<1> QED
  BY <1>1, <1>2, Inductive, PTL DEF Spec, ImplementsMap, Map!Spec
=============================================================================
