--------------------------- MODULE MessagesProofs ---------------------------
(***************************************************************************)
(* What arrives of the messages, for objects of every shape, arrays of any *)
(* length and every way to cut the bytes.                                  *)
(***************************************************************************)
EXTENDS Messages, SequenceTheorems, WellFoundedInduction, TLAPS

-----------------------------------------------------------------------------
(* Induction over places.                                                  *)

\* A set of places that is not empty has a first one.
LEMMA LeastElement ==
    ASSUME NEW S, S \subseteq Nat, S # {}
    PROVE  \E k \in S : \A j \in S : k <= j
<1> DEFINE R == OpToRel(<, Nat)
<1>1. IsWellFoundedOn(R, Nat)
  BY NatLessThanWellFounded
<1>2. \A j, k \in Nat : j < k => <<j, k>> \in R
  BY DEF OpToRel
<1> HIDE DEF R
<1>3. PICK k \in S : \A j \in S : ~(<<j, k>> \in R)
  BY <1>1, WFMin
<1>4. \A j \in S : ~(j < k)
  BY <1>2, <1>3
<1>5. \A j \in S : k <= j
  BY <1>4
<1> QED
  BY <1>5

\* Induction over the places 0 .. m, for a set of places.
LEMMA PlaceInduction ==
    ASSUME NEW m \in Nat, NEW A, 0 \in A, \A i \in 1 .. m : i - 1 \in A => i \in A
    PROVE  \A i \in 0 .. m : i \in A
<1> DEFINE B == {i \in 0 .. m : i \notin A}
<1> SUFFICES ASSUME B # {} PROVE FALSE
  OBVIOUS
<1>0. B \subseteq Nat
  OBVIOUS
<1>1. PICK k \in B : \A j \in B : k <= j
  BY <1>0, LeastElement
<1>2. k \in 1 .. m /\ k - 1 \in 0 .. m /\ ~(k <= k - 1)
  BY <1>1
<1>3. k - 1 \in A
  BY <1>1, <1>2
<1> QED
  BY <1>1, <1>2, <1>3

-----------------------------------------------------------------------------
(* The recursive definitions have the value their text says.               *)

\* The elements of an array are objects of less depth.
LEMMA ElementsOf ==
    ASSUME NEW o \in Objects, o.t = "array"
    PROVE  /\ o.v \in Seq(Objects) /\ Len(o.v) \in Nat /\ DOMAIN o.v = 1 .. Len(o.v)
           /\ \A i \in 1 .. Len(o.v) : o.v[i] \in Objects /\ Depth[o.v[i]] < Depth[o]
<1>1. o.v \in Seq(Objects) /\ \A i \in DOMAIN o.v : Depth[o.v[i]] < Depth[o]
  BY ObjectsAssumption
<1>2. Len(o.v) \in Nat /\ DOMAIN o.v = 1 .. Len(o.v)
  BY <1>1
<1>3. \A i \in 1 .. Len(o.v) : o.v[i] \in Objects
  BY <1>1, ElementOfSeq
<1> QED
  BY <1>1, <1>2, <1>3

\* The objects of depth less than d.
Lower(d) == {o \in Objects : Depth[o] < d}

\* Every object is of some depth; elements are of the depth below.
LEMMA Lowers ==
    /\ Lower(0) = {}
    /\ Lower(MaxDepth + 1) = Objects
    /\ MaxDepth + 1 \in Nat
    /\ \A d \in 1 .. MaxDepth + 1 :
          /\ Lower(d - 1) \subseteq Lower(d)
          /\ \A o \in Lower(d) : o.t = "array" => \A i \in DOMAIN o.v : o.v[i] \in Lower(d - 1)
<1>1. MaxDepth \in Nat /\ \A o \in Objects : Depth[o] \in 0 .. MaxDepth
  BY ObjectsAssumption
<1>2. Lower(0) = {} /\ Lower(MaxDepth + 1) = Objects /\ MaxDepth + 1 \in Nat
  BY <1>1 DEF Lower
<1>3. ASSUME NEW d \in 1 .. MaxDepth + 1
      PROVE  Lower(d - 1) \subseteq Lower(d)
  BY <1>1 DEF Lower
<1>4. ASSUME NEW d \in 1 .. MaxDepth + 1, NEW o \in Lower(d), o.t = "array", NEW i \in DOMAIN o.v
      PROVE  o.v[i] \in Lower(d - 1)
  <2>1. o \in Objects /\ Depth[o] < d
    BY DEF Lower
  <2>2. o.v[i] \in Objects /\ Depth[o.v[i]] < Depth[o]
    BY <1>4, <2>1, ElementsOf
  <2>3. Depth[o] \in Nat /\ Depth[o.v[i]] \in Nat
    BY <1>1, <2>1, <2>2
  <2>4. Depth[o.v[i]] < d - 1
    BY <2>1, <2>2, <2>3
  <2> QED
    BY <2>2, <2>4 DEF Lower
<1> QED
  BY <1>2, <1>3, <1>4

\* What Written says of object o, given what is written of its elements.
WrittenAs(resp, g, o) ==
    IF o.t = "array"
    THEN <<Tag("arr", Len(o.v))>> \o FlattenSeq([i \in DOMAIN o.v |-> g[o.v[i]]])
    ELSE IF resp THEN ResponseScalar(o) ELSE NotificationScalar(o)

\* Written is the function its definition describes.
LEMMA WrittenUnfolds ==
    ASSUME NEW resp
    PROVE  Written(resp) = [o \in Objects |-> WrittenAs(resp, Written(resp), o)]
<1> DEFINE Partial(g, d) == g = [o \in Lower(d) |-> WrittenAs(resp, g, o)]
           A == {d \in 0 .. MaxDepth + 1 : \E g : Partial(g, d)}
<1>1. 0 \in A
  <2>1. Partial([o \in Lower(0) |-> 0], 0)
    BY Lowers
  <2>2. 0 \in 0 .. MaxDepth + 1
    BY Lowers
  <2> QED
    BY <2>1, <2>2
<1>2. ASSUME NEW d \in 1 .. MaxDepth + 1, d - 1 \in A
      PROVE  d \in A
  <2>1. PICK g : Partial(g, d - 1)
    BY <1>2
  <2> DEFINE h == [o \in Lower(d) |-> WrittenAs(resp, g, o)]
  <2>2. \A o \in Lower(d - 1) : h[o] = g[o]
    <3>1. \A o \in Lower(d - 1) : g[o] = WrittenAs(resp, g, o)
      BY <2>1
    <3>2. \A o \in Lower(d - 1) : h[o] = WrittenAs(resp, g, o)
      BY Lowers
    <3> QED
      BY <3>1, <3>2
  <2>3. \A o \in Lower(d) : h[o] = WrittenAs(resp, g, o)
    OBVIOUS
  <2>4. h = [o \in Lower(d) |-> h[o]]
    OBVIOUS
  <2> HIDE DEF h
  <2>5. ASSUME NEW o \in Lower(d)
        PROVE  WrittenAs(resp, h, o) = WrittenAs(resp, g, o)
    <3>1. CASE o.t = "array"
      <4>1. \A i \in DOMAIN o.v : h[o.v[i]] = g[o.v[i]]
        BY <2>2, <3>1, Lowers
      <4>2. [i \in DOMAIN o.v |-> h[o.v[i]]] = [i \in DOMAIN o.v |-> g[o.v[i]]]
        BY <4>1
      <4> QED
        BY <3>1, <4>2 DEF WrittenAs
    <3>2. CASE o.t # "array"
      BY <3>2 DEF WrittenAs
    <3> QED
      BY <3>1, <3>2
  <2>6. Partial(h, d)
    BY <2>3, <2>4, <2>5
  <2>7. d \in 0 .. MaxDepth + 1
    BY Lowers
  <2> QED
    BY <2>6, <2>7
<1> HIDE DEF A
<1>3. \A d \in 0 .. MaxDepth + 1 : d \in A
  BY <1>1, <1>2, Lowers, PlaceInduction
<1>4. MaxDepth + 1 \in A
  BY <1>3, Lowers
<1>5. PICK g : Partial(g, MaxDepth + 1)
  BY <1>4 DEF A
<1>6. g = [o \in Objects |-> WrittenAs(resp, g, o)]
  BY <1>5, Lowers
<1>7. \E f : f = [o \in Objects |-> WrittenAs(resp, f, o)]
  BY <1>6
<1>8. Written(resp) = CHOOSE f : f = [o \in Objects |-> WrittenAs(resp, f, o)]
  BY DEF Written, WrittenAs
<1> QED
  BY <1>7, <1>8

\* What Arrived says of object o, given what arrives of its elements.
ArrivedAs(resp, g, o) ==
    IF o.t = "array" THEN [t |-> "array", v |-> [i \in DOMAIN o.v |-> g[o.v[i]]]]
    ELSE IF o.t \in {"map", "und"} \/ (resp /\ o.t = "bin" /\ o.v = Empty) THEN Nil
    ELSE IF o.t = "int" /\ o.v >= 0 THEN [t |-> "uint", v |-> o.v] ELSE o

\* Arrived is the function its definition describes.
LEMMA ArrivedUnfolds ==
    ASSUME NEW resp
    PROVE  Arrived(resp) = [o \in Objects |-> ArrivedAs(resp, Arrived(resp), o)]
<1> DEFINE Partial(g, d) == g = [o \in Lower(d) |-> ArrivedAs(resp, g, o)]
           A == {d \in 0 .. MaxDepth + 1 : \E g : Partial(g, d)}
<1>1. 0 \in A
  <2>1. Partial([o \in Lower(0) |-> 0], 0)
    BY Lowers
  <2>2. 0 \in 0 .. MaxDepth + 1
    BY Lowers
  <2> QED
    BY <2>1, <2>2
<1>2. ASSUME NEW d \in 1 .. MaxDepth + 1, d - 1 \in A
      PROVE  d \in A
  <2>1. PICK g : Partial(g, d - 1)
    BY <1>2
  <2> DEFINE h == [o \in Lower(d) |-> ArrivedAs(resp, g, o)]
  <2>2. \A o \in Lower(d - 1) : h[o] = g[o]
    <3>1. \A o \in Lower(d - 1) : g[o] = ArrivedAs(resp, g, o)
      BY <2>1
    <3>2. \A o \in Lower(d - 1) : h[o] = ArrivedAs(resp, g, o)
      BY Lowers
    <3> QED
      BY <3>1, <3>2
  <2>3. \A o \in Lower(d) : h[o] = ArrivedAs(resp, g, o)
    OBVIOUS
  <2>4. h = [o \in Lower(d) |-> h[o]]
    OBVIOUS
  <2> HIDE DEF h
  <2>5. ASSUME NEW o \in Lower(d)
        PROVE  ArrivedAs(resp, h, o) = ArrivedAs(resp, g, o)
    <3>1. CASE o.t = "array"
      <4>1. \A i \in DOMAIN o.v : h[o.v[i]] = g[o.v[i]]
        BY <2>2, <3>1, Lowers
      <4>2. [i \in DOMAIN o.v |-> h[o.v[i]]] = [i \in DOMAIN o.v |-> g[o.v[i]]]
        BY <4>1
      <4> QED
        BY <3>1, <4>2 DEF ArrivedAs
    <3>2. CASE o.t # "array"
      BY <3>2 DEF ArrivedAs
    <3> QED
      BY <3>1, <3>2
  <2>6. Partial(h, d)
    BY <2>3, <2>4, <2>5
  <2>7. d \in 0 .. MaxDepth + 1
    BY Lowers
  <2> QED
    BY <2>6, <2>7
<1> HIDE DEF A
<1>3. \A d \in 0 .. MaxDepth + 1 : d \in A
  BY <1>1, <1>2, Lowers, PlaceInduction
<1>4. MaxDepth + 1 \in A
  BY <1>3, Lowers
<1>5. PICK g : Partial(g, MaxDepth + 1)
  BY <1>4 DEF A
<1>6. g = [o \in Objects |-> ArrivedAs(resp, g, o)]
  BY <1>5, Lowers
<1>7. \E f : f = [o \in Objects |-> ArrivedAs(resp, f, o)]
  BY <1>6
<1>8. Arrived(resp) = CHOOSE f : f = [o \in Objects |-> ArrivedAs(resp, f, o)]
  BY DEF Arrived, ArrivedAs
<1> QED
  BY <1>7, <1>8

\* What Parts says of object o, given the parts of its elements.
PartsAs(g, o) ==
    {o} \union (IF o.t = "array" THEN UNION {g[o.v[i]] : i \in DOMAIN o.v} ELSE {})

\* Parts is the function its definition describes.
LEMMA PartsUnfolds ==
    Parts = [o \in Objects |-> PartsAs(Parts, o)]
<1> DEFINE Partial(g, d) == g = [o \in Lower(d) |-> PartsAs(g, o)]
           A == {d \in 0 .. MaxDepth + 1 : \E g : Partial(g, d)}
<1>1. 0 \in A
  <2>1. Partial([o \in Lower(0) |-> 0], 0)
    BY Lowers
  <2>2. 0 \in 0 .. MaxDepth + 1
    BY Lowers
  <2> QED
    BY <2>1, <2>2
<1>2. ASSUME NEW d \in 1 .. MaxDepth + 1, d - 1 \in A
      PROVE  d \in A
  <2>1. PICK g : Partial(g, d - 1)
    BY <1>2
  <2> DEFINE h == [o \in Lower(d) |-> PartsAs(g, o)]
  <2>2. \A o \in Lower(d - 1) : h[o] = g[o]
    <3>1. \A o \in Lower(d - 1) : g[o] = PartsAs(g, o)
      BY <2>1
    <3>2. \A o \in Lower(d - 1) : h[o] = PartsAs(g, o)
      BY Lowers
    <3> QED
      BY <3>1, <3>2
  <2>3. \A o \in Lower(d) : h[o] = PartsAs(g, o)
    OBVIOUS
  <2>4. h = [o \in Lower(d) |-> h[o]]
    OBVIOUS
  <2> HIDE DEF h
  <2>5. ASSUME NEW o \in Lower(d)
        PROVE  PartsAs(h, o) = PartsAs(g, o)
    <3>1. CASE o.t = "array"
      <4>1. \A i \in DOMAIN o.v : h[o.v[i]] = g[o.v[i]]
        BY <2>2, <3>1, Lowers
      <4>2. {h[o.v[i]] : i \in DOMAIN o.v} = {g[o.v[i]] : i \in DOMAIN o.v}
        BY <4>1
      <4> QED
        BY <3>1, <4>2 DEF PartsAs
    <3>2. CASE o.t # "array"
      BY <3>2 DEF PartsAs
    <3> QED
      BY <3>1, <3>2
  <2>6. Partial(h, d)
    BY <2>3, <2>4, <2>5
  <2>7. d \in 0 .. MaxDepth + 1
    BY Lowers
  <2> QED
    BY <2>6, <2>7
<1> HIDE DEF A
<1>3. \A d \in 0 .. MaxDepth + 1 : d \in A
  BY <1>1, <1>2, Lowers, PlaceInduction
<1>4. MaxDepth + 1 \in A
  BY <1>3, Lowers
<1>5. PICK g : Partial(g, MaxDepth + 1)
  BY <1>4 DEF A
<1>6. g = [o \in Objects |-> PartsAs(g, o)]
  BY <1>5, Lowers
<1>7. \E f : f = [o \in Objects |-> PartsAs(f, o)]
  BY <1>6
<1>8. Parts = CHOOSE f : f = [o \in Objects |-> PartsAs(f, o)]
  BY DEF Parts, PartsAs
<1> QED
  BY <1>7, <1>8

\* Induction over the objects: a set that has an object when it has the
\* elements of the object has all objects.
LEMMA DepthInduction ==
    ASSUME NEW A,
           \A o \in Objects : (o.t = "array" => \A i \in DOMAIN o.v : o.v[i] \in A) => o \in A
    PROVE  \A o \in Objects : o \in A
<1> DEFINE D == {d \in 0 .. MaxDepth + 1 : \A o \in Lower(d) : o \in A}
<1>1. 0 \in D
  BY Lowers
<1>2. ASSUME NEW d \in 1 .. MaxDepth + 1, d - 1 \in D
      PROVE  d \in D
  <2>1. \A o \in Lower(d - 1) : o \in A
    BY <1>2
  <2>2. \A o \in Lower(d) : o \in Objects /\ (o.t = "array" => \A i \in DOMAIN o.v : o.v[i] \in A)
    BY <2>1, Lowers DEF Lower
  <2>3. d \in 0 .. MaxDepth + 1
    BY Lowers
  <2> QED
    BY <2>2, <2>3
<1> HIDE DEF D
<1>3. \A d \in 0 .. MaxDepth + 1 : d \in D
  BY <1>1, <1>2, Lowers, PlaceInduction
<1>4. MaxDepth + 1 \in D
  BY <1>3, Lowers
<1> QED
  BY <1>4, Lowers DEF D

-----------------------------------------------------------------------------
(* The bytes of a message.                                                 *)

\* The elements of a buffer; the number of an array's tag is its length.
Element == {x \in [k : {"arr", "nil", "bool", "int", "uint", "str", "bin", "body"},
                   n : Int \union {o.v : o \in Objects} \union Methods] :
                x.k = "arr" => x.n \in Nat}

\* enc holds the concatenations of the first sequences of ss.
Joined(enc, ss) ==
    /\ enc \in [0 .. Len(ss) -> Seq(Element)]
    /\ enc[0] = <<>>
    /\ \A i \in 1 .. Len(ss) : enc[i] = enc[i - 1] \o ss[i]

\* The concatenations of the first sequences exist.
LEMMA JoinedExists ==
    ASSUME NEW ss \in Seq(Seq(Element))
    PROVE  \E enc : Joined(enc, ss)
<1> DEFINE m == Len(ss)
           S == Seq(Element)
           First(f, k) == /\ f \in [0 .. k -> S] /\ f[0] = <<>>
                          /\ \A i \in 1 .. k : f[i] = f[i - 1] \o ss[i]
           A == {k \in 0 .. m : \E f : First(f, k)}
<1>1. m \in Nat /\ \A i \in 1 .. m : ss[i] \in S
  BY LenProperties, ElementOfSeq
<1>2. <<>> \in S /\ \A x, y \in S : x \o y \in S
  OBVIOUS
<1> HIDE DEF m, S
<1>3. 0 \in A
  <2>1. First([i \in 0 .. 0 |-> <<>>], 0)
    BY <1>2
  <2>2. 0 \in 0 .. m
    BY <1>1
  <2> HIDE DEF First
  <2> QED
    BY <2>1, <2>2
<1>4. ASSUME NEW k \in 1 .. m, k - 1 \in A
      PROVE  k \in A
  <2>1. PICK f : First(f, k - 1)
    BY <1>4
  <2> DEFINE x == f[k - 1] \o ss[k]
             g == [i \in 0 .. k |-> IF i = k THEN x ELSE f[i]]
  <2>2. k \in Nat /\ k - 1 \in 0 .. k - 1 /\ \A i \in 0 .. k : i # k => i \in 0 .. k - 1
    BY <1>1
  <2>3. x \in S /\ f \in [0 .. k - 1 -> S]
    BY <1>1, <1>2, <2>1, <2>2
  <2>4. g \in [0 .. k -> S] /\ g[0] = <<>>
    BY <2>1, <2>2, <2>3
  <2>5. ASSUME NEW i \in 1 .. k
        PROVE  g[i] = g[i - 1] \o ss[i]
    <3>1. i - 1 \in 0 .. k /\ i - 1 # k /\ i \in 0 .. k
      BY <2>2
    <3>2. g[i - 1] = f[i - 1]
      BY <3>1
    <3>3. CASE i = k
      BY <3>1, <3>2, <3>3
    <3>4. CASE i # k
      <4>1. i \in 1 .. k - 1
        BY <2>2, <3>4
      <4> QED
        BY <2>1, <3>1, <3>2, <3>4, <4>1
    <3> QED
      BY <3>3, <3>4
  <2> HIDE DEF g
  <2>6. First(g, k)
    BY <2>4, <2>5
  <2>7. k \in 0 .. m
    BY <1>1
  <2> HIDE DEF First
  <2> QED
    BY <2>6, <2>7
<1> HIDE DEF A
<1>5. \A k \in 0 .. m : k \in A
  BY <1>1, <1>3, <1>4, PlaceInduction
<1>6. m \in A
  BY <1>1, <1>5
<1> QED
  BY <1>6 DEF A, m, S, Joined

\* FlattenSeq is the last of them.
LEMMA FlattenIsJoined ==
    ASSUME NEW ss \in Seq(Seq(Element)), NEW enc, Joined(enc, ss)
    PROVE  FlattenSeq(ss) = enc[Len(ss)] /\ FlattenSeq(ss) \in Seq(Element)
<1> DEFINE m == Len(ss)
           F(g) == [i \in 1 .. m |-> IF i = 1 THEN ss[i] ELSE g[i - 1] \o ss[i]]
           flat == CHOOSE g : g = F(g)
<1>1. m \in Nat /\ \A i \in 1 .. m : ss[i] \in Seq(Element)
  BY LenProperties, ElementOfSeq
<1>2. enc[0] = <<>> /\ enc[m] \in Seq(Element) /\ \A i \in 1 .. m : enc[i] = enc[i - 1] \o ss[i]
  <2>1. m \in 0 .. m
    BY <1>1
  <2>2. enc \in [0 .. m -> Seq(Element)] /\ enc[0] = <<>>
    BY DEF Joined
  <2>3. \A i \in 1 .. m : enc[i] = enc[i - 1] \o ss[i]
    BY DEF Joined
  <2> QED
    BY <2>1, <2>2, <2>3
<1>3. FlattenSeq(ss) = IF m = 0 THEN ss ELSE flat[m]
  BY DEF FlattenSeq
<1>4. CASE m = 0
  <2>1. ss = <<>>
    BY <1>4, EmptySeq
  <2> QED
    BY <1>2, <1>3, <1>4, <2>1
<1>5. CASE m # 0
  <2>0. 1 \in 1 .. m
    BY <1>1, <1>5
  <2>1. enc[1] = ss[1]
    <3>1. enc[1] = enc[1 - 1] \o ss[1]
      BY <1>2, <2>0, Zenon
    <3>2. 1 - 1 = 0
      OBVIOUS
    <3>3. enc[1] = <<>> \o ss[1] /\ ss[1] \in Seq(Element)
      BY <1>1, <1>2, <2>0, <3>1, <3>2
    <3> QED
      BY <3>3
  <2> DEFINE f == [i \in 1 .. m |-> enc[i]]
  <2>2. f = F(f)
    <3>1. \A i \in 1 .. m : i # 1 => i - 1 \in 1 .. m
      BY <1>1
    <3>2. \A i \in 1 .. m : enc[i] = IF i = 1 THEN ss[i] ELSE f[i - 1] \o ss[i]
      BY <1>2, <2>1, <3>1
    <3> QED
      BY <3>2
  <2> HIDE DEF f
  <2>3. flat = F(flat)
    BY <2>2
  <2> HIDE DEF flat
  <2>4. \A i \in 1 .. m : flat[i] = IF i = 1 THEN ss[i] ELSE flat[i - 1] \o ss[i]
    BY <2>3
  <2> DEFINE A == {i \in 0 .. m : i # 0 => flat[i] = enc[i]}
  <2>5. 0 \in A
    BY <1>1
  <2>6. \A i \in 1 .. m : i - 1 \in A => i \in A
    <3>1. ASSUME NEW i \in 1 .. m, i - 1 \in A
          PROVE  flat[i] = enc[i]
      <4>1. i # 1 => flat[i - 1] = enc[i - 1]
        BY <3>1
      <4>2. flat[i] = IF i = 1 THEN ss[i] ELSE flat[i - 1] \o ss[i]
        BY <2>4
      <4>3. enc[i] = enc[i - 1] \o ss[i]
        BY <1>2
      <4>4. CASE i = 1
        BY <2>1, <4>2, <4>4
      <4>5. CASE i # 1
        BY <4>1, <4>2, <4>3, <4>5, Zenon
      <4> QED
        BY <4>4, <4>5
    <3> QED
      BY <3>1
  <2> HIDE DEF A
  <2>7. \A i \in 0 .. m : i \in A
    BY <1>1, <2>5, <2>6, PlaceInduction
  <2>8. flat[m] = enc[m]
    BY <1>1, <1>5, <2>7 DEF A
  <2> QED
    BY <1>2, <1>3, <1>5, <2>8
<1> QED
  BY <1>4, <1>5

\* Each is a prefix of the whole, with the next sequence behind it.
Growing(enc, ss) ==
    /\ \A i \in 0 .. Len(ss) : Len(enc[i]) \in Nat /\ Len(enc[i]) <= Len(enc[Len(ss)])
    /\ \A i \in 1 .. Len(ss) : Len(enc[i]) = Len(enc[i - 1]) + Len(ss[i])
    /\ \A i \in 1 .. Len(ss) : \A j \in 1 .. Len(ss[i]) :
          enc[Len(ss)][Len(enc[i - 1]) + j] = ss[i][j]

\* The concatenations grow so.
LEMMA JoinedGrows ==
    ASSUME NEW ss \in Seq(Seq(Element)), NEW enc, Joined(enc, ss)
    PROVE  Growing(enc, ss)
<1> DEFINE m == Len(ss)
<1>1. m \in Nat /\ \A i \in 1 .. m : ss[i] \in Seq(Element)
  BY LenProperties, ElementOfSeq
<1>2. \A i \in 1 .. m : Len(ss[i]) \in Nat
  BY <1>1, LenProperties
<1>3. \A i \in 0 .. m : enc[i] \in Seq(Element) /\ Len(enc[i]) \in Nat
  BY DEF Joined
<1>4. \A i \in 1 .. m : i - 1 \in 0 .. m /\ i \in 0 .. m
  BY <1>1
<1>5. enc[0] = <<>> /\ \A i \in 1 .. m : enc[i] = enc[i - 1] \o ss[i]
  BY DEF Joined
<1> HIDE DEF m
<1>6. ASSUME NEW i \in 1 .. m
      PROVE  /\ Len(enc[i]) = Len(enc[i - 1]) + Len(ss[i])
             /\ \A j \in 1 .. Len(ss[i]) : enc[i][Len(enc[i - 1]) + j] = ss[i][j]
             /\ \A j \in 1 .. Len(enc[i - 1]) : enc[i][j] = enc[i - 1][j]
  <2> DEFINE x == enc[i - 1]
             y == ss[i]
  <2>1. x \in Seq(Element) /\ y \in Seq(Element) /\ enc[i] = x \o y /\ Len(x) \in Nat /\ Len(y) \in Nat
    BY <1>1, <1>2, <1>3, <1>4, <1>5
  <2> HIDE DEF x, y
  <2>2. Len(x \o y) = Len(x) + Len(y)
    BY <2>1
  <2>3. \A j \in 1 .. Len(y) : (x \o y)[Len(x) + j] = y[j]
    BY <2>1
  <2>4. \A j \in 1 .. Len(x) : (x \o y)[j] = x[j]
    BY <2>1
  <2> QED
    BY <2>1, <2>2, <2>3, <2>4 DEF x, y
<1> DEFINE Prefix(i, k) == Len(enc[i]) <= Len(enc[k]) /\ \A j \in 1 .. Len(enc[i]) : enc[k][j] = enc[i][j]
           A == {k \in 0 .. m : \A i \in 0 .. k : Prefix(i, k)}
<1>7. 0 \in A
  BY <1>1, <1>3
<1>8. ASSUME NEW k \in 1 .. m, k - 1 \in A
      PROVE  k \in A
  <2> SUFFICES ASSUME NEW i \in 0 .. k PROVE Prefix(i, k)
    BY <1>4
  <2>1. CASE i = k
    BY <2>1, <1>3, <1>4
  <2>2. CASE i # k
    <3>1. i \in 0 .. k - 1 /\ i \in 0 .. m
      BY <2>2, <1>1
    <3>2. Prefix(i, k - 1)
      BY <1>8, <3>1
    <3>3. Len(enc[i]) \in Nat /\ Len(enc[k - 1]) \in Nat /\ Len(ss[k]) \in Nat
      BY <1>2, <1>3, <1>4, <3>1
    <3>4. Len(enc[i]) <= Len(enc[k])
      <4> DEFINE a == Len(enc[i])
                 b == Len(enc[k - 1])
                 c == Len(ss[k])
      <4>1. a \in Nat /\ b \in Nat /\ c \in Nat /\ a <= b /\ Len(enc[k]) = b + c
        BY <1>6, <3>2, <3>3
      <4> HIDE DEF a, b, c
      <4>2. a <= b + c
        BY <4>1
      <4> QED
        BY <4>1, <4>2 DEF a
    <3>5. \A j \in 1 .. Len(enc[i]) : j \in 1 .. Len(enc[k - 1])
      BY <3>2, <3>3
    <3>6. \A j \in 1 .. Len(enc[i]) : enc[k][j] = enc[i][j]
      BY <1>6, <3>2, <3>5
    <3> QED
      BY <3>4, <3>6
  <2> QED
    BY <2>1, <2>2
<1> HIDE DEF A
<1>9. \A k \in 0 .. m : k \in A
  BY <1>1, <1>7, <1>8, PlaceInduction
<1>10. \A i \in 0 .. m : Prefix(i, m)
  BY <1>1, <1>9 DEF A
<1>11. ASSUME NEW i \in 1 .. m, NEW j \in 1 .. Len(ss[i])
       PROVE  enc[m][Len(enc[i - 1]) + j] = ss[i][j]
  <2> DEFINE a == Len(enc[i - 1])
             c == Len(ss[i])
  <2>1. a \in Nat /\ c \in Nat /\ Len(enc[i]) = a + c /\ j \in 1 .. c
    BY <1>2, <1>3, <1>4, <1>6
  <2> HIDE DEF a, c
  <2>2. a + j \in 1 .. a + c
    BY <2>1
  <2>3. enc[m][a + j] = enc[i][a + j]
    BY <1>4, <1>10, <2>1, <2>2
  <2> QED
    BY <1>6, <2>3 DEF a
<1> QED
  BY <1>3, <1>6, <1>10, <1>11 DEF m, Growing

\* What is written of a scalar, and what arrives of it.
ScalarForm(w, a) ==
    \/ /\ a.t \in {"nil", "bool", "int", "uint"} /\ a = [t |-> a.t, v |-> a.v]
       /\ w = <<Tag(a.t, a.v)>>
    \/ /\ a.t \in {"str", "bin"} /\ a = [t |-> a.t, v |-> Empty]
       /\ w = <<Tag(a.t, 0)>>
    \/ /\ a.t \in {"str", "bin"} /\ a = [t |-> a.t, v |-> a.v]
       /\ w = <<Tag(a.t, 1), Body(a.v)>>

\* What is not an array has one of the three forms, unless it is a map or an
\* undefined object in a notification.
LEMMA ScalarWritten ==
    ASSUME NEW resp \in BOOLEAN, NEW o \in Objects, o.t # "array"
    PROVE  /\ Written(resp)[o] \in Seq(Element)
           /\ resp \/ o.t \notin {"und", "map"} => ScalarForm(Written(resp)[o], Arrived(resp)[o])
<1> DEFINE w == IF resp THEN ResponseScalar(o) ELSE NotificationScalar(o)
           a == IF o.t \in {"map", "und"} \/ (resp /\ o.t = "bin" /\ o.v = Empty) THEN Nil
                ELSE IF o.t = "int" /\ o.v >= 0 THEN [t |-> "uint", v |-> o.v] ELSE o
<1>1. Written(resp)[o] = w
  BY WrittenUnfolds DEF WrittenAs
<1>2. Arrived(resp)[o] = a
  BY ArrivedUnfolds DEF ArrivedAs
<1>3. o.t \in Types /\ o = [t |-> o.t, v |-> o.v] /\ (o.t = "nil" => o.v = 0)
      /\ (o.t = "int" => o.v \in Int) /\ (o.t = "uint" => o.v \in Nat)
  BY ObjectsAssumption
<1>4. \A k \in {"nil", "bool", "int", "uint", "str", "bin"} : \A i \in Int : Tag(k, i) \in Element
  BY DEF Tag, Element
<1>5. \A k \in {"nil", "bool", "int", "uint", "str", "bin"} : Tag(k, o.v) \in Element
  BY DEF Tag, Element
<1>6. Body(o.v) \in Element
  BY DEF Body, Element
<1>7. \A x \in Element : <<x>> \in Seq(Element)
  OBVIOUS
<1>8. \A x, y \in Element : <<x, y>> \in Seq(Element)
  OBVIOUS
<1>9. CASE o.t \in {"und", "map"}
  <2>1. w = IF resp THEN <<Tag("nil", 0)>> ELSE <<>>
    BY <1>9 DEF ResponseScalar, NotificationScalar
  <2>2. a = Nil
    BY <1>9
  <2>3. ScalarForm(<<Tag("nil", 0)>>, Nil)
    BY DEF ScalarForm, Nil
  <2> HIDE DEF w, a
  <2> QED
    BY <1>1, <1>2, <1>4, <1>7, <1>9, <2>1, <2>2, <2>3
<1>10. CASE o.t = "nil"
  <2>1. w = <<Tag("nil", 0)>>
    BY <1>3, <1>10 DEF ResponseScalar, NotificationScalar
  <2>2. a = [t |-> "nil", v |-> 0]
    BY <1>3, <1>10 DEF Nil
  <2>3. ScalarForm(<<Tag("nil", 0)>>, [t |-> "nil", v |-> 0])
    BY DEF ScalarForm
  <2> HIDE DEF w, a
  <2> QED
    BY <1>1, <1>2, <1>4, <1>7, <2>1, <2>2, <2>3
<1>11. CASE o.t = "bool"
  <2>1. w = <<Tag("bool", o.v)>>
    BY <1>11 DEF ResponseScalar, NotificationScalar
  <2>2. a = o
    BY <1>11
  <2>3. ScalarForm(<<Tag("bool", o.v)>>, o)
    BY <1>3, <1>11 DEF ScalarForm
  <2> HIDE DEF w, a
  <2> QED
    BY <1>1, <1>2, <1>5, <1>7, <2>1, <2>2, <2>3
<1>12. CASE o.t \in {"int", "uint"}
  <2>1. w = <<Tag(IF o.v >= 0 THEN "uint" ELSE "int", o.v)>>
    BY <1>12 DEF ResponseScalar, NotificationScalar, WriteInt
  <2>2. a = [t |-> IF o.v >= 0 THEN "uint" ELSE "int", v |-> o.v]
    BY <1>3, <1>12
  <2> DEFINE k == IF o.v >= 0 THEN "uint" ELSE "int"
  <2>3. k \in {"int", "uint"}
    OBVIOUS
  <2> HIDE DEF k
  <2>4. ScalarForm(<<Tag(k, o.v)>>, [t |-> k, v |-> o.v])
    BY <2>3 DEF ScalarForm
  <2>5. <<Tag(k, o.v)>> \in Seq(Element)
    BY <1>5, <1>7, <2>3
  <2>6. w = <<Tag(k, o.v)>> /\ a = [t |-> k, v |-> o.v]
    BY <2>1, <2>2 DEF k
  <2> HIDE DEF w, a
  <2> QED
    BY <1>1, <1>2, <2>4, <2>5, <2>6
<1>13. CASE o.t \in {"str", "bin"}
  <2>1. CASE resp /\ o.t = "bin" /\ o.v = Empty
    <3>1. w = <<Tag("nil", 0)>>
      BY <2>1 DEF ResponseScalar
    <3>2. a = Nil
      BY <2>1
    <3>3. ScalarForm(<<Tag("nil", 0)>>, Nil)
      BY DEF ScalarForm, Nil
    <3> HIDE DEF w, a
    <3> QED
      BY <1>1, <1>2, <1>4, <1>7, <3>1, <3>2, <3>3
  <2>2. CASE ~(resp /\ o.t = "bin" /\ o.v = Empty)
    <3>1. w = WriteBytes(o)
      BY <1>13, <2>2 DEF ResponseScalar, NotificationScalar
    <3>2. a = o
      BY <1>13, <2>2
    <3>3. CASE o.v = Empty
      <4>1. w = <<Tag(o.t, 0)>>
        BY <3>1, <3>3 DEF WriteBytes
      <4>2. ScalarForm(<<Tag(o.t, 0)>>, o)
        BY <1>3, <1>13, <3>3 DEF ScalarForm
      <4> HIDE DEF w, a
      <4> QED
        BY <1>1, <1>2, <1>4, <1>7, <1>13, <3>2, <4>1, <4>2
    <3>4. CASE o.v # Empty
      <4>1. w = <<Tag(o.t, 1), Body(o.v)>>
        BY <3>1, <3>4 DEF WriteBytes
      <4>2. ScalarForm(<<Tag(o.t, 1), Body(o.v)>>, o)
        BY <1>3, <1>13 DEF ScalarForm
      <4>3. <<Tag(o.t, 1), Body(o.v)>> \in Seq(Element)
        BY <1>4, <1>6, <1>8, <1>13
      <4> HIDE DEF w, a
      <4> QED
        BY <1>1, <1>2, <3>2, <4>1, <4>2, <4>3
    <3> QED
      BY <3>3, <3>4
  <2> QED
    BY <2>1, <2>2
<1> QED
  BY <1>3, <1>9, <1>10, <1>11, <1>12, <1>13 DEF Types

\* What is written of each element of a list.
WrittenOf(resp, os) == [i \in DOMAIN os |-> Written(resp)[os[i]]]

\* What is written is a sequence of elements; of an array, its tag and what is
\* written of its elements.
LEMMA WrittenBytes ==
    ASSUME NEW resp \in BOOLEAN
    PROVE  \A o \in Objects :
              /\ Written(resp)[o] \in Seq(Element)
              /\ o.t = "array" => Written(resp)[o] = <<Tag("arr", Len(o.v))>> \o FlattenSeq(WrittenOf(resp, o.v))
<1> DEFINE A == {o \in Objects : Written(resp)[o] \in Seq(Element)}
<1>1. ASSUME NEW o \in Objects, o.t = "array"
      PROVE  Written(resp)[o] = <<Tag("arr", Len(o.v))>> \o FlattenSeq(WrittenOf(resp, o.v))
  BY <1>1, WrittenUnfolds DEF WrittenAs, WrittenOf
<1>2. ASSUME NEW o \in Objects, o.t = "array" => \A i \in DOMAIN o.v : o.v[i] \in A
      PROVE  o \in A
  <2>1. CASE o.t # "array"
    BY <2>1, ScalarWritten
  <2>2. CASE o.t = "array"
    <3> DEFINE ss == WrittenOf(resp, o.v)
    <3>1. Len(o.v) \in Nat /\ DOMAIN o.v = 1 .. Len(o.v)
      BY <2>2, ElementsOf
    <3>2. ss \in [1 .. Len(o.v) -> Seq(Element)]
      BY <1>2, <2>2, <3>1 DEF WrittenOf
    <3>3. ss \in Seq(Seq(Element))
      BY <3>1, <3>2, IsASeq
    <3>4. FlattenSeq(ss) \in Seq(Element)
      BY <3>3, JoinedExists, FlattenIsJoined
    <3>5. Tag("arr", Len(o.v)) \in Element
      BY <3>1 DEF Tag, Element
    <3>6. <<Tag("arr", Len(o.v))>> \in Seq(Element)
      BY <3>5
    <3> HIDE DEF ss
    <3>7. <<Tag("arr", Len(o.v))>> \o FlattenSeq(ss) \in Seq(Element)
      BY <3>4, <3>6
    <3> QED
      BY <1>1, <2>2, <3>7 DEF ss
  <2> QED
    BY <2>1, <2>2
<1>3. \A o \in Objects : o \in A
  <2> HIDE DEF A
  <2> QED
    BY <1>2, DepthInduction
<1> QED
  BY <1>1, <1>3

-----------------------------------------------------------------------------
(* The readers are what their definitions say.                             *)

\* The states of the loop over the elements of an array.
LoopAt(c, read, p, s, i) ==
    IF i = 0 THEN [at |-> p, err |-> FALSE, objs |-> <<>>] ELSE ReadElement(c, read, s[i - 1])
Loop(c, read, p, count, s) == s = [i \in 0 .. count |-> LoopAt(c, read, p, s, i)]

\* ReadElements is the last of them.
LEMMA ElementsUnfold ==
    ASSUME NEW c, NEW read, NEW p, NEW count \in Nat
    PROVE  \E s : Loop(c, read, p, count, s) /\ ReadElements(c, read, p, count) = s[count]
<1> DEFINE A == {k \in 0 .. count : \E s : Loop(c, read, p, k, s)}
<1>1. 0 \in A
  <2> DEFINE s == [i \in 0 .. 0 |-> [at |-> p, err |-> FALSE, objs |-> <<>>]]
  <2>1. Loop(c, read, p, 0, s)
    BY DEF Loop, LoopAt
  <2> QED
    BY <2>1
<1>2. ASSUME NEW k \in 1 .. count, k - 1 \in A
      PROVE  k \in A
  <2>1. PICK s : Loop(c, read, p, k - 1, s)
    BY <1>2
  <2> DEFINE h == [i \in 0 .. k |-> LoopAt(c, read, p, s, i)]
  <2>2. k \in Nat /\ k - 1 \in Nat
    OBVIOUS
  <2>3. \A i \in 0 .. k - 1 : h[i] = s[i]
    <3>1. \A i \in 0 .. k - 1 : s[i] = LoopAt(c, read, p, s, i)
      BY <2>1 DEF Loop
    <3>2. \A i \in 0 .. k - 1 : h[i] = LoopAt(c, read, p, s, i)
      BY <2>2
    <3> QED
      BY <3>1, <3>2
  <2>4. \A i \in 0 .. k : i # 0 => i - 1 \in 0 .. k - 1
    BY <2>2
  <2>5. \A i \in 0 .. k : LoopAt(c, read, p, s, i) = LoopAt(c, read, p, h, i)
    <3> HIDE DEF h
    <3> QED
      BY <2>3, <2>4 DEF LoopAt
  <2>6. \A i \in 0 .. k : h[i] = LoopAt(c, read, p, h, i)
    BY <2>5
  <2>7. h = [i \in 0 .. k |-> h[i]]
    OBVIOUS
  <2> HIDE DEF h
  <2>8. Loop(c, read, p, k, h)
    BY <2>6, <2>7 DEF Loop
  <2> QED
    BY <2>8
<1> HIDE DEF A
<1>3. \A k \in 0 .. count : k \in A
  BY <1>1, <1>2, PlaceInduction
<1>4. count \in A
  BY <1>3
<1>5. \E s : Loop(c, read, p, count, s)
  BY <1>4 DEF A
<1> DEFINE t == CHOOSE s : Loop(c, read, p, count, s)
<1>6. Loop(c, read, p, count, t)
  BY <1>5
<1>7. ReadElements(c, read, p, count) = t[count]
  BY DEF ReadElements, Loop, LoopAt
<1> QED
  BY <1>6, <1>7

\* One round of the loop at a time.
Rounds(c, read, p, count, s) ==
    /\ s[0] = [at |-> p, err |-> FALSE, objs |-> <<>>]
    /\ \A i \in 1 .. count : s[i] = ReadElement(c, read, s[i - 1])

\* The loop goes in rounds.
LEMMA LoopRounds ==
    ASSUME NEW c, NEW read, NEW p, NEW count \in Nat, NEW s, Loop(c, read, p, count, s)
    PROVE  Rounds(c, read, p, count, s)
<1>1. \A i \in 0 .. count : s[i] = LoopAt(c, read, p, s, i)
  BY DEF Loop
<1>2. 0 \in 0 .. count /\ \A i \in 1 .. count : i \in 0 .. count /\ i # 0
  OBVIOUS
<1> QED
  BY <1>1, <1>2 DEF LoopAt, Rounds

\* read, defined from place q on, never goes back.
Forward(read, q, N) == \A x \in q .. N + 1 : read[x].at \in x .. N + 1

\* The loop looks only at the places from where it starts.
LEMMA ElementsAgree ==
    ASSUME NEW c, NEW N \in Nat, NEW q \in 1 .. N + 1, NEW count \in Nat, NEW f, NEW h,
           \A x \in q .. N + 1 : h[x] = f[x], Forward(f, q, N)
    PROVE  /\ ReadElements(c, h, q, count) = ReadElements(c, f, q, count)
           /\ ReadElements(c, f, q, count).at \in q .. N + 1
<1>1. PICK s : Loop(c, f, q, count, s) /\ ReadElements(c, f, q, count) = s[count]
  BY ElementsUnfold
<1>2. PICK u : Loop(c, h, q, count, u) /\ ReadElements(c, h, q, count) = u[count]
  BY ElementsUnfold
<1>3. s[0] = [at |-> q, err |-> FALSE, objs |-> <<>>]
      /\ \A i \in 1 .. count : s[i] = ReadElement(c, f, s[i - 1])
  <2>1. Rounds(c, f, q, count, s)
    BY <1>1, LoopRounds
  <2> QED
    BY <2>1 DEF Rounds
<1>4. u[0] = [at |-> q, err |-> FALSE, objs |-> <<>>]
      /\ \A i \in 1 .. count : u[i] = ReadElement(c, h, u[i - 1])
  <2>1. Rounds(c, h, q, count, u)
    BY <1>2, LoopRounds
  <2> QED
    BY <2>1 DEF Rounds
<1> DEFINE A == {i \in 0 .. count : u[i] = s[i] /\ s[i].at \in q .. N + 1}
<1>5. 0 \in A
  BY <1>3, <1>4
<1>6. ASSUME NEW i \in 1 .. count, i - 1 \in A
      PROVE  i \in A
  <2> DEFINE x == s[i - 1]
             r == IF x.err THEN Read(x.at, TRUE, c.atEnd) ELSE f[x.at]
  <2>1. u[i - 1] = x /\ x.at \in q .. N + 1
    BY <1>6
  <2>2. s[i] = ReadElement(c, f, x) /\ u[i] = ReadElement(c, h, x)
    BY <1>3, <1>4, <2>1
  <2> HIDE DEF x
  <2>3. h[x.at] = f[x.at] /\ f[x.at].at \in x.at .. N + 1
    BY <2>1 DEF Forward
  <2>4. ReadElement(c, h, x) = ReadElement(c, f, x)
    BY <2>3 DEF ReadElement
  <2>5. r.at \in q .. N + 1
    <3>1. CASE x.err
      BY <2>1, <3>1 DEF Read
    <3>2. CASE ~x.err
      <4>1. r = f[x.at]
        BY <3>2
      <4>2. f[x.at].at \in q .. N + 1
        BY <2>1, <2>3
      <4> QED
        BY <4>1, <4>2
    <3> QED
      BY <3>1, <3>2
  <2>6. ReadElement(c, f, x).at = IF x.err /\ c.strict THEN x.at ELSE r.at
    BY DEF ReadElement
  <2>7. ReadElement(c, f, x).at \in q .. N + 1
    BY <2>1, <2>5, <2>6
  <2> QED
    BY <2>2, <2>4, <2>7
<1> HIDE DEF A
<1>7. \A i \in 0 .. count : i \in A
  BY <1>5, <1>6, PlaceInduction
<1>8. count \in A
  BY <1>7
<1> QED
  BY <1>1, <1>2, <1>8 DEF A

\* What is read at a place depends on the places after it, and reading goes on.
LEMMA ObjectAgrees ==
    ASSUME NEW c, NEW b \in Seq(Element), NEW p \in 1 .. Len(b) + 1, NEW f, NEW h,
           \A x \in p + 1 .. Len(b) + 1 : h[x] = f[x], Forward(f, p + 1, Len(b))
    PROVE  /\ ReadObject(c, b, h, p) = ReadObject(c, b, f, p)
           /\ ReadObject(c, b, f, p).at \in p .. Len(b) + 1
<1> DEFINE N == Len(b)
<1>1. N \in Nat
  OBVIOUS
<1>2. CASE p > N
  <2>1. ReadObject(c, b, f, p) = Read(p, TRUE, c.atEnd) /\ ReadObject(c, b, h, p) = Read(p, TRUE, c.atEnd)
    BY <1>2 DEF ReadObject
  <2>2. Read(p, TRUE, c.atEnd).at = p /\ p \in p .. N + 1
    BY <1>1 DEF Read
  <2> QED
    BY <2>1, <2>2
<1>3. CASE ~(p > N) /\ b[p].k \in {"str", "bin"}
  <2>1. ReadObject(c, b, f, p) = ReadBytes(c, b, p) /\ ReadObject(c, b, h, p) = ReadBytes(c, b, p)
    BY <1>3 DEF ReadObject
  <2>2. ReadBytes(c, b, p).at \in {p + 1, p} \/ (p # N /\ ReadBytes(c, b, p).at = p + 2)
    BY DEF ReadBytes, Read
  <2>3. ReadBytes(c, b, p).at \in p .. N + 1
    <3> HIDE DEF N
    <3>1. p \in p .. N + 1 /\ p + 1 \in p .. N + 1 /\ (p # N => p + 2 \in p .. N + 1)
      BY <1>1, <1>3 DEF N
    <3> QED
      BY <2>2, <3>1
  <2> QED
    BY <2>1, <2>3
<1>4. CASE ~(p > N) /\ b[p].k = "arr"
  <2>1. ReadObject(c, b, f, p) = ReadArray(c, b, f, p) /\ ReadObject(c, b, h, p) = ReadArray(c, b, h, p)
    BY <1>4 DEF ReadObject
  <2>2. p \in 1 .. N /\ p + 1 \in 1 .. N + 1
    BY <1>1, <1>4
  <2>3. b[p] \in Element
    BY <2>2, ElementOfSeq
  <2>4. b[p].n \in Nat
    BY <1>4, <2>3 DEF Element
  <2> DEFINE s == ReadElements(c, f, p + 1, b[p].n)
  <2>5. ReadElements(c, h, p + 1, b[p].n) = s /\ s.at \in p + 1 .. N + 1
    BY <1>1, <2>2, <2>4, ElementsAgree
  <2> HIDE DEF s
  <2>6. ReadArray(c, b, h, p) = ReadArray(c, b, f, p)
    BY <2>5 DEF ReadArray, s
  <2>7. ReadArray(c, b, f, p).at \in {p, s.at}
    BY DEF ReadArray, Read, s
  <2>8. p \in p .. N + 1 /\ s.at \in p .. N + 1
    BY <1>1, <2>2, <2>5
  <2> QED
    BY <2>1, <2>6, <2>7, <2>8
<1>5. CASE ~(p > N) /\ b[p].k \notin {"str", "bin", "arr"}
  <2>1. ReadObject(c, b, f, p) = ReadObject(c, b, h, p) /\ ReadObject(c, b, f, p).at = p + 1
    BY <1>5 DEF ReadObject, Read
  <2>2. p + 1 \in p .. N + 1
    BY <1>1, <1>5
  <2> QED
    BY <2>1, <2>2
<1> QED
  BY <1>2, <1>3, <1>4, <1>5

\* Reading is the function its definition describes.
LEMMA ReadingUnfolds ==
    ASSUME NEW c, NEW b \in Seq(Element)
    PROVE  Reading(c, b) = [p \in 1 .. Len(b) + 1 |-> ReadObject(c, b, Reading(c, b), p)]
<1> DEFINE N == Len(b)
           Partial(f, d) == /\ f = [p \in N + 2 - d .. N + 1 |-> ReadObject(c, b, f, p)]
                            /\ Forward(f, N + 2 - d, N)
           A == {d \in 0 .. N + 1 : \E f : Partial(f, d)}
<1>1. N \in Nat
  OBVIOUS
<1> HIDE DEF N
<1>2. 0 \in A
  <2> DEFINE f == [p \in N + 2 - 0 .. N + 1 |-> 0]
  <2>1. N + 2 - 0 .. N + 1 = {}
    BY <1>1
  <2>2. Partial(f, 0)
    BY <2>1 DEF Forward
  <2>3. 0 \in 0 .. N + 1
    BY <1>1
  <2> HIDE DEF f, Partial
  <2> QED
    BY <2>2, <2>3
<1>3. ASSUME NEW d \in 1 .. N + 1, d - 1 \in A
      PROVE  d \in A
  <2>1. PICK f : Partial(f, d - 1)
    BY <1>3
  <2> DEFINE q == N + 2 - d
             h == [p \in q .. N + 1 |-> ReadObject(c, b, f, p)]
  <2>2. q \in 1 .. N + 1 /\ N + 2 - (d - 1) = q + 1 /\ d \in 0 .. N + 1
    BY <1>1
  <2> HIDE DEF q
  <2>3. /\ f = [p \in q + 1 .. N + 1 |-> ReadObject(c, b, f, p)]
        /\ Forward(f, q + 1, N)
    BY <2>1, <2>2
  <2>4. \A p \in q + 1 .. N + 1 : p \in q .. N + 1
    BY <1>1, <2>2
  <2>5. \A p \in q + 1 .. N + 1 : h[p] = f[p]
    <3>1. \A p \in q + 1 .. N + 1 : f[p] = ReadObject(c, b, f, p)
      BY <2>3
    <3> QED
      BY <2>4, <3>1
  <2>6. ASSUME NEW p \in q .. N + 1
        PROVE  /\ ReadObject(c, b, h, p) = ReadObject(c, b, f, p)
               /\ ReadObject(c, b, f, p).at \in p .. N + 1
    <3>1. p \in 1 .. N + 1 /\ \A x \in p + 1 .. N + 1 : x \in q + 1 .. N + 1
      BY <1>1, <2>2
    <3>2. \A x \in p + 1 .. N + 1 : h[x] = f[x]
      BY <2>5, <3>1
    <3>3. Forward(f, p + 1, N)
      BY <2>3, <3>1 DEF Forward
    <3> HIDE DEF h
    <3> QED
      BY <3>1, <3>2, <3>3, ObjectAgrees DEF N
  <2>7. \A p \in q .. N + 1 : h[p] = ReadObject(c, b, f, p)
    OBVIOUS
  <2>8. h = [p \in q .. N + 1 |-> h[p]]
    OBVIOUS
  <2> HIDE DEF h
  <2>9. h = [p \in q .. N + 1 |-> ReadObject(c, b, h, p)]
    BY <2>6, <2>7, <2>8
  <2>10. Forward(h, q, N)
    BY <2>6, <2>7 DEF Forward
  <2>11. Partial(h, d)
    BY <2>9, <2>10 DEF q
  <2> HIDE DEF Partial
  <2> QED
    BY <2>2, <2>11
<1> HIDE DEF A
<1>4. N + 1 \in Nat
  BY <1>1
<1>5. \A d \in 0 .. N + 1 : d \in A
  BY <1>2, <1>3, <1>4, PlaceInduction
<1>6. N + 1 \in A
  BY <1>4, <1>5
<1>7. PICK f : Partial(f, N + 1)
  BY <1>6 DEF A
<1>8. N + 2 - (N + 1) = 1
  BY <1>1
<1>9. f = [p \in 1 .. N + 1 |-> ReadObject(c, b, f, p)]
  BY <1>7, <1>8
<1>10. \E g : g = [p \in 1 .. N + 1 |-> ReadObject(c, b, g, p)]
  BY <1>9
<1>11. Reading(c, b) = CHOOSE g : g = [p \in 1 .. N + 1 |-> ReadObject(c, b, g, p)]
  BY DEF Reading, N
<1> QED
  BY <1>10, <1>11 DEF N

-----------------------------------------------------------------------------
(* What is read of what was written.                                       *)

\* What an object is made of: itself and what its elements are made of.
LEMMA FitsAndCanWrite ==
    ASSUME NEW o \in Objects
    PROVE  /\ o.t # "array" => /\ Fits(o)
                               /\ NotificationCanWrite(o) <=> o.t \notin {"und", "map"}
           /\ o.t = "array" => /\ Fits(o) <=> /\ Len(o.v) <= MaxParams
                                              /\ \A i \in 1 .. Len(o.v) : Fits(o.v[i])
                               /\ NotificationCanWrite(o) => \A i \in 1 .. Len(o.v) : NotificationCanWrite(o.v[i])
<1>1. Parts[o] = {o} \union (IF o.t = "array" THEN UNION {Parts[o.v[i]] : i \in DOMAIN o.v} ELSE {})
  BY PartsUnfolds DEF PartsAs
<1>2. CASE o.t # "array"
  BY <1>1, <1>2 DEF Fits, NotificationCanWrite
<1>3. CASE o.t = "array"
  <2>1. DOMAIN o.v = 1 .. Len(o.v)
    BY <1>3, ElementsOf
  <2>2. \A x : x \in Parts[o] <=> x = o \/ \E i \in 1 .. Len(o.v) : x \in Parts[o.v[i]]
    BY <1>1, <1>3, <2>1
  <2> QED
    BY <1>3, <2>2 DEF Fits, NotificationCanWrite
<1> QED
  BY <1>2, <1>3

\* What arrives is never NULL.
LEMMA ArrivedIsObject ==
    ASSUME NEW resp \in BOOLEAN, NEW o \in Objects
    PROVE  Arrived(resp)[o] # NoObj
<1>1. Arrived(resp)[o] = ArrivedAs(resp, Arrived(resp), o)
  BY ArrivedUnfolds
<1>2. o.t \in Types /\ "null" \notin Types
  BY ObjectsAssumption DEF Types
<1>3. Arrived(resp)[o].t # "null"
  BY <1>1, <1>2 DEF ArrivedAs, Nil
<1> QED
  BY <1>3 DEF NoObj

\* w is in b from place p on, as far as b goes.
Placed(b, p, w) == \A j \in 1 .. Len(w) : p + j - 1 <= Len(b) => b[p + j - 1] = w[j]

\* The object is read where it was written; a reader that has not all of it, or
\* that has a limit it exceeds, is in error.
ReadsAt(c, b, resp, o, p) ==
    IF p - 1 + Len(Written(resp)[o]) <= Len(b) /\ (c.strict => Fits(o))
    THEN Reading(c, b)[p] = Read(p + Len(Written(resp)[o]), FALSE, Arrived(resp)[o])
    ELSE Reading(c, b)[p].err = TRUE
Reads(c, b, resp, o) ==
    \A p \in 1 .. Len(b) + 1 : Placed(b, p, Written(resp)[o]) => ReadsAt(c, b, resp, o, p)

\* Scalars are read so.
LEMMA ScalarReads ==
    ASSUME NEW c, NEW b \in Seq(Element), NEW resp \in BOOLEAN, NEW o \in Objects,
           o.t # "array", resp \/ o.t \notin {"und", "map"}
    PROVE  Reads(c, b, resp, o)
<1> DEFINE N == Len(b)
           w == Written(resp)[o]
           a == Arrived(resp)[o]
<1> SUFFICES ASSUME NEW p \in 1 .. N + 1, Placed(b, p, w)
             PROVE  ReadsAt(c, b, resp, o, p)
  BY DEF Reads
<1>1. N \in Nat
  OBVIOUS
<1>2. Fits(o)
  BY FitsAndCanWrite
<1>3. ScalarForm(w, a)
  BY ScalarWritten
<1>4. Reading(c, b)[p] = ReadObject(c, b, Reading(c, b), p)
  BY ReadingUnfolds
<1> DEFINE r == Reading(c, b)[p]
<1>5. SUFFICES IF p - 1 + Len(w) <= N THEN r = Read(p + Len(w), FALSE, a) ELSE r.err = TRUE
  BY <1>2 DEF ReadsAt
<1>6. CASE p = N + 1
  <2>0. p > Len(b)
    BY <1>1, <1>6
  <2>1. r = Read(p, TRUE, c.atEnd)
    BY <1>4, <2>0 DEF ReadObject
  <2>2. r.err = TRUE
    BY <2>1 DEF Read
  <2>3. \A x, y : Len(<<x>>) = 1 /\ Len(<<x, y>>) = 2
    OBVIOUS
  <2> DEFINE l == Len(w)
  <2>4. l = 1 \/ l = 2
    BY <1>3, <2>3, Zenon DEF ScalarForm
  <2>5. ~(p - 1 + l <= N)
    <3> HIDE DEF l, N
    <3> QED
      BY <1>1, <1>6, <2>4
  <2> QED
    BY <2>2, <2>5
<1>7. CASE p # N + 1
  <2>1. p \in 1 .. N /\ ~(p > N)
    BY <1>1, <1>7
  <2>2. 1 \in 1 .. Len(w) => b[p] = w[1]
    <3>1. p + 1 - 1 = p /\ p <= N
      BY <1>1, <2>1
    <3> QED
      BY <3>1 DEF Placed
  <2>3. CASE /\ a.t \in {"nil", "bool", "int", "uint"} /\ a = [t |-> a.t, v |-> a.v]
             /\ w = <<Tag(a.t, a.v)>>
    <3>1. Len(w) = 1 /\ b[p] = Tag(a.t, a.v)
      BY <2>2, <2>3
    <3>2. b[p].k = a.t /\ b[p].n = a.v
      BY <3>1 DEF Tag
    <3>3. r = Read(p + 1, FALSE, [t |-> a.t, v |-> a.v])
      BY <1>4, <2>1, <2>3, <3>2 DEF ReadObject
    <3>4. p - 1 + 1 <= N
      BY <2>1
    <3> QED
      BY <2>3, <3>1, <3>3, <3>4
  <2>4. CASE /\ a.t \in {"str", "bin"} /\ a = [t |-> a.t, v |-> Empty]
             /\ w = <<Tag(a.t, 0)>>
    <3>1. Len(w) = 1 /\ b[p] = Tag(a.t, 0)
      BY <2>2, <2>4
    <3>2. b[p].k = a.t /\ b[p].n = 0
      BY <3>1 DEF Tag
    <3>3. r = ReadBytes(c, b, p)
      BY <1>4, <2>1, <2>4, <3>2 DEF ReadObject
    <3>4. r = Read(p + 1, FALSE, [t |-> a.t, v |-> Empty])
      BY <3>2, <3>3 DEF ReadBytes
    <3>5. p - 1 + 1 <= N
      BY <2>1
    <3> QED
      BY <2>4, <3>1, <3>4, <3>5
  <2>5. CASE /\ a.t \in {"str", "bin"} /\ a = [t |-> a.t, v |-> a.v]
             /\ w = <<Tag(a.t, 1), Body(a.v)>>
    <3>1. Len(w) = 2 /\ w[2] = Body(a.v) /\ b[p] = Tag(a.t, 1)
      BY <2>2, <2>5
    <3>2. b[p].k = a.t /\ b[p].n = 1
      BY <3>1 DEF Tag
    <3>3. r = ReadBytes(c, b, p)
      BY <1>4, <2>1, <2>5, <3>2 DEF ReadObject
    <3>4. CASE p = N
      <4>1. r.err = TRUE
        BY <3>2, <3>3, <3>4 DEF ReadBytes, Read
      <4>2. ~(p - 1 + 2 <= N)
        BY <1>1, <3>4
      <4> QED
        BY <3>1, <4>1, <4>2
    <3>5. CASE p # N
      <4>1. p - 1 + 2 <= N /\ p + 2 - 1 = p + 1 /\ p + 1 <= N
        BY <1>1, <2>1, <3>5
      <4>2. b[p + 1] = w[2]
        BY <3>1, <4>1 DEF Placed
      <4>3. b[p + 1].n = a.v
        BY <3>1, <4>2 DEF Body
      <4>4. ReadBytes(c, b, p) = Read(p + 2, FALSE, [t |-> b[p].k, v |-> b[p + 1].n])
        <5>1. b[p].n # 0 /\ p # Len(b)
          BY <3>2, <3>5
        <5> QED
          BY <5>1, Zenon DEF ReadBytes
      <4>5. r = Read(p + 2, FALSE, [t |-> a.t, v |-> a.v])
        BY <3>2, <3>3, <4>3, <4>4
      <4> QED
        BY <2>5, <3>1, <4>1, <4>5
    <3> QED
      BY <3>4, <3>5
  <2> QED
    BY <1>3, <2>3, <2>4, <2>5 DEF ScalarForm
<1> QED
  BY <1>6, <1>7

\* One more at the end of a list.
LEMMA AppendNext ==
    ASSUME NEW m \in Nat, NEW f, NEW k \in 1 .. m
    PROVE  Append([j \in 1 .. k - 1 |-> f[j]], f[k]) = [j \in 1 .. k |-> f[j]]
<1> DEFINE T == {f[j] : j \in 1 .. m}
           x == [j \in 1 .. k - 1 |-> f[j]]
           y == [j \in 1 .. k |-> f[j]]
<1>1. k \in Nat /\ k - 1 \in Nat /\ \A j \in 1 .. k : j \in 1 .. m
  OBVIOUS
<1>2. \A j \in 1 .. k - 1 : j \in 1 .. m
  OBVIOUS
<1>3. x \in [1 .. k - 1 -> T] /\ y \in [1 .. k -> T] /\ f[k] \in T
  BY <1>1, <1>2
<1> HIDE DEF T
<1>4. x \in Seq(T) /\ Len(x) = k - 1
  BY ONLY <1>1, <1>3, IsASeq
<1>5. y \in Seq(T) /\ Len(y) = k
  BY ONLY <1>1, <1>3, IsASeq
<1>6. Append(x, f[k]) \in Seq(T) /\ Len(Append(x, f[k])) = k
  <2> HIDE DEF x
  <2> QED
    BY <1>1, <1>3, <1>4
<1>7. ASSUME NEW j \in 1 .. k
      PROVE  Append(x, f[k])[j] = y[j]
  <2>1. CASE j = k
    <3>1. j = Len(x) + 1
      BY <1>1, <1>4, <2>1
    <3>2. Append(x, f[k])[Len(x) + 1] = f[k]
      <4> HIDE DEF x
      <4> QED
        BY <1>3, <1>4
    <3> QED
      BY <2>1, <3>1, <3>2
  <2>2. CASE j # k
    <3>1. j \in 1 .. k - 1
      BY <1>1, <2>2
    <3>2. x[j] = f[j]
      BY <3>1
    <3>3. Append(x, f[k])[j] = x[j]
      <4> HIDE DEF x
      <4> QED
        BY <1>3, <1>4, <3>1
    <3> QED
      BY <3>2, <3>3
  <2> QED
    BY <2>1, <2>2
<1> HIDE DEF x, y
<1> QED
  BY <1>5, <1>6, <1>7, SeqEqual DEF x, y

\* A round after one in error, or that reads nothing, is in error.
LEMMA RoundFails ==
    ASSUME NEW c, NEW read, NEW s, s.err = TRUE \/ (s.err = FALSE /\ read[s.at].err = TRUE)
    PROVE  ReadElement(c, read, s).err = TRUE
BY DEF ReadElement, Read

\* The round after s reads the object a.
Finds(read, s, at, a) == s.err = FALSE /\ read[s.at] = Read(at, FALSE, a) /\ a # NoObj

\* Such a round takes the object.
LEMMA RoundTakes ==
    ASSUME NEW c, NEW read, NEW s, NEW at, NEW a, Finds(read, s, at, a)
    PROVE  ReadElement(c, read, s) = [at |-> at, err |-> FALSE, objs |-> Append(s.objs, a)]
<1> DEFINE r == read[s.at]
<1>1. r.at = at /\ r.err = FALSE /\ r.obj = a
  BY DEF Finds, Read
<1> HIDE DEF r
<1>2. ReadElement(c, read, s) = [at |-> r.at, err |-> r.err,
                                objs |-> IF r.obj = NoObj THEN s.objs ELSE Append(s.objs, r.obj)]
  BY DEF ReadElement, Finds, r
<1> QED
  BY <1>1, <1>2 DEF Finds

\* The parts of a sequence that is in b are in b.
LEMMA PlacedPart ==
    ASSUME NEW b \in Seq(Element), NEW p \in 1 .. Len(b) + 1, NEW w, NEW x, Placed(b, p, w),
           NEW k \in Nat, Len(w) \in Nat, Len(x) \in Nat, k + Len(x) <= Len(w),
           \A j \in 1 .. Len(x) : w[k + j] = x[j]
    PROVE  Placed(b, p + k, x)
<1> SUFFICES ASSUME NEW j \in 1 .. Len(x), p + k + j - 1 <= Len(b)
             PROVE  b[p + k + j - 1] = x[j]
  BY DEF Placed
<1> DEFINE l == Len(x)
           m == Len(w)
<1>1. l \in Nat /\ m \in Nat /\ k + l <= m /\ j \in 1 .. l
  OBVIOUS
<1> HIDE DEF l, m
<1>2. k + j \in 1 .. m /\ p + (k + j) - 1 = p + k + j - 1
  BY <1>1
<1>3. b[p + (k + j) - 1] = w[k + j]
  BY <1>2 DEF Placed, m
<1> QED
  BY <1>2, <1>3

\* A list is read where it was written, if each of its objects is.
ListReadsAt(c, b, resp, os, q) ==
    LET r == ReadElements(c, Reading(c, b), q, Len(os))
        l == Len(FlattenSeq(WrittenOf(resp, os)))
    IN  IF q - 1 + l <= Len(b) /\ (c.strict => \A i \in 1 .. Len(os) : Fits(os[i]))
        THEN r = [at |-> q + l, err |-> FALSE, objs |-> [i \in 1 .. Len(os) |-> Arrived(resp)[os[i]]]]
        ELSE r.err = TRUE

\* Lists of objects that are read where they were written.
LEMMA ListReads ==
    ASSUME NEW c, NEW b \in Seq(Element), NEW resp \in BOOLEAN, NEW os \in Seq(Objects),
           \A i \in 1 .. Len(os) : Reads(c, b, resp, os[i]),
           NEW q \in 1 .. Len(b) + 1, Placed(b, q, FlattenSeq(WrittenOf(resp, os)))
    PROVE  ListReadsAt(c, b, resp, os, q)
<1> DEFINE N == Len(b)
           m == Len(os)
           ss == WrittenOf(resp, os)
           R == Reading(c, b)
           arr == [i \in 1 .. m |-> Arrived(resp)[os[i]]]
<1>1. N \in Nat /\ m \in Nat /\ DOMAIN os = 1 .. m /\ \A i \in 1 .. m : os[i] \in Objects
  BY LenProperties, ElementOfSeq
<1>2. \A i \in 1 .. m : ss[i] = Written(resp)[os[i]] /\ ss[i] \in Seq(Element)
  BY <1>1, WrittenBytes DEF WrittenOf
<1>3. ss \in Seq(Seq(Element)) /\ Len(ss) = m
  <2>1. ss = [i \in 1 .. m |-> ss[i]]
    BY <1>1 DEF WrittenOf
  <2> HIDE DEF ss, m
  <2>2. ss \in [1 .. m -> Seq(Element)]
    BY <1>2, <2>1
  <2> QED
    BY ONLY <1>1, <2>2, IsASeq
<1>4. PICK enc : Joined(enc, ss)
  BY <1>3, JoinedExists
<1>5. FlattenSeq(ss) = enc[m]
  BY <1>3, <1>4, FlattenIsJoined
<1>6. Growing(enc, ss)
  BY <1>3, <1>4, JoinedGrows
<1>7. PICK s : Loop(c, R, q, m, s) /\ ReadElements(c, R, q, m) = s[m]
  BY <1>1, ElementsUnfold
<1>8. Rounds(c, R, q, m, s)
  BY <1>1, <1>7, LoopRounds
<1>9. enc[0] = <<>> /\ Len(enc[0]) = 0
  BY <1>4 DEF Joined
<1>10. /\ \A i \in 0 .. m : Len(enc[i]) \in Nat /\ Len(enc[i]) <= Len(enc[m])
       /\ \A i \in 1 .. m : Len(enc[i]) = Len(enc[i - 1]) + Len(ss[i])
  BY <1>3, <1>6 DEF Growing
<1>11. Placed(b, q, enc[m])
  BY <1>5
<1> DEFINE Whole(i) == q - 1 + Len(enc[i]) <= N /\ (c.strict => \A j \in 1 .. i : Fits(os[j]))
           Claim(i) == IF Whole(i)
                       THEN s[i] = [at |-> q + Len(enc[i]), err |-> FALSE, objs |-> [j \in 1 .. i |-> arr[j]]]
                       ELSE s[i].err = TRUE
           A == {i \in 0 .. m : Claim(i)}
<1> HIDE DEF m, ss, R, N
<1>12. 0 \in A
  <2>1. s[0] = [at |-> q, err |-> FALSE, objs |-> <<>>]
    BY <1>8 DEF Rounds
  <2>2. q + 0 = q /\ q - 1 + 0 <= N
    BY <1>1 DEF N
  <2>3. [j \in 1 .. 0 |-> arr[j]] = <<>>
    OBVIOUS
  <2>4. Whole(0)
    BY <1>9, <2>2
  <2>5. Claim(0)
    BY <1>9, <2>1, <2>2, <2>3, <2>4
  <2> QED
    BY <1>1, <2>5
<1>13. ASSUME NEW i \in 1 .. m, i - 1 \in A
       PROVE  i \in A
  <2> DEFINE x == Len(enc[i - 1])
             y == Len(ss[i])
             o == os[i]
             p == q + x
  <2>1. i \in 0 .. m /\ i - 1 \in 0 .. m /\ o \in Objects
    BY <1>1
  <2>2. x \in Nat /\ y \in Nat /\ Len(enc[i]) = x + y /\ x + y <= Len(enc[m]) /\ Len(enc[m]) \in Nat
    <3>1. y \in Nat
      BY <1>2, LenProperties
    <3>2. m \in 0 .. m
      BY <1>1
    <3> QED
      BY <1>10, <2>1, <3>1, <3>2
  <2>3. s[i] = ReadElement(c, R, s[i - 1])
    BY <1>8 DEF Rounds
  <2>4. Claim(i - 1)
    BY <1>13
  <2>5. SUFFICES Claim(i)
    BY <2>1
  <2>6. CASE ~Whole(i - 1)
    <3>1. s[i].err = TRUE
      <4>1. s[i - 1].err = TRUE
        BY <2>4, <2>6
      <4> QED
        BY <2>3, <4>1, RoundFails
    <3>2. ~Whole(i)
      <4>1. CASE ~(q - 1 + x <= N)
        <5>1. ~(q - 1 + (x + y) <= N)
          <6> HIDE DEF x, y
          <6> QED
            BY <1>1, <2>2, <4>1
        <5> QED
          BY <2>2, <5>1
      <4>2. CASE ~(c.strict => \A j \in 1 .. i - 1 : Fits(os[j]))
        <5>1. \A j \in 1 .. i - 1 : j \in 1 .. i
          BY <1>1
        <5> QED
          BY <4>2, <5>1
      <4> QED
        BY <2>6, <4>1, <4>2
    <3> QED
      BY <3>1, <3>2
  <2>7. CASE Whole(i - 1)
    <3>1. s[i - 1] = [at |-> p, err |-> FALSE, objs |-> [j \in 1 .. i - 1 |-> arr[j]]]
      BY <2>4, <2>7
    <3>2. p \in 1 .. N + 1 /\ q - 1 + x <= N
      <4>1. q - 1 + x <= N
        BY <2>7
      <4> HIDE DEF x
      <4> QED
        BY <1>1, <2>2, <4>1 DEF N
    <3>3. Placed(b, p, ss[i])
      <4>1. \A j \in 1 .. Len(ss[i]) : enc[m][x + j] = ss[i][j]
        BY <1>3, <1>6 DEF Growing
      <4> HIDE DEF x
      <4> QED
        BY <1>11, <2>2, <4>1, PlacedPart DEF N
    <3>4. ReadsAt(c, b, resp, o, p)
      BY <1>2, <3>2, <3>3 DEF Reads, N, m
    <3>5. IF p - 1 + y <= N /\ (c.strict => Fits(o))
          THEN R[p] = Read(p + y, FALSE, arr[i])
          ELSE R[p].err = TRUE
      BY <1>2, <3>4 DEF ReadsAt, N, R
    <3>6. p - 1 + y = q - 1 + (x + y) /\ p + y = q + (x + y)
      <4> HIDE DEF x, y
      <4> QED
        BY <1>1, <2>2
    <3>7. Whole(i) <=> p - 1 + y <= N /\ (c.strict => Fits(o))
      <4>1. \A j \in 1 .. i : j = i \/ j \in 1 .. i - 1
        BY <1>1
      <4>2. \A j \in 1 .. i - 1 : j \in 1 .. i
        BY <1>1
      <4>3. i \in 1 .. i
        BY <1>1
      <4>4. (\A j \in 1 .. i : Fits(os[j])) <=> (\A j \in 1 .. i - 1 : Fits(os[j])) /\ Fits(o)
        BY <4>1, <4>2, <4>3
      <4>5. q - 1 + Len(enc[i]) <= N <=> p - 1 + y <= N
        BY <2>2, <3>6
      <4> QED
        BY <2>7, <4>4, <4>5
    <3>8. CASE Whole(i)
      <4>1. R[p] = Read(p + y, FALSE, arr[i])
        BY <3>5, <3>7, <3>8
      <4>2. arr[i] # NoObj
        BY <2>1, ArrivedIsObject
      <4>3. s[i] = [at |-> p + y, err |-> FALSE, objs |-> Append([j \in 1 .. i - 1 |-> arr[j]], arr[i])]
        <5> DEFINE u == s[i - 1]
                   l == [j \in 1 .. i - 1 |-> arr[j]]
        <5>1. u.err = FALSE /\ u.at = p /\ u.objs = l
          BY <3>1
        <5> DEFINE z == p + y
                   v == arr[i]
        <5>2. Finds(R, u, z, v)
          BY <4>1, <4>2, <5>1 DEF Finds
        <5> HIDE DEF u, l, v, z
        <5>3. ReadElement(c, R, u) = [at |-> z, err |-> FALSE, objs |-> Append(u.objs, v)]
          BY <5>2, RoundTakes
        <5> QED
          BY <2>3, <5>1, <5>3 DEF u, l, v, z
      <4>4. Append([j \in 1 .. i - 1 |-> arr[j]], arr[i]) = [j \in 1 .. i |-> arr[j]]
        <5> HIDE DEF arr
        <5> QED
          BY <1>1, AppendNext
      <4> QED
        BY <2>2, <3>6, <3>8, <4>3, <4>4
    <3>9. CASE ~Whole(i)
      <4>1. R[p].err = TRUE
        BY <3>5, <3>7, <3>9
      <4>2. s[i - 1].err = FALSE /\ s[i - 1].at = p
        BY <3>1
      <4>3. s[i].err = TRUE
        <5> DEFINE u == s[i - 1]
        <5>1. u.err = FALSE /\ R[u.at].err = TRUE
          BY <4>1, <4>2
        <5> HIDE DEF u
        <5>2. ReadElement(c, R, u).err = TRUE
          BY <5>1, RoundFails
        <5> QED
          BY <2>3, <5>2 DEF u
      <4> QED
        BY <3>9, <4>3
    <3> QED
      BY <3>8, <3>9
  <2> QED
    BY <2>6, <2>7
<1> HIDE DEF A
<1>14. \A i \in 0 .. m : i \in A
  BY <1>1, <1>12, <1>13, PlaceInduction
<1>15. Claim(m)
  BY <1>1, <1>14 DEF A
<1>16. [j \in 1 .. m |-> arr[j]] = arr
  OBVIOUS
<1> QED
  BY <1>5, <1>7, <1>15, <1>16 DEF ListReadsAt, ss, R, N, m

\* Arrays are read where they were written, if each of their elements is.
LEMMA ArrayReads ==
    ASSUME NEW c, NEW b \in Seq(Element), NEW resp \in BOOLEAN, NEW o \in Objects,
           o.t = "array", \A i \in 1 .. Len(o.v) : Reads(c, b, resp, o.v[i])
    PROVE  Reads(c, b, resp, o)
<1> DEFINE N == Len(b)
           m == Len(o.v)
           w == Written(resp)[o]
           f == FlattenSeq(WrittenOf(resp, o.v))
           l == Len(f)
           R == Reading(c, b)
<1> SUFFICES ASSUME NEW p \in 1 .. N + 1, Placed(b, p, w)
             PROVE  ReadsAt(c, b, resp, o, p)
  BY DEF Reads
<1>1. N \in Nat /\ m \in Nat /\ o.v \in Seq(Objects) /\ DOMAIN o.v = 1 .. m /\ \A i \in 1 .. m : o.v[i] \in Objects
  BY ElementsOf
<1>2. w = <<Tag("arr", m)>> \o f
  BY WrittenBytes
<1>3. f \in Seq(Element)
  <2> DEFINE ss == WrittenOf(resp, o.v)
  <2>1. ss \in [1 .. m -> Seq(Element)]
    BY <1>1, WrittenBytes DEF WrittenOf
  <2>2. ss \in Seq(Seq(Element))
    <3> HIDE DEF ss, m
    <3> QED
      BY <1>1, <2>1, IsASeq
  <2> QED
    BY <2>2, JoinedExists, FlattenIsJoined
<1>4. Tag("arr", m) \in Element
  BY <1>1 DEF Tag, Element
<1> HIDE DEF f
<1>5. l \in Nat /\ Len(w) = 1 + l /\ w[1] = Tag("arr", m) /\ \A j \in 1 .. l : w[1 + j] = f[j]
  <2> DEFINE t == Tag("arr", m)
  <2> HIDE DEF t
  <2>1. Len(<<t>> \o f) = 1 + Len(f) /\ (<<t>> \o f)[1] = t
    BY <1>3, <1>4 DEF t
  <2>2. \A j \in 1 .. Len(f) : (<<t>> \o f)[1 + j] = f[j]
    BY <1>3, <1>4 DEF t
  <2> QED
    BY <1>2, <1>3, <2>1, <2>2 DEF t
<1>6. R[p] = ReadObject(c, b, R, p)
  BY ReadingUnfolds
<1> HIDE DEF w, l, R
<1>7. SUFFICES IF p + l <= N /\ (c.strict => Fits(o))
               THEN R[p] = Read(p + (1 + l), FALSE, Arrived(resp)[o])
               ELSE R[p].err = TRUE
  <2>1. p - 1 + (1 + l) = p + l
    BY <1>1, <1>5
  <2> QED
    BY <1>5, <1>7, <2>1 DEF ReadsAt, w, R
<1>8. CASE p = N + 1
  <2>1. p > Len(b)
    BY <1>1, <1>8
  <2>2. R[p] = Read(p, TRUE, c.atEnd)
    BY <1>6, <2>1 DEF ReadObject
  <2>3. R[p].err = TRUE
    BY <2>2 DEF Read
  <2>4. ~(p + l <= N)
    BY <1>1, <1>5, <1>8
  <2> QED
    BY <2>3, <2>4
<1>9. CASE p # N + 1
  <2>1. p \in 1 .. N /\ ~(p > N) /\ p + 1 \in 1 .. N + 1
    BY <1>1, <1>9
  <2>2. b[p] = Tag("arr", m)
    <3>1. p + 1 - 1 = p /\ p <= N /\ 1 \in 1 .. Len(w)
      BY <1>1, <1>5, <2>1
    <3> QED
      BY <1>5, <3>1 DEF Placed
  <2>3. b[p].k = "arr" /\ b[p].n = m
    BY <2>2 DEF Tag
  <2>4. R[p] = ReadArray(c, b, R, p)
    BY <1>6, <2>1, <2>3 DEF ReadObject
  <2>5. Placed(b, p + 1, f)
    <3>1. 1 + Len(f) <= Len(w) /\ Len(w) \in Nat /\ Len(f) \in Nat
      BY <1>5 DEF l
    <3>2. \A j \in 1 .. Len(f) : w[1 + j] = f[j]
      BY <1>5 DEF l
    <3> QED
      BY <3>1, <3>2, PlacedPart
  <2> DEFINE r == ReadElements(c, R, p + 1, m)
             arr == [i \in 1 .. m |-> Arrived(resp)[o.v[i]]]
  <2>6. ListReadsAt(c, b, resp, o.v, p + 1)
    BY <1>1, <2>1, <2>5, ListReads DEF f
  <2>7. IF p + l <= N /\ (c.strict => \A i \in 1 .. m : Fits(o.v[i]))
        THEN r = [at |-> p + 1 + l, err |-> FALSE, objs |-> arr]
        ELSE r.err = TRUE
    <3>1. p + 1 - 1 + l = p + l
      BY <1>1, <1>5
    <3> QED
      BY <2>6, <3>1 DEF ListReadsAt, f, l, R
  <2>8. R[p] = IF c.strict /\ m > MaxParams THEN Read(p, TRUE, NoObj)
               ELSE Read(r.at, r.err, IF c.strict /\ r.err THEN NoObj ELSE [t |-> "array", v |-> r.objs])
    BY <2>3, <2>4 DEF ReadArray
  <2>9. Fits(o) <=> m <= MaxParams /\ \A i \in 1 .. m : Fits(o.v[i])
    BY FitsAndCanWrite
  <2>10. m > MaxParams <=> ~(m <= MaxParams)
    BY <1>1, MessagesAssumption
  <2>11. Arrived(resp)[o] = [t |-> "array", v |-> arr]
    <3>1. Arrived(resp)[o] = [t |-> "array", v |-> [i \in DOMAIN o.v |-> Arrived(resp)[o.v[i]]]]
      BY ArrivedUnfolds DEF ArrivedAs
    <3> QED
      BY <1>1, <3>1
  <2> HIDE DEF r, arr, m
  <2>12. CASE p + l <= N /\ (c.strict => Fits(o))
    <3>1. r = [at |-> p + 1 + l, err |-> FALSE, objs |-> arr]
      BY <2>7, <2>9, <2>12
    <3>2. r.at = p + 1 + l /\ r.err = FALSE /\ r.objs = arr
      BY <3>1
    <3>3. ~(c.strict /\ m > MaxParams)
      BY <2>9, <2>10, <2>12
    <3>4. R[p] = Read(p + 1 + l, FALSE, [t |-> "array", v |-> arr])
      BY <2>8, <3>2, <3>3
    <3>5. p + 1 + l = p + (1 + l)
      BY <1>1, <1>5
    <3> QED
      BY <2>11, <2>12, <3>4, <3>5
  <2>13. CASE ~(p + l <= N /\ (c.strict => Fits(o)))
    <3>1. CASE c.strict /\ m > MaxParams
      BY <2>8, <2>13, <3>1 DEF Read
    <3>2. CASE ~(c.strict /\ m > MaxParams)
      <4>1. r.err = TRUE
        BY <2>7, <2>9, <2>10, <2>13, <3>2
      <4> DEFINE z == IF c.strict /\ r.err THEN NoObj ELSE [t |-> "array", v |-> r.objs]
      <4>2. R[p] = Read(r.at, r.err, z)
        BY <2>8, <3>2
      <4> HIDE DEF z
      <4>3. Read(r.at, r.err, z).err = r.err
        BY DEF Read
      <4> QED
        BY <2>13, <4>1, <4>2, <4>3
    <3> QED
      BY <3>1, <3>2
  <2> QED
    BY <2>12, <2>13
<1> QED
  BY <1>8, <1>9

\* Every object that is written is read as it was meant, at any depth.
LEMMA ObjectReads ==
    ASSUME NEW c, NEW b \in Seq(Element), NEW resp \in BOOLEAN
    PROVE  \A o \in Objects : resp \/ NotificationCanWrite(o) => Reads(c, b, resp, o)
<1> DEFINE A == {o \in Objects : resp \/ NotificationCanWrite(o) => Reads(c, b, resp, o)}
<1>1. ASSUME NEW o \in Objects, o.t = "array" => \A i \in DOMAIN o.v : o.v[i] \in A
      PROVE  o \in A
  <2> SUFFICES ASSUME resp \/ NotificationCanWrite(o) PROVE Reads(c, b, resp, o)
    OBVIOUS
  <2>1. CASE o.t # "array"
    BY <2>1, FitsAndCanWrite, ScalarReads
  <2>2. CASE o.t = "array"
    <3>1. DOMAIN o.v = 1 .. Len(o.v)
      BY <2>2, ElementsOf
    <3>2. \A i \in 1 .. Len(o.v) : resp \/ NotificationCanWrite(o.v[i])
      BY <2>2, FitsAndCanWrite
    <3>3. \A i \in 1 .. Len(o.v) : Reads(c, b, resp, o.v[i])
      BY <1>1, <2>2, <3>1, <3>2
    <3> QED
      BY <2>2, <3>3, ArrayReads
  <2> QED
    BY <2>1, <2>2
<1> HIDE DEF A
<1>2. \A o \in Objects : o \in A
  BY <1>1, DepthInduction
<1> QED
  BY <1>2 DEF A

-----------------------------------------------------------------------------
(* Notifications.                                                          *)

Notifications == [kind : {"notification"}, method : Methods \union {NoMethod}, params : Seq(Objects)]
Responses     == [kind : {"response"}, msgid : Nat, error : Operands, result : Operands]

\* What is written of the parameters.
ParamBytes(m) == FlattenSeq(WrittenOf(FALSE, m.params))

\* The bytes of a notification that is marshalled.
LEMMA NotificationBytes ==
    ASSUME NEW m \in Notifications, MarshalNotification(m) # NoBuffer
    PROVE  /\ m.method \in Methods
           /\ \A i \in 1 .. Len(m.params) : NotificationCanWrite(m.params[i])
           /\ ParamBytes(m) \in Seq(Element)
           /\ MarshalNotification(m) = NotificationHead(m, Len(m.params)) \o ParamBytes(m)
           /\ NotificationHead(m, Len(m.params)) \in Seq(Element)
<1> DEFINE ps == m.params
           k == Len(ps)
           ss == WrittenOf(FALSE, ps)
<1>1. m.method \in Methods \union {NoMethod} /\ ps \in Seq(Objects)
  BY DEF Notifications
<1>2. k \in Nat /\ DOMAIN ps = 1 .. k /\ \A i \in 1 .. k : ps[i] \in Objects
  BY <1>1, LenProperties, ElementOfSeq
<1>3. ~(m.method = NoMethod \/ \E i \in DOMAIN ps : ~NotificationCanWrite(ps[i]))
  BY DEF MarshalNotification
<1>4. MarshalNotification(m) = NotificationHead(m, k) \o ParamBytes(m)
  BY <1>3 DEF MarshalNotification, ParamBytes, WrittenOf, NotificationWriteObject
<1>5. ParamBytes(m) \in Seq(Element)
  <2>1. ss \in [1 .. k -> Seq(Element)]
    BY <1>2, WrittenBytes DEF WrittenOf
  <2>2. ss \in Seq(Seq(Element))
    <3> HIDE DEF ss, k
    <3> QED
      BY <1>2, <2>1, IsASeq
  <2> QED
    BY <2>2, JoinedExists, FlattenIsJoined DEF ParamBytes
<1>6. NotificationHead(m, k) \in Seq(Element)
  <2>1. Tag("arr", 3) \in Element /\ Tag("uint", 2) \in Element /\ Tag("str", 1) \in Element
    BY DEF Tag, Element
  <2>2. Body(m.method) \in Element
    BY <1>1, <1>3 DEF Body, Element
  <2>3. Tag("arr", k) \in Element
    BY <1>2 DEF Tag, Element
  <2> QED
    BY <2>1, <2>2, <2>3 DEF NotificationHead
<1> QED
  BY <1>1, <1>2, <1>3, <1>4, <1>5, <1>6

\* b is the start of whole, if not all of it, and not empty.
PrefixOf(b, whole) ==
    /\ b \in Seq(Element) /\ whole \in Seq(Element)
    /\ Len(b) \in 1 .. Len(whole)
    /\ \A i \in 1 .. Len(b) : b[i] = whole[i]

\* A notification is read as it was meant when all of it is there, and is
\* refused when not; it is never read as a response.
LEMMA NotificationRead ==
    ASSUME NEW m \in Notifications, MarshalNotification(m) # NoBuffer,
           NEW b, PrefixOf(b, MarshalNotification(m))
    PROVE  /\ UnmarshalResponse(b) = NoMsg /\ ClientUnmarshalResponse(b) = NoMsg
           /\ Len(b) # Len(MarshalNotification(m)) => UnmarshalNotification(b) = NoMsg
           /\ Len(b) = Len(MarshalNotification(m)) =>
                UnmarshalNotification(b) =
                    IF \/ m.method \in LongMethods
                       \/ Len(m.params) > MaxParams
                       \/ \E i \in 1 .. Len(m.params) : ~Fits(m.params[i])
                    THEN NoMsg
                    ELSE [kind |-> "notification", method |-> m.method,
                          params |-> [i \in 1 .. Len(m.params) |-> Arrived(FALSE)[m.params[i]]]]
<1> DEFINE ps == m.params
           k == Len(ps)
           head == NotificationHead(m, k)
           f == ParamBytes(m)
           whole == MarshalNotification(m)
           N == Len(b)
           l == Len(f)
           c == NotificationReader
           R == Reading(c, b)
<1>1. ps \in Seq(Objects) /\ k \in Nat /\ \A i \in 1 .. k : ps[i] \in Objects
  <2>1. ps \in Seq(Objects)
    BY DEF Notifications
  <2> QED
    BY <2>1, LenProperties, ElementOfSeq
<1>2. f \in Seq(Element) /\ head \in Seq(Element) /\ whole = head \o f
      /\ \A i \in 1 .. k : NotificationCanWrite(ps[i])
  BY NotificationBytes
<1>3. Len(head) = 5 /\ head[1] = Tag("arr", 3) /\ head[2] = Tag("uint", 2) /\ head[3] = Tag("str", 1)
      /\ head[4] = Body(m.method) /\ head[5] = Tag("arr", k)
  BY DEF NotificationHead
<1>4. b \in Seq(Element) /\ whole \in Seq(Element) /\ N \in 1 .. Len(whole) /\ \A i \in 1 .. N : b[i] = whole[i]
  BY DEF PrefixOf
<1> HIDE DEF head, f, whole
<1>5. l \in Nat /\ Len(whole) = 5 + l /\ (\A i \in 1 .. 5 : whole[i] = head[i])
      /\ \A j \in 1 .. l : whole[5 + j] = f[j]
  <2>1. l \in Nat
    BY <1>2
  <2>2. Len(head \o f) = Len(head) + Len(f)
    BY <1>2
  <2>3. \A i \in 1 .. Len(head) : (head \o f)[i] = head[i]
    BY <1>2
  <2>4. \A j \in 1 .. Len(f) : (head \o f)[Len(head) + j] = f[j]
    BY <1>2
  <2> QED
    BY <1>2, <1>3, <2>1, <2>2, <2>3, <2>4
<1> HIDE DEF N, l
<1>6. N \in Nat /\ 1 \in 1 .. N /\ N <= 5 + l
  BY <1>4, <1>5
<1>7. b[1] = Tag("arr", 3)
  BY <1>3, <1>4, <1>5, <1>6
<1>8. UnmarshalResponse(b) = NoMsg /\ ClientUnmarshalResponse(b) = NoMsg
  <2>1. b[1] # Tag("arr", 4)
    BY <1>7 DEF Tag
  <2>2. ~ResponseStart(b)
    BY <2>1 DEF ResponseStart
  <2> QED
    BY <2>2 DEF UnmarshalResponse, ClientUnmarshalResponse
<1>9. CASE N < 5
  <2>1. ~NotificationStart(b)
    BY <1>6, <1>9 DEF NotificationStart, N
  <2>2. UnmarshalNotification(b) = NoMsg
    BY <2>1 DEF UnmarshalNotification
  <2>3. N # 5 + l
    BY <1>5, <1>6, <1>9
  <2> QED
    BY <1>5, <1>8, <2>2, <2>3 DEF N, whole
<1>10. CASE ~(N < 5)
  <2>1. \A i \in 1 .. 5 : i \in 1 .. N
    BY <1>6, <1>10
  <2>2. b[2] = Tag("uint", 2) /\ b[3] = Tag("str", 1) /\ b[4] = Body(m.method) /\ b[5] = Tag("arr", k)
    BY <1>3, <1>4, <1>5, <2>1 DEF N
  <2>3. b[3].k = "str" /\ b[5].k = "arr" /\ b[5].n = k /\ b[4].n = m.method
    BY <2>2 DEF Tag, Body
  <2>4. Len(b) >= 5
    BY <1>6, <1>10 DEF N
  <2>5. NotificationStart(b) <=> m.method \notin LongMethods /\ k <= MaxParams
    BY <1>7, <2>2, <2>3, <2>4 DEF NotificationStart
  <2>6. Placed(b, 6, f)
    <3> SUFFICES ASSUME NEW j \in 1 .. Len(f), 6 + j - 1 <= Len(b)
                 PROVE  b[6 + j - 1] = f[j]
      BY DEF Placed
    <3>1. j \in 1 .. l /\ 6 + j - 1 = 5 + j /\ 5 + j \in 1 .. N
      BY <1>5, <1>6 DEF N, l
    <3> QED
      BY <1>4, <1>5, <3>1 DEF N
  <2>7. \A i \in 1 .. k : Reads(c, b, FALSE, ps[i])
    BY <1>1, <1>2, <1>4, ObjectReads
  <2>8. 6 \in 1 .. Len(b) + 1
    BY <1>6, <1>10 DEF N
  <2>9. ListReadsAt(c, b, FALSE, ps, 6)
    BY <1>1, <1>4, <2>6, <2>7, <2>8, ListReads DEF f, ParamBytes
  <2> DEFINE r == NotificationParams(b)
             arr == [i \in 1 .. k |-> Arrived(FALSE)[ps[i]]]
  <2>10. r = ReadElements(c, R, 6, k)
    BY <2>3 DEF NotificationParams
  <2>11. c.strict = TRUE
    BY DEF NotificationReader
  <2>12. IF 5 + l <= N /\ \A i \in 1 .. k : Fits(ps[i])
         THEN r = [at |-> 6 + l, err |-> FALSE, objs |-> arr]
         ELSE r.err = TRUE
    <3>1. 6 - 1 + l = 5 + l
      BY <1>5
    <3> QED
      BY <2>9, <2>10, <2>11, <3>1 DEF ListReadsAt, N, l, f, ParamBytes
  <2>13. UnmarshalNotification(b) = IF ~NotificationStart(b) \/ r.err THEN NoMsg
                                    ELSE [kind |-> "notification", method |-> m.method, params |-> r.objs]
    BY <2>3 DEF UnmarshalNotification
  <2>14. k > MaxParams <=> ~(k <= MaxParams)
    BY <1>1, MessagesAssumption
  <2> HIDE DEF r, arr, k, ps
  <2>15. CASE N = 5 + l
    <3>1. 5 + l <= N
      BY <1>6, <2>15
    <3>2. CASE \A i \in 1 .. k : Fits(ps[i])
      <4>1. r.err = FALSE /\ r.objs = arr
        BY <2>12, <3>1, <3>2
      <4>2. UnmarshalNotification(b) =
                IF m.method \in LongMethods \/ k > MaxParams \/ \E i \in 1 .. k : ~Fits(ps[i]) THEN NoMsg
                ELSE [kind |-> "notification", method |-> m.method, params |-> arr]
        BY <2>5, <2>13, <2>14, <3>2, <4>1
      <4> QED
        BY <1>5, <1>8, <2>15, <4>2 DEF N, whole, arr, k, ps
    <3>3. CASE ~(\A i \in 1 .. k : Fits(ps[i]))
      <4>1. r.err = TRUE
        BY <2>12, <3>3
      <4>2. UnmarshalNotification(b) = NoMsg
        BY <2>13, <4>1
      <4> QED
        BY <1>5, <1>8, <2>15, <3>3, <4>2 DEF N, whole, k, ps
    <3> QED
      BY <3>2, <3>3
  <2>16. CASE N # 5 + l
    <3>1. ~(5 + l <= N)
      BY <1>5, <1>6, <2>16
    <3>2. r.err = TRUE
      BY <2>12, <3>1
    <3>3. UnmarshalNotification(b) = NoMsg
      BY <2>13, <3>2
    <3> QED
      BY <1>5, <1>8, <2>16, <3>3 DEF N, whole
  <2> QED
    BY <2>15, <2>16
<1> QED
  BY <1>9, <1>10

-----------------------------------------------------------------------------
(* Responses.                                                              *)

\* What is written of an error or a result.
LEMMA OperandBytes ==
    ASSUME NEW o \in Operands
    PROVE  /\ ObjectMarshalMPack(o) \in Seq(Element) /\ Len(ObjectMarshalMPack(o)) \in Nat
           /\ o # NoObj => o \in Objects /\ ClientObjectMarshal(o) = ObjectMarshalMPack(o)
<1>1. <<Tag("nil", 0)>> \in Seq(Element)
  <2>1. Tag("nil", 0) \in Element
    BY DEF Tag, Element
  <2> QED
    BY <2>1
<1>2. o # NoObj => o \in Objects
  BY DEF Operands
<1>3. ObjectMarshalMPack(o) \in Seq(Element)
  BY <1>1, <1>2, WrittenBytes DEF ObjectMarshalMPack
<1>4. o # NoObj => ClientObjectMarshal(o) = ObjectMarshalMPack(o)
  BY DEF ObjectMarshalMPack, ClientObjectMarshal
<1> QED
  BY <1>2, <1>3, <1>4, LenProperties

\* An error or a result is read where it was written, or the reader is in error.
OperandReadsAt(c, b, o, p) ==
    IF p - 1 + Len(ObjectMarshalMPack(o)) <= Len(b)
    THEN Reading(c, b)[p] = Read(p + Len(ObjectMarshalMPack(o)), FALSE, Seen(o))
    ELSE Reading(c, b)[p].err = TRUE

\* Errors and results are read so by the readers of responses.
LEMMA OperandReads ==
    ASSUME NEW c, c.strict = FALSE, NEW b \in Seq(Element), NEW o \in Operands,
           NEW p \in 1 .. Len(b) + 1, Placed(b, p, ObjectMarshalMPack(o))
    PROVE  OperandReadsAt(c, b, o, p)
<1> DEFINE N == Len(b)
           R == Reading(c, b)
<1>1. N \in Nat
  OBVIOUS
<1>2. CASE o # NoObj
  <2>1. o \in Objects /\ ObjectMarshalMPack(o) = Written(TRUE)[o] /\ Seen(o) = Arrived(TRUE)[o]
    BY <1>2, OperandBytes DEF ObjectMarshalMPack, Seen
  <2>2. Reads(c, b, TRUE, o)
    BY <2>1, ObjectReads
  <2>3. ReadsAt(c, b, TRUE, o, p)
    BY <2>1, <2>2 DEF Reads
  <2> QED
    BY <2>1, <2>3 DEF ReadsAt, OperandReadsAt
<1>3. CASE o = NoObj
  <2> DEFINE w == ObjectMarshalMPack(o)
  <2>1. w = <<Tag("nil", 0)>> /\ Seen(o) = Nil
    BY <1>3 DEF ObjectMarshalMPack, Seen
  <2>2. Len(w) = 1 /\ w[1] = Tag("nil", 0)
    BY <2>1
  <2>3. R[p] = ReadObject(c, b, R, p)
    BY ReadingUnfolds
  <2> HIDE DEF w, R
  <2>4. CASE p = N + 1
    <3>1. p > Len(b) /\ ~(p - 1 + 1 <= N)
      BY <1>1, <2>4
    <3>2. R[p] = Read(p, TRUE, c.atEnd)
      BY <2>3, <3>1 DEF ReadObject
    <3>3. R[p].err = TRUE
      BY <3>2 DEF Read
    <3> QED
      BY <2>2, <3>1, <3>3 DEF OperandReadsAt, w, R
  <2>5. CASE p # N + 1
    <3>1. ~(p > Len(b)) /\ p - 1 + 1 <= N /\ p + 1 - 1 = p /\ p <= Len(b)
      BY <1>1, <2>5
    <3>2. b[p] = Tag("nil", 0)
      BY <2>2, <3>1 DEF Placed, w
    <3>3. b[p].k = "nil" /\ b[p].n = 0
      BY <3>2 DEF Tag
    <3>4. R[p] = Read(p + 1, FALSE, [t |-> "nil", v |-> 0])
      BY <2>3, <3>1, <3>3 DEF ReadObject
    <3> QED
      BY <2>1, <2>2, <3>1, <3>4 DEF OperandReadsAt, w, R, Nil
  <2> QED
    BY <2>4, <2>5
<1> QED
  BY <1>2, <1>3

\* Where the elements of two sequences are in their concatenation.
LEMMA Concatenation ==
    ASSUME NEW u \in Seq(Element), NEW v \in Seq(Element)
    PROVE  /\ u \o v \in Seq(Element) /\ Len(u \o v) = Len(u) + Len(v) /\ Len(v) \in Nat
           /\ \A i \in 1 .. Len(u) : (u \o v)[i] = u[i]
           /\ \A j \in 1 .. Len(v) : (u \o v)[Len(u) + j] = v[j]
OBVIOUS

\* The bytes of a response.
LEMMA ResponseBytes ==
    ASSUME NEW m \in Responses
    PROVE  /\ MarshalResponse(m) \in Seq(Element) /\ Len(MarshalResponse(m)) >= 3
           /\ m.error # NoObj /\ m.result # NoObj => ClientMarshalResponse(m) = MarshalResponse(m)
<1> DEFINE e == ObjectMarshalMPack(m.error)
           r == ObjectMarshalMPack(m.result)
           head == ResponseHead(m)
<1>1. m.error \in Operands /\ m.result \in Operands /\ m.msgid \in Nat
  BY DEF Responses
<1>2. e \in Seq(Element) /\ r \in Seq(Element)
  BY <1>1, OperandBytes
<1>3. head \in Seq(Element) /\ Len(head) = 3
  <2>1. Tag("arr", 4) \in Element /\ Tag("uint", 1) \in Element /\ Tag("uint", m.msgid) \in Element
    BY <1>1 DEF Tag, Element
  <2> QED
    BY <2>1 DEF ResponseHead
<1> HIDE DEF e, r, head
<1>4. e \o r \in Seq(Element)
  BY <1>2
<1>5. head \o (e \o r) \in Seq(Element) /\ Len(head \o (e \o r)) = 3 + Len(e \o r) /\ Len(e \o r) \in Nat
  <2> DEFINE er == e \o r
  <2>1. er \in Seq(Element)
    BY <1>4
  <2> HIDE DEF er
  <2>2. head \o er \in Seq(Element) /\ Len(head \o er) = Len(head) + Len(er) /\ Len(er) \in Nat
    BY <1>3, <2>1, Concatenation
  <2> QED
    BY <1>3, <2>2 DEF er
<1>6. MarshalResponse(m) = head \o (e \o r)
  BY DEF MarshalResponse, head, e, r
<1>7. m.error # NoObj /\ m.result # NoObj => ClientMarshalResponse(m) = MarshalResponse(m)
  BY <1>1, OperandBytes DEF ClientMarshalResponse, MarshalResponse
<1>8. 3 + Len(e \o r) >= 3
  BY <1>5
<1> QED
  BY <1>5, <1>6, <1>7, <1>8

\* What the two readers of a response find: error and result, each in its place,
\* or that a part is missing.
Found(c, b, m, whole) ==
    LET R == Reading(c, b)
    IN  IF whole
        THEN /\ ResponseStart(b) /\ b[3].n = m.msgid
             /\ R[4].err = FALSE /\ R[4].obj = Seen(m.error)
             /\ R[R[4].at].err = FALSE /\ R[R[4].at].obj = Seen(m.result)
        ELSE ~ResponseStart(b) \/ R[4].err = TRUE \/ R[R[4].at].err = TRUE

\* They find so, however much of the response is there.
LEMMA ResponseFound ==
    ASSUME NEW m \in Responses, NEW b, PrefixOf(b, MarshalResponse(m)), NEW c, c.strict = FALSE
    PROVE  Found(c, b, m, Len(b) = Len(MarshalResponse(m)))
<1> DEFINE e == ObjectMarshalMPack(m.error)
           r == ObjectMarshalMPack(m.result)
           head == ResponseHead(m)
           whole == MarshalResponse(m)
           N == Len(b)
           x == Len(e)
           y == Len(r)
           R == Reading(c, b)
<1>1. m.error \in Operands /\ m.result \in Operands /\ m.msgid \in Nat
  BY DEF Responses
<1>2. e \in Seq(Element) /\ r \in Seq(Element) /\ x \in Nat /\ y \in Nat
  BY <1>1, OperandBytes
<1>3. head \in Seq(Element) /\ Len(head) = 3 /\ head[1] = Tag("arr", 4) /\ head[2] = Tag("uint", 1)
      /\ head[3] = Tag("uint", m.msgid)
  <2>1. Tag("arr", 4) \in Element /\ Tag("uint", 1) \in Element /\ Tag("uint", m.msgid) \in Element
    BY <1>1 DEF Tag, Element
  <2> QED
    BY <2>1 DEF ResponseHead
<1>4. b \in Seq(Element) /\ whole \in Seq(Element) /\ N \in 1 .. Len(whole) /\ \A i \in 1 .. N : b[i] = whole[i]
  BY DEF PrefixOf
<1>5. whole = head \o (e \o r)
  BY DEF MarshalResponse
<1> HIDE DEF e, r, head, whole
<1>6. Len(whole) = 3 + (x + y) /\ (\A i \in 1 .. 3 : whole[i] = head[i])
      /\ (\A j \in 1 .. x : whole[3 + j] = e[j]) /\ \A j \in 1 .. y : whole[(3 + x) + j] = r[j]
  <2> DEFINE er == e \o r
  <2>1. er \in Seq(Element) /\ Len(er) = x + y
    BY <1>2
  <2>2. (\A j \in 1 .. x : er[j] = e[j]) /\ \A j \in 1 .. y : er[x + j] = r[j]
    BY <1>2
  <2> HIDE DEF er, x, y
  <2>3. Len(head \o er) = 3 + (x + y)
    <3>1. Len(head \o er) = Len(head) + Len(er)
      BY <1>3, <2>1, Concatenation
    <3> QED
      BY <1>3, <2>1, <3>1
  <2>4. \A i \in 1 .. 3 : (head \o er)[i] = head[i]
    <3>1. \A i \in 1 .. Len(head) : (head \o er)[i] = head[i]
      BY <1>3, <2>1
    <3> QED
      BY <1>3, <3>1
  <2>5. \A j \in 1 .. x + y : (head \o er)[3 + j] = er[j]
    <3>1. \A j \in 1 .. Len(er) : (head \o er)[Len(head) + j] = er[j]
      BY <1>3, <2>1, Concatenation
    <3> QED
      BY <1>3, <2>1, <3>1
  <2>6. \A j \in 1 .. x : j \in 1 .. x + y
    BY <1>2
  <2>7. \A j \in 1 .. y : x + j \in 1 .. x + y /\ 3 + (x + j) = (3 + x) + j
    BY <1>2
  <2>8. \A j \in 1 .. x : (head \o er)[3 + j] = e[j]
    BY <2>2, <2>5, <2>6
  <2>9. \A j \in 1 .. y : (head \o er)[(3 + x) + j] = r[j]
    <3> SUFFICES ASSUME NEW j \in 1 .. y PROVE (head \o er)[(3 + x) + j] = r[j]
      OBVIOUS
    <3>1. (head \o er)[3 + (x + j)] = er[x + j]
      BY <2>5, <2>7
    <3> QED
      BY <2>2, <2>7, <3>1
  <2> QED
    BY <1>5, <2>3, <2>4, <2>8, <2>9 DEF er
<1> HIDE DEF N, x, y, R
<1>7. N \in Nat /\ N >= 1 /\ N <= 3 + (x + y)
  BY <1>2, <1>4, <1>6
<1>8. CASE N < 3
  <2>1. ~ResponseStart(b)
    BY <1>7, <1>8 DEF ResponseStart, N
  <2>2. N # 3 + (x + y)
    BY <1>2, <1>7, <1>8
  <2>3. ~(Len(b) = Len(MarshalResponse(m)))
    BY <1>6, <2>2 DEF N, whole
  <2> QED
    BY <2>1, <2>3 DEF Found
<1>9. CASE ~(N < 3)
  <2>1. \A i \in 1 .. 3 : i \in 1 .. N
    BY <1>7, <1>9
  <2>2. b[1] = Tag("arr", 4) /\ b[2] = Tag("uint", 1) /\ b[3] = Tag("uint", m.msgid)
    BY <1>3, <1>4, <1>6, <2>1
  <2>3. b[3].k = "uint" /\ b[3].n = m.msgid
    BY <2>2 DEF Tag
  <2>4. Len(b) >= 3
    BY <1>7, <1>9 DEF N
  <2>5. ResponseStart(b)
    BY <2>2, <2>3, <2>4 DEF ResponseStart
  <2>6. Placed(b, 4, e)
    <3> SUFFICES ASSUME NEW j \in 1 .. Len(e), 4 + j - 1 <= Len(b)
                 PROVE  b[4 + j - 1] = e[j]
      BY DEF Placed
    <3>1. j \in 1 .. x /\ 4 + j - 1 = 3 + j /\ 3 + j \in 1 .. N
      BY <1>2, <1>7 DEF N, x
    <3> QED
      BY <1>4, <1>6, <3>1
  <2>7. 4 \in 1 .. Len(b) + 1
    BY <1>7, <1>9 DEF N
  <2>8. OperandReadsAt(c, b, m.error, 4)
    BY <1>1, <1>4, <2>6, <2>7, OperandReads DEF e
  <2>9. IF 3 + x <= N THEN R[4] = Read(4 + x, FALSE, Seen(m.error)) ELSE R[4].err = TRUE
    <3>1. 4 - 1 + x = 3 + x
      BY <1>2
    <3> QED
      BY <2>8, <3>1 DEF OperandReadsAt, e, x, N, R
  <2>10. CASE ~(3 + x <= N)
    <3>1. R[4].err = TRUE
      BY <2>9, <2>10
    <3>2. N # 3 + (x + y)
      BY <1>2, <1>7, <2>10
    <3>3. ~(Len(b) = Len(MarshalResponse(m)))
      BY <1>6, <3>2 DEF N, whole
    <3> QED
      BY <3>1, <3>3 DEF Found, R
  <2>11. CASE 3 + x <= N
    <3> DEFINE q == 4 + x
    <3>1. R[4].err = FALSE /\ R[4].obj = Seen(m.error) /\ R[4].at = q
      BY <2>9, <2>11 DEF Read
    <3>2. q \in 1 .. Len(b) + 1
      BY <1>2, <1>7, <2>11 DEF N
    <3>3. Placed(b, q, r)
      <4> SUFFICES ASSUME NEW j \in 1 .. Len(r), q + j - 1 <= Len(b)
                   PROVE  b[q + j - 1] = r[j]
        BY DEF Placed
      <4>1. j \in 1 .. y /\ q + j - 1 = (3 + x) + j /\ (3 + x) + j \in 1 .. N
        BY <1>2, <1>7 DEF N, y
      <4> QED
        BY <1>4, <1>6, <4>1
    <3>4. OperandReadsAt(c, b, m.result, q)
      BY <1>1, <1>4, <3>2, <3>3, OperandReads DEF r
    <3>5. IF 3 + (x + y) <= N THEN R[q] = Read(q + y, FALSE, Seen(m.result)) ELSE R[q].err = TRUE
      <4>1. q - 1 + y = 3 + (x + y)
        BY <1>2
      <4> HIDE DEF q
      <4> QED
        BY <3>4, <4>1 DEF OperandReadsAt, r, y, N, R
    <3> HIDE DEF q
    <3>6. CASE N = 3 + (x + y)
      <4>1. 3 + (x + y) <= N
        BY <1>7, <3>6
      <4>2. R[q].err = FALSE /\ R[q].obj = Seen(m.result)
        BY <3>5, <4>1 DEF Read
      <4>3. Len(b) = Len(MarshalResponse(m))
        BY <1>6, <3>6 DEF N, whole
      <4> QED
        BY <2>3, <2>5, <3>1, <4>2, <4>3 DEF Found, R
    <3>7. CASE N # 3 + (x + y)
      <4>1. ~(3 + (x + y) <= N)
        BY <1>2, <1>7, <3>7
      <4>2. R[q].err = TRUE
        BY <3>5, <4>1
      <4>3. ~(Len(b) = Len(MarshalResponse(m)))
        BY <1>6, <3>7 DEF N, whole
      <4> QED
        BY <3>1, <4>2, <4>3 DEF Found, R
    <3> QED
      BY <3>6, <3>7
  <2> QED
    BY <2>10, <2>11
<1> QED
  BY <1>8, <1>9

\* A response is read as it was meant when all of it is there, and is refused
\* when not; it is never read as a notification.
LEMMA ResponseRead ==
    ASSUME NEW m \in Responses, NEW b, PrefixOf(b, MarshalResponse(m))
    PROVE  /\ UnmarshalNotification(b) = NoMsg
           /\ Len(b) # Len(MarshalResponse(m)) =>
                UnmarshalResponse(b) = NoMsg /\ ClientUnmarshalResponse(b) = NoMsg
           /\ Len(b) = Len(MarshalResponse(m)) =>
                /\ UnmarshalResponse(b) =
                     [kind |-> "response", msgid |-> m.msgid,
                      error |-> NilToNull(Seen(m.error)), result |-> NilToNull(Seen(m.result))]
                /\ ClientUnmarshalResponse(b) =
                     [kind |-> "response", msgid |-> m.msgid,
                      error |-> Seen(m.error), result |-> Seen(m.result)]
<1> DEFINE all == Len(b) = Len(MarshalResponse(m))
           S == Reading(ServerReader, b)
           C == Reading(ClientReader, b)
<1>1. UnmarshalNotification(b) = NoMsg
  <2>1. Len(b) \in 1 .. Len(MarshalResponse(m)) /\ b[1] = MarshalResponse(m)[1]
    <3>1. MarshalResponse(m) \in Seq(Element) /\ Len(b) \in 1 .. Len(MarshalResponse(m))
          /\ \A i \in 1 .. Len(b) : b[i] = MarshalResponse(m)[i]
      BY DEF PrefixOf
    <3>2. 1 \in 1 .. Len(b)
      BY <3>1
    <3> QED
      BY <3>1, <3>2
  <2>2. MarshalResponse(m)[1] = Tag("arr", 4)
    <3> DEFINE er == ObjectMarshalMPack(m.error) \o ObjectMarshalMPack(m.result)
    <3>1. ObjectMarshalMPack(m.error) \in Seq(Element) /\ ObjectMarshalMPack(m.result) \in Seq(Element)
      BY OperandBytes DEF Responses
    <3>2. er \in Seq(Element)
      BY <3>1
    <3>3. Tag("arr", 4) \in Element /\ Tag("uint", 1) \in Element /\ Tag("uint", m.msgid) \in Element
      BY DEF Tag, Element, Responses
    <3> HIDE DEF er
    <3>4. (ResponseHead(m) \o er)[1] = Tag("arr", 4)
      BY <3>2, <3>3 DEF ResponseHead
    <3> QED
      BY <3>4 DEF MarshalResponse, er
  <2>3. b[1] # Tag("arr", 3)
    BY <2>1, <2>2 DEF Tag
  <2>4. ~NotificationStart(b)
    BY <2>3 DEF NotificationStart
  <2> QED
    BY <2>4 DEF UnmarshalNotification
<1>2. Found(ServerReader, b, m, all)
  <2>1. ServerReader.strict = FALSE
    BY DEF ServerReader
  <2> QED
    BY <2>1, ResponseFound
<1>3. Found(ClientReader, b, m, all)
  <2>1. ClientReader.strict = FALSE
    BY DEF ClientReader
  <2> QED
    BY <2>1, ResponseFound
<1>4. UnmarshalResponse(b) = IF ~ResponseStart(b) \/ S[4].err \/ S[S[4].at].err THEN NoMsg
                             ELSE ResponseOf(b, NilToNull(S[4].obj), NilToNull(S[S[4].at].obj))
  BY DEF UnmarshalResponse
<1>5. ClientUnmarshalResponse(b) = IF ~ResponseStart(b) \/ C[4].err \/ C[C[4].at].err THEN NoMsg
                                   ELSE ResponseOf(b, C[4].obj, C[C[4].at].obj)
  BY DEF ClientUnmarshalResponse
<1>6. CASE ~all
  <2>1. ~ResponseStart(b) \/ S[4].err = TRUE \/ S[S[4].at].err = TRUE
    BY <1>2, <1>6 DEF Found
  <2>2. ~ResponseStart(b) \/ C[4].err = TRUE \/ C[C[4].at].err = TRUE
    BY <1>3, <1>6 DEF Found
  <2>3. UnmarshalResponse(b) = NoMsg
    BY <1>4, <2>1
  <2>4. ClientUnmarshalResponse(b) = NoMsg
    BY <1>5, <2>2
  <2> QED
    BY <1>1, <1>6, <2>3, <2>4
<1>7. CASE all
  <2>1. /\ ResponseStart(b) /\ b[3].n = m.msgid
        /\ S[4].err = FALSE /\ S[4].obj = Seen(m.error)
        /\ S[S[4].at].err = FALSE /\ S[S[4].at].obj = Seen(m.result)
    BY <1>2, <1>7 DEF Found
  <2>2. /\ C[4].err = FALSE /\ C[4].obj = Seen(m.error)
        /\ C[C[4].at].err = FALSE /\ C[C[4].at].obj = Seen(m.result)
    BY <1>3, <1>7 DEF Found
  <2>3. UnmarshalResponse(b) = ResponseOf(b, NilToNull(Seen(m.error)), NilToNull(Seen(m.result)))
    BY <1>4, <2>1
  <2>4. ClientUnmarshalResponse(b) = ResponseOf(b, Seen(m.error), Seen(m.result))
    BY <1>5, <2>1, <2>2
  <2> QED
    BY <1>1, <1>7, <2>1, <2>3, <2>4 DEF ResponseOf
<1> QED
  BY <1>6, <1>7

-----------------------------------------------------------------------------
(* The messages in transit.                                                *)

Msgs == Notifications \union Responses

\* All the bytes of a message.
Whole(m) == IF m.kind = "notification" THEN MarshalNotification(m) ELSE MarshalResponse(m)

\* b is what came of message m: all of it, or not when it was cut.
CameOf(b, m, short) ==
    /\ Whole(m) # NoBuffer /\ PrefixOf(b, Whole(m))
    /\ short = TRUE <=> Len(b) # Len(Whole(m))

\* No bytes are NoBuffer.
LEMMA NoBufferIsNone ==
    NoBuffer \notin Seq(Element)
<1> SUFFICES ASSUME NoBuffer \in Seq(Element) PROVE FALSE
  OBVIOUS
<1>1. Len(NoBuffer) = 1 /\ NoBuffer[1] = Tag("no buffer", 0)
  BY DEF NoBuffer
<1>2. NoBuffer[1] \in Element
  <2>1. \A b \in Seq(Element) : Len(b) = 1 => b[1] \in Element
    <3> SUFFICES ASSUME NEW b \in Seq(Element), Len(b) = 1 PROVE b[1] \in Element
      OBVIOUS
    <3>1. 1 \in 1 .. Len(b)
      OBVIOUS
    <3> QED
      BY <3>1, ElementOfSeq
  <2> QED
    BY <1>1, <2>1
<1>3. Tag("no buffer", 0) \in Element
  BY <1>1, <1>2
<1> QED
  BY <1>3 DEF Tag, Element

\* Just after a message is marshalled all of it is there.
LEMMA MarshalledWhole ==
    ASSUME NEW m \in Msgs, Whole(m) # NoBuffer
    PROVE  CameOf(Whole(m), m, FALSE)
<1> DEFINE w == Whole(m)
<1>1. w \in Seq(Element) /\ Len(w) >= 1 /\ Len(w) \in Nat
  <2>1. CASE m \in Notifications
    <3> DEFINE head == NotificationHead(m, Len(m.params))
               ps == ParamBytes(m)
    <3>1. w = MarshalNotification(m)
      BY <2>1 DEF Whole, Notifications
    <3>2. head \in Seq(Element) /\ ps \in Seq(Element) /\ w = head \o ps
      BY <2>1, <3>1, NotificationBytes
    <3>3. Len(head) = 5
      BY DEF NotificationHead
    <3> HIDE DEF head, ps, w
    <3>4. head \o ps \in Seq(Element) /\ Len(head \o ps) = Len(head) + Len(ps) /\ Len(ps) \in Nat
      BY <3>2, Concatenation
    <3>5. Len(head \o ps) >= 1 /\ Len(head \o ps) \in Nat
      BY <3>3, <3>4
    <3> QED
      BY <3>2, <3>4, <3>5
  <2>2. CASE m \in Responses
    <3>1. w = MarshalResponse(m)
      BY <2>2 DEF Whole, Responses
    <3>2. w \in Seq(Element) /\ Len(w) >= 3
      BY <2>2, <3>1, ResponseBytes
    <3> HIDE DEF w
    <3>3. Len(w) \in Nat
      BY <3>2
    <3> QED
      BY <3>2, <3>3
  <2> QED
    BY <2>1, <2>2 DEF Msgs
<1> HIDE DEF w
<1>2. Len(w) \in 1 .. Len(w)
  BY <1>1
<1> QED
  BY <1>1, <1>2 DEF CameOf, PrefixOf, w

\* The start of what came is still a start of the message, and not all of it.
LEMMA CutShort ==
    ASSUME NEW m, NEW b, NEW short, CameOf(b, m, short), NEW k \in 1 .. Len(b) - 1
    PROVE  CameOf(SubSeq(b, 1, k), m, TRUE) /\ SubSeq(b, 1, k) # NoBuffer
<1> DEFINE w == Whole(m)
           x == Len(b)
           y == Len(w)
           s == SubSeq(b, 1, k)
<1>1. b \in Seq(Element) /\ w \in Seq(Element) /\ x \in 1 .. y /\ \A i \in 1 .. x : b[i] = w[i]
  BY DEF CameOf, PrefixOf
<1>2. y \in Nat /\ x \in Nat
  BY <1>1
<1>3. k \in 1 .. x - 1
  OBVIOUS
<1> HIDE DEF w, x, y
<1>4. k \in Nat /\ k >= 1 /\ k < x /\ x <= y /\ k \in 1 .. y /\ k # y
  BY <1>1, <1>2, <1>3
<1>5. \A i \in 1 .. k : i \in 1 .. x
  BY <1>1, <1>2, <1>4
<1>6. s \in Seq(Element) /\ Len(s) = k /\ \A i \in 1 .. k : s[i] = b[i]
  BY <1>1, <1>4, <1>5 DEF x
<1> HIDE DEF s
<1>7. PrefixOf(s, w)
  BY <1>1, <1>4, <1>5, <1>6 DEF PrefixOf, y
<1>8. s # NoBuffer
  BY <1>6, NoBufferIsNone
<1> QED
  BY <1>4, <1>6, <1>7, <1>8 DEF CameOf, s, w, y

\* g is nothing, or a message of m's kind of which no byte is missing.
Kept(g, m, short) ==
    /\ g.kind \in {"null", "notification", "response"}
    /\ g # NoMsg => short = FALSE /\ g.kind = m.kind

\* None of the three functions makes anything of a message that was cut, or of
\* one that is not of its kind.
LEMMA ReadKept ==
    ASSUME NEW m \in Msgs, NEW b, NEW short \in BOOLEAN, CameOf(b, m, short)
    PROVE  /\ Kept(UnmarshalNotification(b), m, short)
           /\ Kept(UnmarshalResponse(b), m, short)
           /\ Kept(ClientUnmarshalResponse(b), m, short)
<1>1. NoMsg.kind = "null"
  BY DEF NoMsg
<1>2. UnmarshalNotification(b) = NoMsg \/ UnmarshalNotification(b).kind = "notification"
  BY DEF UnmarshalNotification
<1>3. UnmarshalResponse(b) = NoMsg \/ UnmarshalResponse(b).kind = "response"
  BY DEF UnmarshalResponse, ResponseOf
<1>4. ClientUnmarshalResponse(b) = NoMsg \/ ClientUnmarshalResponse(b).kind = "response"
  BY DEF ClientUnmarshalResponse, ResponseOf
<1>5. CASE m \in Notifications
  <2>1. m.kind = "notification" /\ Whole(m) = MarshalNotification(m)
    BY <1>5 DEF Whole, Notifications
  <2>2. /\ MarshalNotification(m) # NoBuffer /\ PrefixOf(b, MarshalNotification(m))
        /\ short = TRUE <=> Len(b) # Len(MarshalNotification(m))
    BY <2>1 DEF CameOf
  <2>3. /\ UnmarshalResponse(b) = NoMsg /\ ClientUnmarshalResponse(b) = NoMsg
        /\ short = TRUE => UnmarshalNotification(b) = NoMsg
    BY <1>5, <2>2, NotificationRead
  <2> QED
    BY <1>1, <1>2, <2>1, <2>3 DEF Kept
<1>6. CASE m \in Responses
  <2>1. m.kind = "response" /\ Whole(m) = MarshalResponse(m)
    BY <1>6 DEF Whole, Responses
  <2>2. /\ PrefixOf(b, MarshalResponse(m))
        /\ short = TRUE <=> Len(b) # Len(MarshalResponse(m))
    BY <2>1 DEF CameOf
  <2>3. /\ UnmarshalNotification(b) = NoMsg
        /\ short = TRUE => UnmarshalResponse(b) = NoMsg /\ ClientUnmarshalResponse(b) = NoMsg
    BY <1>6, <2>2, ResponseRead
  <2> QED
    BY <1>1, <1>3, <1>4, <2>1, <2>3 DEF Kept
<1> QED
  BY <1>5, <1>6 DEF Msgs

-----------------------------------------------------------------------------
(* The state machine.                                                      *)

\* What is marshalled and then cut stays the start of the message it was meant
\* to be, and what was read of it is nothing or the whole of it.
Inv ==
    /\ TypeOK
    /\ Building => buffer = NoBuffer
    /\ buffer = NoBuffer => cut = FALSE /\ got = NoMsg
    /\ Sent => CameOf(buffer, meant, cut)
    /\ Kept(got, meant, cut)

\* What a caller has built is a message, and one of the two kinds.
LEMMA TypesOfMessages ==
    ASSUME TypeOK
    PROVE  /\ n \in Notifications /\ n.kind = "notification" /\ n # NoMsg
           /\ response \in Responses /\ response.kind = "response" /\ response # NoMsg
           /\ meant # NoMsg => meant \in Msgs
<1>1. n \in Notifications /\ response \in Responses /\ meant \in {NoMsg, n, response}
  BY DEF TypeOK, Notifications, Responses
<1>2. n.kind = "notification" /\ response.kind = "response"
  BY <1>1 DEF Notifications, Responses
<1>3. NoMsg.kind = "null"
  BY DEF NoMsg
<1> QED
  BY <1>1, <1>2, <1>3 DEF Msgs

\* A caller that builds a message leaves what is sent alone.
LEMMA BuildingKeeps ==
    ASSUME Inv, Building, UNCHANGED sendVars, TypeOK'
    PROVE  Inv'
<1>1. buffer = NoBuffer /\ buffer' = buffer /\ meant' = meant /\ cut' = cut /\ got' = got /\ meant = NoMsg
  BY DEF Inv, Building, sendVars
<1>2. ~Sent'
  BY <1>1 DEF Sent
<1>3. cut = FALSE /\ got = NoMsg
  BY <1>1 DEF Inv
<1>4. Kept(got, meant, cut)'
  BY <1>1 DEF Inv
<1> QED
  BY <1>1, <1>2, <1>3, <1>4 DEF Inv

\* Marshalling sends the whole message, or nothing.
LEMMA MarshallingKeeps ==
    ASSUME Inv, Building, NEW m \in {n, response},
           buffer' = Whole(m), meant' = m, UNCHANGED <<n, capacity, response, cut, got>>
    PROVE  Inv'
<1>1. m \in Msgs /\ m # NoMsg
  BY TypesOfMessages DEF Inv, Msgs
<1>2. cut = FALSE /\ got = NoMsg /\ cut' = FALSE /\ got' = NoMsg
  BY DEF Inv
<1>3. TypeOK'
  BY DEF Inv, TypeOK
<1>4. Sent' => CameOf(buffer', m, FALSE)
  BY <1>1, MarshalledWhole DEF Sent
<1>5. (Sent => CameOf(buffer, meant, cut))'
  BY <1>2, <1>4
<1>6. (Building => buffer = NoBuffer)'
  BY <1>1 DEF Building
<1>7. Kept(got, meant, cut)'
  BY <1>2 DEF Kept, NoMsg
<1> QED
  BY <1>2, <1>3, <1>5, <1>6, <1>7 DEF Inv

\* A function that reads what came changes nothing else.
LEMMA ReadingKeeps ==
    ASSUME Inv, Sent, UNCHANGED <<n, capacity, response, buffer, meant, cut>>,
           got' \in {UnmarshalNotification(buffer), UnmarshalResponse(buffer), ClientUnmarshalResponse(buffer)}
    PROVE  Inv'
<1>1. meant \in Msgs /\ cut \in BOOLEAN /\ CameOf(buffer, meant, cut)
  BY TypesOfMessages DEF Inv, Sent, TypeOK
<1>2. Kept(got', meant, cut)
  BY <1>1, ReadKept
<1>3. Kept(got, meant, cut)'
  BY <1>2
<1>4. TypeOK'
  BY <1>2 DEF Inv, TypeOK, Kept
<1>5. (Sent => CameOf(buffer, meant, cut))'
  BY <1>1
<1>6. (Building => buffer = NoBuffer)' /\ (buffer = NoBuffer => cut = FALSE /\ got = NoMsg)'
  BY DEF Sent, Building
<1> QED
  BY <1>3, <1>4, <1>5, <1>6 DEF Inv

\* The first message is empty, and so is each after a Free.
LEMMA StartInv ==
    Init => Inv
<1> SUFFICES ASSUME Init PROVE Inv
  OBVIOUS
<1>1. n = NotificationNew /\ response = ResponseNew /\ capacity = ArrayCapFirst /\ buffer = NoBuffer
      /\ meant = NoMsg /\ cut = FALSE /\ got = NoMsg
  BY DEF Init
<1>2. n \in Notifications /\ Len(n.params) = 0
  BY <1>1 DEF NotificationNew, Notifications
<1>3. response \in Responses
  BY <1>1 DEF ResponseNew, Responses, Operands
<1>4. got.kind = "null"
  BY <1>1 DEF NoMsg
<1>5. TypeOK
  <2>1. capacity \in Nat \ {0} /\ Len(n.params) <= capacity
    BY <1>1, <1>2, MessagesAssumption
  <2>2. meant \in {NoMsg, n, response} /\ cut \in BOOLEAN
    BY <1>1
  <2> QED
    BY <1>2, <1>3, <1>4, <2>1, <2>2 DEF TypeOK, Notifications, Responses
<1> QED
  BY <1>1, <1>4, <1>5 DEF Inv, Sent, Kept

\* Every step keeps the invariant.
LEMMA NextInv ==
    Inv /\ [Next]_vars => Inv'
<1> SUFFICES ASSUME Inv, [Next]_vars PROVE Inv'
  OBVIOUS
<1> USE DEF sendVars
<1>0. TypeOK /\ n \in Notifications /\ capacity \in Nat \ {0} /\ Len(n.params) <= capacity
      /\ n.params \in Seq(Objects) /\ Len(n.params) \in Nat
  <2>1. TypeOK /\ n \in Notifications /\ capacity \in Nat \ {0} /\ Len(n.params) <= capacity
    BY TypesOfMessages DEF Inv, TypeOK
  <2>2. n.params \in Seq(Objects)
    BY <2>1 DEF Notifications
  <2> QED
    BY <2>1, <2>2
<1>1. ASSUME NEW method \in Methods, NotificationSetMethod(method) PROVE Inv'
  <2>1. Building /\ UNCHANGED sendVars /\ UNCHANGED <<capacity, response>> /\ meant = NoMsg
        /\ n' = [n EXCEPT !.method = method]
    BY <1>1 DEF NotificationSetMethod, Building
  <2>2. n' \in Notifications /\ n'.params = n.params
    BY <1>0, <2>1 DEF Notifications
  <2>3. TypeOK'
    BY <1>0, <2>1, <2>2 DEF TypeOK, Notifications
  <2> QED
    BY <2>1, <2>3, BuildingKeeps
<1>2. ASSUME NEW o \in Objects, ObjectArrayAppend(o) PROVE Inv'
  <2> DEFINE ps == n.params
             x == Len(ps)
             more == Append(ps, ObjectCopy[o])
  <2>1. Building /\ UNCHANGED sendVars /\ UNCHANGED response /\ meant = NoMsg
        /\ n' \in {n, [n EXCEPT !.params = more]}
        /\ capacity' = IF x >= capacity THEN 2 * capacity ELSE capacity
    BY <1>2 DEF ObjectArrayAppend, Building
  <2>2. ObjectCopy[o] \in Objects
    BY CopiesAssumption
  <2>3. more \in Seq(Objects) /\ Len(more) = x + 1
    BY <1>0, <2>2
  <2>4. ps \in Seq(Objects) /\ x \in Nat /\ x <= capacity /\ capacity \in Nat \ {0}
    BY <1>0
  <2> HIDE DEF x, more
  <2>5. capacity' \in Nat \ {0} /\ x <= capacity' /\ x + 1 <= capacity'
    BY <2>1, <2>4
  <2>6. [n EXCEPT !.params = more] \in Notifications /\ [n EXCEPT !.params = more].params = more
    BY <1>0, <2>3 DEF Notifications
  <2>7. n' \in Notifications /\ Len(n'.params) \in {x, x + 1}
    BY <1>0, <2>1, <2>3, <2>6 DEF x
  <2>8. Len(n'.params) <= capacity'
    BY <2>5, <2>7
  <2>9. TypeOK'
    BY <1>0, <2>1, <2>5, <2>7, <2>8 DEF TypeOK, Notifications
  <2> QED
    BY <2>1, <2>9, BuildingKeeps
<1>3. ASSUME NEW i \in DOMAIN n.params, ObjectArrayRemove(i) PROVE Inv'
  <2> DEFINE ps == n.params
             x == Len(ps)
             left == SubSeq(ps, 1, i - 1)
             right == SubSeq(ps, i + 1, x)
             less == left \o right
  <2>1. Building /\ UNCHANGED sendVars /\ UNCHANGED <<capacity, response>> /\ meant = NoMsg
        /\ n' = [n EXCEPT !.params = less]
    BY <1>3 DEF ObjectArrayRemove, Building, RemoveAt
  <2>2. ps \in Seq(Objects) /\ x \in Nat /\ x <= capacity /\ capacity \in Nat \ {0} /\ i \in 1 .. x
    BY <1>0
  <2>3. left \in Seq(Objects) /\ Len(left) = i - 1
    BY <2>2
  <2>4. right \in Seq(Objects) /\ Len(right) = x - i
    BY <2>2
  <2> HIDE DEF ps, x, left, right
  <2>5. less \in Seq(Objects) /\ Len(less) = Len(left) + Len(right)
    BY <2>3, <2>4
  <2> HIDE DEF less
  <2>6. Len(less) <= capacity
    BY <2>2, <2>3, <2>4, <2>5
  <2>7. n' \in Notifications /\ n'.params = less
    BY <1>0, <2>1, <2>5 DEF Notifications
  <2>8. TypeOK'
    BY <1>0, <2>1, <2>6, <2>7 DEF TypeOK, Notifications
  <2> QED
    BY <2>1, <2>8, BuildingKeeps
<1>4. ASSUME NEW id \in MsgIds, NEW error \in Operands, NEW result \in Operands,
             ResponseSet(id, error, result)
      PROVE  Inv'
  <2>1. Building /\ UNCHANGED sendVars /\ UNCHANGED <<n, capacity>> /\ meant = NoMsg
        /\ response' = [kind |-> "response", msgid |-> id, error |-> error, result |-> result]
    BY <1>4 DEF ResponseSet, Building
  <2>2. response' \in [kind : {"response"}, msgid : Nat, error : Operands, result : Operands]
    BY <2>1, MessagesAssumption
  <2>3. TypeOK'
    BY <1>0, <2>1, <2>2 DEF TypeOK
  <2> QED
    BY <2>1, <2>3, BuildingKeeps
<1>5. CASE NotificationMarshal
  <2>1. n.kind = "notification"
    BY <1>0, TypesOfMessages
  <2>2. Building /\ buffer' = Whole(n) /\ meant' = n /\ UNCHANGED <<n, capacity, response, cut, got>>
    BY <1>5, <2>1 DEF NotificationMarshal, Whole
  <2> QED
    BY <2>2, MarshallingKeeps
<1>6. CASE ResponseMarshal
  <2>1. response.kind = "response"
    BY <1>0, TypesOfMessages
  <2>2. Building /\ buffer' = Whole(response) /\ meant' = response
        /\ UNCHANGED <<n, capacity, response, cut, got>>
    BY <1>6, <2>1 DEF ResponseMarshal, Whole
  <2> QED
    BY <2>2, MarshallingKeeps
<1>7. CASE ClientMarshal
  <2>1. response.kind = "response" /\ response \in Responses
    BY <1>0, TypesOfMessages
  <2>2. ClientMarshalResponse(response) = MarshalResponse(response)
    BY <1>7, <2>1, ResponseBytes DEF ClientMarshal
  <2>3. Building /\ buffer' = Whole(response) /\ meant' = response
        /\ UNCHANGED <<n, capacity, response, cut, got>>
    BY <1>7, <2>1, <2>2 DEF ClientMarshal, Whole
  <2> QED
    BY <2>3, MarshallingKeeps
<1>8. ASSUME NEW k \in 1 .. Len(buffer), Cut(k) PROVE Inv'
  <2>1. Sent /\ got = NoMsg /\ k \in 1 .. Len(buffer) - 1 /\ buffer' = SubSeq(buffer, 1, k)
        /\ cut' = TRUE /\ UNCHANGED <<n, capacity, response, meant, got>>
    BY <1>8 DEF Cut
  <2>2. CameOf(buffer, meant, cut)
    BY <2>1 DEF Inv
  <2>3. CameOf(SubSeq(buffer, 1, k), meant, TRUE) /\ SubSeq(buffer, 1, k) # NoBuffer
    BY <2>1, <2>2, CutShort
  <2>4. CameOf(buffer, meant, cut)' /\ buffer' # NoBuffer
    BY <2>1, <2>3
  <2>5. meant' # NoMsg
    BY <2>1 DEF Sent
  <2>6. Kept(got, meant, cut)'
    BY <2>1 DEF Kept, NoMsg
  <2>7. TypeOK'
    BY <1>0, <2>1 DEF TypeOK
  <2> QED
    BY <2>4, <2>5, <2>6, <2>7 DEF Inv, Building
<1>9. CASE NotificationUnmarshal
  BY <1>9, ReadingKeeps DEF NotificationUnmarshal
<1>10. CASE ResponseUnmarshal
  BY <1>10, ReadingKeeps DEF ResponseUnmarshal
<1>11. CASE ClientUnmarshal
  BY <1>11, ReadingKeeps DEF ClientUnmarshal
<1>12. CASE Free
  <2>1. Init'
    BY <1>12 DEF Free, Init
  <2>2. Init' => Inv'
    BY StartInv, PTL
  <2> QED
    BY <2>1, <2>2
<1>13. CASE UNCHANGED vars
  BY <1>13 DEF Inv, vars, TypeOK, Building, Sent
<1> QED
  BY <1>1, <1>2, <1>3, <1>4, <1>5, <1>6, <1>7, <1>8, <1>9, <1>10, <1>11, <1>12, <1>13 DEF Next

\* The invariant holds in every state of the message functions.
LEMMA InvAlways ==
    Spec => []Inv
BY StartInv, NextInv, PTL DEF Spec

\* The variables have their types, and the parameters of a notification stay
\* inside the array that ObjectArrayAppend grows.
THEOREM TypesHold ==
    Spec => []TypeOK
<1>1. Inv => TypeOK
  BY DEF Inv
<1> QED
  BY <1>1, InvAlways, PTL

\* A notification with other parameters.
LEMMA WithParams ==
    ASSUME NEW m \in Notifications, NEW as
    PROVE  [m EXCEPT !.params = as] = [kind |-> "notification", method |-> m.method, params |-> as]
<1> DEFINE a == [m EXCEPT !.params = as]
<1>1. a.kind = "notification" /\ a.method = m.method /\ a.params = as
  BY DEF Notifications
<1>2. a \in [kind : {"notification"}, method : {m.method}, params : {as}]
  BY DEF Notifications
<1> HIDE DEF a
<1>3. a = [kind |-> a.kind, method |-> a.method, params |-> a.params]
  BY <1>2
<1> QED
  BY <1>1, <1>3 DEF a

\* A notification marshalled by NotificationMarshal holds no map or undefined
\* object, and NotificationUnmarshal reads it as it was meant, for objects of
\* every shape, or refuses it for its limits alone.
THEOREM NotificationsArrive ==
    Spec => []NotificationArrives
<1>1. Inv => NotificationArrives
  <2> SUFFICES ASSUME Inv, meant.kind = "notification", buffer # NoBuffer PROVE NotificationArrives
    BY DEF NotificationArrives
  <2> DEFINE w == MarshalNotification(meant)
             ps == meant.params
             x == Len(ps)
  <2>1. meant # NoMsg
    BY DEF NoMsg
  <2>2. meant \in Notifications
    BY <2>1, TypesOfMessages DEF Inv, Msgs, Responses
  <2>3. CameOf(buffer, meant, cut) /\ Whole(meant) = w /\ cut \in BOOLEAN
    BY <2>1 DEF Inv, Sent, Whole, TypeOK
  <2>4. w # NoBuffer /\ PrefixOf(buffer, w) /\ (cut = TRUE <=> Len(buffer) # Len(w))
    BY <2>3 DEF CameOf
  <2>5. ps \in Seq(Objects) /\ DOMAIN ps = 1 .. x
    BY <2>2 DEF Notifications
  <2>6. \A i \in 1 .. x : NotificationCanWrite(ps[i])
    BY <2>2, <2>4, NotificationBytes
  <2>7. Len(buffer) = Len(w) =>
          UnmarshalNotification(buffer) =
              IF meant.method \in LongMethods \/ x > MaxParams \/ \E i \in 1 .. x : ~Fits(ps[i])
              THEN NoMsg
              ELSE [kind |-> "notification", method |-> meant.method,
                    params |-> [i \in 1 .. x |-> Arrived(FALSE)[ps[i]]]]
    BY <2>2, <2>4, NotificationRead
  <2>8. [meant EXCEPT !.params = [i \in DOMAIN @ |-> Arrived(FALSE)[@[i]]]] =
            [kind |-> "notification", method |-> meant.method,
             params |-> [i \in 1 .. x |-> Arrived(FALSE)[ps[i]]]]
    <3> DEFINE as == [i \in 1 .. x |-> Arrived(FALSE)[ps[i]]]
    <3>1. [meant EXCEPT !.params = [i \in DOMAIN @ |-> Arrived(FALSE)[@[i]]]] = [meant EXCEPT !.params = as]
      BY <2>5
    <3> HIDE DEF as
    <3>2. [meant EXCEPT !.params = as] = [kind |-> "notification", method |-> meant.method, params |-> as]
      BY <2>2, WithParams
    <3> QED
      BY <3>1, <3>2 DEF as
  <2>9. \A i \in DOMAIN ps : \A part \in Parts[ps[i]] : part.t \notin {"map", "und"}
    BY <2>5, <2>6 DEF NotificationCanWrite
  <2> HIDE DEF w
  <2> QED
    BY <2>4, <2>5, <2>7, <2>8, <2>9 DEF NotificationArrives
<1> QED
  BY <1>1, InvAlways, PTL

\* A whole response is accepted by ResponseUnmarshal and by the C++ client,
\* whichever of the two wrote it, and what the codec carries of it is read as it
\* was meant, for objects of every shape.
THEOREM ResponsesArrive ==
    Spec => []ResponseArrives
<1>1. Inv => ResponseArrives
  <2> SUFFICES ASSUME Inv, Sent, meant.kind = "response", ~cut PROVE ResponseArrives
    BY DEF ResponseArrives
  <2>1. meant \in Responses
    BY TypesOfMessages DEF Inv, Sent, Msgs, Notifications
  <2>2. CameOf(buffer, meant, cut) /\ Whole(meant) = MarshalResponse(meant)
    BY DEF Inv, Whole
  <2>3. PrefixOf(buffer, MarshalResponse(meant)) /\ Len(buffer) = Len(MarshalResponse(meant))
    BY <2>2 DEF CameOf
  <2> QED
    BY <2>1, <2>3, ResponseRead DEF ResponseArrives
<1> QED
  BY <1>1, InvAlways, PTL

\* A message of which a byte is missing, or of the other kind, is refused by
\* every one of the functions that read messages.
THEOREM PartsRefused ==
    Spec => []PartRefused
<1>1. Inv => PartRefused
  BY DEF Inv, Kept, PartRefused
<1> QED
  BY <1>1, InvAlways, PTL
=============================================================================
