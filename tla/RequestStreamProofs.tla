------------------------- MODULE RequestStreamProofs ------------------------
(***************************************************************************)
(* What the server dispatches of the requests it is sent, for requests of  *)
(* any length and number and for every way to cut the stream.              *)
(***************************************************************************)
EXTENDS RequestStream, SequenceTheorems, WellFoundedInduction, TLAPS

-----------------------------------------------------------------------------
(* Induction over places, and recursive functions.                         *)

\* A set of places that is not empty has a first one.
LEMMA LeastElement ==
    ASSUME NEW S, S \subseteq Nat, S # {}
    PROVE  \E k \in S : \A j \in S : k <= j
<1> DEFINE R == OpToRel(<, Nat)
<1>1. IsWellFoundedOn(R, Nat)
  BY NatLessThanWellFounded
<1>2. \A j, k \in Nat : j < k => <<j, k>> \in R
  BY DEF OpToRel
<1> HIDE DEF R
<1>3. PICK k \in S : \A j \in S : ~(<<j, k>> \in R)
  BY <1>1, WFMin
<1>4. \A j \in S : ~(j < k)
  BY <1>2, <1>3
<1>5. \A j \in S : k <= j
  BY <1>4
<1> QED
  BY <1>5

\* Induction over the places 0 .. n, for a set of places.
LEMMA PlaceInduction ==
    ASSUME NEW n \in Nat, NEW A, 0 \in A, \A i \in 1 .. n : i - 1 \in A => i \in A
    PROVE  \A i \in 0 .. n : i \in A
<1> DEFINE B == {i \in 0 .. n : i \notin A}
<1> SUFFICES ASSUME B # {} PROVE FALSE
  OBVIOUS
<1>a. B \subseteq Nat
  OBVIOUS
<1>1. PICK k \in B : \A j \in B : k <= j
  BY <1>a, LeastElement
<1>2. k \in 1 .. n /\ k - 1 \in 0 .. n /\ ~(k <= k - 1)
  BY <1>1
<1>3. k - 1 \in A
  BY <1>1, <1>2
<1> QED
  BY <1>1, <1>2, <1>3

\* f is the function that starts with a and goes on with step.
Recursion(f, n, S, a, step) ==
    /\ f \in [0 .. n -> S]
    /\ f[0] = a
    /\ \A i \in 1 .. n : f[i] = step[i][f[i - 1]]

\* A recursive function on 0 .. n exists.
LEMMA RecursionExists ==
    ASSUME NEW n \in Nat, NEW S, NEW a \in S, NEW step \in [1 .. n -> [S -> S]]
    PROVE  \E f : Recursion(f, n, S, a, step)
<1> DEFINE A == {k \in 0 .. n : \E f : Recursion(f, k, S, a, step)}
<1>1. 0 \in A
  <2> DEFINE f == [i \in 0 .. 0 |-> a]
  <2>1. Recursion(f, 0, S, a, step)
    BY DEF Recursion
  <2> QED
    BY <2>1
<1>2. ASSUME NEW k \in 1 .. n, k - 1 \in A
      PROVE  k \in A
  <2>1. PICK f : Recursion(f, k - 1, S, a, step)
    BY <1>2
  <2> DEFINE x == step[k][f[k - 1]]
             g == [i \in 0 .. k |-> IF i = k THEN x ELSE f[i]]
  <2>2. x \in S /\ f \in [0 .. k - 1 -> S]
    BY <2>1 DEF Recursion
  <2>3. \A i \in 0 .. k : i # k => i \in 0 .. k - 1
    OBVIOUS
  <2>4. g \in [0 .. k -> S]
    BY <2>2, <2>3
  <2>5. g[0] = a
    BY <2>1 DEF Recursion
  <2>6. ASSUME NEW i \in 1 .. k
        PROVE  g[i] = step[i][g[i - 1]]
    <3>1. i - 1 \in 0 .. k /\ i - 1 # k /\ i \in 0 .. k
      OBVIOUS
    <3>2. g[i - 1] = f[i - 1]
      BY <3>1
    <3>3. CASE i = k
      BY <3>1, <3>2, <3>3
    <3>4. CASE i # k
      <4>1. i \in 1 .. k - 1
        BY <3>4
      <4> QED
        BY <2>1, <3>1, <3>2, <3>4, <4>1 DEF Recursion
    <3> QED
      BY <3>3, <3>4
  <2> HIDE DEF g
  <2>7. Recursion(g, k, S, a, step)
    BY <2>4, <2>5, <2>6 DEF Recursion
  <2> QED
    BY <2>7
<1> HIDE DEF A
<1>3. \A k \in 0 .. n : k \in A
  BY <1>1, <1>2, PlaceInduction
<1>4. n \in A
  BY <1>3
<1> QED
  BY <1>4 DEF A

-----------------------------------------------------------------------------
\* What a tag or a body may hold.
Content == Int \union Texts \union {Empty} \union Methods

\* The elements of the stream have a kind and a content; the count of an array
\* is a number, and so is what an integer holds.
LEMMA ElementParts ==
    ASSUME NEW e \in Elements
    PROVE  /\ e.k \in {"arr", "int", "str", "nil", "body"}
           /\ e.n \in Content
           /\ e.k = "arr" => e.n \in Nat
           /\ e.k = "int" => e.n \in Int
BY DEF Elements, Content

-----------------------------------------------------------------------------
(* What a parameter is encoded as, and what is read from it.               *)

\* A scalar is one tag, or a string's tag and body; neither is an array's tag.
LEMMA ScalarEncoding ==
    ASSUME NEW p \in Scalars
    PROVE  /\ EncodeParam(p) \in Seq(Elements)
           /\ p.t = "str" => /\ Len(EncodeParam(p)) = 2
                             /\ EncodeParam(p)[1] = Tag("str", 0)
                             /\ EncodeParam(p)[2] = Body(p.v)
                             /\ p = Str(p.v)
           /\ p.t # "str" => /\ Len(EncodeParam(p)) = 1
                             /\ EncodeParam(p)[1] = Tag(p.t, p.v)
                             /\ p = [t |-> p.t, v |-> p.v]
                             /\ p.t \in {"nil", "int"}
           /\ \A j \in 1 .. Len(EncodeParam(p)) : EncodeParam(p)[j].k # "arr"
<1>1. CASE p = Nil
  <2>1. p.t = "nil" /\ p.v = 0 /\ EncodeParam(p) = <<Tag("nil", 0)>>
    BY <1>1 DEF Nil, EncodeParam, EncodeScalar
  <2>2. Tag("nil", 0) \in Elements /\ Tag("nil", 0).k # "arr"
    BY DEF Tag, Elements
  <2>3. p = [t |-> p.t, v |-> p.v]
    BY <1>1 DEF Nil
  <2>4. <<Tag("nil", 0)>> \in Seq(Elements) /\ Len(<<Tag("nil", 0)>>) = 1
    BY <2>2
  <2> QED
    BY <2>1, <2>2, <2>3, <2>4
<1>3. CASE p \in [t : {"int"}, v : Int]
  <2>1. PICK i \in Int : p = [t |-> "int", v |-> i]
    BY <1>3
  <2>2. Tag("int", i) \in Elements /\ Tag("int", i).k # "arr"
    BY DEF Tag, Elements
  <2>3. p = [t |-> p.t, v |-> p.v]
    BY <2>1
  <2>4. <<Tag("int", i)>> \in Seq(Elements) /\ Len(<<Tag("int", i)>>) = 1
    BY <2>2
  <2>5. p.t = "int" /\ p.v = i /\ EncodeParam(p) = <<Tag("int", i)>>
    BY <2>1 DEF EncodeParam, EncodeScalar
  <2> QED
    BY <2>2, <2>3, <2>4, <2>5
<1>4. CASE p \in [t : {"str"}, v : Texts \union {Empty}]
  <2>1. PICK x \in Texts \union {Empty} : p = Str(x)
    BY <1>4 DEF Str
  <2>2. p.t = "str" /\ p.v = x /\ EncodeParam(p) = <<Tag("str", 0), Body(x)>>
    BY <2>1 DEF Str, EncodeParam, EncodeScalar
  <2>3. Tag("str", 0) \in Elements /\ Body(x) \in Elements
    BY DEF Tag, Body, Elements
  <2>4. Tag("str", 0).k # "arr" /\ Body(x).k # "arr"
    BY DEF Tag, Body
  <2> QED
    BY <2>1, <2>2, <2>3, <2>4
<1> QED
  BY <1>1, <1>3, <1>4 DEF Scalars

\* enc holds the partial encodings of ps.
Encodings(enc, ps) ==
    /\ enc \in [0 .. Len(ps) -> Seq(Elements)]
    /\ enc[0] = <<>>
    /\ \A i \in 1 .. Len(ps) : enc[i] = enc[i - 1] \o EncodeParam(ps[i])

\* The partial encodings of a list of scalars: each is the one before with a
\* parameter added, and a prefix of the whole.
LEMMA PartialEncodings ==
    ASSUME NEW ps \in Seq(Scalars)
    PROVE  \E enc : Encodings(enc, ps) /\ EncodeParams(ps) = enc[Len(ps)]
<1> DEFINE n == Len(ps)
           S == Seq(Elements)
           step == [i \in 1 .. n |-> [x \in S |-> x \o EncodeParam(ps[i])]]
<1>1. n \in Nat /\ \A i \in 1 .. n : ps[i] \in Scalars
  BY LenProperties, ElementOfSeq
<1>2. \A i \in 1 .. n : EncodeParam(ps[i]) \in S
  BY <1>1, ScalarEncoding
<1> HIDE DEF n
<1>3. \A i \in 1 .. n : \A x \in S : x \o EncodeParam(ps[i]) \in S
  BY <1>2
<1>4. <<>> \in S
  OBVIOUS
<1> HIDE DEF S
<1>5. step \in [1 .. n -> [S -> S]]
  BY <1>3
<1>6. \A i \in 1 .. n : \A x \in S : step[i][x] = x \o EncodeParam(ps[i])
  OBVIOUS
<1> HIDE DEF step
<1>7. PICK f : Recursion(f, n, S, <<>>, step)
  BY <1>1, <1>4, <1>5, RecursionExists
<1>8. \A i \in 0 .. n : i # 0 => i \in 1 .. n
  BY <1>1
<1>9. \A i \in 1 .. n : i - 1 \in 0 .. n /\ i \in 0 .. n /\ i # 0
  BY <1>1
<1>10. \A i \in 1 .. n : f[i] = f[i - 1] \o EncodeParam(ps[i])
  BY <1>6, <1>7, <1>9 DEF Recursion
<1> DEFINE E(g) == [i \in 0 .. n |-> IF i = 0 THEN <<>> ELSE g[i - 1] \o EncodeParam(ps[i])]
<1>11. f = E(f)
  BY <1>7, <1>8, <1>10 DEF Recursion
<1> DEFINE enc == CHOOSE g : g = E(g)
<1>12. enc = E(enc)
  BY <1>11
<1>13. EncodeParams(ps) = enc[n]
  BY DEF EncodeParams, n
<1> HIDE DEF enc
<1>14. DOMAIN enc = 0 .. n
  BY <1>12
<1>15. \A i \in 0 .. n : enc[i] = IF i = 0 THEN <<>> ELSE enc[i - 1] \o EncodeParam(ps[i])
  BY <1>12
<1> HIDE DEF E
<1>16. enc[0] = <<>>
  BY <1>1, <1>15
<1>17. \A i \in 1 .. n : enc[i] = enc[i - 1] \o EncodeParam(ps[i])
  BY <1>9, <1>15
<1> DEFINE A == {i \in 0 .. n : enc[i] \in S}
<1>18. 0 \in A
  BY <1>1, <1>4, <1>16
<1>19. \A i \in 1 .. n : i - 1 \in A => i \in A
  BY <1>3, <1>9, <1>17
<1> HIDE DEF A
<1>20. \A i \in 0 .. n : i \in A
  BY <1>1, <1>18, <1>19, PlaceInduction
<1>21. enc \in [0 .. n -> S]
  <2>1. \A i \in 0 .. n : enc[i] \in S
    BY <1>20 DEF A
  <2>2. enc = [i \in 0 .. n |-> enc[i]]
    BY <1>12 DEF E
  <2> QED
    BY <2>1, <2>2
<1> QED
  BY <1>13, <1>16, <1>17, <1>21 DEF n, S, Encodings

\* Each partial encoding is a prefix of the whole, and none holds an array's tag.
Growing(enc, ps) ==
    /\ \A i \in 1 .. Len(ps) : Len(enc[i]) = Len(enc[i - 1]) + Len(EncodeParam(ps[i]))
    /\ \A i \in 1 .. Len(ps) : \A j \in 1 .. Len(EncodeParam(ps[i])) :
          enc[i][Len(enc[i - 1]) + j] = EncodeParam(ps[i])[j]
    /\ \A i \in 0 .. Len(ps) : /\ Len(enc[i]) <= Len(enc[Len(ps)])
                               /\ \A j \in 1 .. Len(enc[i]) : enc[Len(ps)][j] = enc[i][j]
    /\ \A j \in 1 .. Len(enc[Len(ps)]) : enc[Len(ps)][j].k # "arr"

\* The partial encodings grow so.
LEMMA EncodingsGrow ==
    ASSUME NEW ps \in Seq(Scalars), NEW enc, Encodings(enc, ps)
    PROVE  Growing(enc, ps)
<1> DEFINE n == Len(ps)
<1>1. n \in Nat /\ \A i \in 1 .. n : ps[i] \in Scalars
  BY LenProperties, ElementOfSeq
<1>2. \A i \in 1 .. n : /\ EncodeParam(ps[i]) \in Seq(Elements)
                        /\ Len(EncodeParam(ps[i])) \in Nat
                        /\ \A j \in 1 .. Len(EncodeParam(ps[i])) : EncodeParam(ps[i])[j].k # "arr"
  BY <1>1, ScalarEncoding, LenProperties
<1>3. \A i \in 0 .. n : enc[i] \in Seq(Elements) /\ Len(enc[i]) \in Nat
  BY DEF Encodings
<1>4. \A i \in 1 .. n : i - 1 \in 0 .. n /\ i \in 0 .. n
  BY <1>1
<1>5. enc[0] = <<>> /\ \A i \in 1 .. n : enc[i] = enc[i - 1] \o EncodeParam(ps[i])
  BY DEF Encodings
<1> HIDE DEF n
<1>6. ASSUME NEW i \in 1 .. n
      PROVE  /\ Len(enc[i]) = Len(enc[i - 1]) + Len(EncodeParam(ps[i]))
             /\ \A j \in 1 .. Len(EncodeParam(ps[i])) : enc[i][Len(enc[i - 1]) + j] = EncodeParam(ps[i])[j]
             /\ \A j \in 1 .. Len(enc[i - 1]) : enc[i][j] = enc[i - 1][j]
  <2> DEFINE x == enc[i - 1]
             y == EncodeParam(ps[i])
  <2>1. x \in Seq(Elements) /\ y \in Seq(Elements) /\ enc[i] = x \o y /\ Len(x) \in Nat /\ Len(y) \in Nat
    BY <1>2, <1>3, <1>4, <1>5
  <2> HIDE DEF x, y
  <2>2. Len(x \o y) = Len(x) + Len(y)
    BY <2>1
  <2>3. \A j \in 1 .. Len(y) : (x \o y)[Len(x) + j] = y[j]
    BY <2>1
  <2>4. \A j \in 1 .. Len(x) : (x \o y)[j] = x[j]
    BY <2>1
  <2> QED
    BY <2>1, <2>2, <2>3, <2>4 DEF x, y
<1> DEFINE Prefix(i, k) == Len(enc[i]) <= Len(enc[k]) /\ \A j \in 1 .. Len(enc[i]) : enc[k][j] = enc[i][j]
           A == {k \in 0 .. n : \A i \in 0 .. k : Prefix(i, k)}
<1>7. 0 \in A
  BY <1>1, <1>3
<1>8. ASSUME NEW k \in 1 .. n, k - 1 \in A
      PROVE  k \in A
  <2> SUFFICES ASSUME NEW i \in 0 .. k PROVE Prefix(i, k)
    BY <1>4
  <2>1. CASE i = k
    BY <2>1, <1>3, <1>4
  <2>2. CASE i # k
    <3>1. i \in 0 .. k - 1 /\ i \in 0 .. n
      BY <2>2, <1>1
    <3>2. Prefix(i, k - 1)
      BY <1>8, <3>1
    <3>3. Len(enc[i]) \in Nat /\ Len(enc[k - 1]) \in Nat /\ Len(EncodeParam(ps[k])) \in Nat
      BY <1>2, <1>3, <1>4, <3>1
    <3>4. Len(enc[i]) <= Len(enc[k])
      <4> DEFINE a == Len(enc[i])
                 b == Len(enc[k - 1])
                 c == Len(EncodeParam(ps[k]))
      <4>1. a \in Nat /\ b \in Nat /\ c \in Nat /\ a <= b /\ Len(enc[k]) = b + c
        BY <1>6, <3>2, <3>3
      <4> HIDE DEF a, b, c
      <4>2. a <= b + c
        BY <4>1
      <4> QED
        BY <4>1, <4>2 DEF a
    <3>5. \A j \in 1 .. Len(enc[i]) : j \in 1 .. Len(enc[k - 1])
      BY <3>2, <3>3
    <3>6. \A j \in 1 .. Len(enc[i]) : enc[k][j] = enc[i][j]
      BY <1>6, <3>2, <3>5
    <3> QED
      BY <3>4, <3>6
  <2> QED
    BY <2>1, <2>2
<1> HIDE DEF A
<1>9. \A k \in 0 .. n : k \in A
  BY <1>1, <1>7, <1>8, PlaceInduction
<1>10. n \in 0 .. n
  BY <1>1
<1>11. \A i \in 0 .. n : Prefix(i, n)
  BY <1>9, <1>10 DEF A
<1> DEFINE B == {k \in 0 .. n : \A j \in 1 .. Len(enc[k]) : enc[k][j].k # "arr"}
<1>12. 0 \in B
  BY <1>1, <1>5
<1>13. ASSUME NEW k \in 1 .. n, k - 1 \in B
       PROVE  k \in B
  <2> SUFFICES ASSUME NEW j \in 1 .. Len(enc[k]) PROVE enc[k][j].k # "arr"
    BY <1>4
  <2>1. Len(enc[k - 1]) \in Nat /\ Len(EncodeParam(ps[k])) \in Nat
        /\ Len(enc[k]) = Len(enc[k - 1]) + Len(EncodeParam(ps[k]))
    BY <1>2, <1>3, <1>4, <1>6
  <2>2. CASE j <= Len(enc[k - 1])
    <3>1. j \in 1 .. Len(enc[k - 1])
      BY <2>1, <2>2
    <3> QED
      BY <1>6, <1>13, <3>1
  <2>3. CASE ~(j <= Len(enc[k - 1]))
    <3>1. j - Len(enc[k - 1]) \in 1 .. Len(EncodeParam(ps[k])) /\ j = Len(enc[k - 1]) + (j - Len(enc[k - 1]))
      <4> DEFINE b == Len(enc[k - 1])
                 c == Len(EncodeParam(ps[k]))
      <4>1. b \in Nat /\ c \in Nat /\ j \in 1 .. b + c /\ ~(j <= b)
        BY <2>1, <2>3
      <4> HIDE DEF b, c
      <4>2. j - b \in 1 .. c /\ j = b + (j - b)
        BY <4>1
      <4> QED
        BY <4>2 DEF b, c
    <3>2. enc[k][j] = EncodeParam(ps[k])[j - Len(enc[k - 1])]
      BY <1>6, <3>1
    <3> QED
      BY <1>2, <3>1, <3>2
  <2> QED
    BY <2>2, <2>3
<1> HIDE DEF B
<1>14. \A k \in 0 .. n : k \in B
  BY <1>1, <1>12, <1>13, PlaceInduction
<1>15. \A j \in 1 .. Len(enc[n]) : enc[n][j].k # "arr"
  BY <1>10, <1>14 DEF B
<1> QED
  BY <1>6, <1>11, <1>15 DEF n, Growing

-----------------------------------------------------------------------------
(* The loop of RequestUnmarshal over the parameters.                       *)

\* The states of the reader; a tag read out of step may be of any kind.
Value  == [t : {"arr", "int", "str", "nil", "body"}, v : Content]
Reader == [at : Nat \ {0}, err : BOOLEAN, params : Seq(Value)]

\* What TCP delivers in pieces is one stream.
LEMMA BytesAssociative ==
    ASSUME NEW u \in Seq(Elements), NEW v \in Seq(Elements), NEW w \in Seq(Elements)
    PROVE  (u \o v) \o w = u \o (v \o w)
BY ConcatAssociative

\* Without a gap, RequestParamAppend appends.
LEMMA AppendAtEnd ==
    ASSUME NEW V, NEW ps \in Seq(V), NEW p \in V, NEW i \in Nat, Nil \in V
    PROVE  /\ ParamAppend(ps, p, i) \in Seq(V)
           /\ Len(ps) = i => ParamAppend(ps, p, i) = Append(ps, p)
<1> DEFINE gap == [j \in 1 .. i - Len(ps) |-> Nil]
<1>1. Len(ps) \in Nat /\ ParamAppend(ps, p, i) = (ps \o gap) \o <<p>>
  BY DEF ParamAppend
<1>2. CASE i - Len(ps) \in Nat
  <2>1. gap \in Seq(V)
    BY <1>2
  <2>2. Len(ps) = i => Len(gap) = 0
    BY <1>1
  <2> HIDE DEF gap
  <2>3. Len(ps) = i => gap = <<>>
    BY <2>1, <2>2, EmptySeq
  <2>4. (ps \o gap) \o <<p>> \in Seq(V)
    BY <2>1
  <2>5. ps \o <<>> = ps /\ ps \o <<p>> = Append(ps, p)
    OBVIOUS
  <2> QED
    BY <1>1, <2>3, <2>4, <2>5
<1>3. CASE i - Len(ps) \notin Nat
  <2>1. 1 .. i - Len(ps) = 1 .. 0 /\ Len(ps) # i
    BY <1>1, <1>3
  <2>2. gap = [j \in 1 .. 0 |-> Nil]
    BY <2>1
  <2>3. gap \in Seq(V)
    BY <2>2
  <2> HIDE DEF gap
  <2>4. (ps \o gap) \o <<p>> \in Seq(V)
    BY <2>3
  <2> QED
    BY <1>1, <2>1, <2>4
<1> QED
  BY <1>2, <1>3

\* The same of scalars.
LEMMA ScalarAtEnd ==
    ASSUME NEW ps \in Seq(Scalars), NEW p \in Scalars, NEW i \in Nat, Len(ps) = i
    PROVE  ParamAppend(ps, p, i) = Append(ps, p)
<1>1. Nil \in Scalars
  BY DEF Scalars
<1> QED
  BY <1>1, AppendAtEnd

\* The next element is not there: the reader is in error and a nil is appended.
LEMMA ReadNothing ==
    ASSUME NEW b \in Seq(Elements), NEW s \in Reader, NEW i \in Nat, s.err \/ s.at > Len(b)
    PROVE  ReadParam(b, s, i) = [at |-> s.at, err |-> TRUE, params |-> ParamAppend(s.params, Nil, i)]
  BY DEF ReadParam, Reader

\* An array's tag is skipped.
LEMMA ReadArray ==
    ASSUME NEW b \in Seq(Elements), NEW s \in Reader, NEW i \in Nat,
           ~s.err, s.at <= Len(b), b[s.at].k = "arr"
    PROVE  ReadParam(b, s, i) = [at |-> s.at + 1, err |-> FALSE, params |-> s.params]
<1>1. s.at \in Nat /\ Len(b) \in Nat /\ s.err = FALSE
  BY DEF Reader
<1>2. ~(s.err \/ s.at > Len(b))
  BY <1>1
<1> QED
  BY <1>1, <1>2 DEF ReadParam

\* A string without its body: the reader is in error and an empty string is appended.
LEMMA ReadStringCut ==
    ASSUME NEW b \in Seq(Elements), NEW s \in Reader, NEW i \in Nat,
           ~s.err, s.at <= Len(b), b[s.at].k = "str", s.at + 1 > Len(b)
    PROVE  ReadParam(b, s, i) = [at |-> s.at, err |-> TRUE, params |-> ParamAppend(s.params, Str(Empty), i)]
<1>1. s.at \in Nat /\ Len(b) \in Nat /\ s.err = FALSE
  BY DEF Reader
<1>2. ~(s.err \/ s.at > Len(b))
  BY <1>1
<1> QED
  BY <1>1, <1>2 DEF ReadParam

\* A string with its body.
LEMMA ReadString ==
    ASSUME NEW b \in Seq(Elements), NEW s \in Reader, NEW i \in Nat,
           ~s.err, s.at <= Len(b), b[s.at].k = "str", s.at + 1 <= Len(b)
    PROVE  ReadParam(b, s, i) =
              [at |-> s.at + 2, err |-> FALSE, params |-> ParamAppend(s.params, Str(b[s.at + 1].n), i)]
<1>1. s.at \in Nat /\ Len(b) \in Nat /\ s.err = FALSE
  BY DEF Reader
<1>2. ~(s.err \/ s.at > Len(b))
  BY <1>1
<1>3. ~(s.at + 1 > Len(b))
  BY <1>1
<1> QED
  BY <1>1, <1>2, <1>3 DEF ReadParam

\* Any other tag.
LEMMA ReadTag ==
    ASSUME NEW b \in Seq(Elements), NEW s \in Reader, NEW i \in Nat,
           ~s.err, s.at <= Len(b), b[s.at].k \notin {"arr", "str"}
    PROVE  ReadParam(b, s, i) =
              [at |-> s.at + 1, err |-> FALSE,
               params |-> ParamAppend(s.params, [t |-> b[s.at].k, v |-> b[s.at].n], i)]
<1>1. s.at \in Nat /\ Len(b) \in Nat /\ s.err = FALSE
  BY DEF Reader
<1>2. ~(s.err \/ s.at > Len(b))
  BY <1>1
<1> QED
  BY <1>1, <1>2 DEF ReadParam

\* Whatever the reader finds, it stays a reader.
LEMMA ReadParamType ==
    ASSUME NEW b \in Seq(Elements), NEW s \in Reader, NEW i \in Nat
    PROVE  ReadParam(b, s, i) \in Reader
<1>1. s.at \in Nat \ {0} /\ s.err \in BOOLEAN /\ s.params \in Seq(Value) /\ Len(b) \in Nat
  BY DEF Reader
<1>2. Nil \in Value /\ Str(Empty) \in Value
  BY DEF Nil, Str, Value, Content
<1>3. \A j \in 1 .. Len(b) : b[j].k \in {"arr", "int", "str", "nil", "body"} /\ b[j].n \in Content
  BY ElementOfSeq, ElementParts
<1>4. \A j \in 1 .. Len(b) : Str(b[j].n) \in Value /\ [t |-> b[j].k, v |-> b[j].n] \in Value
  BY <1>3 DEF Str, Value
<1>5. \A p \in Value : ParamAppend(s.params, p, i) \in Seq(Value)
  BY <1>1, <1>2, AppendAtEnd
<1>6. \A at \in Nat \ {0}, err \in BOOLEAN, ps \in Seq(Value) :
        [at |-> at, err |-> err, params |-> ps] \in Reader
  BY DEF Reader
<1>7. CASE s.err \/ s.at > Len(b)
  <2>1. ReadParam(b, s, i) = [at |-> s.at, err |-> TRUE, params |-> ParamAppend(s.params, Nil, i)]
    BY <1>7, ReadNothing
  <2>2. ParamAppend(s.params, Nil, i) \in Seq(Value)
    BY <1>2, <1>5
  <2> QED
    BY <1>1, <1>6, <2>1, <2>2
<1>8. CASE ~s.err /\ s.at <= Len(b)
  <2>1. s.at \in 1 .. Len(b)
    BY <1>1, <1>8
  <2>2. CASE b[s.at].k = "arr"
    <3>1. ReadParam(b, s, i) = [at |-> s.at + 1, err |-> FALSE, params |-> s.params]
      BY <1>8, <2>2, ReadArray
    <3>2. s.at + 1 \in Nat \ {0}
      BY <1>1
    <3> QED
      BY <1>1, <1>6, <3>1, <3>2
  <2>3. CASE b[s.at].k = "str" /\ s.at + 1 > Len(b)
    <3>1. ReadParam(b, s, i) = [at |-> s.at, err |-> TRUE, params |-> ParamAppend(s.params, Str(Empty), i)]
      BY <1>8, <2>3, ReadStringCut
    <3>2. ParamAppend(s.params, Str(Empty), i) \in Seq(Value)
      BY <1>2, <1>5
    <3> QED
      BY <1>1, <1>6, <3>1, <3>2
  <2>4. CASE b[s.at].k = "str" /\ s.at + 1 <= Len(b)
    <3> DEFINE p == Str(b[s.at + 1].n)
    <3>1. s.at + 1 \in 1 .. Len(b) /\ s.at + 2 \in Nat \ {0}
      BY <1>1, <2>4
    <3>2. p \in Value
      BY <1>4, <3>1
    <3>3. ReadParam(b, s, i) = [at |-> s.at + 2, err |-> FALSE, params |-> ParamAppend(s.params, p, i)]
      BY <1>8, <2>4, ReadString
    <3> HIDE DEF p
    <3> QED
      BY <1>5, <1>6, <3>1, <3>2, <3>3
  <2>5. CASE b[s.at].k \notin {"arr", "str"}
    <3> DEFINE p == [t |-> b[s.at].k, v |-> b[s.at].n]
    <3>1. s.at + 1 \in Nat \ {0}
      BY <1>1
    <3>2. p \in Value
      BY <1>4, <2>1
    <3>3. ReadParam(b, s, i) = [at |-> s.at + 1, err |-> FALSE, params |-> ParamAppend(s.params, p, i)]
      BY <1>8, <2>5, ReadTag
    <3> HIDE DEF p
    <3> QED
      BY <1>5, <1>6, <3>1, <3>2, <3>3
  <2>6. b[s.at].k = "str" => s.at + 1 > Len(b) \/ s.at + 1 <= Len(b)
    BY <1>1
  <2> QED
    BY <2>2, <2>3, <2>4, <2>5, <2>6
<1> QED
  BY <1>1, <1>7, <1>8

\* s holds the states of the reader before and after each round of the loop.
Rounds(s, b, count) ==
    /\ s \in [0 .. count -> Reader]
    /\ s[0] = [at |-> 7, err |-> FALSE, params |-> <<>>]
    /\ \A i \in 1 .. count : s[i] = ReadParam(b, s[i - 1], i - 1)

\* The loop runs through such states.
LEMMA LoopRounds ==
    ASSUME NEW b \in Seq(Elements), NEW count \in Nat
    PROVE  \E s : Rounds(s, b, count) /\ ReadParams(b, count) = s[count]
<1> DEFINE step == [i \in 1 .. count |-> [x \in Reader |-> ReadParam(b, x, i - 1)]]
           s0 == [at |-> 7, err |-> FALSE, params |-> <<>>]
<1>1. s0 \in Reader
  BY DEF Reader
<1>2. \A i \in 1 .. count : \A x \in Reader : ReadParam(b, x, i - 1) \in Reader
  <2> TAKE i \in 1 .. count
  <2>1. i - 1 \in Nat
    OBVIOUS
  <2> QED
    BY <2>1, ReadParamType
<1>3. step \in [1 .. count -> [Reader -> Reader]]
  BY <1>2
<1>4. \A i \in 1 .. count : \A x \in Reader : step[i][x] = ReadParam(b, x, i - 1)
  OBVIOUS
<1> HIDE DEF step, s0
<1>5. PICK f : Recursion(f, count, Reader, s0, step)
  BY <1>1, <1>3, RecursionExists
<1>6. \A i \in 0 .. count : i # 0 => i \in 1 .. count
  OBVIOUS
<1>7. \A i \in 1 .. count : i - 1 \in 0 .. count /\ i \in 0 .. count /\ i # 0
  OBVIOUS
<1>8. \A i \in 1 .. count : f[i] = ReadParam(b, f[i - 1], i - 1)
  BY <1>4, <1>5, <1>7 DEF Recursion
<1> DEFINE E(g) == [i \in 0 .. count |-> IF i = 0 THEN s0 ELSE ReadParam(b, g[i - 1], i - 1)]
<1>9. f = E(f)
  BY <1>5, <1>6, <1>8 DEF Recursion
<1> DEFINE s == CHOOSE g : g = E(g)
<1>10. s = E(s)
  BY <1>9
<1>11. ReadParams(b, count) = s[count]
  BY DEF ReadParams, s0
<1> HIDE DEF s
<1>12. \A i \in 0 .. count : s[i] = IF i = 0 THEN s0 ELSE ReadParam(b, s[i - 1], i - 1)
  BY <1>10
<1>13. s[0] = s0
  BY <1>12
<1>14. \A i \in 1 .. count : s[i] = ReadParam(b, s[i - 1], i - 1)
  BY <1>7, <1>12
<1>15. s = [i \in 0 .. count |-> s[i]]
  BY <1>10
<1> HIDE DEF E
<1> DEFINE A == {i \in 0 .. count : s[i] \in Reader}
<1>16. 0 \in A
  BY <1>1, <1>13
<1>17. \A i \in 1 .. count : i - 1 \in A => i \in A
  BY <1>2, <1>7, <1>14
<1> HIDE DEF A
<1>18. \A i \in 0 .. count : i \in A
  BY <1>16, <1>17, PlaceInduction
<1>19. s \in [0 .. count -> Reader]
  BY <1>15, <1>18 DEF A
<1> QED
  BY <1>11, <1>13, <1>14, <1>19 DEF Rounds, s0

\* A reader in step reads the next parameter or, when that was cut, is in error;
\* either way one parameter is appended.
LEMMA ReadNext ==
    ASSUME NEW b \in Seq(Elements), NEW s \in Reader, NEW i \in Nat, NEW p \in Scalars,
           s.params \in Seq(Scalars), Len(s.params) = i, ~s.err,
           \A j \in 1 .. Len(EncodeParam(p)) :
              s.at - 1 + j <= Len(b) => b[s.at - 1 + j] = EncodeParam(p)[j]
    PROVE  LET t == ReadParam(b, s, i)
           IN  /\ \E q \in Scalars : t.params = Append(s.params, q)
               /\ t.err => Len(b) < s.at - 1 + Len(EncodeParam(p))
               /\ ~t.err => /\ t.at = s.at + Len(EncodeParam(p))
                            /\ t.at - 1 <= Len(b)
                            /\ t.params = Append(s.params, p)
<1> DEFINE t == ReadParam(b, s, i)
           e == EncodeParam(p)
<1>1. s.at \in Nat \ {0} /\ Len(b) \in Nat
  BY DEF Reader
<1>2. Nil \in Scalars /\ Str(Empty) \in Scalars
  BY DEF Scalars, Str
<1>3. \A q \in Scalars : ParamAppend(s.params, q, i) = Append(s.params, q)
  BY <1>2, AppendAtEnd
<1>4. s.at <= Len(b) /\ 1 \in 1 .. Len(e) => b[s.at] = e[1]
  <2>1. s.at - 1 + 1 = s.at
    BY <1>1
  <2> QED
    BY <2>1
<1>5. s.at + 1 <= Len(b) /\ 2 \in 1 .. Len(e) => b[s.at + 1] = e[2]
  <2>1. s.at - 1 + 2 = s.at + 1
    BY <1>1
  <2> QED
    BY <2>1
<1> HIDE DEF e
<1>6. CASE s.at > Len(b)
  <2>1. t = [at |-> s.at, err |-> TRUE, params |-> ParamAppend(s.params, Nil, i)]
    BY <1>6, ReadNothing
  <2>2. t.err /\ t.params = Append(s.params, Nil)
    BY <1>2, <1>3, <2>1
  <2>3. Len(e) = 1 \/ Len(e) = 2
    BY ScalarEncoding DEF e
  <2>4. Len(b) < s.at - 1 + Len(e)
    <3> DEFINE at == s.at
               len == Len(b)
               n == Len(e)
    <3>1. at \in Nat /\ len \in Nat /\ n \in 1 .. 2 /\ at > len
      BY <1>1, <1>6, <2>3
    <3> HIDE DEF at, len, n
    <3>2. len < at - 1 + n
      BY <3>1
    <3> QED
      BY <3>2 DEF at, len, n
  <2> HIDE DEF t
  <2> QED
    BY <1>2, <2>2, <2>4 DEF t, e
<1>7. CASE s.at <= Len(b) /\ p.t = "str"
  <2>1. Len(e) = 2 /\ e[1] = Tag("str", 0) /\ e[2] = Body(p.v) /\ p = Str(p.v)
    BY <1>7, ScalarEncoding DEF e
  <2>2. b[s.at].k = "str"
    BY <1>4, <1>7, <2>1 DEF Tag
  <2>3. CASE s.at + 1 > Len(b)
    <3>1. t = [at |-> s.at, err |-> TRUE, params |-> ParamAppend(s.params, Str(Empty), i)]
      BY <1>7, <2>2, <2>3, ReadStringCut
    <3>2. t.err /\ t.params = Append(s.params, Str(Empty))
      BY <1>2, <1>3, <3>1
    <3>3. Len(b) < s.at - 1 + Len(e)
      BY <1>1, <2>1, <2>3
    <3> HIDE DEF t
    <3> QED
      BY <1>2, <3>2, <3>3 DEF t, e
  <2>4. CASE s.at + 1 <= Len(b)
    <3>1. b[s.at + 1].n = p.v
      BY <1>5, <2>1, <2>4 DEF Body
    <3>2. t = [at |-> s.at + 2, err |-> FALSE, params |-> ParamAppend(s.params, Str(b[s.at + 1].n), i)]
      BY <1>7, <2>2, <2>4, ReadString
    <3>3. Str(b[s.at + 1].n) = p
      BY <2>1, <3>1
    <3>4. t = [at |-> s.at + 2, err |-> FALSE, params |-> ParamAppend(s.params, p, i)]
      BY <3>2, <3>3
    <3>5. ~t.err /\ t.params = Append(s.params, p) /\ t.at = s.at + Len(e)
      BY <1>3, <2>1, <3>4
    <3>6. t.at - 1 <= Len(b)
      BY <1>1, <2>1, <2>4, <3>5
    <3> HIDE DEF t
    <3> QED
      BY <3>5, <3>6 DEF t, e
  <2> QED
    BY <1>1, <2>3, <2>4
<1>8. CASE s.at <= Len(b) /\ p.t # "str"
  <2>1. Len(e) = 1 /\ e[1] = Tag(p.t, p.v) /\ p = [t |-> p.t, v |-> p.v] /\ p.t \in {"nil", "int"}
    BY <1>8, ScalarEncoding DEF e
  <2>2. b[s.at].k = p.t /\ b[s.at].n = p.v
    BY <1>4, <1>8, <2>1 DEF Tag
  <2>3. t = [at |-> s.at + 1, err |-> FALSE,
             params |-> ParamAppend(s.params, [t |-> b[s.at].k, v |-> b[s.at].n], i)]
    BY <1>8, <2>1, <2>2, ReadTag
  <2>4. [t |-> b[s.at].k, v |-> b[s.at].n] = p
    BY <2>1, <2>2
  <2>5. t = [at |-> s.at + 1, err |-> FALSE, params |-> ParamAppend(s.params, p, i)]
    BY <2>3, <2>4
  <2>6. ~t.err /\ t.params = Append(s.params, p) /\ t.at = s.at + Len(e)
    BY <1>3, <2>1, <2>5
  <2>7. t.at - 1 <= Len(b)
    BY <1>1, <1>8, <2>1, <2>6
  <2> HIDE DEF t
  <2> QED
    BY <2>6, <2>7 DEF t, e
<1> QED
  BY <1>1, <1>6, <1>7, <1>8

\* The loop over the parameters of a request of which b holds the start: it
\* appends as many parameters as were sent; it is in error exactly when the
\* request is not whole; otherwise the parameters are those that were sent and
\* the reader is at the end of the request.
LEMMA LoopReads ==
    ASSUME NEW ps \in Seq(Scalars), NEW b \in Seq(Elements), Len(b) >= 6,
           \A j \in 1 .. Len(EncodeParams(ps)) : 6 + j <= Len(b) => b[6 + j] = EncodeParams(ps)[j]
    PROVE  LET s == ReadParams(b, Len(ps))
               n == Len(EncodeParams(ps))
           IN  /\ s.err \in BOOLEAN
               /\ s.params \in Seq(Scalars)
               /\ Len(s.params) = Len(ps)
               /\ s.err => Len(b) < 6 + n
               /\ ~s.err => s.at = 7 + n /\ 6 + n <= Len(b) /\ s.params = ps
<1> DEFINE m == Len(ps)
<1>1. m \in Nat /\ \A i \in 1 .. m : ps[i] \in Scalars
  BY LenProperties, ElementOfSeq
<1>2. PICK enc : Encodings(enc, ps) /\ EncodeParams(ps) = enc[m]
  BY PartialEncodings
<1>3. PICK s : Rounds(s, b, m) /\ ReadParams(b, m) = s[m]
  BY <1>1, LoopRounds
<1>4. /\ \A i \in 1 .. m : Len(enc[i]) = Len(enc[i - 1]) + Len(EncodeParam(ps[i]))
      /\ \A i \in 1 .. m : \A j \in 1 .. Len(EncodeParam(ps[i])) :
            enc[i][Len(enc[i - 1]) + j] = EncodeParam(ps[i])[j]
      /\ \A i \in 0 .. m : /\ Len(enc[i]) <= Len(enc[m])
                           /\ \A j \in 1 .. Len(enc[i]) : enc[m][j] = enc[i][j]
  <2>1. Encodings(enc, ps)
    BY <1>2
  <2>2. Growing(enc, ps)
    BY <2>1, EncodingsGrow
  <2> QED
    BY <2>2 DEF Growing
<1>5. \A i \in 0 .. m : enc[i] \in Seq(Elements) /\ Len(enc[i]) \in Nat
  <2>1. enc \in [0 .. m -> Seq(Elements)]
    BY ONLY <1>2 DEF Encodings
  <2> QED
    BY ONLY <2>1
<1>6. \A i \in 1 .. m : i - 1 \in 0 .. m /\ i \in 0 .. m /\ i - 1 \in Nat
  BY <1>1
<1>7. /\ \A i \in 0 .. m : s[i] \in Reader
      /\ s[0] = [at |-> 7, err |-> FALSE, params |-> <<>>]
      /\ \A i \in 1 .. m : s[i] = ReadParam(b, s[i - 1], i - 1)
  BY <1>3 DEF Rounds
<1>8. Len(b) \in Nat
  OBVIOUS
<1> HIDE DEF m
<1> DEFINE InStep(i) ==
              /\ s[i].params \in Seq(Scalars)
              /\ Len(s[i].params) = i
              /\ s[i].err => Len(b) < 6 + Len(enc[i])
              /\ ~s[i].err => /\ s[i].at = 7 + Len(enc[i])
                              /\ 6 + Len(enc[i]) <= Len(b)
                              /\ \A j \in 1 .. i : s[i].params[j] = ps[j]
           A == {i \in 0 .. m : InStep(i)}
<1>9. 0 \in A
  <2>1. enc[0] = <<>> /\ Len(enc[0]) = 0
    BY <1>2 DEF Encodings
  <2>2. s[0].at = 7 /\ s[0].err = FALSE /\ s[0].params = <<>>
    BY <1>7
  <2>3. <<>> \in Seq(Scalars) /\ Len(<<>>) = 0
    OBVIOUS
  <2>4. InStep(0)
    BY <2>1, <2>2, <2>3
  <2>5. 0 \in 0 .. m
    BY <1>1
  <2> QED
    BY <2>4, <2>5
<1>10. ASSUME NEW i \in 1 .. m, i - 1 \in A
       PROVE  i \in A
  <2> DEFINE x == s[i - 1]
             y == s[i]
             e == EncodeParam(ps[i])
             k == Len(enc[i - 1])
  <2>1. /\ x.params \in Seq(Scalars) /\ Len(x.params) = i - 1
        /\ x.err => Len(b) < 6 + k
        /\ ~x.err => /\ x.at = 7 + k /\ 6 + k <= Len(b)
                     /\ \A j \in 1 .. i - 1 : x.params[j] = ps[j]
    BY <1>10
  <2>2. /\ x \in Reader /\ y = ReadParam(b, x, i - 1) /\ ps[i] \in Scalars
        /\ k \in Nat /\ Len(enc[i]) = k + Len(e) /\ i - 1 \in Nat /\ i \in Nat
    <3>1. i \in Nat /\ i - 1 \in 0 .. m /\ i - 1 \in Nat
      BY <1>1
    <3>2. x \in Reader /\ y = ReadParam(b, x, i - 1)
      BY <1>7, <3>1
    <3>3. k \in Nat /\ Len(enc[i]) = k + Len(e)
      BY <1>4, <1>5, <3>1
    <3> QED
      BY <1>1, <3>1, <3>2, <3>3
  <2>3. Len(e) = 1 \/ Len(e) = 2
    BY <2>2, ScalarEncoding
  <2>4. x.err \in BOOLEAN
    BY <2>2 DEF Reader
  <2>5. /\ \E q \in Scalars : y.params = Append(x.params, q)
        /\ y.err => Len(b) < 6 + (k + Len(e))
        /\ ~y.err => /\ y.at = 7 + (k + Len(e))
                     /\ 6 + (k + Len(e)) <= Len(b)
                     /\ ~x.err
                     /\ y.params = Append(x.params, ps[i])
    <3>1. CASE x.err
      <4>1. y = [at |-> x.at, err |-> TRUE, params |-> ParamAppend(x.params, Nil, i - 1)]
        BY <2>2, <3>1, ReadNothing
      <4>2. Nil \in Scalars
        BY DEF Scalars
      <4>3. ParamAppend(x.params, Nil, i - 1) = Append(x.params, Nil)
        <5>1. x.params \in Seq(Scalars) /\ Len(x.params) = i - 1 /\ i - 1 \in Nat
          BY <2>1, <2>2
        <5> QED
          BY ONLY <4>2, <5>1, ScalarAtEnd
      <4>4. Len(b) < 6 + (k + Len(e))
        <5> DEFINE len == Len(b)
                   n == Len(e)
        <5>1. len \in Nat /\ n \in 1 .. 2 /\ k \in Nat /\ len < 6 + k
          BY <1>8, <2>1, <2>2, <2>3, <3>1
        <5> HIDE DEF len, n, k
        <5>2. len < 6 + (k + n)
          BY <5>1
        <5> QED
          BY <5>2 DEF len, n
      <4>5. y.err /\ y.params = Append(x.params, Nil)
        BY <4>1, <4>3
      <4> QED
        BY <4>2, <4>4, <4>5
    <3>2. CASE ~x.err
      <4>1. ASSUME NEW j \in 1 .. Len(e), x.at - 1 + j <= Len(b)
            PROVE  b[x.at - 1 + j] = e[j]
        <5>1. x.at - 1 + j = 6 + (k + j) /\ k + j \in 1 .. k + Len(e)
          <6> DEFINE at == x.at
                     n == Len(e)
          <6>1. n \in 1 .. 2 /\ j \in 1 .. n /\ k \in Nat /\ at = 7 + k
            BY <2>1, <2>2, <2>3, <3>2
          <6> HIDE DEF at, n, k
          <6>2. at - 1 + j = 6 + (k + j) /\ k + j \in 1 .. k + n
            BY <6>1
          <6> QED
            BY <6>2 DEF at, n
        <5>2. enc[i][k + j] = e[j]
          BY <1>4
        <5>3. k + j \in 1 .. Len(enc[i])
          BY <2>2, <5>1
        <5>4. enc[m][k + j] = enc[i][k + j] /\ Len(enc[i]) <= Len(enc[m]) /\ Len(enc[i]) \in Nat /\ Len(enc[m]) \in Nat
          <6>1. i \in 0 .. m /\ m \in 0 .. m
            BY <1>1
          <6>2. Len(enc[i]) \in Nat /\ Len(enc[m]) \in Nat
            BY ONLY <1>5, <6>1
          <6>3. Len(enc[i]) <= Len(enc[m]) /\ \A t \in 1 .. Len(enc[i]) : enc[m][t] = enc[i][t]
            BY ONLY <1>4, <6>1
          <6>4. enc[m][k + j] = enc[i][k + j]
            BY ONLY <5>3, <6>3
          <6> QED
            BY ONLY <6>2, <6>3, <6>4
        <5>5. k + j \in 1 .. Len(enc[m])
          BY ONLY <5>3, <5>4
        <5>6. b[6 + (k + j)] = enc[m][k + j]
          BY <1>2, <4>1, <5>1, <5>5
        <5> QED
          BY <5>1, <5>2, <5>4, <5>6
      <4>2. /\ \E q \in Scalars : y.params = Append(x.params, q)
            /\ y.err => Len(b) < x.at - 1 + Len(e)
            /\ ~y.err => /\ y.at = x.at + Len(e)
                         /\ y.at - 1 <= Len(b)
                         /\ y.params = Append(x.params, ps[i])
        <5> DEFINE p == ps[i]
                   l == i - 1
        <5>1. /\ x \in Reader /\ l \in Nat /\ p \in Scalars /\ y = ReadParam(b, x, l)
              /\ x.params \in Seq(Scalars) /\ Len(x.params) = l /\ ~x.err
          BY <2>1, <2>2, <3>2
        <5>2. \A j \in 1 .. Len(EncodeParam(p)) : x.at - 1 + j <= Len(b) => b[x.at - 1 + j] = EncodeParam(p)[j]
          BY <4>1
        <5> HIDE DEF x, p, l
        <5>3. LET t == ReadParam(b, x, l)
              IN  /\ \E q \in Scalars : t.params = Append(x.params, q)
                  /\ t.err => Len(b) < x.at - 1 + Len(EncodeParam(p))
                  /\ ~t.err => /\ t.at = x.at + Len(EncodeParam(p))
                               /\ t.at - 1 <= Len(b)
                               /\ t.params = Append(x.params, p)
          BY <5>1, <5>2, ReadNext
        <5> QED
          BY <5>1, <5>3 DEF p
      <4>3. x.at = 7 + k
        BY <2>1, <3>2
      <4> HIDE DEF x, y, e, k
      <4>4. x.at - 1 + Len(e) = 6 + (k + Len(e)) /\ x.at + Len(e) = 7 + (k + Len(e))
        BY <2>2, <2>3, <4>3
      <4>5. y.at = 7 + (k + Len(e)) /\ y.at - 1 <= Len(b) => 6 + (k + Len(e)) <= Len(b)
        BY <1>8, <2>2, <2>3
      <4> QED
        BY <3>2, <4>2, <4>4, <4>5
    <3> QED
      BY <2>4, <3>1, <3>2
  <2> HIDE DEF x, y, e, k
  <2>6. PICK q \in Scalars : y.params = Append(x.params, q)
    BY <2>5
  <2>7. y.params \in Seq(Scalars) /\ Len(y.params) = i
    <3>1. Append(x.params, q) \in Seq(Scalars) /\ Len(Append(x.params, q)) = Len(x.params) + 1
      BY <2>1, AppendProperties
    <3>2. i - 1 + 1 = i
      BY <2>2
    <3> QED
      BY <2>1, <2>6, <3>1, <3>2
  <2>8. ~y.err => \A j \in 1 .. i : y.params[j] = ps[j]
    <3> SUFFICES ASSUME ~y.err, NEW j \in 1 .. i PROVE y.params[j] = ps[j]
      OBVIOUS
    <3>1. ~x.err /\ y.params = Append(x.params, ps[i])
      BY <2>5
    <3>2. CASE j = i
      <4>1. j = Len(x.params) + 1
        BY <2>1, <2>2, <3>2
      <4> QED
        BY <2>1, <3>1, <3>2, <4>1
    <3>3. CASE j # i
      <4>1. j \in 1 .. i - 1 /\ j \in 1 .. Len(x.params)
        BY <2>1, <2>2, <3>3
      <4> QED
        BY <2>1, <3>1, <4>1
    <3> QED
      BY <3>2, <3>3
  <2>9. InStep(i)
    BY <2>2, <2>5, <2>7, <2>8 DEF y
  <2> QED
    BY <1>6, <2>9
<1> HIDE DEF A
<1>11. \A i \in 0 .. m : i \in A
  BY <1>1, <1>9, <1>10, PlaceInduction
<1>12. m \in 0 .. m
  BY <1>1
<1>13. InStep(m)
  BY <1>11, <1>12 DEF A
<1>14. s[m].err \in BOOLEAN
  BY <1>7, <1>12 DEF Reader
<1>15. ~s[m].err => s[m].params = ps
  <2>1. Len(ps) = m
    BY DEF m
  <2>2. ASSUME ~s[m].err PROVE \A j \in 1 .. m : s[m].params[j] = ps[j]
    BY <1>13, <2>2
  <2> QED
    BY <1>13, <2>1, <2>2, SeqEqual
<1> QED
  BY <1>2, <1>3, <1>13, <1>14, <1>15 DEF m

-----------------------------------------------------------------------------
(* A request: what it is encoded as, and what is read from the start of it. *)

\* The requests the theorems are about: parameters that are scalars, which
\* RequestUnmarshal reads back, and a msgid of at most 32 bits, which it does
\* not cut.
PlainRequests ==
    \A r \in Requests : r.params \in Seq(Scalars) /\ r.id < IdModulus

\* The elements of an encoded request.
LEMMA Encoded ==
    ASSUME PlainRequests, NEW r \in Requests
    PROVE  /\ Len(EncodeParams(r.params)) \in Nat
           /\ Encode(r) \in Seq(Elements)
           /\ Len(Encode(r)) = 6 + Len(EncodeParams(r.params))
           /\ Encode(r)[1] = Tag("arr", 4)
           /\ Encode(r)[2] = Tag("int", 0)
           /\ Encode(r)[3] = Tag("int", r.id)
           /\ Encode(r)[4] = Tag("str", 0)
           /\ Encode(r)[5] = Body(r.method)
           /\ Encode(r)[6] = Tag("arr", Len(r.params))
           /\ \A j \in 1 .. Len(EncodeParams(r.params)) : Encode(r)[6 + j] = EncodeParams(r.params)[j]
<1> DEFINE h == <<Tag("arr", 4), Tag("int", 0), Tag("int", r.id), Tag("str", 0), Body(r.method),
                  Tag("arr", Len(r.params))>>
           x == EncodeParams(r.params)
<1>1. r.id \in Nat /\ r.method \in Methods /\ r.params \in Seq(Scalars)
  BY RequestsAssumption DEF PlainRequests
<1>2. Len(r.params) \in Nat
  BY <1>1
<1>3. PICK enc : Encodings(enc, r.params) /\ x = enc[Len(r.params)]
  BY <1>1, PartialEncodings
<1>4. x \in Seq(Elements)
  BY <1>2, <1>3 DEF Encodings
<1>6. /\ Tag("arr", 4) \in Elements /\ Tag("int", 0) \in Elements /\ Tag("int", r.id) \in Elements
      /\ Tag("str", 0) \in Elements /\ Body(r.method) \in Elements /\ Tag("arr", Len(r.params)) \in Elements
  BY <1>1, <1>2 DEF Tag, Body, Elements
<1>7. h \in Seq(Elements) /\ Len(h) = 6
  BY <1>6
<1>8. /\ h[1] = Tag("arr", 4) /\ h[2] = Tag("int", 0) /\ h[3] = Tag("int", r.id) /\ h[4] = Tag("str", 0)
      /\ h[5] = Body(r.method) /\ h[6] = Tag("arr", Len(r.params))
  OBVIOUS
<1>9. Encode(r) = h \o x
  BY DEF Encode
<1> HIDE DEF h, x
<1>10. Len(x) \in Nat /\ Encode(r) \in Seq(Elements) /\ Len(Encode(r)) = 6 + Len(x)
  <2>1. Len(x) \in Nat
    BY <1>4
  <2>2. h \o x \in Seq(Elements) /\ Len(h \o x) = Len(h) + Len(x)
    BY <1>4, <1>7, ConcatProperties
  <2> QED
    BY <1>7, <1>9, <2>1, <2>2
<1> DEFINE l == Len(x)
<1>l. l \in Nat
  BY <1>10
<1>c. \A j \in 1 .. 6 + l : Encode(r)[j] = IF j <= 6 THEN h[j] ELSE x[j - 6]
  <2>1. h \in Seq(Elements) /\ x \in Seq(Elements)
    BY <1>4, <1>7
  <2>2. \A j \in 1 .. Len(h) + Len(x) : (h \o x)[j] = IF j <= Len(h) THEN h[j] ELSE x[j - Len(h)]
    BY ONLY <2>1, ConcatProperties
  <2>3. Len(h) = 6
    BY <1>7
  <2> QED
    BY ONLY <1>9, <2>2, <2>3
<1> HIDE DEF l
<1>11. \A j \in 1 .. 6 : Encode(r)[j] = h[j]
  BY <1>c, <1>l
<1>12. \A j \in 1 .. Len(x) : Encode(r)[6 + j] = x[j]
  <2> SUFFICES ASSUME NEW j \in 1 .. l PROVE Encode(r)[6 + j] = x[j]
    BY DEF l
  <2>1. 6 + j \in 1 .. 6 + l /\ ~(6 + j <= 6) /\ 6 + j - 6 = j
    BY <1>l
  <2> QED
    BY <1>c, <2>1
<1>14. /\ 1 \in 1 .. 6 /\ 2 \in 1 .. 6 /\ 3 \in 1 .. 6 /\ 4 \in 1 .. 6 /\ 5 \in 1 .. 6 /\ 6 \in 1 .. 6
  OBVIOUS
<1> QED
  BY <1>8, <1>10, <1>11, <1>12, <1>14 DEF x

\* b holds the start of what e encodes, or all of it and more.
Starts(b, e) == \A j \in 1 .. Len(b) : j <= Len(e) => b[j] = e[j]

\* What RequestUnmarshal makes of the start of a request: an error while the
\* envelope is not there; the request, when it is whole; otherwise a request of
\* the same msgid, method and number of parameters, and everything is consumed.
LEMMA Unmarshal ==
    ASSUME PlainRequests, NEW r \in Requests, NEW b \in Seq(Elements), Starts(b, Encode(r))
    PROVE  /\ Envelope(b) <=> Len(b) >= 6
           /\ Len(b) >= 6 =>
                /\ RequestUnmarshal(b).request.id = r.id
                /\ RequestUnmarshal(b).request.method = r.method
                /\ Len(RequestUnmarshal(b).request.params) = Len(r.params)
                /\ RequestUnmarshal(b).request \in [id : 0 .. IdModulus - 1, method : Methods, params : Seq(Params)]
           /\ Len(b) >= Len(Encode(r)) =>
                RequestUnmarshal(b).request = r /\ RequestUnmarshal(b).consumed = Len(Encode(r))
           /\ Len(b) >= Len(Encode(r)) => ~RequestUnmarshal(b).all
           /\ Len(b) < Len(Encode(r)) /\ Len(b) >= 6 =>
                RequestUnmarshal(b).consumed = Len(b) /\ RequestUnmarshal(b).all
<1> DEFINE e == Encode(r)
           x == EncodeParams(r.params)
           u == RequestUnmarshal(b)
<1>1. r \in [id : Nat, method : Methods, params : Seq(Params)] /\ r.params \in Seq(Scalars) /\ r.id < IdModulus
  BY RequestsAssumption DEF PlainRequests
<1>2. IdModulus \in Nat \ {0} /\ r.id \in Nat /\ r.id % IdModulus = r.id /\ r.id \in 0 .. IdModulus - 1 /\ 0 % IdModulus = 0
  <2>1. IdModulus \in Nat \ {0} /\ r.id \in Nat
    BY <1>1, RequestsAssumption
  <2> DEFINE i == r.id
  <2>2. i \in Nat /\ i < IdModulus
    BY <1>1, <2>1
  <2> HIDE DEF i
  <2>3. i % IdModulus = i /\ i \in 0 .. IdModulus - 1 /\ 0 % IdModulus = 0
    BY <2>1, <2>2
  <2> QED
    BY <2>1, <2>3 DEF i
<1>3. /\ Len(x) \in Nat /\ e \in Seq(Elements) /\ Len(e) = 6 + Len(x)
      /\ e[1] = Tag("arr", 4) /\ e[2] = Tag("int", 0) /\ e[3] = Tag("int", r.id)
      /\ e[4] = Tag("str", 0) /\ e[5] = Body(r.method) /\ e[6] = Tag("arr", Len(r.params))
      /\ \A j \in 1 .. Len(x) : e[6 + j] = x[j]
  BY Encoded
<1>4. Len(b) \in Nat /\ \A j \in 1 .. Len(b) : j <= Len(e) => b[j] = e[j]
  BY DEF Starts
<1> HIDE DEF e, x
<1>5. SUFFICES ASSUME Len(b) >= 6
               PROVE  /\ Envelope(b)
                      /\ u.request.id = r.id /\ u.request.method = r.method
                      /\ Len(u.request.params) = Len(r.params)
                      /\ u.request \in [id : 0 .. IdModulus - 1, method : Methods, params : Seq(Params)]
                      /\ Len(b) >= Len(e) => u.request = r /\ u.consumed = Len(e) /\ ~u.all
                      /\ Len(b) < Len(e) => u.consumed = Len(b) /\ u.all
  <2>1. Len(b) >= Len(e) => Len(b) >= 6
    BY <1>3, <1>4
  <2>2. Envelope(b) => Len(b) >= 6
    BY DEF Envelope
  <2> QED
    BY <2>1, <2>2 DEF e
<1>6. \A j \in 1 .. 6 : b[j] = e[j]
  <2>1. \A j \in 1 .. 6 : j \in 1 .. Len(b) /\ j <= Len(e)
    BY <1>3, <1>4, <1>5
  <2> QED
    BY <1>4, <2>1
<1>7. /\ b[1] = Tag("arr", 4) /\ b[2] = Tag("int", 0) /\ b[3] = Tag("int", r.id)
      /\ b[4] = Tag("str", 0) /\ b[5] = Body(r.method) /\ b[6] = Tag("arr", Len(r.params))
  BY <1>3, <1>6
<1>8. Envelope(b)
  BY <1>2, <1>5, <1>7 DEF Envelope, Tag
<1>9. \A j \in 1 .. Len(x) : 6 + j <= Len(b) => b[6 + j] = x[j]
  <2> TAKE j \in 1 .. Len(x)
  <2> HAVE 6 + j <= Len(b)
  <2>1. 6 + j \in 1 .. Len(b) /\ 6 + j <= Len(e)
    BY <1>3, <1>4
  <2> QED
    BY <1>3, <1>4, <2>1
<1>10. PICK s : s = ReadParams(b, Len(r.params))
  OBVIOUS
<1>11. /\ s.err \in BOOLEAN
       /\ s.params \in Seq(Scalars) /\ Len(s.params) = Len(r.params)
       /\ s.err => Len(b) < 6 + Len(x)
       /\ ~s.err => s.at = 7 + Len(x) /\ 6 + Len(x) <= Len(b) /\ s.params = r.params
  BY <1>1, <1>5, <1>9, <1>10, LoopReads DEF x
<1>12. u = [request  |-> [id |-> r.id, method |-> r.method, params |-> s.params],
            consumed |-> IF s.err THEN Len(b) ELSE s.at - 1,
            all      |-> s.err]
  <2>1. b[6].n = Len(r.params) /\ b[3].n = r.id /\ b[5].n = r.method
    BY <1>7 DEF Tag, Body
  <2> QED
    BY <1>2, <1>10, <2>1 DEF RequestUnmarshal
<1> HIDE DEF u
<1>13. u.request = [id |-> r.id, method |-> r.method, params |-> s.params]
       /\ u.consumed = (IF s.err THEN Len(b) ELSE s.at - 1)
       /\ u.all = s.err
  BY <1>12
<1>14. s.params \in Seq(Params)
  <2>1. Scalars \subseteq Params
    BY DEF Params
  <2> QED
    BY <1>11, <2>1, SeqMonotonic
<1>15. u.request \in [id : 0 .. IdModulus - 1, method : Methods, params : Seq(Params)]
  BY <1>1, <1>2, <1>13, <1>14
<1>16. ASSUME Len(b) >= Len(e) PROVE u.request = r /\ u.consumed = Len(e) /\ ~u.all
  <2>1. ~s.err
    BY <1>3, <1>4, <1>11, <1>16
  <2>2. s.params = r.params /\ s.at - 1 = Len(e)
    BY <1>3, <1>11, <2>1
  <2>3. r = [id |-> r.id, method |-> r.method, params |-> r.params]
    BY <1>1
  <2> QED
    BY <1>13, <2>1, <2>2, <2>3
<1>17. ASSUME Len(b) < Len(e) PROVE u.consumed = Len(b) /\ u.all
  <2>1. s.err
    BY <1>3, <1>4, <1>11, <1>17
  <2> QED
    BY <1>13, <2>1
<1> QED
  BY <1>8, <1>11, <1>13, <1>15, <1>16, <1>17

-----------------------------------------------------------------------------
(* A stream of whole requests.                                             *)

\* Size(r) elements encode r.
Size(r) == Len(Encode(r))

\* s consists of the requests of q after the first d; request i ends at fin[i].
Framed(s, q, d, fin) ==
    /\ fin \in [d .. Len(q) -> Nat]
    /\ fin[d] = 0
    /\ fin[Len(q)] = Len(s)
    /\ \A i \in d .. Len(q), j \in d .. Len(q) : i <= j => fin[i] <= fin[j]
    /\ \A i \in d + 1 .. Len(q) :
          /\ fin[i] = fin[i - 1] + Size(q[i])
          /\ \A j \in 1 .. Size(q[i]) : s[fin[i - 1] + j] = Encode(q[i])[j]

\* An encoded request has at least the elements of the envelope.
LEMMA SizeOfRequest ==
    ASSUME PlainRequests, NEW r \in Requests
    PROVE  Size(r) \in Nat /\ Size(r) >= 6
<1>1. Len(EncodeParams(r.params)) \in Nat /\ Size(r) = 6 + Len(EncodeParams(r.params))
  BY Encoded DEF Size
<1> DEFINE n == Len(EncodeParams(r.params))
<1>2. n \in Nat /\ Size(r) = 6 + n
  BY <1>1
<1> HIDE DEF n
<1> QED
  BY <1>2

\* The next request is at the front.
LEMMA FrontRequest ==
    ASSUME PlainRequests, NEW s \in Seq(Elements), NEW q \in Seq(Requests), NEW d \in Nat, d < Len(q),
           NEW fin, Framed(s, q, d, fin)
    PROVE  /\ q[d + 1] \in Requests
           /\ fin[d + 1] = Size(q[d + 1])
           /\ Size(q[d + 1]) <= Len(s)
           /\ \A j \in 1 .. Size(q[d + 1]) : s[j] = Encode(q[d + 1])[j]
<1>1. Len(q) \in Nat /\ Len(s) \in Nat /\ d + 1 \in 1 .. Len(q) /\ d + 1 \in d + 1 .. Len(q) /\ d + 1 - 1 = d
  <2>1. Len(q) \in Nat /\ Len(s) \in Nat
    OBVIOUS
  <2> QED
    BY <2>1
<1>2. q[d + 1] \in Requests
  BY <1>1, ElementOfSeq
<1>3. Size(q[d + 1]) \in Nat
  BY <1>2, SizeOfRequest
<1>4. /\ fin[d + 1] = fin[d] + Size(q[d + 1]) /\ fin[d] = 0
      /\ \A j \in 1 .. Size(q[d + 1]) : s[fin[d] + j] = Encode(q[d + 1])[j]
  BY <1>1 DEF Framed
<1>5. fin[d + 1] = Size(q[d + 1])
  BY <1>3, <1>4
<1>6. fin[d + 1] <= fin[Len(q)] /\ fin[Len(q)] = Len(s)
  <2>1. d + 1 \in d .. Len(q) /\ Len(q) \in d .. Len(q) /\ d + 1 <= Len(q)
    BY <1>1
  <2> QED
    BY <2>1 DEF Framed
<1>7. \A j \in 1 .. Size(q[d + 1]) : 0 + j = j
  BY <1>3
<1> QED
  BY <1>2, <1>4, <1>5, <1>6, <1>7

\* A request is sent.
LEMMA FramedAppend ==
    ASSUME PlainRequests, NEW s \in Seq(Elements), NEW q \in Seq(Requests), NEW d \in 0 .. Len(q),
           NEW fin, Framed(s, q, d, fin), NEW r \in Requests
    PROVE  \E f : /\ Framed(s \o Encode(r), Append(q, r), d, f)
                  /\ \A i \in d .. Len(q) : f[i] = fin[i]
<1> DEFINE n == Len(q)
           l == Len(s)
           c == Size(r)
           e == Encode(r)
           q2 == Append(q, r)
           s2 == s \o e
           f == [i \in d .. n + 1 |-> IF i = n + 1 THEN l + c ELSE fin[i]]
<1>1. n \in Nat /\ l \in Nat /\ d \in Nat /\ d <= n
  <2>1. n \in Nat /\ l \in Nat
    OBVIOUS
  <2> QED
    BY <2>1
<1>2. c \in Nat /\ e \in Seq(Elements) /\ Len(e) = c
  BY SizeOfRequest, Encoded DEF Size
<1>3. /\ fin \in [d .. n -> Nat] /\ fin[d] = 0 /\ fin[n] = l
      /\ \A i \in d .. n, j \in d .. n : i <= j => fin[i] <= fin[j]
      /\ \A i \in d + 1 .. n : /\ fin[i] = fin[i - 1] + Size(q[i])
                               /\ \A j \in 1 .. Size(q[i]) : s[fin[i - 1] + j] = Encode(q[i])[j]
  BY DEF Framed
<1>4. Len(q2) = n + 1 /\ q2[n + 1] = r /\ \A i \in 1 .. n : q2[i] = q[i] /\ q[i] \in Requests
  BY AppendProperties, ElementOfSeq
<1>5. Len(s2) = l + c /\ \A i \in 1 .. l + c : s2[i] = IF i <= l THEN s[i] ELSE e[i - l]
  <2>1. /\ Len(s2) = Len(s) + Len(e)
        /\ \A i \in 1 .. Len(s) + Len(e) : s2[i] = IF i <= Len(s) THEN s[i] ELSE e[i - Len(s)]
    BY <1>2, ConcatProperties
  <2> QED
    BY <1>2, <2>1
<1>6. \A i \in 1 .. n : Size(q[i]) \in Nat
  BY <1>4, SizeOfRequest
<1> HIDE DEF n, l, c, e, q2, s2
<1>7. \A i \in d .. n + 1 : i # n + 1 => i \in d .. n
  BY <1>1
<1>8. /\ f \in [d .. n + 1 -> Nat]
      /\ \A i \in d .. n : f[i] = fin[i]
      /\ f[n + 1] = l + c
  BY <1>1, <1>2, <1>3, <1>7
<1> HIDE DEF f
<1>9. \A i \in d .. n : fin[i] \in Nat /\ fin[i] <= l
  <2>1. n \in d .. n
    BY <1>1
  <2> QED
    BY <1>1, <1>3, <2>1
<1>10. f[d] = 0
  BY <1>1, <1>3, <1>8
<1>11. ASSUME NEW i \in d .. n + 1, NEW j \in d .. n + 1, i <= j
       PROVE  f[i] <= f[j]
  <2>1. CASE j = n + 1 /\ i # n + 1
    <3>1. i \in d .. n
      BY <1>7, <2>1
    <3>2. f[i] \in Nat /\ f[i] <= l
      BY <1>8, <1>9, <3>1
    <3> QED
      BY <1>1, <1>2, <1>8, <2>1, <3>2
  <2>2. CASE j = n + 1 /\ i = n + 1
    BY <1>1, <1>2, <1>8, <2>2
  <2>3. CASE j # n + 1
    <3>1. i \in d .. n /\ j \in d .. n
      BY <1>1, <1>11, <2>3
    <3> QED
      BY <1>3, <1>8, <1>11, <3>1
  <2> QED
    BY <2>1, <2>2, <2>3
<1>12. ASSUME NEW i \in d + 1 .. n + 1
       PROVE  /\ f[i] = f[i - 1] + Size(q2[i])
              /\ \A j \in 1 .. Size(q2[i]) : s2[f[i - 1] + j] = Encode(q2[i])[j]
  <2>1. CASE i = n + 1
    <3>1. i - 1 = n /\ n \in d .. n
      BY <1>1, <2>1
    <3>2. f[i - 1] = l /\ f[i] = l + c /\ q2[i] = r
      BY <1>3, <1>4, <1>8, <2>1, <3>1
    <3>3. \A j \in 1 .. c : s2[l + j] = e[j]
      <4> TAKE j \in 1 .. c
      <4> DEFINE k == l + j
      <4>1. k \in 1 .. l + c /\ ~(k <= l) /\ k - l = j
        BY <1>1, <1>2
      <4> HIDE DEF k
      <4>2. s2[k] = e[k - l]
        BY <1>5, <4>1
      <4> QED
        BY <4>1, <4>2 DEF k
    <3> QED
      BY <3>2, <3>3 DEF c, e
  <2>2. CASE i # n + 1
    <3>1. i \in d + 1 .. n /\ i \in d .. n /\ i - 1 \in d .. n /\ i \in 1 .. n
      BY <1>1, <2>2
    <3>2. f[i] = fin[i] /\ f[i - 1] = fin[i - 1] /\ q2[i] = q[i]
      BY <1>4, <1>8, <3>1
    <3> DEFINE a == fin[i - 1]
               b == Size(q[i])
    <3>3. a \in Nat /\ b \in Nat /\ fin[i] = a + b /\ a + b <= l
      BY <1>3, <1>6, <1>9, <3>1
    <3>4. \A j \in 1 .. b : s[a + j] = Encode(q[i])[j]
      BY <1>3, <3>1
    <3> HIDE DEF a, b
    <3>5. \A j \in 1 .. b : a + j \in 1 .. l + c /\ a + j <= l
      BY <1>1, <1>2, <3>3
    <3>6. \A j \in 1 .. b : s2[a + j] = s[a + j]
      BY <1>5, <3>5
    <3> QED
      BY <3>2, <3>3, <3>4, <3>6 DEF a, b
  <2> QED
    BY <2>1, <2>2
<1>13. Framed(s2, q2, d, f)
  BY <1>4, <1>5, <1>8, <1>10, <1>11, <1>12 DEF Framed
<1> QED
  BY <1>8, <1>13 DEF s2, q2, n, e

\* The request at the front is taken out.
LEMMA FramedDrop ==
    ASSUME PlainRequests, NEW s \in Seq(Elements), NEW q \in Seq(Requests), NEW d \in Nat, d < Len(q),
           NEW fin, Framed(s, q, d, fin), NEW t \in Seq(Elements),
           Len(t) = Len(s) - Size(q[d + 1]),
           \A j \in 1 .. Len(t) : t[j] = s[Size(q[d + 1]) + j]
    PROVE  \E f : /\ Framed(t, q, d + 1, f)
                  /\ \A i \in d + 1 .. Len(q) : f[i] = fin[i] - Size(q[d + 1])
<1> DEFINE n == Len(q)
           l == Len(s)
           c == Size(q[d + 1])
           f == [i \in d + 1 .. n |-> fin[i] - c]
<1>1. n \in Nat /\ l \in Nat /\ d + 1 <= n
  <2>1. n \in Nat /\ l \in Nat
    OBVIOUS
  <2> QED
    BY <2>1
<1>2. c \in Nat /\ fin[d + 1] = c /\ c <= l
  BY FrontRequest, SizeOfRequest
<1>3. /\ fin \in [d .. n -> Nat] /\ fin[n] = l
      /\ \A i \in d .. n, j \in d .. n : i <= j => fin[i] <= fin[j]
      /\ \A i \in d + 1 .. n : /\ fin[i] = fin[i - 1] + Size(q[i])
                               /\ \A j \in 1 .. Size(q[i]) : s[fin[i - 1] + j] = Encode(q[i])[j]
  BY DEF Framed
<1>4. \A i \in 1 .. n : q[i] \in Requests /\ Size(q[i]) \in Nat
  <2>1. \A i \in 1 .. n : q[i] \in Requests
    BY ElementOfSeq
  <2> QED
    BY <2>1, SizeOfRequest
<1>5. Len(t) = l - c /\ \A j \in 1 .. l - c : t[j] = s[c + j]
  OBVIOUS
<1> HIDE DEF n, l, c
<1>6. \A i \in d + 1 .. n : fin[i] \in Nat /\ c <= fin[i] /\ fin[i] <= l
  <2> TAKE i \in d + 1 .. n
  <2>1. i \in d .. n /\ d + 1 \in d .. n /\ n \in d .. n /\ d + 1 <= i /\ i <= n
    BY <1>1
  <2>2. fin[i] \in Nat /\ fin[d + 1] <= fin[i] /\ fin[i] <= fin[n]
    BY <1>3, <2>1
  <2> QED
    BY <1>2, <1>3, <2>2
<1>7. \A i \in d + 1 .. n : fin[i] - c \in Nat
  BY <1>2, <1>6
<1>8. f \in [d + 1 .. n -> Nat] /\ \A i \in d + 1 .. n : f[i] = fin[i] - c
  BY <1>7
<1> HIDE DEF f
<1>9. f[d + 1] = 0 /\ f[n] = l - c
  <2>1. d + 1 \in d + 1 .. n /\ n \in d + 1 .. n
    BY <1>1
  <2> QED
    BY <1>2, <1>3, <1>8, <2>1
<1>10. ASSUME NEW i \in d + 1 .. n, NEW j \in d + 1 .. n, i <= j
       PROVE  f[i] <= f[j]
  <2>1. i \in d .. n /\ j \in d .. n
    BY <1>1
  <2>2. fin[i] <= fin[j] /\ fin[i] \in Nat /\ fin[j] \in Nat
    BY <1>3, <1>6, <1>10, <2>1
  <2>3. f[i] = fin[i] - c /\ f[j] = fin[j] - c
    BY <1>8
  <2> QED
    BY <1>2, <2>2, <2>3
<1>11. ASSUME NEW i \in d + 1 + 1 .. n
       PROVE  /\ f[i] = f[i - 1] + Size(q[i])
              /\ \A j \in 1 .. Size(q[i]) : t[f[i - 1] + j] = Encode(q[i])[j]
  <2>1. i \in d + 1 .. n /\ i - 1 \in d + 1 .. n /\ i \in 1 .. n
    BY <1>1
  <2> DEFINE a == fin[i - 1]
             b == Size(q[i])
  <2>2. a \in Nat /\ b \in Nat /\ fin[i] = a + b /\ a + b <= l /\ c <= a
    BY <1>3, <1>4, <1>6, <2>1
  <2>3. f[i] = fin[i] - c /\ f[i - 1] = a - c
    BY <1>8, <2>1
  <2>4. \A j \in 1 .. b : s[a + j] = Encode(q[i])[j]
    BY <1>3, <2>1
  <2> HIDE DEF a, b
  <2>5. \A j \in 1 .. b : a - c + j \in 1 .. l - c /\ c + (a - c + j) = a + j
    <3> TAKE j \in 1 .. b
    <3> QED
      BY ONLY j \in 1 .. b, <1>1, <1>2, <2>2
  <2>6. \A j \in 1 .. b : t[a - c + j] = s[a + j]
    BY <1>5, <2>5
  <2>7. f[i] = a - c + b
    BY <1>2, <2>2, <2>3
  <2> QED
    BY <2>3, <2>4, <2>6, <2>7 DEF b
<1>12. Framed(t, q, d + 1, f)
  BY <1>5, <1>8, <1>9, <1>10, <1>11 DEF Framed, n
<1> QED
  BY <1>8, <1>12 DEF n, c

-----------------------------------------------------------------------------
(* The inductive invariant.                                                *)

\* What is dispatched is a request, of a type that holds out of step as well.
Dispatchable == [id : 0 .. IdModulus - 1, method : Content, params : Seq(Value)]

\* The types, and the order of the places where the requests end.
Typed ==
    /\ sent \in Seq(Requests)
    /\ ends \in Seq(Nat) /\ Len(ends) = Len(sent)
    /\ \A i \in 1 .. Len(sent), j \in 1 .. Len(sent) : i <= j => ends[i] <= ends[j]
    /\ cutAt \in Nat \union {NoCut}
    /\ wire \in Seq(Elements) /\ buffer \in Seq(Elements)
    /\ dispatched \in Seq(Dispatchable)
    /\ conn \in {"open", "closed"} /\ reading \in BOOLEAN /\ part \in BOOLEAN

\* What is promised of request i.
Promised(i) ==
    /\ Whole(i) => dispatched[i] = sent[i]
    /\ CutOne(i) => /\ dispatched[i].id = sent[i].id
                    /\ dispatched[i].method = sent[i].method
                    /\ Len(dispatched[i].params) = Len(sent[i].params)
    /\ Whole(i) \/ CutOne(i) => dispatched[i] \in [id : 0 .. IdModulus - 1, method : Methods, params : Seq(Params)]

Kept == \A i \in DOMAIN dispatched \intersect DOMAIN sent : Promised(i)

\* s is the stream from the end of the dispatched requests, at base, as the
\* client wrote it; the buffer holds the start of it, which ends with a request
\* until TCP cuts one, and at the cut from then on.
Follows(s, f, base) ==
    /\ s \in Seq(Elements) /\ base \in Nat
    /\ Len(dispatched) <= Len(sent)
    /\ Framed(s, sent, Len(dispatched), f)
    /\ StreamLen = base + Len(s)
    /\ \A i \in 1 .. Len(sent) : i <= Len(dispatched) => ends[i] <= base
    /\ \A i \in Len(dispatched) + 1 .. Len(sent) : ends[i] = base + f[i]
    /\ Len(buffer) <= Len(s)
    /\ \A j \in 1 .. Len(buffer) : buffer[j] = s[j]
    /\ cutAt = NoCut => /\ ~part
                        /\ s = buffer \o wire
                        /\ \E i \in Len(dispatched) .. Len(sent) : f[i] = Len(buffer)
    /\ cutAt # NoCut => /\ reading
                        /\ cutAt = base + Len(buffer)
                        /\ Len(buffer) < Len(s)
                        /\ part \/ (Len(buffer) # 0 /\ \A i \in 1 .. Len(sent) : ends[i] # cutAt)

Agrees == \A i \in 1 .. Len(dispatched) : dispatched[i] = sent[i]

InStep ==
    /\ Agrees
    /\ \E s, f, base : Follows(s, f, base)

\* Once a request that was cut is dispatched, what comes next may be anything.
OutOfStep ==
    /\ cutAt # NoCut
    /\ \E k \in 1 .. Len(sent) : k <= Len(dispatched) /\ ends[k] > cutAt

\* The server closes only when a request was cut.
ClosedWhenCut ==
    /\ conn = "open" => InStep \/ OutOfStep
    /\ conn = "closed" => cutAt # NoCut /\ ~reading

IInv == Typed /\ Kept /\ ClosedWhenCut

\* The lengths and domains the steps rely on.
LEMMA Types ==
    ASSUME Typed
    PROVE  /\ Len(sent) \in Nat /\ DOMAIN sent = 1 .. Len(sent)
           /\ Len(dispatched) \in Nat /\ DOMAIN dispatched = 1 .. Len(dispatched)
           /\ Len(ends) \in Nat /\ DOMAIN ends = 1 .. Len(sent)
           /\ Len(wire) \in Nat /\ Len(buffer) \in Nat
           /\ \A i \in 1 .. Len(sent) : ends[i] \in Nat /\ sent[i] \in Requests
           /\ StreamLen \in Nat
           /\ \A i \in 1 .. Len(sent) : ends[i] <= StreamLen
<1>1. sent \in Seq(Requests) /\ ends \in Seq(Nat) /\ wire \in Seq(Elements) /\ buffer \in Seq(Elements)
      /\ dispatched \in Seq(Dispatchable) /\ Len(ends) = Len(sent)
  BY DEF Typed
<1>2. /\ Len(sent) \in Nat /\ DOMAIN sent = 1 .. Len(sent)
      /\ Len(dispatched) \in Nat /\ DOMAIN dispatched = 1 .. Len(dispatched)
      /\ Len(ends) \in Nat /\ DOMAIN ends = 1 .. Len(ends)
      /\ Len(wire) \in Nat /\ Len(buffer) \in Nat
  BY ONLY <1>1, LenProperties
<1>3. \A i \in 1 .. Len(sent) : ends[i] \in Nat /\ sent[i] \in Requests
  BY <1>1, ElementOfSeq
<1>4. CASE Len(sent) = 0
  <2>1. ends = <<>> /\ 1 .. Len(sent) = {}
    BY <1>1, <1>4, EmptySeq
  <2> QED
    BY <1>1, <1>2, <1>3, <2>1 DEF StreamLen
<1>5. CASE Len(sent) # 0
  <2>1. Len(sent) \in 1 .. Len(sent) /\ ends # <<>>
    BY <1>1, <1>2, <1>5
  <2>2. StreamLen = ends[Len(sent)]
    BY <1>1, <2>1 DEF StreamLen
  <2>3. \A i \in 1 .. Len(sent) : i <= Len(sent)
    BY <1>2
  <2> QED
    BY <1>1, <1>2, <1>3, <2>1, <2>2, <2>3 DEF Typed
<1> QED
  BY <1>4, <1>5

\* A request that is sent could be dispatched as it is.
LEMMA RequestType ==
    ASSUME PlainRequests, NEW r \in Requests
    PROVE  r \in [id : 0 .. IdModulus - 1, method : Methods, params : Seq(Params)]
<1>1. r \in [id : Nat, method : Methods, params : Seq(Params)] /\ r.id < IdModulus
  BY RequestsAssumption DEF PlainRequests
<1>2. r.id \in Nat /\ r.method \in Methods /\ r.params \in Seq(Params) /\ IdModulus \in Nat
  BY <1>1, RequestsAssumption
<1>3. r.id \in 0 .. IdModulus - 1
  BY <1>1, <1>2
<1>4. r = [id |-> r.id, method |-> r.method, params |-> r.params]
  BY <1>1
<1> QED
  BY <1>2, <1>3, <1>4

\* In step, what is dispatched is what was sent.
LEMMA InStepKept ==
    ASSUME PlainRequests, Typed, Agrees
    PROVE  Kept
<1> SUFFICES ASSUME NEW i \in DOMAIN dispatched \intersect DOMAIN sent PROVE Promised(i)
  BY DEF Kept
<1>1. dispatched[i] = sent[i] /\ sent[i] \in Requests
  BY Types DEF Agrees
<1>2. sent[i] \in [id : 0 .. IdModulus - 1, method : Methods, params : Seq(Params)]
  BY <1>1, RequestType
<1> QED
  BY <1>1, <1>2 DEF Promised

\* Out of step, requests that are sent or dispatched later are past the cut.
LEMMA OutOfStepStays ==
    ASSUME Typed, Typed', Kept, OutOfStep, cutAt' = cutAt,
           Len(dispatched) <= Len(dispatched'), \A i \in 1 .. Len(dispatched) : dispatched'[i] = dispatched[i],
           Len(sent) <= Len(sent'), \A i \in 1 .. Len(sent) : sent'[i] = sent[i] /\ ends'[i] = ends[i]
    PROVE  Kept' /\ OutOfStep'
<1>1. PICK k \in 1 .. Len(sent) : k <= Len(dispatched) /\ ends[k] > cutAt
  BY DEF OutOfStep
<1>2. /\ Len(sent) \in Nat /\ DOMAIN sent = 1 .. Len(sent)
      /\ Len(dispatched) \in Nat /\ DOMAIN dispatched = 1 .. Len(dispatched)
  BY Types
<1>3. /\ sent' \in Seq(Requests) /\ ends' \in Seq(Nat) /\ dispatched' \in Seq(Dispatchable) /\ Len(ends') = Len(sent')
      /\ \A i \in 1 .. Len(sent'), j \in 1 .. Len(sent') : i <= j => ends'[i] <= ends'[j]
      /\ cutAt' \in Nat
  BY DEF Typed, OutOfStep
<1>4. /\ Len(sent') \in Nat /\ DOMAIN sent' = 1 .. Len(sent')
      /\ Len(dispatched') \in Nat /\ DOMAIN dispatched' = 1 .. Len(dispatched')
      /\ \A i \in 1 .. Len(sent') : ends'[i] \in Nat
  BY ONLY <1>3, LenProperties, ElementOfSeq
<1>5. k \in 1 .. Len(sent') /\ k <= Len(dispatched') /\ ends'[k] > cutAt' /\ cutAt' # NoCut
  BY <1>1, <1>2, <1>4 DEF OutOfStep
<1>6. ASSUME NEW i \in 1 .. Len(sent'), k <= i PROVE ~Whole(i)'
  <2>1. ends'[k] <= ends'[i] /\ ends'[k] \in Nat /\ ends'[i] \in Nat
    BY <1>3, <1>4, <1>5, <1>6
  <2>2. ~(ends'[i] <= cutAt')
    BY <1>3, <1>5, <2>1
  <2> QED
    BY <1>5, <2>2 DEF Whole
<1>7. ASSUME NEW i \in DOMAIN dispatched' \intersect DOMAIN sent' PROVE Promised(i)'
  <2>1. i \in 1 .. Len(sent') /\ i \in 1 .. Len(dispatched')
    BY <1>4
  <2>2. CASE k < i
    <3>1. k <= i /\ i - 1 \in 1 .. Len(sent') /\ k <= i - 1 /\ i # 1
      BY <1>4, <2>1, <2>2
    <3>2. ~Whole(i)' /\ ~Whole(i - 1)'
      BY <1>6, <2>1, <3>1
    <3>3. ~CutOne(i)'
      BY <3>1, <3>2 DEF CutOne
    <3> QED
      BY <3>2, <3>3 DEF Promised
  <2>3. CASE i <= k
    <3>1. i \in 1 .. Len(sent) /\ i \in 1 .. Len(dispatched) /\ (i # 1 => i - 1 \in 1 .. Len(sent))
      BY <1>1, <1>2, <1>4, <2>1, <2>3
    <3>2. dispatched'[i] = dispatched[i] /\ sent'[i] = sent[i] /\ ends'[i] = ends[i]
          /\ (i # 1 => ends'[i - 1] = ends[i - 1])
      BY <3>1
    <3>3. Whole(i)' = Whole(i) /\ (i # 1 => Whole(i - 1)' = Whole(i - 1))
      BY <3>2 DEF Whole
    <3>4. CutOne(i)' = CutOne(i)
      BY <3>3 DEF CutOne
    <3>5. Promised(i)
      BY <1>2, <3>1 DEF Kept
    <3> QED
      BY <3>2, <3>3, <3>4, <3>5 DEF Promised
  <2> QED
    BY <1>1, <2>1, <2>2, <2>3
<1> QED
  BY <1>5, <1>7 DEF Kept, OutOfStep

\* Nothing is sent yet.
LEMMA InitInv ==
    ASSUME PlainRequests, Init
    PROVE  IInv
<1>1. /\ sent = <<>> /\ dispatched = <<>> /\ wire = <<>> /\ buffer = <<>> /\ ends = <<>>
      /\ part = FALSE /\ conn = "open" /\ reading = FALSE /\ cutAt = NoCut
  BY DEF Init
<1>2. \A S : <<>> \in Seq(S)
  OBVIOUS
<1>3. Len(<<>>) = 0 /\ 1 .. 0 = {}
  OBVIOUS
<1>4. Typed
  BY <1>1, <1>2, <1>3 DEF Typed
<1>5. Agrees
  BY <1>1, <1>3 DEF Agrees
<1>6. Follows(<<>>, [i \in 0 .. 0 |-> 0], 0)
  <2> DEFINE f == [i \in 0 .. 0 |-> 0]
  <2>1. Framed(<<>>, <<>>, 0, f)
    BY <1>3 DEF Framed
  <2>2. 0 \in 0 .. 0 /\ f[0] = 0
    OBVIOUS
  <2> HIDE DEF f
  <2>3. StreamLen = 0 + Len(<<>>)
    BY <1>1, <1>3 DEF StreamLen
  <2>4. <<>> \o <<>> = <<>>
    OBVIOUS
  <2>5. \E i \in 0 .. 0 : f[i] = 0
    BY <2>2
  <2>6. Follows(<<>>, f, 0)
    BY <1>1, <1>2, <1>3, <2>1, <2>3, <2>4, <2>5 DEF Follows
  <2> QED
    BY <2>6 DEF f
<1>7. InStep
  BY <1>5, <1>6, Zenon DEF InStep
<1> QED
  BY <1>1, <1>4, <1>5, <1>7, InStepKept DEF IInv, ClosedWhenCut

\* The same after a step.
LEMMA InStepKeptNext ==
    ASSUME PlainRequests
    PROVE  Typed' /\ Agrees' => Kept'
<1>1. Typed /\ Agrees => Kept
  BY InStepKept
<1> QED
  BY <1>1, PTL

\* The client sends a request.
LEMMA SendInv ==
    ASSUME PlainRequests, IInv, NEW r \in Requests, Send(r)
    PROVE  IInv'
<1> DEFINE e == Encode(r)
           n == Len(sent)
           d == Len(dispatched)
<1>1. /\ conn = "open" /\ sent' = Append(sent, r) /\ wire' = wire \o e /\ ends' = Append(ends, StreamLen + Len(e))
      /\ buffer' = buffer /\ part' = part /\ dispatched' = dispatched /\ conn' = conn /\ reading' = reading
      /\ cutAt' = cutAt
  BY DEF Send
<1>2. e \in Seq(Elements) /\ Len(e) \in Nat
  BY Encoded
<1>3. Typed
  BY DEF IInv
<1>4. n \in Nat /\ d \in Nat /\ StreamLen \in Nat /\ \A i \in 1 .. n : ends[i] \in Nat /\ ends[i] <= StreamLen
  BY <1>3, Types
<1>5. /\ sent' \in Seq(Requests) /\ Len(sent') = n + 1
      /\ \A i \in 1 .. n : sent'[i] = sent[i]
  BY <1>1, <1>3, AppendProperties DEF Typed
<1>6. /\ ends' \in Seq(Nat) /\ Len(ends') = n + 1
      /\ (\A i \in 1 .. n : ends'[i] = ends[i]) /\ ends'[n + 1] = StreamLen + Len(e)
  <2>1. ends \in Seq(Nat) /\ Len(ends) = n /\ StreamLen + Len(e) \in Nat
    BY <1>2, <1>3, <1>4 DEF Typed
  <2> HIDE DEF n, e
  <2> QED
    BY <1>1, <2>1, AppendProperties
<1>7. wire' \in Seq(Elements)
  BY <1>1, <1>2, <1>3, ConcatProperties DEF Typed
<1>8. \A i \in 1 .. n + 1, j \in 1 .. n + 1 : i <= j => ends'[i] <= ends'[j]
  <2> SUFFICES ASSUME NEW i \in 1 .. n + 1, NEW j \in 1 .. n + 1, i <= j PROVE ends'[i] <= ends'[j]
    OBVIOUS
  <2> DEFINE l == Len(e)
  <2>1. l \in Nat /\ ends'[n + 1] = StreamLen + l
    BY <1>2, <1>6
  <2> HIDE DEF n, l
  <2>2. CASE j \in 1 .. n
    <3>1. i \in 1 .. n
      BY <1>4, <2>2
    <3>2. ends[i] <= ends[j]
      BY <1>3, <2>2, <3>1 DEF Typed, n
    <3> QED
      BY <1>6, <2>2, <3>1, <3>2
  <2>3. CASE j = n + 1 /\ i \in 1 .. n
    <3>1. ends'[i] = ends[i] /\ ends[i] \in Nat /\ ends[i] <= StreamLen
      BY <1>4, <1>6, <2>3
    <3> QED
      BY <1>4, <2>1, <2>3, <3>1
  <2>4. CASE j = n + 1 /\ i = n + 1
    BY <1>4, <2>1, <2>4
  <2> QED
    BY <1>4, <2>2, <2>3, <2>4
<1>9. Typed'
  BY <1>1, <1>3, <1>5, <1>6, <1>7, <1>8 DEF Typed
<1>10. StreamLen' = StreamLen + Len(e)
  <2>1. ends' # <<>>
    BY <1>4, <1>6
  <2> QED
    BY <1>6, <2>1 DEF StreamLen
<1>11. ASSUME InStep PROVE InStep' /\ Kept'
  <2>1. PICK s, fin, base : Follows(s, fin, base)
    BY <1>11 DEF InStep
  <2> DEFINE s2 == s \o e
             b == Len(buffer)
  <2>2. /\ s \in Seq(Elements) /\ base \in Nat /\ d <= n /\ Framed(s, sent, d, fin) /\ StreamLen = base + Len(s)
        /\ (\A i \in 1 .. n : i <= d => ends[i] <= base)
        /\ (\A i \in d + 1 .. n : ends[i] = base + fin[i])
        /\ b <= Len(s) /\ (\A j \in 1 .. b : buffer[j] = s[j])
        /\ (cutAt = NoCut => ~part /\ s = buffer \o wire /\ \E i \in d .. n : fin[i] = b)
        /\ (cutAt # NoCut => /\ reading /\ cutAt = base + b /\ b < Len(s)
                             /\ part \/ (b # 0 /\ \A i \in 1 .. n : ends[i] # cutAt))
    BY <2>1 DEF Follows
  <2>3. d \in 0 .. n
    BY <1>4, <2>2
  <2>4. PICK f : Framed(s2, Append(sent, r), d, f) /\ \A i \in d .. n : f[i] = fin[i]
    BY <1>3, <2>2, <2>3, FramedAppend DEF Typed
  <2>5. /\ s2 \in Seq(Elements) /\ Len(s2) = Len(s) + Len(e) /\ Len(s) \in Nat
        /\ \A j \in 1 .. Len(s) : s2[j] = s[j]
    <3>1. /\ s2 \in Seq(Elements) /\ Len(s2) = Len(s) + Len(e) /\ Len(s) \in Nat
          /\ \A j \in 1 .. Len(s) + Len(e) : s2[j] = IF j <= Len(s) THEN s[j] ELSE e[j - Len(s)]
      BY ONLY <1>2, <2>2, ConcatProperties, LenProperties
    <3>2. \A j \in 1 .. Len(s) : j <= Len(s) /\ j \in 1 .. Len(s) + Len(e)
      BY ONLY <1>2, <3>1
    <3> QED
      BY <3>1, <3>2
  <2>6. b \in Nat
    BY <1>3, Types
  <2>7. f[n + 1] = Len(s2)
    BY <1>1, <1>5, <2>4 DEF Framed
  <2>8. cutAt = NoCut => s2 = buffer \o (wire \o e)
    <3>1. buffer \in Seq(Elements) /\ wire \in Seq(Elements)
      BY <1>3 DEF Typed
    <3>2. (buffer \o wire) \o e = buffer \o (wire \o e)
      BY ONLY <1>2, <3>1, BytesAssociative
    <3> QED
      BY <2>2, <3>2
  <2>9. Agrees' /\ d <= n + 1
    <3>1. \A i \in 1 .. d : i \in 1 .. n
      BY <1>4, <2>2
    <3>2. \A i \in 1 .. d : dispatched[i] = sent[i]
      BY <1>11 DEF InStep, Agrees
    <3> QED
      BY <1>1, <1>4, <1>5, <2>2, <3>1, <3>2 DEF Agrees
  <2>10. \A i \in 1 .. n + 1 : i <= d => ends'[i] <= base
    <3>1. \A i \in 1 .. n + 1 : i <= d => i \in 1 .. n
      BY <1>4, <2>2
    <3> QED
      BY <1>6, <2>2, <3>1
  <2>11. \A i \in d + 1 .. n + 1 : ends'[i] = base + f[i]
    <3> SUFFICES ASSUME NEW i \in d + 1 .. n + 1 PROVE ends'[i] = base + f[i]
      OBVIOUS
    <3>1. CASE i = n + 1
      <4>1. base + Len(s) + Len(e) = base + (Len(s) + Len(e))
        BY ONLY <1>2, <2>2, <2>5
      <4> QED
        BY <1>6, <2>2, <2>5, <2>7, <3>1, <4>1
    <3>2. CASE i # n + 1
      <4>1. i \in d + 1 .. n /\ i \in d .. n /\ i \in 1 .. n
        BY <1>4, <2>2, <3>2
      <4> QED
        BY <1>6, <2>2, <2>4, <4>1
    <3> QED
      BY <3>1, <3>2
  <2>12. b <= Len(s2) /\ (b < Len(s) => b < Len(s2)) /\ \A j \in 1 .. b : j \in 1 .. Len(s)
    BY ONLY <1>2, <2>2, <2>5, <2>6
  <2>13. \A j \in 1 .. b : buffer[j] = s2[j]
    BY <2>2, <2>5, <2>12
  <2>14. cutAt = NoCut => \E i \in d .. n + 1 : f[i] = b
    <3> SUFFICES ASSUME cutAt = NoCut PROVE \E i \in d .. n + 1 : f[i] = b
      OBVIOUS
    <3>1. PICK i \in d .. n : fin[i] = b
      BY <2>2
    <3>2. i \in d .. n + 1 /\ f[i] = b
      BY <1>4, <2>4, <3>1
    <3> QED
      BY <3>2
  <2>15. StreamLen' = base + Len(s2)
    BY ONLY <1>2, <1>10, <2>2, <2>5
  <2>c. cutAt # NoCut => part \/ (b # 0 /\ \A i \in 1 .. n + 1 : ends'[i] # cutAt)
    <3> SUFFICES ASSUME cutAt # NoCut, ~part, NEW i \in 1 .. n + 1 PROVE b # 0 /\ ends'[i] # cutAt
      OBVIOUS
    <3>1. b # 0 /\ (\A k \in 1 .. n : ends[k] # cutAt) /\ cutAt = base + b /\ b < Len(s)
      BY <2>2
    <3>2. CASE i \in 1 .. n
      BY <1>6, <3>1, <3>2
    <3>3. CASE i = n + 1
      <4>1. base + b # base + Len(s) + Len(e)
        BY ONLY <1>2, <2>2, <2>5, <2>6, <3>1
      <4> QED
        BY <1>6, <2>2, <3>1, <3>3, <4>1
    <3> QED
      BY <1>4, <3>1, <3>2, <3>3
  <2> HIDE DEF s2, b, e
  <2>16. Follows(s2, f, base)'
    BY <1>1, <1>5, <2>2, <2>4, <2>5, <2>8, <2>9, <2>10, <2>11, <2>12, <2>13, <2>14, <2>15, <2>c DEF Follows, b
  <2>17. InStep'
    BY <2>9, <2>16 DEF InStep
  <2> QED
    BY <1>9, <2>9, <2>17, InStepKeptNext
<1>12. ASSUME OutOfStep PROVE OutOfStep' /\ Kept'
  <2>1. Len(sent) <= Len(sent') /\ Len(dispatched) <= Len(dispatched')
    BY <1>1, <1>4, <1>5
  <2> QED
    BY <1>1, <1>3, <1>5, <1>6, <1>9, <1>12, <2>1, OutOfStepStays DEF IInv
<1> QED
  BY <1>1, <1>9, <1>11, <1>12 DEF IInv, ClosedWhenCut

\* A read in step, before any cut: of whole requests, or one that cuts.
LEMMA ReadInStep ==
    ASSUME PlainRequests, Typed, InStep, ~reading, NEW n \in 0 .. Len(wire),
           buffer' = buffer \o SubSeq(wire, 1, n), reading' = TRUE,
           sent' = sent, dispatched' = dispatched, ends' = ends,
           \/ /\ n # 0 /\ cutAt' = NoCut /\ part' = part /\ wire' = SubSeq(wire, n + 1, Len(wire))
              /\ \E i \in DOMAIN ends : ends[i] = ReadEnd(n)
           \/ /\ n # Len(wire) /\ cutAt' = ReadEnd(n)
              /\ part' \/ (n # 0 /\ ~\E i \in DOMAIN ends : ends[i] = ReadEnd(n))
    PROVE  InStep'
<1> DEFINE front == SubSeq(wire, 1, n)
           rest == SubSeq(wire, n + 1, Len(wire))
           d == Len(dispatched)
           q == Len(sent)
           b == Len(buffer)
           w == Len(wire)
<1>1. PICK s, fin, base : Follows(s, fin, base)
  BY DEF InStep
<1>2. /\ s \in Seq(Elements) /\ base \in Nat /\ d <= q /\ Framed(s, sent, d, fin) /\ StreamLen = base + Len(s)
      /\ (\A i \in 1 .. q : i <= d => ends[i] <= base)
      /\ (\A i \in d + 1 .. q : ends[i] = base + fin[i])
      /\ cutAt = NoCut /\ ~part /\ s = buffer \o wire
  BY <1>1 DEF Follows
<1>3. /\ d \in Nat /\ q \in Nat /\ b \in Nat /\ w \in Nat /\ DOMAIN ends = 1 .. q
      /\ buffer \in Seq(Elements) /\ wire \in Seq(Elements)
  BY Types DEF Typed
<1>4. front \in Seq(Elements) /\ rest \in Seq(Elements) /\ Len(front) = n /\ front \o rest = wire
  <2>1. /\ front \in Seq(Elements) /\ rest \in Seq(Elements)
    BY ONLY <1>3, n \in 0 .. Len(wire), SubSeqProperties
  <2>2. Len(front) = n
    <3>1. CASE n = 0
      BY ONLY <1>3, <3>1, SubSeqEmpty
    <3>2. CASE n # 0
      BY ONLY <1>3, <3>2, n \in 0 .. Len(wire), SubSeqProperties
    <3> QED
      BY <3>1, <3>2
  <2>3. front \o rest = wire
    <3>1. 1 \in 1 .. Len(wire) + 1 /\ n \in 1 - 1 .. Len(wire) /\ Len(wire) \in n .. Len(wire)
      BY <1>3
    <3>2. front \o rest = SubSeq(wire, 1, Len(wire))
      BY ONLY <1>3, <3>1, ConcatAdjacentSubSeq
    <3> QED
      BY <1>3, <3>2, SubSeqFull
  <2> QED
    BY <2>1, <2>2, <2>3
<1> HIDE DEF front, rest
<1>5. s = (buffer \o front) \o rest
  <2>a. buffer \in Seq(Elements) /\ front \in Seq(Elements) /\ rest \in Seq(Elements)
    BY <1>3, <1>4
  <2>1. (buffer \o front) \o rest = buffer \o (front \o rest)
    BY ONLY <2>a, BytesAssociative
  <2> QED
    BY <1>2, <1>4, <2>1
<1>6. buffer' = buffer \o front
  BY DEF front
<1>7. buffer' \in Seq(Elements) /\ Len(buffer') = b + n /\ s = buffer' \o rest /\ Len(s) = b + w
  <2>1. buffer \o front \in Seq(Elements) /\ Len(buffer \o front) = b + Len(front) /\ Len(buffer \o wire) = b + w
    BY ONLY <1>3, <1>4, ConcatProperties
  <2> QED
    BY <1>2, <1>4, <1>5, <1>6, <2>1
<1>8. n \in Nat /\ n <= w
  BY <1>3
<1> HIDE DEF b, w, d, q
<1>9. b + n <= Len(s) /\ (n # w => b + n < Len(s))
  BY <1>3, <1>7, <1>8
<1>10. \A j \in 1 .. b + n : buffer'[j] = s[j]
  <2>1. Len(rest) \in Nat
    BY ONLY <1>4, LenProperties
  <2>2. \A j \in 1 .. Len(buffer') + Len(rest) :
           (buffer' \o rest)[j] = IF j <= Len(buffer') THEN buffer'[j] ELSE rest[j - Len(buffer')]
    BY ONLY <1>4, <1>7, ConcatProperties
  <2>3. \A j \in 1 .. b + n : j \in 1 .. b + n + Len(rest) /\ j <= b + n
    BY ONLY <1>3, <1>8, <2>1
  <2> QED
    BY <1>7, <2>2, <2>3
<1>11. ReadEnd(n) = base + (b + n) /\ ReadEnd(n) \in Nat
  <2>1. base + (b + w) - w + n = base + (b + n) /\ base + (b + n) \in Nat
    BY ONLY <1>2, <1>3, <1>8
  <2>2. ReadEnd(n) = base + (b + w) - w + n
    BY <1>2, <1>7 DEF ReadEnd, w
  <2> QED
    BY <2>1, <2>2
<1>12. cutAt' = NoCut => ~part' /\ s = buffer' \o wire' /\ \E i \in d .. q : fin[i] = b + n
  <2> SUFFICES ASSUME cutAt' = NoCut PROVE ~part' /\ s = buffer' \o wire' /\ \E i \in d .. q : fin[i] = b + n
    OBVIOUS
  <2>1. ReadEnd(n) # NoCut
    BY <1>11 DEF NoCut
  <2>2. n # 0 /\ part' = part /\ wire' = rest /\ \E i \in 1 .. q : ends[i] = ReadEnd(n)
    BY <1>3, <2>1 DEF rest
  <2>3. PICK i \in 1 .. q : ends[i] = base + (b + n)
    BY <1>11, <2>2
  <2>4. ~(i <= d)
    <3>1. ~(base + (b + n) <= base)
      BY <1>2, <1>3, <1>8, <2>2
    <3> QED
      BY <1>2, <2>3, <3>1
  <2>5. i \in d + 1 .. q /\ i \in d .. q
    BY <1>3, <2>4
  <2>6. fin[i] \in Nat
    BY <1>2, <2>5 DEF Framed, q
  <2>7. ends[i] = base + fin[i]
    BY <1>2, <2>5
  <2>8. fin[i] = b + n
    <3> DEFINE x == fin[i]
    <3>1. x \in Nat /\ base \in Nat /\ b \in Nat /\ n \in Nat /\ base + x = base + (b + n)
      BY <1>2, <1>3, <1>8, <2>3, <2>6, <2>7
    <3> HIDE DEF x
    <3>2. x = b + n
      BY ONLY <3>1
    <3> QED
      BY <3>2 DEF x
  <2> QED
    BY <1>2, <1>7, <2>2, <2>5, <2>8
<1>13. cutAt' # NoCut => /\ cutAt' = base + (b + n) /\ n # w
                         /\ part' \/ (b + n # 0 /\ \A i \in 1 .. q : ends[i] # cutAt')
  <2> SUFFICES ASSUME cutAt' # NoCut
               PROVE  /\ cutAt' = base + (b + n) /\ n # w
                      /\ part' \/ (b + n # 0 /\ \A i \in 1 .. q : ends[i] # cutAt')
    OBVIOUS
  <2>1. /\ n # w /\ cutAt' = ReadEnd(n)
        /\ part' \/ (n # 0 /\ ~\E i \in 1 .. q : ends[i] = ReadEnd(n))
    BY <1>3 DEF w
  <2>2. n # 0 => b + n # 0
    BY ONLY <1>3, <1>8
  <2> QED
    BY <1>11, <2>1, <2>2
<1>14. StreamLen' = StreamLen
  BY DEF StreamLen
<1>15. Follows(s, fin, base)'
  BY <1>2, <1>7, <1>9, <1>10, <1>12, <1>13, <1>14 DEF Follows, d, q
<1>16. Agrees'
  BY DEF InStep, Agrees
<1> QED
  BY <1>15, <1>16 DEF InStep

\* A read keeps the types.
LEMMA ReadTyped ==
    ASSUME Typed, NEW n \in 0 .. Len(wire), NEW x \in Seq(Elements), buffer' = buffer \o SubSeq(wire, 1, n), wire' = x,
           reading' = TRUE, part' \in BOOLEAN, sent' = sent, dispatched' = dispatched, ends' = ends, conn' = conn,
           cutAt' \in {cutAt, ReadEnd(n)}, ReadEnd(n) \in Nat \/ cutAt' = cutAt
    PROVE  Typed'
<1>1. buffer \in Seq(Elements) /\ wire \in Seq(Elements)
  BY DEF Typed
<1>2. SubSeq(wire, 1, n) \in Seq(Elements)
  BY ONLY <1>1, n \in 0 .. Len(wire), SubSeqProperties
<1>3. buffer' \in Seq(Elements)
  BY <1>1, <1>2, ConcatProperties
<1> QED
  BY <1>3 DEF Typed

\* A read, out of step or in step.
LEMMA ReadInv ==
    ASSUME PlainRequests, IInv, conn = "open", ~reading, NEW n \in 0 .. Len(wire), NEW x \in Seq(Elements),
           buffer' = buffer \o SubSeq(wire, 1, n), wire' = x, reading' = TRUE, part' \in BOOLEAN,
           sent' = sent, dispatched' = dispatched, ends' = ends, conn' = conn,
           cutAt # NoCut => cutAt' = cutAt,
           cutAt = NoCut =>
              \/ /\ n # 0 /\ cutAt' = NoCut /\ part' = part /\ x = SubSeq(wire, n + 1, Len(wire))
                 /\ \E i \in DOMAIN ends : ends[i] = ReadEnd(n)
              \/ /\ n # Len(wire) /\ cutAt' = ReadEnd(n)
                 /\ part' \/ (n # 0 /\ ~\E i \in DOMAIN ends : ends[i] = ReadEnd(n))
    PROVE  IInv'
<1>1. Typed /\ Kept /\ (InStep \/ OutOfStep)
  BY DEF IInv, ClosedWhenCut
<1>2. InStep => cutAt = NoCut
  BY DEF InStep, Follows
<1>3. ASSUME InStep PROVE ReadEnd(n) \in Nat
  <2>1. PICK s, fin, base : Follows(s, fin, base)
    BY <1>3 DEF InStep
  <2>2. s = buffer \o wire /\ StreamLen = base + Len(s) /\ base \in Nat
    BY <1>2, <1>3, <2>1 DEF Follows
  <2>3. buffer \in Seq(Elements) /\ wire \in Seq(Elements)
    BY <1>1 DEF Typed
  <2>4. Len(s) = Len(buffer) + Len(wire) /\ Len(buffer) \in Nat /\ Len(wire) \in Nat
    BY ONLY <2>2, <2>3, ConcatProperties, LenProperties
  <2>5. n \in Nat
    BY <2>4
  <2>6. base + (Len(buffer) + Len(wire)) - Len(wire) + n \in Nat
    BY ONLY <2>2, <2>4, <2>5
  <2> QED
    BY <2>2, <2>4, <2>6 DEF ReadEnd
<1>4. Typed'
  BY <1>1, <1>2, <1>3, ReadTyped DEF OutOfStep
<1>5. ASSUME InStep PROVE InStep' /\ Kept'
  <2>1. InStep'
    BY <1>1, <1>2, <1>5, ReadInStep
  <2>2. Agrees'
    BY <2>1 DEF InStep
  <2> QED
    BY <1>4, <2>1, <2>2, InStepKeptNext
<1>6. ASSUME OutOfStep PROVE OutOfStep' /\ Kept'
  <2>1. Len(sent) <= Len(sent') /\ Len(dispatched) <= Len(dispatched')
    BY <1>1, Types
  <2>2. cutAt' = cutAt
    BY <1>6 DEF OutOfStep
  <2> QED
    BY <1>1, <1>4, <1>6, <2>1, <2>2, OutOfStepStays
<1> QED
  BY <1>1, <1>4, <1>5, <1>6 DEF IInv, ClosedWhenCut

\* haze_on_read is called with whole elements.
LEMMA OnReadInv ==
    ASSUME PlainRequests, IInv, NEW n \in 1 .. Len(wire), OnRead(n)
    PROVE  IInv'
<1> DEFINE x == SubSeq(wire, n + 1, Len(wire))
<1>1. /\ conn = "open" /\ ~reading /\ buffer' = buffer \o SubSeq(wire, 1, n) /\ wire' = x /\ reading' = TRUE
      /\ part' = part /\ sent' = sent /\ dispatched' = dispatched /\ ends' = ends /\ conn' = conn
      /\ cutAt' = IF cutAt # NoCut \/ \E i \in DOMAIN ends : ends[i] = ReadEnd(n) THEN cutAt ELSE ReadEnd(n)
  BY DEF OnRead
<1>2. Typed /\ wire \in Seq(Elements) /\ Len(wire) \in Nat /\ part \in BOOLEAN
  BY Types DEF IInv, Typed
<1>3. n \in 0 .. Len(wire) /\ n # 0
  BY <1>2
<1>4. x \in Seq(Elements)
  BY ONLY <1>2, n \in 1 .. Len(wire), SubSeqProperties
<1> HIDE DEF x
<1>5. ASSUME cutAt = NoCut, ~(\E i \in DOMAIN ends : ends[i] = ReadEnd(n)) PROVE n # Len(wire)
  <2> SUFFICES ASSUME n = Len(wire) PROVE FALSE
    OBVIOUS
  <2>1. PICK s, fin, base : Follows(s, fin, base)
    BY <1>1, <1>5 DEF IInv, ClosedWhenCut, InStep, OutOfStep
  <2>2. /\ s = buffer \o wire /\ StreamLen = base + Len(s) /\ base \in Nat
        /\ Framed(s, sent, Len(dispatched), fin) /\ Len(dispatched) <= Len(sent)
    BY <1>5, <2>1 DEF Follows
  <2>3. buffer \in Seq(Elements)
    BY <1>2 DEF Typed
  <2>4. Len(s) = Len(buffer) + Len(wire) /\ Len(buffer) \in Nat
    BY ONLY <1>2, <2>2, <2>3, ConcatProperties, LenProperties
  <2>5. Len(s) # 0
    BY ONLY <1>2, <1>3, <2>4
  <2>6. Len(dispatched) # Len(sent)
    BY <2>2, <2>5 DEF Framed
  <2>7. Len(sent) \in Nat /\ Len(dispatched) \in Nat /\ StreamLen \in Nat /\ DOMAIN ends = 1 .. Len(sent) /\ Len(ends) = Len(sent)
    BY <1>2, Types DEF Typed
  <2>8. Len(sent) \in 1 .. Len(sent)
    BY ONLY <2>2, <2>6, <2>7
  <2>9. ends # <<>>
    BY <2>7, <2>8
  <2>10. StreamLen = ends[Len(sent)]
    BY <2>7, <2>9 DEF StreamLen
  <2>11. ReadEnd(n) = StreamLen
    BY <1>2, <2>7 DEF ReadEnd
  <2> QED
    BY <1>5, <2>7, <2>8, <2>10, <2>11
<1>6. cutAt = NoCut =>
         \/ /\ n # 0 /\ cutAt' = NoCut /\ part' = part /\ x = SubSeq(wire, n + 1, Len(wire))
            /\ \E i \in DOMAIN ends : ends[i] = ReadEnd(n)
         \/ /\ n # Len(wire) /\ cutAt' = ReadEnd(n)
            /\ part' \/ (n # 0 /\ ~\E i \in DOMAIN ends : ends[i] = ReadEnd(n))
  BY <1>1, <1>3, <1>5 DEF x
<1> QED
  BY <1>1, <1>2, <1>3, <1>4, <1>6, ReadInv

\* It is called with a piece of an element at the end.
LEMMA OnReadInsideInv ==
    ASSUME PlainRequests, IInv, NEW n \in 0 .. Len(wire) - 1, NEW rest \in Rests, OnReadInside(n, rest)
    PROVE  IInv'
<1> DEFINE x == rest \o SubSeq(wire, n + 2, Len(wire))
<1>1. /\ conn = "open" /\ ~reading /\ buffer' = buffer \o SubSeq(wire, 1, n) /\ wire' = x /\ reading' = TRUE
      /\ part' = TRUE /\ sent' = sent /\ dispatched' = dispatched /\ ends' = ends /\ conn' = conn
      /\ cutAt' = IF cutAt # NoCut THEN cutAt ELSE ReadEnd(n)
  BY DEF OnReadInside
<1>2. wire \in Seq(Elements) /\ Len(wire) \in Nat /\ Typed
  BY Types DEF IInv, Typed
<1>3. n \in 0 .. Len(wire) /\ n # Len(wire) /\ n + 2 \in 1 .. Len(wire) + 1
  BY <1>2
<1>4. SubSeq(wire, n + 2, Len(wire)) \in Seq(Elements) /\ rest \in Seq(Elements)
  <2>1. SubSeq(wire, n + 2, Len(wire)) \in Seq(Elements)
    BY ONLY <1>2, <1>3, SubSeqProperties
  <2> QED
    BY <2>1, RequestsAssumption
<1>5. x \in Seq(Elements)
  BY <1>4, ConcatProperties
<1> HIDE DEF x
<1> QED
  BY <1>1, <1>3, <1>5, ReadInv

\* What RequestUnmarshal makes of any buffer it accepts.
LEMMA UnmarshalType ==
    ASSUME NEW b \in Seq(Elements), Envelope(b)
    PROVE  /\ RequestUnmarshal(b).request \in Dispatchable
           /\ RequestUnmarshal(b).consumed \in Nat
           /\ RequestUnmarshal(b).all \in BOOLEAN
<1>1. Len(b) \in Nat /\ Len(b) >= 6 /\ b[3].k = "int" /\ b[6].k = "arr"
  BY DEF Envelope
<1>2. 3 \in 1 .. Len(b) /\ 5 \in 1 .. Len(b) /\ 6 \in 1 .. Len(b)
  BY ONLY <1>1
<1>3. b[3] \in Elements /\ b[5] \in Elements /\ b[6] \in Elements
  BY <1>2, ElementOfSeq
<1>4. b[3].n \in Int /\ b[5].n \in Content /\ b[6].n \in Nat
  BY <1>1, <1>3, ElementParts
<1> DEFINE id == b[3].n % IdModulus
           s == ReadParams(b, b[6].n)
<1>5. id \in 0 .. IdModulus - 1
  <2> DEFINE m == b[3].n
  <2>1. m \in Int /\ IdModulus \in Nat \ {0}
    BY <1>4, RequestsAssumption
  <2> HIDE DEF m
  <2>2. m % IdModulus \in 0 .. IdModulus - 1
    BY ONLY <2>1
  <2> QED
    BY <2>2 DEF m
<1>6. s \in Reader
  <2> DEFINE count == b[6].n
  <2>1. count \in Nat
    BY <1>4
  <2> HIDE DEF count
  <2>2. PICK t : Rounds(t, b, count) /\ ReadParams(b, count) = t[count]
    BY <2>1, LoopRounds
  <2>3. t[count] \in Reader
    BY <2>1, <2>2 DEF Rounds
  <2> QED
    BY <2>2, <2>3 DEF count
<1>7. s.at \in Nat \ {0} /\ s.err \in BOOLEAN /\ s.params \in Seq(Value)
  BY <1>6 DEF Reader
<1> HIDE DEF s, id
<1>8. /\ RequestUnmarshal(b).request = [id |-> id, method |-> b[5].n, params |-> s.params]
      /\ RequestUnmarshal(b).consumed = IF s.err THEN Len(b) ELSE s.at - 1
      /\ RequestUnmarshal(b).all = s.err
  BY DEF RequestUnmarshal, s, id
<1>9. s.at - 1 \in Nat
  BY <1>7
<1> QED
  BY <1>1, <1>4, <1>5, <1>7, <1>8, <1>9 DEF Dispatchable

\* A round that dispatches a request keeps the types, and the requests
\* dispatched before it.
LEMMA TakeTyped ==
    ASSUME Typed, Dispatch, Envelope(buffer)
    PROVE  /\ Typed'
           /\ Len(dispatched') = Len(dispatched) + 1
           /\ \A i \in 1 .. Len(dispatched) : dispatched'[i] = dispatched[i]
           /\ dispatched'[Len(dispatched) + 1] = RequestUnmarshal(buffer).request
<1> DEFINE u == RequestUnmarshal(buffer)
           d == Len(dispatched)
<1>1. /\ buffer \in Seq(Elements) /\ dispatched \in Seq(Dispatchable) /\ part \in BOOLEAN
  BY DEF Typed
<1>2. u.request \in Dispatchable /\ u.consumed \in Nat /\ u.all \in BOOLEAN
  BY <1>1, UnmarshalType
<1>3. /\ dispatched' = Append(dispatched, u.request) /\ buffer' = SubSeq(buffer, u.consumed + 1, Len(buffer))
      /\ part' = (part /\ ~u.all) /\ conn' = conn /\ reading' = reading
      /\ sent' = sent /\ wire' = wire /\ ends' = ends /\ cutAt' = cutAt
  BY DEF Dispatch, Take
<1> HIDE DEF u
<1>4. /\ dispatched' \in Seq(Dispatchable) /\ Len(dispatched') = d + 1
      /\ \A i \in 1 .. d : dispatched'[i] = dispatched[i]
      /\ dispatched'[d + 1] = u.request
  BY ONLY <1>1, <1>2, <1>3, AppendProperties
<1>5. buffer' \in Seq(Elements)
  <2> DEFINE m == u.consumed
  <2>1. m \in Nat /\ Len(buffer) \in Nat
    BY <1>1, <1>2
  <2> HIDE DEF m
  <2>2. CASE m + 1 <= Len(buffer)
    <3>1. m + 1 \in 1 .. Len(buffer) /\ Len(buffer) \in 1 .. Len(buffer)
      BY ONLY <2>1, <2>2
    <3>2. SubSeq(buffer, m + 1, Len(buffer)) \in Seq(Elements)
      BY ONLY <1>1, <2>1, <3>1, SubSeqProperties
    <3> QED
      BY <1>3, <3>2 DEF m
  <2>3. CASE ~(m + 1 <= Len(buffer))
    <3>1. m + 1 \in Int /\ Len(buffer) \in Int /\ m + 1 > Len(buffer)
      BY ONLY <2>1, <2>3
    <3>2. SubSeq(buffer, m + 1, Len(buffer)) = <<>>
      BY ONLY <1>1, <3>1, SubSeqEmpty
    <3>3. <<>> \in Seq(Elements)
      OBVIOUS
    <3>4. buffer' = <<>>
      BY <1>3, <3>2 DEF m
    <3> QED
      BY ONLY <3>3, <3>4
  <2> QED
    BY <2>2, <2>3
<1>6. part' \in BOOLEAN
  BY <1>1, <1>2, <1>3
<1>7. Typed'
  BY <1>3, <1>4, <1>5, <1>6 DEF Typed
<1> QED
  BY <1>4, <1>7 DEF u

\* A round that closes the connection.
LEMMA CloseInv ==
    ASSUME IInv, Dispatch, ~Envelope(buffer), cutAt # NoCut
    PROVE  IInv'
<1>1. /\ conn' = "closed" /\ reading' = FALSE /\ dispatched' = dispatched /\ buffer' = buffer /\ part' = part
      /\ sent' = sent /\ wire' = wire /\ ends' = ends /\ cutAt' = cutAt
  BY DEF Dispatch
<1>2. Typed'
  BY <1>1 DEF IInv, Typed
<1>3. Kept'
  BY <1>1 DEF IInv, Kept, Promised, Whole, CutOne
<1>4. ClosedWhenCut'
  BY <1>1 DEF ClosedWhenCut
<1> QED
  BY <1>2, <1>3, <1>4 DEF IInv

\* A round out of step.
LEMMA DispatchOutOfStep ==
    ASSUME PlainRequests, IInv, Dispatch, conn = "open", OutOfStep
    PROVE  IInv'
<1>1. CASE ~Envelope(buffer)
  BY <1>1, CloseInv DEF OutOfStep
<1>2. CASE Envelope(buffer)
  <2>1. conn' = conn /\ sent' = sent /\ ends' = ends /\ cutAt' = cutAt
    BY <1>2 DEF Dispatch
  <2>2. /\ Typed' /\ Len(dispatched') = Len(dispatched) + 1
        /\ \A i \in 1 .. Len(dispatched) : dispatched'[i] = dispatched[i]
    BY <1>2, TakeTyped DEF IInv
  <2>3. Len(sent) <= Len(sent') /\ Len(dispatched) <= Len(dispatched')
    BY <2>1, <2>2, Types DEF IInv
  <2>4. Kept' /\ OutOfStep'
    BY <2>1, <2>2, <2>3, OutOfStepStays DEF IInv
  <2> QED
    BY <2>1, <2>2, <2>4 DEF IInv, ClosedWhenCut
<1> QED
  BY <1>1, <1>2

\* In step, the buffer starts with the next request, if there is one; before
\* any cut it holds the whole of it.
LEMMA InStepFront ==
    ASSUME PlainRequests, Typed, NEW s, NEW fin, NEW base, Follows(s, fin, base), buffer # <<>> \/ part
    PROVE  LET d == Len(dispatched)
           IN  /\ d < Len(sent)
               /\ sent[d + 1] \in Requests
               /\ fin[d + 1] = Size(sent[d + 1])
               /\ ends[d + 1] = base + Size(sent[d + 1])
               /\ Size(sent[d + 1]) <= Len(s)
               /\ Starts(buffer, Encode(sent[d + 1]))
               /\ Len(buffer) < Size(sent[d + 1]) => cutAt # NoCut
<1> DEFINE d == Len(dispatched)
           b == Len(buffer)
           q == Len(sent)
           c == Size(sent[d + 1])
<1>1. /\ d \in Nat /\ q \in Nat /\ b \in Nat /\ sent \in Seq(Requests)
      /\ s \in Seq(Elements) /\ d <= q /\ Framed(s, sent, d, fin) /\ b <= Len(s) /\ Len(s) \in Nat
      /\ (\A j \in 1 .. b : buffer[j] = s[j])
      /\ (\A i \in d + 1 .. q : ends[i] = base + fin[i])
  BY Types DEF Follows, Typed
<1>2. Len(s) # 0
  <2>1. CASE cutAt # NoCut
    <3>1. b < Len(s)
      BY <2>1 DEF Follows
    <3> QED
      BY ONLY <1>1, <3>1
  <2>2. CASE cutAt = NoCut
    <3>1. buffer # <<>>
      BY <2>2 DEF Follows
    <3>2. b # 0
      BY <3>1, EmptySeq DEF Typed
    <3> QED
      BY ONLY <1>1, <3>2
  <2> QED
    BY <2>1, <2>2
<1>3. d # q
  BY <1>1, <1>2 DEF Framed
<1>4. d < q /\ d + 1 \in d + 1 .. q
  BY ONLY <1>1, <1>3
<1>5. /\ sent[d + 1] \in Requests
      /\ fin[d + 1] = c
      /\ c <= Len(s)
      /\ \A j \in 1 .. c : s[j] = Encode(sent[d + 1])[j]
  <2>1. Framed(s, sent, d, fin) /\ d < Len(sent)
    BY <1>1, <1>4
  <2> HIDE DEF d
  <2> QED
    BY <1>1, <2>1, FrontRequest
<1>6. c \in Nat /\ c >= 6
  BY <1>5, SizeOfRequest
<1>7. Starts(buffer, Encode(sent[d + 1]))
  <2> SUFFICES ASSUME NEW j \in 1 .. b, j <= c
               PROVE  buffer[j] = Encode(sent[d + 1])[j]
    BY DEF Starts, Size
  <2> HIDE DEF c, b
  <2>1. j \in 1 .. c
    BY ONLY <1>1, <1>6, j \in 1 .. b, j <= c
  <2> QED
    BY <1>1, <1>5, <2>1
<1>8. ASSUME b < c, cutAt = NoCut PROVE FALSE
  <2>1. buffer # <<>> /\ \E i \in d .. q : fin[i] = b
    BY <1>8 DEF Follows
  <2>2. PICK i \in d .. q : fin[i] = b
    BY <2>1
  <2>3. b # 0
    BY <2>1, EmptySeq DEF Typed
  <2>4. fin[d] = 0 /\ \A k \in d .. q, j \in d .. q : k <= j => fin[k] <= fin[j]
    BY <1>1 DEF Framed
  <2>5. i # d
    BY <2>2, <2>3, <2>4
  <2>6. d + 1 \in d .. q /\ d + 1 <= i
    BY ONLY <1>1, <2>2, <2>5, i \in d .. q
  <2>7. fin[d + 1] <= fin[i]
    BY <2>4, <2>6
  <2>8. c <= b
    BY <1>5, <2>2, <2>7
  <2> HIDE DEF b, c
  <2> QED
    BY ONLY <1>1, <1>6, <1>8, <2>8
<1>9. ends[d + 1] = base + c
  BY <1>1, <1>4, <1>5
<1> QED
  BY <1>4, <1>5, <1>7, <1>8, <1>9

\* A sequence without its first c elements.
LEMMA DropFront ==
    ASSUME NEW x \in Seq(Elements), NEW c \in Nat, c <= Len(x)
    PROVE  /\ SubSeq(x, c + 1, Len(x)) \in Seq(Elements)
           /\ Len(SubSeq(x, c + 1, Len(x))) = Len(x) - c
           /\ \A j \in 1 .. Len(x) - c : SubSeq(x, c + 1, Len(x))[j] = x[c + j]
<1> DEFINE l == Len(x)
<1>1. l \in Nat
  OBVIOUS
<1>2. c + 1 \in 1 .. l + 1 /\ l \in c + 1 - 1 .. l /\ c + 1 - 1 = c
  BY <1>1
<1>3. /\ SubSeq(x, c + 1, l) \in Seq(Elements)
      /\ Len(SubSeq(x, c + 1, l)) = l - (c + 1) + 1
      /\ \A j \in 1 .. l - (c + 1) + 1 : SubSeq(x, c + 1, l)[j] = x[c + 1 + j - 1]
  BY <1>1, <1>2, SubSeqProperties
<1> HIDE DEF l
<1>4. l - (c + 1) + 1 = l - c /\ \A j \in 1 .. l - c : c + 1 + j - 1 = c + j
  BY <1>1
<1> QED
  BY <1>3, <1>4 DEF l

\* A round in step that finds the next request whole.
LEMMA DispatchWhole ==
    ASSUME PlainRequests, Typed, Typed', Agrees, NEW s, NEW fin, NEW base, Follows(s, fin, base),
           Len(dispatched) < Len(sent), NEW c, c = Size(sent[Len(dispatched) + 1]), c \in Nat, c <= Len(buffer),
           c # 0, fin[Len(dispatched) + 1] = c, c <= Len(s), part' = part,
           dispatched' = Append(dispatched, sent[Len(dispatched) + 1]), Len(dispatched') = Len(dispatched) + 1,
           buffer' = SubSeq(buffer, c + 1, Len(buffer)),
           sent' = sent, wire' = wire, ends' = ends, cutAt' = cutAt, reading' = reading
    PROVE  InStep'
<1> DEFINE d == Len(dispatched)
           b == Len(buffer)
           q == Len(sent)
           w == Len(wire)
           t == SubSeq(s, c + 1, Len(s))
           l == Len(s)
<1>1. /\ d \in Nat /\ q \in Nat /\ b \in Nat /\ w \in Nat /\ sent \in Seq(Requests)
      /\ buffer \in Seq(Elements) /\ wire \in Seq(Elements)
      /\ s \in Seq(Elements) /\ base \in Nat /\ l \in Nat /\ Framed(s, sent, d, fin) /\ b <= l
      /\ (\A j \in 1 .. b : buffer[j] = s[j])
      /\ StreamLen = base + l
      /\ (\A i \in 1 .. q : i <= d => ends[i] <= base)
      /\ (\A i \in d + 1 .. q : ends[i] = base + fin[i])
      /\ \A i \in 1 .. q : ends[i] \in Nat
  <2>1. /\ d \in Nat /\ q \in Nat /\ b \in Nat /\ w \in Nat /\ sent \in Seq(Requests)
        /\ buffer \in Seq(Elements) /\ wire \in Seq(Elements) /\ \A i \in 1 .. q : ends[i] \in Nat
    BY Types DEF Typed
  <2>2. /\ s \in Seq(Elements) /\ base \in Nat /\ Framed(s, sent, d, fin) /\ b <= l
        /\ (\A j \in 1 .. b : buffer[j] = s[j])
        /\ StreamLen = base + l
        /\ (\A i \in 1 .. q : i <= d => ends[i] <= base)
        /\ (\A i \in d + 1 .. q : ends[i] = base + fin[i])
    BY DEF Follows
  <2>3. l \in Nat
    BY ONLY <2>2, LenProperties
  <2> QED
    BY <2>1, <2>2, <2>3
<1>a. /\ c \in Nat /\ c # 0 /\ c <= b /\ c <= l /\ b <= l /\ b \in Nat /\ l \in Nat /\ w \in Nat /\ base \in Nat
      /\ d \in Nat /\ q \in Nat /\ d < q
  BY <1>1
<1>2. /\ buffer' \in Seq(Elements) /\ Len(buffer') = b - c
      /\ \A j \in 1 .. b - c : buffer'[j] = buffer[c + j]
  BY ONLY <1>1, c \in Nat, c <= Len(buffer), buffer' = SubSeq(buffer, c + 1, Len(buffer)), DropFront
<1>3. /\ t \in Seq(Elements) /\ Len(t) = l - c
      /\ \A j \in 1 .. l - c : t[j] = s[c + j]
  BY ONLY <1>1, c \in Nat, c <= Len(s), DropFront
<1> HIDE DEF t, l, b, w
<1>4. PICK f : Framed(t, sent, d + 1, f) /\ \A i \in d + 1 .. q : f[i] = fin[i] - c
  <2>1. Len(t) = Len(s) - Size(sent[d + 1]) /\ \A j \in 1 .. Len(t) : t[j] = s[Size(sent[d + 1]) + j]
    BY <1>3 DEF l
  <2>2. d \in Nat /\ d < Len(sent) /\ Framed(s, sent, d, fin) /\ c = Size(sent[d + 1])
    BY <1>1
  <2> HIDE DEF d
  <2>3. s \in Seq(Elements) /\ sent \in Seq(Requests) /\ t \in Seq(Elements)
    BY <1>1, <1>3
  <2>4. \E f : Framed(t, sent, d + 1, f) /\ \A i \in d + 1 .. Len(sent) : f[i] = fin[i] - Size(sent[d + 1])
    BY ONLY PlainRequests, <2>1, <2>2, <2>3, FramedDrop
  <2> QED
    BY <2>2, <2>4
<1>5. Agrees'
  <2> SUFFICES ASSUME NEW i \in 1 .. d + 1 PROVE dispatched'[i] = sent[i]
    BY DEF Agrees
  <2>1. dispatched \in Seq(Dispatchable) /\ dispatched' \in Seq(Dispatchable)
    BY DEF Typed
  <2>2. (\A j \in 1 .. d : dispatched'[j] = dispatched[j]) /\ dispatched'[d + 1] = sent[d + 1]
    <3> DEFINE r == sent[d + 1]
               x == Append(dispatched, r)
    <3>1. x = dispatched'
      OBVIOUS
    <3>2. dispatched \in Seq(Dispatchable \union {r}) /\ r \in Dispatchable \union {r}
      BY <2>1
    <3> HIDE DEF r
    <3>3. (\A j \in 1 .. d : x[j] = dispatched[j]) /\ x[d + 1] = r
      BY ONLY <3>2, AppendProperties
    <3> QED
      BY <3>1, <3>3 DEF r
  <2>3. i = d + 1 \/ i \in 1 .. d
    BY <1>1
  <2> QED
    BY <2>2, <2>3 DEF Agrees
<1>6. \A i \in d + 1 .. q : fin[i] \in Nat
  <2>1. \A i \in d + 1 .. q : i \in d .. q
    BY <1>1
  <2> QED
    BY <1>1, <2>1 DEF Framed
<1>7. \A i \in 1 .. q : i <= d + 1 => ends[i] <= base + c
  <2> SUFFICES ASSUME NEW i \in 1 .. q, i <= d + 1 PROVE ends[i] <= base + c
    OBVIOUS
  <2>1. CASE i <= d
    <3>1. ends[i] <= base /\ ends[i] \in Nat
      BY <1>1, <2>1
    <3> QED
      BY ONLY <1>a, <3>1
  <2>2. CASE i = d + 1
    <3>1. d + 1 \in d + 1 .. q
      BY <1>1
    <3>2. ends[i] = base + c
      BY <1>1, <2>2, <3>1
    <3> QED
      BY <1>1, <3>2
  <2>3. i <= d \/ i = d + 1
    BY ONLY <1>1, i \in 1 .. q, i <= d + 1
  <2> QED
    BY <2>1, <2>2, <2>3
<1>8. \A i \in d + 1 + 1 .. q : ends[i] = base + c + f[i]
  <2> SUFFICES ASSUME NEW i \in d + 1 + 1 .. q PROVE ends[i] = base + c + f[i]
    OBVIOUS
  <2>1. i \in d + 1 .. q
    BY <1>1
  <2> DEFINE x == fin[i]
  <2>2. ends[i] = base + x /\ f[i] = x - c /\ x \in Nat
    BY <1>1, <1>4, <1>6, <2>1
  <2> HIDE DEF x
  <2>3. base + x = base + c + (x - c)
    BY ONLY <1>a, <2>2
  <2> QED
    BY <2>2, <2>3
<1>9. StreamLen' = base + c + Len(t)
  <2>1. StreamLen' = StreamLen
    BY DEF StreamLen
  <2>2. base + l = base + c + (l - c)
    BY <1>1
  <2> QED
    BY <1>1, <1>3, <2>1, <2>2
<1>10. b - c <= l - c /\ (b < l => b - c < l - c)
  BY ONLY <1>a
<1>11. \A j \in 1 .. b - c : buffer'[j] = t[j]
  <2> SUFFICES ASSUME NEW j \in 1 .. b - c PROVE buffer'[j] = t[j]
    OBVIOUS
  <2>1. j \in 1 .. l - c /\ c + j \in 1 .. b
    BY ONLY <1>a, j \in 1 .. b - c
  <2> QED
    BY <1>1, <1>2, <1>3, <2>1
<1>12. ASSUME cutAt = NoCut
       PROVE  ~part /\ t = buffer' \o wire /\ \E i \in d + 1 .. q : f[i] = b - c
  <2>1. ~part /\ s = buffer \o wire /\ \E i \in d .. q : fin[i] = b
    BY <1>12 DEF Follows, b
  <2>2. PICK i \in d .. q : fin[i] = b
    BY <2>1
  <2>3. fin[d] = 0 /\ b # 0
    BY <1>1 DEF Framed, b
  <2>4. i \in d + 1 .. q
    <3>1. i # d
      BY <2>2, <2>3
    <3> QED
      BY ONLY <1>1, <3>1, i \in d .. q
  <2>5. f[i] = b - c
    BY <1>4, <2>2, <2>4
  <2>6. /\ Len(buffer' \o wire) = b - c + w /\ buffer' \o wire \in Seq(Elements)
        /\ \A j \in 1 .. b - c + w : (buffer' \o wire)[j] = IF j <= b - c THEN buffer'[j] ELSE wire[j - (b - c)]
    <3>1. /\ Len(buffer' \o wire) = Len(buffer') + Len(wire) /\ buffer' \o wire \in Seq(Elements)
          /\ \A j \in 1 .. Len(buffer') + Len(wire) :
                (buffer' \o wire)[j] = IF j <= Len(buffer') THEN buffer'[j] ELSE wire[j - Len(buffer')]
      BY ONLY <1>1, <1>2, ConcatProperties
    <3> QED
      BY <1>2, <3>1 DEF w
  <2>7. /\ l = b + w
        /\ \A j \in 1 .. b + w : s[j] = IF j <= b THEN buffer[j] ELSE wire[j - b]
    <3>1. /\ Len(buffer \o wire) = Len(buffer) + Len(wire)
          /\ \A j \in 1 .. Len(buffer) + Len(wire) :
                (buffer \o wire)[j] = IF j <= Len(buffer) THEN buffer[j] ELSE wire[j - Len(buffer)]
      BY ONLY <1>1, ConcatProperties
    <3> QED
      BY <2>1, <3>1 DEF w, b, l
  <2>8. l - c = b - c + w
    BY ONLY <1>1, <2>7, c \in Nat
  <2>9. ASSUME NEW j \in 1 .. b - c + w PROVE t[j] = (buffer' \o wire)[j]
    <3> DEFINE k == c + j
    <3>1. j \in 1 .. l - c
      BY <2>8
    <3>2. k \in 1 .. b + w /\ (k <= b <=> j <= b - c) /\ k - b = j - (b - c)
      BY ONLY <1>a, j \in 1 .. b - c + w
    <3>3. t[j] = s[k]
      BY <1>3, <3>1
    <3> HIDE DEF k
    <3>4. CASE j <= b - c
      <4>1. j \in 1 .. b - c
        BY <1>1, <3>4
      <4> QED
        BY <1>11, <2>6, <3>4, <4>1
    <3>5. CASE ~(j <= b - c)
      <4>1. s[k] = wire[k - b]
        BY <2>7, <3>2, <3>5
      <4>2. (buffer' \o wire)[j] = wire[j - (b - c)]
        BY <2>6, <3>5
      <4> QED
        BY <3>2, <3>3, <4>1, <4>2
    <3> QED
      BY <3>4, <3>5
  <2>10. t = buffer' \o wire
    <3> DEFINE v == buffer' \o wire
    <3>1. v \in Seq(Elements) /\ Len(v) = Len(t) /\ \A j \in 1 .. Len(t) : t[j] = v[j]
      BY <1>3, <2>6, <2>8, <2>9
    <3> HIDE DEF v
    <3>2. t = v
      BY ONLY <1>3, <3>1, SeqEqual
    <3> QED
      BY <3>2 DEF v
  <2> QED
    BY <2>1, <2>4, <2>5, <2>10
<1>13. ASSUME cutAt # NoCut
       PROVE  /\ reading /\ cutAt = base + c + (b - c) /\ b < l
              /\ part \/ (b - c # 0 /\ \A i \in 1 .. q : ends[i] # cutAt)
  <2>1. /\ reading /\ cutAt = base + b /\ b < l
        /\ part \/ (b # 0 /\ \A i \in 1 .. q : ends[i] # cutAt)
    BY <1>13 DEF Follows, b, l
  <2>2. base + b = base + c + (b - c) /\ (b - c = 0 => base + c = base + b)
    BY ONLY <1>a
  <2>3. d + 1 \in 1 .. q /\ d + 1 \in d + 1 .. q
    BY ONLY <1>a
  <2>4. ends[d + 1] = base + c
    BY <1>1, <2>3
  <2> QED
    BY <2>1, <2>2, <2>3, <2>4
<1>14. base + c \in Nat /\ d + 1 <= q
  BY ONLY <1>a
<1>15. Follows(t, f, base + c)'
  BY <1>2, <1>3, <1>4, <1>7, <1>8, <1>9, <1>10, <1>11, <1>12, <1>13, <1>14 DEF Follows
<1> QED
  BY <1>5, <1>15 DEF InStep

\* A round in step.
LEMMA DispatchInStep ==
    ASSUME PlainRequests, IInv, Dispatch, conn = "open", InStep
    PROVE  IInv'
<1> DEFINE d == Len(dispatched)
           r == sent[d + 1]
           b == Len(buffer)
           c == Size(r)
           u == RequestUnmarshal(buffer)
<1>1. PICK s, fin, base : Follows(s, fin, base)
  BY DEF InStep
<1>2. Typed /\ Agrees /\ (buffer # <<>> \/ part)
  BY DEF IInv, InStep, Dispatch
<1>3. /\ d < Len(sent) /\ r \in Requests /\ fin[d + 1] = c /\ ends[d + 1] = base + c /\ c <= Len(s)
      /\ Starts(buffer, Encode(r)) /\ (b < c => cutAt # NoCut)
  BY <1>1, <1>2, InStepFront
<1>4. /\ d \in Nat /\ b \in Nat /\ Len(sent) \in Nat /\ c \in Nat /\ c >= 6 /\ buffer \in Seq(Elements) /\ base \in Nat
  BY <1>1, <1>2, <1>3, Types, SizeOfRequest DEF Typed, Follows
<1>5. /\ Envelope(buffer) <=> b >= 6
      /\ b >= 6 => /\ u.request.id = r.id /\ u.request.method = r.method
                   /\ Len(u.request.params) = Len(r.params)
                   /\ u.request \in [id : 0 .. IdModulus - 1, method : Methods, params : Seq(Params)]
      /\ b >= c => u.request = r /\ u.consumed = c /\ ~u.all
  BY <1>3, <1>4, Unmarshal DEF Size
<1>6. CASE ~(b >= 6)
  <2>1. b < c
    BY <1>4, <1>6
  <2> QED
    BY <1>3, <1>5, <1>6, <2>1, CloseInv
<1>7. ASSUME b >= 6
      PROVE  /\ dispatched' = Append(dispatched, u.request) /\ buffer' = SubSeq(buffer, u.consumed + 1, b)
             /\ part' = (part /\ ~u.all) /\ conn' = conn /\ reading' = reading
             /\ sent' = sent /\ wire' = wire /\ ends' = ends /\ cutAt' = cutAt
             /\ Typed' /\ Len(dispatched') = d + 1
             /\ (\A i \in 1 .. d : dispatched'[i] = dispatched[i]) /\ dispatched'[d + 1] = u.request
  BY <1>2, <1>5, <1>7, TakeTyped DEF Dispatch, Take
<1>8. CASE b >= 6 /\ b < c
  <2>1. /\ Typed' /\ Len(dispatched') = d + 1 /\ sent' = sent /\ ends' = ends /\ cutAt' = cutAt /\ conn' = conn
        /\ (\A i \in 1 .. d : dispatched'[i] = dispatched[i]) /\ dispatched'[d + 1] = u.request
    BY <1>7, <1>8
  <2>2. cutAt # NoCut /\ cutAt = base + b /\ \A i \in 1 .. Len(sent) : i <= d => ends[i] <= base
    BY <1>1, <1>3, <1>8 DEF Follows
  <2>3. \A i \in 1 .. d : i \in 1 .. Len(sent) /\ dispatched[i] = sent[i] /\ ends[i] <= base /\ ends[i] \in Nat
    <3>1. \A i \in 1 .. d : i \in 1 .. Len(sent) /\ i <= d
      BY <1>3, <1>4
    <3> QED
      BY <1>2, <2>2, <3>1, Types DEF Agrees
  <2> HIDE DEF d, b, c, u
  <2>4. ends[d + 1] > cutAt /\ d + 1 \in 1 .. Len(sent) /\ d + 1 <= d + 1
    BY <1>3, <1>4, <1>8, <2>2 DEF d
  <2>5. OutOfStep'
    BY <2>1, <2>2, <2>4 DEF OutOfStep
  <2>6. \A i \in 1 .. d : Whole(i)'
    <3> SUFFICES ASSUME NEW i \in 1 .. d PROVE ends[i] <= cutAt
      BY <2>1 DEF Whole
    <3> QED
      BY <1>4, <2>2, <2>3
  <2>7. DOMAIN dispatched' = 1 .. d + 1
    <3>1. dispatched' \in Seq(Dispatchable)
      BY <2>1 DEF Typed
    <3> QED
      BY ONLY <2>1, <3>1, LenProperties
  <2>8. ASSUME NEW i \in 1 .. d + 1 PROVE Promised(i)'
    <3>1. CASE i = d + 1
      <4>1. ~(ends[d + 1] <= cutAt)
        BY <1>3, <1>4, <2>2, <2>4 DEF d, c
      <4>a. ~Whole(i)'
        BY <2>1, <2>2, <3>1, <4>1 DEF Whole
      <4>2. /\ u.request.id = r.id /\ u.request.method = r.method
            /\ Len(u.request.params) = Len(r.params)
            /\ u.request \in [id : 0 .. IdModulus - 1, method : Methods, params : Seq(Params)]
        BY <1>5, <1>8
      <4> QED
        BY <2>1, <3>1, <4>a, <4>2 DEF Promised, d
    <3>2. CASE i \in 1 .. d
      <4>1. Whole(i)'
        BY <2>6, <3>2
      <4>2. dispatched'[i] = sent'[i] /\ sent[i] \in Requests
        BY <1>2, <2>1, <2>3, <3>2, Types
      <4>3. sent[i] \in [id : 0 .. IdModulus - 1, method : Methods, params : Seq(Params)]
        BY <4>2, RequestType
      <4> QED
        BY <2>1, <4>1, <4>2, <4>3 DEF Promised, CutOne
    <3> QED
      BY <1>4, <3>1, <3>2
  <2>9. Kept'
    BY <2>7, <2>8 DEF Kept
  <2> QED
    BY <2>1, <2>5, <2>9 DEF IInv, ClosedWhenCut
<1>9. CASE b >= c
  <2>1. b >= 6 /\ c <= b /\ c # 0
    BY <1>4, <1>9
  <2>2. /\ dispatched' = Append(dispatched, r) /\ buffer' = SubSeq(buffer, c + 1, b)
        /\ part' = part /\ conn' = conn /\ reading' = reading
        /\ sent' = sent /\ wire' = wire /\ ends' = ends /\ cutAt' = cutAt
        /\ Typed' /\ Len(dispatched') = d + 1
    <3>1. u.request = r /\ u.consumed = c /\ ~u.all /\ part \in BOOLEAN
      BY <1>2, <1>5, <1>9 DEF Typed
    <3> QED
      BY <1>7, <2>1, <3>1
  <2>3. InStep'
    BY <1>1, <1>2, <1>3, <1>4, <2>1, <2>2, DispatchWhole
  <2>4. Kept'
    BY <2>2, <2>3, InStepKeptNext DEF InStep
  <2> QED
    BY <2>2, <2>3, <2>4 DEF IInv, ClosedWhenCut
<1> QED
  BY <1>4, <1>6, <1>8, <1>9

\* The end of a callback, and the steps that change nothing.
LEMMA QuietInv ==
    ASSUME IInv, ReadDone \/ Done \/ UNCHANGED vars
    PROVE  IInv'
<1>1. /\ sent' = sent /\ wire' = wire /\ buffer' = buffer /\ part' = part /\ dispatched' = dispatched
      /\ conn' = conn /\ ends' = ends /\ cutAt' = cutAt
      /\ (reading' = reading \/ (reading' = FALSE /\ buffer = <<>> /\ ~part))
  BY DEF ReadDone, Done, vars
<1>2. Typed' /\ Kept'
  BY <1>1 DEF IInv, Typed, Kept, Promised, Whole, CutOne
<1>3. OutOfStep => OutOfStep'
  BY <1>1 DEF OutOfStep
<1>4. CASE reading' = reading
  <2>1. ASSUME InStep PROVE InStep'
    <3>1. PICK s, fin, base : Follows(s, fin, base)
      BY <2>1 DEF InStep
    <3>2. Follows(s, fin, base)'
      BY <1>1, <1>4, <3>1 DEF Follows, StreamLen
    <3> QED
      BY <1>1, <2>1, <3>2 DEF InStep, Agrees
  <2> QED
    BY <1>1, <1>2, <1>3, <1>4, <2>1 DEF IInv, ClosedWhenCut
<1>5. CASE reading' = FALSE /\ buffer = <<>> /\ ~part
  <2>1. ASSUME InStep PROVE InStep'
    <3>1. PICK s, fin, base : Follows(s, fin, base)
      BY <2>1 DEF InStep
    <3>2. cutAt = NoCut
      BY <1>5, <3>1 DEF Follows
    <3>3. Follows(s, fin, base)'
      BY <1>1, <3>1, <3>2 DEF Follows, StreamLen
    <3> QED
      BY <1>1, <2>1, <3>3 DEF InStep, Agrees
  <2> QED
    BY <1>1, <1>2, <1>3, <1>5, <2>1 DEF IInv, ClosedWhenCut
<1> QED
  BY <1>1, <1>4, <1>5

\* Every step keeps the invariant.
LEMMA NextInv ==
    ASSUME PlainRequests, IInv, [Next]_vars
    PROVE  IInv'
<1>1. CASE \E r \in Requests : Send(r)
  BY <1>1, SendInv
<1>2. CASE Read
  BY <1>2, OnReadInv, OnReadInsideInv DEF Read
<1>3. CASE Dispatch
  <2>1. conn = "open" /\ (InStep \/ OutOfStep)
    BY <1>3 DEF IInv, ClosedWhenCut, Typed, Dispatch
  <2> QED
    BY <1>3, <2>1, DispatchInStep, DispatchOutOfStep
<1>4. CASE ReadDone \/ Done \/ UNCHANGED vars
  BY <1>4, QuietInv
<1> QED
  BY <1>1, <1>2, <1>3, <1>4 DEF Next

-----------------------------------------------------------------------------
\* The invariant holds in every reachable state.
THEOREM Invariance == PlainRequests => (Spec => []IInv)
<1> SUFFICES ASSUME PlainRequests PROVE Spec => []IInv
  OBVIOUS
<1>1. Init => IInv
  BY InitInv
<1>2. IInv /\ [Next]_vars => IInv'
  BY NextInv
<1> QED
  BY <1>1, <1>2, PTL DEF Spec

\* The variables of the stream keep their types: up to the request that TCP
\* first cuts, and that one too, RequestUnmarshal hands ServerDispatch a request.
THEOREM TypeCorrect == PlainRequests => (Spec => []TypeOK)
<1>1. IInv => TypeOK
  BY DEF IInv, Typed, Kept, Promised, TypeOK
<1> QED
  BY <1>1, Invariance, PTL

\* The loop of haze_on_read dispatches the requests as they were sent, in order
\* and on an open connection, as long as every read ends with a request, however
\* many it brings.
THEOREM WholeRequestsArrive == PlainRequests => (Spec => []WholeAsSent)
<1>1. IInv => WholeAsSent
  <2> SUFFICES ASSUME IInv, cutAt = NoCut PROVE DispatchedAsSent
    BY DEF WholeAsSent
  <2>1. conn = "open" /\ InStep
    BY DEF IInv, Typed, ClosedWhenCut, OutOfStep
  <2>2. Len(dispatched) <= Len(sent) /\ Agrees /\ DOMAIN dispatched = 1 .. Len(dispatched)
    BY <2>1, Types DEF InStep, Follows, IInv
  <2> QED
    BY <2>1, <2>2 DEF DispatchedAsSent, Agrees
<1> QED
  BY <1>1, Invariance, PTL

\* However TCP cuts the stream and whatever the rest of a cut element reads as,
\* the loop of haze_on_read dispatches the requests before the first cut as they
\* were sent, and of the one that was cut RequestUnmarshal gets the msgid, the
\* method and the number of parameters right, or nothing is dispatched for it.
THEOREM RightUpToCut == PlainRequests => (Spec => []AsSentUpToCut)
<1>1. IInv => AsSentUpToCut
  BY DEF IInv, Kept, Promised, AsSentUpToCut
<1> QED
  BY <1>1, Invariance, PTL

=============================================================================
