-------------------------- MODULE DispatcherProofs --------------------------
(***************************************************************************)
(* The invariants of SampleList, for all names and any number of imports,  *)
(* and then what a connection gets for its requests, for every set of      *)
(* connections, methods and names and any number of requests.              *)
(***************************************************************************)
EXTENDS Dispatcher, FiniteSetTheorems, SequenceTheorems, WellFoundedInduction, TLAPS

-----------------------------------------------------------------------------
(* The linear search and the removal of an element.                        *)

\* A search from the front stops at the least of its matches.
LEMMA LeastElement ==
    ASSUME NEW S, S \subseteq Nat, S # {}
    PROVE  \E k \in S : \A j \in S : k <= j
<1> DEFINE R == OpToRel(<, Nat)
<1>1. IsWellFoundedOn(R, Nat)
  BY NatLessThanWellFounded
<1>2. \A j, k \in Nat : j < k => <<j, k>> \in R
  BY DEF OpToRel
<1> HIDE DEF R
<1>3. PICK k \in S : \A j \in S : ~(<<j, k>> \in R)
  BY <1>1, WFMin
<1>4. \A j \in S : ~(j < k)
  BY <1>2, <1>3
<1>5. \A j \in S : k <= j
  BY <1>4
<1> QED
  BY <1>5

\* Removing element k and moving up the ones after it.
LEMMA ShiftUp ==
    ASSUME NEW S, NEW s \in Seq(S), NEW k \in 1 .. Len(s)
    PROVE  LET t == [j \in 1 .. Len(s) - 1 |-> IF j < k THEN s[j] ELSE s[j + 1]]
           IN  /\ t \in Seq(S)
               /\ Len(t) = Len(s) - 1
               /\ DOMAIN t = 1 .. Len(s) - 1
               /\ \A j \in 1 .. Len(s) - 1 : t[j] = IF j < k THEN s[j] ELSE s[j + 1]
<1> DEFINE n == Len(s)
           t == [j \in 1 .. n - 1 |-> IF j < k THEN s[j] ELSE s[j + 1]]
<1>1. n \in Nat /\ \A i \in 1 .. n : s[i] \in S
  BY LenProperties, ElementOfSeq
<1> HIDE DEF n
<1>2. n - 1 \in Nat
  BY <1>1 DEF n
<1>3. \A j \in 1 .. n - 1 : j \in 1 .. n /\ j + 1 \in 1 .. n
  BY <1>1
<1>4. t \in [1 .. n - 1 -> S]
  BY <1>1, <1>3
<1> HIDE DEF t
<1>5. t \in Seq(S) /\ Len(t) = n - 1
  BY ONLY <1>2, <1>4, IsASeq
<1> QED
  BY <1>5 DEF n

-----------------------------------------------------------------------------
(* The sample list.                                                        *)

\* An element of the list after n imports.
Sample(n) == [id : Nat, name : NameText, obj : 1 .. n]

(***************************************************************************)
(* The inductive invariant.  OwnsLive and PlainNameOnce are kept by every  *)
(* step as they are; what an id is, IdRepeatsAfterDelete needs.            *)
(***************************************************************************)

\* As long as nothing older was deleted, the id of a sample is its place in
\* the order of the imports.
IdIsPlace ==
    /\ freed = {} => Len(samples) = imports
    /\ \A i \in DOMAIN samples : (\E o \in freed : o < samples[i].obj) \/ samples[i].id = samples[i].obj - 1

SampleInv ==
    /\ SampleTypeOK
    /\ OwnsLive
    /\ PlainNameOnce
    /\ IdIsPlace

-----------------------------------------------------------------------------
(* Sequences.                                                              *)

\* The list is a function on 1 .. Len(samples).
LEMMA ListShape ==
    ASSUME SampleTypeOK
    PROVE  /\ Len(samples) \in Nat
           /\ DOMAIN samples = 1 .. Len(samples)
           /\ \A i \in 1 .. Len(samples) : samples[i] \in Sample(imports)
<1>1. samples \in Seq(Sample(imports))
  BY DEF SampleTypeOK, Sample
<1> QED
  BY <1>1, LenProperties, ElementOfSeq

-----------------------------------------------------------------------------
(* Names.                                                                  *)

\* The name of a new sample is a name; it is the plain name of a file only
\* when no sample has that name.
LEMMA NewName ==
    ASSUME SampleTypeOK, NEW file \in FileNames
    PROVE  /\ ImportedName(file) \in NameText
           /\ ImportedName(file).nums = <<>> => ImportedName(file) \notin Names
<1> DEFINE Same == {i \in DOMAIN samples : samples[i].name = file}
           n == Cardinality(Same)
<1>1. file \in NameText
  BY SampleListAssumption
<1>2. IsFiniteSet(Same)
  <2>1. DOMAIN samples = 1 .. Len(samples) /\ Len(samples) \in Nat
    BY DEF SampleTypeOK
  <2>2. IsFiniteSet(1 .. Len(samples))
    BY <2>1, FS_Interval
  <2> QED
    BY <2>1, <2>2, FS_Subset
<1>3. n \in Nat /\ (n = 0 <=> Same = {})
  BY <1>2, FS_CardinalityType, FS_EmptySet
<1>4. ImportedName(file) = IF n > 0 THEN [file EXCEPT !.nums = Append(@, n)] ELSE file
  BY DEF ImportedName
<1> HIDE DEF n
<1>5. CASE n > 0
  <2>1. file.nums \in Seq(Nat) /\ file.base \in Bases
    BY <1>1 DEF NameText
  <2>2. Append(file.nums, n) \in Seq(Nat) /\ Append(file.nums, n) # <<>>
    <3>1. n \in Nat
      BY <1>3
    <3> QED
      BY ONLY <3>1, <2>1, AppendProperties
  <2>3. ImportedName(file) = [file EXCEPT !.nums = Append(@, n)]
    BY <1>4, <1>5
  <2> QED
    BY <1>1, <2>1, <2>2, <2>3 DEF NameText
<1>6. CASE ~(n > 0)
  <2>1. Same = {} /\ ImportedName(file) = file
    BY <1>3, <1>4, <1>6
  <2> QED
    BY <1>1, <2>1 DEF Names
<1> QED
  BY <1>5, <1>6

\* The search finds the first sample of a name.
LEMMA FirstOfName ==
    ASSUME SampleTypeOK, NEW name \in Names
    PROVE  /\ IndexOf(name) \in DOMAIN samples
           /\ samples[IndexOf(name)].name = name
<1> DEFINE P(i) == samples[i].name = name
           Hits == {i \in 1 .. Len(samples) : P(i)}
<1>1. DOMAIN samples = 1 .. Len(samples) /\ Len(samples) \in Nat
  BY DEF SampleTypeOK
<1>2. Hits # {} /\ Hits \subseteq Nat
  BY <1>1 DEF Names
<1>3. \E k \in Hits : \A j \in Hits : k <= j
  BY <1>2, LeastElement
<1>4. \E k \in DOMAIN samples : P(k) /\ \A j \in 1 .. k - 1 : samples[j].name # name
  <2>1. PICK k \in Hits : \A j \in Hits : k <= j
    BY <1>3
  <2>2. \A j \in 1 .. k - 1 : j \notin Hits /\ j \in 1 .. Len(samples)
    BY <2>1, <1>1
  <2> QED
    BY <2>1, <2>2, <1>1
<1> QED
  BY <1>4 DEF IndexOf

-----------------------------------------------------------------------------
(* The steps.                                                              *)

\* The invariant holds of an empty list.
LEMMA SampleInitInv == SampleInit => SampleInv
  BY SampleListAssumption
  DEF SampleInit, SampleInv, SampleTypeOK, OwnsLive, PlainNameOnce, IdIsPlace, Objects

\* SampleListImportByFile: the new sample is the youngest and its name is new, or
\* numbered.
LEMMA ImportKeeps ==
    ASSUME SampleInv, NEW file \in FileNames, SampleListImportByFile(file)
    PROVE  SampleInv'
<1> USE DEF SampleInv
<1> DEFINE n == Len(samples)
           name == ImportedName(file)
           new == [id |-> n, name |-> name, obj |-> imports + 1]
<1>1. name \in NameText /\ (name.nums = <<>> => name \notin Names)
  BY NewName
<1>2. samples' = Append(samples, new) /\ imports' = imports + 1 /\ UNCHANGED <<freed, playing>> /\ result' = "ok"
  BY DEF SampleListImportByFile
<1>3. n \in Nat /\ DOMAIN samples = 1 .. n /\ \A i \in 1 .. n : samples[i] \in Sample(imports)
  BY ListShape
<1>4. imports \in Nat /\ imports + 1 \in 0 .. MaxImports
  BY SampleListAssumption DEF SampleTypeOK, SampleListImportByFile
<1> HIDE DEF n, name
<1>5. new \in Sample(imports + 1)
  BY <1>1, <1>3, <1>4 DEF Sample
<1>6. samples \in Seq(Sample(imports + 1))
  <2>1. Sample(imports) \subseteq Sample(imports + 1)
    BY <1>4 DEF Sample
  <2>2. samples \in Seq(Sample(imports))
    BY DEF SampleTypeOK, Sample
  <2> QED
    BY <2>1, <2>2, SeqMonotonic
<1>7. /\ samples' \in Seq(Sample(imports + 1))
      /\ Len(samples') = n + 1
      /\ DOMAIN samples' = 1 .. n + 1
      /\ \A i \in 1 .. n : samples'[i] = samples[i]
      /\ samples'[n + 1] = new
  <2> HIDE DEF new
  <2> QED
    BY <1>2, <1>3, <1>5, <1>6, AppendProperties, LenProperties DEF n
<1>8. SampleTypeOK'
  <2>1. samples' \in Seq([id : Nat, name : NameText, obj : 1 .. imports'])
    BY <1>2, <1>7 DEF Sample
  <2>2. freed' \subseteq 1 .. imports' /\ playing' \subseteq 1 .. imports'
    BY <1>2, <1>4 DEF SampleTypeOK
  <2> QED
    BY <2>1, <2>2, <1>2, <1>4 DEF SampleTypeOK
<1>9. \A i \in 1 .. n : samples[i].obj \in 1 .. imports
  BY <1>3 DEF Sample
<1>10. \A i \in 1 .. n + 1 : i \in 1 .. n \/ i = n + 1
  BY <1>3
<1>11. OwnsLive'
  <2>1. Objects' = Objects \union {imports + 1}
    BY <1>3, <1>7, <1>10 DEF Objects
  <2>2. (1 .. imports') \ freed' = ((1 .. imports) \ freed) \union {imports + 1}
    BY <1>2, <1>4 DEF SampleTypeOK
  <2>3. ASSUME NEW i \in 1 .. n + 1, NEW j \in 1 .. n + 1, i < j
        PROVE  samples'[i].obj < samples'[j].obj
    <3>1. i \in 1 .. n
      BY <2>3, <1>3
    <3>2. CASE j = n + 1
      BY <3>1, <3>2, <1>4, <1>7, <1>9
    <3>3. CASE j \in 1 .. n
      BY <3>1, <3>3, <2>3, <1>3, <1>7 DEF OwnsLive
    <3> QED
      BY <3>2, <3>3, <1>10
  <2> QED
    BY <2>1, <2>2, <2>3, <1>2, <1>7 DEF OwnsLive
<1>12. PlainNameOnce'
  <2>1. \A i \in 1 .. n : samples[i].name \in Names
    BY <1>3 DEF Names
  <2>2. samples'[n + 1].name = name
    BY <1>7
  <2>3. \A i \in 1 .. n : samples'[i].name = name => name.nums # <<>>
    BY <2>1, <1>1, <1>7
  <2> QED
    BY <2>2, <2>3, <1>3, <1>7, <1>10 DEF PlainNameOnce
<1>13. IdIsPlace'
  <2>1. freed' = {} => Len(samples') = imports'
    BY <1>2, <1>3, <1>7 DEF IdIsPlace, n
  <2>2. \A i \in 1 .. n : (\E o \in freed' : o < samples'[i].obj) \/ samples'[i].id = samples'[i].obj - 1
    BY <1>2, <1>3, <1>7 DEF IdIsPlace
  <2>3. freed # {} => \E o \in freed' : o < imports + 1
    <3>1. \A o \in freed : o < imports + 1
      BY <1>4 DEF SampleTypeOK
    <3> QED
      BY <3>1, <1>2
  <2>4. freed = {} => new.id = new.obj - 1
    BY <1>3, <1>4 DEF IdIsPlace, n
  <2> QED
    <3>1. samples'[n + 1].id = new.id /\ samples'[n + 1].obj = imports + 1 /\ new.obj = imports + 1
      BY <1>7
    <3> HIDE DEF new
    <3>2. (\E o \in freed' : o < samples'[n + 1].obj) \/ samples'[n + 1].id = samples'[n + 1].obj - 1
      BY <2>3, <2>4, <3>1
    <3> QED
      BY <2>1, <2>2, <3>2, <1>7, <1>10 DEF IdIsPlace
<1> QED
  BY <1>8, <1>11, <1>12, <1>13

\* SampleListDeleteSampleByName: what is left keeps its order.
LEMMA DeleteKeeps ==
    ASSUME SampleInv, NEW name \in Names, SampleListDeleteSampleByName(name)
    PROVE  SampleInv'
<1> USE DEF SampleInv
<1> DEFINE n == Len(samples)
           k == IndexOf(name)
<1>1. n \in Nat /\ DOMAIN samples = 1 .. n /\ \A i \in 1 .. n : samples[i] \in Sample(imports)
  BY ListShape
<1>2. k \in 1 .. n
  BY FirstOfName, <1>1
<1>3. /\ samples' = [j \in 1 .. n - 1 |-> IF j < k THEN samples[j] ELSE samples[j + 1]]
      /\ freed' = freed \union {samples[k].obj}
      /\ playing' = playing \ {samples[k].obj}
      /\ result' = "ok" /\ UNCHANGED imports
  BY DEF SampleListDeleteSampleByName
<1>4. /\ samples' \in Seq(Sample(imports))
      /\ Len(samples') = n - 1
      /\ DOMAIN samples' = 1 .. n - 1
      /\ \A j \in 1 .. n - 1 : samples'[j] = IF j < k THEN samples[j] ELSE samples[j + 1]
  <2>1. samples \in Seq(Sample(imports))
    BY DEF SampleTypeOK, Sample
  <2> HIDE DEF k
  <2> QED
    BY <2>1, <1>2, <1>3, ShiftUp
<1> HIDE DEF n, k
\* Where the elements come from.
<1> DEFINE from(j) == IF j < k THEN j ELSE j + 1
<1>5. \A j \in 1 .. n - 1 : from(j) \in 1 .. n /\ from(j) # k /\ samples'[j] = samples[from(j)]
  BY <1>1, <1>2, <1>4
<1>6. \A i, j \in 1 .. n - 1 : (i < j => from(i) < from(j)) /\ (from(i) = from(j) => i = j)
  BY <1>1, <1>2
<1>7. \A i \in 1 .. n : i # k => \E j \in 1 .. n - 1 : from(j) = i
  <2>1. \A i \in 1 .. n : i < k => i \in 1 .. n - 1 /\ from(i) = i
    BY <1>1, <1>2
  <2>2. \A i \in 1 .. n : i > k => i - 1 \in 1 .. n - 1 /\ from(i - 1) = i
    BY <1>1, <1>2
  <2> QED
    BY <2>1, <2>2, <1>2
<1> HIDE DEF from
<1>8. \A i \in 1 .. n : samples[i].obj \in 1 .. imports /\ (i # k => samples[i].obj # samples[k].obj)
  <2>1. \A i \in 1 .. n : samples[i].obj \in 1 .. imports
    BY <1>1 DEF Sample
  <2>2. ASSUME NEW i \in 1 .. n, i # k PROVE samples[i].obj # samples[k].obj
    <3>1. i < k \/ k < i
      BY <1>2, <2>2
    <3>2. samples[i].obj < samples[k].obj \/ samples[k].obj < samples[i].obj
      BY <3>1, <1>1, <1>2 DEF OwnsLive
    <3> QED
      BY <3>2, <2>1, <1>2
  <2> QED
    BY <2>1, <2>2
<1>9. SampleTypeOK'
  <2>1. samples' \in Seq([id : Nat, name : NameText, obj : 1 .. imports'])
    BY <1>3, <1>4 DEF Sample
  <2> QED
    BY <2>1, <1>2, <1>3, <1>8 DEF SampleTypeOK
<1>10. OwnsLive'
  <2>1. Objects' = Objects \ {samples[k].obj}
    <3>1. ASSUME NEW o \in Objects' PROVE o \in Objects \ {samples[k].obj}
      <4>1. PICK j \in 1 .. n - 1 : o = samples'[j].obj
        BY <1>4 DEF Objects
      <4> QED
        BY <4>1, <1>1, <1>5, <1>8 DEF Objects
    <3>2. ASSUME NEW o \in Objects, o # samples[k].obj PROVE o \in Objects'
      <4>1. PICK i \in 1 .. n : o = samples[i].obj
        BY <1>1 DEF Objects
      <4>2. PICK j \in 1 .. n - 1 : from(j) = i
        BY <4>1, <3>2, <1>7
      <4> QED
        BY <4>1, <4>2, <1>4, <1>5 DEF Objects
    <3> QED
      BY <3>1, <3>2
  <2>2. \A i, j \in 1 .. n - 1 : i < j => samples'[i].obj < samples'[j].obj
    BY <1>1, <1>5, <1>6 DEF OwnsLive
  <2> QED
    BY <2>1, <2>2, <1>3, <1>4 DEF OwnsLive
<1>11. PlainNameOnce'
  BY <1>1, <1>4, <1>5, <1>6 DEF PlainNameOnce
<1>12. IdIsPlace'
  <2>1. freed' # {}
    BY <1>3
  <2>2. ASSUME NEW j \in 1 .. n - 1
        PROVE  (\E o \in freed' : o < samples'[j].obj) \/ samples'[j].id = samples'[j].obj - 1
    <3>1. PICK i \in 1 .. n : samples'[j] = samples[i]
      BY <1>5
    <3>2. (\E o \in freed : o < samples[i].obj) \/ samples[i].id = samples[i].obj - 1
      BY <1>1 DEF IdIsPlace
    <3> QED
      BY <1>3, <3>1, <3>2
  <2> QED
    BY <2>1, <2>2, <1>4 DEF IdIsPlace
<1> QED
  BY <1>9, <1>10, <1>11, <1>12

\* SampleRename: only the name changes.
LEMMA RenameKeeps ==
    ASSUME SampleInv, NEW name \in Names, NEW newName \in NewNames, SampleRename(name, newName)
    PROVE  SampleInv'
<1> USE DEF SampleInv
<1> DEFINE n == Len(samples)
           k == IndexOf(name)
           new == [samples[k] EXCEPT !.name = newName]
<1>1. n \in Nat /\ DOMAIN samples = 1 .. n /\ \A i \in 1 .. n : samples[i] \in Sample(imports)
  BY ListShape
<1>2. k \in 1 .. n
  BY FirstOfName, <1>1
<1>3. samples' = [samples EXCEPT ![k] = new] /\ result' = "ok" /\ UNCHANGED <<imports, freed, playing>>
  BY DEF SampleRename
<1> HIDE DEF k
<1>4. new \in Sample(imports) /\ new.obj = samples[k].obj /\ new.id = samples[k].id /\ new.name = newName
  BY <1>1, <1>2, SampleListAssumption DEF Sample
<1> HIDE DEF new
<1>5. samples' \in Seq(Sample(imports)) /\ Len(samples') = n /\ DOMAIN samples' = 1 .. n
  <2>1. samples \in Seq(Sample(imports))
    BY DEF SampleTypeOK, Sample
  <2> QED
    BY <2>1, <1>2, <1>3, <1>4, ExceptSeq, LenProperties
<1> HIDE DEF n
<1>6. \A i \in 1 .. n : /\ samples'[i].obj = samples[i].obj
                        /\ samples'[i].id = samples[i].id
                        /\ samples'[i].name = IF i = k THEN newName ELSE samples[i].name
  BY <1>1, <1>2, <1>3, <1>4
<1>7. SampleTypeOK'
  <2>1. samples' \in Seq([id : Nat, name : NameText, obj : 1 .. imports'])
    BY <1>3, <1>5 DEF Sample
  <2> QED
    BY <2>1, <1>3 DEF SampleTypeOK
<1>8. OwnsLive'
  <2>1. Objects' = Objects
    BY <1>1, <1>5, <1>6 DEF Objects
  <2> QED
    BY <2>1, <1>1, <1>3, <1>5, <1>6 DEF OwnsLive
<1>9. PlainNameOnce'
  BY <1>1, <1>5, <1>6 DEF PlainNameOnce
<1>10. IdIsPlace'
  BY <1>1, <1>3, <1>5, <1>6 DEF IdIsPlace, n
<1> QED
  BY <1>7, <1>8, <1>9, <1>10

\* A step that leaves the list and starts or stops a sample of it, if any.
LEMMA PlayKeeps ==
    ASSUME SampleInv, UNCHANGED <<samples, imports, freed>>, result' \in {"ok", "err"},
           playing' \subseteq playing \union Objects
    PROVE  SampleInv'
<1> USE DEF SampleInv
<1>1. Objects \subseteq 1 .. imports /\ Objects' = Objects
  BY DEF OwnsLive, Objects
<1>2. SampleTypeOK'
  BY <1>1 DEF SampleTypeOK
<1>3. OwnsLive'
  BY <1>1 DEF OwnsLive
<1>4. PlainNameOnce' /\ IdIsPlace'
  BY DEF PlainNameOnce, IdIsPlace
<1> QED
  BY <1>2, <1>3, <1>4

\* Every step keeps the invariant.
LEMMA SampleNextInv == SampleInv /\ [SampleNext]_sampleVars => SampleInv'
<1> SUFFICES ASSUME SampleInv, [SampleNext]_sampleVars PROVE SampleInv'
  OBVIOUS
<1>1. SampleTypeOK
  BY DEF SampleInv
<1>2. Fails => SampleInv'
  BY PlayKeeps DEF Fails
<1>3. CASE ImportFails
  BY <1>2, <1>3 DEF ImportFails
<1>4. ASSUME NEW file \in FileNames, SampleListImportByFile(file) PROVE SampleInv'
  BY <1>4, ImportKeeps
<1>5. ASSUME NEW name \in AnyName, SampleListDeleteSampleByName(name) PROVE SampleInv'
  <2>1. CASE name \in Names
    BY <2>1, <1>5, DeleteKeeps
  <2>2. CASE name \notin Names
    BY <2>2, <1>2, <1>5 DEF SampleListDeleteSampleByName
  <2> QED
    BY <2>1, <2>2
<1>6. ASSUME NEW name \in AnyName, FnSamplePlay(name) \/ SampleStop(name) PROVE SampleInv'
  <2>1. CASE Fails
    BY <2>1, <1>2
  <2>2. CASE name \in Names /\ ~Fails
    <3>1. samples[IndexOf(name)].obj \in Objects
      BY <2>2, <1>1, FirstOfName DEF Objects
    <3>2. /\ playing' \subseteq playing \union {samples[IndexOf(name)].obj}
          /\ result' = "ok" /\ UNCHANGED <<samples, imports, freed>>
      BY <1>6, <2>2 DEF FnSamplePlay, SampleStop
    <3> QED
      BY <3>1, <3>2, PlayKeeps
  <2> QED
    BY <1>6, <2>1, <2>2 DEF FnSamplePlay, SampleStop
<1>7. ASSUME NEW name \in AnyName, NEW newName \in NewNames, SampleRename(name, newName) PROVE SampleInv'
  BY <1>7, RenameKeeps DEF SampleRename
<1>8. CASE UNCHANGED sampleVars
  BY <1>1, <1>8, PlayKeeps DEF sampleVars, SampleTypeOK
<1> QED
  BY <1>3, <1>4, <1>5, <1>6, <1>7, <1>8 DEF SampleNext

-----------------------------------------------------------------------------
\* The invariant holds always.
LEMMA Inductive == SampleSpec => []SampleInv
  BY SampleInitInv, SampleNextInv, PTL DEF SampleSpec

\* The types, for every specification of names and files.
THEOREM SampleTypeCorrect == SampleSpec => []SampleTypeOK
<1>1. SampleInv => SampleTypeOK
  BY DEF SampleInv
<1> QED
  BY <1>1, Inductive, PTL

\* SampleListImportByFile and SampleListDeleteSampleByName: the list owns every
\* sample that is allocated, once, and none that was freed; only those play.
THEOREM ListOwnsLive == SampleSpec => []OwnsLive
<1>1. SampleInv => OwnsLive
  BY DEF SampleInv
<1> QED
  BY <1>1, Inductive, PTL

\* SampleListImportByFile: one sample at most carries the plain name of a file.
THEOREM PlainNamesDiffer == SampleSpec => []PlainNameOnce
<1>1. SampleInv => PlainNameOnce
  BY DEF SampleInv
<1> QED
  BY <1>1, Inductive, PTL

\* An id is the length of the list at the import: two samples share one only
\* when a sample older than the younger of them was deleted.
IdRepeatsAfterDelete ==
    \A i, j \in DOMAIN samples :
        i < j /\ samples[i].id = samples[j].id => \E o \in freed : o < samples[j].obj

\* SampleListImportByFile: the ids that IdsUnique wants different repeat only
\* after a delete.
THEOREM IdsDifferBeforeDelete == SampleSpec => []IdRepeatsAfterDelete
<1>1. ASSUME SampleInv PROVE IdRepeatsAfterDelete
  <2> SUFFICES ASSUME NEW i \in DOMAIN samples, NEW j \in DOMAIN samples, i < j,
                      samples[i].id = samples[j].id, ~\E o \in freed : o < samples[j].obj
               PROVE  FALSE
    BY DEF IdRepeatsAfterDelete
  <2>1. samples[i].obj \in Nat /\ samples[j].obj \in Nat /\ freed \subseteq Nat
    <3>1. SampleTypeOK
      BY <1>1 DEF SampleInv
    <3>2. samples[i] \in Sample(imports) /\ samples[j] \in Sample(imports)
      BY <3>1, ListShape
    <3> QED
      BY <3>1, <3>2 DEF Sample, SampleTypeOK
  <2>2. samples[i].obj < samples[j].obj
    BY <1>1 DEF SampleInv, OwnsLive
  <2>3. ~\E o \in freed : o < samples[i].obj
    BY <2>1, <2>2
  <2>4. samples[i].id = samples[i].obj - 1 /\ samples[j].id = samples[j].obj - 1
    BY <1>1, <2>3 DEF SampleInv, IdIsPlace
  <2>5. samples[i].obj - 1 = samples[j].obj - 1
    BY <2>4
  <2> QED
    BY <2>1, <2>2, <2>5
<1> QED
  BY <1>1, Inductive, PTL

-----------------------------------------------------------------------------
(* The dispatcher.                                                         *)

Requests  == [msgid : Nat, method : Methods, params : ParamLists]
Responses == [msgid : Nat \ {0}, error : Errors, result : Results]
Jobs      == [conn : Conns, msgid : Nat \ {0}, payload : ParamNames]

(***************************************************************************)
(* The inductive invariant: the properties themselves, that the n-th       *)
(* request of a connection has msgid n, and the invariant of the sample    *)
(* list the handlers change.                                               *)
(***************************************************************************)
MsgidIsPlace == \A c \in Conns : \A i \in DOMAIN sent[c] : sent[c][i].msgid = i

DispatchInv ==
    /\ TypeOK
    /\ SampleInv
    /\ MsgidIsPlace
    /\ RepliesInOrder
    /\ NoRequestForgotten

\* The initial state satisfies the invariant.
LEMMA DispatchInit == Init => DispatchInv
<1> SUFFICES ASSUME Init PROVE DispatchInv
  OBVIOUS
<1>1. SampleInv
  BY SampleInitInv DEF Init
<1>2. TypeOK
  BY <1>1 DEF Init, TypeOK, SampleInv
<1>3. \A c \in Conns : Answered(c) = {} /\ Queued(c) = {} /\ Lost(c) = {}
  BY DEF Init, Answered, Queued, Lost
<1>4. MsgidIsPlace /\ RepliesInOrder /\ NoRequestForgotten
  BY <1>3 DEF Init, MsgidIsPlace, RepliesInOrder, NoRequestForgotten
<1> QED
  BY <1>1, <1>2, <1>4 DEF DispatchInv

-----------------------------------------------------------------------------
(* The clients.                                                            *)

\* A request that is sent changes nothing about those before it.
LEMMA SendKeeps ==
    ASSUME DispatchInv, NEW c \in Conns, NEW method \in Methods, NEW params \in ParamLists,
           Send(c, method, params)
    PROVE  DispatchInv'
<1> USE DEF DispatchInv
<1> DEFINE rq == [msgid |-> Len(sent[c]) + 1, method |-> method, params |-> params]
<1>1. sent \in [Conns -> Seq(Requests)] /\ sent[c] \in Seq(Requests)
  BY DEF TypeOK, Requests
<1>2. Len(sent[c]) \in Nat /\ rq \in Requests
  BY <1>1, LenProperties DEF Requests
<1>3. sent' = [sent EXCEPT ![c] = Append(sent[c], rq)]
  BY DEF Send
<1> HIDE DEF rq
<1>4. /\ Append(sent[c], rq) \in Seq(Requests)
      /\ Len(Append(sent[c], rq)) = Len(sent[c]) + 1
      /\ \A i \in 1 .. Len(sent[c]) : Append(sent[c], rq)[i] = sent[c][i]
      /\ Append(sent[c], rq)[Len(sent[c]) + 1] = rq
  BY <1>1, <1>2, AppendProperties
<1>5. UNCHANGED <<sampleVars, handled, replies, jobs, lost, open>>
  BY DEF Send
<1>6. \A d \in Conns : /\ sent'[d] \in Seq(Requests)
                       /\ Len(sent'[d]) \in Nat /\ Len(sent[d]) \in Nat
                       /\ DOMAIN sent[d] = 1 .. Len(sent[d]) /\ DOMAIN sent'[d] = 1 .. Len(sent'[d])
                       /\ Len(sent[d]) <= Len(sent'[d])
                       /\ \A i \in 1 .. Len(sent[d]) : sent'[d][i] = sent[d][i]
  BY <1>1, <1>2, <1>3, <1>4, LenProperties
<1>7. SampleInv'
  <2>1. result' \in {"ok", "err"} /\ playing' \subseteq playing \union Objects /\ UNCHANGED <<samples, imports, freed>>
    BY <1>5 DEF sampleVars, SampleInv, SampleTypeOK
  <2> QED
    BY <2>1, PlayKeeps
<1>8. TypeOK'
  <2>1. sent' \in [Conns -> Seq(Requests)]
    BY <1>1, <1>3, <1>4
  <2>2. \A d \in Conns : handled'[d] <= Len(sent'[d])
    BY <1>5, <1>6 DEF TypeOK
  <2> QED
    BY <1>5, <1>7, <2>1, <2>2 DEF TypeOK, SampleInv, Requests
<1>9. MsgidIsPlace'
  <2> SUFFICES ASSUME NEW d \in Conns, NEW i \in DOMAIN sent'[d] PROVE sent'[d][i].msgid = i
    BY DEF MsgidIsPlace
  <2>1. CASE i \in 1 .. Len(sent[d])
    BY <1>6, <2>1 DEF MsgidIsPlace
  <2>2. CASE i \notin 1 .. Len(sent[d])
    <3>1. d = c /\ i = Len(sent[c]) + 1
      BY <1>1, <1>2, <1>3, <1>4, <1>6, <2>2
    <3> QED
      BY <1>1, <1>3, <1>4, <3>1 DEF rq
  <2> QED
    BY <2>1, <2>2
<1>10. \A d \in Conns : Answered(d)' = Answered(d) /\ Queued(d)' = Queued(d) /\ Lost(d)' = Lost(d)
  BY <1>5 DEF Answered, Queued, Lost
<1>11. RepliesInOrder'
  BY <1>5, <1>10 DEF RepliesInOrder
<1>12. NoRequestForgotten'
  <2> SUFFICES ASSUME NEW d \in Conns, NEW i \in DOMAIN jobs, jobs[i].conn = d
               PROVE  jobs[i].payload = sent'[d][jobs[i].msgid].params[1].v
    BY <1>5, <1>10 DEF NoRequestForgotten
  <2>1. jobs[i].msgid \in Queued(d)
    BY DEF Queued
  <2>2. jobs[i].msgid \in 1 .. handled[d]
    BY <2>1 DEF NoRequestForgotten
  <2>3. jobs[i].msgid \in 1 .. Len(sent[d])
    <3>1. handled[d] \in Nat /\ handled[d] <= Len(sent[d]) /\ Len(sent[d]) \in Nat
      BY <1>6 DEF TypeOK
    <3> QED
      BY <2>2, <3>1
  <2>4. sent'[d][jobs[i].msgid] = sent[d][jobs[i].msgid]
    BY <1>6, <2>3
  <2> QED
    BY <2>4 DEF NoRequestForgotten
<1> QED
  BY <1>7, <1>8, <1>9, <1>11, <1>12

\* A connection that closes leaves what it got and what is queued for it, and
\* so does a call of the sample list for nobody's request.
LEMMA RestKeeps ==
    ASSUME DispatchInv, SampleInv', UNCHANGED <<sent, handled, replies, jobs, lost>>, open' \subseteq open
    PROVE  DispatchInv'
<1> USE DEF DispatchInv
<1>1. UNCHANGED <<sent, handled, replies, jobs, lost>> /\ open' \subseteq open
  OBVIOUS
<1>2. TypeOK'
  BY <1>1 DEF TypeOK, SampleInv
<1>3. \A d \in Conns : Answered(d)' = Answered(d) /\ Queued(d)' = Queued(d) /\ Lost(d)' = Lost(d)
  BY <1>1 DEF Answered, Queued, Lost
<1>4. MsgidIsPlace'
  BY <1>1 DEF MsgidIsPlace
<1>5. RepliesInOrder'
  BY <1>1, <1>3 DEF RepliesInOrder
<1>6. NoRequestForgotten'
  BY <1>1, <1>3 DEF NoRequestForgotten
<1> QED
  BY <1>2, <1>4, <1>5, <1>6

-----------------------------------------------------------------------------
(* What a handler leaves for the request it was called with.               *)

\* The answers have the msgid they are given.
LEMMA ErrorResponse ==
    ASSUME NEW m \in Nat \ {0}, NEW text \in Errors
    PROVE  ResponseCreateError(m, text) \in Responses /\ ResponseCreateError(m, text).msgid = m
BY DEF Responses, Results, ResponseCreateError

\* An answer that is a text.
LEMMA StringResponse ==
    ASSUME NEW m \in Nat \ {0}, NEW text \in Results
    PROVE  ResponseCreateString(m, text) \in Responses /\ ResponseCreateString(m, text).msgid = m
BY DEF Responses, Errors, ResponseCreateString

\* The answer of session/get_working_time.
LEMMA IntResponse ==
    ASSUME NEW m \in Nat \ {0}
    PROVE  ResponseCreateInt(m) \in Responses /\ ResponseCreateInt(m).msgid = m
BY DEF Responses, Errors, Results, ResponseCreateInt

\* The answer of session/create.
LEMMA ResultResponse ==
    ASSUME NEW m \in Nat \ {0}
    PROVE  ResponseCreateResult(m, FnSessionCreate) \in Responses /\ ResponseCreateResult(m, FnSessionCreate).msgid = m
BY DEF Responses, Errors, Results, ResponseCreateResult

\* The answer built from the result of the sample list.
LEMMA AudioResponse ==
    ASSUME NEW m \in Nat \ {0}, NEW res \in {"ok", "err"}
    PROVE  ResponseCreateResultAudio(m, res) \in Responses /\ ResponseCreateResultAudio(m, res).msgid = m
BY DEF Responses, Errors, Results, ResponseCreateResultAudio, ResponseCreateError

\* The request m of connection c is answered, queued or lost.
Sends(c, m) ==
    \E r \in Responses : /\ r.msgid = m
                         /\ replies' = [replies EXCEPT ![c] = Append(@, r)]
                         /\ UNCHANGED <<jobs, lost>>

Queues(c, m) ==
    \E v \in ParamNames : /\ v = sent[c][m].params[1].v
                          /\ jobs' = Append(jobs, [conn |-> c, msgid |-> m, payload |-> v])
                          /\ UNCHANGED <<replies, lost>>

Loses(c, m) ==
    /\ lost' = lost \union {<<c, m>>}
    /\ UNCHANGED <<replies, jobs>>

\* Reply sends an answer under the msgid of its argument, or loses it.
LEMMA ReplyOutcome ==
    ASSUME NEW c, NEW rq, NEW r \in Responses, r.msgid = rq.msgid, Reply(c, rq, r)
    PROVE  Sends(c, rq.msgid) \/ Loses(c, rq.msgid)
<1>1. Blank(r.msgid) \in Responses /\ Blank(r.msgid).msgid = rq.msgid
  BY DEF Blank, Responses, Errors, Results
<1> QED
  BY <1>1 DEF Reply, Lose, Sends, Loses

\* The request a connection has next.
LEMMA NextRequest ==
    ASSUME DispatchInv, NEW c \in Conns, handled[c] < Len(sent[c])
    PROVE  /\ handled[c] \in Nat
           /\ sent[c][handled[c] + 1] \in Requests
           /\ sent[c][handled[c] + 1].msgid = handled[c] + 1
<1>1. sent[c] \in Seq(Requests) /\ handled[c] \in Nat
  BY DEF DispatchInv, TypeOK, Requests
<1>2. Len(sent[c]) \in Nat /\ DOMAIN sent[c] = 1 .. Len(sent[c])
  BY <1>1, LenProperties
<1>3. handled[c] + 1 \in DOMAIN sent[c]
  BY <1>1, <1>2
<1>4. sent[c][handled[c] + 1] \in Requests
  BY <1>1, <1>2, <1>3, ElementOfSeq
<1> QED
  BY <1>1, <1>3, <1>4 DEF DispatchInv, MsgidIsPlace

\* Of the parameter lists only those with one string have a string.
LEMMA StringParam ==
    ASSUME NEW rq \in Requests, OneString(rq)
    PROVE  rq.params[1].v \in ParamNames
<1>1. rq.params \in ParamLists
  BY DEF Requests
<1>2. CASE rq.params = <<>> \/ rq.params = <<Other>>
  BY <1>2 DEF OneString, Other
<1>3. CASE \E n \in ParamNames : rq.params = <<Str(n)>>
  BY <1>3 DEF Str
<1> QED
  BY <1>1, <1>2, <1>3 DEF ParamLists

\* The sample list's invariant survives a handler that leaves it alone.
LEMMA SamplesUntouched ==
    ASSUME SampleInv, UNCHANGED sampleVars
    PROVE  SampleInv'
<1>1. result' \in {"ok", "err"} /\ playing' \subseteq playing \union Objects /\ UNCHANGED <<samples, imports, freed>>
  BY DEF sampleVars, SampleInv, SampleTypeOK
<1> QED
  BY <1>1, PlayKeeps

\* Every branch of DispatchRPCMessage sends one answer under the msgid of its
\* request, queues one job for it, or loses it, and keeps the sample list sound.
LEMMA HandlerOutcome ==
    ASSUME DispatchInv, NEW c \in Conns, DispatchRPCMessage(c)
    PROVE  /\ SampleInv'
           /\ \/ Sends(c, handled[c] + 1)
              \/ Queues(c, handled[c] + 1)
              \/ Loses(c, handled[c] + 1)
<1> DEFINE rq == sent[c][handled[c] + 1]
           m == handled[c] + 1
<1>1. SampleInv /\ handled[c] < Len(sent[c])
  BY DEF DispatchInv, DispatchRPCMessage
<1>2. rq \in Requests /\ rq.msgid = m /\ m \in Nat \ {0}
  BY <1>1, NextRequest
<1>3. \/ TestPing(c, rq) \/ SessionCreate(c, rq) \/ SessionGetName(c, rq) \/ SessionGetWorkingTime(c, rq)
      \/ SamplelistImport(c, rq) \/ SamplelistRemove(c, rq) \/ SamplelistPlay(c, rq) \/ MethodNotFound(c, rq)
      \/ MethodNotSpecified(c, rq)
  BY DEF DispatchRPCMessage
<1>4. rq = sent[c][m]
  OBVIOUS
<1> HIDE DEF rq, m
<1>5. ParamError(rq) \in Errors /\ SessionName \in Results
  BY DEF ParamError, Errors, Results
<1>6. ASSUME NEW r \in Responses, r.msgid = m, Reply(c, rq, r)
      PROVE  Sends(c, m) \/ Loses(c, m)
  BY <1>2, <1>6, ReplyOutcome
<1>7. CASE TestPing(c, rq)
  <2>1. "pong!" \in Results /\ "Pong, but ..." \in Errors
    BY DEF Results, Errors
  <2> QED
    BY <1>1, <1>2, <1>6, <1>7, <2>1, ErrorResponse, StringResponse, SamplesUntouched DEF TestPing, m
<1>8. CASE SessionCreate(c, rq)
  BY <1>1, <1>2, <1>5, <1>6, <1>8, ErrorResponse, ResultResponse, SamplesUntouched DEF SessionCreate, m
<1>9. CASE SessionGetName(c, rq)
  <2>1. "Expected 0 parameters." \in Errors
    BY DEF Errors
  <2> QED
    BY <1>1, <1>2, <1>5, <1>6, <1>9, <2>1, ErrorResponse, StringResponse, SamplesUntouched DEF SessionGetName, m
<1>10. CASE SessionGetWorkingTime(c, rq)
  <2>1. "Expected 0 parameters." \in Errors
    BY DEF Errors
  <2> QED
    BY <1>1, <1>2, <1>6, <1>10, <2>1, ErrorResponse, IntResponse, SamplesUntouched DEF SessionGetWorkingTime, m
<1>11. CASE MethodNotFound(c, rq)
  <2>1. "Method not found." \in Errors
    BY DEF Errors
  <2> QED
    BY <1>1, <1>2, <1>6, <1>11, <2>1, ErrorResponse, SamplesUntouched DEF MethodNotFound, m
<1>12. CASE SamplelistImport(c, rq)
  <2>1. SampleInv'
    BY <1>1, <1>12, SamplesUntouched DEF SamplelistImport
  <2>2. CASE OneString(rq)
    <3>1. rq.params[1].v \in ParamNames
      BY <1>2, <2>2, StringParam
    <3>2. Queues(c, m) \/ Loses(c, m)
      BY <1>2, <1>4, <1>12, <2>2, <3>1 DEF SamplelistImport, JobQueuePush, Lose, Queues, Loses
    <3> QED
      BY <2>1, <3>2 DEF m
  <2>3. CASE ~OneString(rq)
    BY <1>2, <1>5, <1>6, <1>12, <2>1, <2>3, ErrorResponse DEF SamplelistImport, m
  <2> QED
    BY <2>2, <2>3
<1>13. CASE SamplelistRemove(c, rq)
  <2>1. CASE OneString(rq)
    <3> DEFINE name == rq.params[1].v
    <3>1. SampleListDeleteSampleByName(name) /\ Reply(c, rq, ResponseCreateResultAudio(rq.msgid, result'))
      BY <1>13, <2>1 DEF SamplelistRemove
    <3> HIDE DEF name
    <3>2. SampleInv'
      <4>1. CASE name \in Names
        BY <1>1, <3>1, <4>1, DeleteKeeps
      <4>2. CASE name \notin Names
        <5>1. Fails
          BY <3>1, <4>2 DEF SampleListDeleteSampleByName
        <5> QED
          BY <1>1, <5>1, PlayKeeps DEF Fails
      <4> QED
        BY <4>1, <4>2
    <3>3. result' \in {"ok", "err"}
      BY <3>2 DEF SampleInv, SampleTypeOK
    <3> QED
      BY <1>2, <1>6, <3>1, <3>2, <3>3, AudioResponse DEF m
  <2>2. CASE ~OneString(rq)
    BY <1>1, <1>2, <1>5, <1>6, <1>13, <2>2, ErrorResponse, SamplesUntouched DEF SamplelistRemove, m
  <2> QED
    BY <2>1, <2>2
<1>14. CASE SamplelistPlay(c, rq)
  <2>1. CASE OneString(rq)
    <3> DEFINE name == rq.params[1].v
    <3>1. FnSamplePlay(name) /\ Reply(c, rq, ResponseCreateResultAudio(rq.msgid, result'))
      BY <1>14, <2>1 DEF SamplelistPlay
    <3> HIDE DEF name
    <3>2. SampleInv'
      <4>1. CASE Fails
        BY <1>1, <4>1, PlayKeeps DEF Fails
      <4>2. CASE name \in Names /\ ~Fails
        <5>1. IndexOf(name) \in DOMAIN samples
          BY <1>1, <4>2, FirstOfName DEF SampleInv
        <5>2. samples[IndexOf(name)].obj \in Objects
          BY <5>1 DEF Objects
        <5>3. /\ playing' = playing \union {samples[IndexOf(name)].obj}
              /\ result' = "ok"
              /\ UNCHANGED <<samples, imports, freed>>
          BY <3>1, <4>2 DEF FnSamplePlay
        <5> QED
          BY <1>1, <5>2, <5>3, PlayKeeps
      <4> QED
        BY <3>1, <4>1, <4>2 DEF FnSamplePlay
    <3>3. result' \in {"ok", "err"}
      BY <3>2 DEF SampleInv, SampleTypeOK
    <3> QED
      BY <1>2, <1>6, <3>1, <3>2, <3>3, AudioResponse DEF m
  <2>2. CASE ~OneString(rq)
    BY <1>1, <1>2, <1>5, <1>6, <1>14, <2>2, ErrorResponse, SamplesUntouched DEF SamplelistPlay, m
  <2> QED
    BY <2>1, <2>2
<1>15. CASE MethodNotSpecified(c, rq)
  <2>1. "Method not specified." \in Errors
    BY DEF Errors
  <2> QED
    BY <1>1, <1>2, <1>6, <1>15, <2>1, ErrorResponse, SamplesUntouched DEF MethodNotSpecified, m
<1> QED
  BY <1>3, <1>7, <1>8, <1>9, <1>10, <1>11, <1>12, <1>13, <1>14, <1>15

-----------------------------------------------------------------------------
(* The three outcomes keep the invariant.  The new msgid is one more than  *)
(* all the connection's earlier ones, and goes to one of the three sets.   *)

\* What a dispatch does to the counter of its connection.
LEMMA Counted ==
    ASSUME DispatchInv, NEW c \in Conns, DispatchRPCMessage(c)
    PROVE  /\ UNCHANGED <<sent, open>>
           /\ handled[c] \in Nat /\ handled[c] + 1 \in Nat \ {0}
           /\ handled' \in [Conns -> Nat]
           /\ handled'[c] = handled[c] + 1
           /\ \A d \in Conns : d # c => handled'[d] = handled[d]
           /\ \A d \in Conns : handled'[d] <= Len(sent[d])
           /\ 1 .. handled'[c] = (1 .. handled[c]) \union {handled[c] + 1}
           /\ handled[c] + 1 \notin 1 .. handled[c]
<1>1. handled \in [Conns -> Nat] /\ handled[c] < Len(sent[c]) /\ handled' = [handled EXCEPT ![c] = @ + 1]
      /\ UNCHANGED <<sent, open>>
  BY DEF DispatchInv, TypeOK, DispatchRPCMessage
<1>2. \A d \in Conns : sent[d] \in Seq(Requests) /\ handled[d] <= Len(sent[d])
  BY DEF DispatchInv, TypeOK, Requests
<1>3. \A d \in Conns : Len(sent[d]) \in Nat
  BY <1>2, LenProperties
<1> QED
  BY <1>1, <1>2, <1>3

\* An answer is appended.
LEMMA SendsKeeps ==
    ASSUME DispatchInv, NEW c \in Conns, DispatchRPCMessage(c), SampleInv', Sends(c, handled[c] + 1)
    PROVE  DispatchInv'
<1> USE DEF DispatchInv
<1> DEFINE m == handled[c] + 1
           old == replies[c]
<1>1. PICK r \in Responses : /\ r.msgid = m
                             /\ replies' = [replies EXCEPT ![c] = Append(old, r)]
                             /\ UNCHANGED <<jobs, lost>>
  BY DEF Sends
<1>2. replies \in [Conns -> Seq(Responses)] /\ old \in Seq(Responses)
  BY DEF TypeOK, Responses
<1>3. /\ Len(old) \in Nat /\ DOMAIN old = 1 .. Len(old)
      /\ Append(old, r) \in Seq(Responses)
      /\ DOMAIN Append(old, r) = 1 .. Len(old) + 1
      /\ \A i \in 1 .. Len(old) : Append(old, r)[i] = old[i]
      /\ Append(old, r)[Len(old) + 1] = r
  BY <1>2, AppendProperties, LenProperties
<1>4. replies'[c] = Append(old, r) /\ \A d \in Conns : d # c => replies'[d] = replies[d]
  BY <1>1, <1>2
<1>5. /\ UNCHANGED <<sent, open>> /\ m \in Nat \ {0} /\ handled[c] \in Nat
      /\ handled' \in [Conns -> Nat] /\ handled'[c] = m
      /\ \A d \in Conns : d # c => handled'[d] = handled[d]
      /\ \A d \in Conns : handled'[d] <= Len(sent[d])
      /\ 1 .. handled'[c] = (1 .. handled[c]) \union {m}
      /\ m \notin 1 .. handled[c]
  BY Counted
<1> HIDE DEF m, old
<1>6. Answered(c)' = Answered(c) \union {m}
  BY <1>1, <1>3, <1>4 DEF Answered, old
<1>7. \A d \in Conns : /\ d # c => Answered(d)' = Answered(d)
                       /\ Queued(d)' = Queued(d) /\ Lost(d)' = Lost(d)
  BY <1>1, <1>4 DEF Answered, Queued, Lost
<1>8. TypeOK'
  <2>1. replies' \in [Conns -> Seq(Responses)]
    BY <1>1, <1>2, <1>3
  <2> QED
    BY <1>1, <1>5, <2>1 DEF TypeOK, SampleInv, Responses
<1>9. MsgidIsPlace'
  BY <1>5 DEF MsgidIsPlace
<1>10. RepliesInOrder'
  <2> SUFFICES ASSUME NEW d \in Conns
               PROVE  /\ Answered(d)' \subseteq 1 .. handled'[d]
                      /\ \A i, j \in DOMAIN replies'[d] : i < j => replies'[d][i].msgid < replies'[d][j].msgid
    BY DEF RepliesInOrder
  <2>1. CASE d # c
    BY <1>4, <1>5, <1>7, <2>1 DEF RepliesInOrder
  <2>2. CASE d = c
    <3>1. Answered(c)' \subseteq 1 .. handled'[c]
      BY <1>5, <1>6 DEF RepliesInOrder
    <3>2. \A i \in 1 .. Len(old) : old[i].msgid \in 1 .. handled[c]
      BY <1>3 DEF RepliesInOrder, Answered, old
    <3>3. \A i, j \in 1 .. Len(old) : i < j => old[i].msgid < old[j].msgid
      BY <1>3 DEF RepliesInOrder, old
    <3>4. \A i \in 1 .. Len(old) : old[i].msgid < m
      BY <1>5, <3>2 DEF m
    <3>5. ASSUME NEW i \in 1 .. Len(old) + 1, NEW j \in 1 .. Len(old) + 1, i < j
          PROVE  Append(old, r)[i].msgid < Append(old, r)[j].msgid
      <4>1. i \in 1 .. Len(old)
        BY <1>3, <3>5
      <4>2. CASE j = Len(old) + 1
        BY <1>1, <1>3, <3>4, <4>1, <4>2
      <4>3. CASE j # Len(old) + 1
        BY <1>3, <3>3, <3>5, <4>1, <4>3
      <4> QED
        BY <4>2, <4>3
    <3> QED
      BY <1>3, <1>4, <2>2, <3>1, <3>5
  <2> QED
    BY <2>1, <2>2
<1>11. NoRequestForgotten'
  <2> SUFFICES ASSUME NEW d \in Conns
               PROVE  /\ 1 .. handled'[d] = Answered(d)' \union Queued(d)' \union Lost(d)'
                      /\ Lost(d)' \intersect (Answered(d)' \union Queued(d)') = {}
    BY <1>1, <1>5 DEF NoRequestForgotten
  <2>1. CASE d # c
    BY <1>5, <1>7, <2>1 DEF NoRequestForgotten
  <2>2. CASE d = c
    <3>1. m \notin Queued(c) /\ m \notin Lost(c)
      BY <1>5 DEF NoRequestForgotten
    <3> QED
      BY <1>5, <1>6, <1>7, <2>2, <3>1 DEF NoRequestForgotten
  <2> QED
    BY <2>1, <2>2
<1> QED
  BY <1>8, <1>9, <1>10, <1>11

\* A job is queued.
LEMMA QueuesKeeps ==
    ASSUME DispatchInv, NEW c \in Conns, DispatchRPCMessage(c), SampleInv', Queues(c, handled[c] + 1)
    PROVE  DispatchInv'
<1> USE DEF DispatchInv
<1> DEFINE m == handled[c] + 1
<1>1. PICK v \in ParamNames : /\ v = sent[c][m].params[1].v
                              /\ jobs' = Append(jobs, [conn |-> c, msgid |-> m, payload |-> v])
                              /\ UNCHANGED <<replies, lost>>
  BY DEF Queues
<1> DEFINE job == [conn |-> c, msgid |-> m, payload |-> v]
<1>2. /\ UNCHANGED <<sent, open>> /\ m \in Nat \ {0} /\ handled[c] \in Nat
      /\ handled' \in [Conns -> Nat] /\ handled'[c] = m
      /\ \A d \in Conns : d # c => handled'[d] = handled[d]
      /\ \A d \in Conns : handled'[d] <= Len(sent[d])
      /\ 1 .. handled'[c] = (1 .. handled[c]) \union {m}
      /\ m \notin 1 .. handled[c]
  BY Counted
<1>3. jobs \in Seq(Jobs) /\ job \in Jobs /\ job.conn = c /\ job.msgid = m /\ job.payload = sent[c][m].params[1].v
  BY <1>1, <1>2 DEF TypeOK, Jobs
<1> HIDE DEF m
<1>4. jobs' = Append(jobs, job)
  BY <1>1
<1> HIDE DEF job
<1>5. /\ Len(jobs) \in Nat /\ DOMAIN jobs = 1 .. Len(jobs)
      /\ jobs' \in Seq(Jobs) /\ DOMAIN jobs' = 1 .. Len(jobs) + 1
      /\ \A i \in 1 .. Len(jobs) : jobs'[i] = jobs[i]
      /\ jobs'[Len(jobs) + 1] = job
  BY <1>3, <1>4, AppendProperties, LenProperties
<1>6. Queued(c)' = Queued(c) \union {m}
  <2>1. \A i \in DOMAIN jobs' : i \in DOMAIN jobs \/ i = Len(jobs) + 1
    BY <1>5
  <2>2. \A i \in DOMAIN jobs : i \in DOMAIN jobs' /\ jobs'[i] = jobs[i]
    BY <1>5
  <2>3. Len(jobs) + 1 \in DOMAIN jobs'
    BY <1>5
  <2> QED
    BY <1>3, <1>5, <2>1, <2>2, <2>3 DEF Queued
<1>7. \A d \in Conns : /\ d # c => Queued(d)' = Queued(d)
                       /\ Answered(d)' = Answered(d) /\ Lost(d)' = Lost(d)
  <2>1. \A d \in Conns : Answered(d)' = Answered(d) /\ Lost(d)' = Lost(d)
    BY <1>1 DEF Answered, Lost
  <2>2. ASSUME NEW d \in Conns, d # c
        PROVE  {j \in DOMAIN jobs' : jobs'[j].conn = d} = {j \in DOMAIN jobs : jobs[j].conn = d}
    BY <1>3, <1>5, <2>2
  <2>3. ASSUME NEW d \in Conns, d # c
        PROVE  Queued(d)' = Queued(d)
    BY <1>5, <2>2, <2>3 DEF Queued
  <2> QED
    BY <2>1, <2>3
<1>8. TypeOK'
  BY <1>1, <1>2, <1>5 DEF TypeOK, SampleInv, Jobs
<1>9. MsgidIsPlace'
  BY <1>2 DEF MsgidIsPlace
<1>10. RepliesInOrder'
  <2> SUFFICES ASSUME NEW d \in Conns PROVE Answered(d)' \subseteq 1 .. handled'[d]
    BY <1>1 DEF RepliesInOrder
  <2> QED
    BY <1>2, <1>7 DEF RepliesInOrder
<1>11. \A d \in Conns : /\ 1 .. handled'[d] = Answered(d)' \union Queued(d)' \union Lost(d)'
                        /\ Lost(d)' \intersect (Answered(d)' \union Queued(d)') = {}
  <2> TAKE d \in Conns
  <2>1. CASE d # c
    BY <1>2, <1>7, <2>1 DEF NoRequestForgotten
  <2>2. CASE d = c
    <3>1. m \notin Answered(c) /\ m \notin Lost(c)
      BY <1>2 DEF NoRequestForgotten
    <3> QED
      BY <1>2, <1>6, <1>7, <2>2, <3>1 DEF NoRequestForgotten
  <2> QED
    BY <2>1, <2>2
<1>12. ASSUME NEW d \in Conns, NEW i \in DOMAIN jobs', jobs'[i].conn = d
       PROVE  /\ jobs'[i].payload = sent[d][jobs'[i].msgid].params[1].v
              /\ \A j \in DOMAIN jobs' : jobs'[j].conn = d /\ jobs'[j].msgid = jobs'[i].msgid => i = j
  <2>1. \A j \in DOMAIN jobs : jobs[j].conn = c => jobs[j].msgid # m
    <3>1. \A j \in DOMAIN jobs : jobs[j].conn = c => jobs[j].msgid \in Queued(c)
      BY DEF Queued
    <3> QED
      BY <1>2, <3>1 DEF NoRequestForgotten
  <2>2. CASE i \in DOMAIN jobs
    <3>1. jobs'[i] = jobs[i] /\ \A j \in DOMAIN jobs : jobs'[j] = jobs[j]
      BY <1>5, <2>2
    <3>2. jobs[i].payload = sent[d][jobs[i].msgid].params[1].v
      BY <1>12, <2>2, <3>1 DEF NoRequestForgotten
    <3>3. \A j \in DOMAIN jobs : jobs[j].conn = d /\ jobs[j].msgid = jobs[i].msgid => i = j
      BY <1>12, <2>2, <3>1 DEF NoRequestForgotten
    <3>4. ~(job.conn = d /\ job.msgid = jobs[i].msgid)
      BY <1>3, <1>12, <2>1, <2>2, <3>1
    <3> QED
      BY <1>5, <3>1, <3>2, <3>3, <3>4
  <2>3. CASE i = Len(jobs) + 1
    BY <1>3, <1>5, <1>12, <2>1, <2>3
  <2> QED
    BY <1>5, <2>2, <2>3
<1>13. NoRequestForgotten'
  BY <1>2, <1>11, <1>12 DEF NoRequestForgotten
<1> QED
  BY <1>8, <1>9, <1>10, <1>13

\* Memory runs out.
LEMMA LosesKeeps ==
    ASSUME DispatchInv, NEW c \in Conns, DispatchRPCMessage(c), SampleInv', Loses(c, handled[c] + 1)
    PROVE  DispatchInv'
<1> USE DEF DispatchInv
<1> DEFINE m == handled[c] + 1
<1>1. lost' = lost \union {<<c, m>>} /\ UNCHANGED <<replies, jobs>>
  BY DEF Loses
<1>2. /\ UNCHANGED <<sent, open>> /\ m \in Nat \ {0} /\ handled[c] \in Nat
      /\ handled' \in [Conns -> Nat] /\ handled'[c] = m
      /\ \A d \in Conns : d # c => handled'[d] = handled[d]
      /\ \A d \in Conns : handled'[d] <= Len(sent[d])
      /\ 1 .. handled'[c] = (1 .. handled[c]) \union {m}
      /\ m \notin 1 .. handled[c]
  BY Counted
<1> HIDE DEF m
<1>3. \A d \in Conns : Answered(d)' = Answered(d) /\ Queued(d)' = Queued(d)
  BY <1>1 DEF Answered, Queued
<1>4. Lost(c)' = Lost(c) \union {m}
  <2> DEFINE mine == {l \in lost : l[1] = c}
  <2>1. {l \in lost' : l[1] = c} = mine \union {<<c, m>>}
    BY <1>1
  <2> HIDE DEF mine
  <2>2. {l[2] : l \in mine \union {<<c, m>>}} = {l[2] : l \in mine} \union {<<c, m>>[2]}
    OBVIOUS
  <2> QED
    BY <2>1, <2>2 DEF Lost, mine
<1>5. \A d \in Conns : d # c => Lost(d)' = Lost(d)
  <2>1. \A d \in Conns : d # c => {l \in lost' : l[1] = d} = {l \in lost : l[1] = d}
    BY <1>1
  <2> QED
    BY <2>1 DEF Lost
<1>6. TypeOK'
  <2>1. lost' \subseteq Conns \X (Nat \ {0})
    BY <1>1, <1>2 DEF TypeOK
  <2> QED
    BY <1>1, <1>2, <2>1 DEF TypeOK, SampleInv
<1>7. MsgidIsPlace'
  BY <1>2 DEF MsgidIsPlace
<1>8. RepliesInOrder'
  <2> SUFFICES ASSUME NEW d \in Conns PROVE Answered(d)' \subseteq 1 .. handled'[d]
    BY <1>1 DEF RepliesInOrder
  <2> QED
    BY <1>2, <1>3 DEF RepliesInOrder
<1>9. NoRequestForgotten'
  <2> SUFFICES ASSUME NEW d \in Conns
               PROVE  /\ 1 .. handled'[d] = Answered(d)' \union Queued(d)' \union Lost(d)'
                      /\ Lost(d)' \intersect (Answered(d)' \union Queued(d)') = {}
    BY <1>1, <1>2 DEF NoRequestForgotten
  <2>1. CASE d # c
    BY <1>2, <1>3, <1>5, <2>1 DEF NoRequestForgotten
  <2>2. CASE d = c
    <3>1. m \notin Answered(c) /\ m \notin Queued(c)
      BY <1>2 DEF NoRequestForgotten
    <3> QED
      BY <1>2, <1>3, <1>4, <2>2, <3>1 DEF NoRequestForgotten
  <2> QED
    BY <2>1, <2>2
<1> QED
  BY <1>6, <1>7, <1>8, <1>9

-----------------------------------------------------------------------------
\* Every step keeps the invariant.
LEMMA DispatchNext == DispatchInv /\ [Next]_vars => DispatchInv'
<1> SUFFICES ASSUME DispatchInv, [Next]_vars PROVE DispatchInv'
  OBVIOUS
<1>1. ASSUME NEW c \in Conns, DispatchRPCMessage(c)
      PROVE  DispatchInv'
  BY <1>1, HandlerOutcome, SendsKeeps, QueuesKeeps, LosesKeeps
<1>2. ASSUME NEW c \in Conns, NEW method \in Methods, NEW params \in ParamLists, Send(c, method, params)
      PROVE  DispatchInv'
  BY <1>2, SendKeeps
<1>3. ASSUME NEW c \in Conns, Close(c)
      PROVE  DispatchInv'
  BY <1>3, RestKeeps, SamplesUntouched DEF Close, DispatchInv
<1>4. CASE OtherCaller
  <2>1. SampleInv'
    BY <1>4, SampleNextInv DEF OtherCaller, DispatchInv
  <2> QED
    BY <1>4, <2>1, RestKeeps DEF OtherCaller
<1>5. CASE UNCHANGED vars
  BY <1>5, RestKeeps, SamplesUntouched DEF vars, DispatchInv
<1> QED
  BY <1>1, <1>2, <1>3, <1>4, <1>5 DEF Next

\* The invariant holds in every reachable state of the dispatcher.
THEOREM DispatchInvariance == Spec => []DispatchInv
  BY DispatchInit, DispatchNext, PTL DEF Spec

\* The types of requests, answers and jobs: every answer is under a msgid, with
\* one of the texts of the program in each field.
THEOREM DispatcherTypeCorrect == Spec => []TypeOK
<1>1. DispatchInv => TypeOK
  BY DEF DispatchInv
<1> QED
  BY <1>1, DispatchInvariance, PTL

\* A connection gets its answers in the order of its requests, whatever the
\* others ask and whichever answers are lost.
THEOREM AnswersInOrder == Spec => []RepliesInOrder
<1>1. DispatchInv => RepliesInOrder
  BY DEF DispatchInv
<1> QED
  BY <1>1, DispatchInvariance, PTL

\* DispatchRPCMessage forgets no request: an answer, a job of its own that
\* waits for the answer, or a loss for want of memory.
THEOREM SettledOnce == Spec => []NoRequestForgotten
<1>1. DispatchInv => NoRequestForgotten
  BY DEF DispatchInv
<1> QED
  BY <1>1, DispatchInvariance, PTL

\* The handlers of the dispatcher, between imports and other calls, leave the
\* list with the samples that are allocated, each once, and none that was freed.
THEOREM HandlersKeepSamples == Spec => []OwnsLive
<1>1. DispatchInv => OwnsLive
  BY DEF DispatchInv, SampleInv
<1> QED
  BY <1>1, DispatchInvariance, PTL
=============================================================================
