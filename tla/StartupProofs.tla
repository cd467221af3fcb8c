---------------------------- MODULE StartupProofs ---------------------------
(***************************************************************************)
(* The ports of Startup stay packed, for every finite set of processes,    *)
(* every first port and every set of ports others hold.                    *)
(***************************************************************************)
EXTENDS Startup, FiniteSetTheorems, TLAPS

\* The port a process tries or listens on.
Position(p) == IF phase[p] = "serving" THEN bound[p] ELSE port[p]

\* The processes at port k or beyond it, and the foreign ports before k.
Beyond(k)  == {p \in Procs : phase[p] \in {"search", "serving"} /\ Position(p) >= k}
Skipped(k) == Foreign \intersect (FirstPort .. k - 1)

(***************************************************************************)
(* The inductive invariant.  The search starts at FirstPort, because       *)
(* nothing but the file of FirstPort is ever written (OneFile).  A process *)
(* goes on to port k + 1 only when a foreign program or another process,   *)
(* which stays behind, holds k: so with each port that is not foreign one  *)
(* process less can be that far (Thinning).                                *)
(***************************************************************************)
OneFile ==
    /\ \A n \in Ports : instances[n] # NoProc => n = FirstPort
    /\ \A p \in Procs : phase[p] # "down" => instances[FirstPort] # NoProc

BoundServes ==
    \A p \in Procs : /\ phase[p] # "serving" => bound[p] = -1
                     /\ phase[p] = "search" => port[p] >= FirstPort

Thinning ==
    \A k \in FirstPort .. PortModulus : Beyond(k) # {} =>
        Cardinality(Beyond(k)) + (k - FirstPort) <= Cardinality(Procs) + Cardinality(Skipped(k))

IInv ==
    /\ TypeOK
    /\ OneFile
    /\ BoundServes
    /\ Thinning

-----------------------------------------------------------------------------
\* The sets that are counted are finite.
LEMMA Finite ==
    ASSUME NEW k
    PROVE  /\ Cardinality(Procs) \in Nat
           /\ IsFiniteSet(Beyond(k)) /\ Cardinality(Beyond(k)) \in Nat /\ Cardinality(Beyond(k)) <= Cardinality(Procs)
           /\ IsFiniteSet(Foreign) /\ Cardinality(Foreign) \in Nat
           /\ IsFiniteSet(Skipped(k)) /\ Cardinality(Skipped(k)) \in Nat /\ Cardinality(Skipped(k)) <= Cardinality(Foreign)
<1>1. IsFiniteSet(Procs) /\ Beyond(k) \in SUBSET Procs
  BY StartupAssumption DEF Beyond
<1>2. IsFiniteSet(0 .. PortModulus - 1)
  BY FS_Interval, StartupAssumption
<1>3. Foreign \in SUBSET (0 .. PortModulus - 1)
  BY StartupAssumption DEF Ports
<1>4. IsFiniteSet(Foreign)
  BY <1>2, <1>3, FS_Subset
<1>5. Skipped(k) \in SUBSET Foreign
  BY DEF Skipped
<1>6. IsFiniteSet(Beyond(k)) /\ Cardinality(Beyond(k)) <= Cardinality(Procs)
  BY <1>1, FS_Subset
<1>7. IsFiniteSet(Skipped(k)) /\ Cardinality(Skipped(k)) <= Cardinality(Foreign)
  BY <1>4, <1>5, FS_Subset
<1> QED
  BY <1>1, <1>4, <1>6, <1>7, FS_CardinalityType

\* A step after which no process is further on keeps the count.
LEMMA NotFurther ==
    ASSUME Thinning, \A k \in FirstPort + 1 .. PortModulus : Beyond(k)' \subseteq Beyond(k)
    PROVE  Thinning'
<1> SUFFICES ASSUME NEW k \in FirstPort .. PortModulus, Beyond(k)' # {}
             PROVE  Cardinality(Beyond(k)') + (k - FirstPort) <= Cardinality(Procs) + Cardinality(Skipped(k))
  BY DEF Thinning, Skipped
<1>1. FirstPort \in Nat /\ PortModulus \in Nat
  BY StartupAssumption
<1>2. Beyond(k)' \subseteq Procs
  BY DEF Beyond
<1>3. Cardinality(Beyond(k)') \in Nat /\ Cardinality(Beyond(k)') <= Cardinality(Procs)
  BY <1>2, FS_Subset, FS_CardinalityType, StartupAssumption
<1>4. CASE k = FirstPort
  BY <1>1, <1>3, <1>4, Finite
<1>5. CASE k # FirstPort
  <2>1. Beyond(k)' \in SUBSET Beyond(k)
    BY <1>1, <1>5
  <2>2. Cardinality(Beyond(k)') <= Cardinality(Beyond(k))
    BY <2>1, Finite, FS_Subset
  <2> QED
    BY <1>1, <1>3, <2>2, Finite DEF Thinning
<1> QED
  BY <1>4, <1>5

-----------------------------------------------------------------------------
\* The initial state satisfies the invariant: nobody is anywhere.
LEMMA InitIInv == Init => IInv
<1> SUFFICES ASSUME Init PROVE IInv
  OBVIOUS
<1>1. FirstPort \in 1 .. PortModulus - 1 /\ PortModulus \in Nat \ {0}
  BY StartupAssumption
<1>2. TypeOK
  BY <1>1 DEF Init, TypeOK, Ports
<1>3. OneFile /\ BoundServes
  BY <1>1 DEF Init, OneFile, BoundServes, Ports
<1>4. Thinning
  BY DEF Init, Thinning, Beyond
<1> QED
  BY <1>2, <1>3, <1>4 DEF IInv

-----------------------------------------------------------------------------
(* One lemma per step.                                                     *)

\* ContextNew writes the one file, whether it succeeds or not, and goes on or
\* dies at uv_loop_init.
LEMMA ContextNewKeeps ==
    ASSUME IInv, NEW p \in Procs, ContextNew(p) \/ ContextNewFails(p) \/ UvLoopInit(p) \/ UvLoopInitDies(p)
    PROVE  IInv'
<1> USE DEF IInv
<1>1. FirstPort \in Ports /\ NoProc # p
  BY StartupAssumption DEF Ports
<1>2. /\ UNCHANGED <<port, bound>>
      /\ \E f \in {"down", "loop", "registered"} : phase' = [phase EXCEPT ![p] = f]
      /\ phase[p] \in {"down", "loop", "registered"}
      /\ \/ instances' = [instances EXCEPT ![FirstPort] = p]
         \/ UNCHANGED instances /\ (phase[p] # "down" \/ phase'[p] = "down")
  BY DEF ContextNew, ContextNewFails, UvLoopInit, UvLoopInitDies, TypeOK
<1>3. TypeOK'
  BY <1>1, <1>2 DEF TypeOK, Ports
<1>4. OneFile'
  <2>1. CASE instances' = [instances EXCEPT ![FirstPort] = p]
    BY <1>1, <1>2, <2>1 DEF OneFile, TypeOK
  <2>2. CASE UNCHANGED instances /\ (phase[p] # "down" \/ phase'[p] = "down")
    BY <1>2, <2>2 DEF OneFile, TypeOK
  <2> QED
    BY <1>2, <2>1, <2>2
<1>5. BoundServes'
  BY <1>2 DEF BoundServes, TypeOK
<1>6. \A k \in FirstPort + 1 .. PortModulus : Beyond(k)' \subseteq Beyond(k)
  BY <1>2 DEF Beyond, Position, TypeOK
<1>7. Thinning'
  BY <1>6, NotFurther
<1> QED
  BY <1>3, <1>4, <1>5, <1>7

\* The largest port with a file is FirstPort: the search starts there.
LEMMA LastPortKeeps ==
    ASSUME IInv, NEW p \in Procs, InstanceRegistryGetLastPort(p)
    PROVE  IInv'
<1> USE DEF IInv
<1> DEFINE files == {n \in Ports \ {0} : instances[n] # NoProc}
<1>1. FirstPort \in Ports \ {0} /\ FirstPort \in Nat /\ PortModulus \in Nat /\ FirstPort <= PortModulus
  BY StartupAssumption DEF Ports
<1>2. files = {FirstPort}
  BY <1>1 DEF OneFile, InstanceRegistryGetLastPort
<1>3. Max(files) = FirstPort
  BY <1>1, <1>2 DEF Max
<1>4. /\ port' = [port EXCEPT ![p] = FirstPort] /\ phase' = [phase EXCEPT ![p] = "search"]
      /\ phase[p] = "registered" /\ UNCHANGED <<bound, instances>>
  BY <1>2, <1>3 DEF InstanceRegistryGetLastPort
<1> HIDE DEF files
<1>5. TypeOK'
  BY <1>1, <1>4 DEF TypeOK
<1>6. OneFile' /\ BoundServes'
  BY <1>1, <1>4 DEF OneFile, BoundServes, TypeOK
<1>7. \A k \in FirstPort + 1 .. PortModulus : Beyond(k)' \subseteq Beyond(k)
  BY <1>1, <1>4 DEF Beyond, Position, TypeOK
<1> QED
  BY <1>5, <1>6, <1>7, NotFurther

\* The server listens on the port that was tried, or, for port 0, on any other.
LEMMA ListenKeeps ==
    ASSUME IInv, NEW p \in Procs, Listen(p)
    PROVE  IInv'
<1> USE DEF IInv
<1>1. PICK n \in Free : /\ n = port[p] % PortModulus \/ port[p] % PortModulus = 0
                        /\ bound' = [bound EXCEPT ![p] = n]
  BY DEF Listen
<1>2. phase[p] = "search" /\ phase' = [phase EXCEPT ![p] = "serving"] /\ UNCHANGED <<port, instances>>
  BY DEF Listen
<1>3. n \in Ports \ {0} /\ FirstPort \in 1 .. PortModulus - 1 /\ PortModulus \in Nat \ {0}
  BY StartupAssumption DEF Free
<1>4. port[p] \in FirstPort .. PortModulus
  BY <1>2, <1>3 DEF TypeOK, BoundServes
<1>5. n <= port[p]
  <2>1. CASE port[p] = PortModulus
    BY <1>3, <2>1 DEF Ports
  <2>2. CASE port[p] # PortModulus
    <3>1. port[p] \in 1 .. PortModulus - 1
      BY <1>3, <1>4, <2>2
    <3>2. port[p] % PortModulus = port[p]
      BY <1>3, <3>1
    <3> QED
      BY <1>1, <3>1, <3>2
  <2> QED
    BY <2>1, <2>2
<1>6. TypeOK'
  BY <1>1, <1>2, <1>3 DEF TypeOK
<1>7. OneFile' /\ BoundServes'
  BY <1>1, <1>2 DEF OneFile, BoundServes, TypeOK
<1>8. \A k \in FirstPort + 1 .. PortModulus : Beyond(k)' \subseteq Beyond(k)
  BY <1>1, <1>2, <1>3, <1>4, <1>5 DEF Beyond, Position, TypeOK, Ports
<1> QED
  BY <1>6, <1>7, <1>8, NotFurther

\* A process that fails or goes leaves the count of those that are there.
LEMMA GoesKeeps ==
    ASSUME IInv, NEW p \in Procs, StartFails(p) \/ Exit(p)
    PROVE  IInv'
<1> USE DEF IInv
<1>1. /\ phase' = [phase EXCEPT ![p] = "down"] /\ UNCHANGED <<port, instances>>
      /\ bound' = [bound EXCEPT ![p] = -1]
  BY DEF StartFails, Exit, BoundServes, TypeOK
<1>2. TypeOK'
  BY <1>1 DEF TypeOK
<1>3. OneFile' /\ BoundServes'
  BY <1>1 DEF OneFile, BoundServes, TypeOK
<1>4. \A k \in FirstPort + 1 .. PortModulus : Beyond(k)' \subseteq Beyond(k)
  BY <1>1 DEF Beyond, Position, TypeOK
<1> QED
  BY <1>2, <1>3, <1>4, NotFurther

\* The search goes on to the next port: either the port it leaves is foreign, or
\* the process that holds it stays behind.
LEMMA TryNextKeeps ==
    ASSUME IInv, NEW p \in Procs, TryNext(p)
    PROVE  IInv'
<1> USE DEF IInv
<1>1. FirstPort \in 1 .. PortModulus - 1 /\ PortModulus \in Nat \ {0}
  BY StartupAssumption
<1>0. PICK k : k = port[p]
  OBVIOUS
<1>2. /\ phase[p] = "search" /\ k % PortModulus \notin Free \union {0}
      /\ port' = [port EXCEPT ![p] = k + 1] /\ UNCHANGED <<phase, bound, instances>>
  BY <1>0 DEF TryNext
<1>3. k \in FirstPort .. PortModulus - 1 /\ k % PortModulus = k
  <2>1. k \in FirstPort .. PortModulus
    BY <1>0, <1>1, <1>2 DEF TypeOK, BoundServes
  <2>2. k # PortModulus
    BY <1>1, <1>2
  <2>3. k \in FirstPort .. PortModulus - 1
    BY <1>1, <2>1, <2>2
  <2> QED
    BY <1>1, <2>3
<1>4. k \in Foreign \/ \E q \in Procs : bound[q] = k
  BY <1>1, <1>2, <1>3 DEF Free, Ports
<1>5. TypeOK'
  BY <1>1, <1>2, <1>3 DEF TypeOK
<1>6. OneFile' /\ BoundServes'
  BY <1>0, <1>1, <1>2, <1>3 DEF OneFile, BoundServes, TypeOK
<1>7. p \in Beyond(k)
  BY <1>0, <1>1, <1>2, <1>3 DEF Beyond, Position
<1>8. ASSUME NEW j \in FirstPort .. PortModulus, j # k + 1
      PROVE  Beyond(j)' \subseteq Beyond(j)
  BY <1>0, <1>1, <1>2, <1>3, <1>8 DEF Beyond, Position, TypeOK
<1>9. Beyond(k + 1)' \subseteq Beyond(k)
  <2> SUFFICES ASSUME NEW q \in Procs, q \in Beyond(k + 1)'
               PROVE  q \in Beyond(k)
    BY DEF Beyond
  <2>1. CASE q = p
    BY <1>7, <2>1
  <2>2. CASE q # p
    <3>1. phase'[q] = phase[q] /\ bound'[q] = bound[q] /\ port'[q] = port[q]
      BY <1>2, <2>2 DEF TypeOK
    <3>2. phase[q] \in {"search", "serving"} /\ Position(q) >= k + 1
      BY <3>1 DEF Beyond, Position
    <3>3. Position(q) \in Int /\ k \in Int
      BY <1>1, <1>3 DEF Position, TypeOK, Ports
    <3>4. Position(q) >= k
      BY <3>2, <3>3
    <3> QED
      BY <3>2, <3>4 DEF Beyond
  <2> QED
    BY <2>1, <2>2
<1>10. Cardinality(Beyond(k)) + (k - FirstPort) <= Cardinality(Procs) + Cardinality(Skipped(k))
  BY <1>1, <1>3, <1>7 DEF Thinning
<1>11. Cardinality(Beyond(k + 1)') + (k + 1 - FirstPort) <= Cardinality(Procs) + Cardinality(Skipped(k + 1))
  <2>1. Beyond(k + 1)' \in SUBSET Beyond(k) /\ IsFiniteSet(Beyond(k))
    BY <1>9, Finite
  <2>2. IsFiniteSet(Beyond(k + 1)') /\ Cardinality(Beyond(k + 1)') <= Cardinality(Beyond(k))
    BY <2>1, FS_Subset
  <2>3. Cardinality(Beyond(k + 1)') \in Nat
    BY <2>2, FS_CardinalityType
  <2>4. CASE k \in Foreign
    <3>1. Skipped(k + 1) = Skipped(k) \union {k} /\ k \notin Skipped(k)
      BY <1>1, <1>3, <2>4 DEF Skipped
    <3>2. Cardinality(Skipped(k + 1)) = Cardinality(Skipped(k)) + 1
      BY <3>1, Finite, FS_AddElement
    <3> QED
      BY <1>1, <1>3, <1>10, <2>2, <2>3, <3>2, Finite
  <2>5. CASE k \notin Foreign
    <3>1. PICK q \in Procs : bound[q] = k
      BY <1>4, <2>5
    <3>2. phase[q] = "serving"
      BY <1>1, <1>3, <3>1 DEF BoundServes
    <3>3. q \in Beyond(k) /\ q \notin Beyond(k + 1)'
      BY <1>1, <1>2, <1>3, <3>1, <3>2 DEF Beyond, Position
    <3>4. Beyond(k + 1)' \union {q} \in SUBSET Beyond(k)
      BY <2>1, <3>3
    <3>5. Cardinality(Beyond(k + 1)' \union {q}) = Cardinality(Beyond(k + 1)') + 1
      BY <2>2, <3>3, FS_AddElement
    <3>6. Cardinality(Beyond(k + 1)' \union {q}) <= Cardinality(Beyond(k))
      BY <2>1, <3>4, FS_Subset
    <3>7. Skipped(k + 1) = Skipped(k)
      BY <1>1, <1>3, <2>5 DEF Skipped
    <3> QED
      BY <1>1, <1>3, <1>10, <2>3, <3>5, <3>6, <3>7, Finite
  <2> QED
    BY <2>4, <2>5
<1>12. Thinning'
  <2> SUFFICES ASSUME NEW j \in FirstPort .. PortModulus, Beyond(j)' # {}
               PROVE  Cardinality(Beyond(j)') + (j - FirstPort) <= Cardinality(Procs) + Cardinality(Skipped(j))
    BY DEF Thinning, Skipped
  <2>1. CASE j = k + 1
    <3>1. Beyond(j)' = Beyond(k + 1)' /\ Skipped(j) = Skipped(k + 1)
      BY <2>1 DEF Beyond, Skipped
    <3>2. /\ Cardinality(Beyond(j)') = Cardinality(Beyond(k + 1)')
          /\ Cardinality(Skipped(j)) = Cardinality(Skipped(k + 1))
      BY <3>1
    <3>3. j - FirstPort = k + 1 - FirstPort
      BY <1>1, <1>3, <2>1
    <3> QED
      BY ONLY <1>11, <3>2, <3>3
  <2>2. CASE j # k + 1
    <3>1. Beyond(j)' \in SUBSET Beyond(j) /\ Beyond(j) # {} /\ IsFiniteSet(Beyond(j))
      BY <1>8, <2>2, Finite
    <3>2. IsFiniteSet(Beyond(j)') /\ Cardinality(Beyond(j)') <= Cardinality(Beyond(j))
      BY <3>1, FS_Subset
    <3>3. Cardinality(Beyond(j)') \in Nat
      BY <3>2, FS_CardinalityType
    <3>4. Cardinality(Beyond(j)) + (j - FirstPort) <= Cardinality(Procs) + Cardinality(Skipped(j))
      BY <3>1 DEF Thinning
    <3> QED
      BY <1>1, <3>2, <3>3, <3>4, Finite
  <2> QED
    BY <2>1, <2>2
<1> QED
  BY <1>5, <1>6, <1>12

-----------------------------------------------------------------------------
\* Every step keeps the invariant.
LEMMA NextIInv == IInv /\ [Next]_vars => IInv'
<1> SUFFICES ASSUME IInv, [Next]_vars PROVE IInv'
  OBVIOUS
<1>1. CASE UNCHANGED vars
  BY <1>1 DEF vars, IInv, TypeOK, OneFile, BoundServes, Thinning, Beyond, Position, Skipped
<1>2. CASE Next
  BY <1>2, ContextNewKeeps, LastPortKeeps, TryNextKeeps, ListenKeeps, GoesKeeps DEF Next, Starting
<1> QED
  BY <1>1, <1>2

\* The invariant holds in every reachable state.
THEOREM Invariance == Spec => []IInv
  BY InitIInv, NextIInv, PTL DEF Spec

\* The types of the variables of main: port stops at the modulus, where
\* HazeServerNew would take it for port 0.
THEOREM TypeCorrect == Spec => []TypeOK
<1>1. IInv => TypeOK
  BY DEF IInv
<1> QED
  BY <1>1, Invariance, PTL

\* However processes come and go, a server listens on one of the first ports
\* from FirstPort on that others leave.
THEOREM PortsStayPacked == Spec => []PortsPacked
<1>1. ASSUME IInv PROVE PortsPacked
  <2> SUFFICES ASSUME NEW p \in Procs, phase[p] = "serving"
               PROVE  bound[p] - FirstPort < Cardinality(Procs) + Cardinality(Foreign)
    BY DEF PortsPacked
  <2> DEFINE k == bound[p]
  <2>1. FirstPort \in 1 .. PortModulus - 1 /\ PortModulus \in Nat \ {0}
    BY StartupAssumption
  <2>2. k \in {-1} \union (0 .. PortModulus - 1)
    BY <1>1 DEF IInv, TypeOK, Ports
  <2>3. {p} \in SUBSET Procs /\ IsFiniteSet(Procs) /\ Cardinality({p}) = 1
    BY StartupAssumption, FS_Singleton
  <2>4. Cardinality(Procs) >= 1
    BY <2>3, FS_Subset
  <2>5. CASE k < FirstPort
    BY <2>1, <2>2, <2>4, <2>5, Finite
  <2>6. CASE k >= FirstPort
    <3>1. k \in FirstPort .. PortModulus
      BY <2>1, <2>2, <2>6
    <3>2. p \in Beyond(k)
      BY <3>1, <2>1 DEF Beyond, Position
    <3>3. Cardinality(Beyond(k)) + (k - FirstPort) <= Cardinality(Procs) + Cardinality(Skipped(k))
      BY <1>1, <3>1, <3>2 DEF IInv, Thinning
    <3>4. Cardinality(Beyond(k)) >= 1
      <4>1. {p} \in SUBSET Beyond(k)
        BY <3>2
      <4> QED
        BY <2>3, <4>1, Finite, FS_Subset
    <3> HIDE DEF k
    <3>5. k - FirstPort < Cardinality(Procs) + Cardinality(Foreign)
      BY <2>1, <3>1, <3>3, <3>4, Finite
    <3> QED
      BY <3>5 DEF k
  <2> QED
    BY <2>1, <2>2, <2>5, <2>6
<1> QED
  BY <1>1, Invariance, PTL
=============================================================================
