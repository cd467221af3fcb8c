------------------------- MODULE AudioSessionProofs -------------------------
(***************************************************************************)
(* The safety properties of AudioSession, for every set of samples and     *)
(* channels.                                                               *)
(***************************************************************************)
EXTENDS AudioSession, TLAPS

(***************************************************************************)
(* The inductive invariant.  SoundsLive needs the state of the sound at    *)
(* every stage of a sample's life (SoundStages), and that the session, and *)
(* with it the engine, outlives whatever is allocated (PartsInOrder).      *)
(***************************************************************************)

\* The sample an import or a delete works on, and the parts it relies on.
AtSample == at \in {"init", "link", "free", "release", "end free", "end release"}

WorkedOn ==
    /\ AtSample => node \in Samples
    /\ ~AtSample => node = NoNode
    /\ at \in {"init", "link"} => node \notin linked /\ unnamed = {}
    /\ unnamed \subseteq {node}

\* The session needs the engine, everything else the session; once the server
\* runs the context is whole.
PartsInOrder ==
    /\ "session" \in held => "engine" \in held
    /\ held \intersect {"samplelist", "channellist"} # {} \/ heap # {} => "session" \in held
    /\ at \in {"up", "init", "link", "free", "release"} => held = Parts

\* A channel that is allocated is in its list.
ChannelsOwned == heap \intersect Channels = linked \intersect Channels

\* The sound of a sample at each stage of its life.
SoundStages ==
    /\ \A s \in Samples : s \notin heap => sound[s] = "none"
    /\ \A s \in Samples : s \in linked /\ s # node => sound[s] = "inited"
    /\ at = "init" => sound[node] = "none"
    /\ at = "link" => sound[node] = "inited"
    /\ at \in {"free", "end free"} =>
        sound[node] \in {"none", "inited"} \/ (sound[node] = "uninited" /\ node \in unnamed)
    /\ at \in {"release", "end release"} =>
        sound[node] \in {"none", "uninited"} \/ (sound[node] = "twice" /\ node \in unnamed)

IInv ==
    /\ TypeOK
    /\ WorkedOn
    /\ PartsInOrder
    /\ SamplesOwned
    /\ ChannelsOwned
    /\ SoundStages
    /\ AudioFreed

-----------------------------------------------------------------------------
(* The parts of a context.                                                 *)

\* What there is when the next part is made.
LEMMA NextPart ==
    ASSUME NEW p, IsNext(p)
    PROVE  /\ p \in Parts
           /\ p # "engine" => "engine" \in held
           /\ p # "engine" /\ p # "session" => "session" \in held
<1>1. PICK i \in 1 .. 8 : p = Order[i] /\ \A j \in 1 .. i - 1 : Order[j] \in held
  BY DEF IsNext
<1>2. p \in Parts
  BY <1>1 DEF Parts
<1>3. Order[1] = "engine" /\ Order[2] = "session"
  BY DEF Order
<1>4. p # "engine" => 1 \in 1 .. i - 1
  BY <1>1, <1>3
<1>5. p # "engine" /\ p # "session" => 2 \in 1 .. i - 1
  BY <1>1, <1>3
<1> QED
  BY <1>1, <1>2, <1>3, <1>4, <1>5

\* The parts, one by one.
LEMMA PartNames ==
    Parts = {"engine", "session", "samplelist", "channellist", "paths", "registry", "requests", "results"}
<1>1. \A i \in 1 .. 8 : i = 1 \/ i = 2 \/ i = 3 \/ i = 4 \/ i = 5 \/ i = 6 \/ i = 7 \/ i = 8
  OBVIOUS
<1> QED
  BY <1>1 DEF Parts, Order

-----------------------------------------------------------------------------
\* The invariant holds before ContextNew.
LEMMA InitIInv == Init => IInv
<1> SUFFICES ASSUME Init PROVE IInv
  OBVIOUS
<1>1. TypeOK
  BY DEF Init, TypeOK, SoundStates
<1>2. WorkedOn /\ PartsInOrder /\ SamplesOwned /\ ChannelsOwned /\ AudioFreed
  BY DEF Init, WorkedOn, AtSample, PartsInOrder, SamplesOwned, ChannelsOwned, AudioFreed
<1>3. SoundStages
  BY DEF Init, SoundStages, Nodes
<1> QED
  BY <1>1, <1>2, <1>3 DEF IInv

\* A part is made.
LEMMA MakeKeeps ==
    ASSUME NEW p, IInv, Make(p)
    PROVE  IInv'
<1> USE DEF IInv, Make
<1>1. p \in Parts /\ (p # "engine" => "engine" \in held) /\ (p # "engine" /\ p # "session" => "session" \in held)
  BY NextPart
<1>2. TypeOK'
  BY <1>1 DEF TypeOK
<1>3. WorkedOn' /\ SamplesOwned' /\ ChannelsOwned' /\ AudioFreed'
  BY DEF WorkedOn, AtSample, SamplesOwned, ChannelsOwned, AudioFreed
<1>4. PartsInOrder'
  BY <1>1 DEF PartsInOrder
<1>5. SoundStages'
  BY DEF SoundStages
<1> QED
  BY <1>2, <1>3, <1>4, <1>5

\* The registry is made, or leaves its strings behind.
LEMMA RegistryKeeps ==
    ASSUME IInv, InstanceRegistryNew \/ InstanceRegistryFails
    PROVE  IInv'
<1> USE DEF IInv, InstanceRegistryNew, InstanceRegistryFails
<1>1. "engine" \in held /\ "session" \in held
  BY NextPart
<1>2. TypeOK'
  BY PartNames DEF TypeOK, Strings
<1>3. WorkedOn' /\ SamplesOwned' /\ ChannelsOwned' /\ AudioFreed'
  BY DEF WorkedOn, AtSample, SamplesOwned, ChannelsOwned, AudioFreed
<1>4. PartsInOrder'
  BY <1>1 DEF PartsInOrder, Strings
<1>5. SoundStages'
  BY DEF SoundStages
<1> QED
  BY <1>2, <1>3, <1>4, <1>5

\* A channel is made and put in its list, with the list or later.
LEMMA ChannelKeeps ==
    ASSUME NEW c \in Channels, IInv, ChannelListNew(c) \/ ChannelListAdd(c) \/ ChannelRenameFails(c)
    PROVE  IInv'
<1> USE DEF IInv
<1> c \notin Samples /\ c \in Nodes
  BY AudioSessionAssumption DEF Nodes
<1>1. CASE ChannelListNew(c)
  <2> USE <1>1 DEF ChannelListNew
  <2>1. "engine" \in held /\ "session" \in held
    BY NextPart
  <2>2. TypeOK'
    BY PartNames DEF TypeOK, SoundStates
  <2>3. WorkedOn' /\ AudioFreed'
    BY AudioSessionAssumption DEF WorkedOn, AtSample, AudioFreed
  <2>4. PartsInOrder'
    BY <2>1 DEF PartsInOrder
  <2>5. SamplesOwned' /\ ChannelsOwned'
    BY DEF SamplesOwned, ChannelsOwned
  <2>6. SoundStages'
    <3>1. \A s \in Samples : sound'[s] = sound[s] /\ (s \in heap' <=> s \in heap) /\ (s \in linked' <=> s \in linked)
      BY DEF TypeOK
    <3> QED
      BY <3>1 DEF SoundStages
  <2> QED
    BY <2>2, <2>3, <2>4, <2>5, <2>6
<1>2. CASE ChannelListAdd(c)
  <2> USE <1>2 DEF ChannelListAdd
  <2>1. held = Parts /\ "session" \in held
    BY PartNames DEF PartsInOrder
  <2>2. TypeOK'
    BY DEF TypeOK, SoundStates
  <2>3. WorkedOn' /\ AudioFreed'
    BY AudioSessionAssumption DEF WorkedOn, AtSample, AudioFreed
  <2>4. PartsInOrder'
    BY <2>1 DEF PartsInOrder
  <2>5. SamplesOwned' /\ ChannelsOwned'
    BY DEF SamplesOwned, ChannelsOwned
  <2>6. SoundStages'
    <3>1. \A s \in Samples : sound'[s] = sound[s] /\ (s \in heap' <=> s \in heap) /\ (s \in linked' <=> s \in linked)
      BY DEF TypeOK
    <3> QED
      BY <3>1 DEF SoundStages
  <2> QED
    BY <2>2, <2>3, <2>4, <2>5, <2>6
<1>3. CASE ChannelRenameFails(c)
  <2> USE <1>3 DEF ChannelRenameFails
  <2>1. TypeOK'
    BY DEF TypeOK, SoundStates
  <2>2. WorkedOn' /\ AudioFreed' /\ PartsInOrder' /\ SamplesOwned' /\ ChannelsOwned'
    BY DEF WorkedOn, AtSample, AudioFreed, PartsInOrder, SamplesOwned, ChannelsOwned
  <2>3. SoundStages'
    <3>1. \A s \in Samples : sound'[s] = sound[s]
      BY DEF TypeOK
    <3> QED
      BY <3>1 DEF SoundStages
  <2> QED
    BY <2>1, <2>2, <2>3
<1> QED
  BY <1>1, <1>2, <1>3

\* The steps that change only where the main thread is.
LEMMA MovesKeep ==
    ASSUME IInv, MakeFails \/ ContextNewReturns \/ Shutdown \/ InitFails \/ LinkFails \/ UvLoopInit \/ UvLoopInitDies
    PROVE  IInv'
<1> USE DEF IInv
<1> at' # "down" /\ UNCHANGED <<node, held, heap, sound, linked, unnamed>>
  BY DEF MakeFails, ContextNewReturns, Shutdown, InitFails, LinkFails, UvLoopInit, UvLoopInitDies
<1>1. TypeOK'
  BY DEF TypeOK, MakeFails, ContextNewReturns, Shutdown, InitFails, LinkFails, UvLoopInit, UvLoopInitDies
<1>2. WorkedOn'
  BY DEF WorkedOn, AtSample, MakeFails, ContextNewReturns, Shutdown, InitFails, LinkFails, UvLoopInit, UvLoopInitDies
<1>3. PartsInOrder'
  BY DEF PartsInOrder, MakeFails, ContextNewReturns, Shutdown, InitFails, LinkFails, UvLoopInit, UvLoopInitDies
<1>4. SamplesOwned' /\ ChannelsOwned' /\ AudioFreed'
  BY DEF SamplesOwned, ChannelsOwned, AudioFreed
<1>5. SoundStages'
  BY DEF SoundStages, MakeFails, ContextNewReturns, Shutdown, InitFails, LinkFails, UvLoopInit, UvLoopInitDies
<1> QED
  BY <1>1, <1>2, <1>3, <1>4, <1>5

\* SampleNew, and a sample that is to be freed.
LEMMA TakeKeeps ==
    ASSUME NEW s \in Samples, IInv, SampleNew(s) \/ DeleteSample(s) \/ FreeNextSample(s)
    PROVE  IInv'
<1> USE DEF IInv
<1> s \in Nodes /\ s # NoNode /\ s \notin Channels
  BY AudioSessionAssumption DEF Nodes
<1> node = NoNode /\ unnamed = {} /\ NoNode \notin linked
  BY AudioSessionAssumption DEF WorkedOn, AtSample, SampleNew, DeleteSample, FreeNextSample, Inner, TypeOK, Nodes
<1>1. CASE SampleNew(s)
  <2> USE <1>1 DEF SampleNew
  <2>1. s \notin linked /\ s \notin heap /\ sound[s] = "none" /\ "session" \in held
    BY PartNames DEF SamplesOwned, Fresh, PartsInOrder
  <2>2. TypeOK'
    BY DEF TypeOK
  <2>3. WorkedOn' /\ PartsInOrder' /\ AudioFreed'
    BY <2>1 DEF WorkedOn, AtSample, PartsInOrder, AudioFreed
  <2>4. SamplesOwned' /\ ChannelsOwned'
    BY <2>1 DEF SamplesOwned, ChannelsOwned
  <2>5. SoundStages'
    BY <2>1 DEF SoundStages
  <2> QED
    BY <2>2, <2>3, <2>4, <2>5
<1>2. CASE DeleteSample(s)
  <2> USE <1>2 DEF DeleteSample
  <2>1. TypeOK'
    BY DEF TypeOK
  <2>2. WorkedOn' /\ PartsInOrder' /\ AudioFreed'
    BY DEF WorkedOn, AtSample, PartsInOrder, AudioFreed
  <2>3. SamplesOwned' /\ ChannelsOwned'
    BY DEF SamplesOwned, ChannelsOwned
  <2>4. SoundStages'
    BY DEF SoundStages
  <2> QED
    BY <2>1, <2>2, <2>3, <2>4
<1>3. CASE FreeNextSample(s)
  <2> USE <1>3 DEF FreeNextSample, Inner
  <2>1. TypeOK'
    BY DEF TypeOK
  <2>2. WorkedOn' /\ PartsInOrder' /\ AudioFreed'
    BY DEF WorkedOn, AtSample, PartsInOrder, AudioFreed
  <2>3. SamplesOwned' /\ ChannelsOwned'
    BY DEF SamplesOwned, ChannelsOwned
  <2>4. SoundStages'
    BY DEF SoundStages
  <2> QED
    BY <2>1, <2>2, <2>3, <2>4
<1> QED
  BY <1>1, <1>2, <1>3

\* The steps of an import and of SampleFree on their sample.
LEMMA SampleKeeps ==
    ASSUME IInv, SampleInitFromFile \/ NameFails \/ Link \/ SampleUninit \/ SampleRelease
    PROVE  IInv'
<1> USE DEF IInv
<1> AtSample /\ node \in Samples /\ node \in Nodes /\ node \in heap /\ node # NoNode /\ node \notin Channels
  BY AudioSessionAssumption
  DEF WorkedOn, AtSample, SampleInitFromFile, NameFails, Link, SampleUninit, SampleRelease, SamplesOwned, Nodes
<1>1. CASE SampleInitFromFile
  <2> USE <1>1 DEF SampleInitFromFile
  <2>1. TypeOK'
    BY DEF TypeOK, SoundStates
  <2>2. WorkedOn' /\ PartsInOrder' /\ AudioFreed' /\ SamplesOwned' /\ ChannelsOwned'
    BY DEF WorkedOn, AtSample, PartsInOrder, AudioFreed, SamplesOwned, ChannelsOwned
  <2>3. SoundStages'
    BY DEF SoundStages, TypeOK
  <2> QED
    BY <2>1, <2>2, <2>3
<1>2. CASE NameFails
  <2> USE <1>2 DEF NameFails, Uninit
  <2>1. sound' = [sound EXCEPT ![node] = "uninited"]
    BY DEF SoundStages
  <2>2. TypeOK'
    BY <2>1 DEF TypeOK, SoundStates
  <2>3. WorkedOn' /\ PartsInOrder' /\ AudioFreed' /\ SamplesOwned' /\ ChannelsOwned'
    BY DEF WorkedOn, AtSample, PartsInOrder, AudioFreed, SamplesOwned, ChannelsOwned
  <2>4. SoundStages'
    BY <2>1 DEF SoundStages, TypeOK
  <2> QED
    BY <2>2, <2>3, <2>4
<1>3. CASE Link
  <2> USE <1>3 DEF Link
  <2>1. TypeOK'
    BY DEF TypeOK
  <2>2. WorkedOn' /\ PartsInOrder' /\ AudioFreed'
    BY DEF WorkedOn, AtSample, PartsInOrder, AudioFreed
  <2>3. SamplesOwned' /\ ChannelsOwned'
    BY DEF SamplesOwned, ChannelsOwned
  <2>4. SoundStages'
    BY DEF SoundStages
  <2> QED
    BY <2>1, <2>2, <2>3, <2>4
<1>4. CASE SampleUninit
  <2> USE <1>4 DEF SampleUninit, Uninit
  <2>1. \/ sound' = [sound EXCEPT ![node] = "none"]
        \/ sound' = [sound EXCEPT ![node] = "uninited"]
        \/ sound' = [sound EXCEPT ![node] = "twice"] /\ node \in unnamed
    BY DEF SoundStages
  <2>2. TypeOK'
    BY <2>1 DEF TypeOK, SoundStates
  <2>3. WorkedOn' /\ PartsInOrder' /\ AudioFreed' /\ SamplesOwned' /\ ChannelsOwned'
    BY DEF WorkedOn, AtSample, PartsInOrder, AudioFreed, SamplesOwned, ChannelsOwned
  <2>4. SoundStages'
    <3>1. \A s \in Samples : s # node => sound'[s] = sound[s]
      BY <2>1 DEF TypeOK, Nodes
    <3>2. sound'[node] \in {"none", "uninited"} \/ (sound'[node] = "twice" /\ node \in unnamed)
      BY <2>1 DEF TypeOK
    <3>3. at' \in {"release", "end release"}
      OBVIOUS
    <3> HIDE DEF SampleUninit
    <3>4. UNCHANGED <<node, heap, linked, unnamed>>
      BY DEF SampleUninit
    <3> QED
      BY <3>1, <3>2, <3>3, <3>4 DEF SoundStages
  <2> QED
    BY <2>2, <2>3, <2>4
<1>5. CASE SampleRelease
  <2> USE <1>5 DEF SampleRelease, Back
  <2>1. sound' = [sound EXCEPT ![node] = "none"]
    BY DEF SoundStages, Forget
  <2>2. TypeOK'
    BY <2>1 DEF TypeOK, SoundStates
  <2>3. WorkedOn' /\ PartsInOrder' /\ AudioFreed'
    BY DEF WorkedOn, AtSample, PartsInOrder, AudioFreed
  <2>4. SamplesOwned' /\ ChannelsOwned'
    BY DEF SamplesOwned, ChannelsOwned
  <2>5. SoundStages'
    <3>1. \A s \in Samples : s # node => sound'[s] = sound[s] /\ (s \in heap' <=> s \in heap) /\ (s \in linked' => s \in linked)
      BY <2>1 DEF TypeOK, Nodes
    <3>2. sound'[node] = "none" /\ node \notin linked' /\ at' \in {"up", "end"}
      BY <2>1 DEF TypeOK, Nodes
    <3> HIDE DEF SampleRelease
    <3> QED
      BY <3>1, <3>2 DEF SoundStages
  <2> QED
    BY <2>2, <2>3, <2>4, <2>5
<1> QED
  BY <1>1, <1>2, <1>3, <1>4, <1>5

\* The steps of ContextFree besides SampleListFree.
LEMMA FreeKeeps ==
    ASSUME IInv, InstanceRegistryFree \/ PathsFree \/ SessionFree \/ AudioEngineFree \/ ContextFreeReturns
    PROVE  IInv'
<1> USE DEF IInv, Inner
<1> node = NoNode /\ node \notin Samples /\ at = "end"
  BY AudioSessionAssumption
  DEF WorkedOn, AtSample, InstanceRegistryFree, PathsFree, SessionFree, AudioEngineFree, ContextFreeReturns, Nodes
<1>1. CASE InstanceRegistryFree \/ PathsFree
  <2> USE <1>1 DEF InstanceRegistryFree, PathsFree
  <2>1. TypeOK' /\ WorkedOn' /\ PartsInOrder'
    BY DEF TypeOK, WorkedOn, AtSample, PartsInOrder
  <2>2. SamplesOwned' /\ ChannelsOwned' /\ SoundStages' /\ AudioFreed'
    BY DEF SamplesOwned, ChannelsOwned, SoundStages, AudioFreed
  <2> QED
    BY <2>1, <2>2
<1>2. CASE SessionFree
  <2> USE <1>2 DEF SessionFree
  <2>1. heap' = {}
    <3>1. heap \intersect Samples = {} /\ heap \intersect Channels \subseteq linked /\ heap \subseteq Samples \union Channels
      BY DEF SamplesOwned, ChannelsOwned, TypeOK, Nodes
    <3> QED
      BY <3>1
  <2>2. TypeOK' /\ WorkedOn' /\ AudioFreed'
    BY <2>1 DEF TypeOK, WorkedOn, AtSample, AudioFreed
  <2>3. PartsInOrder'
    BY <2>1 DEF PartsInOrder
  <2>4. SamplesOwned' /\ ChannelsOwned'
    BY <2>1 DEF SamplesOwned, ChannelsOwned
  <2>5. SoundStages'
    <3>1. \A s \in Samples : s \notin heap
      BY DEF SamplesOwned
    <3> QED
      BY <3>1 DEF SoundStages
  <2> QED
    BY <2>2, <2>3, <2>4, <2>5
<1>3. CASE AudioEngineFree
  <2> USE <1>3 DEF AudioEngineFree
  <2>1. TypeOK' /\ WorkedOn' /\ PartsInOrder'
    BY DEF TypeOK, WorkedOn, AtSample, PartsInOrder
  <2>2. SamplesOwned' /\ ChannelsOwned' /\ SoundStages' /\ AudioFreed'
    BY DEF SamplesOwned, ChannelsOwned, SoundStages, AudioFreed
  <2> QED
    BY <2>1, <2>2
<1>4. CASE ContextFreeReturns
  <2> USE <1>4 DEF ContextFreeReturns
  <2>1. heap = {} /\ linked = {}
    <3>1. heap = {}
      BY DEF PartsInOrder
    <3>2. linked \subseteq Samples \union Channels
      BY DEF TypeOK, Nodes
    <3> QED
      BY <3>1, <3>2 DEF SamplesOwned, ChannelsOwned
  <2>2. held \intersect {"engine", "session", "samplelist", "channellist"} = {}
    BY DEF PartsInOrder
  <2>3. TypeOK' /\ WorkedOn' /\ PartsInOrder' /\ AudioFreed'
    BY <2>1, <2>2 DEF TypeOK, WorkedOn, AtSample, PartsInOrder, AudioFreed
  <2>4. SamplesOwned' /\ ChannelsOwned' /\ SoundStages'
    BY DEF SamplesOwned, ChannelsOwned, SoundStages
  <2> QED
    BY <2>3, <2>4
<1> QED
  BY <1>1, <1>2, <1>3, <1>4

\* A step that changes nothing.
LEMMA StutterKeeps ==
    ASSUME IInv, UNCHANGED vars
    PROVE  IInv'
<1> USE DEF vars
<1>1. TypeOK' /\ WorkedOn' /\ PartsInOrder'
  BY DEF IInv, TypeOK, WorkedOn, AtSample, PartsInOrder
<1>2. SamplesOwned' /\ ChannelsOwned'
  BY DEF IInv, SamplesOwned, ChannelsOwned
<1>3. SoundStages' /\ AudioFreed'
  BY DEF IInv, SoundStages, AudioFreed
<1> QED
  BY <1>1, <1>2, <1>3 DEF IInv

\* Every step keeps the invariant.
LEMMA NextKeeps == IInv /\ [Next]_vars => IInv'
<1> SUFFICES ASSUME IInv, [Next]_vars PROVE IInv'
  OBVIOUS
<1>1. CASE AudioEngineNew \/ SessionNew \/ SampleListNew \/ PathsNew \/ JobQueueNew
  BY <1>1, MakeKeeps DEF AudioEngineNew, SessionNew, SampleListNew, PathsNew, JobQueueNew
<1>8. CASE InstanceRegistryNew \/ InstanceRegistryFails
  BY <1>8, RegistryKeeps
<1>2. CASE \E c \in Channels : ChannelListNew(c) \/ ChannelListAdd(c) \/ ChannelRenameFails(c)
  BY <1>2, ChannelKeeps
<1>3. CASE MakeFails \/ ContextNewReturns \/ Shutdown \/ InitFails \/ LinkFails \/ UvLoopInit \/ UvLoopInitDies
  BY <1>3, MovesKeep
<1>4. CASE \E s \in Samples : SampleNew(s) \/ DeleteSample(s) \/ FreeNextSample(s)
  BY <1>4, TakeKeeps
<1>5. CASE SampleInitFromFile \/ NameFails \/ Link \/ SampleUninit \/ SampleRelease
  BY <1>5, SampleKeeps
<1>6. CASE InstanceRegistryFree \/ PathsFree \/ SessionFree \/ AudioEngineFree \/ ContextFreeReturns
  BY <1>6, FreeKeeps
<1>7. CASE UNCHANGED vars
  BY <1>7, StutterKeeps
<1> QED
  BY <1>1, <1>2, <1>3, <1>4, <1>5, <1>6, <1>7, <1>8 DEF Next

\* The inductive invariant holds in every reachable state.
THEOREM Invariance == Spec => []IInv
<1>1. Init => IInv
  BY InitIInv
<1>2. IInv /\ [Next]_vars => IInv'
  BY NextKeeps
<1> QED
  BY <1>1, <1>2, PTL DEF Spec

-----------------------------------------------------------------------------
\* The audio thread never reads a freed sample, or one without an engine.
THEOREM SamplesStayLive == Spec => []SoundsLive
<1>1. IInv => SoundsLive
  <2> SUFFICES ASSUME IInv, NEW s \in Samples, sound[s] = "inited"
               PROVE  s \in heap /\ "engine" \in held
    BY DEF SoundsLive
  <2>1. s \in heap
    BY DEF IInv, SoundStages
  <2> QED
    BY <2>1 DEF IInv, PartsInOrder
<1> QED
  BY <1>1, Invariance, PTL

\* The types of the variables.
THEOREM TypeCorrect == Spec => []TypeOK
<1>1. IInv => TypeOK
  BY DEF IInv
<1> QED
  BY <1>1, Invariance, PTL

\* No import or delete, whichever step of it fails, loses a sample or keeps a
\* freed one in the list.
THEOREM NoSampleLost == Spec => []SamplesOwned
<1>1. IInv => SamplesOwned
  BY DEF IInv
<1> QED
  BY <1>1, Invariance, PTL

\* ma_sound_uninit is called twice only on the sample whose name could not be
\* copied.
THEOREM UninitialisedOnce == Spec => []UninitOnce
<1>1. IInv => UninitOnce
  <2> SUFFICES ASSUME IInv, NEW s \in Samples, sound[s] = "twice"
               PROVE  s \in unnamed
    BY DEF UninitOnce
  <2>1. s \in heap
    BY DEF IInv, SoundStages
  <2>2. s = node
    BY <2>1 DEF IInv, SamplesOwned, SoundStages
  <2>3. AtSample
    BY <2>2, AudioSessionAssumption DEF IInv, WorkedOn, Nodes
  <2> QED
    BY <2>2, <2>3 DEF IInv, SoundStages, AtSample
<1> QED
  BY <1>1, Invariance, PTL

\* Whatever part of ContextNew fails, ContextFree leaves no sample, channel,
\* list, session or engine.
THEOREM ContextFreed == Spec => []AudioFreed
<1>1. IInv => AudioFreed
  BY DEF IInv
<1> QED
  BY <1>1, Invariance, PTL
=============================================================================
