---------------------------- MODULE AudioSession ----------------------------
(***************************************************************************)
(* What a process owns, from ContextNew to ContextFree (source/Context.c): *)
(* the audio engine, the session with its sample list and channel list     *)
(* (source/session/Session.c, source/audio/SampleList.c, Sample.c,         *)
(* ChannelList.c, Channel.c), and what comes after them.  Each allocation  *)
(* and each call of miniaudio may fail.                                    *)
(*                                                                         *)
(* While the engine exists miniaudio's audio thread reads, at any time,    *)
(* the memory of every sound and group that is initialised: that is why a  *)
(* call that uninitialises and a call that frees are separate steps here.  *)
(* The order of the samples in their list is in SampleList.                *)
(***************************************************************************)
EXTENDS Integers

CONSTANTS
    Samples,        \* Sample structures
    Channels,       \* Channel structures
    NoNode          \* none of them

Nodes == Samples \union Channels

ASSUME AudioSessionAssumption ==
    /\ Samples \intersect Channels = {}
    /\ NoNode \notin Nodes

\* The parts of a context in the order ContextNew and SessionNew make them.
Order == <<"engine", "session", "samplelist", "channellist", "paths", "registry", "requests", "results">>
Parts == {Order[i] : i \in 1 .. 8}

\* What InstanceRegistryNew allocates besides its structure.
Strings == {"session_name", "path"}

VARIABLES
    at,             \* where the main thread is
    node,           \* the sample an import or a delete works on
    held,           \* the parts that exist, and the strings that nothing points to
    heap,           \* samples and channels that are allocated
    sound,          \* their ma_sound or ma_sound_group
    linked,         \* samples and channels in the lists
    unnamed         \* samples SampleInitFromFile could not name

vars == <<at, node, held, heap, sound, linked, unnamed>>

\* "none" is zeroed memory; "twice" is a sound ma_sound_uninit was called on
\* although it had been uninitialised: it frees what the first call freed.
SoundStates == {"none", "inited", "uninited", "twice"}

Init ==
    /\ at = "make"
    /\ node = NoNode
    /\ held = {}
    /\ heap = {}
    /\ sound = [n \in Nodes |-> "none"]
    /\ linked = {}
    /\ unnamed = {}

\* malloc returns memory nobody uses.
Fresh(n) == n \notin heap /\ sound[n] = "none"

\* ma_sound_uninit.
Uninit(n) ==
    sound' = [sound EXCEPT ![n] = CASE @ = "inited" -> "uninited"
                                    [] @ = "none" -> "none"
                                    [] OTHER -> "twice"]

\* free of the structure: the graph still refers to it when it was not
\* uninitialised.
Forget(n) == [sound EXCEPT ![n] = IF @ = "inited" THEN @ ELSE "none"]

-----------------------------------------------------------------------------
(* ContextNew.                                                             *)

\* All parts before p exist.
IsNext(p) == \E i \in 1 .. 8 : p = Order[i] /\ p \notin held /\ \A j \in 1 .. i - 1 : Order[j] \in held

Make(p) ==
    /\ at = "make"
    /\ IsNext(p)
    /\ held' = held \union {p}
    /\ UNCHANGED <<at, node, heap, sound, linked, unnamed>>

AudioEngineNew      == Make("engine")
SessionNew          == Make("session")      \* the structure and its name
SampleListNew       == Make("samplelist")
PathsNew            == Make("paths")
JobQueueNew         == Make("requests") \/ Make("results")

\* ChannelListNew with its master channel; ChannelNew attaches it.
ChannelListNew(c) ==
    /\ at = "make"
    /\ IsNext("channellist")
    /\ Fresh(c)
    /\ held' = held \union {"channellist"}
    /\ heap' = heap \union {c}
    /\ sound' = [sound EXCEPT ![c] = "inited"]
    /\ linked' = linked \union {c}
    /\ UNCHANGED <<at, node, unnamed>>

\* The registry owns its strings; uv_loop_init comes next.
InstanceRegistryNew ==
    /\ at = "make"
    /\ IsNext("registry")
    /\ held' = held \union {"registry"}
    /\ at' = "loop"
    /\ UNCHANGED <<node, heap, sound, linked, unnamed>>

\* The file cannot be opened, and both strings stay behind; or there is no
\* memory for its content, and the path does.  Then ContextFree.
InstanceRegistryFails ==
    /\ at = "make"
    /\ IsNext("registry")
    /\ \E left \in {Strings, {"path"}} : held' = held \union left
    /\ at' = "end"
    /\ UNCHANGED <<node, heap, sound, linked, unnamed>>

\* uv_loop_init(ctx->_loop), where _loop was never set: calloc left it NULL.  It
\* writes through that pointer, which is undefined: a process that goes on ...
UvLoopInit ==
    /\ at = "loop"
    /\ at' = "make"
    /\ UNCHANGED <<node, held, heap, sound, linked, unnamed>>

\* ... or, where page 0 is not mapped, one that dies here.
UvLoopInitDies ==
    /\ at = "loop"
    /\ at' = "dead"
    /\ UNCHANGED <<node, held, heap, sound, linked, unnamed>>

\* Another part fails, or the registry before it has strings: ContextFree.
MakeFails ==
    /\ at = "make"
    /\ held # Parts
    /\ at' = "end"
    /\ UNCHANGED <<node, held, heap, sound, linked, unnamed>>

ContextNewReturns ==
    /\ at = "make"
    /\ held = Parts
    /\ at' = "up"
    /\ UNCHANGED <<node, held, heap, sound, linked, unnamed>>

-----------------------------------------------------------------------------
(* Samples.  SampleListImportByFile is the steps SampleNew,                *)
(* SampleInitFromFile, then Link or one of the failures.                   *)

SampleNew(s) ==
    /\ at = "up"
    /\ Fresh(s)
    /\ heap' = heap \union {s}
    /\ at' = "init"
    /\ node' = s
    /\ UNCHANGED <<held, sound, linked, unnamed>>

SampleInitFromFile ==
    /\ at = "init"
    /\ sound' = [sound EXCEPT ![node] = "inited"]
    /\ at' = "link"
    /\ UNCHANGED <<node, held, heap, linked, unnamed>>

\* No such file, or not a sound: the handle is as SampleNew left it.
InitFails ==
    /\ at = "init"
    /\ at' = "free"
    /\ UNCHANGED <<node, held, heap, sound, linked, unnamed>>

\* SampleInitFromFile has no memory for the name, and uninitialises the sound.
NameFails ==
    /\ at = "link"
    /\ Uninit(node)
    /\ at' = "free"
    /\ unnamed' = unnamed \union {node}
    /\ UNCHANGED <<node, held, heap, linked>>

\* Mutant of LinkFails: the new sample is not freed.
LinkFailsLeaks ==
    /\ at = "link"
    /\ at' = "up"
    /\ node' = NoNode
    /\ UNCHANGED <<held, heap, sound, linked, unnamed>>

\* SampleListImportByFile has no memory for a numbered name or a longer list.
LinkFails ==
    /\ at = "link"
    /\ at' = "free"
    /\ UNCHANGED <<node, held, heap, sound, linked, unnamed>>

\* Mutant of Link: the pointer is stored after it was cleared.
LinkCleared ==
    /\ at = "link"
    /\ node' = NoNode
    /\ linked' = linked \union {node'}
    /\ at' = "up"
    /\ UNCHANGED <<held, heap, sound, unnamed>>

Link ==
    /\ at = "link"
    /\ linked' = linked \union {node}
    /\ at' = "up"
    /\ node' = NoNode
    /\ UNCHANGED <<held, heap, sound, unnamed>>

\* Mutant of DeleteSample: the delete uninitialises the sound itself.
DeleteSampleUninits(s) ==
    /\ at = "up"
    /\ s \in linked
    /\ Uninit(s)
    /\ at' = "free"
    /\ node' = s
    /\ UNCHANGED <<held, heap, linked, unnamed>>

\* SampleListDeleteSampleByName finds a sample.
DeleteSample(s) ==
    /\ at = "up"
    /\ s \in linked
    /\ at' = "free"
    /\ node' = s
    /\ UNCHANGED <<held, heap, sound, linked, unnamed>>

\* Where SampleFree returns to: SampleListFree, or the next request.
Back == IF at \in {"end", "end free", "end release"} THEN "end" ELSE "up"

\* Mutant of SampleUninit: SampleFree leaves the sound initialised.
SampleUninitSkips ==
    /\ at \in {"free", "end free"}
    /\ at' = IF at = "free" THEN "release" ELSE "end release"
    /\ UNCHANGED <<node, held, heap, sound, linked, unnamed>>

\* SampleFree: ma_sound_uninit, whatever the state of the handle ...
SampleUninit ==
    /\ at \in {"free", "end free"}
    /\ Uninit(node)
    /\ at' = IF at = "free" THEN "release" ELSE "end release"
    /\ UNCHANGED <<node, held, heap, linked, unnamed>>

\* ... then free; the caller takes the sample off its list.
SampleRelease ==
    /\ at \in {"release", "end release"}
    /\ heap' = heap \ {node}
    /\ sound' = Forget(node)
    /\ linked' = linked \ {node}
    /\ unnamed' = unnamed \ {node}
    /\ at' = Back
    /\ node' = NoNode
    /\ UNCHANGED held

-----------------------------------------------------------------------------
(* Channels.  ChannelListAdd has no caller yet.                            *)

ChannelListAdd(c) ==
    /\ at = "up"
    /\ Fresh(c)
    /\ heap' = heap \union {c}
    /\ sound' = [sound EXCEPT ![c] = "inited"]
    /\ linked' = linked \union {c}
    /\ UNCHANGED <<at, node, held, unnamed>>

\* There is no memory for the name of the channel: ChannelFree, which does not
\* uninitialise the group.
ChannelRenameFails(c) ==
    /\ at = "up"
    /\ Fresh(c)
    /\ sound' = [sound EXCEPT ![c] = "inited"]
    /\ UNCHANGED <<at, node, held, heap, linked, unnamed>>

-----------------------------------------------------------------------------
(* ContextFree, also of a context that was not made whole.                 *)

\* main after HazeServerFree.
Shutdown ==
    /\ at = "up"
    /\ at' = "end"
    /\ UNCHANGED <<node, held, heap, sound, linked, unnamed>>

\* JobQueueFree, the first of all, frees nothing.
InstanceRegistryFree ==
    /\ at = "end"
    /\ "registry" \in held
    /\ held' = held \ {"registry"}
    /\ UNCHANGED <<at, node, heap, sound, linked, unnamed>>

PathsFree ==
    /\ at = "end"
    /\ "registry" \notin held
    /\ "paths" \in held
    /\ held' = held \ {"paths"}
    /\ UNCHANGED <<at, node, heap, sound, linked, unnamed>>

Inner == at = "end" /\ held \intersect {"paths", "registry"} = {}

\* SessionFree: SampleListFree takes the samples one by one ...
FreeNextSample(s) ==
    /\ Inner
    /\ s \in linked \intersect Samples
    /\ node' = s
    /\ at' = "end free"
    /\ UNCHANGED <<held, heap, sound, linked, unnamed>>

\* Mutant of SessionFree: the channels are forgotten.
SessionFreeNoChannels ==
    /\ Inner
    /\ "session" \in held
    /\ linked \intersect Samples = {}
    /\ linked' = {}
    /\ held' = held \ {"session", "samplelist", "channellist"}
    /\ UNCHANGED <<at, node, heap, sound, unnamed>>

\* ... ChannelListFree frees its channels, and the session is freed.
SessionFree ==
    /\ Inner
    /\ "session" \in held
    /\ linked \intersect Samples = {}
    /\ heap' = heap \ linked
    /\ linked' = {}
    /\ held' = held \ {"session", "samplelist", "channellist"}
    /\ UNCHANGED <<at, node, sound, unnamed>>

\* ma_engine_uninit ends the audio thread.
AudioEngineFree ==
    /\ Inner
    /\ "session" \notin held
    /\ "engine" \in held
    /\ held' = held \ {"engine"}
    /\ UNCHANGED <<at, node, heap, sound, linked, unnamed>>

ContextFreeReturns ==
    /\ Inner
    /\ held \intersect {"session", "engine"} = {}
    /\ at' = "down"
    /\ UNCHANGED <<node, held, heap, sound, linked, unnamed>>

Next ==
    \/ AudioEngineNew \/ SessionNew \/ SampleListNew \/ PathsNew \/ JobQueueNew
    \/ InstanceRegistryNew \/ InstanceRegistryFails \/ UvLoopInit \/ UvLoopInitDies
    \/ \E c \in Channels : ChannelListNew(c) \/ ChannelListAdd(c) \/ ChannelRenameFails(c)
    \/ MakeFails
    \/ ContextNewReturns
    \/ \E s \in Samples : SampleNew(s) \/ DeleteSample(s) \/ FreeNextSample(s)
    \/ SampleInitFromFile
    \/ InitFails
    \/ NameFails
    \/ LinkFails
    \/ Link
    \/ SampleUninit
    \/ SampleRelease
    \/ Shutdown
    \/ InstanceRegistryFree
    \/ PathsFree
    \/ SessionFree
    \/ AudioEngineFree
    \/ ContextFreeReturns

Spec == Init /\ [][Next]_vars

-----------------------------------------------------------------------------
\* The types of the variables.
TypeOK ==
    /\ at \in {"make", "loop", "dead", "up", "init", "link", "free", "release", "end", "end free", "end release", "down"}
    /\ node \in Nodes \union {NoNode}
    /\ held \subseteq Parts \union Strings
    /\ heap \subseteq Nodes
    /\ sound \in [Nodes -> SoundStates]
    /\ linked \subseteq Nodes
    /\ unnamed \subseteq Samples

\* The audio thread never reads a sample that was freed: whichever step of an
\* import fails, and when the context is freed in the middle of its making.
SoundsLive == \A s \in Samples : sound[s] = "inited" => s \in heap /\ "engine" \in held

\* A sample is in the list, or is the one being imported or deleted: none is
\* lost when an import fails, and the list holds none that was freed.
SamplesOwned == heap \intersect Samples = (linked \intersect Samples) \union ({node} \ {NoNode})

\* A sound is uninitialised once, but for the sample whose name could not be
\* copied: there both SampleInitFromFile and the SampleFree of its caller do it.
UninitOnce == \A s \in Samples : sound[s] = "twice" => s \in unnamed

\* However far ContextNew came, when ContextFree returns nothing is left of what
\* the audio thread reads and of what points to it: no sample, no channel, no
\* list, no session, no engine.
AudioFreed ==
    at = "down" =>
        heap = {} /\ linked = {} /\ held \intersect {"engine", "session", "samplelist", "channellist"} = {}
=============================================================================
