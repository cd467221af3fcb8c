------------------------------- MODULE Startup ------------------------------
(***************************************************************************)
(* Several haze processes on one machine: main (source/main.c), the        *)
(* registration of ContextNew (source/Context.c) in the instances          *)
(* directory (source/fs/InstanceRegistry.c), and the search for a port.    *)
(* Processes start, stop and crash at any time.                            *)
(***************************************************************************)
EXTENDS Integers, FiniteSets, FiniteSetsExt

CONSTANTS
    Procs,          \* processes; one that has gone may be started again
    FirstPort,      \* the port ContextNew registers, 7192
    PortModulus,    \* 2^16: HazeServerNew takes an unsigned 16-bit port
    Foreign         \* ports other programs hold, or the system refuses

NoProc == "no process"
Ports  == 0 .. PortModulus - 1

ASSUME StartupAssumption ==
    /\ IsFiniteSet(Procs) /\ NoProc \notin Procs
    /\ PortModulus \in Nat \ {0}
    /\ FirstPort \in 1 .. PortModulus - 1
    /\ Foreign \subseteq Ports \ {0}

VARIABLES
    phase,          \* where each process is in main
    port,           \* its variable port
    bound,          \* the port its server listens on, -1 when none
    instances       \* the directory: which process wrote the file of a port

vars == <<phase, port, bound, instances>>

Init ==
    /\ phase = [p \in Procs |-> "down"]
    /\ port = [p \in Procs |-> 0]
    /\ bound = [p \in Procs |-> -1]
    /\ instances = [n \in Ports |-> NoProc]

\* Ports nobody holds.  Port 0 asks the system for any other free port.
Free == (Ports \ {0}) \ (Foreign \union {bound[p] : p \in Procs})

\* ContextNew: InstanceRegistryNew opens the file of port 7192 for writing.
ContextNew(p) ==
    /\ phase[p] = "down"
    /\ instances' = [instances EXCEPT ![FirstPort] = p]
    /\ phase' = [phase EXCEPT ![p] = "loop"]
    /\ UNCHANGED <<port, bound>>

\* uv_loop_init(ctx->_loop) on a NULL that nothing ever set: undefined, so the
\* process goes on ...
UvLoopInit(p) ==
    /\ phase[p] = "loop"
    /\ phase' = [phase EXCEPT ![p] = "registered"]
    /\ UNCHANGED <<port, bound, instances>>

\* ... or dies, which is what it does where page 0 is not mapped.
UvLoopInitDies(p) ==
    /\ phase[p] = "loop"
    /\ phase' = [phase EXCEPT ![p] = "down"]
    /\ UNCHANGED <<port, bound, instances>>

\* ContextNew returns NULL, before the registry has opened the file, after that
\* or for want of a queue; main uses the NULL and crashes.
ContextNewFails(p) ==
    /\ \/ phase[p] = "down" /\ instances' \in {instances, [instances EXCEPT ![FirstPort] = p]}
       \/ phase[p] = "registered" /\ UNCHANGED instances
    /\ phase' = [phase EXCEPT ![p] = "down"]
    /\ UNCHANGED <<port, bound>>

\* The largest port that names a file, or 7191.
InstanceRegistryGetLastPort(p) ==
    LET files == {n \in Ports \ {0} : instances[n] # NoProc}
    IN  /\ phase[p] = "registered"
        /\ port' = [port EXCEPT ![p] = IF files = {} THEN FirstPort - 1 ELSE Max(files)]
        /\ phase' = [phase EXCEPT ![p] = "search"]
        /\ UNCHANGED <<bound, instances>>

\* Mutants of TryNext: the error is not looked at; the port is not advanced; it
\* is advanced by two.
TryNextAlways(p) ==
    /\ phase[p] = "search"
    /\ port' = [port EXCEPT ![p] = @ + 1]
    /\ UNCHANGED <<phase, bound, instances>>
TryNextSame(p) ==
    /\ phase[p] = "search"
    /\ port[p] % PortModulus \notin Free \union {0}
    /\ UNCHANGED vars
TryNextSkips(p) ==
    /\ phase[p] = "search"
    /\ port[p] % PortModulus \notin Free \union {0}
    /\ port' = [port EXCEPT ![p] = @ + 2]
    /\ UNCHANGED <<phase, bound, instances>>

\* HazeServerStart reports UV_EADDRINUSE or UV_EACCES.
TryNext(p) ==
    /\ phase[p] = "search"
    /\ port[p] % PortModulus \notin Free \union {0}
    /\ port' = [port EXCEPT ![p] = @ + 1]
    /\ UNCHANGED <<phase, bound, instances>>

\* HazeServerStart listens.
Listen(p) ==
    /\ phase[p] = "search"
    /\ \E n \in Free :
        /\ n = port[p] % PortModulus \/ port[p] % PortModulus = 0
        /\ bound' = [bound EXCEPT ![p] = n]
    /\ phase' = [phase EXCEPT ![p] = "serving"]
    /\ UNCHANGED <<port, instances>>

\* HazeServerStart fails otherwise: main returns 1.
StartFails(p) ==
    /\ phase[p] = "search"
    /\ phase' = [phase EXCEPT ![p] = "down"]
    /\ UNCHANGED <<port, bound, instances>>

\* A signal ends HazeServerRun, main frees server and context
\* (InstanceRegistryFree closes its file and leaves it), or the process is
\* killed: in the directory and on the network it is the same.
Exit(p) ==
    /\ phase[p] # "down"
    /\ phase' = [phase EXCEPT ![p] = "down"]
    /\ bound' = [bound EXCEPT ![p] = -1]
    /\ UNCHANGED <<port, instances>>

Starting(p) == InstanceRegistryGetLastPort(p) \/ TryNext(p) \/ Listen(p)

Next ==
    \E p \in Procs :
        \/ ContextNew(p)
        \/ ContextNewFails(p)
        \/ UvLoopInit(p)
        \/ UvLoopInitDies(p)
        \/ Starting(p)
        \/ StartFails(p)
        \/ Exit(p)

\* main goes on.
Spec == Init /\ [][Next]_vars /\ \A p \in Procs : WF_vars(Starting(p))

-----------------------------------------------------------------------------
\* The types of the variables.
TypeOK ==
    /\ phase \in [Procs -> {"down", "loop", "registered", "search", "serving"}]
    /\ port \in [Procs -> 0 .. PortModulus]
    /\ bound \in [Procs -> {-1} \union (Ports \ {0})]
    /\ instances \in [Ports -> Procs \union {NoProc}]

\* However processes start and stop, those that serve use the first free ports
\* from 7192 on: with n processes and no foreign port, no other than the first n.
PortsPacked ==
    \A p \in Procs : phase[p] = "serving" =>
        bound[p] - FirstPort < Cardinality(Procs) + Cardinality(Foreign)

\* The search for a port ends, while other processes take and leave ports.
SearchEnds == \A p \in Procs : phase[p] = "search" ~> phase[p] \in {"serving", "down"}

\* hazectl/README.md: "Haze supports multiple Core instances running
\* simultaneously.  The `instances` directory contains the runtime information
\* required to identify and communicate with active Haze processes."  So the
\* port of every process that serves has a file.
ServersRegistered ==
    \A p \in Procs : phase[p] = "serving" => instances[bound[p]] # NoProc
=============================================================================
