----------------------------- MODULE SampleList -----------------------------
(***************************************************************************)
(* The samples of a session: source/audio/SampleList.c and the parts of    *)
(* Sample.c it calls.  A sample is an object on the heap; the list holds   *)
(* its address.  The text of a name is kept as a base and the numbers that *)
(* follow it: [base |-> b, nums |-> <<1>>] is "b #1", which may also be    *)
(* what a file is called.                                                  *)
(***************************************************************************)
EXTENDS Integers, Sequences, FiniteSets

CONSTANTS
    Bases,          \* bases of names
    FileNames,      \* names of files (what follows the last '/' of a path)
    NewNames,       \* names a caller of SampleRename may choose
    MaxImports      \* bound: successful imports

NameText == [base : Bases, nums : Seq(Nat)]

ASSUME SampleListAssumption ==
    /\ FileNames \subseteq NameText
    /\ NewNames \subseteq NameText
    /\ MaxImports \in Nat

VARIABLES
    samples,        \* list->samples[0 .. len - 1]: [id, name, obj]
    imports,        \* successful imports so far; import n creates object n
    freed,          \* objects SampleFree was called on
    playing,        \* objects whose sound is started
    result          \* what the last operation returned: "ok" or "err"

sampleVars == <<samples, imports, freed, playing, result>>

Objects == {samples[i].obj : i \in DOMAIN samples}
Names   == {samples[i].name : i \in DOMAIN samples}

\* SampleListGetSampleByName: the first match.
IndexOf(name) ==
    CHOOSE i \in DOMAIN samples :
        samples[i].name = name /\ \A j \in 1 .. i - 1 : samples[j].name # name

\* SessionNew's SampleListNew.
SampleInit ==
    /\ samples = <<>>
    /\ imports = 0
    /\ freed = {}
    /\ playing = {}
    /\ result = "ok"

Fails == result' = "err" /\ UNCHANGED <<samples, imports, freed, playing>>

-----------------------------------------------------------------------------
\* Mutant of ImportedName: the name is never made distinct.
ImportedNamePlain(file) == file

\* The name a new sample gets: the samples that carry exactly the file's name
\* are counted, and a count other than 0 is appended to it.
ImportedName(file) ==
    LET occurrences == Cardinality({i \in DOMAIN samples : samples[i].name = file})
    IN  IF occurrences > 0 THEN [file EXCEPT !.nums = Append(@, occurrences)] ELSE file

\* SampleListImportByFile when it returns an error: no such file, not an audio file, or out of memory;
\* the new sample is freed again.
ImportFails == Fails

\* SampleListImportByFile when it succeeds.
SampleListImportByFile(file) ==
    /\ imports < MaxImports
    /\ samples' = Append(samples, [id |-> Len(samples), name |-> ImportedName(file), obj |-> imports + 1])
    /\ imports' = imports + 1
    /\ result' = "ok"
    /\ UNCHANGED <<freed, playing>>

\* Mutant of SampleListDeleteSampleByName: the shift starts one slot late, so
\* that the freed sample stays.
DeleteShiftsLate(name) ==
    IF name \in Names
    THEN LET k == IndexOf(name)
         IN  /\ samples' = [j \in 1 .. Len(samples) - 1 |-> IF j <= k THEN samples[j] ELSE samples[j + 1]]
             /\ freed' = freed \union {samples[k].obj}
             /\ playing' = playing \ {samples[k].obj}
             /\ result' = "ok"
             /\ UNCHANGED imports
    ELSE Fails

\* SampleListDeleteSampleByName: the first match is freed (SampleFree stops its
\* sound), and the elements after it move up.
SampleListDeleteSampleByName(name) ==
    IF name \in Names
    THEN LET k == IndexOf(name)
         IN  /\ samples' = [j \in 1 .. Len(samples) - 1 |-> IF j < k THEN samples[j] ELSE samples[j + 1]]
             /\ freed' = freed \union {samples[k].obj}
             /\ playing' = playing \ {samples[k].obj}
             /\ result' = "ok"
             /\ UNCHANGED imports
    ELSE Fails

\* FnSamplePlay: look up, SamplePlay.
FnSamplePlay(name) ==
    IF name \in Names
    THEN \/ /\ playing' = playing \union {samples[IndexOf(name)].obj}
            /\ result' = "ok"
            /\ UNCHANGED <<samples, imports, freed>>
         \/ Fails
    ELSE Fails

\* SampleStop on a sample a caller looked up.
SampleStop(name) ==
    /\ name \in Names
    /\ \/ /\ playing' = playing \ {samples[IndexOf(name)].obj}
          /\ result' = "ok"
          /\ UNCHANGED <<samples, imports, freed>>
       \/ Fails

\* SampleRename on a sample a caller looked up: no check against other names.
SampleRename(name, newName) ==
    /\ name \in Names
    /\ samples' = [samples EXCEPT ![IndexOf(name)].name = newName]
    /\ result' = "ok"
    /\ UNCHANGED <<imports, freed, playing>>

-----------------------------------------------------------------------------
\* Callers may ask for any name: of a file, of a sample, or of neither.
AnyName == FileNames \union Names \union NewNames

SampleNext ==
    \/ ImportFails
    \/ \E file \in FileNames : SampleListImportByFile(file)
    \/ \E name \in AnyName :
        \/ SampleListDeleteSampleByName(name)
        \/ FnSamplePlay(name)
        \/ SampleStop(name)
        \/ \E newName \in NewNames : SampleRename(name, newName)

SampleSpec == SampleInit /\ [][SampleNext]_sampleVars

-----------------------------------------------------------------------------
\* The types of the variables.
SampleTypeOK ==
    /\ samples \in Seq([id : Nat, name : NameText, obj : 1 .. imports])
    /\ imports \in 0 .. MaxImports
    /\ freed \subseteq 1 .. imports
    /\ playing \subseteq 1 .. imports
    /\ result \in {"ok", "err"}

\* The list owns exactly the samples that are allocated, each in one slot and
\* in the order of their imports: a delete leaves no pointer to the sample it
\* freed, loses no other, and of several with one name takes the oldest.  Only
\* samples of the list play: miniaudio mixes none whose memory was given back.
OwnsLive ==
    /\ Objects = (1 .. imports) \ freed
    /\ \A i, j \in DOMAIN samples : i < j => samples[i].obj < samples[j].obj
    /\ playing \subseteq Objects

\* At most one sample at a time carries the plain name of a file, unless
\* SampleRename gives it: a later import of the same file gets a number.
PlainNameOnce ==
    \A i, j \in DOMAIN samples :
        /\ samples[i].name = samples[j].name
        /\ samples[i].name \in FileNames \ NewNames
        /\ samples[i].name.nums = <<>>
        => i = j

\* Every sample has an id of its own, docs/proj.md:166 "Unique sample
\* identifier".  SampleListImportByFile gives the length of the list.
IdsUnique ==
    \A i, j \in DOMAIN samples : samples[i].id = samples[j].id => i = j
=============================================================================
