--------------------------- MODULE CapabilityMap ---------------------------
(***************************************************************************)
(* capslock_cm::parse! (capslock-cm/src/lib.rs): at compile time a file    *)
(* such as syscalls.cm is read line by line into a CapSet, from which a    *)
(* lookup function is generated.  Any error ends the compilation.          *)
(***************************************************************************)
EXTENDS ProcessState

CONSTANTS
    Line,       \* the lines a file may have
    MaxLines    \* bound on the lines of the file

(* A line has a name and words after it; None stands for a word that is    *)
(* not a capability.  A comment, or a blank line, has not even a name.     *)
Comment == [name |-> None, words |-> <<>>]

Entry == [name : Sysno, words : Seq(Capability \cup {None})]

ASSUME LineAssumption == Line \subseteq Entry \cup {Comment} /\ MaxLines \in Nat

VARIABLES
    lines,      \* the lines that were read
    caps,       \* CapSet
    parse       \* "opening", "reading", "generated", or the Error

mapVars == <<lines, caps, parse>>

ParseError ==
    {"ManifestPath", "OpenInput", "ReadInput", "InsufficientFields",
     "MalformedCapabilityName"}

MapTypeOK ==
    /\ lines \in Seq(Line) /\ Len(lines) <= MaxLines
    /\ IsMap(caps, Sysno, SUBSET Capability)
    /\ parse \in {"opening", "reading", "generated"} \cup ParseError

MapInit == lines = <<>> /\ caps = Empty /\ parse = "opening"

-----------------------------------------------------------------------------
InsertFirst(name, words) ==     \* mutant: entry(name).or_insert(words)
    IF name \in DOMAIN caps THEN caps ELSE Put(caps, name, words)

(* CapSet::insert, on a map from strings to sets.                          *)
Insert(name, words) == Put(caps, name, words)

Stop(error) == parse' = error /\ UNCHANGED caps

Open ==
    /\ parse = "opening"
    /\ parse' \in {"reading", "ManifestPath", "OpenInput"}
    /\ UNCHANGED <<lines, caps>>

AcceptAnyWord(line) ==  \* mutant: the words are not checked
    LET words == {line.words[i] : i \in DOMAIN line.words}
    IN  IF words = {} THEN Stop("InsufficientFields")
        ELSE caps' = Insert(line.name, words) /\ UNCHANGED parse

ReadEntry(line) ==
    LET words == {line.words[i] : i \in DOMAIN line.words}
    IN  IF words = {} THEN Stop("InsufficientFields")
        ELSE IF None \in words THEN Stop("MalformedCapabilityName")
        ELSE caps' = Insert(line.name, words) /\ UNCHANGED parse

ReadLine(line) ==
    /\ parse = "reading" /\ Len(lines) < MaxLines
    /\ lines' = Append(lines, line)
    /\ IF line = Comment THEN UNCHANGED <<caps, parse>> ELSE ReadEntry(line)

(* Func::generate is done, unless a line cannot be read.                   *)
EndOfInput ==
    /\ parse = "reading"
    /\ parse' \in {"generated", "ReadInput"}
    /\ UNCHANGED <<lines, caps>>

Generate == Open \/ EndOfInput \/ \E line \in Line : ReadLine(line)

(* The generated function; its table has the words as they are spelled in  *)
(* the file, and reads them with the same from_str.                        *)
Lookup(name) == IF name \in DOMAIN caps THEN caps[name] ELSE {}
=============================================================================
