------------------------- MODULE TextFormatsProofs -------------------------
(***************************************************************************)
(* The texts between the capability map that is compiled in and a reader   *)
(* of the report lose nothing they should keep, for every map, every       *)
(* program, every name the demangler can spell and any number of calls.    *)
(*                                                                         *)
(* Four parts that know nothing of each other: the map's lines (MapInv),   *)
(* the stacks of the calls (CallsInv), writing and reading back (from      *)
(* RustNameRead on), and the split of a name (from Separators on).         *)
(***************************************************************************)
EXTENDS TextFormats, WellFoundedInduction, TLAPS

(* The lines about a system call, and the words of a line.                 *)
About(file, name) == {i \in DOMAIN file : file[i] # Comment /\ file[i].name = name}

WordsAt(file, i) == {file[i].words[k] : k \in DOMAIN file[i].words}

IsLast(file, name, i) == i \in About(file, name) /\ \A j \in About(file, name) : j <= i

(* CapSet has of each name the words of the last line about it.            *)
Collected ==
    \A name \in Sysno :
        IF name \in DOMAIN caps
        THEN \E i \in DOMAIN lines : IsLast(lines, name, i) /\ caps[name] = WordsAt(lines, i)
        ELSE About(lines, name) = {}

MapInv ==
    /\ MapTypeOK
    /\ parse = "opening" => lines = <<>> /\ caps = Empty
    /\ parse \in {"reading", "generated"} => Collected

-----------------------------------------------------------------------------
(* The map from the lines that were read.                                  *)
LEMMA MapInitInv == MapInit => MapInv
  BY LineAssumption DEF MapInit, MapInv, MapTypeOK, IsMap, Empty

(* What is there of the file when one more line has been read.             *)
LEMMA OneMoreLine ==
    ASSUME lines \in Seq(Line), NEW line \in Line, lines' = Append(lines, line)
    PROVE  /\ lines' \in Seq(Line) /\ Len(lines') = Len(lines) + 1
           /\ DOMAIN lines = 1..Len(lines) /\ DOMAIN lines' = 1..(Len(lines) + 1)
           /\ \A i \in DOMAIN lines : lines'[i] = lines[i] /\ WordsAt(lines', i) = WordsAt(lines, i)
           /\ lines'[Len(lines) + 1] = line
           /\ \A name : About(lines', name) =
                 About(lines, name) \cup {i \in {Len(lines) + 1} : line # Comment /\ line.name = name}
  <1>1. /\ lines' \in Seq(Line) /\ Len(lines') = Len(lines) + 1
        /\ DOMAIN lines = 1..Len(lines) /\ DOMAIN lines' = 1..(Len(lines) + 1)
        /\ \A i \in DOMAIN lines : lines'[i] = lines[i]
        /\ lines'[Len(lines) + 1] = line /\ Len(lines) \in Nat
    OBVIOUS
  <1>2. \A i \in DOMAIN lines : WordsAt(lines', i) = WordsAt(lines, i)
    BY <1>1 DEF WordsAt
  <1>3. \A name : About(lines', name) =
                 About(lines, name) \cup {i \in {Len(lines) + 1} : line # Comment /\ line.name = name}
    BY <1>1 DEF About
  <1> QED
    BY <1>1, <1>2, <1>3

(* A comment is about nothing.                                             *)
LEMMA ReadCommentInv ==
    ASSUME MapInv, ReadLine(Comment), Comment \in Line
    PROVE  MapInv'
  <1>1. lines \in Seq(Line) /\ lines' = Append(lines, Comment) /\ Len(lines) < MaxLines
    BY DEF ReadLine, MapInv, MapTypeOK
  <1>2. UNCHANGED <<caps, parse>> /\ parse = "reading"
    BY DEF ReadLine
  <1>3. MapTypeOK'
    BY <1>1, <1>2, OneMoreLine, LineAssumption DEF MapInv, MapTypeOK
  <1>4. \A name : About(lines', name) = About(lines, name)
    BY <1>1, OneMoreLine
  <1>5. \A i \in DOMAIN lines : i \in DOMAIN lines' /\ WordsAt(lines', i) = WordsAt(lines, i)
    BY <1>1, OneMoreLine
  <1>6. Collected'
    BY <1>2, <1>4, <1>5 DEF MapInv, Collected, IsLast
  <1> QED
    BY <1>2, <1>3, <1>6 DEF MapInv

(* A line about a call replaces what the lines before it said of the call. *)
LEMMA ReadEntryInv ==
    ASSUME MapInv, NEW line \in Line, line # Comment, ReadLine(line)
    PROVE  MapInv'
  <1> DEFINE words == {line.words[i] : i \in DOMAIN line.words}
             n == Len(lines) + 1
  <1>1. lines \in Seq(Line) /\ lines' = Append(lines, line) /\ Len(lines) < MaxLines
    BY DEF ReadLine, MapInv, MapTypeOK
  <1>2. ReadEntry(line) /\ parse = "reading"
    BY DEF ReadLine
  <1>3. line.name \in Sysno /\ words \subseteq Capability \cup {None}
    BY LineAssumption DEF Entry
  <1>4. lines' \in Seq(Line) /\ Len(lines') <= MaxLines
    BY <1>1, OneMoreLine, LineAssumption
  <1>5. CASE parse' # "reading"
    <2>1. parse' \in ParseError /\ caps' = caps
      BY <1>2, <1>5 DEF ReadEntry, Stop, ParseError
    <2> QED
      BY <1>4, <2>1 DEF MapInv, MapTypeOK, ParseError
  <1>6. CASE parse' = "reading"
    <2>1. caps' = Put(caps, line.name, words) /\ None \notin words
      BY <1>2, <1>6 DEF ReadEntry, Stop, Insert
    <2>2. MapTypeOK'
      BY <1>3, <1>4, <1>6, <2>1 DEF MapInv, MapTypeOK, Put, IsMap
    <2>3. n \in DOMAIN lines' /\ WordsAt(lines', n) = words
      BY <1>1, OneMoreLine DEF WordsAt
    <2>4. IsLast(lines', line.name, n)
      <3>1. \A i \in About(lines, line.name) : i <= n
        BY <1>1 DEF About
      <3>2. About(lines', line.name) = About(lines, line.name) \cup {n}
        BY <1>1, OneMoreLine
      <3>3. n <= n
        BY <1>1
      <3> QED
        BY <3>1, <3>2, <3>3 DEF IsLast
    <2>5. line.name \in DOMAIN caps' /\ caps'[line.name] = words
      BY <2>1 DEF Put
    <2>6. ASSUME NEW name \in Sysno, name # line.name
          PROVE  /\ About(lines', name) = About(lines, name)
                 /\ name \in DOMAIN caps' <=> name \in DOMAIN caps
                 /\ name \in DOMAIN caps => caps'[name] = caps[name]
      <3>1. About(lines', name) = About(lines, name)
        <4>1. About(lines', name) =
                 About(lines, name) \cup {i \in {n} : line # Comment /\ line.name = name}
          BY <1>1, OneMoreLine
        <4> QED
          BY <2>6, <4>1
      <3> QED
        BY <2>1, <2>6, <3>1 DEF Put
    <2>7. \A i \in DOMAIN lines : i \in DOMAIN lines' /\ WordsAt(lines', i) = WordsAt(lines, i)
      BY <1>1, OneMoreLine
    <2>8. Collected'
      <3> SUFFICES ASSUME NEW name \in Sysno
                   PROVE  IF name \in DOMAIN caps'
                          THEN \E i \in DOMAIN lines' :
                                  IsLast(lines', name, i) /\ caps'[name] = WordsAt(lines', i)
                          ELSE About(lines', name) = {}
        BY DEF Collected
      <3>1. CASE name = line.name
        BY <2>3, <2>4, <2>5, <3>1
      <3>2. CASE name # line.name
        BY <1>2, <2>6, <2>7, <3>2 DEF MapInv, Collected, IsLast
      <3> QED
        BY <3>1, <3>2
    <2> QED
      BY <1>6, <2>2, <2>8 DEF MapInv
  <1> QED
    BY <1>5, <1>6

LEMMA GenerateInv == MapInv /\ Generate => MapInv'
  <1> SUFFICES ASSUME MapInv, Generate PROVE MapInv'
    OBVIOUS
  <1>1. CASE Open
    BY <1>1 DEF Open, MapInv, MapTypeOK, ParseError, Collected, About, Empty
  <1>2. CASE EndOfInput
    <2>1. lines' = lines /\ caps' = caps /\ parse' \in {"generated", "ReadInput"} /\ parse = "reading"
      BY <1>2 DEF EndOfInput
    <2>2. MapTypeOK' /\ Collected'
      BY <2>1 DEF MapInv, MapTypeOK, ParseError, Collected
    <2> QED
      BY <2>1, <2>2 DEF MapInv
  <1>3. ASSUME NEW line \in Line, ReadLine(line) PROVE MapInv'
    BY <1>3, ReadCommentInv, ReadEntryInv
  <1> QED
    BY <1>1, <1>2, <1>3 DEF Generate

(* What the generated function answers is what the last line says.         *)
LEMMA LookupIsLastLine ==
    ASSUME MapInv, parse = "generated", NEW name \in Sysno
    PROVE  Lookup(name) = LastLine(name)
  <1>1. lines \in Seq(Line) /\ Collected
    BY DEF MapInv, MapTypeOK
  <1>2. About(lines, name) \subseteq Int
    BY <1>1 DEF About
  <1>3. CASE name \in DOMAIN caps
    <2>1. PICK i \in DOMAIN lines : IsLast(lines, name, i) /\ caps[name] = WordsAt(lines, i)
      BY <1>1, <1>3 DEF Collected
    <2>2. i = CHOOSE k \in About(lines, name) : \A j \in About(lines, name) : j <= k
      BY <1>2, <2>1 DEF IsLast
    <2> QED
      BY <1>3, <2>1, <2>2 DEF Lookup, LastLine, About, WordsAt, IsLast
  <1>4. CASE name \notin DOMAIN caps
    BY <1>1, <1>4 DEF Collected, Lookup, LastLine, About
  <1> QED
    BY <1>3, <1>4

-----------------------------------------------------------------------------
(* The calls a process made, by their place in the history, and the first  *)
(* of a function among them.                                               *)
Of(history, p) == {i \in DOMAIN history : history[i][1] = p}

IsFirst(history, p, symbol, i) ==
    /\ i \in Of(history, p) /\ history[i][2] = symbol
    /\ \A j \in Of(history, p) : history[j][2] = symbol => i <= j

NamedIn(symbols) == {x \in symbols : Named(x)}

AllDirect(capabilities) == [c \in capabilities |-> "Direct"]

(* What the map says of a call.                                            *)
Answer(map, nr) == IF nr \in DOMAIN map THEN map[nr] ELSE {}

(* The functions of a process but main: those that called, with what the   *)
(* map says of the first call of each.                                     *)
Attributed(map, functions, history, p) ==
    /\ \A symbol \in DOMAIN functions : Named(symbol)
    /\ DOMAIN functions \ {MainFunction} =
          {s \in {history[i][2] : i \in Of(history, p)} : Named(s)} \ {MainFunction}
    /\ \A symbol \in DOMAIN functions \ {MainFunction} :
          \E i \in DOMAIN history :
             /\ IsFirst(history, p, symbol, i)
             /\ functions[symbol].capabilities =
                   AllDirect(Answer(map, history[i][3]))
             /\ functions[symbol].syscalls = {history[i][3]}

Charged(map, history, p) == UNION {Answer(map, history[i][3]) : i \in Of(history, p)}

ProcessInv(map, state, history, p) ==
    /\ IsState(state)
    /\ state.caps = Charged(map, history, p)
    /\ Attributed(map, state.functions, history, p)

(* One process or two, each of which is charged with its calls; there are  *)
(* none while the map is being compiled.                                   *)
CallsInv ==
    /\ processes = <<processes[1]>> \/ processes = <<processes[1], processes[2]>>
    /\ calls \in Seq((1..2) \X Symbol \X Traced) /\ Len(calls) <= MaxCalls
    /\ \A i \in DOMAIN calls : calls[i][1] \in DOMAIN processes
    /\ parse # "generated" => calls = <<>>
    /\ \A p \in DOMAIN processes : ProcessInv(caps, processes[p], calls, p)

(* Each text is what the step before it makes of the one before.           *)
ReportInv ==
    /\ report # Empty =>
          /\ parse = "generated"
          /\ \E flag \in BOOLEAN : report = IntoReport(flag)
          /\ json = WriteReport(report)
    /\ report = Empty => json = Empty
    /\ json = Empty => read = Empty
    /\ read # Empty =>
          \E borrowed \in BOOLEAN :
             read = [borrowed |-> borrowed, report |-> ReadReport(json, borrowed)]

Inv == MapInv /\ CallsInv /\ ReportInv

-----------------------------------------------------------------------------
(* What a stack of a function and main adds to a process: an entry for     *)
(* each of the two whose name is parsed and that has none, and the call is *)
(* the innermost one's.                                                    *)
RecordsCall(s, t, symbol, nr, charged) ==
    /\ IsState(t)
    /\ t.caps = s.caps \cup charged
    /\ DOMAIN t.functions = DOMAIN s.functions \cup NamedIn({symbol, MainFunction})
    /\ \A x \in DOMAIN s.functions : t.functions[x] = s.functions[x]
    /\ Named(symbol) /\ symbol \notin DOMAIN s.functions =>
          /\ t.functions[symbol].capabilities = AllDirect(charged)
          /\ t.functions[symbol].syscalls = {nr}

LEMMA StackRecorded ==
    ASSUME NEW s, IsState(s), NEW charged \in SUBSET Capability, NEW nr \in Sysno,
           NEW symbol \in Symbol, NEW stack, stack = <<symbol, MainFunction>>,
           NEW kept \in SUBSET 1..2, \A i \in 1..2 : i \in kept <=> Named(stack[i]),
           NEW location, \A x \in Symbol : location[x] = None
    PROVE  RecordsCall(s, RecordStack(ExtendCaps(s, charged), stack, kept, charged, {nr},
                                      location),
                       symbol, nr, charged)
  <1> DEFINE t == RecordStack(ExtendCaps(s, charged), stack, kept, charged, {nr}, location)
  <1> DEFINE new == [x \in {stack[i] : i \in kept} |->
                       FunctionOf(x, stack, kept, charged, {nr}, location)]
  <1>1. stack[1] = symbol /\ stack[2] = MainFunction /\ MainFunction \in Symbol
    BY ItemAssumption
  <1>2. {stack[i] : i \in kept} = NamedIn({symbol, MainFunction})
    BY <1>1 DEF NamedIn
  <1>3. /\ t.functions = Upsert(s.functions, new)
        /\ t.edges = s.edges \cup Calls(stack, kept)
        /\ t.caps = s.caps \cup charged
        /\ t.execs = s.execs /\ t.fds = s.fds /\ t.waiting = s.waiting
        /\ t.wd = s.wd /\ t.born = s.born
        /\ DOMAIN t = DOMAIN s
    BY DEF RecordStack, ExtendCaps, IsState
  <1> HIDE DEF t
  <1>4. DOMAIN new = NamedIn({symbol, MainFunction}) /\ DOMAIN new \subseteq Symbol
    BY <1>1, <1>2 DEF NamedIn
  <1>5. ASSUME NEW x \in DOMAIN new
        PROVE  /\ IsFunction(new[x])
               /\ new[x].capabilities = [c \in charged |-> FrameType(stack, kept, x)]
    <2>1. new[x] = [capabilities |-> [c \in charged |-> FrameType(stack, kept, x)],
                    syscalls     |-> IF x = Innermost(stack, kept) THEN {nr} ELSE {},
                    location     |-> None]
      BY <1>4 DEF FunctionOf
    <2>2. FrameType(stack, kept, x) \in CapabilityType
      BY DEF FrameType, CapabilityType
    <2>3. IsMap([c \in charged |-> FrameType(stack, kept, x)], Capability, CapabilityType)
      BY <2>2 DEF IsMap
    <2>4. DOMAIN new[x] = {"capabilities", "syscalls", "location"}
      BY <2>1
    <2>5. new[x].syscalls \subseteq Sysno /\ new[x].location = None
      BY <2>1
    <2> HIDE DEF new
    <2> QED
      BY <2>1, <2>3, <2>4, <2>5 DEF IsFunction, Location
  <1>6. Calls(stack, kept) \subseteq Symbol \X Symbol
    <2>1. \A i \in kept : stack[i] \in Symbol
      BY <1>1
    <2>2. ASSUME NEW e \in kept \X kept
          PROVE  <<stack[e[2]], stack[e[1]]>> \in Symbol \X Symbol
      BY <2>1
    <2> QED
      BY <2>2 DEF Calls
  <1>7. /\ DOMAIN t.functions = DOMAIN s.functions \cup DOMAIN new
        /\ \A x \in DOMAIN s.functions : t.functions[x] = s.functions[x]
        /\ \A x \in DOMAIN new \ DOMAIN s.functions : t.functions[x] = new[x]
    BY <1>3 DEF Upsert
  <1> HIDE DEF new
  <1>8. IsState(t)
    <2>1. \A x \in DOMAIN t.functions : IsFunction(t.functions[x])
      BY <1>5, <1>7 DEF IsState
    <2>2. DOMAIN t.functions \subseteq Symbol /\ t.edges \subseteq Symbol \X Symbol
      BY <1>3, <1>4, <1>6, <1>7 DEF IsState
    <2> QED
      BY <1>3, <2>1, <2>2 DEF IsState
  <1>9. ASSUME Named(symbol), symbol \notin DOMAIN s.functions
        PROVE  /\ t.functions[symbol].capabilities = AllDirect(charged)
               /\ t.functions[symbol].syscalls = {nr}
    <2>1. 1 \in 1..2 /\ Named(stack[1])
      BY <1>1, <1>9
    <2>2. 1 \in kept
      BY <2>1
    <2>3. \A i \in kept : i \in Int /\ 1 <= i
      OBVIOUS
    <2>4. \A i \in kept : (\A j \in kept : i <= j) => i = 1
      BY <2>2, <2>3
    <2>5. 1 = CHOOSE i \in kept : \A j \in kept : i <= j
      BY <2>2, <2>3, <2>4
    <2>6. Innermost(stack, kept) = symbol
      BY <1>1, <2>5 DEF Innermost
    <2>7. symbol \in DOMAIN new /\ t.functions[symbol] = new[symbol]
      BY <1>4, <1>7, <1>9 DEF NamedIn
    <2>8. new[symbol].syscalls = {nr}
      BY <1>4, <2>6, <2>7 DEF FunctionOf, new
    <2>9. FrameType(stack, kept, symbol) = "Direct"
      BY <2>6 DEF FrameType
    <2> QED
      BY <1>5, <2>7, <2>8, <2>9 DEF AllDirect
  <1> QED
    BY <1>3, <1>4, <1>7, <1>8, <1>9 DEF RecordsCall, t

(* The history with one more call.                                         *)
LEMMA OneMoreCall ==
    ASSUME NEW T, NEW history \in Seq(T), NEW call \in T
    PROVE  /\ DOMAIN history = 1..Len(history) /\ Len(history) \in Nat
           /\ DOMAIN Append(history, call) = 1..(Len(history) + 1)
           /\ Append(history, call) \in Seq(T)
           /\ Len(Append(history, call)) = Len(history) + 1
           /\ \A i \in DOMAIN history : Append(history, call)[i] = history[i]
           /\ Append(history, call)[Len(history) + 1] = call
           /\ \A p : Of(Append(history, call), p) =
                 IF call[1] = p THEN Of(history, p) \cup {Len(history) + 1} ELSE Of(history, p)
  <1> DEFINE next == Append(history, call)
  <1>1. /\ DOMAIN history = 1..Len(history) /\ Len(history) \in Nat
        /\ DOMAIN next = 1..(Len(history) + 1)
        /\ next \in Seq(T)
        /\ Len(next) = Len(history) + 1
        /\ \A i \in DOMAIN history : next[i] = history[i]
        /\ next[Len(history) + 1] = call
    OBVIOUS
  <1> HIDE DEF next
  <1>2. ASSUME NEW p
        PROVE  Of(next, p) =
                 IF call[1] = p THEN Of(history, p) \cup {Len(history) + 1} ELSE Of(history, p)
    BY <1>1 DEF Of
  <1> QED
    BY <1>1, <1>2 DEF next

(* It says nothing new of another process.                                 *)
LEMMA OthersCall ==
    ASSUME NEW map, NEW state, NEW history, NEW next, NEW p,
           ProcessInv(map, state, history, p),
           DOMAIN history \subseteq DOMAIN next,
           \A i \in DOMAIN history : next[i] = history[i],
           Of(next, p) = Of(history, p)
    PROVE  ProcessInv(map, state, next, p)
  <1>1. Of(history, p) \subseteq DOMAIN history
    BY DEF Of
  <1>2. Charged(map, next, p) = Charged(map, history, p)
    BY <1>1 DEF Charged
  <1>3. {next[i][2] : i \in Of(next, p)} = {history[i][2] : i \in Of(history, p)}
    BY <1>1
  <1>4. \A x, i : IsFirst(history, p, x, i) => IsFirst(next, p, x, i)
    BY <1>1 DEF IsFirst
  <1>5. Attributed(map, state.functions, next, p)
    BY <1>3, <1>4 DEF ProcessInv, Attributed
  <1> QED
    BY <1>2, <1>5 DEF ProcessInv

(* next is history and one more call, the n-th: of symbol, for nr, by p.    *)
AppendsCall(history, next, p, symbol, nr, n) ==
    /\ DOMAIN history = 1..(n - 1) /\ DOMAIN next = 1..n
    /\ \A i \in DOMAIN history : next[i] = history[i]
    /\ next[n][2] = symbol /\ next[n][3] = nr
    /\ Of(next, p) = Of(history, p) \cup {n}

(* What it says of the process that made it: the functions that had called *)
(* keep their first call, and to one that had not this is the first.       *)
LEMMA OwnCall ==
    ASSUME NEW map, NEW state, NEW p, NEW history, NEW next, NEW n \in Nat \ {0},
           ProcessInv(map, state, history, p),
           NEW symbol \in Symbol, NEW nr \in Sysno,
           AppendsCall(history, next, p, symbol, nr, n),
           NEW t, RecordsCall(state, t, symbol, nr, Answer(map, nr))
    PROVE  ProcessInv(map, t, next, p)
  <1> USE DEF RecordsCall, AppendsCall
  <1> DEFINE known == DOMAIN state.functions
             callers(h) == {h[i][2] : i \in Of(h, p)}
  <1>1. Of(history, p) \subseteq DOMAIN history
    BY DEF Of
  <1>2. n \notin Of(history, p)
    BY <1>1
  <1>3. \A i \in Of(history, p) : i \in 1..(n - 1) /\ next[i] = history[i]
    BY <1>1
  <1>4. t.caps = Charged(map, next, p)
    <2>1. \A c : c \in Charged(map, next, p) <=>
                   c \in Charged(map, history, p) \/ c \in Answer(map, nr)
      BY <1>3 DEF Charged
    <2> QED
      BY <2>1 DEF ProcessInv
  <1>5. \A x : x \in callers(next) <=> x \in callers(history) \/ x = symbol
    BY <1>3
  <1>6. /\ \A x \in known : Named(x)
        /\ known \ {MainFunction} = {x \in callers(history) : Named(x)} \ {MainFunction}
    BY DEF ProcessInv, Attributed
  <1>7. /\ \A x \in DOMAIN t.functions : Named(x)
        /\ DOMAIN t.functions \ {MainFunction} =
              {x \in callers(next) : Named(x)} \ {MainFunction}
    <2> HIDE DEF callers
    <2> QED
      BY <1>5, <1>6 DEF NamedIn
  <1>8. ASSUME NEW x \in DOMAIN t.functions \ {MainFunction}
        PROVE  \E i \in DOMAIN next :
                  /\ IsFirst(next, p, x, i)
                  /\ t.functions[x].capabilities = AllDirect(Answer(map, next[i][3]))
                  /\ t.functions[x].syscalls = {next[i][3]}
    <2>1. CASE x \in known
      <3>1. PICK i \in DOMAIN history :
               /\ IsFirst(history, p, x, i)
               /\ state.functions[x].capabilities =
                     AllDirect(Answer(map, history[i][3]))
               /\ state.functions[x].syscalls = {history[i][3]}
        BY <1>8, <2>1 DEF ProcessInv, Attributed
      <3>2. i \in DOMAIN next /\ i <= n /\ next[i] = history[i]
        BY <3>1
      <3>3. IsFirst(next, p, x, i)
        BY <1>3, <3>1, <3>2 DEF IsFirst
      <3> QED
        BY <2>1, <3>1, <3>2, <3>3
    <2>2. CASE x \notin known
      <3>1. x = symbol /\ Named(symbol)
        BY <1>8, <2>2 DEF NamedIn
      <3>2. \A j \in Of(history, p) : history[j][2] # symbol
        BY <1>6, <1>8, <2>2, <3>1
      <3>3. IsFirst(next, p, x, n)
        BY <1>3, <3>1, <3>2 DEF IsFirst
      <3> QED
        BY <2>2, <3>1, <3>3
    <2> QED
      BY <2>1, <2>2
  <1> QED
    BY <1>4, <1>7, <1>8 DEF ProcessInv, Attributed

(* Handling the exit of a call.                                            *)
LEMMA CallKeeps ==
    ASSUME MapInv, CallsInv, NEW p \in 1..2, NEW symbol \in Symbol, NEW nr \in Traced,
           Call(p, symbol, nr)
    PROVE  CallsInv'
  <1> DEFINE stack == <<symbol, MainFunction>>
             kept == {i \in 1..2 : Named(stack[i])}
             charged == Answer(caps, nr)
             location == [x \in Symbol |-> None]
             t == RecordStack(ExtendCaps(processes[p], charged), stack, kept, charged, {nr},
                              location)
             T == (1..2) \X Symbol \X Traced
             call == <<p, symbol, nr>>
  <1>1. /\ calls' = Append(calls, call) /\ processes' = [processes EXCEPT ![p] = t]
        /\ caps' = caps /\ parse' = "generated" /\ p \in DOMAIN processes
        /\ Len(calls) < MaxCalls
    BY DEF Call, Tracing, mapVars, Lookup, Answer
  <1>2. charged \in SUBSET Capability /\ nr \in Sysno
    BY ItemAssumption DEF MapInv, MapTypeOK, IsMap, Answer
  <1>3. ProcessInv(caps, processes[p], calls, p) /\ IsState(processes[p])
    BY <1>1 DEF CallsInv, ProcessInv
  <1>4. RecordsCall(processes[p], t, symbol, nr, charged)
    <2>1. /\ stack = <<symbol, MainFunction>>
          /\ kept \in SUBSET 1..2 /\ \A i \in 1..2 : i \in kept <=> Named(stack[i])
          /\ \A x \in Symbol : location[x] = None
      OBVIOUS
    <2> HIDE DEF stack, kept, charged, location
    <2> QED
      BY <1>2, <1>3, <2>1, StackRecorded
  <1>5. call \in T /\ calls \in Seq(T)
    BY DEF CallsInv
  <1> HIDE DEF t, T
  <1>6. ProcessInv(caps, t, calls', p)
    <2> DEFINE n == Len(calls) + 1
    <2>1. call[1] = p /\ call[2] = symbol /\ call[3] = nr
      OBVIOUS
    <2> HIDE DEF call
    <2>2. /\ n \in Nat \ {0} /\ DOMAIN calls = 1..(n - 1) /\ DOMAIN calls' = 1..n
          /\ \A i \in DOMAIN calls : calls'[i] = calls[i]
          /\ calls'[n] = call
          /\ Of(calls', p) = Of(calls, p) \cup {n}
      BY <1>1, <1>5, <2>1, OneMoreCall
    <2> HIDE DEF n, charged
    <2>3. RecordsCall(processes[p], t, symbol, nr, Answer(caps, nr))
      BY <1>4 DEF charged
    <2>4. AppendsCall(calls, calls', p, symbol, nr, n) /\ n \in Nat \ {0}
      BY <2>1, <2>2 DEF AppendsCall
    <2>5. nr \in Sysno /\ ProcessInv(caps, processes[p], calls, p)
      BY <1>2, <1>3
    <2> QED
      BY <2>3, <2>4, <2>5, OwnCall
  <1>7. ASSUME NEW q \in DOMAIN processes, q # p
        PROVE  ProcessInv(caps, processes[q], calls', q)
    <2>1. /\ DOMAIN calls \subseteq DOMAIN calls'
          /\ \A i \in DOMAIN calls : calls'[i] = calls[i]
          /\ Of(calls', q) = Of(calls, q)
      BY <1>1, <1>5, <1>7, OneMoreCall
    <2> QED
      BY <2>1, OthersCall DEF CallsInv
  <1>8. /\ processes' = <<processes'[1]>> \/ processes' = <<processes'[1], processes'[2]>>
        /\ DOMAIN processes' = DOMAIN processes
        /\ processes'[p] = t
        /\ \A q \in DOMAIN processes \ {p} : processes'[q] = processes[q]
    BY <1>1 DEF CallsInv
  <1>9. /\ calls' \in Seq(T) /\ Len(calls') <= MaxCalls
        /\ \A i \in DOMAIN calls' : calls'[i][1] \in DOMAIN processes'
    <2>1. \A i \in DOMAIN calls : calls[i][1] \in DOMAIN processes
      BY DEF CallsInv
    <2> QED
      BY <1>1, <1>5, <1>8, <2>1, OneMoreCall, ItemAssumption
  <1> QED
    BY <1>1, <1>6, <1>7, <1>8, <1>9 DEF CallsInv, T

-----------------------------------------------------------------------------
(* Of a process that has made no call there is nothing.                    *)
LEMMA NewProcess ==
    ASSUME NEW map, NEW history, NEW p, Of(history, p) = {}, NEW born \in Nat
    PROVE  ProcessInv(map, NewState(<<>>, Empty, None, FALSE, born), history, p)
  <1> DEFINE s == NewState(<<>>, Empty, None, FALSE, born)
  <1>1. /\ s.execs = <<>> /\ s.fds = Empty /\ s.waiting = FALSE /\ s.wd = None
        /\ s.edges = {} /\ s.caps = {} /\ s.functions = Empty /\ s.born = born
        /\ DOMAIN s = {"execs", "fds", "waiting", "wd", "edges", "caps", "functions", "born"}
    BY DEF NewState
  <1> HIDE DEF s
  <1>2. DOMAIN Empty = {} /\ IsMap(Empty, Fd, FdMeta)
    BY DEF Empty, IsMap
  <1>3. IsState(s)
    <2>1. s.execs \in Seq(Image)
      BY <1>1
    <2>2. s.wd \in Path
      BY <1>1, ItemAssumption
    <2>3. IsMap(s.fds, Fd, FdMeta) /\ DOMAIN s.functions = {}
      BY <1>1, <1>2
    <2>4. s.waiting \in BOOLEAN /\ s.edges = {} /\ s.caps = {} /\ s.born \in Nat
      BY <1>1
    <2> QED
      BY <1>1, <2>1, <2>2, <2>3, <2>4 DEF IsState
  <1>4. s.caps = Charged(map, history, p)
    BY <1>1 DEF Charged
  <1>5. Attributed(map, s.functions, history, p)
    BY <1>1, <1>2 DEF Attributed
  <1>6. ProcessInv(map, s, history, p)
    BY <1>3, <1>4, <1>5 DEF ProcessInv
  <1> QED
    BY <1>6 DEF s

LEMMA InitInv == Init => Inv
  <1> SUFFICES ASSUME Init PROVE Inv
    OBVIOUS
  <1>1. MapInv
    BY MapInitInv DEF Init
  <1>2. /\ processes = <<processes[1]>> /\ DOMAIN processes = {1}
        /\ processes[1] = NewState(<<>>, Empty, None, FALSE, 1)
        /\ calls = <<>> /\ parse = "opening"
        /\ report = Empty /\ json = Empty /\ read = Empty
    BY DEF Init, MapInit
  <1>3. /\ calls \in Seq((1..2) \X Symbol \X Traced) /\ Len(calls) = 0
        /\ DOMAIN calls = {}
    BY <1>2
  <1>4. ProcessInv(caps, processes[1], calls, 1)
    <2>1. Of(calls, 1) = {} /\ 1 \in Nat
      BY <1>3 DEF Of
    <2> QED
      BY <1>2, <2>1, NewProcess
  <1>5. CallsInv
    <2>1. Len(calls) <= MaxCalls
      BY <1>3, ItemAssumption
    <2> QED
      BY <1>2, <1>3, <1>4, <2>1 DEF CallsInv
  <1>6. ReportInv
    BY <1>2 DEF ReportInv
  <1> QED
    BY <1>1, <1>6, <1>5 DEF Inv

(* While the map is compiled there is no call it could be asked about.     *)
LEMMA ReadMapKeeps ==
    ASSUME Inv, ReadMap
    PROVE  Inv'
  <1>1. /\ processes' = processes /\ calls' = calls
        /\ report' = report /\ json' = json /\ read' = read
        /\ parse # "generated" /\ MapInv'
    BY GenerateInv DEF ReadMap, Generate, Open, ReadLine, EndOfInput, Inv
  <1>2. calls = <<>> /\ report = Empty
    BY <1>1 DEF Inv, CallsInv, ReportInv
  <1>3. \A p \in DOMAIN processes : ProcessInv(caps', processes[p], calls, p)
    <2> SUFFICES ASSUME NEW p \in DOMAIN processes
                 PROVE  ProcessInv(caps', processes[p], calls, p)
      OBVIOUS
    <2>1. ProcessInv(caps, processes[p], calls, p)
      BY DEF Inv, CallsInv
    <2>2. Of(calls, p) = {}
      BY <1>2 DEF Of
    <2> QED
      BY <2>1, <2>2 DEF ProcessInv, Charged, Attributed
  <1>4. CallsInv'
    BY <1>1, <1>2, <1>3 DEF Inv, CallsInv
  <1>5. ReportInv'
    BY <1>1, <1>2 DEF Inv, ReportInv
  <1> QED
    BY <1>1, <1>4, <1>5 DEF Inv

LEMMA SpawnKeeps ==
    ASSUME Inv, Spawn
    PROVE  Inv'
  <1> DEFINE new == NewState(<<>>, Empty, None, FALSE, 2)
  <1>1. /\ processes' = Append(processes, new) /\ Len(processes) = 1
        /\ calls' = calls /\ caps' = caps /\ lines' = lines /\ parse' = parse
        /\ report' = report /\ json' = json /\ read' = read /\ report = Empty
    BY DEF Spawn, Tracing, mapVars
  <1>2. MapInv' /\ ReportInv'
    BY <1>1 DEF Inv, MapInv, MapTypeOK, Collected, ReportInv
  <1>3. processes = <<processes[1]>>
    BY <1>1 DEF Inv, CallsInv
  <1>4. ProcessInv(caps, new, calls, 2)
    <2>1. \A i \in DOMAIN calls : calls[i][1] # 2
      BY <1>3 DEF Inv, CallsInv
    <2> QED
      BY <2>1, NewProcess DEF Of
  <1> HIDE DEF new
  <1>5. processes' = <<processes[1], new>>
    <2>1. ASSUME NEW a, NEW b PROVE Append(<<a>>, b) = <<a, b>>
      <3> DEFINE both == Append(<<a>>, b)
      <3>1. <<a>> \in Seq({a, b}) /\ Len(<<a>>) = 1 /\ <<a>>[1] = a
        OBVIOUS
      <3>2. both \in Seq({a, b}) /\ Len(both) = 2 /\ both[1] = a /\ both[2] = b
        BY <3>1
      <3> HIDE DEF both
      <3>3. both = <<both[1], both[2]>>
        BY <3>2
      <3> QED
        BY <3>2, <3>3 DEF both
    <2>2. Append(<<processes[1]>>, new) = <<processes[1], new>>
      BY <2>1
    <2> QED
      BY <1>1, <1>3, <2>2
  <1>6. /\ processes' = <<processes'[1], processes'[2]>>
        /\ processes'[1] = processes[1] /\ processes'[2] = new
        /\ DOMAIN processes' = {1, 2} /\ DOMAIN processes = {1}
    BY <1>3, <1>5
  <1>7. CallsInv'
    BY <1>1, <1>4, <1>6 DEF Inv, CallsInv
  <1> QED
    BY <1>2, <1>7 DEF Inv

(* What one record has and another takes over is the first's where both    *)
(* have it.                                                                *)
LEMMA MergeFields ==
    ASSUME NEW f, NEW g
    PROVE  /\ DOMAIN (f @@ g) = DOMAIN f \cup DOMAIN g
           /\ \A x \in DOMAIN f : (f @@ g)[x] = f[x]
           /\ \A x \in DOMAIN g \ DOMAIN f : (f @@ g)[x] = g[x]
  BY DEF @@

(* What has been written has fields.                                       *)
LEMMA ReportHasFields ==
    ASSUME NEW flag \in BOOLEAN
    PROVE  /\ DOMAIN IntoReport(flag) = {"process", "children"}
           /\ IntoReport(flag) # Empty
  BY DEF IntoReport, Empty

LEMMA ProcessWritten ==
    ASSUME NEW p
    PROVE  LET written == WriteProcess(p)
           IN  /\ {"path", "capabilities", "functions", "edges"} \subseteq DOMAIN written
               /\ DOMAIN written \subseteq
                     {"path", "capabilities", "functions", "edges", "syscalls"}
               /\ written.path = p.path
               /\ written.capabilities = p.capabilities \ {"Safe"}
               /\ written.functions = [n \in DOMAIN p.functions |-> WriteFunction(p.functions[n])]
               /\ written.edges = p.edges
  <1> DEFINE functions == [n \in DOMAIN p.functions |-> WriteFunction(p.functions[n])]
             capabilities == p.capabilities \ {"Safe"}
             syscalls == CollectSyscalls(p.functions)
             fields == [path |-> p.path, capabilities |-> capabilities,
                        functions |-> functions, edges |-> p.edges]
             rest == Unless(syscalls = {}, [syscalls |-> syscalls])
  <1>1. WriteProcess(p) = fields @@ rest
    BY DEF WriteProcess
  <1> HIDE DEF functions, capabilities, syscalls
  <1>2. /\ DOMAIN fields = {"path", "capabilities", "functions", "edges"}
        /\ fields.path = p.path /\ fields.capabilities = capabilities
        /\ fields.functions = functions /\ fields.edges = p.edges
    OBVIOUS
  <1>3. DOMAIN rest \subseteq {"syscalls"}
    BY DEF Unless, Empty
  <1> HIDE DEF fields, rest
  <1>4. /\ DOMAIN (fields @@ rest) = DOMAIN fields \cup DOMAIN rest
        /\ \A x \in DOMAIN fields : (fields @@ rest)[x] = fields[x]
    BY MergeFields
  <1> QED
    BY <1>1, <1>2, <1>3, <1>4 DEF functions, capabilities

LEMMA ReportWritten ==
    ASSUME NEW r
    PROVE  LET written == WriteReport(r)
               process == WriteProcess(r.process)
           IN  /\ Has(written, {"path", "capabilities", "functions", "edges"})
               /\ written.path = process.path /\ written.capabilities = process.capabilities
               /\ written.functions = process.functions /\ written.edges = process.edges
               /\ Has(written, {"children"}) <=> r.children # <<>>
               /\ r.children # <<>> =>
                     written.children = [i \in DOMAIN r.children |-> WriteProcess(r.children[i])]
  <1> DEFINE children == [i \in DOMAIN r.children |-> WriteProcess(r.children[i])]
             process == WriteProcess(r.process)
             rest == Unless(r.children = <<>>, [children |-> children])
  <1>1. WriteReport(r) = process @@ rest
    BY DEF WriteReport
  <1>2. /\ {"path", "capabilities", "functions", "edges"} \subseteq DOMAIN process
        /\ DOMAIN process \subseteq {"path", "capabilities", "functions", "edges", "syscalls"}
    BY ProcessWritten
  <1> HIDE DEF children, process
  <1>3. /\ r.children = <<>> => DOMAIN rest = {}
        /\ r.children # <<>> => DOMAIN rest = {"children"} /\ rest.children = children
    BY DEF Unless, Empty
  <1> HIDE DEF rest
  <1>4. /\ DOMAIN (process @@ rest) = DOMAIN process \cup DOMAIN rest
        /\ \A x \in DOMAIN process : (process @@ rest)[x] = process[x]
        /\ \A x \in DOMAIN rest \ DOMAIN process : (process @@ rest)[x] = rest[x]
    BY MergeFields
  <1> QED
    BY <1>1, <1>2, <1>3, <1>4 DEF Has, children, process

LEMMA WrittenHasFields ==
    ASSUME NEW r
    PROVE  /\ Has(WriteReport(r), {"path", "capabilities", "functions", "edges"})
           /\ WriteReport(r) # Empty
  <1>1. Has(WriteReport(r), {"path", "capabilities", "functions", "edges"})
    BY ReportWritten
  <1> QED
    BY <1>1 DEF Has, Empty

LEMMA OutputKeeps ==
    ASSUME Inv, NEW flag \in BOOLEAN, Output(flag)
    PROVE  Inv'
  <1>1. /\ processes' = processes /\ calls' = calls /\ caps' = caps
        /\ lines' = lines /\ parse' = parse /\ parse = "generated"
        /\ report' = IntoReport(flag) /\ json' = WriteReport(report') /\ read' = read
        /\ report = Empty
    BY DEF Output, Tracing, mapVars
  <1>2. MapInv' /\ CallsInv'
    BY <1>1 DEF Inv, MapInv, MapTypeOK, Collected, CallsInv
  <1>3. report' = IntoReport(flag)'
    BY <1>1 DEF IntoReport
  <1>4. report' # Empty /\ json' # Empty /\ read' = Empty
    BY <1>1, ReportHasFields, WrittenHasFields DEF Inv, ReportInv
  <1>5. ReportInv'
    BY <1>1, <1>3, <1>4 DEF ReportInv
  <1> QED
    BY <1>2, <1>5 DEF Inv

LEMMA ReadKeeps ==
    ASSUME Inv, NEW borrowed \in BOOLEAN, Read(borrowed)
    PROVE  Inv'
  <1>1. /\ processes' = processes /\ calls' = calls /\ caps' = caps
        /\ lines' = lines /\ parse' = parse
        /\ report' = report /\ json' = json
        /\ read' = [borrowed |-> borrowed, report |-> ReadReport(json, borrowed)]
        /\ json # Empty
    BY DEF Read, mapVars
  <1>2. MapInv' /\ CallsInv'
    BY <1>1 DEF Inv, MapInv, MapTypeOK, Collected, CallsInv
  <1>3. ReportInv'
    BY <1>1 DEF Inv, ReportInv, IntoReport
  <1> QED
    BY <1>2, <1>3 DEF Inv

LEMMA NextInv == Inv /\ [Next]_vars => Inv'
  <1> SUFFICES ASSUME Inv, [Next]_vars PROVE Inv'
    OBVIOUS
  <1>1. CASE ReadMap
    BY <1>1, ReadMapKeeps
  <1>2. CASE Spawn
    BY <1>2, SpawnKeeps
  <1>3. ASSUME NEW p \in 1..2, NEW symbol \in Symbol, NEW nr \in Traced,
               Call(p, symbol, nr)
        PROVE  Inv'
    <2>1. UNCHANGED <<mapVars, report, json, read>> /\ report = Empty
      BY <1>3 DEF Call, Tracing
    <2>2. MapInv' /\ ReportInv'
      BY <2>1 DEF mapVars, Inv, MapInv, MapTypeOK, Collected, ReportInv
    <2> QED
      BY <1>3, <2>2, CallKeeps DEF Inv
  <1>4. ASSUME NEW flag \in BOOLEAN, Output(flag) PROVE Inv'
    BY <1>4, OutputKeeps
  <1>5. ASSUME NEW flag \in BOOLEAN, Read(flag) PROVE Inv'
    BY <1>5, ReadKeeps
  <1>6. CASE UNCHANGED vars
    <2>1. /\ processes' = processes /\ calls' = calls /\ caps' = caps
          /\ lines' = lines /\ parse' = parse
          /\ report' = report /\ json' = json /\ read' = read
      BY <1>6 DEF vars, mapVars
    <2>2. MapInv' /\ CallsInv'
      BY <2>1 DEF Inv, MapInv, MapTypeOK, Collected, CallsInv
    <2>3. ReportInv'
      BY <2>1 DEF Inv, ReportInv, IntoReport
    <2> QED
      BY <2>2, <2>3 DEF Inv
  <1> QED
    BY <1>1, <1>2, <1>3, <1>4, <1>5, <1>6 DEF Next

LEMMA Invariance == Spec => []Inv
  <1>1. Init => Inv
    BY InitInv
  <1>2. Inv /\ [Next]_vars => Inv'
    BY NextInv
  <1> QED
    BY <1>1, <1>2, PTL DEF Spec

(* Every text is of the shape that its reader expects: the map's table,    *)
(* the processes, the history of calls, the report, its JSON and what is   *)
(* made of it.                                                             *)
THEOREM TypeCorrect == Spec => []TypeOK
  <1>1. Inv => TypeOK
    <2> SUFFICES ASSUME Inv PROVE TypeOK
      OBVIOUS
    <2>1. MapTypeOK /\ Len(processes) \in 1..2
      BY DEF Inv, MapInv, CallsInv
    <2>2. \A p \in DOMAIN processes : IsState(processes[p])
      BY DEF Inv, CallsInv, ProcessInv
    <2>3. calls \in Seq((1..2) \X Symbol \X Traced) /\ Len(calls) <= MaxCalls
      BY DEF Inv, CallsInv
    <2>4. report # Empty => DOMAIN report = {"process", "children"}
      BY ReportHasFields DEF Inv, ReportInv
    <2>5. json # Empty => Has(json, {"path", "capabilities", "functions", "edges"})
      BY WrittenHasFields DEF Inv, ReportInv
    <2>6. read # Empty => DOMAIN read = {"borrowed", "report"}
      BY DEF Inv, ReportInv
    <2> QED
      BY <2>1, <2>2, <2>3, <2>4, <2>5, <2>6 DEF TypeOK
  <1> QED
    BY <1>1, Invariance, PTL
-----------------------------------------------------------------------------
(* A name that was parsed is read as what it was parsed to: no variant of  *)
(* the enum has the fields of one that is tried before it.                 *)
LEMMA RustNameRead ==
    ASSUME NEW text, Parses(text)
    PROVE  ReadRustName(ParseRustName(text)) = ParseRustName(text)
           /\ Readable(ParseRustName(text))
  <1>1. ASSUME NEW trait, NEW type, NEW method
        PROVE  LET name == [trait |-> trait, type |-> type, method |-> method]
               IN  ReadRustName(name) = name /\ Readable(name)
    BY DEF ReadRustName, AsTraitMethod, Has, Readable, Unreadable
  <1>2. ASSUME NEW type, NEW method
        PROVE  LET name == [type |-> type, method |-> method]
               IN  ReadRustName(name) = name /\ Readable(name)
    BY DEF ReadRustName, AsStructMethod, Has, Readable, Unreadable
  <1>3. ASSUME NEW function
        PROVE  LET name == [function |-> function]
               IN  ReadRustName(name) = name /\ Readable(name)
    BY DEF ReadRustName, Has, Readable, Unreadable
  <1>4. CASE Head(text) = "<"
    <2>1. ParseRustName(text) = ParseAngle(Tail(text))
      BY <1>4 DEF ParseRustName
    <2>2. "error" \notin DOMAIN ParseAngle(Tail(text))
      BY <2>1 DEF Parses
    <2>3. "error" \in DOMAIN MalformedTraitMethod /\ "error" \in DOMAIN MalformedMethod
      BY DEF MalformedTraitMethod, MalformedMethod
    <2>4. \/ \E trait, type, method : ParseAngle(Tail(text)) =
                [trait |-> trait, type |-> type, method |-> method]
          \/ \E type, method : ParseAngle(Tail(text)) = [type |-> type, method |-> method]
      BY <2>2, <2>3, Zenon DEF ParseAngle, StructMethod
    <2> QED
      BY <1>1, <1>2, <2>1, <2>4
  <1>5. CASE Head(text) # "<"
    <2>1. \/ \E type, method : ParseRustName(text) = [type |-> type, method |-> method]
          \/ \E function : ParseRustName(text) = [function |-> function]
      BY <1>5, Zenon DEF ParseRustName, StructMethod
    <2> QED
      BY <1>2, <1>3, <2>1
  <1> QED
    BY <1>4, <1>5

(* What is written of a function's name, with whatever else is written     *)
(* beside it, is read as that name.                                        *)
LEMMA NameRead ==
    ASSUME NEW symbol, Named(symbol), NEW object,
           LET name == ParseMangledName(symbol)
               written == WriteName(name)
           IN  /\ \A x \in DOMAIN written : x \in DOMAIN object /\ object[x] = written[x]
               /\ Has(object, {"name"}) => Has(written, {"name"})
    PROVE  /\ ReadName(object) = ParseMangledName(symbol)
           /\ Readable(ParseMangledName(symbol))
  <1> DEFINE name == ParseMangledName(symbol)
             written == WriteName(name)
             text == Spelled(symbol)
             rest == Unless(~Has(name, {"name"}), [language |-> "rust"])
  <1>1. /\ DOMAIN written = DOMAIN name \cup DOMAIN rest
        /\ \A x \in DOMAIN name : written[x] = name[x]
    <2> HIDE DEF name, rest
    <2>1. written = name @@ rest
      BY DEF WriteName, rest
    <2>2. /\ DOMAIN (name @@ rest) = DOMAIN name \cup DOMAIN rest
          /\ \A x \in DOMAIN name : (name @@ rest)[x] = name[x]
      BY MergeFields
    <2> QED
      BY <2>1, <2>2
  <1>2. /\ \A x \in DOMAIN name : x \in DOMAIN object /\ object[x] = name[x]
        /\ Has(object, {"name"}) => "name" \in DOMAIN written
    BY <1>1 DEF Has
  <1>3. CASE symbol.kind = "other"
    <2>1. name = [display_name |-> text, language |-> "c"]
      BY <1>3 DEF ParseMangledName
    <2> HIDE DEF name, text
    <2>2. rest = Empty
      BY <2>1 DEF Has, Unless
    <2>3. "name" \notin DOMAIN written
      BY <1>1, <2>1, <2>2 DEF Empty
    <2>4. ~Has(object, {"display_name", "name"}) /\ Has(object, {"display_name", "language"})
      BY <1>2, <2>1, <2>3 DEF Has
    <2>5. ReadName(object) = name
      BY <1>2, <2>1, <2>4 DEF ReadName
    <2>6. Readable(name)
      BY <2>1 DEF Readable, Unreadable
    <2> QED
      BY <2>5, <2>6 DEF name
  <1>4. CASE symbol.kind # "other"
    <2>1. Parses(text) /\ name = [display_name |-> text, name |-> ParseRustName(text)]
      BY <1>4 DEF ParseMangledName, Named, Parses
    <2>2. ReadRustName(ParseRustName(text)) = ParseRustName(text) /\ Readable(ParseRustName(text))
      BY <2>1, RustNameRead
    <2> HIDE DEF name, text
    <2>3. Has(object, {"display_name", "name"}) /\ object.display_name = text
          /\ object.name = ParseRustName(text)
      BY <1>2, <2>1 DEF Has
    <2>4. ReadName(object) = name
      BY <2>1, <2>2, <2>3 DEF ReadName
    <2>5. Readable(name)
      BY <2>1 DEF Readable, Unreadable
    <2> QED
      BY <2>4, <2>5 DEF name
  <1> QED
    BY <1>3, <1>4

(* A function of a report.                                                 *)
ReportedFunction(symbol, f) == [name |-> ParseMangledName(symbol)] @@ f

FunctionFields == {"capabilities", "syscalls", "location"}

LEMMA FunctionRead ==
    ASSUME NEW symbol, Named(symbol), NEW g, DOMAIN g = FunctionFields,
           NEW borrowed \in BOOLEAN
    PROVE  LET f == ReportedFunction(symbol, g)
               back == ReadFunction(WriteFunction(f), borrowed)
           IN  /\ f.capabilities = g.capabilities /\ f.syscalls = g.syscalls
               /\ f.name = ParseMangledName(symbol)
               /\ IF borrowed \/ g.capabilities = Empty THEN back = f ELSE back = Unreadable
               /\ f # Unreadable
  <1> DEFINE f == ReportedFunction(symbol, g)
             name == ParseMangledName(symbol)
             fields == [location |-> f.location, capabilities |-> f.capabilities]
             rest == Unless(f.syscalls = {}, [syscalls |-> f.syscalls])
             object == WriteFunction(f)
  <1>1. /\ DOMAIN f = {"name", "capabilities", "syscalls", "location"}
        /\ f.name = name /\ f.capabilities = g.capabilities
        /\ f.syscalls = g.syscalls /\ f.location = g.location
        /\ f = [name |-> f.name, location |-> f.location,
                capabilities |-> f.capabilities, syscalls |-> f.syscalls]
    BY DEF ReportedFunction, FunctionFields, @@
  <1> HIDE DEF f, name
  <1>2. object = (WriteName(name) @@ fields) @@ rest
    BY <1>1 DEF WriteFunction
  <1> HIDE DEF object
  <1>3. /\ DOMAIN fields = {"location", "capabilities"}
        /\ fields.location = f.location /\ fields.capabilities = f.capabilities
        /\ f.syscalls = {} => DOMAIN rest = {}
        /\ f.syscalls # {} => DOMAIN rest = {"syscalls"} /\ rest.syscalls = f.syscalls
    BY DEF Unless, Empty
  <1> HIDE DEF fields, rest
  <1>4. DOMAIN WriteName(name) \subseteq {"display_name", "name", "language"}
    <2>1. DOMAIN name \subseteq {"display_name", "name", "language"}
      BY DEF name, ParseMangledName, Named, Parses
    <2>2. DOMAIN Unless(~Has(name, {"name"}), [language |-> "rust"]) \subseteq {"language"}
      BY DEF Unless, Empty
    <2> QED
      BY <2>1, <2>2, MergeFields DEF WriteName
  <1>5. /\ DOMAIN object = DOMAIN WriteName(name) \cup DOMAIN fields \cup DOMAIN rest
        /\ \A x \in DOMAIN WriteName(name) : object[x] = WriteName(name)[x]
        /\ object.location = f.location /\ object.capabilities = f.capabilities
        /\ f.syscalls # {} => object.syscalls = f.syscalls
    <2> DEFINE first == WriteName(name)
               both == first @@ fields
    <2>1. /\ DOMAIN (first @@ fields) = DOMAIN first \cup DOMAIN fields
          /\ \A x \in DOMAIN first : (first @@ fields)[x] = first[x]
          /\ \A x \in DOMAIN fields \ DOMAIN first : (first @@ fields)[x] = fields[x]
      <3> HIDE DEF first
      <3> QED
        BY MergeFields
    <2> HIDE DEF first, both
    <2>2. /\ DOMAIN (both @@ rest) = DOMAIN both \cup DOMAIN rest
          /\ \A x \in DOMAIN both : (both @@ rest)[x] = both[x]
          /\ \A x \in DOMAIN rest \ DOMAIN both : (both @@ rest)[x] = rest[x]
      BY MergeFields
    <2>3. DOMAIN first \subseteq {"display_name", "name", "language"}
      BY <1>4 DEF first
    <2>4. /\ DOMAIN both = DOMAIN first \cup DOMAIN fields
          /\ \A x \in DOMAIN first : both[x] = first[x]
          /\ both.location = f.location /\ both.capabilities = f.capabilities
      BY <1>3, <2>1, <2>3 DEF both
    <2>5. object = both @@ rest
      BY <1>2 DEF both, first
    <2>6. /\ DOMAIN object = DOMAIN first \cup DOMAIN fields \cup DOMAIN rest
          /\ \A x \in DOMAIN first : object[x] = first[x]
          /\ object.location = f.location /\ object.capabilities = f.capabilities
          /\ f.syscalls # {} => object.syscalls = f.syscalls
      BY <1>3, <2>2, <2>3, <2>4, <2>5
    <2> QED
      BY <2>6 DEF first
  <1>6. ReadName(object) = name /\ Readable(name)
    <2>1. /\ \A x \in DOMAIN WriteName(name) : x \in DOMAIN object /\ object[x] = WriteName(name)[x]
          /\ Has(object, {"name"}) => Has(WriteName(name), {"name"})
      BY <1>3, <1>5 DEF Has
    <2> QED
      BY <2>1, NameRead DEF name
  <1>7. /\ Has(object, {"capabilities"})
        /\ Has(object, {"syscalls"}) <=> f.syscalls # {}
    BY <1>3, <1>4, <1>5 DEF Has
  <1>8. CASE borrowed \/ f.capabilities = Empty
    <2>1. ReadFunction(object, borrowed) =
             [name |-> name, location |-> f.location, capabilities |-> f.capabilities,
              syscalls |-> f.syscalls]
      BY <1>5, <1>6, <1>7, <1>8 DEF ReadFunction
    <2> QED
      BY <1>1, <1>8, <2>1 DEF f, name, object, Unreadable
  <1>9. CASE ~(borrowed \/ f.capabilities = Empty)
    <2>1. ReadFunction(object, borrowed) = Unreadable
      BY <1>5, <1>9 DEF ReadFunction
    <2> QED
      BY <1>1, <1>9, <2>1 DEF f, name, object, Unreadable
  <1> QED
    BY <1>8, <1>9
(* A process of a report, whether one of its functions has a capability    *)
(* and with it a type, and the process without Safe.                       *)
AllNamed(functions) == \A symbol \in DOMAIN functions : Named(symbol)

Typed(p) == \E symbol \in DOMAIN p.functions : p.functions[symbol].capabilities # Empty

Clean(p) == [p EXCEPT !.capabilities = @ \ {"Safe"}]

LEMMA ReportedProcess ==
    ASSUME NEW state
    PROVE  LET p == Reported(state)
           IN  /\ p = [path |-> p.path, capabilities |-> state.caps,
                       functions |-> p.functions, edges |-> p.edges]
               /\ p.functions = [symbol \in DOMAIN state.functions |->
                                    ReportedFunction(symbol, state.functions[symbol])]
  BY DEF Reported, IntoProcess, ReportedFunction

LEMMA ProcessRead ==
    ASSUME NEW state, IsState(state), AllNamed(state.functions),
           NEW borrowed \in BOOLEAN, NEW object,
           LET written == WriteProcess(Reported(state))
           IN  /\ object.path = written.path /\ object.capabilities = written.capabilities
               /\ object.functions = written.functions /\ object.edges = written.edges
    PROVE  LET p == Reported(state)
           IN  /\ ReadProcess(object, borrowed) =
                     IF borrowed \/ ~Typed(p) THEN Clean(p) ELSE Unreadable
               /\ Readable(Clean(p))
  <1> DEFINE p == Reported(state)
             D == DOMAIN state.functions
             back(n) == ReadFunction(object.functions[n], borrowed)
             functions == [n \in D |-> back(n)]
  <1>1. /\ p = [path |-> p.path, capabilities |-> p.capabilities,
                functions |-> p.functions, edges |-> p.edges]
        /\ p.functions = [n \in D |-> ReportedFunction(n, state.functions[n])]
    BY ReportedProcess
  <1> HIDE DEF p
  <1>2. /\ object.path = p.path /\ object.capabilities = p.capabilities \ {"Safe"}
        /\ object.functions = [n \in DOMAIN p.functions |-> WriteFunction(p.functions[n])]
        /\ object.edges = p.edges
    BY ProcessWritten DEF p
  <1>3. ASSUME NEW n \in D
        PROVE  /\ IF borrowed \/ p.functions[n].capabilities = Empty
                  THEN back(n) = p.functions[n] ELSE back(n) = Unreadable
               /\ p.functions[n] # Unreadable
    <2>1. object.functions[n] = WriteFunction(p.functions[n])
      BY <1>1, <1>2
    <2>2. p.functions[n] = ReportedFunction(n, state.functions[n])
      BY <1>1
    <2>3. Named(n) /\ DOMAIN state.functions[n] = FunctionFields
      BY DEF AllNamed, IsState, IsFunction, FunctionFields
    <2> QED
      BY <2>1, <2>2, <2>3, FunctionRead
  <1>4. DOMAIN object.functions = D /\ DOMAIN p.functions = D
    BY <1>1, <1>2
  <1>5. ReadProcess(object, borrowed) =
           IF \A n \in D : Readable(back(n))
           THEN [path |-> p.path, capabilities |-> p.capabilities \ {"Safe"},
                 functions |-> functions, edges |-> p.edges]
           ELSE Unreadable
    BY <1>2, <1>4 DEF ReadProcess
  <1>6. Clean(p) = [path |-> p.path, capabilities |-> p.capabilities \ {"Safe"},
                    functions |-> p.functions, edges |-> p.edges]
    BY <1>1 DEF Clean
  <1>7. Readable(Clean(p))
    BY <1>6 DEF Readable, Unreadable
  <1> HIDE DEF back
  <1>8. CASE borrowed \/ ~Typed(p)
    <2>1. \A n \in D : back(n) = p.functions[n] /\ Readable(back(n))
      BY <1>3, <1>4, <1>8 DEF Typed, Readable
    <2>2. functions = p.functions
      BY <1>1, <2>1
    <2> QED
      BY <1>5, <1>6, <1>7, <1>8, <2>1, <2>2 DEF p
  <1>9. CASE ~(borrowed \/ ~Typed(p))
    <2>1. \E n \in D : ~Readable(back(n))
      BY <1>3, <1>4, <1>9 DEF Typed, Readable
    <2> QED
      BY <1>5, <1>7, <1>9, <2>1 DEF p
  <1> QED
    BY <1>8, <1>9

(* The states a report is made of.                                         *)
Sound(state) == IsState(state) /\ AllNamed(state.functions)

(* A report of a process without children cannot be read.                  *)
LEMMA LonelyReportRead ==
    ASSUME NEW r, r.children = <<>>, NEW borrowed \in BOOLEAN
    PROVE  ReadReport(WriteReport(r), borrowed) = Unreadable
  BY ReportWritten DEF ReadReport

(* One with a child is read as it was written.                             *)
LEMMA FamilyReportRead ==
    ASSUME NEW first, NEW second, Sound(first), Sound(second), NEW r,
           r.process = Reported(first), r.children = <<Reported(second)>>,
           NEW borrowed \in BOOLEAN
    PROVE  LET typed == Typed(Reported(first)) \/ Typed(Reported(second))
           IN  /\ ReadReport(WriteReport(r), borrowed) =
                     IF borrowed \/ ~typed
                     THEN [process |-> Clean(Reported(first)),
                           children |-> <<Clean(Reported(second))>>]
                     ELSE Unreadable
               /\ Readable([process |-> Clean(Reported(first)),
                            children |-> <<Clean(Reported(second))>>])
  <1> DEFINE object == WriteReport(r)
             p == Reported(first)
             c == Reported(second)
             head == ReadProcess(object, borrowed)
             tail == ReadProcess(WriteProcess(c), borrowed)
             children == [i \in DOMAIN object.children |->
                             ReadProcess(object.children[i], borrowed)]
  <1>1. r.children # <<>> /\ DOMAIN r.children = {1} /\ r.children[1] = c
    OBVIOUS
  <1>2. /\ object.path = WriteProcess(p).path
        /\ object.capabilities = WriteProcess(p).capabilities
        /\ object.functions = WriteProcess(p).functions
        /\ object.edges = WriteProcess(p).edges
        /\ Has(object, {"children"})
        /\ DOMAIN object.children = {1} /\ object.children[1] = WriteProcess(c)
    <2> HIDE DEF p, c
    <2>1. LET process == WriteProcess(p)
          IN  /\ object.path = process.path /\ object.capabilities = process.capabilities
              /\ object.functions = process.functions /\ object.edges = process.edges
              /\ Has(object, {"children"})
              /\ object.children = [i \in DOMAIN r.children |-> WriteProcess(r.children[i])]
      BY <1>1, ReportWritten DEF p
    <2> HIDE DEF object
    <2> QED
      BY <1>1, <2>1
  <1> HIDE DEF object
  <1>3. /\ head = IF borrowed \/ ~Typed(p) THEN Clean(p) ELSE Unreadable
        /\ Readable(Clean(p))
    BY <1>2, ProcessRead DEF Sound
  <1>4. /\ tail = IF borrowed \/ ~Typed(c) THEN Clean(c) ELSE Unreadable
        /\ Readable(Clean(c))
    BY ProcessRead DEF Sound
  <1>5. children = <<tail>>
    <2>1. DOMAIN children = {1} /\ children[1] = tail
      BY <1>2
    <2>2. children = [i \in {1} |-> children[i]]
      BY <1>2
    <2> HIDE DEF children, tail
    <2>3. DOMAIN <<tail>> = {1} /\ <<tail>>[1] = tail /\ <<tail>> = [i \in {1} |-> tail]
      OBVIOUS
    <2> QED
      BY <2>1, <2>2, <2>3
  <1> HIDE DEF head, tail, p, c
  <1>6. ReadReport(object, borrowed) =
           IF Readable(head) /\ Readable(tail)
           THEN [process |-> head, children |-> <<tail>>] ELSE Unreadable
    <2>1. (\A i \in DOMAIN children : Readable(children[i])) <=> Readable(tail)
      BY <1>2 DEF tail
    <2> HIDE DEF children
    <2> QED
      BY <1>2, <1>5, <2>1 DEF ReadReport, head, children
  <1>7. Readable([process |-> Clean(p), children |-> <<Clean(c)>>])
    BY DEF Readable, Unreadable
  <1>8. ReadReport(object, borrowed) =
           IF borrowed \/ ~(Typed(p) \/ Typed(c))
           THEN [process |-> Clean(p), children |-> <<Clean(c)>>] ELSE Unreadable
    <2>1. Readable(Unreadable) = FALSE
      BY DEF Readable
    <2> QED
      BY <1>3, <1>4, <1>6, <2>1
  <1> QED
    BY <1>7, <1>8 DEF object, p, c
(* What has been read, of what, and how.                                   *)
LEMMA WhatIsRead ==
    ASSUME Inv, read # Empty
    PROVE  /\ parse = "generated" /\ Sound(processes[1])
           /\ read.borrowed \in BOOLEAN
           /\ read.report = ReadReport(WriteReport(report), read.borrowed)
           /\ report.process = Reported(processes[1])
           /\ \/ report.children = <<>>
              \/ /\ processes = <<processes[1], processes[2]>> /\ Sound(processes[2])
                 /\ report.children = <<Reported(processes[2])>>
  <1>1. /\ json # Empty /\ report # Empty /\ parse = "generated"
        /\ json = WriteReport(report)
    BY DEF Inv, ReportInv
  <1>2. PICK flag \in BOOLEAN : report = IntoReport(flag)
    BY <1>1 DEF Inv, ReportInv
  <1>3. PICK borrowed \in BOOLEAN :
           read = [borrowed |-> borrowed, report |-> ReadReport(json, borrowed)]
    BY DEF Inv, ReportInv
  <1>4. \A p \in DOMAIN processes : Sound(processes[p])
    BY DEF Inv, CallsInv, ProcessInv, Attributed, Sound, AllNamed
  <1>5. /\ DOMAIN processes = 1..Len(processes) /\ Len(processes) \in 1..2
        /\ Len(processes) = 2 => processes = <<processes[1], processes[2]>>
    BY DEF Inv, CallsInv
  <1>6. 1 \in DOMAIN processes /\ (Len(processes) = 2 => 2 \in DOMAIN processes)
    BY <1>5
  <1>7. report.process = Reported(processes[1])
    BY <1>2 DEF IntoReport
  <1>8. report.children = IF flag /\ Len(processes) = 2
                          THEN <<Reported(processes[2])>> ELSE <<>>
    BY <1>2 DEF IntoReport
  <1> QED
    BY <1>1, <1>3, <1>4, <1>5, <1>6, <1>7, <1>8

LEMMA Pair == ASSUME NEW a, NEW b PROVE <<a>> \o <<b>> = <<a, b>>
  <1> DEFINE both == <<a>> \o <<b>>
  <1>1. <<a>> \in Seq({a, b}) /\ Len(<<a>>) = 1 /\ <<a>>[1] = a
        /\ <<b>> \in Seq({a, b}) /\ Len(<<b>>) = 1 /\ <<b>>[1] = b
    OBVIOUS
  <1>2. both \in Seq({a, b}) /\ Len(both) = 2 /\ both[1] = a /\ both[2] = b
    BY <1>1
  <1> HIDE DEF both
  <1>3. both = <<both[1], both[2]>>
    BY <1>2
  <1> QED
    BY <1>2, <1>3 DEF both

(* A report is read back as it was written, but for Safe, exactly when it  *)
(* has children and its types can be lent: ReadBackExactly, for any number *)
(* of functions and every name they can have.                              *)
THEOREM ReadBack == Spec => []ReadBackExactly
  <1>1. Inv => ReadBackExactly
    <2> SUFFICES ASSUME Inv, read # Empty
                 PROVE  LET all == Processes(report)
                            typed == \E p \in DOMAIN all : Typed(all[p])
                        IN  IF report.children # <<>> /\ (read.borrowed \/ ~typed)
                            THEN /\ Readable(read.report)
                                 /\ Processes(read.report) =
                                       [p \in DOMAIN all |-> Clean(all[p])]
                            ELSE ~Readable(read.report)
      BY DEF ReadBackExactly, Typed, Clean
    <2> DEFINE all == Processes(report)
               typed == \E p \in DOMAIN all : Typed(all[p])
    <2>1. CASE report.children = <<>>
      <3>1. read.report = Unreadable
        BY <2>1, WhatIsRead, LonelyReportRead
      <3> QED
        BY <2>1, <3>1 DEF Readable
    <2>2. CASE report.children # <<>>
      <3> DEFINE p == Reported(processes[1])
                 c == Reported(processes[2])
                 family == [process |-> Clean(p), children |-> <<Clean(c)>>]
      <3>1. /\ Sound(processes[1]) /\ Sound(processes[2]) /\ read.borrowed \in BOOLEAN
            /\ read.report = ReadReport(WriteReport(report), read.borrowed)
            /\ report.process = p /\ report.children = <<c>>
        BY <2>2, WhatIsRead
      <3>2. /\ read.report = IF read.borrowed \/ ~(Typed(p) \/ Typed(c))
                             THEN family ELSE Unreadable
            /\ Readable(family)
        BY <3>1, FamilyReportRead
      <3> HIDE DEF p, c
      <3>3. all = <<p, c>> /\ Processes(family) = <<Clean(p), Clean(c)>>
        BY <3>1, Pair DEF Processes
      <3>4. typed <=> Typed(p) \/ Typed(c)
        BY <3>3
      <3>5. [q \in DOMAIN all |-> Clean(all[q])] = <<Clean(p), Clean(c)>>
        BY <3>3
      <3> HIDE DEF all, family
      <3>6. CASE read.borrowed \/ ~typed
        BY <2>2, <3>2, <3>3, <3>4, <3>5, <3>6 DEF all
      <3>7. CASE ~(read.borrowed \/ ~typed)
        BY <2>2, <3>2, <3>4, <3>7 DEF Readable, all
      <3> QED
        BY <3>6, <3>7
    <2> QED
      BY <2>1, <2>2
  <1> QED
    BY <1>1, Invariance, PTL
(* Where a reader is told something, it is of a process and its child.     *)
LEMMA FamilyTold ==
    ASSUME Inv, read # Empty, Readable(read.report)
    PROVE  /\ parse = "generated" /\ DOMAIN processes = {1, 2}
           /\ read.report.process = Clean(Reported(processes[1]))
           /\ Processes(read.report) =
                 <<Clean(Reported(processes[1])), Clean(Reported(processes[2]))>>
  <1> DEFINE p == Reported(processes[1])
             c == Reported(processes[2])
             family == [process |-> Clean(p), children |-> <<Clean(c)>>]
  <1>1. report.children # <<>>
    BY WhatIsRead, LonelyReportRead DEF Readable
  <1>2. /\ Sound(processes[1]) /\ Sound(processes[2]) /\ read.borrowed \in BOOLEAN
        /\ read.report = ReadReport(WriteReport(report), read.borrowed)
        /\ report.process = p /\ report.children = <<c>>
        /\ parse = "generated" /\ processes = <<processes[1], processes[2]>>
    BY <1>1, WhatIsRead
  <1>3. read.report = IF read.borrowed \/ ~(Typed(p) \/ Typed(c)) THEN family ELSE Unreadable
    BY <1>2, FamilyReportRead
  <1>4. read.report = family
    BY <1>3 DEF Readable
  <1>5. DOMAIN processes = {1, 2}
    BY <1>2
  <1> HIDE DEF p, c
  <1>6. Processes(family) = <<Clean(p), Clean(c)>> /\ family.process = Clean(p)
    BY Pair DEF Processes
  <1> HIDE DEF family
  <1> QED
    BY <1>2, <1>4, <1>5, <1>6 DEF p, c

(* What it is told of a process is what the tracer knows of it.            *)
LEMMA ToldOfProcess ==
    ASSUME NEW state, Sound(state)
    PROVE  LET told == Clean(Reported(state))
           IN  /\ told.capabilities = state.caps \ {"Safe"}
               /\ DOMAIN told.functions = DOMAIN state.functions
               /\ \A symbol \in DOMAIN state.functions :
                     /\ told.functions[symbol].capabilities =
                           state.functions[symbol].capabilities
                     /\ told.functions[symbol].syscalls = state.functions[symbol].syscalls
                     /\ told.functions[symbol].name = ParseMangledName(symbol)
  <1> DEFINE p == Reported(state)
  <1>1. /\ p = [path |-> p.path, capabilities |-> state.caps,
                functions |-> p.functions, edges |-> p.edges]
        /\ p.functions = [symbol \in DOMAIN state.functions |->
                             ReportedFunction(symbol, state.functions[symbol])]
    BY ReportedProcess
  <1> HIDE DEF p
  <1>2. Clean(p).capabilities = state.caps \ {"Safe"} /\ Clean(p).functions = p.functions
    BY <1>1 DEF Clean
  <1>3. ASSUME NEW symbol \in DOMAIN state.functions
        PROVE  /\ p.functions[symbol].capabilities = state.functions[symbol].capabilities
               /\ p.functions[symbol].syscalls = state.functions[symbol].syscalls
               /\ p.functions[symbol].name = ParseMangledName(symbol)
    <2>1. DOMAIN state.functions[symbol] = FunctionFields
      BY DEF Sound, AllNamed, IsState, IsFunction, FunctionFields
    <2>2. p.functions[symbol] = ReportedFunction(symbol, state.functions[symbol])
      BY <1>1
    <2> QED
      BY <2>1, <2>2 DEF ReportedFunction, FunctionFields, @@
  <1>4. DOMAIN p.functions = DOMAIN state.functions
    BY <1>1
  <1> QED
    BY <1>2, <1>3, <1>4 DEF p

(* The call by which a function came to be known.                          *)
LEMMA FirstIsFirst ==
    ASSUME NEW p, NEW symbol, NEW i, IsFirst(calls, p, symbol, i),
           Of(calls, p) \subseteq Int
    PROVE  FirstCall(p, symbol) = i
  <1> DEFINE first(k) == /\ calls[k][2] = symbol
                         /\ \A j \in Of(calls, p) : calls[j][2] = symbol => k <= j
  <1>1. i \in Of(calls, p) /\ first(i)
    BY DEF IsFirst
  <1>2. \A k \in Of(calls, p) : first(k) => k = i
    BY <1>1
  <1>3. FirstCall(p, symbol) = CHOOSE k \in Of(calls, p) : first(k)
    BY DEF FirstCall, CallsOf, Of
  <1> HIDE DEF first
  <1> QED
    BY <1>1, <1>2, <1>3

(* What reaches the reader is what the capability map says of the calls,   *)
(* on the last line where it has more than one, and of the first call of   *)
(* each function: ReaderToldTheMap, for every map and any number of calls. *)
THEOREM ReaderIsTold == Spec => []ReaderToldTheMap
  <1>1. Inv => ReaderToldTheMap
    <2> SUFFICES ASSUME Inv, read # Empty, Readable(read.report),
                        NEW p \in DOMAIN Processes(read.report)
                 PROVE  LET told == Processes(read.report)[p]
                        IN  /\ told.capabilities =
                                  (UNION {LastLine(calls[i][3]) : i \in Of(calls, p)}) \ {"Safe"}
                            /\ DOMAIN told.functions \ {MainFunction} =
                                  {s \in {calls[i][2] : i \in Of(calls, p)} : Named(s)}
                                     \ {MainFunction}
                            /\ \A s \in DOMAIN told.functions \ {MainFunction} :
                                  LET nr == calls[FirstCall(p, s)][3]
                                  IN  /\ told.functions[s].capabilities = AllDirect(LastLine(nr))
                                      /\ told.functions[s].syscalls = {nr}
      BY DEF ReaderToldTheMap, CallsOf, Of, AllDirect
    <2> DEFINE told == Processes(read.report)[p]
               state == processes[p]
    <2>1. /\ p \in DOMAIN processes /\ parse = "generated"
          /\ told = Clean(Reported(state))
      BY FamilyTold
    <2>2. ProcessInv(caps, state, calls, p)
      BY <2>1 DEF Inv, CallsInv
    <2>3. Sound(state)
      BY <2>2 DEF ProcessInv, Attributed, Sound, AllNamed
    <2>4. \A i \in DOMAIN calls : calls[i][3] \in Sysno
      BY ItemAssumption DEF Inv, CallsInv
    <2>5. ASSUME NEW nr \in Sysno PROVE Answer(caps, nr) = LastLine(nr)
      BY <2>1, LookupIsLastLine DEF Inv, Lookup, Answer
    <2>6. Of(calls, p) \subseteq DOMAIN calls /\ Of(calls, p) \subseteq Int
      BY DEF Inv, CallsInv, Of
    <2> HIDE DEF told, state
    <2>7. told.capabilities = (UNION {LastLine(calls[i][3]) : i \in Of(calls, p)}) \ {"Safe"}
      <3> DEFINE says == UNION {LastLine(calls[i][3]) : i \in Of(calls, p)}
      <3>1. told.capabilities = Charged(caps, calls, p) \ {"Safe"}
        BY <2>1, <2>2, <2>3, ToldOfProcess DEF ProcessInv
      <3>2. \A i \in Of(calls, p) : Answer(caps, calls[i][3]) = LastLine(calls[i][3])
        BY <2>4, <2>5, <2>6
      <3>3. Charged(caps, calls, p) = says
        BY <3>2 DEF Charged
      <3> HIDE DEF says
      <3>4. told.capabilities = says \ {"Safe"}
        BY <3>1, <3>3
      <3> QED
        BY <3>4 DEF says
    <2>8. /\ DOMAIN told.functions = DOMAIN state.functions
          /\ \A s \in DOMAIN state.functions :
                /\ told.functions[s].capabilities = state.functions[s].capabilities
                /\ told.functions[s].syscalls = state.functions[s].syscalls
      BY <2>1, <2>3, ToldOfProcess
    <2>9. ASSUME NEW s \in DOMAIN told.functions \ {MainFunction}
          PROVE  LET nr == calls[FirstCall(p, s)][3]
                 IN  /\ told.functions[s].capabilities = AllDirect(LastLine(nr))
                     /\ told.functions[s].syscalls = {nr}
      <3>1. PICK i \in DOMAIN calls :
               /\ IsFirst(calls, p, s, i)
               /\ state.functions[s].capabilities = AllDirect(Answer(caps, calls[i][3]))
               /\ state.functions[s].syscalls = {calls[i][3]}
        BY <2>2, <2>8 DEF ProcessInv, Attributed
      <3>2. FirstCall(p, s) = i
        BY <2>6, <3>1, FirstIsFirst
      <3>3. Answer(caps, calls[i][3]) = LastLine(calls[i][3])
        BY <2>4, <2>5
      <3> QED
        BY <2>8, <3>1, <3>2, <3>3
    <2>10. DOMAIN told.functions \ {MainFunction} =
              {s \in {calls[i][2] : i \in Of(calls, p)} : Named(s)} \ {MainFunction}
      BY <2>2, <2>8 DEF ProcessInv, Attributed
    <2> QED
      BY <2>7, <2>9, <2>10 DEF told
  <1> QED
    BY <1>1, Invariance, PTL
-----------------------------------------------------------------------------
Fact == INSTANCE SequenceTheorems

(* The tokens of a text.  These are strings too, but of a literal no       *)
(* backend can show that it is one.                                        *)
Token == STRING \cup {"<", ">", "::", " as "}

LEMMA Separators ==
    /\ As \in Seq(Token) /\ Len(As) = 1
    /\ Closing \in Seq(Token) /\ Len(Closing) = 2
    /\ As[1] # Closing[1] /\ As[1] # Closing[2] /\ Closing[1] # Closing[2]
    /\ <<"<">> \in Seq(Token)
  <1>1. \A S : \A x, y \in S : <<x>> \in Seq(S) /\ <<x, y>> \in Seq(S)
    OBVIOUS
  <1>2. "<" \in Token /\ ">" \in Token /\ "::" \in Token /\ " as " \in Token
    BY DEF Token
  <1>3. As \in Seq(Token) /\ Closing \in Seq(Token) /\ <<"<">> \in Seq(Token)
    BY <1>1, <1>2 DEF As, Closing
  <1>4. Len(As) = 1 /\ Len(Closing) = 2
    BY DEF As, Closing
  <1>5. As[1] # Closing[1] /\ As[1] # Closing[2] /\ Closing[1] # Closing[2]
    BY DEF As, Closing
  <1> QED
    BY <1>3, <1>4, <1>5

(* Where a separator is, token by token.                                   *)
LEMMA AsAt ==
    ASSUME NEW text \in Seq(Token), NEW i
    PROVE  i \in Positions(text, As) <=> i \in 1..Len(text) /\ text[i] = As[1]
  <1>1. Len(As) = 1 /\ As \in Seq(Token)
    BY Separators
  <1>2. ASSUME i \in 1..Len(text)
        PROVE  SubSeq(text, i, i) = As <=> text[i] = As[1]
    <2> DEFINE part == SubSeq(text, i, i)
    <2>1. text[i] \in Token /\ i \in Int
      BY <1>2
    <2>2. part \in Seq(Token) /\ Len(part) = 1 /\ part[1] = text[i]
      BY <2>1, Fact!SubSeqProperties
    <2> HIDE DEF part
    <2>3. ASSUME part[1] = As[1] PROVE part = As
      <3>1. Len(part) = Len(As) /\ \A k \in 1..Len(part) : part[k] = As[k]
        BY <1>1, <2>2, <2>3
      <3> QED
        BY <1>1, <2>2, <3>1, Fact!SeqEqual
    <2> QED
      BY <1>1, <2>2, <2>3 DEF part
  <1>3. i \in Positions(text, As) <=> i \in 1..Len(text) /\ SubSeq(text, i, i) = As
    <2>1. Len(text) - Len(As) + 1 = Len(text)
      BY <1>1, Fact!LenProperties
    <2>2. i \in 1..Len(text) => i + Len(As) - 1 = i
      BY <1>1
    <2> QED
      BY <2>1, <2>2 DEF Positions
  <1> QED
    BY <1>2, <1>3

LEMMA ClosingAt ==
    ASSUME NEW text \in Seq(Token), NEW i
    PROVE  i \in Positions(text, Closing) <=>
              i \in 1..(Len(text) - 1) /\ text[i] = Closing[1] /\ text[i + 1] = Closing[2]
  <1>1. Len(Closing) = 2 /\ Closing \in Seq(Token)
    BY Separators
  <1>2. ASSUME i \in 1..(Len(text) - 1)
        PROVE  SubSeq(text, i, i + 1) = Closing <=> text[i] = Closing[1] /\ text[i + 1] = Closing[2]
    <2> DEFINE part == SubSeq(text, i, i + 1)
    <2>1. i \in Int /\ i + 1 \in Int /\ \A j \in i..(i + 1) : text[j] \in Token
      BY <1>2
    <2>2. /\ part \in Seq(Token) /\ Len(part) = 2
          /\ part[1] = text[i] /\ part[2] = text[i + 1]
      BY <2>1, Fact!SubSeqProperties
    <2> HIDE DEF part
    <2>3. ASSUME part[1] = Closing[1], part[2] = Closing[2] PROVE part = Closing
      <3>1. Len(part) = Len(Closing) /\ \A k \in 1..Len(part) : part[k] = Closing[k]
        BY <1>1, <2>2, <2>3
      <3> QED
        BY <1>1, <2>2, <3>1, Fact!SeqEqual
    <2> QED
      BY <1>1, <2>2, <2>3 DEF part
  <1>3. i \in Positions(text, Closing) <=>
           i \in 1..(Len(text) - 1) /\ SubSeq(text, i, i + 1) = Closing
    <2>1. Len(text) - Len(Closing) + 1 = Len(text) - 1
      BY <1>1, Fact!LenProperties
    <2>2. i \in 1..(Len(text) - 1) => i + Len(Closing) - 1 = i + 1
      BY <1>1
    <2> QED
      BY <2>1, <2>2 DEF Positions
  <1> QED
    BY <1>2, <1>3

(* A text of two parts, with the tokens of each.                           *)
LEMMA Joined ==
    ASSUME NEW a \in Seq(Token), NEW b \in Seq(Token)
    PROVE  /\ a \o b \in Seq(Token) /\ Len(a \o b) = Len(a) + Len(b)
           /\ Len(a) \in Nat /\ Len(b) \in Nat
           /\ \A i \in 1..Len(a) : (a \o b)[i] = a[i]
           /\ \A i \in 1..Len(b) : (a \o b)[Len(a) + i] = b[i]
           /\ SubSeq(a \o b, 1, Len(a)) = a
           /\ SubSeq(a \o b, Len(a) + 1, Len(a \o b)) = b
  <1> DEFINE text == a \o b
             head == SubSeq(text, 1, Len(a))
             m == Len(a) + 1
             n == Len(text)
             tail == SubSeq(text, m, n)
  <1>1. /\ text \in Seq(Token) /\ Len(text) = Len(a) + Len(b)
        /\ Len(a) \in Nat /\ Len(b) \in Nat
        /\ \A i \in 1..Len(text) : text[i] = IF i <= Len(a) THEN a[i] ELSE b[i - Len(a)]
    BY Fact!ConcatProperties, Fact!LenProperties
  <1> HIDE DEF text
  <1>2. /\ \A i \in 1..Len(a) : text[i] = a[i]
        /\ \A i \in 1..Len(b) : text[Len(a) + i] = b[i]
        /\ \A i \in 1..Len(text) : text[i] \in Token
    <2>1. \A i \in 1..Len(a) : text[i] = a[i]
      BY <1>1
    <2>2. ASSUME NEW i \in 1..Len(b) PROVE text[Len(a) + i] = b[i]
      <3>1. /\ Len(a) + i \in 1..Len(text) /\ ~(Len(a) + i <= Len(a))
            /\ Len(a) + i - Len(a) = i
        BY <1>1
      <3> QED
        BY <1>1, <3>1
    <2>3. \A i \in 1..Len(text) : text[i] \in Token
      BY <1>1
    <2> QED
      BY <2>1, <2>2, <2>3
  <1>3. head = a
    <2>1. /\ head \in Seq(Token)
          /\ Len(head) = IF 1 <= Len(a) THEN Len(a) - 1 + 1 ELSE 0
          /\ \A i \in 1..(Len(a) - 1 + 1) : head[i] = text[1 + i - 1]
      BY <1>1, <1>2, Fact!SubSeqProperties
    <2>2. Len(head) = Len(a) /\ \A i \in 1..Len(a) : head[i] = a[i]
      BY <1>1, <1>2, <2>1
    <2> HIDE DEF head
    <2> QED
      BY <2>1, <2>2, Fact!SeqEqual
  <1>4. tail = b
    <2>1. m \in Int /\ n \in Int /\ \A i \in m..n : text[i] \in Token
      BY <1>1, <1>2
    <2>2. /\ tail \in Seq(Token)
          /\ Len(tail) = IF m <= n THEN n - m + 1 ELSE 0
          /\ \A i \in 1..(n - m + 1) : tail[i] = text[m + i - 1]
      <3> HIDE DEF m, n
      <3> QED
        BY <2>1, Fact!SubSeqProperties
    <2> HIDE DEF tail
    <2>3. ASSUME NEW i \in 1..Len(b) PROVE tail[i] = b[i]
      <3>1. i \in 1..(n - m + 1) /\ m + i - 1 = Len(a) + i
        BY <1>1
      <3> QED
        BY <1>2, <2>2, <3>1
    <2>4. Len(tail) = Len(b)
      BY <1>1, <2>2
    <2> QED
      BY <2>2, <2>3, <2>4, Fact!SeqEqual
  <1> QED
    BY <1>1, <1>2, <1>3, <1>4 DEF text

(* A set of numbers that is not empty has a least one, and one that is     *)
(* bounded a greatest one.                                                 *)
Less == OpToRel(<, Nat)

(* The grouping of a text does not matter.  Text and Cat are kept as they   *)
(* are where only their laws are wanted.                                    *)
Text == Seq(Token)
Cat(x, y) == x \o y

LEMMA Grouped ==
    /\ \A x, y \in Text : Cat(x, y) \in Text
    /\ \A x, y, z \in Text : Cat(Cat(x, y), z) = Cat(x, Cat(y, z))
  <1>1. ASSUME NEW x \in Text, NEW y \in Text PROVE Cat(x, y) \in Text
    BY Joined DEF Text, Cat
  <1>2. ASSUME NEW x \in Text, NEW y \in Text, NEW z \in Text
        PROVE  Cat(Cat(x, y), z) = Cat(x, Cat(y, z))
    BY Fact!ConcatAssociative DEF Text, Cat
  <1> QED
    BY <1>1, <1>2

LEMMA LeastNat ==
    ASSUME NEW T \in SUBSET Nat, T # {}
    PROVE  \E x \in T : \A y \in T : x <= y
  <1>1. IsWellFoundedOn(Less, Nat)
    BY NatLessThanWellFounded DEF Less
  <1>2. PICK x \in T : \A y \in T : ~(<<y, x>> \in Less)
    BY <1>1, WFMin
  <1>3. ASSUME NEW y \in T PROVE x <= y
    <2>1. x \in Nat /\ y \in Nat
      OBVIOUS
    <2>2. y < x => <<y, x>> \in Less
      BY <2>1 DEF Less, OpToRel
    <2> QED
      BY <1>2, <2>1, <2>2
  <1> QED
    BY <1>3

LEMMA GreatestNat ==
    ASSUME NEW T \in SUBSET Nat, T # {}, NEW n \in Nat, \A x \in T : x <= n
    PROVE  \E x \in T : \A y \in T : y <= x
  <1> DEFINE mirrored == {k \in Nat : n - k \in T}
  <1>1. \A x \in T : x \in Nat /\ n - x \in Nat /\ n - (n - x) = x
    OBVIOUS
  <1>2. mirrored \in SUBSET Nat /\ mirrored # {}
    BY <1>1
  <1>3. PICK k \in mirrored : \A j \in mirrored : k <= j
    <2> HIDE DEF mirrored
    <2> QED
      BY <1>2, LeastNat
  <1>4. n - k \in T /\ \A y \in T : y <= n - k
    BY <1>1, <1>3
  <1> QED
    BY <1>4
(* The first " as " and the last ">::" are where a text is split.          *)
LEMMA FirstSplit ==
    ASSUME NEW text \in Seq(Token), Occurs(As, text)
    PROVE  \E i \in Positions(text, As) :
              /\ \A j \in Positions(text, As) : i <= j
              /\ SplitOnce(text, As) = <<SubSeq(text, 1, i - 1), SubSeq(text, i + 1, Len(text))>>
              /\ SplitOnce(text, As)[1] = SubSeq(text, 1, i - 1)
              /\ SplitOnce(text, As)[2] = SubSeq(text, i + 1, Len(text))
  <1> DEFINE places == Positions(text, As)
             first(i) == \A j \in places : i <= j
  <1>1. places \in SUBSET Nat /\ places # {}
    BY DEF Positions, Occurs
  <1> HIDE DEF places
  <1>2. PICK i \in places : first(i)
    BY <1>1, LeastNat
  <1>3. \A k \in places : first(k) => k = i
    BY <1>1, <1>2
  <1> HIDE DEF first
  <1>4. i = CHOOSE k \in places : first(k)
    BY <1>2, <1>3
  <1>5. SplitOnce(text, As) = SplitAt(text, i, As)
    BY <1>4 DEF SplitOnce, places, first
  <1> DEFINE before == SubSeq(text, 1, i - 1)
             after == SubSeq(text, i + 1, Len(text))
  <1>6. SplitAt(text, i, As) = <<before, after>>
    BY Separators DEF SplitAt
  <1> HIDE DEF before, after
  <1>7. /\ SplitOnce(text, As) = <<before, after>>
        /\ SplitOnce(text, As)[1] = before /\ SplitOnce(text, As)[2] = after
    BY <1>5, <1>6
  <1> QED
    BY <1>2, <1>7 DEF places, first, before, after

LEMMA LastSplit ==
    ASSUME NEW text \in Seq(Token), Occurs(Closing, text)
    PROVE  \E i \in Positions(text, Closing) :
              /\ \A j \in Positions(text, Closing) : j <= i
              /\ RSplitOnce(text, Closing) =
                    <<SubSeq(text, 1, i - 1), SubSeq(text, i + 2, Len(text))>>
              /\ RSplitOnce(text, Closing)[2] = SubSeq(text, i + 2, Len(text))
  <1> DEFINE places == Positions(text, Closing)
             last(i) == \A j \in places : j <= i
  <1>1. places \in SUBSET Nat /\ places # {}
    BY DEF Positions, Occurs
  <1>2. Len(text) \in Nat /\ \A j \in places : j <= Len(text)
    BY ClosingAt
  <1> HIDE DEF places
  <1>3. PICK i \in places : last(i)
    BY <1>1, <1>2, GreatestNat
  <1>4. \A k \in places : last(k) => k = i
    BY <1>1, <1>3
  <1> HIDE DEF last
  <1>5. i = CHOOSE k \in places : last(k)
    BY <1>3, <1>4
  <1>6. RSplitOnce(text, Closing) = SplitAt(text, i, Closing)
    BY <1>5 DEF RSplitOnce, places, last
  <1> DEFINE before == SubSeq(text, 1, i - 1)
             after == SubSeq(text, i + 2, Len(text))
  <1>7. SplitAt(text, i, Closing) = <<before, after>>
    BY Separators DEF SplitAt
  <1> HIDE DEF before, after
  <1>8. /\ RSplitOnce(text, Closing) = <<before, after>>
        /\ RSplitOnce(text, Closing)[2] = after
    BY <1>6, <1>7
  <1> QED
    BY <1>3, <1>8 DEF places, last, before, after

(* What is left of a text after its first tokens.                          *)
LEMMA Rest ==
    ASSUME NEW text \in Seq(Token), NEW i \in 0..Len(text)
    PROVE  LET rest == SubSeq(text, i + 1, Len(text))
           IN  /\ rest \in Seq(Token) /\ Len(rest) = Len(text) - i
               /\ \A j \in 1..(Len(text) - i) : rest[j] = text[i + j]
  <1> DEFINE m == i + 1
             n == Len(text)
             rest == SubSeq(text, m, n)
  <1>1. /\ m \in Int /\ n \in Int /\ \A j \in m..n : text[j] \in Token
        /\ n - m + 1 = n - i /\ (m <= n <=> n - i # 0) /\ n - i \in Nat
        /\ \A j \in 1..(n - i) : m + j - 1 = i + j
    OBVIOUS
  <1>2. /\ rest \in Seq(Token)
        /\ Len(rest) = IF m <= n THEN n - m + 1 ELSE 0
        /\ \A j \in 1..(n - m + 1) : rest[j] = text[m + j - 1]
    <2> HIDE DEF m, n
    <2> QED
      BY <1>1, Fact!SubSeqProperties
  <1> HIDE DEF rest
  <1>3. Len(rest) = Len(text) - i
    BY <1>1, <1>2
  <1>4. \A j \in 1..(Len(text) - i) : rest[j] = text[i + j]
    BY <1>1, <1>2
  <1> QED
    BY <1>2, <1>3, <1>4 DEF rest

(* A text around a separator at k.                                         *)
ClosingIn(text, a, m, k) ==
    /\ text \in Seq(Token) /\ Len(text) = k + 1 + Len(m)
    /\ Len(a) = k - 1 /\ k \in Nat \ {0} /\ Len(m) \in Nat
    /\ \A i \in 1..(k - 1) : text[i] = a[i]
    /\ text[k] = Closing[1] /\ text[k + 1] = Closing[2]
    /\ \A i \in 1..Len(m) : text[k + 1 + i] = m[i]
    /\ SubSeq(text, 1, k - 1) = a
    /\ SubSeq(text, k + 2, Len(text)) = m

AsIn(text, a, m, k) ==
    /\ text \in Seq(Token) /\ Len(text) = k + Len(m)
    /\ Len(a) = k - 1 /\ k \in Nat \ {0} /\ Len(m) \in Nat
    /\ \A i \in 1..(k - 1) : text[i] = a[i]
    /\ text[k] = As[1]
    /\ \A i \in 1..Len(m) : text[k + i] = m[i]
    /\ SubSeq(text, 1, k - 1) = a
    /\ SubSeq(text, k + 1, Len(text)) = m

LEMMA AroundClosing ==
    ASSUME NEW a \in Seq(Token), NEW m \in Seq(Token)
    PROVE  ClosingIn((a \o Closing) \o m, a, m, Len(a) + 1)
  <1> DEFINE text == (a \o Closing) \o m
             k == Len(a) + 1
             b == a \o Closing
  <1>1. Closing \in Seq(Token) /\ Len(Closing) = 2
    BY Separators
  <1>2. /\ b \in Seq(Token) /\ Len(b) = Len(a) + Len(Closing)
        /\ Len(a) \in Nat
        /\ \A i \in 1..Len(a) : b[i] = a[i]
        /\ \A i \in 1..Len(Closing) : b[Len(a) + i] = Closing[i]
    BY <1>1, Joined
  <1>3. text = a \o (Closing \o m)
    <2>1. Cat(Cat(a, Closing), m) = Cat(a, Cat(Closing, m))
      BY <1>1, Grouped DEF Text
    <2> QED
      BY <2>1, Zenon DEF Cat, text
  <1>4. Closing \o m \in Seq(Token)
    BY <1>1, Joined
  <1>5. SubSeq(text, 1, Len(a)) = a
    BY <1>3, <1>4, Joined
  <1>6. text = b \o m /\ k = Len(a) + 1
    OBVIOUS
  <1> HIDE DEF b, text, k
  <1>7. /\ text \in Seq(Token) /\ Len(text) = Len(b) + Len(m) /\ Len(m) \in Nat
        /\ \A i \in 1..Len(b) : text[i] = b[i]
        /\ \A i \in 1..Len(m) : text[Len(b) + i] = m[i]
        /\ SubSeq(text, Len(b) + 1, Len(text)) = m
    <2>1. /\ b \o m \in Seq(Token) /\ Len(b \o m) = Len(b) + Len(m) /\ Len(m) \in Nat
          /\ \A i \in 1..Len(b) : (b \o m)[i] = b[i]
          /\ \A i \in 1..Len(m) : (b \o m)[Len(b) + i] = m[i]
          /\ SubSeq(b \o m, Len(b) + 1, Len(b \o m)) = m
      BY <1>2, Joined
    <2> QED
      BY <1>6, <2>1
  <1>8. /\ Len(b) = k + 1 /\ Len(b) + 1 = k + 2 /\ Len(a) = k - 1 /\ k \in Nat \ {0}
        /\ k \in 1..Len(b) /\ k + 1 \in 1..Len(b) /\ k = Len(a) + 1 /\ k + 1 = Len(a) + 2
    BY <1>1, <1>2, <1>6
  <1>9. \A i \in 1..Len(a) : text[i] = a[i]
    <2>1. \A i \in 1..Len(a) : i \in 1..Len(b)
      BY <1>2, <1>8
    <2> QED
      BY <1>2, <1>7, <2>1
  <1>10. text[k] = Closing[1] /\ text[k + 1] = Closing[2]
    <2>1. 1 \in 1..Len(Closing) /\ 2 \in 1..Len(Closing)
      BY <1>1
    <2>2. b[Len(a) + 1] = Closing[1] /\ b[Len(a) + 2] = Closing[2]
      BY <1>2, <2>1
    <2>3. text[k] = b[k] /\ text[k + 1] = b[k + 1]
      BY <1>7, <1>8
    <2> QED
      BY <1>8, <2>2, <2>3
  <1>11. ClosingIn(text, a, m, k)
    BY <1>5, <1>7, <1>8, <1>9, <1>10 DEF ClosingIn
  <1> QED
    BY <1>11 DEF text, k

LEMMA AroundAs ==
    ASSUME NEW a \in Seq(Token), NEW m \in Seq(Token)
    PROVE  AsIn((a \o As) \o m, a, m, Len(a) + 1)
  <1> DEFINE text == (a \o As) \o m
             k == Len(a) + 1
             b == a \o As
  <1>1. As \in Seq(Token) /\ Len(As) = 1
    BY Separators
  <1>2. /\ b \in Seq(Token) /\ Len(b) = Len(a) + Len(As)
        /\ Len(a) \in Nat
        /\ \A i \in 1..Len(a) : b[i] = a[i]
        /\ \A i \in 1..Len(As) : b[Len(a) + i] = As[i]
    BY <1>1, Joined
  <1>3. text = a \o (As \o m)
    <2>1. Cat(Cat(a, As), m) = Cat(a, Cat(As, m))
      BY <1>1, Grouped DEF Text
    <2> QED
      BY <2>1, Zenon DEF Cat, text
  <1>4. As \o m \in Seq(Token)
    BY <1>1, Joined
  <1>5. SubSeq(text, 1, Len(a)) = a
    BY <1>3, <1>4, Joined
  <1>6. text = b \o m /\ k = Len(a) + 1
    OBVIOUS
  <1> HIDE DEF b, text, k
  <1>7. /\ text \in Seq(Token) /\ Len(text) = Len(b) + Len(m) /\ Len(m) \in Nat
        /\ \A i \in 1..Len(b) : text[i] = b[i]
        /\ \A i \in 1..Len(m) : text[Len(b) + i] = m[i]
        /\ SubSeq(text, Len(b) + 1, Len(text)) = m
    <2>1. /\ b \o m \in Seq(Token) /\ Len(b \o m) = Len(b) + Len(m) /\ Len(m) \in Nat
          /\ \A i \in 1..Len(b) : (b \o m)[i] = b[i]
          /\ \A i \in 1..Len(m) : (b \o m)[Len(b) + i] = m[i]
          /\ SubSeq(b \o m, Len(b) + 1, Len(b \o m)) = m
      BY <1>2, Joined
    <2> QED
      BY <1>6, <2>1
  <1>8. /\ Len(b) = k /\ Len(a) = k - 1 /\ k \in Nat \ {0}
        /\ k \in 1..Len(b) /\ k = Len(a) + 1
    BY <1>1, <1>2, <1>6
  <1>9. \A i \in 1..Len(a) : text[i] = a[i]
    <2>1. \A i \in 1..Len(a) : i \in 1..Len(b)
      BY <1>2, <1>8
    <2> QED
      BY <1>2, <1>7, <2>1
  <1>10. text[k] = As[1]
    <2>1. b[Len(a) + 1] = As[1]
      BY <1>1, <1>2
    <2> QED
      BY <1>7, <1>8, <2>1
  <1>11. AsIn(text, a, m, k)
    BY <1>5, <1>7, <1>8, <1>9, <1>10 DEF AsIn
  <1> QED
    BY <1>11 DEF text, k

(* The last ">::" is the one a text is joined by, and what follows it what *)
(* the text was joined of, exactly when there is none in that.             *)
LEMMA LastClosing ==
    ASSUME NEW a \in Seq(Token), NEW m \in Seq(Token), NEW text, text = (a \o Closing) \o m
    PROVE  /\ Occurs(Closing, text)
           /\ RSplitOnce(text, Closing)[2] = m <=> ~Occurs(Closing, m)
           /\ ~Occurs(Closing, m) => RSplitOnce(text, Closing) = <<a, m>>
  <1>1. PICK k : ClosingIn(text, a, m, k)
    BY AroundClosing
  <1>2. /\ text \in Seq(Token)
        /\ text[k] = Closing[1] /\ text[k + 1] = Closing[2]
        /\ \A i \in 1..Len(m) : text[k + 1 + i] = m[i]
        /\ SubSeq(text, 1, k - 1) = a /\ SubSeq(text, k + 2, Len(text)) = m
    BY <1>1 DEF ClosingIn
  <1>3. Len(text) = k + 1 + Len(m) /\ k \in Nat \ {0} /\ Len(m) \in Nat
    BY <1>1 DEF ClosingIn
  <1>4. k \in Positions(text, Closing)
    <2>1. k \in 1..(Len(text) - 1)
      BY <1>3
    <2> QED
      BY <1>2, <2>1, ClosingAt
  <1>5. Occurs(Closing, text)
    BY <1>4 DEF Occurs
  <1>6. PICK last \in Positions(text, Closing) :
           /\ \A j \in Positions(text, Closing) : j <= last
           /\ RSplitOnce(text, Closing) =
                 <<SubSeq(text, 1, last - 1), SubSeq(text, last + 2, Len(text))>>
           /\ RSplitOnce(text, Closing)[2] = SubSeq(text, last + 2, Len(text))
    BY <1>2, <1>5, LastSplit
  <1>7. /\ last \in 1..(Len(text) - 1) /\ k <= last
        /\ text[last] = Closing[1] /\ text[last + 1] = Closing[2]
    BY <1>2, <1>4, <1>6, ClosingAt
  <1>8. ASSUME ~Occurs(Closing, m) PROVE last = k
    <2>1. last # k + 1
      BY <1>2, <1>7, Separators
    <2>2. ASSUME last >= k + 2 PROVE FALSE
      <3> DEFINE i == last - k - 1
      <3>1. i \in 1..(Len(m) - 1) /\ k + 1 + i = last /\ k + 1 + (i + 1) = last + 1
        BY <1>3, <1>7, <2>2
      <3> HIDE DEF i
      <3>2. m[i] = Closing[1] /\ m[i + 1] = Closing[2]
        <4>1. i \in 1..Len(m) /\ i + 1 \in 1..Len(m)
          BY <1>3, <3>1
        <4> QED
          BY <1>2, <1>7, <3>1, <4>1
      <3>3. i \in Positions(m, Closing)
        BY <3>1, <3>2, ClosingAt
      <3> QED
        BY <1>8, <3>3 DEF Occurs
    <2> QED
      BY <1>3, <1>7, <2>1, <2>2
  <1>9. ASSUME Occurs(Closing, m) PROVE last # k
    <2>1. PICK i \in Positions(m, Closing) : TRUE
      BY <1>9 DEF Occurs
    <2>2. i \in 1..(Len(m) - 1) /\ m[i] = Closing[1] /\ m[i + 1] = Closing[2]
      BY <2>1, ClosingAt
    <2>3. /\ k + 1 + i \in 1..(Len(text) - 1) /\ k + 1 + (i + 1) = k + 1 + i + 1
          /\ i \in 1..Len(m) /\ i + 1 \in 1..Len(m) /\ k + 1 + i > k
      <3>1. i \in 1..(Len(m) - 1)
        BY <2>2
      <3> QED
        BY <1>3, <3>1
    <2>4. text[k + 1 + i] = Closing[1] /\ text[k + 1 + i + 1] = Closing[2]
      BY <1>2, <2>2, <2>3
    <2>5. k + 1 + i \in Positions(text, Closing)
      BY <1>2, <2>3, <2>4, ClosingAt
    <2>6. k + 1 + i <= last
      BY <1>6, <2>5
    <2> QED
      BY <1>3, <1>7, <2>2, <2>6
  <1>10. ASSUME SubSeq(text, last + 2, Len(text)) = m PROVE last = k
    <2>1. last + 1 \in 0..Len(text) /\ last + 1 + 1 = last + 2
      BY <1>3, <1>7
    <2>2. Len(SubSeq(text, last + 2, Len(text))) = Len(text) - (last + 1)
      BY <1>2, <2>1, Rest
    <2>3. Len(m) = Len(text) - (last + 1)
      BY <1>10, <2>2
    <2> QED
      BY <1>3, <1>7, <2>3
  <1>11. RSplitOnce(text, Closing)[2] = SubSeq(text, last + 2, Len(text))
    BY <1>6
  <1>12. last = k => RSplitOnce(text, Closing) = <<a, m>>
    BY <1>2, <1>6
  <1>13. last = k => RSplitOnce(text, Closing)[2] = m
    BY <1>2, <1>11
  <1> QED
    BY <1>5, <1>8, <1>9, <1>10, <1>11, <1>12, <1>13

(* The first " as ", likewise, and what comes before it; a ">::" after it  *)
(* is not lost.                                                            *)
LEMMA FirstAs ==
    ASSUME NEW a \in Seq(Token), NEW m \in Seq(Token), NEW text, text = (a \o As) \o m
    PROVE  /\ Occurs(As, text)
           /\ SplitOnce(text, As)[1] = a <=> ~Occurs(As, a)
           /\ ~Occurs(As, a) => SplitOnce(text, As) = <<a, m>>
           /\ Occurs(Closing, m) => Occurs(Closing, SplitOnce(text, As)[2])
  <1>1. PICK k : AsIn(text, a, m, k)
    BY AroundAs
  <1>2. /\ text \in Seq(Token)
        /\ \A i \in 1..(k - 1) : text[i] = a[i]
        /\ text[k] = As[1]
        /\ \A i \in 1..Len(m) : text[k + i] = m[i]
        /\ SubSeq(text, 1, k - 1) = a /\ SubSeq(text, k + 1, Len(text)) = m
    BY <1>1 DEF AsIn
  <1>3. /\ Len(text) = k + Len(m) /\ Len(a) = k - 1 /\ k \in Nat \ {0}
        /\ Len(m) \in Nat
    BY <1>1 DEF AsIn
  <1>4. k \in Positions(text, As)
    <2>1. k \in 1..Len(text)
      BY <1>3
    <2> QED
      BY <1>2, <2>1, AsAt
  <1>5. Occurs(As, text)
    BY <1>4 DEF Occurs
  <1>6. PICK first \in Positions(text, As) :
           /\ \A j \in Positions(text, As) : first <= j
           /\ SplitOnce(text, As) =
                 <<SubSeq(text, 1, first - 1), SubSeq(text, first + 1, Len(text))>>
           /\ SplitOnce(text, As)[1] = SubSeq(text, 1, first - 1)
           /\ SplitOnce(text, As)[2] = SubSeq(text, first + 1, Len(text))
    BY <1>2, <1>5, FirstSplit
  <1>7. first \in 1..Len(text) /\ first <= k /\ text[first] = As[1]
    BY <1>2, <1>4, <1>6, AsAt
  <1>8. ASSUME ~Occurs(As, a) PROVE first = k
    <2>1. ASSUME first \in 1..(k - 1) PROVE FALSE
      <3>1. a[first] = As[1] /\ first \in 1..Len(a)
        BY <1>3, <1>2, <1>7, <2>1
      <3>2. first \in Positions(a, As)
        BY <3>1, AsAt
      <3> QED
        BY <1>8, <3>2 DEF Occurs
    <2> QED
      BY <1>3, <1>7, <2>1
  <1>9. ASSUME Occurs(As, a) PROVE first # k
    <2>1. PICK i \in Positions(a, As) : TRUE
      BY <1>9 DEF Occurs
    <2>2. i \in 1..Len(a) /\ a[i] = As[1]
      BY <2>1, AsAt
    <2>3. i \in 1..(k - 1) /\ i \in 1..Len(text) /\ i < k
      BY <1>3, <2>2
    <2>4. text[i] = As[1]
      BY <1>2, <2>2, <2>3
    <2>5. i \in Positions(text, As)
      BY <1>2, <2>3, <2>4, AsAt
    <2>6. first <= i
      BY <1>6, <2>5
    <2> QED
      BY <1>3, <1>7, <2>3, <2>6
  <1>10. ASSUME SubSeq(text, 1, first - 1) = a PROVE first = k
    <2>1. 1 \in Int /\ first - 1 \in Int /\ \A i \in 1..(first - 1) : text[i] \in Token
      <3>1. 1 \in Int /\ first - 1 \in Int /\ \A i \in 1..(first - 1) : i \in 1..Len(text)
        BY <1>3, <1>7
      <3>2. \A i \in 1..Len(text) : text[i] \in Token
        <4>1. text \in Seq(Token)
          BY <1>2
        <4> QED
          BY <4>1, Fact!ElementOfSeq
      <3> QED
        BY <3>1, <3>2
    <2>2. Len(SubSeq(text, 1, first - 1)) = IF 1 <= first - 1 THEN first - 1 - 1 + 1 ELSE 0
      BY <2>1, Fact!SubSeqProperties
    <2>3. Len(a) = first - 1
      BY <1>7, <1>10, <2>2
    <2> QED
      BY <1>3, <1>7, <2>3
  <1>11. /\ SplitOnce(text, As)[1] = SubSeq(text, 1, first - 1)
        /\ SplitOnce(text, As)[2] = SubSeq(text, first + 1, Len(text))
    BY <1>6
  <1>12. first = k => SplitOnce(text, As) = <<a, m>> /\ SplitOnce(text, As)[1] = a
    BY <1>2, <1>6
  <1>13. ASSUME Occurs(Closing, m) PROVE Occurs(Closing, SplitOnce(text, As)[2])
    <2> DEFINE rest == SubSeq(text, first + 1, Len(text))
    <2>1. PICK i \in Positions(m, Closing) : TRUE
      BY <1>13 DEF Occurs
    <2>2. i \in 1..(Len(m) - 1) /\ m[i] = Closing[1] /\ m[i + 1] = Closing[2]
      BY <2>1, ClosingAt
    <2> DEFINE j == k + i - first
    <2>3. /\ first \in 0..Len(text)
          /\ j \in 1..(Len(text) - first - 1) /\ j \in 1..(Len(text) - first)
          /\ j + 1 \in 1..(Len(text) - first)
          /\ first + j = k + i /\ first + (j + 1) = k + (i + 1)
          /\ i \in 1..Len(m) /\ i + 1 \in 1..Len(m)
      BY <1>3, <1>7, <2>2
    <2>4. /\ rest \in Seq(Token) /\ Len(rest) = Len(text) - first
          /\ \A n \in 1..(Len(text) - first) : rest[n] = text[first + n]
      BY <1>2, <2>3, Rest
    <2> HIDE DEF rest, j
    <2>5. rest[j] = Closing[1] /\ rest[j + 1] = Closing[2]
      <3>1. text[k + i] = m[i] /\ text[k + (i + 1)] = m[i + 1]
        BY <1>2, <2>3
      <3>2. rest[j] = text[first + j] /\ rest[j + 1] = text[first + (j + 1)]
        BY <2>3, <2>4
      <3> QED
        BY <2>2, <2>3, <3>1, <3>2
    <2>6. j \in Positions(rest, Closing)
      BY <2>3, <2>4, <2>5, ClosingAt
    <2> QED
      BY <1>11, <2>6 DEF Occurs, rest
  <1> QED
    BY <1>5, <1>8, <1>9, <1>10, <1>11, <1>12, <1>13

(* An " as " that is only in a method has no ">::" after it that is not in *)
(* the method.                                                             *)
LEMMA AsInMethod ==
    ASSUME NEW a \in Seq(Token), NEW m \in Seq(Token), NEW text, text = (a \o Closing) \o m,
           ~Occurs(As, a), ~Occurs(Closing, m), Occurs(As, text)
    PROVE  ~Occurs(Closing, SplitOnce(text, As)[2])
  <1>1. PICK k : ClosingIn(text, a, m, k)
    BY AroundClosing
  <1>2. /\ text \in Seq(Token)
        /\ \A i \in 1..(k - 1) : text[i] = a[i]
        /\ text[k] = Closing[1] /\ text[k + 1] = Closing[2]
        /\ \A i \in 1..Len(m) : text[k + 1 + i] = m[i]
    BY <1>1 DEF ClosingIn
  <1>3. /\ Len(text) = k + 1 + Len(m) /\ Len(a) = k - 1 /\ k \in Nat \ {0}
        /\ Len(m) \in Nat
    BY <1>1 DEF ClosingIn
  <1>4. PICK first \in Positions(text, As) :
           SplitOnce(text, As)[2] = SubSeq(text, first + 1, Len(text))
    BY <1>2, FirstSplit
  <1> DEFINE rest == SubSeq(text, first + 1, Len(text))
  <1>5. first \in 1..Len(text) /\ text[first] = As[1]
    BY <1>2, <1>4, AsAt
  <1>6. first >= k + 2
    <2>1. first # k /\ first # k + 1
      BY <1>2, <1>5, Separators
    <2>2. ASSUME first \in 1..(k - 1) PROVE FALSE
      <3>1. a[first] = As[1] /\ first \in 1..Len(a)
        BY <1>3, <1>2, <1>5, <2>2
      <3>2. first \in Positions(a, As)
        BY <3>1, AsAt
      <3> QED
        BY <3>2 DEF Occurs
    <2> QED
      BY <1>3, <1>5, <2>1, <2>2
  <1>7. /\ rest \in Seq(Token) /\ Len(rest) = Len(text) - first
        /\ \A n \in 1..(Len(text) - first) : rest[n] = text[first + n]
    <2>1. first \in 0..Len(text)
      BY <1>3, <1>5
    <2> QED
      BY <1>2, <2>1, Rest
  <1> HIDE DEF rest
  <1>8. ASSUME NEW j \in Positions(rest, Closing) PROVE FALSE
    <2>1. j \in 1..(Len(rest) - 1) /\ rest[j] = Closing[1] /\ rest[j + 1] = Closing[2]
      BY <1>7, ClosingAt
    <2> DEFINE i == first + j - k - 1
    <2>2. /\ i \in 1..(Len(m) - 1) /\ i \in 1..Len(m) /\ i + 1 \in 1..Len(m)
          /\ k + 1 + i = first + j /\ k + 1 + (i + 1) = first + (j + 1)
          /\ j \in 1..(Len(text) - first) /\ j + 1 \in 1..(Len(text) - first)
      <3>1. j \in 1..(Len(text) - first - 1)
        BY <1>7, <2>1
      <3> QED
        BY <1>3, <1>5, <1>6, <3>1
    <2> HIDE DEF i
    <2>3. m[i] = Closing[1] /\ m[i + 1] = Closing[2]
      <3>1. text[k + 1 + i] = m[i] /\ text[k + 1 + (i + 1)] = m[i + 1]
        BY <1>2, <2>2
      <3>2. rest[j] = text[first + j] /\ rest[j + 1] = text[first + (j + 1)]
        BY <1>7, <2>2
      <3> QED
        BY <2>1, <2>2, <3>1, <3>2
    <2>4. i \in Positions(m, Closing)
      BY <2>2, <2>3, ClosingAt
    <2> QED
      BY <2>4 DEF Occurs
  <1>9. SplitOnce(text, As)[2] = rest
    BY <1>4 DEF rest
  <1> QED
    BY <1>8, <1>9 DEF Occurs
(* The demangler's spelling of a method of an impl block, after its "<".   *)
LEMMA Prefixed ==
    ASSUME NEW x, <<x>> \in Seq(Token), NEW y \in Seq(Token)
    PROVE  Head(<<x>> \o y) = x /\ Tail(<<x>> \o y) = y
  <1> DEFINE a == <<x>>
             text == a \o y
  <1>1. a \in Seq(Token) /\ Len(a) = 1 /\ a[1] = x
    OBVIOUS
  <1> HIDE DEF a
  <1>2. /\ text \in Seq(Token) /\ Len(text) = 1 + Len(y) /\ Len(y) \in Nat
        /\ text[1] = a[1] /\ SubSeq(text, 2, Len(text)) = y
    <2>1. /\ text \in Seq(Token) /\ Len(text) = Len(a) + Len(y) /\ Len(y) \in Nat
          /\ \A i \in 1..Len(a) : text[i] = a[i]
          /\ SubSeq(text, Len(a) + 1, Len(text)) = y
      BY <1>1, Joined
    <2> HIDE DEF text
    <2>2. Len(a) + 1 = 2 /\ 1 \in 1..Len(a)
      BY <1>1
    <2> QED
      BY <1>1, <2>1, <2>2
  <1> HIDE DEF text
  <1>3. text # <<>>
    <2>1. Len(text) # 0
      BY <1>2
    <2> QED
      BY <2>1
  <1>4. Tail(text) = y
    BY <1>2, <1>3, Fact!TailIsSubSeq
  <1>5. Head(text) = x
    BY <1>1, <1>2, <1>3
  <1> QED
    BY <1>4, <1>5 DEF text, a

(* Two ways to take four parts after an opening.                           *)
LEMMA Regrouped ==
    ASSUME NEW o \in Text, NEW a \in Text, NEW b \in Text, NEW c \in Text, NEW d \in Text
    PROVE  /\ Cat(Cat(Cat(Cat(o, a), b), c), d) = Cat(o, Cat(Cat(Cat(a, b), c), d))
           /\ Cat(Cat(Cat(o, Cat(a, b)), c), d) = Cat(Cat(o, a), Cat(Cat(b, c), d))
           /\ Cat(Cat(Cat(a, b), c), d) \in Text
  <1>1. /\ Cat(o, a) \in Text /\ Cat(a, b) \in Text /\ Cat(b, c) \in Text
        /\ Cat(Cat(a, b), c) \in Text /\ Cat(Cat(Cat(a, b), c), d) \in Text
    BY Grouped
  <1> QED
    BY <1>1, Grouped

LEMMA SpelledImpl ==
    ASSUME NEW s \in Symbol, s.kind = "impl"
    PROVE  /\ s.type \in Seq(Token) /\ s.trait \in Seq(Token) /\ s.method \in Seq(Token)
           /\ Head(Spelled(s)) = "<"
           /\ s.trait = <<>> => Tail(Spelled(s)) = (s.type \o Closing) \o s.method
           /\ s.trait # <<>> => Tail(Spelled(s)) =
                 (s.type \o As) \o ((s.trait \o Closing) \o s.method)
  <1> DEFINE t == s.type
             R == s.trait
             m == s.method
             open == <<"<">>
             mid == IF R = <<>> THEN <<>> ELSE As \o R
             text == ((t \o mid) \o Closing) \o m
  <1>1. t \in Seq(Token) /\ R \in Seq(Token) /\ m \in Seq(Token)
    <2>1. t \in Seq(STRING) /\ R \in Seq(STRING) /\ m \in Seq(STRING)
      BY ItemAssumption
    <2>2. STRING \subseteq Token
      BY DEF Token
    <2> HIDE DEF t, R, m
    <2> QED
      BY <2>1, <2>2, Fact!SeqMonotonic
  <1>2. Spelled(s) = (((open \o t) \o mid) \o Closing) \o m
    BY DEF Spelled
  <1>3. open \in Seq(Token) /\ As \in Seq(Token) /\ Closing \in Seq(Token)
    BY Separators
  <1> HIDE DEF t, R, m
  <1>4. <<>> \in Seq(Token)
    BY Fact!EmptySeq
  <1>5. mid \in Seq(Token)
    BY <1>1, <1>3, <1>4, Joined
  <1> HIDE DEF mid
  <1> HIDE DEF open
  <1>6. text \in Seq(Token) /\ Spelled(s) = open \o text
    <2>1. open \in Text /\ t \in Text /\ mid \in Text /\ Closing \in Text /\ m \in Text
      BY <1>1, <1>3, <1>5 DEF Text
    <2>2. /\ Cat(Cat(Cat(Cat(open, t), mid), Closing), m)
              = Cat(open, Cat(Cat(Cat(t, mid), Closing), m))
          /\ Cat(Cat(Cat(t, mid), Closing), m) \in Text
      BY <2>1, Regrouped
    <2>3. /\ (((open \o t) \o mid) \o Closing) \o m = open \o text
          /\ text \in Seq(Token)
      BY <2>2, Zenon DEF Cat, Text
    <2> QED
      BY <1>2, <2>3
  <1>7. open = <<"<">>
    BY DEF open
  <1>8. Head(Spelled(s)) = "<" /\ Tail(Spelled(s)) = text
    <2>1. <<"<">> \in Seq(Token)
      BY Separators
    <2> HIDE DEF text
    <2> QED
      BY <1>6, <1>7, <2>1, Prefixed
  <1>9. ASSUME R = <<>> PROVE text = (t \o Closing) \o m
    <2>1. mid = <<>>
      BY <1>9 DEF mid
    <2>2. t \o <<>> = t
      BY <1>1, Fact!ConcatEmptySeq
    <2> QED
      BY <2>1, <2>2
  <1>10. ASSUME R # <<>> PROVE text = (t \o As) \o ((R \o Closing) \o m)
    <2>1. mid = As \o R
      BY <1>10 DEF mid
    <2>2. t \in Text /\ As \in Text /\ R \in Text /\ Closing \in Text /\ m \in Text
      BY <1>1, <1>3 DEF Text
    <2>3. ((t \o (As \o R)) \o Closing) \o m = (t \o As) \o ((R \o Closing) \o m)
      <3>1. Cat(Cat(Cat(t, Cat(As, R)), Closing), m) = Cat(Cat(t, As), Cat(Cat(R, Closing), m))
        BY <2>2, Regrouped
      <3> QED
        BY <3>1, Zenon DEF Cat
    <2> QED
      BY <2>1, <2>3
  <1> QED
    BY <1>1, <1>8, <1>9, <1>10 DEF t, R, m

(* What the name of a method should be split into, and whether it is.      *)
Impl(s) ==
    IF s.trait = <<>> THEN [type |-> s.type, method |-> s.method]
    ELSE [type |-> s.type, trait |-> s.trait, method |-> s.method]

LEMMA SplitImpl ==
    ASSUME NEW s \in Symbol, s.kind = "impl", Parses(Spelled(s))
    PROVE  ParseRustName(Spelled(s)) = Impl(s) <=>
              ~Occurs(As, s.type) /\ ~Occurs(Closing, s.method)
  <1> DEFINE t == s.type
             R == s.trait
             m == s.method
             text == Tail(Spelled(s))
             split == ParseAngle(text)
  <1>1. /\ t \in Seq(Token) /\ R \in Seq(Token) /\ m \in Seq(Token)
        /\ R = <<>> => text = (t \o Closing) \o m
        /\ R # <<>> => text = (t \o As) \o ((R \o Closing) \o m)
    BY SpelledImpl
  <1>2. ParseRustName(Spelled(s)) = split /\ "error" \notin DOMAIN split
    BY SpelledImpl DEF ParseRustName, Parses
  <1>3. "error" \in DOMAIN MalformedTraitMethod /\ "error" \in DOMAIN MalformedMethod
    BY DEF MalformedTraitMethod, MalformedMethod
  <1>4. Impl(s) = IF R = <<>> THEN [type |-> t, method |-> m]
                  ELSE [type |-> t, trait |-> R, method |-> m]
    BY DEF Impl
  <1> HIDE DEF t, R, m, text
  <1>5. CASE R = <<>>
    <2>1. text = (t \o Closing) \o m
      BY <1>1, <1>5
    <2>2. /\ Occurs(Closing, text)
          /\ RSplitOnce(text, Closing)[2] = m <=> ~Occurs(Closing, m)
          /\ ~Occurs(Closing, m) => RSplitOnce(text, Closing) = <<t, m>>
      <3>1. t \in Seq(Token) /\ m \in Seq(Token)
        BY <1>1
      <3> QED
        BY <2>1, <3>1, LastClosing
    <2>3. CASE Occurs(As, text)
      <3>1. split # [type |-> t, method |-> m]
        <4>1. Occurs(Closing, SplitOnce(text, As)[2])
          BY <1>2, <1>3, <2>3 DEF ParseAngle
        <4>2. "trait" \in DOMAIN split
          BY <2>3, <4>1 DEF ParseAngle
        <4> HIDE DEF split
        <4> QED
          BY <4>2
      <3>2. ~(~Occurs(As, t) /\ ~Occurs(Closing, m))
        <4>1. Occurs(Closing, SplitOnce(text, As)[2])
          BY <1>2, <1>3, <2>3 DEF ParseAngle
        <4> QED
          BY <1>1, <2>1, <2>3, <4>1, AsInMethod
      <3> QED
        BY <1>2, <1>4, <1>5, <3>1, <3>2 DEF t, m
    <2>4. CASE ~Occurs(As, text)
      <3>1. split = [type |-> RSplitOnce(text, Closing)[1], method |-> RSplitOnce(text, Closing)[2]]
        BY <2>2, <2>4 DEF ParseAngle, StructMethod
      <3>2. ~Occurs(As, t)
        <4>1. ASSUME NEW i \in Positions(t, As) PROVE FALSE
          <5>1. PICK k : ClosingIn(text, t, m, k)
            BY <1>1, <2>1, AroundClosing
          <5>2. i \in 1..Len(t) /\ t[i] = As[1]
            BY <1>1, AsAt
          <5>3. i \in 1..(k - 1) /\ i \in 1..Len(text)
            <6>1. /\ Len(text) = k + 1 + Len(m) /\ Len(t) = k - 1 /\ k \in Nat \ {0}
                  /\ Len(m) \in Nat
              BY <5>1 DEF ClosingIn
            <6> QED
              BY <5>2, <6>1
          <5>4. text \in Seq(Token) /\ text[i] = As[1]
            BY <5>1, <5>2, <5>3 DEF ClosingIn
          <5>5. i \in Positions(text, As)
            BY <5>3, <5>4, AsAt
          <5> QED
            BY <2>4, <5>5 DEF Occurs
        <4> QED
          BY <4>1 DEF Occurs
      <3>3. ASSUME ~Occurs(Closing, m) PROVE split = [type |-> t, method |-> m]
        <4>1. RSplitOnce(text, Closing)[1] = t /\ RSplitOnce(text, Closing)[2] = m
          BY <2>2, <3>3
        <4> HIDE DEF split
        <4> QED
          BY <3>1, <4>1
      <3>4. ASSUME split = [type |-> t, method |-> m] PROVE ~Occurs(Closing, m)
        <4>1. split.method = m
          BY <3>4
        <4>2. split.method = RSplitOnce(text, Closing)[2]
          BY <3>1
        <4> QED
          BY <2>2, <4>1, <4>2
      <3> QED
        BY <1>2, <1>4, <1>5, <3>2, <3>3, <3>4 DEF t, m
    <2> QED
      BY <2>3, <2>4
  <1>6. CASE R # <<>>
    <2> DEFINE body == (R \o Closing) \o m
               rem == SplitOnce(text, As)[2]
    <2>1. text = (t \o As) \o body /\ body \in Seq(Token)
      <3>1. R \o Closing \in Seq(Token)
        BY <1>1, Separators, Joined
      <3>2. body \in Seq(Token)
        BY <1>1, <3>1, Joined
      <3> QED
        BY <1>1, <1>6, <3>2
    <2>2. /\ Occurs(Closing, body)
          /\ RSplitOnce(body, Closing)[2] = m <=> ~Occurs(Closing, m)
          /\ ~Occurs(Closing, m) => RSplitOnce(body, Closing) = <<R, m>>
      BY <1>1, LastClosing
    <2> HIDE DEF body
    <2>3. /\ Occurs(As, text)
          /\ SplitOnce(text, As)[1] = t <=> ~Occurs(As, t)
          /\ ~Occurs(As, t) => SplitOnce(text, As) = <<t, body>>
          /\ Occurs(Closing, rem)
      BY <1>1, <2>1, <2>2, FirstAs
    <2>4. split = [trait |-> RSplitOnce(rem, Closing)[1], type |-> SplitOnce(text, As)[1],
                   method |-> RSplitOnce(rem, Closing)[2]]
      BY <2>3 DEF ParseAngle
    <2>5. ~Occurs(As, t) => rem = body
      BY <2>3
    <2> HIDE DEF rem, split
    <2>6. ASSUME ~Occurs(As, t), ~Occurs(Closing, m)
          PROVE  split = [type |-> t, trait |-> R, method |-> m]
      <3>1. RSplitOnce(rem, Closing) = <<R, m>>
        BY <2>2, <2>5, <2>6
      <3>2. RSplitOnce(rem, Closing)[1] = R /\ RSplitOnce(rem, Closing)[2] = m
        BY <3>1
      <3> QED
        BY <2>3, <2>4, <2>6, <3>2
    <2>7. ASSUME split = [type |-> t, trait |-> R, method |-> m]
          PROVE  ~Occurs(As, t) /\ ~Occurs(Closing, m)
      <3>1. split.type = t /\ split.method = m
        BY <2>7
      <3>2. SplitOnce(text, As)[1] = t /\ RSplitOnce(rem, Closing)[2] = m
        BY <2>4, <3>1
      <3> QED
        BY <2>2, <2>3, <2>5, <3>2
    <2> QED
      BY <1>2, <1>4, <1>6, <2>6, <2>7 DEF t, m, split
  <1> QED
    BY <1>5, <1>6

(* Of a method the report names the type, the trait and the method of its  *)
(* impl block exactly where neither has in it what a name is split at:     *)
(* SplitTellsTheImpl, for every type, trait and method there can be.       *)
THEOREM SplitIsTold == Spec => []SplitTellsTheImpl
  <1>1. Inv => SplitTellsTheImpl
    <2> SUFFICES ASSUME Inv, read # Empty, Readable(read.report),
                        NEW s \in DOMAIN read.report.process.functions, s.kind = "impl"
                 PROVE  read.report.process.functions[s].name.name = Impl(s)
                           <=> ~Occurs(As, s.type) /\ ~Occurs(Closing, s.method)
      BY DEF SplitTellsTheImpl, Impl
    <2> DEFINE state == processes[1]
    <2>1. read.report.process = Clean(Reported(state)) /\ 1 \in DOMAIN processes
      BY FamilyTold
    <2>2. Sound(state)
      BY WhatIsRead
    <2> HIDE DEF state
    <2>3. /\ s \in DOMAIN state.functions
          /\ read.report.process.functions[s].name = ParseMangledName(s)
      BY <2>1, <2>2, ToldOfProcess
    <2>4. s \in Symbol /\ Named(s)
      BY <2>2, <2>3 DEF Sound, AllNamed, IsState
    <2>5. Parses(Spelled(s)) /\ ParseMangledName(s).name = ParseRustName(Spelled(s))
      BY <2>4 DEF Named, ParseMangledName, Parses
    <2> QED
      BY <2>3, <2>4, <2>5, SplitImpl
  <1> QED
    BY <1>1, Invariance, PTL
=============================================================================
