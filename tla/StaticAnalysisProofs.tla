------------------------ MODULE StaticAnalysisProofs ------------------------
(***************************************************************************)
(* What bubble_transitive_capabilities guarantees, for every call graph    *)
(* and every set of capabilities: the loop leaves exactly the least        *)
(* assignment closed under calls, and keeps Direct and Transitive apart.   *)
(*                                                                         *)
(* And what the whole static analysis does, for any program, however it is *)
(* cut into modules and in whatever order they are read: what the builder  *)
(* has done after some of the files depends on nothing but which files     *)
(* those are, and from there on it is that loop.                           *)
(***************************************************************************)
EXTENDS StaticAnalysis, TLAPS

(* An edge the pass has been over is settled as long as nothing changed;   *)
(* once `changed` is set the pass owes another one and promises nothing.   *)
Settled(E) == \A e \in E : Held(capabilities, e[2]) \subseteq Held(capabilities, e[1])

VisitedSettled ==
    /\ pc = "for" /\ ~changed => Settled(edges \ todo)
    /\ pc = "while" /\ ~changed => Settled(edges)
    /\ pc = "done" => Settled(edges)

(* The part of the invariant that is about the steps the loop takes: a     *)
(* pass that has been left has visited every edge.                         *)
BubbleInv == BubbleTypeOK /\ OnlyReachable /\ DirectIsOwn /\ VisitedSettled

-----------------------------------------------------------------------------
(* What a visit does to the maps: the caller gains what it missed, as      *)
(* Transitive, and nothing else moves.                                     *)
LEMMA VisitGains ==
    ASSUME BubbleTypeOK, NEW caller \in Function, NEW callee \in Function,
           VisitEdge(caller, callee)
    PROVE  /\ capabilities' \in [Function -> [Capability -> {Absent} \cup CapabilityType]]
           /\ \A f \in Function, c \in Capability :
                 capabilities'[f][c] =
                    IF f = caller /\ c \in Missing(caller, callee)
                    THEN "Transitive" ELSE capabilities[f][c]
  BY DEF BubbleTypeOK, VisitEdge, Insert, Missing, CapabilityType

(* A visit that finds nothing missing leaves every map as it was.          *)
LEMMA QuietVisit ==
    ASSUME BubbleTypeOK, NEW caller \in Function, NEW callee \in Function,
           VisitEdge(caller, callee), Missing(caller, callee) = {}
    PROVE  capabilities' = capabilities
  <1>1. \A f \in Function, c \in Capability : capabilities'[f][c] = capabilities[f][c]
    BY VisitGains
  <1>2. /\ capabilities \in [Function -> [Capability -> {Absent} \cup CapabilityType]]
        /\ capabilities' \in [Function -> [Capability -> {Absent} \cup CapabilityType]]
    BY VisitGains DEF BubbleTypeOK
  <1>3. \A f \in Function : capabilities'[f] = capabilities[f]
    BY <1>1, <1>2
  <1> QED
    BY <1>2, <1>3

(* Nothing has been passed on when the loop is entered.                    *)
LEMMA BubbleInitInv == BubbleInit => BubbleInv
  BY DEF BubbleInit, BubbleInv, BubbleTypeOK, OnlyReachable, DirectIsOwn, VisitedSettled, Spread, Origin,
         Held, CapabilityType, Absent

LEMMA BubbleNextInv == BubbleInv /\ [BubbleNext]_bubbleVars => BubbleInv'
  <1> SUFFICES ASSUME BubbleInv, [BubbleNext]_bubbleVars
               PROVE  BubbleInv'
    OBVIOUS
  <1> USE DEF BubbleInv
  <1>1. CASE StartPass
    <2>1. BubbleTypeOK'
      BY <1>1 DEF StartPass, BubbleTypeOK
    <2>2. (OnlyReachable /\ DirectIsOwn)'
      BY <1>1 DEF StartPass, OnlyReachable, DirectIsOwn, Spread, Origin, Held
    <2>3. VisitedSettled'
      BY <1>1 DEF StartPass, VisitedSettled, Settled
    <2> QED
      BY <2>1, <2>2, <2>3
  <1>2. ASSUME NEW caller \in Function, NEW callee \in Function, VisitEdge(caller, callee)
        PROVE  BubbleInv'
    <2>1. BubbleTypeOK'
      BY <1>2, VisitGains DEF VisitEdge, BubbleTypeOK
    <2>2. OnlyReachable'
      <3> SUFFICES ASSUME NEW f \in Function, NEW c \in Held(capabilities', f),
                          NEW S \in Spread(c)
                   PROVE  f \in S
        BY <1>2 DEF OnlyReachable, VisitEdge, Spread, Origin, Held
      <3>1. CASE f = caller /\ c \in Missing(caller, callee)
        <4>1. callee \in S
          BY <3>1 DEF Missing, OnlyReachable, Held
        <4>2. <<caller, callee>> \in edges
          BY <1>2 DEF VisitEdge, BubbleTypeOK
        <4> QED
          BY <3>1, <4>1, <4>2 DEF Spread
      <3>2. CASE ~(f = caller /\ c \in Missing(caller, callee))
        <4>1. capabilities'[f][c] = capabilities[f][c]
          BY <1>2, <3>2, VisitGains DEF Held
        <4> QED
          BY <4>1 DEF OnlyReachable, Held
      <3> QED
        BY <3>1, <3>2
    <2>3. DirectIsOwn'
      <3> SUFFICES ASSUME NEW f \in Function, NEW c \in Capability
                   PROVE  capabilities'[f][c] = "Direct" <=> given[f][c] = "Direct"
        BY <1>2 DEF DirectIsOwn, VisitEdge
      <3>1. CASE f = caller /\ c \in Missing(caller, callee)
        BY <1>2, <3>1, VisitGains DEF DirectIsOwn, Missing, Held, Absent
      <3>2. CASE ~(f = caller /\ c \in Missing(caller, callee))
        BY <1>2, <3>2, VisitGains DEF DirectIsOwn
      <3> QED
        BY <3>1, <3>2
    <2>4. VisitedSettled'
      <3>1. pc' = "for" /\ edges' = edges
        BY <1>2 DEF VisitEdge
      <3> SUFFICES ASSUME ~changed', NEW e \in edges \ todo'
                   PROVE  Held(capabilities', e[2]) \subseteq Held(capabilities', e[1])
        BY <3>1 DEF VisitedSettled, Settled, Held
      <3>2. ~changed /\ Missing(caller, callee) = {}
        BY <1>2 DEF VisitEdge
      <3>3. capabilities' = capabilities
        BY <1>2, <3>2, QuietVisit
      <3>4. Held(capabilities, e[2]) \subseteq Held(capabilities, e[1])
        <4>1. CASE e = <<caller, callee>>
          BY <3>2, <4>1 DEF Missing
        <4>2. CASE e \in edges \ todo
          BY <1>2, <3>2, <4>2 DEF VisitedSettled, Settled, VisitEdge
        <4> QED
          BY <1>2, <4>1, <4>2 DEF VisitEdge
      <3> QED
        BY <3>3, <3>4
    <2> QED
      BY <2>1, <2>2, <2>3, <2>4
  <1>3. CASE EndPass
    BY <1>3 DEF EndPass, BubbleTypeOK, OnlyReachable, DirectIsOwn, VisitedSettled, Settled,
                Spread, Origin, Held
  <1>4. CASE LeaveLoop
    BY <1>4 DEF LeaveLoop, BubbleTypeOK, OnlyReachable, DirectIsOwn, VisitedSettled, Settled,
                Spread, Origin, Held
  <1>5. CASE UNCHANGED bubbleVars
    BY <1>5 DEF bubbleVars, BubbleTypeOK, OnlyReachable, DirectIsOwn, VisitedSettled, Settled,
                Spread, Origin, Held
  <1> QED
    BY <1>1, <1>2, <1>3, <1>4, <1>5 DEF BubbleNext

(* The invariant the theorems on the loop are read off.                    *)
THEOREM BubbleInvariance == BubbleSpec => []BubbleInv
  BY BubbleInitInv, BubbleNextInv, PTL DEF BubbleSpec

(* The loop's variables keep their types: every function and edge the loop *)
(* unwraps is one of the FunctionMap.                                      *)
THEOREM BubbleTypeCorrect == BubbleSpec => []BubbleTypeOK
  BY BubbleInvariance, PTL DEF BubbleInv

(* Soundness of the fixpoint: nothing is reported of a function that       *)
(* neither it nor anything it reaches through calls can do.                *)
THEOREM NothingInvented == BubbleSpec => []OnlyReachable
  BY BubbleInvariance, PTL DEF BubbleInv

(* Completeness: whatever the loop's order over the edges, when it ends    *)
(* every caller holds what its callees hold.                               *)
THEOREM NothingMissed == BubbleSpec => []DoneIsClosed
  <1>1. BubbleInv => DoneIsClosed
    BY DEF BubbleInv, VisitedSettled, Settled, DoneIsClosed
  <1> QED
    BY <1>1, BubbleInvariance, PTL

(* Direct means the function's own: bubbling neither downgrades a direct   *)
(* capability nor promotes a bubbled one.                                  *)
THEOREM DirectKept == BubbleSpec => []DirectIsOwn
  BY BubbleInvariance, PTL DEF BubbleInv

-----------------------------------------------------------------------------
ReadSoFar == {module[file] : file \in File \ unread}

(* FunctionMap and CallGraph are those of the files read so far.           *)
Builder ==
    /\ module \in [File -> Module \cup {Unreadable}]
    /\ unread \subseteq File
    /\ ReadSoFar \subseteq Module
    /\ functions = UNION {Names(m) : m \in ReadSoFar}
    /\ edges = UNION {Calls(m) : m \in ReadSoFar}
    /\ edges \subseteq functions \X functions
    /\ given = [f \in Function |-> [c \in Capability |->
                  IF f \in functions /\ c \in FunctionCaps[f] THEN "Direct" ELSE "Absent"]]

(* Why add_module may fail on a file, whatever was read before it.         *)
Bad(m) ==
    \/ m = Unreadable
    \/ (m.defined \cup m.declared) \cap Malformed # {}
    \/ \E call \in m.calls :
          \/ call[2] = Numbered
          \/ call[2] \in Function \ (m.defined \cup m.declared)

Reading == capabilities = given /\ changed = FALSE /\ todo = {}

Stages ==
    /\ pc \in {"modules", "failed", "while", "for", "done"}
    /\ pc \in {"modules", "failed"} => Reading
    /\ pc = "failed" => \E file \in File : Bad(module[file])
    /\ pc \in {"while", "for", "done"} => unread = {} /\ BubbleInv

Inv == Builder /\ Stages

-----------------------------------------------------------------------------
(* An edge of a module leads from a function it defines.                   *)
LEMMA CallsFrom ==
    ASSUME NEW m \in Module
    PROVE  /\ Calls(m) \subseteq m.defined \X Function
           /\ \A e \in Calls(m) : \E call \in m.calls : e[2] \in Targets(m, call[2])
           /\ Names(m) \subseteq Function
  <1>1. m.calls \subseteq m.defined \X Callee /\ Names(m) \subseteq Function
    BY StaticAssumption DEF Names
  <1>2. ASSUME NEW call \in m.calls
        PROVE  {call[1]} \X Targets(m, call[2]) \subseteq m.defined \X Function
    BY <1>1 DEF Targets
  <1>3. ASSUME NEW e \in Calls(m)
        PROVE  e \in m.defined \X Function /\ \E call \in m.calls : e[2] \in Targets(m, call[2])
    <2>1. PICK call \in m.calls : e \in {call[1]} \X Targets(m, call[2])
      BY DEF Calls
    <2> QED
      BY <1>2, <2>1
  <1> QED
    BY <1>1, <1>3

(* A module is turned down for what is in it.                              *)
LEMMA TurnedDown ==
    ASSUME NEW m \in Module \cup {Unreadable}, ~Accepted(m)
    PROVE  Bad(m)
  <1> SUFFICES ASSUME m \in Module, Names(m) \cap Malformed = {},
                      \A call \in m.calls : call[2] # Numbered
               PROVE  Bad(m)
    BY DEF Bad, Names
  <1>1. PICK e \in Calls(m) : e \notin Function \X (functions \cup Names(m))
    BY StaticAssumption DEF Accepted
  <1>2. e \in m.defined \X Function
    BY CallsFrom
  <1>3. e[2] \in Function /\ e[2] \notin Names(m)
    BY <1>1, <1>2, CallsFrom DEF Names
  <1>4. PICK call \in m.calls : e[2] \in Targets(m, call[2])
    BY CallsFrom
  <1>5. call[2] = e[2]
    BY <1>3, <1>4 DEF Targets, Names
  <1> QED
    BY <1>3, <1>5 DEF Bad, Names

LEMMA InitInv == Init => Inv
  <1> SUFFICES ASSUME Init PROVE Inv
    OBVIOUS
  <1>1. ReadSoFar = {}
    BY DEF Init, ReadSoFar
  <1>2. UNION {Names(m) : m \in ReadSoFar} = {} /\ UNION {Calls(m) : m \in ReadSoFar} = {}
    BY <1>1
  <1> QED
    BY <1>1, <1>2 DEF Init, Inv, Builder, Stages, Reading

(* One more file read.                                                     *)
LEMMA AddModuleInv ==
    ASSUME Inv, NEW file \in File, AddModule(file)
    PROVE  Inv'
  <1> DEFINE m == module[file]
  <1>1. m \in Module /\ file \in unread
    BY DEF AddModule, Accepted, Inv, Builder
  <1>2. ReadSoFar' = ReadSoFar \cup {m}
    BY DEF AddModule, ReadSoFar, Inv, Builder
  <1>3. functions' = UNION {Names(x) : x \in ReadSoFar'}
    BY <1>2 DEF AddModule, Inv, Builder
  <1>4. edges' = UNION {Calls(x) : x \in ReadSoFar'}
    BY <1>2 DEF AddModule, Inv, Builder
  <1>5. edges' \subseteq functions' \X functions'
    <2>1. Calls(m) \subseteq m.defined \X Function
      BY <1>1, CallsFrom
    <2>2. Calls(m) \subseteq Function \X functions'
      BY DEF AddModule, Accepted
    <2>3. m.defined \subseteq functions'
      BY DEF AddModule, Names
    <2>4. Calls(m) \subseteq functions' \X functions'
      BY <2>1, <2>2, <2>3
    <2>5. edges \subseteq functions' \X functions'
      BY DEF AddModule, Inv, Builder
    <2> QED
      BY <2>4, <2>5 DEF AddModule
  <1>6. given' = [f \in Function |-> [c \in Capability |->
                    IF f \in functions' /\ c \in FunctionCaps[f] THEN "Direct" ELSE "Absent"]]
    <2>1. capabilities = given
      BY DEF AddModule, Inv, Stages, Reading
    <2> QED
      BY <2>1 DEF AddModule, Upsert, Inv, Builder
  <1>7. Builder'
    BY <1>1, <1>2, <1>3, <1>4, <1>5, <1>6 DEF AddModule, Inv, Builder
  <1>8. Stages'
    BY DEF AddModule, Inv, Stages, Reading
  <1> QED
    BY <1>7, <1>8 DEF Inv

(* The loop is entered with what the builder has left.                     *)
LEMMA IntoReportInv == Inv /\ IntoReport => Inv'
  <1> SUFFICES ASSUME Inv, IntoReport PROVE Inv'
    OBVIOUS
  <1>1. Builder'
    BY DEF IntoReport, Inv, Builder, ReadSoFar
  <1>2. /\ capabilities' = given' /\ changed' = TRUE /\ todo' = {} /\ pc' = "while"
        /\ unread' = {}
    BY DEF IntoReport, Inv, Stages, Reading
  <1>3. functions' \subseteq Function
    <2>1. \A x \in ReadSoFar' : Names(x) \subseteq Function
      BY <1>1, CallsFrom DEF Builder
    <2> QED
      BY <1>1, <2>1 DEF Builder
  <1>4. edges' \subseteq Function \X Function
    BY <1>1, <1>3 DEF Builder
  <1>5. given' \in [Function -> [Capability -> {"Absent", "Direct"}]]
    BY <1>1 DEF Builder
  <1>6. BubbleInv'
    BY <1>2, <1>4, <1>5
       DEF BubbleInv, BubbleTypeOK, OnlyReachable, DirectIsOwn, VisitedSettled,
           Spread, Origin, Held, CapabilityType, Absent
  <1> QED
    BY <1>1, <1>2, <1>6 DEF Inv, Stages

(* A step of the loop.                                                     *)
LEMMA LoopInv == Inv /\ BubbleNext /\ UNCHANGED builderVars => Inv'
  <1> SUFFICES ASSUME Inv, BubbleNext, UNCHANGED builderVars PROVE Inv'
    OBVIOUS
  <1>1. pc \in {"while", "for"} /\ edges' = edges /\ given' = given
    BY DEF BubbleNext, StartPass, VisitEdge, EndPass, LeaveLoop
  <1>2. BubbleInv /\ unread = {}
    BY <1>1 DEF Inv, Stages
  <1>3. BubbleInv'
    BY <1>2, BubbleNextInv
  <1>4. pc' \in {"while", "for", "done"}
    BY <1>3 DEF BubbleInv, BubbleTypeOK
  <1>5. Builder'
    BY <1>1 DEF Inv, Builder, ReadSoFar, builderVars
  <1> QED
    BY <1>2, <1>3, <1>4, <1>5 DEF Inv, Stages, builderVars

LEMMA NextInv == Inv /\ [Next]_vars => Inv'
  <1> SUFFICES ASSUME Inv, [Next]_vars PROVE Inv'
    OBVIOUS
  <1>1. ASSUME NEW file \in File, AddModule(file)
        PROVE  Inv'
    BY <1>1, AddModuleInv
  <1>2. ASSUME NEW file \in File, Fail(file)
        PROVE  Inv'
    <2>1. Bad(module[file])
      BY <1>2, TurnedDown DEF Fail, Inv, Builder
    <2>2. Builder'
      BY <1>2 DEF Fail, Inv, Builder, ReadSoFar
    <2>3. Stages'
      BY <1>2, <2>1 DEF Fail, Inv, Stages, Reading, Bad
    <2> QED
      BY <2>2, <2>3 DEF Inv
  <1>3. CASE IntoReport
    BY <1>3, IntoReportInv
  <1>4. CASE BubbleNext /\ UNCHANGED builderVars
    BY <1>4, LoopInv
  <1>5. CASE UNCHANGED vars
    <2>1. Builder'
      BY <1>5 DEF vars, Inv, Builder, ReadSoFar
    <2>2. BubbleInv <=> BubbleInv'
      BY <1>5 DEF vars, BubbleInv, BubbleTypeOK, OnlyReachable, DirectIsOwn,
                  VisitedSettled, Settled, Spread, Origin, Held
    <2>3. Stages'
      BY <1>5, <2>2 DEF vars, Inv, Stages, Reading, Bad
    <2> QED
      BY <2>1, <2>3 DEF Inv
  <1> QED
    BY <1>1, <1>2, <1>3, <1>4, <1>5 DEF Next

(* The invariant the theorems below are read off.                          *)
THEOREM Invariance == Spec => []Inv
  BY InitInv, NextInv, PTL DEF Spec

-----------------------------------------------------------------------------
(* What the loop has spread a capability to, it reaches through calls, and *)
(* it is a function of the program.                                        *)
LEMMA OnlyWhatIsReached ==
    ASSUME Inv, pc \in {"while", "for", "done"},
           NEW f \in Function, NEW c \in Held(capabilities, f)
    PROVE  f \in functions /\ \E g \in functions : c \in FunctionCaps[g] /\ Reaches(edges, f, g)
  <1> DEFINE S == {x \in functions :
                     \E g \in functions : c \in FunctionCaps[g] /\ Reaches(edges, x, g)}
  <1>1. Builder /\ BubbleInv
    BY DEF Inv, Stages
  <1>2. c \in Capability
    BY DEF Held
  <1>3. Origin(c) \subseteq S
    <2> SUFFICES ASSUME NEW x \in Origin(c) PROVE x \in S
      OBVIOUS
    <2>1. x \in functions /\ c \in FunctionCaps[x]
      BY <1>1, <1>2 DEF Origin, Held, Absent, Builder
    <2>2. Reaches(edges, x, x)
      BY DEF Reaches
    <2> QED
      BY <2>1, <2>2
  <1>4. ASSUME NEW e \in edges, e[2] \in S
        PROVE  e[1] \in S
    <2>1. PICK g \in functions : c \in FunctionCaps[g] /\ Reaches(edges, e[2], g)
      BY <1>4
    <2>2. e[1] \in Nodes(edges) /\ e[2] \in Nodes(edges)
      BY DEF Nodes
    <2>3. Reaches(edges, e[1], g)
      BY <2>1, <2>2 DEF Reaches
    <2>4. e[1] \in functions
      BY <1>1 DEF Builder
    <2> QED
      BY <2>1, <2>3, <2>4
  <1>5. functions \subseteq Function
    <2>1. \A x \in ReadSoFar : Names(x) \subseteq Function
      BY <1>1, CallsFrom DEF Builder
    <2> QED
      BY <1>1, <2>1 DEF Builder
  <1>6. S \in Spread(c)
    BY <1>3, <1>4, <1>5 DEF Spread
  <1>7. f \in S
    BY <1>1, <1>6 DEF BubbleInv, OnlyReachable
  <1> QED
    BY <1>7

(* When the loop has ended, what a function reaches it holds.              *)
LEMMA AllThatIsReached ==
    ASSUME Inv, pc = "done", NEW f \in functions, NEW g \in functions,
           NEW c \in FunctionCaps[g], Reaches(edges, f, g)
    PROVE  c \in Held(capabilities, f)
  <1> DEFINE S == {x \in Nodes(edges) \cup {f, g} : c \notin Held(capabilities, x)}
  <1>1. Builder /\ BubbleInv
    BY DEF Inv, Stages
  <1>2. functions \subseteq Function
    <2>1. \A x \in ReadSoFar : Names(x) \subseteq Function
      BY <1>1, CallsFrom DEF Builder
    <2> QED
      BY <1>1, <2>1 DEF Builder
  <1>3. c \in Capability
    BY <1>2, StaticAssumption
  <1>4. c \in Held(capabilities, g)
    <2>1. given[g][c] = "Direct"
      BY <1>1, <1>2, <1>3 DEF Builder
    <2>2. capabilities[g][c] = "Direct"
      BY <1>1, <1>2, <1>3, <2>1 DEF BubbleInv, DirectIsOwn
    <2> QED
      BY <1>3, <2>2 DEF Held, Absent
  <1>5. \A e \in edges : e[1] \in S => e[2] \in S
    <2>1. \A e \in edges : Held(capabilities, e[2]) \subseteq Held(capabilities, e[1])
      BY <1>1 DEF BubbleInv, VisitedSettled, Settled
    <2>2. \A e \in edges : e[2] \in Nodes(edges)
      BY DEF Nodes
    <2> QED
      BY <2>1, <2>2
  <1>6. CASE f \in S
    <2>1. g \in S
      BY <1>5, <1>6 DEF Reaches
    <2> QED
      BY <1>4, <2>1
  <1> QED
    BY <1>6

-----------------------------------------------------------------------------
(* Types: what the loop unwraps is in the map, and only functions of the   *)
(* program hold anything.                                                  *)
THEOREM TypeCorrect == Spec => []TypeOK
  <1>1. Inv => TypeOK
    <2> SUFFICES ASSUME Inv PROVE TypeOK
      OBVIOUS
    <2>1. functions \subseteq Function
      <3>1. \A x \in ReadSoFar : Names(x) \subseteq Function
        BY CallsFrom DEF Inv, Builder
      <3> QED
        BY <3>1 DEF Inv, Builder
    <2>2. CASE pc \in {"modules", "failed"}
      <3>1. capabilities \in [Function -> [Capability -> {"Absent", "Direct", "Transitive"}]]
        BY <2>2 DEF Inv, Stages, Reading, Builder
      <3>2. \A f \in Function \ functions : Held(capabilities, f) = {}
        BY <2>2 DEF Inv, Stages, Reading, Builder, Held, Absent
      <3> QED
        BY <2>1, <2>2, <3>1, <3>2 DEF Inv, Builder, Stages, Reading, TypeOK
    <2>3. CASE pc \in {"while", "for", "done"}
      <3>1. BubbleTypeOK
        BY <2>3 DEF Inv, Stages, BubbleInv
      <3>2. capabilities \in [Function -> [Capability -> {"Absent", "Direct", "Transitive"}]]
        BY <3>1 DEF BubbleTypeOK, CapabilityType, Absent
      <3>3. \A f \in Function \ functions : Held(capabilities, f) = {}
        BY <2>3, OnlyWhatIsReached DEF Held, Absent
      <3> QED
        BY <2>1, <2>3, <3>1, <3>2, <3>3 DEF Inv, Builder, TypeOK, BubbleTypeOK
    <2> QED
      BY <2>2, <2>3 DEF Inv, Stages
  <1> QED
    BY <1>1, Invariance, PTL

(* The program ends without a report only for what is wrong with a file.   *)
THEOREM FailureIsBadInput == Spec => []OnlyBadInputFails
  <1>1. Inv => OnlyBadInputFails
    BY DEF Inv, Stages, Bad, OnlyBadInputFails, Read
  <1> QED
    BY <1>1, Invariance, PTL

(* The report is that of the whole program: for each function, and for the *)
(* process, exactly the capabilities of what it reaches through the calls  *)
(* of all modules together.                                                *)
THEOREM ReportIsExact == Spec => []ReportExact
  <1>1. Inv => ReportExact
    <2> SUFFICES ASSUME Inv, pc = "done" PROVE ReportExact
      BY DEF ReportExact
    <2>1. ReadSoFar = Read
      BY DEF Inv, Stages, ReadSoFar, Read
    <2>2. functions = UNION {m.defined \cup m.declared : m \in Read} /\ AllCalls = edges
      BY <2>1 DEF Inv, Builder, Names, AllCalls
    <2>3. functions \subseteq Function
      <3>1. \A x \in ReadSoFar : Names(x) \subseteq Function
        BY CallsFrom DEF Inv, Builder
      <3> QED
        BY <3>1 DEF Inv, Builder
    <2>4. ASSUME NEW f \in functions
          PROVE  Held(capabilities, f) =
                   UNION {FunctionCaps[g] : g \in {g \in functions : Reaches(edges, f, g)}}
      <3>1. ASSUME NEW c \in Held(capabilities, f)
            PROVE  \E g \in functions : c \in FunctionCaps[g] /\ Reaches(edges, f, g)
        BY <2>3, OnlyWhatIsReached
      <3>2. ASSUME NEW g \in functions, Reaches(edges, f, g), NEW c \in FunctionCaps[g]
            PROVE  c \in Held(capabilities, f)
        BY <3>2, AllThatIsReached
      <3> QED
        BY <3>1, <3>2
    <2>5. ProcessCapabilities = UNION {FunctionCaps[f] : f \in functions}
      <3>1. \A f \in functions : Reaches(edges, f, f)
        BY DEF Reaches
      <3>2. \A f \in functions : FunctionCaps[f] \subseteq Held(capabilities, f)
        BY <3>1, AllThatIsReached
      <3>3. \A f \in functions : \A c \in Held(capabilities, f) :
               \E g \in functions : c \in FunctionCaps[g]
        BY <2>3, OnlyWhatIsReached
      <3> QED
        BY <3>2, <3>3 DEF ProcessCapabilities
    <2> QED
      BY <2>2, <2>4, <2>5 DEF ReportExact
  <1> QED
    BY <1>1, Invariance, PTL
=============================================================================
