--------------------------- MODULE SessionProofs ---------------------------
(***************************************************************************)
(* That the forwarding thread listens for as long as the child has its     *)
(* pid, and sends at most one signal too late, whatever the number of      *)
(* traced processes and interrupts.                                        *)
(***************************************************************************)
EXTENDS Session, TLAPS

(* The handle follows main: it is opened before the tracing and closed     *)
(* after the loop, and main cannot leave the loop before the child was     *)
(* reaped.                                                                 *)
HandleFollowsMain ==
    /\ main \in {"start", "spawned"} => handle = "none" /\ thread = "none"
    /\ main \in {"forwarding", "tracing", "traced"} => handle = "open"
    /\ main = "output" => handle = "closed"
    /\ main = "spawned" => owner = "child"
    /\ main = "forwarding" => owner = "child"
    /\ main = "traced" => owner \in {"nobody", "stranger"}

(* The thread ends by a kill that fails, for which the pid must be free or *)
(* another's, or when it finds the handle closed.                          *)
ThreadListens ==
    main \in {"forwarding", "tracing"} /\ owner \in {"child", "zombie"} =>
        thread \in {"waiting", "holding"}

(* The one signal that may be late is the one the thread holds.            *)
LateOrHeld ==
    /\ main \notin {"output", "ended"} => late = 0
    /\ late = 0 \/ (late = 1 /\ (main = "output" => thread # "holding"))

Inv == TypeOK /\ HandleFollowsMain /\ ThreadListens /\ LateOrHeld

LEMMA InitInv == Init => Inv
<1> SUFFICES ASSUME Init PROVE Inv
  OBVIOUS
<1> USE DEF Init, ForwarderInit
<1>1. TypeOK
  <2>1. ForwarderTypeOK
    BY DEF ForwarderTypeOK
  <2>2. others \in 0..MaxOthers /\ late \in Nat
    BY OthersAssumption
  <2>3. written \in BOOLEAN /\ ignores \in BOOLEAN
    BY Zenon
  <2>4. /\ main \in {"start", "spawned", "forwarding", "tracing", "traced", "output", "ended"}
        /\ result \in Failure \cup {"none", "code", "ok", "killed"}
        /\ status \in {"none", "code", "signal"}
    OBVIOUS
  <2> QED
    BY <2>1, <2>2, <2>3, <2>4 DEF TypeOK
<1>2. HandleFollowsMain /\ ThreadListens /\ LateOrHeld
  BY DEF HandleFollowsMain, ThreadListens, LateOrHeld
<1> QED
  BY <1>1, <1>2 DEF Inv

(* The steps of the thread: of the tracer's state they only touch its own. *)
LEMMA ForwardingInv == Inv /\ main # "ended" /\ Forwarding => Inv'
<1> SUFFICES ASSUME Inv, main # "ended", Forwarding PROVE Inv'
  OBVIOUS
<1>1. /\ UNCHANGED <<main, result, written, others, status, ignores>>
      /\ late' = IF thread = "holding" /\ main = "output" THEN late + 1 ELSE late
  BY DEF Forwarding
<1>2. CASE TakeSignal
  <2>1. /\ thread = "waiting" /\ thread' = "holding"
        /\ handle = "open" /\ pending' = FALSE
        /\ UNCHANGED <<handle, owner, sent>>
    BY <1>2 DEF TakeSignal
  <2>2. late' = late
    BY <1>1, <2>1
  <2>3. TypeOK'
    <3>1. ForwarderTypeOK'
      BY <2>1 DEF Inv, TypeOK, ForwarderTypeOK
    <3> QED
      BY <1>1, <2>2, <3>1 DEF Inv, TypeOK
  <2>4. HandleFollowsMain'
    BY <1>1, <2>1 DEF Inv, HandleFollowsMain
  <2>5. ThreadListens'
    BY <2>1 DEF ThreadListens
  <2>6. LateOrHeld'
    BY <1>1, <2>1, <2>2 DEF Inv, HandleFollowsMain, LateOrHeld
  <2> QED
    BY <2>3, <2>4, <2>5, <2>6 DEF Inv
<1>3. CASE SeeClosed
  <2>1. /\ thread = "waiting" /\ thread' = "ended"
        /\ handle = "closed"
        /\ UNCHANGED <<handle, pending, owner, sent>>
    BY <1>3 DEF SeeClosed
  <2>2. late' = late
    BY <1>1, <2>1
  <2>3. TypeOK'
    BY <1>1, <2>1, <2>2 DEF Inv, TypeOK, ForwarderTypeOK
  <2>4. HandleFollowsMain' /\ ThreadListens'
    BY <1>1, <2>1 DEF Inv, HandleFollowsMain, ThreadListens
  <2>5. LateOrHeld'
    BY <1>1, <2>1, <2>2 DEF Inv, LateOrHeld
  <2> QED
    BY <2>3, <2>4, <2>5 DEF Inv
<1>4. ASSUME NEW permitted \in BOOLEAN, Kill(permitted)
      PROVE  Inv'
  <2>1. /\ thread = "holding" /\ thread' \in {"waiting", "ended"}
        /\ UNCHANGED <<handle, pending, owner>>
    BY <1>4 DEF Kill, AfterKill
  <2>2. owner \in {"child", "zombie"} => thread' = "waiting"
    BY <1>4 DEF Kill, AfterKill
  <2>3. sent' \in BOOLEAN
    BY <1>4 DEF Kill
  <2>4. TypeOK'
    BY <1>1, <2>1, <2>3 DEF Inv, TypeOK, ForwarderTypeOK
  <2>5. HandleFollowsMain' /\ ThreadListens'
    BY <1>1, <2>1, <2>2 DEF Inv, HandleFollowsMain, ThreadListens
  <2>6. LateOrHeld'
    BY <1>1, <2>1 DEF Inv, LateOrHeld
  <2> QED
    BY <2>4, <2>5, <2>6 DEF Inv
<1> QED
  BY <1>2, <1>3, <1>4 DEF Forwarding, Listen

LEMMA MainInv == Inv /\ (Main \/ MainFails) => Inv'
<1> SUFFICES ASSUME Inv, Main \/ MainFails PROVE Inv'
  OBVIOUS
<1> USE DEF Inv, TypeOK, ForwarderTypeOK, HandleFollowsMain, ThreadListens,
            LateOrHeld, Failure, forwarderVars, externalVars, Drop
<1>1. CASE SpawnChild
  BY <1>1 DEF SpawnChild
<1>2. CASE StartForwarding
  BY <1>2 DEF StartForwarding, SpawnForwarder
<1>3. CASE StartTracing
  BY <1>3 DEF StartTracing
<1>4. CASE ReapChild
  BY <1>4 DEF ReapChild
<1>5. CASE LoopEnds
  BY <1>5 DEF LoopEnds
<1>6. CASE StopForwarding
  BY <1>6 DEF StopForwarding
<1>7. CASE WriteReport
  BY <1>7 DEF WriteReport
<1>8. CASE MainFails
  BY <1>8 DEF MainFails, Fail, Return
<1> QED
  BY <1>1, <1>2, <1>3, <1>4, <1>5, <1>6, <1>7, <1>8 DEF Main

LEMMA EnvironmentInv ==
    ASSUME Inv, \/ Interrupt \/ Clone \/ OtherExits \/ PidReused
                \/ \E how \in {"code", "signal"} : ChildEnds(how)
    PROVE  Inv'
<1> USE DEF Inv, TypeOK, ForwarderTypeOK, HandleFollowsMain, ThreadListens,
            LateOrHeld, Failure, forwarderVars, externalVars
<1>1. CASE Interrupt
  <2>1. CASE InterruptKills
    BY <2>1 DEF InterruptKills
  <2>2. CASE Interrupted /\ UNCHANGED <<main, result, written, externalVars>>
    BY <2>2 DEF Interrupted
  <2> QED
    BY <1>1, <2>1, <2>2 DEF Interrupt
<1>2. CASE Clone
  BY <1>2, OthersAssumption DEF Clone
<1>3. CASE OtherExits
  BY <1>3, OthersAssumption DEF OtherExits
<1>4. CASE PidReused
  BY <1>4 DEF PidReused
<1>5. CASE \E how \in {"code", "signal"} : ChildEnds(how)
  BY <1>5 DEF ChildEnds
<1> QED
  BY <1>1, <1>2, <1>3, <1>4, <1>5

LEMMA NextInv == Inv /\ [Next]_vars => Inv'
<1> SUFFICES ASSUME Inv, [Next]_vars PROVE Inv'
  OBVIOUS
<1>1. CASE Next
  BY <1>1, ForwardingInv, MainInv, EnvironmentInv DEF Next
<1>2. CASE UNCHANGED vars
  BY <1>2 DEF vars, forwarderVars, Inv, TypeOK, ForwarderTypeOK,
              HandleFollowsMain, ThreadListens, LateOrHeld, Failure
<1> QED
  BY <1>1, <1>2

LEMMA Invariant == Spec => []Inv
  BY InitInv, NextInv, PTL DEF Spec

-----------------------------------------------------------------------------
(* The types of main, the forwarder and its thread.                        *)
THEOREM TypeCorrect == Spec => []TypeOK
  BY Invariant, PTL DEF Inv

(* listen is in its loop while the child is alive or not yet reaped: no    *)
(* interrupt is lost to a kill that failed too early.                      *)
THEOREM ThreadOutlivesChild == Spec => []ListensWhileTraced
<1>1. Inv => ListensWhileTraced
  BY DEF Inv, HandleFollowsMain, ThreadListens, ListensWhileTraced
<1> QED
  BY <1>1, Invariant, PTL

(* After drop(signal_forwarder) at most the signal in the thread's hands   *)
(* is still sent.                                                          *)
THEOREM AtMostOneAfterDrop == Spec => []AtMostOneLate
<1>1. Inv => AtMostOneLate
  BY DEF Inv, TypeOK, LateOrHeld, AtMostOneLate
<1> QED
  BY <1>1, Invariant, PTL
=============================================================================
