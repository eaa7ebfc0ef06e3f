------------------------------ MODULE Session ------------------------------
(***************************************************************************)
(* Runtime::main (src/runtime/mod.rs) from the command line to the exit    *)
(* status: the child is spawned, SIGINT is forwarded to it while it is     *)
(* traced, and the report is written when the last process has ended.      *)
(* What the events of the loop do to the report is Runtime's; here they    *)
(* only tell how long the loop goes on.                                    *)
(***************************************************************************)
EXTENDS SignalForwarder, Naturals

CONSTANT MaxOthers      \* bound on the other traced processes

ASSUME OthersAssumption == MaxOthers \in Nat

VARIABLES
    main,       \* where Runtime::main is
    result,     \* what it ended with: an Error, "code" or "ok"; "none" before
    written,    \* the report was written
    others,     \* external: traced processes besides the child
    status,     \* external: tracer.status(), "none" before the child is reaped
    ignores,    \* external: the child carries on when it gets SIGINT
    late        \* history: signals sent after main had stopped forwarding

vars == <<forwarderVars, owner, main, result, written, others, status, ignores, late>>
externalVars == <<others, status, ignores, late>>

Failure ==
    {"Argv0", "Spawn", "Signals", "Cwd", "Tracer", "OutputCreate", "OutputWrite"}

TypeOK ==
    /\ ForwarderTypeOK
    /\ main \in {"start", "spawned", "forwarding", "tracing", "traced", "output", "ended"}
    /\ result \in Failure \cup {"none", "code", "ok", "killed"}
    /\ written \in BOOLEAN
    /\ others \in 0..MaxOthers
    /\ status \in {"none", "code", "signal"}
    /\ ignores \in BOOLEAN
    /\ late \in Nat

Init ==
    /\ ForwarderInit
    /\ owner = "nobody"
    /\ main = "start" /\ result = "none" /\ written = FALSE
    /\ others = 0 /\ status = "none"
    /\ ignores \in BOOLEAN
    /\ late = 0

-----------------------------------------------------------------------------
(* Return: with the forwarder's Drop where there is one.                   *)
Return(r) ==
    /\ main' = "ended"
    /\ result' = r
    /\ IF handle = "open" THEN Drop ELSE UNCHANGED handle

Fail(at, error) ==
    /\ main = at
    /\ Return(error)
    /\ UNCHANGED <<pending, thread, owner, sent, written, externalVars>>

SpawnChild ==
    /\ main = "start"
    /\ main' = "spawned"
    /\ owner' = "child"
    /\ UNCHANGED <<forwarderVars, result, written, externalVars>>

StartForwarding ==
    /\ main = "spawned"
    /\ SpawnForwarder
    /\ main' = "forwarding"
    /\ UNCHANGED <<result, written, externalVars>>

StartTracing ==
    /\ main = "forwarding"
    /\ main' = "tracing"
    /\ UNCHANGED <<forwarderVars, owner, result, written, externalVars>>

(* The iterator waits for the child and reaps it; main handles the event.  *)
ReapChild ==
    /\ main = "tracing" /\ owner = "zombie"
    /\ owner' = "nobody"
    /\ UNCHANGED <<forwarderVars, main, result, written, externalVars>>

(* The iterator ends when it has no process left to wait for.              *)
LoopEnds ==
    /\ main = "tracing" /\ owner \notin {"child", "zombie"} /\ others = 0
    /\ main' = "traced"
    /\ UNCHANGED <<forwarderVars, owner, result, written, externalVars>>

StopForwarding ==
    /\ main = "traced"
    /\ main' = "output"
    /\ Drop
    /\ UNCHANGED <<pending, thread, owner, sent, result, written, externalVars>>

WriteStatus ==      \* mutant: the status is taken for a code, also of a killed child
    /\ main = "output"
    /\ written' = TRUE
    /\ main' = "ended"
    /\ result' = status
    /\ UNCHANGED <<forwarderVars, owner, externalVars>>

WriteReport ==
    /\ main = "output"
    /\ written' = TRUE
    /\ main' = "ended"
    /\ result' = IF status = "code" THEN "code" ELSE "ok"
    /\ UNCHANGED <<forwarderVars, owner, externalVars>>

Main ==
    \/ SpawnChild \/ StartForwarding \/ StartTracing
    \/ ReapChild \/ LoopEnds \/ StopForwarding \/ WriteReport

MainFails ==
    \/ \E error \in {"Argv0", "Spawn"} : Fail("start", error)
    \/ Fail("spawned", "Signals")
    \/ \E error \in {"Cwd", "Tracer"} : Fail("forwarding", error)
    \/ \E error \in {"OutputCreate", "OutputWrite"} : Fail("output", error)

-----------------------------------------------------------------------------
(* External: SIGINT sent to cargo-capslock.  Before the forwarder is there *)
(* it has its default action.                                              *)
InterruptKills ==
    /\ main \in {"start", "spawned"}
    /\ main' = "ended" /\ result' = "killed"
    /\ UNCHANGED <<forwarderVars, owner, written, externalVars>>

Interrupt ==
    \/ InterruptKills
    \/ Interrupted /\ UNCHANGED <<main, result, written, externalVars>>

(* External: the traced processes, once main has them run.                 *)
Clone ==
    /\ main = "tracing" /\ (owner = "child" \/ others > 0)
    /\ others < MaxOthers
    /\ others' = others + 1
    /\ UNCHANGED <<forwarderVars, owner, main, result, written, status, ignores, late>>

OtherExits ==
    /\ main = "tracing" /\ others > 0
    /\ others' = others - 1
    /\ UNCHANGED <<forwarderVars, owner, main, result, written, status, ignores, late>>

ChildEnds(how) ==
    /\ main = "tracing" /\ owner = "child"
    /\ owner' = "zombie"
    /\ status' = how
    /\ UNCHANGED <<forwarderVars, main, result, written, others, ignores, late>>

DiesOfInterrupt == sent /\ ~ignores /\ ChildEnds("signal")

(* External: the pid of a child that was reaped is given out again.        *)
PidReused ==
    /\ owner \in {"nobody", "stranger"} /\ main \in {"tracing", "traced", "output"}
    /\ owner' = IF owner = "nobody" THEN "stranger" ELSE "nobody"
    /\ UNCHANGED <<forwarderVars, main, result, written, externalVars>>

Forwarding ==
    /\ Listen
    /\ late' = IF thread = "holding" /\ main = "output" THEN late + 1 ELSE late
    /\ UNCHANGED <<main, result, written, others, status, ignores>>

(* With main's return the threads of the process are gone.                 *)
Next ==
    /\ main # "ended"
    /\ \/ Main \/ MainFails
       \/ Forwarding
       \/ Interrupt
       \/ Clone \/ OtherExits
       \/ \E how \in {"code", "signal"} : ChildEnds(how)
       \/ PidReused

(* main and the thread are sequential code; the loop waits for processes,  *)
(* and those need not end.  A process that does not handle SIGINT dies of  *)
(* it.                                                                     *)
Fairness ==
    /\ WF_vars(Main)
    /\ WF_vars(main # "ended" /\ Forwarding)
    /\ WF_vars(DiesOfInterrupt)

Spec == Init /\ [][Next]_vars /\ Fairness

-----------------------------------------------------------------------------
(* The thread is there for as long as the child has its pid: it ends at    *)
(* the first kill that fails, and until the child is reaped none does, not *)
(* even one that comes when the child has already exited.                  *)
ListensWhileTraced ==
    main = "tracing" /\ owner \in {"child", "zombie"} =>
        handle = "open" /\ thread \in {"waiting", "holding"}

(* "Stop forwarding signals, since there's no longer a child process":     *)
(* Drop does not wait for the thread, which may hold a signal it then      *)
(* still sends, to whoever has the pid; but never a second one.            *)
AtMostOneLate == late <= 1

(* An interrupt while the child is traced ends the session, unless the     *)
(* program ignores it or has other processes that go on: the signal gets   *)
(* through however the thread, the child's own exit and main interleave,   *)
(* and main comes to its end.                                              *)
InterruptEndsSession ==
    (main = "tracing" /\ pending /\ ~ignores /\ owner = "child")
        ~> (main = "ended" \/ (owner # "child" /\ others > 0))
=============================================================================
