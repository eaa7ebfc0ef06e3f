-------------------------- MODULE SignalForwarder --------------------------
(***************************************************************************)
(* SignalForwarder (src/runtime/signal.rs): a thread that passes SIGINT on *)
(* to the traced child, and the handle that main closes it with.           *)
(*                                                                         *)
(* External: signal-hook keeps one flag for the signal, so interrupts that *)
(* come before the thread looks are one; forever() ends when it finds the  *)
(* handle closed, and only looks between two signals.  The kernel finds    *)
(* the target of kill by its pid, which a zombie still has, and which any  *)
(* process may have after the child was reaped.                            *)
(***************************************************************************)
VARIABLES
    handle,     \* SignalForwarder::handle: "none", "open", "closed"
    pending,    \* external: signal-hook's flag for SIGINT
    thread,     \* listen: "none", "waiting", "holding" a signal, "ended"
    owner,      \* external: who has the pid, "child", "zombie", "nobody", "stranger"
    sent        \* the child was alive when a signal was sent to its pid

forwarderVars == <<handle, pending, thread, sent>>

ForwarderTypeOK ==
    /\ handle \in {"none", "open", "closed"}
    /\ pending \in BOOLEAN
    /\ thread \in {"none", "waiting", "holding", "ended"}
    /\ owner \in {"child", "zombie", "nobody", "stranger"}
    /\ sent \in BOOLEAN

ForwarderInit ==
    /\ handle = "none" /\ pending = FALSE /\ thread = "none"
    /\ sent = FALSE

-----------------------------------------------------------------------------
ListenNotStarted ==     \* mutant: the handlers are installed and nobody listens
    /\ handle' = "open"
    /\ UNCHANGED <<pending, thread, owner, sent>>

DroppedAtOnce ==        \* mutant: let _ = SignalForwarder::spawn(..)
    /\ handle' = "closed"
    /\ thread' = "waiting"
    /\ UNCHANGED <<pending, owner, sent>>

SpawnForwarder ==
    /\ handle = "none"
    /\ handle' = "open"
    /\ thread' = "waiting"
    /\ UNCHANGED <<pending, owner, sent>>

NoDrop == UNCHANGED handle       \* mutant: the handle is not closed

(* Drop: it wakes the thread and does not wait for it.                     *)
Drop == handle' = "closed"

-----------------------------------------------------------------------------
(* forever() yields the signal, unless it finds the handle closed first.   *)
TakeSignal ==
    /\ thread = "waiting" /\ handle = "open" /\ pending
    /\ pending' = FALSE
    /\ thread' = "holding"
    /\ UNCHANGED <<handle, owner, sent>>

SeeClosed ==
    /\ thread = "waiting" /\ handle = "closed"
    /\ thread' = "ended"
    /\ UNCHANGED <<handle, pending, owner, sent>>

(* kill(pid, signal)?: ESRCH when nobody has the pid, perhaps EPERM from a *)
(* stranger; either ends the thread.                                       *)
AfterKill(permitted) ==
    IF owner = "nobody" \/ ~permitted THEN "ended" ELSE "waiting"

Kill(permitted) ==
    /\ thread = "holding"
    /\ ~permitted => owner = "stranger"
    /\ thread' = AfterKill(permitted)
    /\ sent' = (sent \/ owner = "child")
    /\ UNCHANGED <<handle, pending, owner>>

Listen ==
    \/ TakeSignal
    \/ SeeClosed
    \/ \E permitted \in BOOLEAN : Kill(permitted)

(* External: SIGINT reaches cargo-capslock, whose handler sets the flag.   *)
Interrupted ==
    /\ handle # "none"
    /\ pending' = TRUE
    /\ UNCHANGED <<handle, thread, owner, sent>>
=============================================================================
