-------------------------- MODULE CapabilityLedger --------------------------
(***************************************************************************)
(* What the runtime analysis promises its user, with no pid, event or      *)
(* stack in sight: every process of the traced tree has an account of the  *)
(* capabilities it used, opened empty and once, to which capabilities are  *)
(* only ever added, one account at a time; and the report is a copy of the *)
(* first process's account, or of all of them, made when nothing can       *)
(* change any more.  Runtime implements it.                                *)
(***************************************************************************)
CONSTANTS Process,      \* every process there can be
          First,        \* the one the analysis was started on
          Capability,
          Unpublished   \* no report yet

VARIABLES ledger,       \* the accounts: a function on the processes known so far
          published     \* what the report says of the processes it covers

vars == <<ledger, published>>

Known == DOMAIN ledger

Init ==
    /\ ledger = [i \in {First} |-> {}]
    /\ published = Unpublished

Open(i) ==
    /\ i \notin Known
    /\ ledger' = [k \in Known \cup {i} |-> IF k = i THEN {} ELSE ledger[k]]
    /\ UNCHANGED published

Charge(i, caps) ==
    /\ ledger' = [ledger EXCEPT ![i] = @ \cup caps]
    /\ UNCHANGED published

Publish(covered) ==
    /\ published' = [i \in covered |-> ledger[i]]
    /\ UNCHANGED ledger

Next ==
    /\ published = Unpublished
    /\ \/ \E i \in Process : Open(i)
       \/ \E i \in Known, caps \in SUBSET Capability : Charge(i, caps)
       \/ \E covered \in {{First}, Known} : Publish(covered)

Spec == Init /\ [][Next]_vars
=============================================================================
