--------------------------- MODULE ModuleAnalysis ---------------------------
(***************************************************************************)
(* The analyses of llvm-ir-analysis/src/lib.rs: each is kept in a          *)
(* SimpleCache, a RefCell that is filled when the analysis is first asked  *)
(* for, and some ask for others while they are computed.  A RefCell        *)
(* panics when it is borrowed mutably while it is borrowed at all.  The    *)
(* users of the crate keep the Refs they are given for as long as they     *)
(* like.                                                                   *)
(*                                                                         *)
(* A RefCell is not shared between threads: while an analysis is being     *)
(* computed nothing happens but what its closure asks for.  What the       *)
(* analyses compute is in StaticAnalysis, DominatorTree and                *)
(* ControlDependence.                                                      *)
(***************************************************************************)
EXTENDS Naturals, Sequences

CONSTANTS
    Scope,      \* each ModuleAnalysis, and the CrossModuleAnalysis
    Body        \* each FunctionAnalysis

(* The fields of the three structs that are a SimpleCache.                 *)
Cache ==
    ({"call_graph", "functions_by_type"} \X Scope) \cup
    ({"control_flow_graph", "dominator_tree", "postdominator_tree",
      "control_dep_graph"} \X Body)

VARIABLES
    filled,         \* the caches whose data is Some
    stack,          \* the closures that are running, the innermost last
    held,           \* the caches the user has a Ref of
    panic,          \* how the last request ended: "no", "unsupported", "borrow"
    unsupported,    \* what cannot be computed: an instruction or a callee is unimplemented!
    asked           \* history: what the user asked for

vars == <<filled, stack, held, panic, unsupported, asked>>

(* A closure: what it computes, and which of its needs comes next.         *)
Frame == [cache : Cache, next : 1..3]

MayPanic == {c \in Cache : c[1] \in {"call_graph", "control_flow_graph"}}

TypeOK ==
    /\ filled \subseteq Cache
    /\ stack \in Seq(Frame)
    /\ held \subseteq Cache
    /\ panic \in {"no", "unsupported", "borrow"}
    /\ unsupported \subseteq MayPanic
    /\ asked \subseteq Cache

Init ==
    /\ filled = {}
    /\ stack = <<>>
    /\ held = {}
    /\ panic = "no"
    /\ unsupported \in SUBSET MayPanic
    /\ asked = {}

-----------------------------------------------------------------------------
NeedsDominators(c) ==   \* mutant: the control dependence graph asks for both trees
    CASE c[1] = "call_graph" -> << <<"functions_by_type", c[2]>> >>
      [] c[1] \in {"dominator_tree", "postdominator_tree"} ->
           << <<"control_flow_graph", c[2]>> >>
      [] c[1] = "control_dep_graph" ->
           << <<"control_flow_graph", c[2]>>, <<"dominator_tree", c[2]>>,
              <<"postdominator_tree", c[2]>> >>
      [] OTHER -> <<>>

(* What the closure of an analysis asks for, in this order, before it      *)
(* computes; it has the Refs until it ends.                                *)
Needs(c) ==
    CASE c[1] = "call_graph" -> << <<"functions_by_type", c[2]>> >>
      [] c[1] \in {"dominator_tree", "postdominator_tree"} ->
           << <<"control_flow_graph", c[2]>> >>
      [] c[1] = "control_dep_graph" ->
           << <<"control_flow_graph", c[2]>>, <<"postdominator_tree", c[2]>> >>
      [] OTHER -> <<>>

Top == stack[Len(stack)]

(* The RefCells that are borrowed mutably: the RefMut is made before the   *)
(* closure is called, and lives until its value is stored.                 *)
Writing == {stack[i].cache : i \in DOMAIN stack}

(* Those that are borrowed, by the user or by a closure that is running.   *)
Reading ==
    held \cup UNION {{Needs(stack[i].cache)[k] : k \in 1..(stack[i].next - 1)} :
                        i \in DOMAIN stack}

(* Unwinding drops the borrows of the closures; the user may go on.        *)
Panic(reason) ==
    /\ stack' = <<>>
    /\ panic' = reason
    /\ UNCHANGED <<filled, held>>

(* A Ref is returned, to the closure below or to the user.                 *)
Return(c, callers) ==
    IF callers = <<>>
    THEN /\ stack' = <<>>
         /\ held' = held \cup {c}
    ELSE /\ stack' = [callers EXCEPT ![Len(callers)].next = @ + 1]
         /\ UNCHANGED held

-----------------------------------------------------------------------------
GetAlwaysWrites(c) ==   \* mutant: need_mutable_borrow is always true
    IF c \in Writing \/ c \in Reading THEN Panic("borrow")
    ELSE /\ stack' = Append(stack, [cache |-> c, next |-> 1])
         /\ panic' = "no"
         /\ UNCHANGED <<filled, held>>

GetLocksEarly(c) ==     \* mutant: borrow_mut before is_none is known
    IF c \in Writing \/ c \in Reading THEN Panic("borrow")
    ELSE IF c \in filled
    THEN Return(c, stack) /\ panic' = "no" /\ UNCHANGED filled
    ELSE /\ stack' = Append(stack, [cache |-> c, next |-> 1])
         /\ panic' = "no"
         /\ UNCHANGED <<filled, held>>

(* SimpleCache::get_or_insert_with up to the call of its closure: look     *)
(* whether there is a value, and borrow mutably only if not.               *)
Get(c) ==
    IF c \in Writing THEN Panic("borrow")
    ELSE IF c \in filled
    THEN Return(c, stack) /\ panic' = "no" /\ UNCHANGED filled
    ELSE IF c \in Reading THEN Panic("borrow")
    ELSE /\ stack' = Append(stack, [cache |-> c, next |-> 1])
         /\ panic' = "no"
         /\ UNCHANGED <<filled, held>>

Request(c) ==
    /\ stack = <<>>
    /\ asked' = asked \cup {c}
    /\ Get(c)
    /\ UNCHANGED unsupported

(* The closure asks for the next analysis it needs.                        *)
AskNext ==
    /\ stack # <<>> /\ Top.next <= Len(Needs(Top.cache))
    /\ Get(Needs(Top.cache)[Top.next])
    /\ UNCHANGED <<unsupported, asked>>

(* The closure has what it needs.  Its value is stored, the RefMut and the *)
(* closure's own Refs are dropped, and the caller gets a Ref.              *)
Compute ==
    /\ stack # <<>> /\ Top.next > Len(Needs(Top.cache))
    /\ IF Top.cache \in unsupported THEN Panic("unsupported")
       ELSE /\ filled' = filled \cup {Top.cache}
            /\ Return(Top.cache, SubSeq(stack, 1, Len(stack) - 1))
            /\ UNCHANGED panic
    /\ UNCHANGED <<unsupported, asked>>

DropRef(c) ==
    /\ stack = <<>> /\ c \in held
    /\ held' = held \ {c}
    /\ UNCHANGED <<filled, stack, panic, unsupported, asked>>

Next ==
    \/ \E c \in Cache : Request(c) \/ DropRef(c)
    \/ AskNext
    \/ Compute

Spec == Init /\ [][Next]_vars

-----------------------------------------------------------------------------
(* "future users can also borrow immutably using this function (even while *)
(* this borrow is still outstanding)": whatever Refs a user keeps, and     *)
(* after any panic, no request finds a RefCell borrowed in its way, and no *)
(* analysis asks, directly or through others, for itself.                  *)
NoBorrowPanic == panic # "borrow"

(* A value that was computed stays, and is not computed a second time:     *)
(* not when several analyses need it, nor when one of them panics after    *)
(* it was made.                                                            *)
FilledForGood ==
    [][filled \subseteq filled' /\ filled' \cap {stack'[i].cache : i \in DOMAIN stack'} = {}]_vars

(* "individual analyses will be computed lazily on demand": what is there  *)
(* was asked for, or is an input of something that was.                    *)
OnlyOnDemand ==
    \A c \in filled :
        \/ c \in asked
        \/ c[1] = "functions_by_type" /\ <<"call_graph", c[2]>> \in asked
        \/ /\ c[1] = "control_flow_graph"
           /\ \E k \in {"dominator_tree", "postdominator_tree", "control_dep_graph"} :
                 <<k, c[2]>> \in asked
        \/ c[1] = "postdominator_tree" /\ <<"control_dep_graph", c[2]>> \in asked
=============================================================================
