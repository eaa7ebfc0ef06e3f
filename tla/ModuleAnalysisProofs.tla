------------------------ MODULE ModuleAnalysisProofs ------------------------
(***************************************************************************)
(* No request for an analysis finds a RefCell borrowed in its way, for any *)
(* number of modules and functions.  The analyses have ranks, and each     *)
(* needs only those of lower rank: so the closures on the stack are of     *)
(* falling rank, none asks for a cache that is being filled, and a cache   *)
(* that anyone reads is a filled one, which is not borrowed mutably again. *)
(***************************************************************************)
EXTENDS ModuleAnalysis, TLAPS

Rank(c) ==
    IF c[1] = "control_dep_graph" THEN 2
    ELSE IF c[1] \in {"call_graph", "dominator_tree", "postdominator_tree"} THEN 1
    ELSE 0

(* A closure is at work on a cache that is empty, and is not past its end. *)
AtWork(f) == f.cache \notin filled /\ f.next <= Len(Needs(f.cache)) + 1

Falling(s) == \A i, j \in DOMAIN s : i < j => Rank(s[j].cache) < Rank(s[i].cache)

(* Each closure but the last waits for what the next one computes.         *)
Chained(s) ==
    \A i \in 1..(Len(s) - 1) : /\ s[i].next <= Len(Needs(s[i].cache))
                              /\ Needs(s[i].cache)[s[i].next] = s[i + 1].cache

ReadAreFilled ==
    /\ held \subseteq filled
    /\ \A i \in DOMAIN stack : \A k \in 1..(stack[i].next - 1) :
          Needs(stack[i].cache)[k] \in filled

Inv ==
    /\ TypeOK /\ NoBorrowPanic
    /\ \A i \in DOMAIN stack : AtWork(stack[i])
    /\ Falling(stack) /\ Chained(stack)
    /\ ReadAreFilled

-----------------------------------------------------------------------------
(* What an analysis needs is of a lower rank, and of its own module or     *)
(* function.                                                               *)
LEMMA NeedsFacts ==
    ASSUME NEW c \in Cache
    PROVE  /\ Needs(c) \in Seq(Cache) /\ Len(Needs(c)) \in 0..2
           /\ \A k \in 1..Len(Needs(c)) :
                 Needs(c)[k] \in Cache /\ Rank(Needs(c)[k]) < Rank(c)
  <1>1. CASE c[1] \in {"call_graph", "functions_by_type"}
    <2>1. c[2] \in Scope
      BY <1>1 DEF Cache
    <2>2. <<"functions_by_type", c[2]>> \in Cache
      BY <2>1 DEF Cache
    <2>3. CASE c[1] = "call_graph"
      <3>1. Needs(c) = << <<"functions_by_type", c[2]>> >>
        BY <2>3 DEF Needs
      <3> QED
        BY <2>2, <2>3, <3>1 DEF Rank
    <2>4. CASE c[1] = "functions_by_type"
      <3>1. Needs(c) = <<>>
        BY <2>4 DEF Needs
      <3> QED
        BY <3>1
    <2> QED
      BY <1>1, <2>3, <2>4
  <1>2. CASE c[1] \in {"control_flow_graph", "dominator_tree", "postdominator_tree",
                       "control_dep_graph"}
    <2>1. c[2] \in Body
      BY <1>2 DEF Cache
    <2>2. /\ <<"control_flow_graph", c[2]>> \in Cache
          /\ <<"postdominator_tree", c[2]>> \in Cache
      BY <2>1 DEF Cache
    <2>3. CASE c[1] \in {"dominator_tree", "postdominator_tree"}
      <3>1. Needs(c) = << <<"control_flow_graph", c[2]>> >>
        BY <2>3 DEF Needs
      <3> QED
        BY <2>2, <2>3, <3>1 DEF Rank
    <2>4. CASE c[1] = "control_dep_graph"
      <3>1. Needs(c) = << <<"control_flow_graph", c[2]>>, <<"postdominator_tree", c[2]>> >>
        BY <2>4 DEF Needs
      <3> QED
        BY <2>2, <2>4, <3>1 DEF Rank
    <2>5. CASE c[1] = "control_flow_graph"
      <3>1. Needs(c) = <<>>
        BY <2>5 DEF Needs
      <3> QED
        BY <3>1
    <2> QED
      BY <1>2, <2>3, <2>4, <2>5
  <1> QED
    BY <1>1, <1>2 DEF Cache

LEMMA InReading ==
    ASSUME NEW c, c \in Reading
    PROVE  c \in held \/ \E i \in DOMAIN stack : \E k \in 1..(stack[i].next - 1) :
                            c = Needs(stack[i].cache)[k]
  BY DEF Reading

(* The closures below the innermost one.                                   *)
LEMMA FrontOf ==
    ASSUME NEW S, NEW s \in Seq(S), s # <<>>
    PROVE  LET front == SubSeq(s, 1, Len(s) - 1)
           IN  /\ front \in Seq(S) /\ Len(front) = Len(s) - 1 /\ Len(front) <= Len(s)
               /\ DOMAIN front = 1..(Len(s) - 1)
               /\ \A i \in DOMAIN front : i \in DOMAIN s /\ front[i] = s[i]
  <1>1. Len(s) \in Nat /\ Len(s) # 0
    OBVIOUS
  <1> DEFINE n == Len(s) - 1
             front == SubSeq(s, 1, n)
  <1>2. n \in Nat /\ n <= Len(s)
    BY <1>1
  <1> HIDE DEF n
  <1>3. front \in Seq(S) /\ Len(front) = n
    BY <1>2
  <1>4. \A i \in 1..n : i \in DOMAIN s /\ front[i] = s[i]
    BY <1>2
  <1> QED
    BY <1>2, <1>3, <1>4 DEF n

-----------------------------------------------------------------------------
(* A panic drops every borrow but the user's.                              *)
LEMMA PanicInv ==
    ASSUME Inv, NEW reason \in {"no", "unsupported"}, Panic(reason),
           UNCHANGED unsupported, asked' \subseteq Cache
    PROVE  Inv'
  <1>1. TypeOK'
    BY DEF Inv, TypeOK, Panic
  <1>2. DOMAIN stack' = {} /\ held' = held /\ filled' = filled /\ panic' # "borrow"
    BY DEF Panic
  <1> QED
    BY <1>1, <1>2 DEF Inv, NoBorrowPanic, AtWork, Falling, Chained, ReadAreFilled

(* A Ref of a filled cache goes to a closure that asked for it, or to the  *)
(* user.                                                                   *)
LEMMA ReturnInv ==
    ASSUME Inv, NEW c \in Cache, NEW callers,
           \/ callers = stack
           \/ stack # <<>> /\ callers = SubSeq(stack, 1, Len(stack) - 1),
           \A i \in DOMAIN callers : callers[i].cache \notin filled',
           filled \subseteq filled', filled' \subseteq Cache, c \in filled',
           callers # <<>> =>
              LET f == callers[Len(callers)]
              IN  f.next <= Len(Needs(f.cache)) /\ Needs(f.cache)[f.next] = c,
           Return(c, callers), panic' \in {"no", "unsupported"},
           UNCHANGED unsupported, asked' \subseteq Cache
    PROVE  Inv'
  <1>1. /\ callers \in Seq(Frame) /\ Len(callers) <= Len(stack)
        /\ \A i \in DOMAIN callers : i \in DOMAIN stack /\ callers[i] = stack[i]
    <2>1. stack \in Seq(Frame)
      BY DEF Inv, TypeOK
    <2>2. CASE callers = stack
      BY <2>1, <2>2
    <2>3. CASE stack # <<>> /\ callers = SubSeq(stack, 1, Len(stack) - 1)
      BY <2>1, <2>3, FrontOf
    <2> QED
      BY <2>2, <2>3
  <1>2. CASE callers = <<>>
    <2>1. stack' = <<>> /\ held' = held \cup {c}
      BY <1>2 DEF Return
    <2>2. TypeOK'
      BY <2>1 DEF Inv, TypeOK
    <2>3. DOMAIN stack' = {} /\ Len(stack') = 0
      BY <2>1
    <2>4. /\ \A i \in DOMAIN stack' : AtWork(stack[i])'
          /\ Falling(stack') /\ Chained(stack')
      BY <2>3 DEF Falling, Chained
    <2>5. ReadAreFilled'
      BY <2>1, <2>3 DEF Inv, ReadAreFilled
    <2> QED
      BY <2>2, <2>4, <2>5 DEF Inv, NoBorrowPanic
  <1>3. CASE callers # <<>>
    <2> DEFINE n == Len(callers)
               f == callers[n]
    <2>1. n \in DOMAIN callers /\ f \in Frame /\ f.cache \in Cache /\ f.next \in 1..3
      <3>1. n \in DOMAIN callers /\ f \in Frame
        BY <1>1, <1>3
      <3> QED
        BY <3>1 DEF Frame
    <2>2. f.next + 1 \in 1..3 /\ f.next + 1 <= Len(Needs(f.cache)) + 1
      <3>1. f.next <= Len(Needs(f.cache)) /\ Needs(f.cache)[f.next] = c
        BY <1>3
      <3>2. Len(Needs(f.cache)) \in 0..2
        BY <2>1, NeedsFacts
      <3> QED
        BY <2>1, <3>1, <3>2
    <2>3. stack' = [callers EXCEPT ![n].next = @ + 1] /\ held' = held
      BY <1>3 DEF Return
    <2>4. /\ stack' \in Seq(Frame) /\ DOMAIN stack' = DOMAIN callers
          /\ \A i \in DOMAIN callers : /\ stack'[i].cache = callers[i].cache
                                       /\ i # n => stack'[i].next = callers[i].next
          /\ stack'[n].next = f.next + 1
      <3>1. stack' = [callers EXCEPT ![n] = [f EXCEPT !.next = f.next + 1]]
        BY <1>1, <2>1, <2>3
      <3>2. [f EXCEPT !.next = f.next + 1] \in Frame
        BY <2>1, <2>2 DEF Frame
      <3>3. /\ [f EXCEPT !.next = f.next + 1].cache = f.cache
            /\ [f EXCEPT !.next = f.next + 1].next = f.next + 1
        BY <2>1 DEF Frame
      <3> DEFINE g == [f EXCEPT !.next = f.next + 1]
      <3> HIDE DEF g
      <3>4. stack' = [callers EXCEPT ![n] = g]
        BY <3>1 DEF g
      <3>5. g \in Frame /\ g.cache = f.cache /\ g.next = f.next + 1
        BY <3>2, <3>3 DEF g
      <3>6. stack' \in Seq(Frame) /\ DOMAIN stack' = DOMAIN callers
        BY <1>1, <2>1, <3>4, <3>5
      <3>7. stack'[n] = g /\ \A i \in DOMAIN callers : i # n => stack'[i] = callers[i]
        BY <2>1, <3>4
      <3> QED
        BY <2>1, <3>5, <3>6, <3>7
    <2>5. TypeOK'
      BY <2>3, <2>4 DEF Inv, TypeOK
    <2>6. \A i \in DOMAIN stack' : AtWork(stack[i])'
      <3>1. ASSUME NEW i \in DOMAIN callers
            PROVE  callers[i].cache \notin filled'
                   /\ callers[i].next <= Len(Needs(callers[i].cache)) + 1
        BY <1>1 DEF Inv, AtWork
      <3>2. ASSUME NEW i \in DOMAIN callers
            PROVE  stack'[i].cache \notin filled'
                   /\ stack'[i].next <= Len(Needs(stack'[i].cache)) + 1
        BY <2>2, <2>4, <3>1
      <3> QED
        BY <2>4, <3>2 DEF AtWork
    <2>7. Falling(stack')
      BY <1>1, <2>4 DEF Inv, Falling
    <2>9. Chained(stack')
      <3>1. Len(stack') = n /\ n \in Nat
        BY <1>1, <1>3, <2>4
      <3>2. ASSUME NEW i \in 1..(n - 1)
            PROVE  /\ i \in DOMAIN callers /\ i + 1 \in DOMAIN callers
                   /\ i # n /\ i \in 1..(Len(stack) - 1)
        BY <1>1, <3>1
      <3>3. ASSUME NEW i \in 1..(n - 1)
            PROVE  /\ stack'[i].next <= Len(Needs(stack'[i].cache))
                   /\ Needs(stack'[i].cache)[stack'[i].next] = stack'[i + 1].cache
        <4>1. /\ stack[i].next <= Len(Needs(stack[i].cache))
              /\ Needs(stack[i].cache)[stack[i].next] = stack[i + 1].cache
          BY <3>2 DEF Inv, Chained
        <4>2. stack[i] = callers[i] /\ stack[i + 1] = callers[i + 1]
          BY <1>1, <3>2
        <4>3. /\ stack'[i].cache = callers[i].cache /\ stack'[i].next = callers[i].next
              /\ stack'[i + 1].cache = callers[i + 1].cache
          BY <2>4, <3>2
        <4> QED
          BY <4>1, <4>2, <4>3
      <3> QED
        BY <3>1, <3>3 DEF Chained
    <2>8. ASSUME NEW i \in DOMAIN stack', NEW k \in 1..(stack'[i].next - 1)
          PROVE  Needs(stack'[i].cache)[k] \in filled'
      <3>1. CASE k \in 1..(callers[i].next - 1)
        BY <1>1, <2>4, <3>1 DEF Inv, ReadAreFilled
      <3>2. CASE k \notin 1..(callers[i].next - 1)
        <4>1. i = n /\ k = f.next
          BY <1>1, <2>1, <2>4, <3>2
        <4> QED
          BY <1>3, <2>4, <4>1
      <3> QED
        BY <3>1, <3>2
    <2> QED
      BY <2>3, <2>5, <2>6, <2>7, <2>8, <2>9 DEF Inv, NoBorrowPanic, ReadAreFilled
  <1> QED
    BY <1>2, <1>3

(* The request of a cache that is not being filled, from a closure of      *)
(* higher rank or the user.                                                *)
LEMMA GetInv ==
    ASSUME Inv, NEW c \in Cache, Get(c), UNCHANGED unsupported, asked' \subseteq Cache,
           \A i \in DOMAIN stack : Rank(c) < Rank(stack[i].cache),
           stack # <<>> => /\ Top.next <= Len(Needs(Top.cache))
                           /\ Needs(Top.cache)[Top.next] = c
    PROVE  Inv' /\ filled' = filled
  <1>1. c \notin Writing
    BY DEF Writing, Rank
  <1>2. CASE c \in filled
    <2>1. Return(c, stack) /\ panic' = "no" /\ filled' = filled
      BY <1>1, <1>2 DEF Get
    <2> QED
      BY <1>2, <2>1, ReturnInv DEF Inv, TypeOK, AtWork, Top
  <1>3. CASE c \notin filled
    <2>1. c \notin Reading
      BY <1>3, InReading DEF Inv, ReadAreFilled
    <2> DEFINE f == [cache |-> c, next |-> 1]
    <2>2. /\ stack' = Append(stack, f) /\ panic' = "no"
          /\ filled' = filled /\ held' = held
      BY <1>1, <1>3, <2>1 DEF Get
    <2>3. f \in Frame
      BY DEF Frame
    <2>4. /\ stack' \in Seq(Frame) /\ Len(stack') = Len(stack) + 1
          /\ stack'[Len(stack) + 1] = f
          /\ \A i \in DOMAIN stack' : i = Len(stack) + 1 \/
                (i \in DOMAIN stack /\ stack'[i] = stack[i])
      BY <2>2, <2>3 DEF Inv, TypeOK
    <2>5. AtWork(f)'
      BY <1>3, <2>2, NeedsFacts DEF AtWork
    <2>6. \A i \in DOMAIN stack' : AtWork(stack[i])'
      BY <2>2, <2>4, <2>5 DEF Inv, AtWork
    <2>7. Falling(stack')
      BY <2>4 DEF Inv, TypeOK, Falling
    <2>9. Chained(stack')
      BY <2>2, <2>4 DEF Inv, TypeOK, Chained, Top
    <2>8. ReadAreFilled'
      BY <2>2, <2>4 DEF Inv, ReadAreFilled
    <2> QED
      BY <2>2, <2>4, <2>6, <2>7, <2>8, <2>9 DEF Inv, TypeOK, NoBorrowPanic
  <1> QED
    BY <1>2, <1>3

LEMMA InitInv == Init => Inv
  BY DEF Init, Inv, TypeOK, NoBorrowPanic, AtWork, Falling, Chained, ReadAreFilled, Frame

LEMMA NextInv == Inv /\ [Next]_vars => Inv' /\ filled \subseteq filled'
  <1> SUFFICES ASSUME Inv, [Next]_vars PROVE Inv' /\ filled \subseteq filled'
    OBVIOUS
  <1>1. ASSUME NEW c \in Cache, Request(c) PROVE Inv' /\ filled \subseteq filled'
    BY <1>1, GetInv DEF Request, Inv, TypeOK
  <1>2. ASSUME NEW c \in Cache, DropRef(c) PROVE Inv' /\ filled \subseteq filled'
    BY <1>2 DEF DropRef, Inv, TypeOK, NoBorrowPanic, AtWork, Falling, Chained, ReadAreFilled
  <1>3. ASSUME AskNext PROVE Inv' /\ filled \subseteq filled'
    <2> DEFINE c == Needs(Top.cache)[Top.next]
    <2>1. /\ stack # <<>> /\ Top.next <= Len(Needs(Top.cache)) /\ Get(c)
          /\ UNCHANGED <<unsupported, asked>>
      BY <1>3 DEF AskNext
    <2>2. Len(stack) \in DOMAIN stack /\ Top \in Frame
      BY <2>1 DEF Inv, TypeOK, Top
    <2>3. Top.cache \in Cache /\ Top.next \in 1..3
      BY <2>2 DEF Frame
    <2>4. c \in Cache /\ Rank(c) < Rank(Top.cache)
      BY <2>1, <2>3, NeedsFacts
    <2>5. \A i \in DOMAIN stack : i = Len(stack) \/ Rank(Top.cache) < Rank(stack[i].cache)
      BY <2>2 DEF Inv, TypeOK, Falling, Top
    <2>6. \A i \in DOMAIN stack : Rank(c) < Rank(stack[i].cache)
      BY <2>2, <2>4, <2>5 DEF Top, Rank
    <2>7. asked' \subseteq Cache
      BY <2>1 DEF Inv, TypeOK
    <2> QED
      BY <2>1, <2>4, <2>6, <2>7, GetInv
  <1>4. ASSUME Compute PROVE Inv' /\ filled \subseteq filled'
    <2>1. Len(stack) \in DOMAIN stack /\ Top \in Frame /\ Top = stack[Len(stack)]
      BY <1>4 DEF Compute, Inv, TypeOK, Top
    <2>2. Top.cache \in Cache /\ Top.next \in 1..3
      BY <2>1 DEF Frame
    <2>3. asked' \subseteq Cache /\ unsupported' = unsupported
      BY <1>4 DEF Compute, Inv, TypeOK
    <2>4. CASE Top.cache \in unsupported
      <3>1. Panic("unsupported")
        BY <1>4, <2>4 DEF Compute
      <3> QED
        BY <2>3, <3>1, PanicInv DEF Panic
    <2>5. CASE Top.cache \notin unsupported
      <3> DEFINE callers == SubSeq(stack, 1, Len(stack) - 1)
      <3>1. /\ filled' = filled \cup {Top.cache} /\ Return(Top.cache, callers)
            /\ panic' = panic /\ stack # <<>>
        BY <1>4, <2>5 DEF Compute
      <3>2. \A i \in DOMAIN callers : /\ i \in DOMAIN stack /\ i < Len(stack)
                                      /\ callers[i] = stack[i]
        BY <2>1 DEF Inv, TypeOK
      <3>3. \A i \in DOMAIN callers : callers[i].cache \notin filled'
        BY <2>1, <3>1, <3>2 DEF Inv, AtWork, Falling, Rank
      <3>4. callers # <<>> =>
              LET f == callers[Len(callers)]
              IN  f.next <= Len(Needs(f.cache)) /\ Needs(f.cache)[f.next] = Top.cache
        BY <2>1, <3>2 DEF Inv, TypeOK, Chained
      <3>5. filled' \subseteq Cache /\ panic' \in {"no", "unsupported"}
        BY <2>2, <3>1 DEF Inv, TypeOK, NoBorrowPanic
      <3> QED
        BY <2>2, <2>3, <3>1, <3>3, <3>4, <3>5, ReturnInv
    <2> QED
      BY <2>4, <2>5
  <1>5. CASE UNCHANGED vars
    BY <1>5 DEF vars, Inv, TypeOK, NoBorrowPanic, AtWork, Falling, Chained, ReadAreFilled
  <1> QED
    BY <1>1, <1>2, <1>3, <1>4, <1>5 DEF Next

-----------------------------------------------------------------------------
(* An analysis that was asked for, or that one of those needs.             *)
Wanted(c) ==
    \/ c \in asked
    \/ c[1] = "functions_by_type" /\ <<"call_graph", c[2]>> \in asked
    \/ /\ c[1] = "control_flow_graph"
       /\ \E k \in {"dominator_tree", "postdominator_tree", "control_dep_graph"} :
             <<k, c[2]>> \in asked
    \/ c[1] = "postdominator_tree" /\ <<"control_dep_graph", c[2]>> \in asked

(* What is being computed is on demand as well as what has been.           *)
Demanded == OnlyOnDemand /\ \A i \in DOMAIN stack : Wanted(stack[i].cache)

(* What the closure of a wanted analysis asks for is wanted itself.        *)
LEMMA NeedsWanted ==
    ASSUME NEW c \in Cache, Wanted(c), NEW k \in 1..Len(Needs(c))
    PROVE  Wanted(Needs(c)[k])
  <1>1. c = <<c[1], c[2]>>
    BY DEF Cache
  <1>2. CASE c[1] = "call_graph"
    <2>1. Needs(c) = << <<"functions_by_type", c[2]>> >>
      BY <1>2 DEF Needs
    <2>2. <<"call_graph", c[2]>> \in asked
      BY <1>1, <1>2 DEF Wanted
    <2> QED
      BY <2>1, <2>2 DEF Wanted
  <1>3. CASE c[1] \in {"dominator_tree", "postdominator_tree"}
    <2>1. Needs(c) = << <<"control_flow_graph", c[2]>> >>
      BY <1>3 DEF Needs
    <2>2. \E a \in {"dominator_tree", "postdominator_tree", "control_dep_graph"} :
             <<a, c[2]>> \in asked
      BY <1>1, <1>3 DEF Wanted
    <2> QED
      BY <2>1, <2>2 DEF Wanted
  <1>4. CASE c[1] = "control_dep_graph"
    <2>1. Needs(c) = << <<"control_flow_graph", c[2]>>, <<"postdominator_tree", c[2]>> >>
      BY <1>4 DEF Needs
    <2>2. <<"control_dep_graph", c[2]>> \in asked
      BY <1>1, <1>4 DEF Wanted
    <2>3. k = 1 \/ k = 2
      BY <2>1
    <2> QED
      BY <2>1, <2>2, <2>3 DEF Wanted
  <1>5. CASE c[1] \in {"functions_by_type", "control_flow_graph"}
    <2>1. Needs(c) = <<>>
      BY <1>5 DEF Needs
    <2> QED
      BY <2>1
  <1> QED
    BY <1>2, <1>3, <1>4, <1>5 DEF Cache

(* A Ref that is returned changes no closure's cache.                      *)
LEMMA ReturnCaches ==
    ASSUME NEW c, NEW callers \in Seq(Frame), Return(c, callers)
    PROVE  \A i \in DOMAIN stack' :
              i \in DOMAIN callers /\ stack'[i].cache = callers[i].cache
  <1>1. CASE callers = <<>>
    BY <1>1 DEF Return
  <1>2. CASE callers # <<>>
    <2> DEFINE n == Len(callers)
               f == callers[n]
               g == [f EXCEPT !.next = f.next + 1]
    <2>1. n \in DOMAIN callers /\ f \in Frame
      BY <1>2
    <2>2. stack' = [callers EXCEPT ![n] = g]
      BY <1>2, <2>1 DEF Return
    <2>3. g.cache = f.cache
      BY <2>1 DEF Frame
    <2> HIDE DEF g
    <2>4. /\ DOMAIN stack' = DOMAIN callers /\ stack'[n] = g
          /\ \A i \in DOMAIN callers : i # n => stack'[i] = callers[i]
      BY <2>1, <2>2
    <2> QED
      BY <2>3, <2>4
  <1> QED
    BY <1>1, <1>2

(* A request makes no value and starts at most the closure of what it is   *)
(* for.                                                                    *)
LEMMA GetStarts ==
    ASSUME TypeOK, NEW c, Get(c)
    PROVE  /\ filled' = filled
           /\ \A i \in DOMAIN stack' :
                 \/ stack'[i].cache = c
                 \/ i \in DOMAIN stack /\ stack'[i].cache = stack[i].cache
  <1>1. \/ Panic("borrow")
        \/ Return(c, stack) /\ filled' = filled
        \/ stack' = Append(stack, [cache |-> c, next |-> 1]) /\ filled' = filled
    BY DEF Get
  <1>2. CASE Panic("borrow")
    BY <1>2 DEF Panic
  <1>3. CASE Return(c, stack) /\ filled' = filled
    BY <1>3, ReturnCaches DEF TypeOK
  <1>4. CASE stack' = Append(stack, [cache |-> c, next |-> 1]) /\ filled' = filled
    BY <1>4 DEF TypeOK
  <1> QED
    BY <1>1, <1>2, <1>3, <1>4

LEMMA NextDemanded == Inv /\ Demanded /\ [Next]_vars => Demanded'
  <1> SUFFICES ASSUME Inv, Demanded, [Next]_vars PROVE Demanded'
    OBVIOUS
  <1>1. asked \subseteq asked'
    BY DEF Next, Request, DropRef, AskNext, Compute, vars
  <1>2. \A c : Wanted(c) => Wanted(c)'
    BY <1>1 DEF Wanted
  <1>3. SUFFICES /\ \A c \in filled' : Wanted(c)'
                 /\ \A i \in DOMAIN stack' : Wanted(stack[i].cache)'
    BY DEF Demanded, OnlyOnDemand, Wanted
  <1>4. /\ \A c \in filled : Wanted(c)
        /\ \A i \in DOMAIN stack : Wanted(stack[i].cache)
    BY DEF Demanded, OnlyOnDemand, Wanted
  <1>5. ASSUME NEW c, Get(c), Wanted(c)'
        PROVE  /\ \A a \in filled' : Wanted(a)'
               /\ \A i \in DOMAIN stack' : Wanted(stack[i].cache)'
    BY <1>2, <1>4, <1>5, GetStarts DEF Inv
  <1>6. ASSUME NEW c \in Cache, Request(c) PROVE Wanted(c)' /\ Get(c)
    BY <1>6 DEF Request, Wanted
  <1>7. CASE AskNext
    <2>1. stack # <<>> /\ Top.next <= Len(Needs(Top.cache)) /\ Get(Needs(Top.cache)[Top.next])
      BY <1>7 DEF AskNext
    <2>2. Len(stack) \in DOMAIN stack /\ Top \in Frame
      BY <2>1 DEF Inv, TypeOK, Top
    <2>3. Top.cache \in Cache /\ Top.next \in 1..3
      BY <2>2 DEF Frame
    <2>4. Wanted(Top.cache)
      BY <1>4, <2>2 DEF Top
    <2>5. Top.next \in 1..Len(Needs(Top.cache))
      BY <2>1, <2>3, NeedsFacts
    <2> QED
      BY <1>2, <1>5, <2>1, <2>3, <2>4, <2>5, NeedsWanted
  <1>8. CASE Compute
    <2>1. Len(stack) \in DOMAIN stack /\ Top = stack[Len(stack)]
      BY <1>8 DEF Compute, Inv, TypeOK, Top
    <2>2. filled' \subseteq filled \cup {Top.cache}
      BY <1>8 DEF Compute, Panic
    <2>3. \A i \in DOMAIN stack' : i \in DOMAIN stack /\ stack'[i].cache = stack[i].cache
      <3> DEFINE callers == SubSeq(stack, 1, Len(stack) - 1)
      <3>1. callers \in Seq(Frame) /\ \A i \in DOMAIN callers :
               i \in DOMAIN stack /\ callers[i] = stack[i]
        BY <2>1 DEF Inv, TypeOK
      <3>2. stack' = <<>> \/ Return(Top.cache, callers)
        BY <1>8 DEF Compute, Panic
      <3> HIDE DEF callers
      <3>3. CASE Return(Top.cache, callers)
        <4>1. \A i \in DOMAIN stack' :
                 i \in DOMAIN callers /\ stack'[i].cache = callers[i].cache
          BY <3>1, <3>3, ReturnCaches
        <4> QED
          BY <3>1, <4>1
      <3> QED
        BY <3>2, <3>3
    <2> QED
      BY <1>2, <1>4, <2>1, <2>2, <2>3
  <1>9. CASE UNCHANGED <<filled, stack>>
    BY <1>2, <1>4, <1>9
  <1> QED
    BY <1>5, <1>6, <1>7, <1>8, <1>9 DEF Next, DropRef, vars

-----------------------------------------------------------------------------
THEOREM Invariance == Spec => []Inv
  BY InitInv, NextInv, PTL DEF Spec

(* Type correctness of the caches and of the closures that fill them.      *)
THEOREM TypeCorrect == Spec => []TypeOK
  BY Invariance, PTL DEF Inv

(* Whatever is asked for, in any order, with any Refs kept and after any   *)
(* other panic, no RefCell is found borrowed.                              *)
THEOREM NeverBorrowed == Spec => []NoBorrowPanic
  BY Invariance, PTL DEF Inv

(* No analysis is computed that nobody asked for and no asked one needs.   *)
THEOREM OnDemand == Spec => []OnlyOnDemand
  <1>1. Init => Demanded
    BY DEF Init, Demanded, OnlyOnDemand
  <1> QED
    BY <1>1, Invariance, NextDemanded, PTL DEF Spec, Demanded

(* A computed value is neither dropped nor computed again.                 *)
THEOREM ComputedOnce == Spec => FilledForGood
  <1>1. Inv /\ [Next]_vars =>
           [filled \subseteq filled'
              /\ filled' \cap {stack'[i].cache : i \in DOMAIN stack'} = {}]_vars
    <2>1. Inv' => filled' \cap {stack'[i].cache : i \in DOMAIN stack'} = {}
      BY DEF Inv, AtWork
    <2> QED
      BY <2>1, NextInv
  <1> QED
    BY <1>1, Invariance, PTL DEF Spec, FilledForGood
=============================================================================
