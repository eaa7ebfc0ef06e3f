--------------------------- MODULE FlowGraphProofs ---------------------------
(***************************************************************************)
(* Reachability and dominance, by closed sets: for any graph, the          *)
(* dominators of a node that can be reached are a chain, and in a finite   *)
(* one exactly one of them is immediate.                                   *)
(***************************************************************************)
EXTENDS FlowGraph, FiniteSetTheorems, WellFoundedInduction, TLAPS

Linked(edges, m, n) == \E e \in edges : e[1] = m /\ e[2] = n

Closed(edges, S) == \A m, n : Linked(edges, m, n) /\ m \in S => n \in S

ClosedBut(edges, S, a) == \A m, n : Linked(edges, m, n) /\ m \in S => n = a \/ n \in S

LEMMA LinkedFacts ==
    ASSUME NEW edges, NEW m, NEW n
    PROVE  /\ n \in Succs(edges, m) <=> Linked(edges, m, n)
           /\ m \in Preds(edges, n) <=> Linked(edges, m, n)
           /\ Linked(Reversed(edges), n, m) <=> Linked(edges, m, n)
           /\ Linked(edges, m, n) => m \in Nodes(edges) /\ n \in Nodes(edges)
  <1>1. n \in Succs(edges, m) <=> Linked(edges, m, n)
    BY DEF Succs, Linked
  <1>2. m \in Preds(edges, n) <=> Linked(edges, m, n)
    BY DEF Preds, Linked
  <1>3. Linked(Reversed(edges), n, m) <=> Linked(edges, m, n)
    <2>1. ASSUME NEW e PROVE <<e[2], e[1]>>[1] = e[2] /\ <<e[2], e[1]>>[2] = e[1]
      OBVIOUS
    <2> QED
      BY <2>1 DEF Reversed, Linked
  <1>4. Linked(edges, m, n) => m \in Nodes(edges) /\ n \in Nodes(edges)
    BY DEF Nodes, Linked
  <1> QED
    BY <1>1, <1>2, <1>3, <1>4

EdgesFrom(x, F) == {<<x, y>> : y \in F}

LEMMA LinkedFrom ==
    ASSUME NEW x, NEW F, NEW m, NEW n
    PROVE  Linked(EdgesFrom(x, F), m, n) <=> m = x /\ n \in F
  <1> DEFINE E == EdgesFrom(x, F)
  <1>1. ASSUME Linked(E, m, n) PROVE m = x /\ n \in F
    <2>1. PICK e \in E : e[1] = m /\ e[2] = n
      BY <1>1 DEF Linked
    <2>2. PICK y \in F : e = <<x, y>>
      BY DEF EdgesFrom
    <2> QED
      BY <2>1, <2>2
  <1>2. ASSUME m = x, n \in F PROVE Linked(E, m, n)
    <2>1. <<x, n>> \in E /\ <<x, n>>[1] = x /\ <<x, n>>[2] = n
      BY <1>2 DEF EdgesFrom
    <2> HIDE DEF E
    <2> QED
      BY <1>2, <2>1 DEF Linked
  <1> QED
    BY <1>1, <1>2

(* Reaches and Dominates, with the bounds on their sets taken away.        *)
LEMMA ReachesIntro ==
    ASSUME NEW edges, NEW from, NEW to,
           \A S : from \in S /\ Closed(edges, S) => to \in S
    PROVE  Reaches(edges, from, to)
  BY DEF Reaches, Closed, Linked

LEMMA ReachesElim ==
    ASSUME NEW edges, NEW from, NEW to, Reaches(edges, from, to),
           NEW S, from \in S, Closed(edges, S)
    PROVE  to \in S
  <1> DEFINE T == S \cap (Nodes(edges) \cup {from, to})
  <1>1. T \in SUBSET (Nodes(edges) \cup {from, to}) /\ from \in T
    OBVIOUS
  <1>2. \A e \in edges : e[1] \in T => e[2] \in T
    BY DEF Closed, Linked, Nodes
  <1>3. to \in T
    BY <1>1, <1>2 DEF Reaches
  <1> QED
    BY <1>3

LEMMA DominatesIntro ==
    ASSUME NEW edges, NEW r, NEW a, NEW b,
           NEW S, r \in S, a \notin S, b \notin S, ClosedBut(edges, S, a)
    PROVE  Dominates(edges, r, a, b)
  <1> DEFINE T == S \cap (Nodes(edges) \cup {r})
  <1>1. T \in SUBSET ((Nodes(edges) \cup {r}) \ {a, b}) /\ r \in T
    OBVIOUS
  <1>2. \A e \in edges : e[1] \in T => e[2] \in T \cup {a}
    BY DEF ClosedBut, Linked, Nodes
  <1> QED
    BY <1>1, <1>2 DEF Dominates

LEMMA DominatesElim ==
    ASSUME NEW edges, NEW r, NEW a, NEW b, Dominates(edges, r, a, b), a # r, a # b
    PROVE  \E S : r \in S /\ a \notin S /\ b \notin S /\ ClosedBut(edges, S, a)
  <1>1. PICK S \in SUBSET ((Nodes(edges) \cup {r}) \ {a, b}) :
           r \in S /\ \A e \in edges : e[1] \in S => e[2] \in S \cup {a}
    BY DEF Dominates
  <1>2. ClosedBut(edges, S, a)
    BY <1>1 DEF ClosedBut, Linked
  <1> QED
    BY <1>1, <1>2

-----------------------------------------------------------------------------
LEMMA ReachesRefl ==
    ASSUME NEW edges, NEW x
    PROVE  Reaches(edges, x, x)
  BY DEF Reaches

LEMMA ReachesTrans ==
    ASSUME NEW edges, NEW x, NEW y, NEW z, Reaches(edges, x, y), Reaches(edges, y, z)
    PROVE  Reaches(edges, x, z)
  <1>1. ASSUME NEW S, x \in S, Closed(edges, S) PROVE z \in S
    <2>1. y \in S
      BY <1>1, ReachesElim
    <2> QED
      BY <1>1, <2>1, ReachesElim
  <1> QED
    BY <1>1, ReachesIntro

LEMMA ReachesEdge ==
    ASSUME NEW edges, NEW x, NEW y, Linked(edges, x, y)
    PROVE  Reaches(edges, x, y)
  BY ReachesIntro DEF Closed

(* What can be reached from x by one edge or more.                         *)
LEMMA ReachesMore ==
    ASSUME NEW edges, NEW x, NEW y, Reaches(edges, x, y), x # y
    PROVE  \E z : Linked(edges, x, z) /\ Reaches(edges, z, y)
  <1> DEFINE S == {x} \cup {m \in Nodes(edges) :
                              \E z : Linked(edges, x, z) /\ Reaches(edges, z, m)}
  <1>1. ASSUME NEW m, NEW n, Linked(edges, m, n), m \in S
        PROVE  n \in S
    <2>1. n \in Nodes(edges)
      BY <1>1, LinkedFacts
    <2>2. CASE m = x
      BY <1>1, <2>1, <2>2, ReachesRefl
    <2>3. CASE m # x
      <3>1. PICK z : Linked(edges, x, z) /\ Reaches(edges, z, m)
        BY <1>1, <2>3
      <3>2. Reaches(edges, z, n)
        BY <1>1, <3>1, ReachesEdge, ReachesTrans
      <3> QED
        BY <2>1, <3>1, <3>2
    <2> QED
      BY <2>2, <2>3
  <1>2. Closed(edges, S)
    BY <1>1 DEF Closed
  <1>3. y \in S
    <2> HIDE DEF S
    <2>1. x \in S
      BY DEF S
    <2> QED
      BY <1>2, <2>1, ReachesElim
  <1> QED
    BY <1>3

LEMMA ReversedHalf ==
    ASSUME NEW edges, NEW x, NEW y, Reaches(edges, x, y)
    PROVE  Reaches(Reversed(edges), y, x)
  <1> SUFFICES ASSUME NEW T, y \in T, Closed(Reversed(edges), T), x \notin T
               PROVE  FALSE
    BY ReachesIntro
  <1> DEFINE S == (Nodes(edges) \cup {x, y}) \ T
  <1>1. ASSUME NEW m, NEW n, Linked(edges, m, n), m \in S
        PROVE  n \in S
    BY <1>1, LinkedFacts DEF Closed
  <1>2. Closed(edges, S) /\ x \in S /\ y \notin S
    BY <1>1 DEF Closed
  <1> HIDE DEF S
  <1> QED
    BY <1>2, ReachesElim

LEMMA SameLinks ==
    ASSUME NEW E, NEW F, \A m, n : Linked(E, m, n) <=> Linked(F, m, n), NEW x, NEW y,
           Reaches(E, x, y)
    PROVE  Reaches(F, x, y)
  BY ReachesIntro, ReachesElim DEF Closed

(* A path backwards is a path of the reversed graph.                       *)
LEMMA ReversedReaches ==
    ASSUME NEW edges, NEW x, NEW y
    PROVE  Reaches(Reversed(edges), y, x) <=> Reaches(edges, x, y)
  <1>1. \A m, n : Linked(Reversed(Reversed(edges)), m, n) <=> Linked(edges, m, n)
    BY LinkedFacts
  <1> QED
    BY <1>1, ReversedHalf, SameLinks

(* The last edge of a path, as ReachesMore is about the first.             *)
LEMMA ReachesLast ==
    ASSUME NEW edges, NEW x, NEW y, Reaches(edges, x, y), x # y
    PROVE  \E z : Linked(edges, z, y) /\ Reaches(edges, x, z)
  <1>1. PICK z : Linked(Reversed(edges), y, z) /\ Reaches(Reversed(edges), z, x)
    BY ReversedReaches, ReachesMore
  <1> QED
    BY <1>1, ReversedReaches, LinkedFacts

-----------------------------------------------------------------------------
LEMMA DomTrans ==
    ASSUME NEW edges, NEW r, NEW a, NEW b, NEW c,
           Dominates(edges, r, a, b), Dominates(edges, r, b, c)
    PROVE  Dominates(edges, r, a, c)
  <1>1. CASE a = r \/ a = b \/ a = c \/ b = c
    BY <1>1 DEF Dominates
  <1>2. CASE a # r /\ a # b /\ a # c /\ b # c
    <2>1. PICK S : r \in S /\ a \notin S /\ b \notin S /\ ClosedBut(edges, S, a)
      BY <1>2, DominatesElim
    <2>2. b # r
      BY <2>1
    <2>3. PICK T : r \in T /\ b \notin T /\ c \notin T /\ ClosedBut(edges, T, b)
      BY <1>2, <2>2, DominatesElim
    <2>4. ClosedBut(edges, S \cap T, a)
      BY <2>1, <2>3 DEF ClosedBut
    <2> QED
      BY <2>1, <2>3, <2>4, DominatesIntro
  <1> QED
    BY <1>1, <1>2

LEMMA DomAntisym ==
    ASSUME NEW edges, NEW r, NEW a, NEW b, Reaches(edges, r, b),
           Dominates(edges, r, a, b), Dominates(edges, r, b, a)
    PROVE  a = b
  <1> SUFFICES ASSUME a # b PROVE FALSE
    OBVIOUS
  <1>1. a # r
    <2>1. ASSUME a = r PROVE FALSE
      <3>1. PICK S : r \in S /\ a \notin S
        BY <2>1, DominatesElim
      <3> QED
        BY <2>1, <3>1
    <2> QED
      BY <2>1
  <1>2. PICK S : r \in S /\ a \notin S /\ b \notin S /\ ClosedBut(edges, S, a)
    BY <1>1, DominatesElim
  <1>3. PICK T : r \in T /\ b \notin T /\ a \notin T /\ ClosedBut(edges, T, b)
    BY <1>2, DominatesElim
  <1>4. Closed(edges, S \cap T)
    BY <1>2, <1>3 DEF Closed, ClosedBut
  <1> QED
    BY <1>2, <1>3, <1>4, ReachesElim

(* Of two dominators of a node that can be reached, one is before the      *)
(* other on every path.                                                    *)
LEMMA DomChain ==
    ASSUME NEW edges, NEW r, NEW a, NEW b, NEW c, Reaches(edges, r, c),
           Dominates(edges, r, a, c), Dominates(edges, r, b, c)
    PROVE  Dominates(edges, r, a, b) \/ Dominates(edges, r, b, a)
  <1> SUFFICES ASSUME ~Dominates(edges, r, a, b), ~Dominates(edges, r, b, a)
               PROVE  FALSE
    OBVIOUS
  <1>1. a # r /\ b # r /\ a # b /\ a # c /\ b # c
    BY DEF Dominates
  <1>2. PICK S : r \in S /\ a \notin S /\ c \notin S /\ ClosedBut(edges, S, a)
    BY <1>1, DominatesElim
  <1>3. PICK T : r \in T /\ b \notin T /\ c \notin T /\ ClosedBut(edges, T, b)
    BY <1>1, DominatesElim
  <1>4. b \in S /\ a \in T
    BY <1>2, <1>3, DominatesIntro
  <1>5. Closed(edges, S \cup T)
    BY <1>2, <1>3, <1>4 DEF Closed, ClosedBut
  <1> QED
    BY <1>2, <1>3, <1>5, ReachesElim

(* What strictly dominates a node dominates the nodes before it.           *)
LEMMA DomEdge ==
    ASSUME NEW edges, NEW r, NEW a, NEW m, NEW n, Linked(edges, m, n),
           Dominates(edges, r, a, n), a # n
    PROVE  Dominates(edges, r, a, m)
  <1>1. CASE a = r \/ a = m
    BY <1>1 DEF Dominates
  <1>2. CASE a # r /\ a # m
    <2>1. PICK S : r \in S /\ a \notin S /\ n \notin S /\ ClosedBut(edges, S, a)
      BY <1>2, DominatesElim
    <2>2. m \notin S
      BY <2>1 DEF ClosedBut
    <2> QED
      BY <2>1, <2>2, DominatesIntro
  <1> QED
    BY <1>1, <1>2

LEMMA DomReached ==
    ASSUME NEW edges, NEW r, NEW a, NEW b, Reaches(edges, r, b), Dominates(edges, r, a, b)
    PROVE  Reaches(edges, r, a)
  <1>1. CASE a = r \/ a = b
    BY <1>1, ReachesRefl
  <1>2. CASE a # r /\ a # b
    <2>1. SUFFICES ASSUME NEW T, r \in T, Closed(edges, T), a \notin T PROVE FALSE
      BY ReachesIntro
    <2>2. PICK S : r \in S /\ a \notin S /\ b \notin S /\ ClosedBut(edges, S, a)
      BY <1>2, DominatesElim
    <2>3. Closed(edges, S \cap T)
      BY <2>1, <2>2 DEF Closed, ClosedBut
    <2> QED
      BY <2>1, <2>2, <2>3, ReachesElim
  <1> QED
    BY <1>1, <1>2

LEMMA DomInGraph ==
    ASSUME NEW edges, NEW r, NEW a, NEW b, Reaches(edges, r, b),
           StrictlyDominates(edges, r, a, b)
    PROVE  a \in Nodes(edges)
  <1> SUFFICES ASSUME a \notin Nodes(edges) PROVE FALSE
    OBVIOUS
  <1>1. \A m, n : Linked(edges, m, n) => m # a /\ n # a
    BY LinkedFacts
  <1>2. CASE a = r
    <2>1. Closed(edges, {r})
      BY <1>1, <1>2 DEF Closed
    <2>2. b \in {r}
      BY <2>1, ReachesElim
    <2> QED
      BY <1>2, <2>2 DEF StrictlyDominates
  <1>3. CASE a # r
    <2>1. PICK S : r \in S /\ a \notin S /\ b \notin S /\ ClosedBut(edges, S, a)
      BY <1>3, DominatesElim DEF StrictlyDominates
    <2>2. Closed(edges, S)
      BY <1>1, <2>1 DEF Closed, ClosedBut
    <2> QED
      BY <2>1, <2>2, ReachesElim
  <1> QED
    BY <1>2, <1>3

(* Nothing but itself dominates the entry.                                 *)
LEMMA DomEntry ==
    ASSUME NEW edges, NEW r, NEW a, Dominates(edges, r, a, r)
    PROVE  a = r
  <1> SUFFICES ASSUME a # r PROVE FALSE
    OBVIOUS
  <1>1. PICK S : r \in S /\ a \notin S /\ r \notin S /\ ClosedBut(edges, S, a)
    BY DominatesElim
  <1> QED
    BY <1>1

-----------------------------------------------------------------------------
(* A set of numbers that is not empty has a least one.                     *)
Less == OpToRel(<, Nat)

LEMMA LeastNat ==
    ASSUME NEW T \in SUBSET Nat, T # {}
    PROVE  \E x \in T : \A y \in T : x <= y
  <1>1. IsWellFoundedOn(Less, Nat)
    BY NatLessThanWellFounded DEF Less
  <1>2. PICK x \in T : \A y \in T : ~(<<y, x>> \in Less)
    BY <1>1, WFMin
  <1>3. ASSUME NEW y \in T PROVE x <= y
    <2>1. x \in Nat /\ y \in Nat
      OBVIOUS
    <2>2. y < x => <<y, x>> \in Less
      BY <2>1 DEF Less, OpToRel
    <2> QED
      BY <1>2, <2>1, <2>2
  <1> QED
    BY <1>3

(* How deep a node is: how many nodes dominate it.                         *)
Dominators(edges, r, n) == {a \in Nodes(edges) \cup {r} : Dominates(edges, r, a, n)}

Depth(edges, r, n) == Cardinality(Dominators(edges, r, n))

LEMMA DepthType ==
    ASSUME NEW edges, NEW r, NEW n, IsFiniteSet(Nodes(edges))
    PROVE  IsFiniteSet(Dominators(edges, r, n)) /\ Depth(edges, r, n) \in Nat
  <1>1. IsFiniteSet(Nodes(edges) \cup {r})
    BY FS_AddElement
  <1>2. Dominators(edges, r, n) \subseteq Nodes(edges) \cup {r}
    BY DEF Dominators
  <1>3. IsFiniteSet(Dominators(edges, r, n))
    BY <1>1, <1>2, FS_Subset
  <1> QED
    BY <1>3, FS_CardinalityType DEF Depth

LEMMA DeeperBelow ==
    ASSUME NEW edges, NEW r, NEW a, NEW b, IsFiniteSet(Nodes(edges)),
           Reaches(edges, r, b), StrictlyDominates(edges, r, a, b), b \in Nodes(edges)
    PROVE  Depth(edges, r, a) < Depth(edges, r, b)
  <1>1. Dominators(edges, r, a) \subseteq Dominators(edges, r, b)
    BY DomTrans DEF Dominators, StrictlyDominates
  <1>2. b \in Dominators(edges, r, b)
    BY DEF Dominators, Dominates
  <1>3. b \notin Dominators(edges, r, a)
    <2>1. ~Dominates(edges, r, b, a)
      BY DomAntisym DEF StrictlyDominates
    <2> QED
      BY <2>1 DEF Dominators
  <1>4. Depth(edges, r, a) <= Depth(edges, r, b) /\ Depth(edges, r, a) # Depth(edges, r, b)
    BY <1>1, <1>2, <1>3, DepthType, FS_Subset DEF Depth
  <1> QED
    BY <1>4, DepthType

(* Each node that can be reached, but the entry, has one immediate         *)
(* dominator.                                                              *)
LEMMA ImmediateExists ==
    ASSUME NEW edges, NEW r, NEW b, IsFiniteSet(Nodes(edges)), Reaches(edges, r, b), b # r
    PROVE  \E a \in Nodes(edges) : IsImmediateDominator(edges, r, a, b)
  <1> DEFINE D == {a \in Nodes(edges) : StrictlyDominates(edges, r, a, b)}
             Up(a) == Cardinality(Nodes(edges) \cup {r}) - Depth(edges, r, a)
             T == {Up(a) : a \in D}
  <1>1. r \in D
    <2>1. StrictlyDominates(edges, r, r, b)
      BY DEF StrictlyDominates, Dominates
    <2> QED
      BY <2>1, DomInGraph
  <1>2. ASSUME NEW a \in D PROVE Up(a) \in Nat
    <2>1. Dominators(edges, r, a) \subseteq Nodes(edges) \cup {r}
      BY DEF Dominators
    <2>2. IsFiniteSet(Nodes(edges) \cup {r})
      BY FS_AddElement
    <2>3. /\ Depth(edges, r, a) <= Cardinality(Nodes(edges) \cup {r})
          /\ Cardinality(Nodes(edges) \cup {r}) \in Nat /\ Depth(edges, r, a) \in Nat
      BY <2>1, <2>2, FS_Subset, FS_CardinalityType, DepthType DEF Depth
    <2> QED
      BY <2>3
  <1>3. T \in SUBSET Nat /\ T # {}
    BY <1>1, <1>2
  <1>4. PICK a \in D : \A c \in D : Up(a) <= Up(c)
    <2>1. PICK x \in T : \A y \in T : x <= y
      BY <1>3, LeastNat
    <2> QED
      BY <2>1
  <1>5. ASSUME NEW c \in Nodes(edges), StrictlyDominates(edges, r, c, b)
        PROVE  Dominates(edges, r, c, a)
    <2>1. c \in D /\ Up(a) <= Up(c) /\ Up(a) \in Nat /\ Up(c) \in Nat
      BY <1>2, <1>4, <1>5
    <2>2. Dominates(edges, r, c, a) \/ Dominates(edges, r, a, c)
      BY <1>5, DomChain DEF StrictlyDominates
    <2>3. CASE c # a /\ Dominates(edges, r, a, c)
      <3>1. Reaches(edges, r, c)
        BY <1>5, DomReached DEF StrictlyDominates
      <3>2. Depth(edges, r, a) < Depth(edges, r, c)
        BY <2>3, <3>1, DeeperBelow DEF StrictlyDominates
      <3>3. /\ Depth(edges, r, a) \in Nat /\ Depth(edges, r, c) \in Nat
            /\ Cardinality(Nodes(edges) \cup {r}) \in Nat
        BY DepthType, FS_AddElement, FS_CardinalityType
      <3> QED
        BY <2>1, <3>2, <3>3
    <2> QED
      BY <2>2, <2>3 DEF Dominates
  <1> QED
    BY <1>5 DEF IsImmediateDominator

LEMMA ImmediateUnique ==
    ASSUME NEW edges, NEW r, NEW b, Reaches(edges, r, b), NEW a, NEW c,
           IsImmediateDominator(edges, r, a, b), IsImmediateDominator(edges, r, c, b)
    PROVE  a = c
  <1>1. Reaches(edges, r, a) /\ Reaches(edges, r, c)
    BY DomReached DEF IsImmediateDominator, StrictlyDominates
  <1>2. Dominates(edges, r, a, c) /\ Dominates(edges, r, c, a)
    BY DomInGraph DEF IsImmediateDominator
  <1> QED
    BY <1>1, <1>2, DomAntisym
=============================================================================
