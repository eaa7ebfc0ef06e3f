----------------------- MODULE ControlDependenceProofs -----------------------
(***************************************************************************)
(* The control dependences of any function, whatever its graph and the     *)
(* order its tree is walked in, are those of the definition, and the two   *)
(* ways of asking for them agree.                                          *)
(***************************************************************************)
EXTENDS ControlDependence, FlowGraphProofs

Back == Reversed(cfg)

(* The tree is the one of the immediate postdominators.                    *)
TreeOK ==
    /\ cfg \subseteq Block \X CFGNode
    /\ ipostdom \in [CFGNode -> CFGNode \cup {None}]
    /\ ipostdom[Return] = None
    /\ \A n \in CFGNode \ {Return} :
          IF Returns(n)
          THEN ipostdom[n] \in CFGNode /\ IsImmediateDominator(Back, Return, ipostdom[n], n)
          ELSE ipostdom[n] = None

GraphOK ==
    /\ visited \subseteq InTree
    /\ graph \subseteq visited \X CFGNode
    /\ DependenceExact

-----------------------------------------------------------------------------
LEMMA BackIs ==
    ASSUME cfg \subseteq Block \X CFGNode
    PROVE  /\ IsFiniteSet(Nodes(Back)) /\ Nodes(Back) \subseteq CFGNode
           /\ \A n : Returns(n) <=> Reaches(Back, Return, n)
  <1>1. Nodes(Back) \subseteq CFGNode
    <2>1. ASSUME NEW e \in cfg PROVE e[1] \in CFGNode /\ e[2] \in CFGNode
      BY DEF CFGNode
    <2>2. ASSUME NEW e PROVE <<e[2], e[1]>>[1] = e[2] /\ <<e[2], e[1]>>[2] = e[1]
      OBVIOUS
    <2> QED
      BY <2>1, <2>2 DEF Nodes, Back, Reversed
  <1>2. IsFiniteSet(Nodes(Back))
    <2>1. IsFiniteSet(CFGNode)
      BY BlockAssumption, FS_AddElement DEF CFGNode
    <2> QED
      BY <1>1, <2>1, FS_Subset
  <1>3. \A n : Returns(n) <=> Reaches(Back, Return, n)
    BY ReversedReaches DEF Returns, Back
  <1> QED
    BY <1>1, <1>2, <1>3

LEMMA BackFacts ==
    ASSUME TreeOK
    PROVE  /\ IsFiniteSet(Nodes(Back)) /\ Nodes(Back) \subseteq CFGNode
           /\ \A n : Returns(n) <=> Reaches(Back, Return, n)
           /\ \A m, n : Linked(Back, n, m) <=> Linked(cfg, m, n)
           /\ \A m, n : Linked(cfg, m, n) => m \in Block /\ n \in CFGNode
  <1>1. \A m, n : Linked(cfg, m, n) => m \in Block /\ n \in CFGNode
    BY DEF TreeOK, Linked
  <1>2. \A m, n : Linked(Back, n, m) <=> Linked(cfg, m, n)
    BY LinkedFacts DEF Back
  <1> QED
    BY <1>1, <1>2, BackIs DEF TreeOK

(* What can be in the tree is what returns.                                *)
LEMMA InTreeIs ==
    ASSUME TreeOK
    PROVE  /\ \A n : n \in InTree <=> n \in CFGNode /\ Returns(n)
           /\ \A n \in InTree \ {Return} :
                 /\ ipostdom[n] \in InTree
                 /\ IsImmediateDominator(Back, Return, ipostdom[n], n)
  <1>1. None \notin CFGNode /\ Return \in CFGNode
    BY BlockAssumption DEF CFGNode
  <1>2. Returns(Return)
    BY ReachesRefl DEF Returns
  <1>3. \A n : n \in InTree <=> n \in CFGNode /\ Returns(n)
    BY <1>1, <1>2 DEF InTree, TreeOK
  <1>4. ASSUME NEW n \in InTree \ {Return}
        PROVE  /\ ipostdom[n] \in InTree
               /\ IsImmediateDominator(Back, Return, ipostdom[n], n)
    <2>1. n \in CFGNode \ {Return} /\ Returns(n)
      BY <1>3
    <2>2. ipostdom[n] \in CFGNode /\ IsImmediateDominator(Back, Return, ipostdom[n], n)
      BY <2>1 DEF TreeOK
    <2>3. Reaches(Back, Return, ipostdom[n])
      BY <2>1, <2>2, BackFacts, DomReached DEF IsImmediateDominator, StrictlyDominates
    <2> QED
      BY <1>3, <2>2, <2>3, BackFacts
  <1> QED
    BY <1>3, <1>4

Pdom(a, b) == Dominates(Back, Return, a, b)

(* The dominance facts, about postdominators.                              *)
LEMMA PdomFacts ==
    ASSUME TreeOK
    PROVE  /\ \A a : Pdom(a, a)
           /\ \A a, b, c : Pdom(a, b) /\ Pdom(b, c) => Pdom(a, c)
           /\ \A a, b : Returns(b) /\ Pdom(a, b) /\ Pdom(b, a) => a = b
           /\ \A a, b, c : Returns(c) /\ Pdom(a, c) /\ Pdom(b, c) => Pdom(a, b) \/ Pdom(b, a)
           /\ \A a, m, n : Linked(cfg, m, n) /\ Pdom(a, m) /\ a # m => Pdom(a, n)
           /\ \A a, b : Returns(b) /\ Pdom(a, b) => Returns(a)
           /\ \A a, b : Returns(b) /\ Pdom(a, b) /\ a # b => a \in Nodes(Back)
  <1>1. \A a : Pdom(a, a)
    BY DEF Pdom, Dominates
  <1>2. \A a, b, c : Pdom(a, b) /\ Pdom(b, c) => Pdom(a, c)
    BY DomTrans DEF Pdom
  <1>3. \A a, b : Returns(b) /\ Pdom(a, b) /\ Pdom(b, a) => a = b
    BY BackFacts, DomAntisym DEF Pdom
  <1>4. \A a, b, c : Returns(c) /\ Pdom(a, c) /\ Pdom(b, c) => Pdom(a, b) \/ Pdom(b, a)
    BY BackFacts, DomChain DEF Pdom
  <1>5. \A a, m, n : Linked(cfg, m, n) /\ Pdom(a, m) /\ a # m => Pdom(a, n)
    BY BackFacts, DomEdge DEF Pdom
  <1>6. \A a, b : Returns(b) /\ Pdom(a, b) => Returns(a)
    BY BackFacts, DomReached DEF Pdom
  <1>7. \A a, b : Returns(b) /\ Pdom(a, b) /\ a # b => a \in Nodes(Back)
    BY BackFacts, DomInGraph DEF Pdom, StrictlyDominates
  <1> QED
    BY <1>1, <1>2, <1>3, <1>4, <1>5, <1>6, <1>7

LEMMA ParentFacts ==
    ASSUME TreeOK, NEW n \in InTree \ {Return}
    PROVE  /\ ipostdom[n] \in InTree /\ ipostdom[n] # n /\ Pdom(ipostdom[n], n)
           /\ \A c : c # n /\ Pdom(c, n) => Pdom(c, ipostdom[n])
  <1>1. Returns(n)
    BY InTreeIs
  <1>2. ipostdom[n] \in InTree /\ IsImmediateDominator(Back, Return, ipostdom[n], n)
    BY InTreeIs
  <1>3. \A c : c # n /\ Pdom(c, n) => c \in Nodes(Back)
    BY <1>1, PdomFacts
  <1> QED
    BY <1>2, <1>3 DEF IsImmediateDominator, StrictlyDominates, Pdom

-----------------------------------------------------------------------------
LEMMA DependsIs ==
    ASSUME NEW x, NEW y
    PROVE  DependsOn(x, y) <=>
              /\ \E s : Linked(cfg, y, s) /\ Returns(s) /\ Pdom(x, s)
              /\ ~(x # y /\ Pdom(x, y))
  BY LinkedFacts DEF DependsOn, Postdominates, Pdom, Back

(* Who depends on something can return, and is not Return.                 *)
LEMMA DependsInTree ==
    ASSUME TreeOK, NEW x, NEW y, NEW s, Linked(cfg, y, s), Returns(s)
    PROVE  y \in InTree \ {Return}
  <1>1. y \in Block /\ y # Return
    BY BackFacts, BlockAssumption
  <1>2. Returns(y)
    BY ReachesEdge, ReachesTrans DEF Returns
  <1> QED
    BY <1>1, <1>2, InTreeIs DEF CFGNode

(* A predecessor that x does not immediately postdominate.                 *)
LEMMA LocalFrontier ==
    ASSUME TreeOK, NEW x \in InTree, NEW y, Linked(cfg, y, x)
    PROVE  y \in InTree \ {Return} /\ (ipostdom[y] # x => DependsOn(x, y))
  <1>1. Returns(x)
    BY InTreeIs
  <1>2. y \in InTree \ {Return}
    BY <1>1, DependsInTree
  <1>3. ASSUME x # y, Pdom(x, y) PROVE ipostdom[y] = x
    <2>1. /\ Pdom(ipostdom[y], y) /\ ipostdom[y] # y /\ Pdom(x, ipostdom[y])
      BY <1>2, <1>3, ParentFacts
    <2>2. Pdom(ipostdom[y], x)
      BY <2>1, PdomFacts
    <2> QED
      BY <1>1, <2>1, <2>2, PdomFacts
  <1>4. Pdom(x, x)
    BY PdomFacts
  <1> QED
    BY <1>1, <1>2, <1>3, <1>4, DependsIs

(* What a child of x depends on, with the same exception.                  *)
LEMMA UpFrontier ==
    ASSUME TreeOK, NEW x \in InTree, NEW z \in Children(x), NEW y, DependsOn(z, y)
    PROVE  y \in InTree \ {Return} /\ (ipostdom[y] # x => DependsOn(x, y))
  <1>1. PICK s : Linked(cfg, y, s) /\ Returns(s) /\ Pdom(z, s)
    BY DependsIs
  <1>2. ~(z # y /\ Pdom(z, y))
    BY DependsIs
  <1>3. y \in InTree \ {Return} /\ Returns(y) /\ Returns(x)
    BY <1>1, DependsInTree, InTreeIs
  <1>4. z \in InTree \ {Return} /\ ipostdom[z] = x
    BY BlockAssumption DEF Children, InTree, TreeOK, CFGNode
  <1>5. Pdom(x, z) /\ Returns(z) /\ Pdom(x, s)
    BY <1>1, <1>4, ParentFacts, InTreeIs, PdomFacts
  <1>6. ASSUME x # y, Pdom(x, y) PROVE ipostdom[y] = x
    <2> DEFINE w == ipostdom[y]
    <2>1. w # y /\ Pdom(w, y) /\ Pdom(x, w)
      BY <1>3, <1>6, ParentFacts
    <2>2. Pdom(w, s)
      BY <1>1, <2>1, PdomFacts
    <2>3. Pdom(z, w) \/ Pdom(w, z)
      BY <1>1, <2>2, PdomFacts
    <2>4. CASE Pdom(z, w)
      <3>1. Pdom(z, y)
        BY <2>1, <2>4, PdomFacts
      <3> QED
        BY <1>2, <1>4, <3>1
    <2>5. CASE Pdom(w, z) /\ w # z
      <3>1. Pdom(w, x)
        BY <1>4, <2>5, ParentFacts
      <3> QED
        BY <1>3, <2>1, <3>1, PdomFacts
    <2>6. Pdom(w, w)
      BY PdomFacts
    <2> QED
      BY <2>3, <2>4, <2>5, <2>6
  <1>7. ipostdom[y] # x => DependsOn(x, y)
    BY <1>1, <1>5, <1>6, DependsIs
  <1> QED
    BY <1>3, <1>7

LEMMA InNodes ==
    ASSUME TreeOK, NEW z \in InTree \ {Return}
    PROVE  z \in Nodes(Back)
  <1>1. Returns(z)
    BY InTreeIs
  <1>2. PICK m : Linked(cfg, z, m)
    BY <1>1, ReachesMore DEF Returns
  <1> QED
    BY <1>2, BackFacts, LinkedFacts DEF Back

(* Between x and a node it strictly postdominates there is a child of x.   *)
LEMMA ChildBetween ==
    ASSUME TreeOK, NEW x, NEW s, Returns(s), s \in CFGNode, Pdom(x, s), x # s
    PROVE  \E z \in Children(x) : Pdom(z, s)
  <1> DEFINE Z == {z \in CFGNode : Pdom(z, s) /\ Pdom(x, z) /\ x # z}
             D(z) == Depth(Back, Return, z)
             T == {D(z) : z \in Z}
  <1>1. s \in Z
    BY PdomFacts
  <1>2. \A z : D(z) \in Nat
    BY BackFacts, DepthType
  <1>3. T \in SUBSET Nat /\ T # {}
    BY <1>1, <1>2
  <1>4. PICK z \in Z : \A c \in Z : D(z) <= D(c)
    <2>1. PICK d \in T : \A e \in T : d <= e
      BY <1>3, LeastNat
    <2> QED
      BY <2>1
  <1>5. z \in CFGNode /\ Pdom(z, s) /\ Pdom(x, z) /\ x # z
    BY <1>4
  <1> DEFINE w == ipostdom[z]
  <1>6. Returns(z) /\ z \in InTree /\ z # Return
    <2>1. Returns(z)
      BY <1>5, PdomFacts
    <2>2. z # Return
      BY <1>5, DomEntry DEF Pdom
    <2> QED
      BY <1>5, <2>1, <2>2, InTreeIs
  <1>7. w \in InTree /\ w # z /\ Pdom(w, z) /\ Pdom(x, w)
    BY <1>5, <1>6, ParentFacts
  <1>8. CASE w = x
    BY <1>5, <1>8 DEF Children
  <1>9. CASE w # x
    <2>1. w \in CFGNode /\ Pdom(w, s)
      BY <1>5, <1>7, PdomFacts DEF InTree
    <2>2. w \in Z
      BY <1>7, <1>9, <2>1
    <2>3. z \in Nodes(Back)
      BY <1>6, <1>5, InNodes
    <2>4. D(w) < D(z)
      BY <1>6, <1>7, <2>3, BackFacts, DeeperBelow DEF Pdom, StrictlyDominates
    <2> QED
      BY <1>2, <1>4, <2>2, <2>4
  <1> QED
    BY <1>8, <1>9

(* And through that child what depends on x is found.                      *)
LEMMA DownFrontier ==
    ASSUME TreeOK, NEW x \in InTree, NEW y \in InTree, DependsOn(x, y)
    PROVE  /\ ipostdom[y] # x
           /\ Linked(cfg, y, x) \/ \E z \in Children(x) : DependsOn(z, y)
  <1>1. PICK s : Linked(cfg, y, s) /\ Returns(s) /\ Pdom(x, s)
    BY DependsIs
  <1>2. ~(x # y /\ Pdom(x, y))
    BY DependsIs
  <1>3. y \in InTree \ {Return} /\ Returns(x) /\ s \in CFGNode
    BY <1>1, DependsInTree, InTreeIs, BackFacts
  <1>4. ipostdom[y] # x
    BY <1>2, <1>3, ParentFacts
  <1>5. CASE x # s
    <2>1. PICK z \in Children(x) : Pdom(z, s)
      BY <1>1, <1>3, <1>5, ChildBetween
    <2>2. z \in InTree \ {Return} /\ ipostdom[z] = x
      BY BlockAssumption DEF Children, InTree, TreeOK, CFGNode
    <2>3. Pdom(x, z) /\ x # z /\ Returns(z)
      BY <2>2, ParentFacts, InTreeIs
    <2>4. ASSUME z # y, Pdom(z, y) PROVE FALSE
      <3>1. Pdom(x, y)
        BY <2>3, <2>4, PdomFacts
      <3>2. x = y
        BY <1>2, <3>1
      <3> QED
        BY <1>3, <2>3, <2>4, <3>2, PdomFacts
    <2>5. DependsOn(z, y)
      BY <1>1, <2>1, <2>4, DependsIs
    <2> QED
      BY <1>4, <2>5
  <1> QED
    BY <1>1, <1>4, <1>5

(* Cytron's recurrence is right.                                           *)
LEMMA FrontierExact ==
    ASSUME TreeOK, GraphOK, NEW x \in InTree, Children(x) \subseteq visited
    PROVE  Frontier(x) = {y \in InTree : DependsOn(x, y)}
  <1>1. ASSUME NEW z \in Children(x), NEW y
        PROVE  y \in Succs(graph, z) <=> y \in InTree /\ DependsOn(z, y)
    BY DEF GraphOK, DependenceExact
  <1>2. ASSUME NEW y \in Frontier(x)
        PROVE  y \in InTree /\ DependsOn(x, y)
    <2>1. ipostdom[y] # x /\ (Linked(cfg, y, x) \/ \E z \in Children(x) : y \in Succs(graph, z))
      BY LinkedFacts DEF Frontier
    <2>2. CASE Linked(cfg, y, x)
      BY <2>1, <2>2, LocalFrontier
    <2>3. CASE \E z \in Children(x) : y \in Succs(graph, z)
      <3>1. PICK z \in Children(x) : DependsOn(z, y)
        BY <1>1, <2>3
      <3> QED
        BY <2>1, <3>1, UpFrontier
    <2> QED
      BY <2>1, <2>2, <2>3
  <1>3. ASSUME NEW y \in InTree, DependsOn(x, y)
        PROVE  y \in Frontier(x)
    <2>1. /\ ipostdom[y] # x
          /\ Linked(cfg, y, x) \/ \E z \in Children(x) : DependsOn(z, y)
      BY <1>3, DownFrontier
    <2>2. y \in Preds(cfg, x) \/ \E z \in Children(x) : y \in Succs(graph, z)
      BY <1>1, <2>1, LinkedFacts
    <2> QED
      BY <2>1, <2>2 DEF Frontier
  <1> QED
    BY <1>2, <1>3

-----------------------------------------------------------------------------
LEMMA VisitOK ==
    ASSUME TreeOK, GraphOK, NEW x \in CFGNode, Visit(x)
    PROVE  TreeOK' /\ GraphOK'
  <1>1. /\ x \in InTree \ visited /\ Children(x) \subseteq visited
        /\ graph' = graph \cup {<<x, y>> : y \in Frontier(x)}
        /\ visited' = visited \cup {x}
        /\ cfg' = cfg /\ ipostdom' = ipostdom
    BY DEF Visit
  <1>2. InTree' = InTree /\ \A a, b : DependsOn(a, b)' <=> DependsOn(a, b)
    BY <1>1 DEF InTree, DependsOn, Returns, Postdominates
  <1>3. Frontier(x) = {y \in InTree : DependsOn(x, y)}
    BY <1>1, FrontierExact
  <1> DEFINE new == EdgesFrom(x, Frontier(x))
  <1>4. \A m, n : Linked(new, m, n) <=> m = x /\ n \in Frontier(x)
    BY LinkedFrom
  <1>5. \A m, n : Linked(graph, m, n) => m \in visited
    BY DEF GraphOK, Linked
  <1>6. \A m, n : Linked(graph', m, n) <=> Linked(graph, m, n) \/ Linked(new, m, n)
    BY <1>1 DEF Linked, EdgesFrom
  <1>7. ASSUME NEW z \in visited'
        PROVE  Succs(graph', z) = {y \in InTree : DependsOn(z, y)}
    <2>1. CASE z = x
      <3>1. \A n : n \in Succs(graph', z) <=> n \in Frontier(x)
        BY <1>1, <1>4, <1>5, <1>6, <2>1, LinkedFacts
      <3> QED
        BY <1>3, <2>1, <3>1
    <2>2. CASE z # x
      <3>1. z \in visited
        BY <1>1, <2>2
      <3>2. \A n : n \in Succs(graph', z) <=> n \in Succs(graph, z)
        BY <1>4, <1>6, <2>2, LinkedFacts
      <3> QED
        BY <3>1, <3>2 DEF GraphOK, DependenceExact
    <2> QED
      BY <2>1, <2>2
  <1>8. DependenceExact'
    BY <1>2, <1>7 DEF DependenceExact
  <1>9. visited' \subseteq InTree' /\ graph' \subseteq visited' \X CFGNode
    <2>1. visited \subseteq InTree /\ graph \subseteq visited \X CFGNode
      BY DEF GraphOK
    <2>2. new \subseteq visited' \X CFGNode
      <3>1. \A y \in Frontier(x) : y \in CFGNode
        BY <1>3 DEF InTree
      <3> QED
        BY <1>1, <3>1 DEF EdgesFrom
    <2> HIDE DEF new
    <2>3. graph' = graph \cup new
      BY <1>1 DEF new, EdgesFrom
    <2>4. graph' \subseteq visited' \X CFGNode
      BY <1>1, <2>1, <2>2, <2>3
    <2> QED
      BY <1>1, <1>2, <2>1, <2>4
  <1>10. TreeOK'
    BY <1>1 DEF TreeOK, Returns, Back
  <1> QED
    BY <1>8, <1>9, <1>10 DEF GraphOK

LEMMA InitOK == Init => TreeOK /\ GraphOK
  <1> SUFFICES ASSUME Init PROVE TreeOK /\ GraphOK
    OBVIOUS
  <1>1. cfg \subseteq Block \X CFGNode
    <2>1. PICK terminator \in [Block -> Terminator] : cfg = ControlFlow(terminator, Return)
      BY DEF Init
    <2>2. \A b \in Block : terminator[b].dests \subseteq Block
      BY <2>1 DEF Terminator
    <2>3. DOMAIN terminator = Block
      BY <2>1
    <2> QED
      BY <2>1, <2>2, <2>3 DEF ControlFlow, CFGNode
  <1>2. /\ ipostdom = [n \in CFGNode |->
             IF n = Return \/ ~Returns(n) THEN None
             ELSE CHOOSE a \in CFGNode : IsImmediateDominator(Back, Return, a, n)]
        /\ graph = {} /\ visited = {}
    BY DEF Init, Back
  <1>3. ASSUME NEW n \in CFGNode \ {Return}, Returns(n)
        PROVE  ipostdom[n] \in CFGNode /\ IsImmediateDominator(Back, Return, ipostdom[n], n)
    <2>1. /\ IsFiniteSet(Nodes(Back)) /\ Nodes(Back) \subseteq CFGNode
          /\ Reaches(Back, Return, n)
      BY <1>1, <1>3, BackIs
    <2>2. \E a \in CFGNode : IsImmediateDominator(Back, Return, a, n)
      BY <2>1, ImmediateExists
    <2>3. ipostdom[n] = CHOOSE a \in CFGNode : IsImmediateDominator(Back, Return, a, n)
      BY <1>2, <1>3
    <2> QED
      BY <2>2, <2>3
  <1>4. \A n \in CFGNode : n = Return \/ ~Returns(n) => ipostdom[n] = None
    BY <1>2
  <1>5. ipostdom \in [CFGNode -> CFGNode \cup {None}]
    <2>1. \A n \in CFGNode : ipostdom[n] \in CFGNode \cup {None}
      BY <1>3, <1>4
    <2>2. ipostdom = [n \in CFGNode |-> ipostdom[n]]
      BY <1>2
    <2> QED
      BY <2>1, <2>2
  <1>6. TreeOK
    BY <1>1, <1>3, <1>4, <1>5 DEF TreeOK, CFGNode
  <1>7. GraphOK
    BY <1>2 DEF GraphOK, DependenceExact
  <1> QED
    BY <1>6, <1>7

-----------------------------------------------------------------------------
(* What a question is asked of: the dependences, or the same backwards.    *)
Asked(q) == IF q.way = "dependencies" THEN graph ELSE Reversed(graph)

Answer(q) ==
    {n \in CFGNode : \E z : Linked(Asked(q), q.about, z) /\ Reaches(Asked(q), z, n)}

(* What was collected is in the answer, and what is next to the block or   *)
(* to something collected is collected or waits.                           *)
QueryOK ==
    /\ query \in Question \cup {None}
    /\ query = None => worklist = {} /\ deps = {}
    /\ query # None => worklist \cup deps \subseteq Answer(query)
    /\ query # None =>
         \A m, n : Linked(Asked(query), m, n) /\ (m = query.about \/ m \in deps)
                   => n \in worklist \cup deps

LEMMA GraphInTree ==
    ASSUME TreeOK, GraphOK, NEW m, NEW n, Linked(graph, m, n)
    PROVE  m \in InTree /\ n \in InTree \ {Return}
  <1>1. m \in visited /\ m \in InTree
    BY DEF GraphOK, Linked
  <1>2. n \in InTree /\ DependsOn(m, n)
    BY <1>1, LinkedFacts DEF GraphOK, DependenceExact
  <1>3. PICK s : Linked(cfg, n, s) /\ Returns(s)
    BY <1>2, DependsIs
  <1> QED
    BY <1>1, <1>3, DependsInTree

LEMMA ImmediateIs ==
    ASSUME NEW q \in Question, NEW m, NEW n
    PROVE  n \in Immediate(m, q.way) <=> Linked(Asked(q), m, n)
  BY LinkedFacts DEF Immediate, Asked

LEMMA AskedInTree ==
    ASSUME TreeOK, GraphOK, NEW q \in Question, NEW m, NEW n, Linked(Asked(q), m, n)
    PROVE  m \in InTree /\ n \in InTree
  BY GraphInTree, LinkedFacts DEF Asked

LEMMA AnswerInTree ==
    ASSUME TreeOK, GraphOK, NEW q \in Question
    PROVE  Answer(q) \subseteq InTree
  <1> SUFFICES ASSUME NEW n \in Answer(q) PROVE n \in InTree
    OBVIOUS
  <1>1. PICK z : Linked(Asked(q), q.about, z) /\ Reaches(Asked(q), z, n)
    BY DEF Answer
  <1>2. z \in InTree /\ Closed(Asked(q), InTree)
    BY <1>1, AskedInTree DEF Closed
  <1> QED
    BY <1>1, <1>2, ReachesElim

(* The neighbours of a block are part of the answer, and the neighbours of *)
(* the answer are.                                                         *)
LEMMA AnswerGrows ==
    ASSUME TreeOK, GraphOK, NEW q \in Question, NEW m, NEW n, Linked(Asked(q), m, n),
           m = q.about \/ m \in Answer(q)
    PROVE  n \in Answer(q)
  <1>1. n \in CFGNode
    BY AskedInTree DEF InTree
  <1>2. CASE m = q.about
    BY <1>1, <1>2, ReachesRefl DEF Answer
  <1>3. CASE m \in Answer(q)
    <2>1. PICK z : Linked(Asked(q), q.about, z) /\ Reaches(Asked(q), z, m)
      BY <1>3 DEF Answer
    <2>2. Reaches(Asked(q), z, n)
      BY <2>1, ReachesEdge, ReachesTrans
    <2> QED
      BY <1>1, <2>1, <2>2 DEF Answer
  <1> QED
    BY <1>2, <1>3

LEMMA SameGraph ==
    ASSUME TreeOK, GraphOK, UNCHANGED <<cfg, ipostdom, graph, visited>>
    PROVE  TreeOK' /\ GraphOK' /\ \A q : Asked(q)' = Asked(q) /\ Answer(q)' = Answer(q)
  <1>1. cfg' = cfg /\ ipostdom' = ipostdom /\ graph' = graph /\ visited' = visited
    OBVIOUS
  <1>2. TreeOK'
    BY <1>1 DEF TreeOK, Returns, Back
  <1>3. GraphOK'
    BY <1>1 DEF GraphOK, InTree, DependenceExact, DependsOn, Returns, Postdominates
  <1>4. \A q : Asked(q)' = Asked(q) /\ Answer(q)' = Answer(q)
    BY <1>1 DEF Asked, Answer
  <1> QED
    BY <1>2, <1>3, <1>4

LEMMA AskOK ==
    ASSUME TreeOK, GraphOK, QueryOK, NEW q \in Question, Ask(q)
    PROVE  TreeOK' /\ GraphOK' /\ QueryOK'
  <1>1. /\ query' = q /\ worklist' = Immediate(q.about, q.way) /\ deps' = {}
        /\ UNCHANGED <<cfg, ipostdom, graph, visited>>
    BY DEF Ask
  <1>2. TreeOK' /\ GraphOK' /\ Asked(q)' = Asked(q) /\ Answer(q)' = Answer(q)
    BY <1>1, SameGraph
  <1>3. \A n : n \in worklist' <=> Linked(Asked(q), q.about, n)
    BY <1>1, ImmediateIs
  <1>4. worklist' \subseteq Answer(q)
    BY <1>3, AnswerGrows
  <1>5. query' # None
    BY <1>1, NoneAssumption
  <1>6. Asked(query)' = Asked(q) /\ Answer(query)' = Answer(q)
    BY <1>1, <1>2 DEF Asked, Answer
  <1>7. QueryOK'
    BY <1>1, <1>3, <1>4, <1>5, <1>6 DEF QueryOK
  <1> QED
    BY <1>2, <1>7

LEMMA PopOK ==
    ASSUME TreeOK, GraphOK, QueryOK, NEW n \in CFGNode, Pop(n)
    PROVE  TreeOK' /\ GraphOK' /\ QueryOK'
  <1>1. /\ n \in worklist /\ deps' = deps \cup {n}
        /\ worklist' = (worklist \ {n}) \cup (Immediate(n, query.way) \ deps')
        /\ UNCHANGED <<cfg, ipostdom, graph, visited>> /\ query' = query
    BY DEF Pop
  <1>2. TreeOK' /\ GraphOK' /\ Asked(query)' = Asked(query) /\ Answer(query)' = Answer(query)
    <2>1. TreeOK' /\ GraphOK'
      BY <1>1, SameGraph
    <2>2. graph' = graph /\ query' = query
      BY <1>1
    <2> QED
      BY <2>1, <2>2 DEF Asked, Answer
  <1>3. query # None /\ query \in Question
    BY <1>1 DEF QueryOK
  <1>4. \A k : k \in Immediate(n, query.way) <=> Linked(Asked(query), n, k)
    BY <1>3, ImmediateIs
  <1>5. worklist' \cup deps' \subseteq Answer(query)
    <2>1. worklist \cup deps \subseteq Answer(query) /\ n \in Answer(query)
      BY <1>1, <1>3 DEF QueryOK
    <2>2. Immediate(n, query.way) \subseteq Answer(query)
      BY <1>3, <1>4, <2>1, AnswerGrows
    <2> QED
      BY <1>1, <2>1, <2>2
  <1>6. ASSUME NEW m, NEW k, Linked(Asked(query), m, k), m = query.about \/ m \in deps'
        PROVE  k \in worklist' \cup deps'
    <2>1. CASE m = query.about \/ m \in deps
      <3>1. k \in worklist \cup deps
        BY <1>3, <1>6, <2>1 DEF QueryOK
      <3> QED
        BY <1>1, <3>1
    <2>2. CASE m = n
      BY <1>1, <1>4, <1>6, <2>2
    <2> QED
      BY <1>1, <1>6, <2>1, <2>2
  <1>7. QueryOK'
    BY <1>1, <1>2, <1>3, <1>5, <1>6 DEF QueryOK
  <1> QED
    BY <1>2, <1>7

-----------------------------------------------------------------------------
(* No question is being answered while the graph is made.                  *)
IInv == TreeOK /\ GraphOK /\ QueryOK /\ (query # None => visited = InTree)

LEMMA Inductive == IInv /\ [Next]_vars => IInv'
  <1> SUFFICES ASSUME IInv, [Next]_vars PROVE IInv'
    OBVIOUS
  <1>1. TreeOK /\ GraphOK /\ QueryOK /\ (query # None => visited = InTree)
    BY DEF IInv
  <1>2. ASSUME NEW x \in CFGNode, Visit(x) PROVE IInv'
    <2>1. /\ query = None
          /\ query' = query /\ worklist' = worklist /\ deps' = deps
      BY <1>1, <1>2 DEF Visit
    <2>2. QueryOK'
      BY <1>1, <2>1 DEF QueryOK
    <2> QED
      BY <1>1, <1>2, <2>1, <2>2, VisitOK DEF IInv
  <1>3. ASSUME NEW q \in Question, Ask(q) PROVE IInv'
    <2>1. (visited = InTree)'
      BY <1>3 DEF Ask, InTree
    <2> QED
      BY <1>1, <1>3, <2>1, AskOK DEF IInv
  <1>4. ASSUME NEW n \in CFGNode, Pop(n) PROVE IInv'
    <2>1. (query # None => visited = InTree)'
      BY <1>1, <1>4 DEF Pop, InTree
    <2> QED
      BY <1>1, <1>4, <2>1, PopOK DEF IInv
  <1>5. CASE UNCHANGED vars
    <2>1. /\ UNCHANGED <<cfg, ipostdom, graph, visited>>
          /\ query' = query /\ worklist' = worklist /\ deps' = deps
      BY <1>5 DEF vars
    <2>2. TreeOK' /\ GraphOK'
      BY <1>1, <2>1, SameGraph
    <2>3. Asked(query)' = Asked(query) /\ Answer(query)' = Answer(query)
      BY <2>1 DEF Asked, Answer
    <2>4. QueryOK'
      BY <1>1, <2>1, <2>3 DEF QueryOK
    <2>5. (query # None => visited = InTree)'
      BY <1>1, <2>1 DEF InTree
    <2> QED
      BY <2>2, <2>4, <2>5 DEF IInv
  <1> QED
    BY <1>2, <1>3, <1>4, <1>5 DEF Next

LEMMA IInvInvariant == Spec => []IInv
  <1>1. Init => IInv
    <2>1. Init => QueryOK /\ query = None
      BY DEF Init, QueryOK
    <2> QED
      BY <2>1, InitOK DEF IInv
  <1> QED
    BY <1>1, Inductive, PTL DEF Spec

(* Who depends on whom names blocks and the end of the function only, and  *)
(* nobody depends on the end: control_dep_graph.rs indexes its map of the  *)
(* tree with what it finds, and would panic on another.                    *)
THEOREM ControlTyped == Spec => []TypeOK
  <1>1. IInv => TypeOK
    <2> SUFFICES ASSUME IInv PROVE TypeOK
      OBVIOUS
    <2>1. TreeOK /\ GraphOK /\ QueryOK
      BY DEF IInv
    <2>2. graph \subseteq InTree \X (InTree \ {Return})
      <3>1. ASSUME NEW e \in graph
            PROVE  e = <<e[1], e[2]>> /\ e[1] \in InTree /\ e[2] \in InTree \ {Return}
        <4>1. e = <<e[1], e[2]>>
          BY <2>1 DEF GraphOK
        <4>2. Linked(graph, e[1], e[2])
          BY DEF Linked
        <4> QED
          BY <2>1, <4>1, <4>2, GraphInTree
      <3> QED
        BY <3>1
    <2>3. worklist \cup deps \subseteq InTree
      BY <2>1, AnswerInTree DEF QueryOK
    <2> QED
      BY <2>1, <2>2, <2>3 DEF TypeOK, TreeOK, GraphOK, QueryOK
  <1> QED
    BY <1>1, IInvInvariant, PTL

(* Whatever the function's graph, and in whatever order the leaves come,   *)
(* ControlDependenceGraph::new finds for each node it has been at exactly  *)
(* the nodes it is control dependent on.                                   *)
THEOREM DependencesAreExact == Spec => []DependenceExact
  <1>1. IInv => DependenceExact
    BY DEF IInv, GraphOK
  <1> QED
    BY <1>1, IInvInvariant, PTL

-----------------------------------------------------------------------------
(* A node on a cycle of a graph is on one of the reversed graph.           *)
LEMMA CycleHalf ==
    ASSUME NEW edges, NEW n, NEW s, Linked(edges, n, s), Reaches(edges, s, n)
    PROVE  \E z : Linked(Reversed(edges), n, z) /\ Reaches(Reversed(edges), z, n)
  <1>1. Linked(Reversed(edges), s, n) /\ Reaches(Reversed(edges), n, s)
    BY LinkedFacts, ReversedReaches
  <1>2. CASE s = n
    BY <1>1, <1>2, ReachesRefl
  <1>3. CASE s # n
    <2>1. PICK z : Linked(Reversed(edges), n, z) /\ Reaches(Reversed(edges), z, s)
      BY <1>1, <1>3, ReachesMore
    <2> QED
      BY <1>1, <2>1, ReachesEdge, ReachesTrans
  <1> QED
    BY <1>2, <1>3

LEMMA Cycle ==
    ASSUME NEW edges, NEW n
    PROVE  (\E s : Linked(edges, n, s) /\ Reaches(edges, s, n))
           <=> \E z : Linked(Reversed(edges), n, z) /\ Reaches(Reversed(edges), z, n)
  <1> DEFINE back == Reversed(edges)
  <1>1. \A x, y : Linked(Reversed(back), x, y) <=> Linked(edges, x, y)
    BY LinkedFacts
  <1>2. \A x, y : Reaches(Reversed(back), x, y) => Reaches(edges, x, y)
    BY <1>1, SameLinks
  <1>3. ASSUME NEW z, Linked(back, n, z), Reaches(back, z, n)
        PROVE  \E s : Linked(edges, n, s) /\ Reaches(edges, s, n)
    <2> HIDE DEF back
    <2>1. PICK s : Linked(Reversed(back), n, s) /\ Reaches(Reversed(back), s, n)
      BY <1>3, CycleHalf
    <2> QED
      BY <1>1, <1>2, <2>1
  <1> QED
    BY <1>3, CycleHalf

(* The ways of asking: by a path, and by an edge and then a path.          *)
LEMMA AskedIs ==
    ASSUME NEW q \in Question, NEW n
    PROVE  (\E z : Linked(Asked(q), q.about, z) /\ Reaches(Asked(q), z, n))
           <=> IF q.way = "dependencies" THEN is_control_dependent(q.about, n)
               ELSE is_control_dependent(n, q.about)
  <1> DEFINE a == q.about
  <1>1. ASSUME NEW edges, a # n
        PROVE  (\E z : Linked(edges, a, z) /\ Reaches(edges, z, n)) <=> Reaches(edges, a, n)
    BY <1>1, ReachesMore, ReachesEdge, ReachesTrans
  <1>2. CASE q.way = "dependencies"
    <2>1. Asked(q) = graph
      BY <1>2 DEF Asked
    <2>2. is_control_dependent(a, n)
          <=> \E z : Linked(graph, a, z) /\ Reaches(graph, z, n)
      BY <1>1, LinkedFacts DEF is_control_dependent
    <2> QED
      BY <1>2, <2>1, <2>2
  <1>3. CASE q.way # "dependencies"
    <2>1. Asked(q) = Reversed(graph)
      BY <1>3 DEF Asked
    <2>2. CASE a # n
      <3>1. is_control_dependent(n, a) <=> Reaches(Reversed(graph), a, n)
        BY <2>2, ReversedReaches DEF is_control_dependent
      <3> QED
        BY <1>1, <1>3, <2>1, <2>2, <3>1
    <2>3. CASE a = n
      <3>1. is_control_dependent(n, a) <=> \E s : Linked(graph, n, s) /\ Reaches(graph, s, n)
        BY <2>3, LinkedFacts DEF is_control_dependent
      <3> QED
        BY <1>3, <2>1, <2>3, <3>1, Cycle
    <2> QED
      BY <2>2, <2>3
  <1> QED
    BY <1>2, <1>3

(* The iterators, which walk the graph with a worklist, and                *)
(* is_control_dependent, which asks petgraph for a path, give one answer   *)
(* to the same question, cycles and questions asked backwards included.    *)
THEOREM QuestionsAgree == Spec => []AnswersAgree
  <1>1. IInv => AnswersAgree
    <2> SUFFICES ASSUME IInv, query # None, worklist = {}
                 PROVE  deps = {n \in CFGNode :
                          IF query.way = "dependencies"
                          THEN is_control_dependent(query.about, n)
                          ELSE is_control_dependent(n, query.about)}
      BY DEF AnswersAgree
    <2>1. query \in Question /\ deps \subseteq Answer(query)
      BY DEF IInv, QueryOK
    <2>2. \A m, n : Linked(Asked(query), m, n) /\ (m = query.about \/ m \in deps) => n \in deps
      BY DEF IInv, QueryOK
    <2>3. ASSUME NEW n \in Answer(query) PROVE n \in deps
      <3>1. PICK z : Linked(Asked(query), query.about, z) /\ Reaches(Asked(query), z, n)
        BY DEF Answer
      <3>2. z \in deps /\ Closed(Asked(query), deps)
        BY <2>2, <3>1 DEF Closed
      <3> QED
        BY <3>1, <3>2, ReachesElim
    <2>4. deps = Answer(query)
      BY <2>1, <2>3
    <2> QED
      BY <2>1, <2>4, AskedIs DEF Answer
  <1> QED
    BY <1>1, IInvInvariant, PTL
=============================================================================
