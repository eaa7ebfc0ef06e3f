------------------------- MODULE DominatorTreeProofs -------------------------
(***************************************************************************)
(* The builder's loop finds the dominators of any finite graph, whichever  *)
(* depth-first order the nodes are numbered in.                            *)
(***************************************************************************)
EXTENDS DominatorTree, FlowGraphProofs

-----------------------------------------------------------------------------
(* A tree of estimates: f gives each node but Entry a parent with a smaller*)
(* number.                                                                 *)
TreeOK(f) ==
    /\ rpo_numbers[Entry] = 1 /\ None \notin DOMAIN f
    /\ \A b \in DOMAIN f : rpo_numbers[b] \in Nat \ {0}
    /\ \A a, b \in DOMAIN f : rpo_numbers[a] = rpo_numbers[b] => a = b
    /\ Entry \in DOMAIN f => f[Entry] = None
    /\ \A b \in DOMAIN f \ {Entry} :
          f[b] \in DOMAIN f /\ rpo_numbers[f[b]] < rpo_numbers[b]

Parents(f) == {<<f[b], b>> : b \in {n \in DOMAIN f : f[n] # None}}

(* x is y, or above it in the tree.                                        *)
Over(f, x, y) == Reaches(Parents(f), x, y)

LEMMA LeastNumbered ==
    ASSUME NEW S, S # {}, \A n \in S : rpo_numbers[n] \in Nat
    PROVE  \E z \in S : \A y \in S : rpo_numbers[z] <= rpo_numbers[y]
  <1> DEFINE T == {rpo_numbers[n] : n \in S}
  <1>1. T \in SUBSET Nat /\ T # {}
    OBVIOUS
  <1>2. PICK x \in T : \A y \in T : x <= y
    BY <1>1, LeastNat
  <1> QED
    BY <1>2

LEMMA ParentLinks ==
    ASSUME NEW f, TreeOK(f), NEW m, NEW n
    PROVE  Linked(Parents(f), m, n) <=> n \in DOMAIN f /\ n # Entry /\ m = f[n]
  <1>1. ASSUME Linked(Parents(f), m, n) PROVE n \in DOMAIN f /\ n # Entry /\ m = f[n]
    <2>1. PICK e \in Parents(f) : e[1] = m /\ e[2] = n
      BY <1>1 DEF Linked
    <2>2. PICK b \in DOMAIN f : f[b] # None /\ e = <<f[b], b>>
      BY DEF Parents
    <2> QED
      BY <2>1, <2>2 DEF TreeOK
  <1>2. ASSUME n \in DOMAIN f, n # Entry, m = f[n] PROVE Linked(Parents(f), m, n)
    <2>1. f[n] # None
      BY <1>2 DEF TreeOK
    <2>2. <<f[n], n>> \in Parents(f) /\ <<f[n], n>>[1] = m /\ <<f[n], n>>[2] = n
      BY <1>2, <2>1 DEF Parents
    <2> QED
      BY <2>2 DEF Linked
  <1> QED
    BY <1>1, <1>2

LEMMA OverUp ==
    ASSUME NEW f, TreeOK(f), NEW x, NEW y \in DOMAIN f \ {Entry}
    PROVE  Over(f, x, y) <=> x = y \/ Over(f, x, f[y])
  <1>1. Linked(Parents(f), f[y], y)
    BY ParentLinks
  <1>2. ASSUME Over(f, x, y), x # y PROVE Over(f, x, f[y])
    <2>1. PICK z : Linked(Parents(f), z, y) /\ Reaches(Parents(f), x, z)
      BY <1>2, ReachesLast DEF Over
    <2> QED
      BY <2>1, ParentLinks DEF Over
  <1>3. Over(f, x, f[y]) => Over(f, x, y)
    BY <1>1, ReachesEdge, ReachesTrans DEF Over
  <1>4. Over(f, y, y)
    BY ReachesRefl DEF Over
  <1> QED
    BY <1>2, <1>3, <1>4

LEMMA OverEntry ==
    ASSUME NEW f, TreeOK(f), NEW x, Over(f, x, Entry)
    PROVE  x = Entry
  BY ReachesLast, ParentLinks DEF Over

LEMMA OverNumber ==
    ASSUME NEW f, TreeOK(f), NEW x, NEW y \in DOMAIN f, Over(f, x, y)
    PROVE  x \in DOMAIN f /\ (x = y \/ rpo_numbers[x] < rpo_numbers[y])
  <1> DEFINE S == {x} \cup {n \in DOMAIN f : x \in DOMAIN f /\ rpo_numbers[x] < rpo_numbers[n]}
  <1>1. ASSUME NEW m, NEW n, Linked(Parents(f), m, n), m \in S
        PROVE  n \in S
    <2>1. n \in DOMAIN f \ {Entry} /\ m = f[n]
      BY <1>1, ParentLinks
    <2>2. /\ m \in DOMAIN f /\ rpo_numbers[m] < rpo_numbers[n]
          /\ rpo_numbers[m] \in Nat /\ rpo_numbers[n] \in Nat
      BY <2>1 DEF TreeOK
    <2>3. x \in DOMAIN f /\ rpo_numbers[x] <= rpo_numbers[m] /\ rpo_numbers[x] \in Nat
      BY <1>1, <2>2 DEF TreeOK
    <2> QED
      BY <2>1, <2>2, <2>3
  <1>2. x \in S /\ Closed(Parents(f), S)
    BY <1>1 DEF Closed
  <1>3. y \in S
    <2> HIDE DEF S
    <2> QED
      BY <1>2, ReachesElim DEF Over
  <1> QED
    BY <1>3

(* Of two nodes above a third, the one with the smaller number is above    *)
(* the other.                                                              *)
LEMMA OverChain ==
    ASSUME NEW f, TreeOK(f), NEW x, NEW y, NEW z \in DOMAIN f,
           Over(f, x, z), Over(f, y, z), rpo_numbers[x] <= rpo_numbers[y]
    PROVE  Over(f, x, y)
  <1> DEFINE Bad == {n \in DOMAIN f : Over(f, x, n) /\ Over(f, y, n)}
  <1> SUFFICES ASSUME ~Over(f, x, y) PROVE FALSE
    OBVIOUS
  <1>1. PICK n \in Bad : \A k \in Bad : rpo_numbers[n] <= rpo_numbers[k]
    <2>1. Bad # {} /\ \A k \in Bad : rpo_numbers[k] \in Nat
      BY DEF TreeOK
    <2> HIDE DEF Bad
    <2> QED
      BY <2>1, LeastNumbered
  <1>2. n \in DOMAIN f /\ Over(f, x, n) /\ Over(f, y, n)
    BY <1>1
  <1>3. n # y
    BY <1>2
  <1>4. n # Entry
    BY <1>2, <1>3, OverEntry
  <1>5. n # x
    <2>1. ASSUME n = x PROVE FALSE
      <3>1. /\ y \in DOMAIN f /\ rpo_numbers[y] < rpo_numbers[x]
            /\ rpo_numbers[x] \in Nat /\ rpo_numbers[y] \in Nat
        BY <1>2, <1>3, <2>1, OverNumber DEF TreeOK
      <3> QED
        BY <3>1
    <2> QED
      BY <2>1
  <1>6. Over(f, x, f[n]) /\ Over(f, y, f[n])
    BY <1>2, <1>3, <1>4, <1>5, OverUp
  <1>7. /\ f[n] \in DOMAIN f /\ rpo_numbers[f[n]] < rpo_numbers[n]
        /\ rpo_numbers[f[n]] \in Nat /\ rpo_numbers[n] \in Nat
    BY <1>2, <1>4 DEF TreeOK
  <1>8. f[n] \in Bad
    BY <1>6, <1>7
  <1>9. rpo_numbers[n] <= rpo_numbers[f[n]]
    BY <1>1, <1>8
  <1> QED
    BY <1>7, <1>9

-----------------------------------------------------------------------------
(* The loop of common_dominator ends: both nodes climb a tree of estimates.*)
Bounded == \E N \in Nat : \A b \in DOMAIN idoms : rpo_numbers[b] <= N

Pairs == (DOMAIN idoms) \X (DOMAIN idoms)

LEMMA Paired ==
    /\ \A a, b \in DOMAIN idoms : <<a, b>> \in Pairs /\ <<a, b>>[1] = a /\ <<a, b>>[2] = b
    /\ \A at \in Pairs : /\ at[1] \in DOMAIN idoms /\ at[2] \in DOMAIN idoms
                         /\ at = <<at[1], at[2]>>
  BY DEF Pairs

LEMMA Applied ==
    ASSUME NEW S, NEW T, NEW g \in [S -> T], NEW x \in S
    PROVE  g[x] \in T
  OBVIOUS

Step(g, a, b) ==
    CASE rpo_numbers[a] < rpo_numbers[b] -> g[<<a, idoms[b]>>]
      [] rpo_numbers[a] > rpo_numbers[b] -> g[<<idoms[a], b>>]
      [] OTHER -> a

Climb(g) == [at \in Pairs |-> Step(g, at[1], at[2])]

Sum(a, b) == rpo_numbers[a] + rpo_numbers[b]

LEMMA StepRight ==
    ASSUME TreeOK(idoms), NEW a \in DOMAIN idoms, NEW b \in DOMAIN idoms, NEW g,
           rpo_numbers[a] < rpo_numbers[b]
    PROVE  /\ b # Entry /\ idoms[b] \in DOMAIN idoms
           /\ Sum(a, idoms[b]) \in Nat /\ Sum(a, b) \in Nat /\ Sum(a, idoms[b]) < Sum(a, b)
           /\ Step(g, a, b) = g[<<a, idoms[b]>>]
  <1>1. /\ rpo_numbers[a] \in Nat \ {0} /\ rpo_numbers[b] \in Nat \ {0}
        /\ rpo_numbers[Entry] = 1
    BY DEF TreeOK
  <1>2. b # Entry
    BY <1>1
  <1>3. /\ idoms[b] \in DOMAIN idoms /\ rpo_numbers[idoms[b]] < rpo_numbers[b]
        /\ rpo_numbers[idoms[b]] \in Nat
    BY <1>2 DEF TreeOK
  <1>4. Step(g, a, b) = g[<<a, idoms[b]>>]
    BY <1>1 DEF Step
  <1>5. /\ Sum(a, idoms[b]) \in Nat /\ Sum(a, b) \in Nat
        /\ Sum(a, idoms[b]) < Sum(a, b)
    BY <1>1, <1>3 DEF Sum
  <1> QED
    BY <1>2, <1>3, <1>4, <1>5

LEMMA StepLeft ==
    ASSUME TreeOK(idoms), NEW a \in DOMAIN idoms, NEW b \in DOMAIN idoms, NEW g,
           rpo_numbers[b] < rpo_numbers[a]
    PROVE  /\ a # Entry /\ idoms[a] \in DOMAIN idoms
           /\ Sum(idoms[a], b) \in Nat /\ Sum(a, b) \in Nat /\ Sum(idoms[a], b) < Sum(a, b)
           /\ Step(g, a, b) = g[<<idoms[a], b>>]
  <1>1. /\ rpo_numbers[a] \in Nat \ {0} /\ rpo_numbers[b] \in Nat \ {0}
        /\ rpo_numbers[Entry] = 1
    BY DEF TreeOK
  <1>2. a # Entry
    BY <1>1
  <1>3. /\ idoms[a] \in DOMAIN idoms /\ rpo_numbers[idoms[a]] < rpo_numbers[a]
        /\ rpo_numbers[idoms[a]] \in Nat
    BY <1>2 DEF TreeOK
  <1>4. Step(g, a, b) = g[<<idoms[a], b>>]
    BY <1>1 DEF Step
  <1>5. /\ Sum(idoms[a], b) \in Nat /\ Sum(a, b) \in Nat
        /\ Sum(idoms[a], b) < Sum(a, b)
    BY <1>1, <1>3 DEF Sum
  <1> QED
    BY <1>2, <1>3, <1>4, <1>5

LEMMA StepSame ==
    ASSUME TreeOK(idoms), NEW a \in DOMAIN idoms, NEW b \in DOMAIN idoms, NEW g,
           ~(rpo_numbers[a] < rpo_numbers[b]), ~(rpo_numbers[b] < rpo_numbers[a])
    PROVE  a = b /\ Step(g, a, b) = a
  <1>1. rpo_numbers[a] \in Nat /\ rpo_numbers[b] \in Nat
    BY DEF TreeOK
  <1>2. rpo_numbers[a] = rpo_numbers[b]
    BY <1>1
  <1>3. a = b
    BY <1>2 DEF TreeOK
  <1>4. Step(g, a, b) = a
    BY <1>1 DEF Step
  <1> QED
    BY <1>3, <1>4

(* A function that is what it should be of pairs with a small sum.         *)
GoodTo(g, k) ==
    /\ g \in [Pairs -> DOMAIN idoms]
    /\ \A a, b \in DOMAIN idoms : Sum(a, b) <= k => g[<<a, b>>] = Step(g, a, b)

LEMMA GoodNext ==
    ASSUME TreeOK(idoms), NEW k \in Nat, NEW g, GoodTo(g, k)
    PROVE  \E h : GoodTo(h, k + 1)
  <1> DEFINE D == DOMAIN idoms
             Val(a, b) == IF Sum(a, b) <= k THEN g[<<a, b>>] ELSE Step(g, a, b)
             h == [ab \in Pairs |-> Val(ab[1], ab[2])]
  <1>1. ASSUME NEW a \in D, NEW b \in D
        PROVE  g[<<a, b>>] \in D
    <2>1. g \in [Pairs -> D]
      BY DEF GoodTo
    <2>2. <<a, b>> \in Pairs
      BY Paired
    <2> QED
      BY <2>1, <2>2, Applied
  <1>2. ASSUME NEW a \in D, NEW b \in D
        PROVE  Val(a, b) \in D
    <2>1. Step(g, a, b) \in D
      <3>1. CASE rpo_numbers[a] < rpo_numbers[b]
        <4>1. idoms[b] \in D /\ Step(g, a, b) = g[<<a, idoms[b]>>]
          BY <3>1, StepRight
        <4> QED
          BY <1>1, <4>1
      <3>2. CASE rpo_numbers[b] < rpo_numbers[a]
        <4>1. idoms[a] \in D /\ Step(g, a, b) = g[<<idoms[a], b>>]
          BY <3>2, StepLeft
        <4> QED
          BY <1>1, <4>1
      <3>3. CASE ~(rpo_numbers[a] < rpo_numbers[b]) /\ ~(rpo_numbers[b] < rpo_numbers[a])
        BY <3>3, StepSame
      <3> QED
        BY <3>1, <3>2, <3>3
    <2> QED
      BY <1>1, <2>1
  <1> HIDE DEF Val
  <1>3. h \in [Pairs -> D]
    BY <1>2, Paired
  <1>4. ASSUME NEW a \in D, NEW b \in D
        PROVE  h[<<a, b>>] = Val(a, b)
    <2> DEFINE at == <<a, b>>
    <2>1. at \in Pairs /\ at[1] = a /\ at[2] = b
      BY Paired
    <2> HIDE DEF at
    <2>2. h[at] = Val(at[1], at[2])
      BY <2>1
    <2>3. h[at] = Val(a, b)
      BY <2>1, <2>2
    <2> QED
      BY <2>3 DEF at
  <1> HIDE DEF h
  <1>5. ASSUME NEW a \in D, NEW b \in D, Sum(a, b) <= k
        PROVE  h[<<a, b>>] = g[<<a, b>>]
    BY <1>4, <1>5 DEF Val
  <1>6. ASSUME NEW a \in D, NEW b \in D
        PROVE  h[<<a, b>>] = Step(g, a, b)
    <2>1. CASE Sum(a, b) <= k
      <3>1. g[<<a, b>>] = Step(g, a, b)
        BY <2>1 DEF GoodTo
      <3> QED
        BY <1>5, <2>1, <3>1
    <2>2. CASE ~(Sum(a, b) <= k)
      BY <1>4, <2>2 DEF Val
    <2> QED
      BY <2>1, <2>2
  <1>7. ASSUME NEW a \in D, NEW b \in D, Sum(a, b) <= k + 1
        PROVE  Step(g, a, b) = Step(h, a, b)
    <2>1. CASE rpo_numbers[a] < rpo_numbers[b]
      <3>1. /\ idoms[b] \in D /\ Sum(a, idoms[b]) \in Nat /\ Sum(a, idoms[b]) < Sum(a, b)
            /\ Sum(a, b) \in Nat
        BY <2>1, StepRight
      <3>2. Step(g, a, b) = g[<<a, idoms[b]>>] /\ Step(h, a, b) = h[<<a, idoms[b]>>]
        BY <2>1, StepRight
      <3>3. Sum(a, idoms[b]) <= k
        BY <1>7, <3>1
      <3>4. h[<<a, idoms[b]>>] = g[<<a, idoms[b]>>]
        BY <1>5, <3>1, <3>3
      <3> QED
        BY <3>2, <3>4
    <2>2. CASE rpo_numbers[b] < rpo_numbers[a]
      <3>1. /\ idoms[a] \in D /\ Sum(idoms[a], b) \in Nat /\ Sum(idoms[a], b) < Sum(a, b)
            /\ Sum(a, b) \in Nat
        BY <2>2, StepLeft
      <3>2. Step(g, a, b) = g[<<idoms[a], b>>] /\ Step(h, a, b) = h[<<idoms[a], b>>]
        BY <2>2, StepLeft
      <3>3. Sum(idoms[a], b) <= k
        BY <1>7, <3>1
      <3>4. h[<<idoms[a], b>>] = g[<<idoms[a], b>>]
        BY <1>5, <3>1, <3>3
      <3> QED
        BY <3>2, <3>4
    <2>3. CASE ~(rpo_numbers[a] < rpo_numbers[b]) /\ ~(rpo_numbers[b] < rpo_numbers[a])
      <3>1. Step(g, a, b) = a /\ Step(h, a, b) = a
        BY <2>3, StepSame
      <3> QED
        BY <3>1
    <2> QED
      BY <2>1, <2>2, <2>3
  <1>8. ASSUME NEW a \in D, NEW b \in D, Sum(a, b) <= k + 1
        PROVE  h[<<a, b>>] = Step(h, a, b)
    BY <1>6, <1>7, <1>8
  <1>9. GoodTo(h, k + 1)
    BY <1>3, <1>8 DEF GoodTo
  <1> QED
    BY <1>9

LEMMA ClimbExists ==
    ASSUME TreeOK(idoms), Bounded
    PROVE  \E g : g = Climb(g)
  <1> DEFINE D == DOMAIN idoms
             Bad == {k \in Nat : \A g : ~GoodTo(g, k)}
  <1>1. Bad = {}
    <2> SUFFICES ASSUME Bad # {} PROVE FALSE
      OBVIOUS
    <2>1. PICK k \in Bad : \A j \in Bad : k <= j
      BY LeastNat
    <2>2. k # 0
      <3> DEFINE first == [ab \in Pairs |-> ab[1]]
      <3>1. first \in [Pairs -> D]
        BY Paired
      <3>2. \A a, b \in D : Sum(a, b) \in Nat /\ Sum(a, b) # 0
        BY DEF Sum, TreeOK
      <3> HIDE DEF first
      <3>3. \A a, b \in D : ~(Sum(a, b) <= 0)
        BY <3>2
      <3>4. GoodTo(first, 0)
        BY <3>1, <3>3 DEF GoodTo
      <3> QED
        BY <3>4
    <2>3. k - 1 \in Nat /\ k - 1 \notin Bad /\ (k - 1) + 1 = k
      BY <2>1, <2>2
    <2>4. PICK g : GoodTo(g, k - 1)
      BY <2>3
    <2>5. \E h : GoodTo(h, (k - 1) + 1)
      BY <2>3, <2>4, GoodNext
    <2> QED
      BY <2>1, <2>3, <2>5
  <1>2. PICK N \in Nat : \A b \in D : rpo_numbers[b] <= N
    BY DEF Bounded
  <1>3. PICK g : GoodTo(g, N + N)
    BY <1>1
  <1>4. ASSUME NEW a \in D, NEW b \in D
        PROVE  g[<<a, b>>] = Step(g, a, b)
    <2>1. Sum(a, b) <= N + N
      BY <1>2 DEF Sum, TreeOK
    <2> QED
      BY <1>3, <2>1 DEF GoodTo
  <1>5. g \in [Pairs -> D]
    BY <1>3 DEF GoodTo
  <1>6. ASSUME NEW at \in Pairs PROVE g[at] = Step(g, at[1], at[2])
    <2>1. at[1] \in D /\ at[2] \in D /\ at = <<at[1], at[2]>>
      BY Paired
    <2> QED
      BY <1>4, <2>1
  <1>7. g = [at \in Pairs |-> Step(g, at[1], at[2])]
    BY <1>5, <1>6
  <1>8. g = Climb(g)
    BY <1>7 DEF Climb
  <1> QED
    BY <1>8

LEMMA ClimbIs ==
    ASSUME TreeOK(idoms), Bounded
    PROVE  \E g : g = Climb(g) /\ \A a, b : CommonDominator(a, b) = g[<<a, b>>]
  <1> DEFINE cl == CHOOSE g : g = Climb(g)
  <1>1. ASSUME NEW a, NEW b PROVE CommonDominator(a, b) = cl[<<a, b>>]
    BY DEF CommonDominator, Climb, Step, Pairs
  <1>2. cl = Climb(cl)
    <2>1. \E g : g = Climb(g)
      BY ClimbExists
    <2> QED
      BY <2>1
  <1> HIDE DEF cl
  <1> QED
    BY <1>1, <1>2

(* What is above the common dominator is what is above both nodes.         *)
LEMMA CommonIs ==
    ASSUME TreeOK(idoms), Bounded, NEW a \in DOMAIN idoms, NEW b \in DOMAIN idoms
    PROVE  /\ CommonDominator(a, b) \in DOMAIN idoms
           /\ \A x : Over(idoms, x, CommonDominator(a, b))
                     <=> Over(idoms, x, a) /\ Over(idoms, x, b)
  <1> DEFINE D == DOMAIN idoms
             Right(c, d, m) == /\ m \in D
                               /\ \A x : Over(idoms, x, m)
                                         <=> Over(idoms, x, c) /\ Over(idoms, x, d)
  <1>1. PICK g : g = Climb(g) /\ \A c, d : CommonDominator(c, d) = g[<<c, d>>]
    BY ClimbIs
  <1>2. ASSUME NEW c \in D, NEW d \in D PROVE g[<<c, d>>] = Step(g, c, d)
    <2> DEFINE at == <<c, d>>
               h == Climb(g)
    <2>1. at \in Pairs /\ at[1] = c /\ at[2] = d
      BY Paired
    <2> HIDE DEF at
    <2>2. h[at] = Step(g, at[1], at[2])
      BY <2>1 DEF Climb
    <2>3. g[at] = h[at]
      BY <1>1
    <2> HIDE DEF h
    <2>4. g[at] = Step(g, c, d)
      BY <2>1, <2>2, <2>3
    <2> QED
      BY <2>4 DEF at
  <1> DEFINE Bad == {k \in Nat : \E c, d \in D : Sum(c, d) = k /\ ~Right(c, d, g[<<c, d>>])}
  <1>3. Bad = {}
    <2> SUFFICES ASSUME Bad # {} PROVE FALSE
      OBVIOUS
    <2>1. PICK k \in Bad : \A j \in Bad : k <= j
      BY LeastNat
    <2>2. PICK c \in D, d \in D : Sum(c, d) = k /\ ~Right(c, d, g[<<c, d>>])
      BY <2>1
    <2>3. ASSUME NEW m \in D, NEW n \in D, Sum(m, n) \in Nat, Sum(m, n) < k
          PROVE  Right(m, n, g[<<m, n>>])
      <3> HIDE DEF Right
      <3> SUFFICES ASSUME ~Right(m, n, g[<<m, n>>]) PROVE FALSE
        OBVIOUS
      <3>1. Sum(m, n) \in Bad
        BY <2>3
      <3>2. k <= Sum(m, n) /\ k \in Nat
        BY <2>1, <3>1
      <3> QED
        BY <2>3, <3>2
    <2> HIDE DEF Bad
    <2>4. CASE rpo_numbers[c] < rpo_numbers[d]
      <3>1. /\ d \in D \ {Entry} /\ idoms[d] \in D
            /\ Sum(c, idoms[d]) \in Nat /\ Sum(c, idoms[d]) < k
            /\ Step(g, c, d) = g[<<c, idoms[d]>>]
        BY <2>2, <2>4, StepRight
      <3> HIDE DEF Right
      <3>3. Right(c, idoms[d], g[<<c, idoms[d]>>]) /\ g[<<c, d>>] = g[<<c, idoms[d]>>]
        BY <1>2, <2>3, <3>1
      <3>2. ASSUME NEW x
            PROVE  Over(idoms, x, c) /\ Over(idoms, x, d)
                   <=> Over(idoms, x, c) /\ Over(idoms, x, idoms[d])
        <4>1. Over(idoms, x, d) <=> x = d \/ Over(idoms, x, idoms[d])
          BY <3>1, OverUp
        <4>2. ~Over(idoms, d, c)
          <5>1. rpo_numbers[c] \in Nat /\ rpo_numbers[d] \in Nat
            BY DEF TreeOK
          <5> QED
            BY <2>4, <5>1, OverNumber
        <4> QED
          BY <4>1, <4>2
      <3> QED
        BY <2>2, <3>1, <3>2, <3>3 DEF Right
    <2>5. CASE rpo_numbers[d] < rpo_numbers[c]
      <3>1. /\ c \in D \ {Entry} /\ idoms[c] \in D
            /\ Sum(idoms[c], d) \in Nat /\ Sum(idoms[c], d) < k
            /\ Step(g, c, d) = g[<<idoms[c], d>>]
        BY <2>2, <2>5, StepLeft
      <3> HIDE DEF Right
      <3>3. Right(idoms[c], d, g[<<idoms[c], d>>]) /\ g[<<c, d>>] = g[<<idoms[c], d>>]
        BY <1>2, <2>3, <3>1
      <3>2. ASSUME NEW x
            PROVE  Over(idoms, x, c) /\ Over(idoms, x, d)
                   <=> Over(idoms, x, idoms[c]) /\ Over(idoms, x, d)
        <4>1. Over(idoms, x, c) <=> x = c \/ Over(idoms, x, idoms[c])
          BY <3>1, OverUp
        <4>2. ~Over(idoms, c, d)
          <5>1. rpo_numbers[c] \in Nat /\ rpo_numbers[d] \in Nat
            BY DEF TreeOK
          <5> QED
            BY <2>5, <5>1, OverNumber
        <4> QED
          BY <4>1, <4>2
      <3> QED
        BY <2>2, <3>1, <3>2, <3>3 DEF Right
    <2>6. CASE ~(rpo_numbers[c] < rpo_numbers[d]) /\ ~(rpo_numbers[d] < rpo_numbers[c])
      <3>1. c = d /\ g[<<c, d>>] = c
        BY <1>2, <2>6, StepSame
      <3> QED
        BY <2>2, <3>1
    <2> QED
      BY <2>4, <2>5, <2>6
  <1>4. Sum(a, b) \in Nat
    BY DEF Sum, TreeOK
  <1>5. Right(a, b, g[<<a, b>>])
    BY <1>3, <1>4
  <1> QED
    BY <1>1, <1>5

-----------------------------------------------------------------------------
(* The fold of compute_idom over a set of predecessors.                    *)
Item(base, h, s) ==
    IF s = {} THEN base
    ELSE LET x == CHOOSE x \in s : TRUE IN CommonDominator(x, h[s \ {x}])

Iter(base, S, h) == [s \in SUBSET S |-> Item(base, h, s)]

(* The element x of s is the one the fold takes first.                     *)
Taken(S, s, x) ==
    /\ x \in s /\ s \ {x} \in SUBSET S
    /\ Cardinality(s \ {x}) \in Nat /\ Cardinality(s) \in Nat
    /\ Cardinality(s \ {x}) < Cardinality(s)
    /\ \A base, h : Item(base, h, s) = CommonDominator(x, h[s \ {x}])

LEMMA ItemIs ==
    ASSUME NEW S, IsFiniteSet(S), NEW s \in SUBSET S, s # {}
    PROVE  \E x : Taken(S, s, x)
  <1> DEFINE x == CHOOSE x \in s : TRUE
  <1>1. x \in s
    OBVIOUS
  <1>2. IsFiniteSet(s) /\ IsFiniteSet(s \ {x})
    BY FS_Subset
  <1>3. Cardinality(s) \in Nat /\ Cardinality(s \ {x}) \in Nat
    BY <1>2, FS_CardinalityType
  <1>4. Cardinality(s \ {x}) = Cardinality(s) - 1
    BY <1>1, <1>2, FS_RemoveElement
  <1>5. \A base, h : Item(base, h, s) = CommonDominator(x, h[s \ {x}])
    BY DEF Item
  <1> HIDE DEF x
  <1>6. s \ {x} \in SUBSET S
    OBVIOUS
  <1>7. Cardinality(s \ {x}) < Cardinality(s)
    BY <1>3, <1>4
  <1>8. Taken(S, s, x)
    BY <1>1, <1>3, <1>5, <1>6, <1>7 DEF Taken
  <1> QED
    BY <1>8

LEMMA IterExists ==
    ASSUME NEW S, IsFiniteSet(S), NEW base
    PROVE  \E h : h = Iter(base, S, h)
  <1> DEFINE Subsets == SUBSET S
             UpTo(h, k) == \A s \in Subsets : Cardinality(s) <= k => h[s] = Item(base, h, s)
             Bad == {k \in Nat : \A h : ~UpTo(h, k)}
  <1>1. \A s \in Subsets : Cardinality(s) \in Nat
    BY FS_Subset, FS_CardinalityType
  <1>2. ASSUME NEW k \in Nat, NEW g, UpTo(g, k)
        PROVE  \E h : UpTo(h, k + 1)
    <2> DEFINE h == [s \in Subsets |-> IF Cardinality(s) <= k THEN g[s] ELSE Item(base, g, s)]
    <2>1. ASSUME NEW s \in Subsets PROVE h[s] = Item(base, g, s)
      BY <1>2
    <2>2. ASSUME NEW s \in Subsets, Cardinality(s) <= k PROVE h[s] = g[s]
      BY <2>2
    <2> HIDE DEF h
    <2>3. ASSUME NEW s \in Subsets, Cardinality(s) <= k + 1
          PROVE  Item(base, g, s) = Item(base, h, s)
      <3>1. CASE s = {}
        BY <3>1 DEF Item
      <3>2. CASE s # {}
        <4>1. PICK x : Taken(S, s, x)
          BY <3>2, ItemIs
        <4>2. s \ {x} \in Subsets /\ Cardinality(s \ {x}) <= k
          BY <2>3, <4>1 DEF Taken
        <4>3. h[s \ {x}] = g[s \ {x}]
          BY <2>2, <4>2
        <4> QED
          BY <4>1, <4>3 DEF Taken
      <3> QED
        BY <3>1, <3>2
    <2>4. UpTo(h, k + 1)
      BY <2>1, <2>3
    <2> QED
      BY <2>4
  <1>3. \E h : UpTo(h, 0)
    <2> DEFINE h == [s \in Subsets |-> base]
    <2>1. ASSUME NEW s \in Subsets, Cardinality(s) <= 0
          PROVE  h[s] = Item(base, h, s)
      <3>1. Cardinality(s) = 0 /\ IsFiniteSet(s)
        BY <1>1, <2>1, FS_Subset
      <3>2. s = {}
        BY <3>1, FS_EmptySet
      <3> QED
        BY <3>2 DEF Item
    <2> HIDE DEF h
    <2>2. UpTo(h, 0)
      BY <2>1
    <2> QED
      BY <2>2
  <1> HIDE DEF UpTo
  <1>4. Bad = {}
    <2> SUFFICES ASSUME Bad # {} PROVE FALSE
      OBVIOUS
    <2>1. PICK k \in Bad : \A j \in Bad : k <= j
      BY LeastNat
    <2>2. k # 0
      BY <1>3
    <2>3. k - 1 \in Nat /\ k - 1 \notin Bad /\ (k - 1) + 1 = k
      BY <2>1, <2>2
    <2>4. \E h : UpTo(h, k)
      BY <1>2, <2>3
    <2> QED
      BY <2>1, <2>4
  <1>5. PICK g : UpTo(g, Cardinality(S))
    <2>1. Cardinality(S) \in Nat
      BY FS_CardinalityType
    <2> QED
      BY <1>4, <2>1
  <1>6. ASSUME NEW s \in Subsets PROVE g[s] = Item(base, g, s)
    <2>1. Cardinality(s) <= Cardinality(S)
      BY FS_Subset
    <2> QED
      BY <1>5, <2>1 DEF UpTo
  <1> DEFINE h == [s \in Subsets |-> g[s]]
  <1>7. ASSUME NEW s \in Subsets PROVE h[s] = g[s]
    OBVIOUS
  <1>8. ASSUME NEW s \in Subsets PROVE g[s] = Item(base, h, s)
    <2>1. CASE s = {}
      BY <1>6, <2>1 DEF Item
    <2>2. CASE s # {}
      <3> HIDE DEF h
      <3>1. PICK x : Taken(S, s, x)
        BY <2>2, ItemIs
      <3>2. h[s \ {x}] = g[s \ {x}]
        BY <1>7, <3>1 DEF Taken
      <3> QED
        BY <1>6, <3>1, <3>2 DEF Taken
    <2> QED
      BY <2>1, <2>2
  <1>9. h = [s \in Subsets |-> Item(base, h, s)]
    <2> DEFINE f == [s \in Subsets |-> Item(base, h, s)]
    <2>1. \A s \in Subsets : f[s] = g[s]
      BY <1>8
    <2> HIDE DEF Subsets
    <2> QED
      BY <1>8
  <1> QED
    BY <1>9 DEF Iter

LEMMA FoldIs ==
    ASSUME TreeOK(idoms), Bounded, NEW S \in SUBSET DOMAIN idoms, IsFiniteSet(S),
           NEW base \in DOMAIN idoms
    PROVE  LET c == FoldSet(CommonDominator, base, S) IN
           /\ c \in DOMAIN idoms
           /\ \A x : Over(idoms, x, c)
                     <=> Over(idoms, x, base) /\ \A y \in S : Over(idoms, x, y)
  <1> DEFINE it == CHOOSE h : h = Iter(base, S, h)
             Right(s, m) == /\ m \in DOMAIN idoms
                            /\ \A x : Over(idoms, x, m)
                                 <=> Over(idoms, x, base) /\ \A y \in s : Over(idoms, x, y)
             Bad == {k \in Nat : \E s \in SUBSET S : Cardinality(s) = k /\ ~Right(s, it[s])}
  <1>1. FoldSet(CommonDominator, base, S) = it[S]
    BY DEF FoldSet, MapThenFoldSet, Iter, Item
  <1>2. it = Iter(base, S, it)
    <2>1. \E h : h = Iter(base, S, h)
      BY IterExists
    <2> QED
      BY <2>1
  <1> HIDE DEF it
  <1>3. ASSUME NEW s \in SUBSET S PROVE it[s] = Item(base, it, s)
    <2> DEFINE f == Iter(base, S, it)
    <2>1. f[s] = Item(base, it, s)
      BY DEF Iter
    <2> HIDE DEF f
    <2>2. it = f
      BY <1>2 DEF f
    <2> QED
      BY <2>1, <2>2
  <1>4. \A s \in SUBSET S : Cardinality(s) \in Nat
    BY FS_Subset, FS_CardinalityType
  <1>5. Bad = {}
    <2> SUFFICES ASSUME Bad # {} PROVE FALSE
      OBVIOUS
    <2> HIDE DEF Right
    <2>1. PICK k \in Bad : \A j \in Bad : k <= j
      BY LeastNat
    <2>2. PICK s \in SUBSET S : Cardinality(s) = k /\ ~Right(s, it[s])
      BY <2>1
    <2>3. CASE s = {}
      <3>1. it[s] = base
        BY <1>3, <2>3 DEF Item
      <3> QED
        BY <2>2, <2>3, <3>1 DEF Right
    <2>4. CASE s # {}
      <3>1. PICK z : Taken(S, s, z)
        BY <2>4, ItemIs
      <3> DEFINE rest == s \ {z}
      <3>2. /\ z \in s /\ rest \in SUBSET S
            /\ Cardinality(rest) \in Nat /\ Cardinality(rest) < k
        BY <2>2, <3>1 DEF Taken
      <3>3. it[s] = CommonDominator(z, it[rest])
        BY <1>3, <3>1 DEF Taken
      <3>4. Right(rest, it[rest])
        <4> SUFFICES ASSUME ~Right(rest, it[rest]) PROVE FALSE
          OBVIOUS
        <4>1. Cardinality(rest) \in Bad
          BY <3>2
        <4>2. k <= Cardinality(rest) /\ k \in Nat
          BY <2>1, <4>1
        <4> QED
          BY <3>2, <4>2
      <3>5. it[rest] \in DOMAIN idoms /\ z \in DOMAIN idoms
        BY <3>2, <3>4 DEF Right
      <3>6. /\ it[s] \in DOMAIN idoms
            /\ \A x : Over(idoms, x, it[s]) <=> Over(idoms, x, z) /\ Over(idoms, x, it[rest])
        <4> DEFINE m == it[rest]
        <4>1. m \in DOMAIN idoms
          BY <3>5
        <4>2. it[s] = CommonDominator(z, m)
          BY <3>3
        <4> HIDE DEF m
        <4>3. /\ CommonDominator(z, m) \in DOMAIN idoms
              /\ \A x : Over(idoms, x, CommonDominator(z, m))
                       <=> Over(idoms, x, z) /\ Over(idoms, x, m)
          BY <3>5, <4>1, CommonIs
        <4>4. /\ it[s] \in DOMAIN idoms
              /\ \A x : Over(idoms, x, it[s]) <=> Over(idoms, x, z) /\ Over(idoms, x, m)
          BY <4>2, <4>3
        <4> QED
          BY <4>4 DEF m
      <3>7. \A x : Over(idoms, x, it[rest])
                   <=> Over(idoms, x, base) /\ \A y \in rest : Over(idoms, x, y)
        BY <3>4 DEF Right
      <3>8. \A y : y \in s <=> y = z \/ y \in rest
        BY <3>2
      <3> HIDE DEF rest
      <3>9. Right(s, it[s])
        BY <3>6, <3>7, <3>8 DEF Right
      <3> QED
        BY <2>2, <3>9
    <2> QED
      BY <2>3, <2>4
  <1>6. Right(S, it[S])
    <2>1. S \in SUBSET S /\ Cardinality(S) \in Nat
      BY <1>4
    <2> HIDE DEF Right
    <2> QED
      BY <1>5, <2>1
  <1> QED
    BY <1>1, <1>6

(* What is above the estimate compute_idom makes is what is above all of   *)
(* the predecessors that have one.                                         *)
LEMMA ComputeIdomIs ==
    ASSUME TreeOK(idoms), Bounded, IsFiniteSet(DOMAIN idoms),
           NEW b, b # Entry, ReachablePreds(b) # {}
    PROVE  /\ ComputeIdom(b) \in DOMAIN idoms
           /\ \A x : Over(idoms, x, ComputeIdom(b))
                     <=> \A p \in ReachablePreds(b) : Over(idoms, x, p)
  <1> DEFINE first == CHOOSE p \in ReachablePreds(b) : TRUE
             rest == ReachablePreds(b) \ {first}
  <1>1. ComputeIdom(b) = FoldSet(CommonDominator, first, rest)
    BY DEF ComputeIdom
  <1>2. ReachablePreds(b) \subseteq DOMAIN idoms
    BY DEF ReachablePreds
  <1>3. first \in ReachablePreds(b)
    OBVIOUS
  <1>4. first \in DOMAIN idoms /\ rest \in SUBSET DOMAIN idoms /\ IsFiniteSet(rest)
    BY <1>2, <1>3, FS_Subset
  <1>5. \A y : y \in ReachablePreds(b) <=> y = first \/ y \in rest
    BY <1>3
  <1> HIDE DEF first, rest
  <1>6. LET c == FoldSet(CommonDominator, first, rest) IN
        /\ c \in DOMAIN idoms
        /\ \A x : Over(idoms, x, c)
                  <=> Over(idoms, x, first) /\ \A y \in rest : Over(idoms, x, y)
    BY <1>4, FoldIs
  <1> QED
    BY <1>1, <1>5, <1>6

-----------------------------------------------------------------------------
(* What does not change between two nodes keeps one above the other.       *)
LEMMA OverKept ==
    ASSUME NEW f, TreeOK(f), NEW g, TreeOK(g), NEW x, NEW y \in DOMAIN f, Over(f, x, y),
           \A z \in DOMAIN f : rpo_numbers[x] < rpo_numbers[z] /\ rpo_numbers[z] <= rpo_numbers[y]
                               => z \in DOMAIN g /\ g[z] = f[z]
    PROVE  Over(g, x, y)
  <1> DEFINE Bad == {n \in DOMAIN f : /\ rpo_numbers[n] <= rpo_numbers[y]
                                      /\ Over(f, x, n) /\ ~Over(g, x, n)}
  <1> SUFFICES ASSUME ~Over(g, x, y) PROVE FALSE
    OBVIOUS
  <1>1. \A n \in DOMAIN f : rpo_numbers[n] \in Nat
    BY DEF TreeOK
  <1>2. PICK n \in Bad : \A k \in Bad : rpo_numbers[n] <= rpo_numbers[k]
    <2>1. y \in Bad /\ \A k \in Bad : rpo_numbers[k] \in Nat
      BY <1>1
    <2> HIDE DEF Bad
    <2> QED
      BY <2>1, LeastNumbered
  <1>3. /\ n \in DOMAIN f /\ rpo_numbers[n] <= rpo_numbers[y]
        /\ Over(f, x, n) /\ ~Over(g, x, n)
    BY <1>2
  <1>4. n # x
    BY <1>3, ReachesRefl DEF Over
  <1>5. n # Entry
    BY <1>3, <1>4, OverEntry
  <1>6. Over(f, x, f[n]) /\ x \in DOMAIN f /\ rpo_numbers[x] < rpo_numbers[n]
    BY <1>3, <1>4, <1>5, OverUp, OverNumber
  <1>7. n \in DOMAIN g /\ g[n] = f[n]
    BY <1>3, <1>6
  <1>8. ~Over(g, x, f[n])
    BY <1>3, <1>5, <1>7, OverUp
  <1>9. /\ f[n] \in DOMAIN f /\ rpo_numbers[f[n]] < rpo_numbers[n]
        /\ rpo_numbers[f[n]] \in Nat /\ rpo_numbers[n] \in Nat /\ rpo_numbers[y] \in Nat
    BY <1>1, <1>3, <1>5 DEF TreeOK
  <1>10. f[n] \in Bad
    BY <1>3, <1>6, <1>8, <1>9
  <1>11. rpo_numbers[n] <= rpo_numbers[f[n]]
    BY <1>2, <1>10
  <1> QED
    BY <1>9, <1>11

(* A parent moved towards the root takes nothing new above any node.       *)
LEMMA OverShrinks ==
    ASSUME NEW f, TreeOK(f), NEW g, TreeOK(g), DOMAIN g = DOMAIN f, NEW b \in DOMAIN f \ {Entry},
           \A z \in DOMAIN f \ {b} : g[z] = f[z], Over(f, g[b], f[b]),
           NEW x, NEW y, Over(g, x, y)
    PROVE  Over(f, x, y)
  <1>1. ASSUME NEW m, NEW n, Linked(Parents(g), m, n) PROVE Over(f, m, n)
    <2>1. n \in DOMAIN f \ {Entry} /\ m = g[n]
      BY <1>1, ParentLinks
    <2>2. CASE n = b
      BY <2>1, <2>2, OverUp
    <2>3. CASE n # b
      <3>1. Linked(Parents(f), m, n)
        BY <2>1, <2>3, ParentLinks
      <3> QED
        BY <3>1, ReachesEdge DEF Over
    <2> QED
      BY <2>2, <2>3
  <1> DEFINE S == {x} \cup {n \in Nodes(Parents(g)) : Over(f, x, n)}
  <1>2. ASSUME NEW m, NEW n, Linked(Parents(g), m, n), m \in S PROVE n \in S
    <2>1. n \in Nodes(Parents(g)) /\ Over(f, m, n)
      BY <1>1, <1>2, LinkedFacts
    <2>2. Over(f, x, m)
      BY <1>2, ReachesRefl DEF Over
    <2>3. Over(f, x, n)
      BY <2>1, <2>2, ReachesTrans DEF Over
    <2> QED
      BY <2>1, <2>3
  <1>3. y \in S
    <2>1. x \in S /\ Closed(Parents(g), S)
      BY <1>2 DEF Closed
    <2> HIDE DEF S
    <2> QED
      BY <2>1, ReachesElim DEF Over
  <1> QED
    BY <1>3, ReachesRefl DEF Over

-----------------------------------------------------------------------------
(* The numbers: a predecessor with a smaller one is what makes the numbers *)
(* of any depth-first order good enough.                                   *)
NumbersOK ==
    /\ edges \subseteq Edge
    /\ IsFiniteSet(Reached) /\ Reached \subseteq Node /\ Entry \in Reached
    /\ rpo_numbers \in [Reached -> 1..Cardinality(Reached)]
    /\ rpo_numbers[Entry] = 1
    /\ \A m, n \in Reached : rpo_numbers[m] = rpo_numbers[n] => m = n
    /\ \A i \in 1..Cardinality(Reached) : \E n \in Reached : rpo_numbers[n] = i
    /\ \A n \in Reached \ {Entry} :
          \E m \in Reached : Linked(edges, m, n) /\ rpo_numbers[m] < rpo_numbers[n]
    /\ \A n \in Reached : Reaches(edges, Entry, n)
    /\ pc # "number" => Closed(edges, Reached)

(* Which nodes have an estimate.                                           *)
PhaseOK ==
    /\ pc \in {"number", "estimate", "while", "for", "done"}
    /\ changed \in BOOLEAN
    /\ block \in 0..Cardinality(Reached) + 1
    /\ pc = "number" => DOMAIN idoms = {}
    /\ pc # "number" => block >= 1
    /\ pc = "estimate" => DOMAIN idoms = {n \in Reached : rpo_numbers[n] < block}
    /\ pc \in {"while", "for", "done"} => DOMAIN idoms = Reached
    /\ pc \in {"while", "done"} => block = Cardinality(Reached) + 1
    /\ pc \in {"number", "estimate"} => changed
    /\ pc = "done" => ~changed

EstimatesTyped == idoms \in [DOMAIN idoms -> Reached \cup {None}]

(* What strictly dominates a node dominates its estimate.                  *)
Dominated(f) ==
    \A b \in DOMAIN f \ {Entry} : \A d :
       Dominates(edges, Entry, d, b) /\ d # b => Dominates(edges, Entry, d, f[b])

(* The estimate of a node is above its earlier predecessors, but where     *)
(* this pass has moved one of those and has yet to come to the node.       *)
Held(f, at) ==
    \A b \in DOMAIN f \ {Entry}, q \in DOMAIN f :
       Linked(edges, q, b) /\ rpo_numbers[q] < rpo_numbers[b] =>
          Over(f, f[b], q) \/ (rpo_numbers[f[b]] < at /\ at <= rpo_numbers[b])

(* What is above all predecessors of a node is above its estimate, so the  *)
(* next one is no lower.                                                   *)
Tight(f) ==
    \A b \in DOMAIN f \ {Entry} : \A x :
       (\A p \in DOMAIN f : Linked(edges, p, b) => Over(f, x, p)) => Over(f, x, f[b])

(* What a pass that has changed nothing has seen.                          *)
Settled(f, at) ==
    \A b \in DOMAIN f \ {Entry}, p \in DOMAIN f :
       Linked(edges, p, b) /\ rpo_numbers[b] < at => Over(f, f[b], p)

IInv ==
    /\ NumbersOK /\ PhaseOK /\ EstimatesTyped /\ TreeOK(idoms)
    /\ Dominated(idoms) /\ Held(idoms, block) /\ Tight(idoms)
    /\ pc \in {"while", "for", "done"} /\ ~changed => Settled(idoms, block)

-----------------------------------------------------------------------------
LEMMA EdgesIn ==
    ASSUME NumbersOK, NEW m, NEW n, Linked(edges, m, n)
    PROVE  m \in Node /\ n \in Node \ {Entry}
  BY EdgeAssumption DEF NumbersOK, Linked

LEMMA PredsAre ==
    ASSUME NEW b
    PROVE  \A p : p \in ReachablePreds(b) <=> p \in DOMAIN idoms /\ Linked(edges, p, b)
  BY LinkedFacts DEF ReachablePreds

(* Whatever dominates a node with an estimate is above it in the tree.     *)
LEMMA DominatorsOver ==
    ASSUME TreeOK(idoms), Dominated(idoms), NEW a, NEW b \in DOMAIN idoms,
           Dominates(edges, Entry, a, b)
    PROVE  Over(idoms, a, b)
  <1> DEFINE Bad == {n \in DOMAIN idoms : Dominates(edges, Entry, a, n) /\ ~Over(idoms, a, n)}
  <1> SUFFICES ASSUME ~Over(idoms, a, b) PROVE FALSE
    OBVIOUS
  <1>1. PICK n \in Bad : \A k \in Bad : rpo_numbers[n] <= rpo_numbers[k]
    <2>1. b \in Bad /\ \A k \in Bad : rpo_numbers[k] \in Nat
      BY DEF TreeOK
    <2> HIDE DEF Bad
    <2> QED
      BY <2>1, LeastNumbered
  <1>2. n \in DOMAIN idoms /\ Dominates(edges, Entry, a, n) /\ ~Over(idoms, a, n)
    BY <1>1
  <1>3. n # a
    BY <1>2, ReachesRefl DEF Over
  <1>4. n # Entry
    BY <1>2, <1>3, DomEntry
  <1>5. Dominates(edges, Entry, a, idoms[n]) /\ ~Over(idoms, a, idoms[n])
    BY <1>2, <1>3, <1>4, OverUp DEF Dominated
  <1>6. /\ idoms[n] \in DOMAIN idoms /\ rpo_numbers[idoms[n]] < rpo_numbers[n]
        /\ rpo_numbers[idoms[n]] \in Nat /\ rpo_numbers[n] \in Nat
    BY <1>2, <1>4 DEF TreeOK
  <1>7. rpo_numbers[n] <= rpo_numbers[idoms[n]]
    BY <1>1, <1>5, <1>6
  <1> QED
    BY <1>6, <1>7

(* On the way up from a node its dominators are dominators until they are  *)
(* passed.                                                                 *)
LEMMA DominatesOnTheWay ==
    ASSUME TreeOK(idoms), Dominated(idoms), NEW d, NEW r, NEW p \in DOMAIN idoms,
           Dominates(edges, Entry, d, p), Over(idoms, r, p), Over(idoms, d, r)
    PROVE  Dominates(edges, Entry, d, r)
  <1> DEFINE Bad == {n \in DOMAIN idoms : Dominates(edges, Entry, d, n) /\ Over(idoms, r, n)}
  <1> SUFFICES ASSUME ~Dominates(edges, Entry, d, r) PROVE FALSE
    OBVIOUS
  <1>1. PICK n \in Bad : \A k \in Bad : rpo_numbers[n] <= rpo_numbers[k]
    <2>1. p \in Bad /\ \A k \in Bad : rpo_numbers[k] \in Nat
      BY DEF TreeOK
    <2> HIDE DEF Bad
    <2> QED
      BY <2>1, LeastNumbered
  <1>2. n \in DOMAIN idoms /\ Dominates(edges, Entry, d, n) /\ Over(idoms, r, n)
    BY <1>1
  <1>3. n # r
    BY <1>2
  <1>4. n # Entry
    BY <1>2, <1>3, OverEntry
  <1>5. Over(idoms, r, idoms[n]) /\ r \in DOMAIN idoms /\ rpo_numbers[r] < rpo_numbers[n]
    BY <1>2, <1>3, <1>4, OverUp, OverNumber
  <1>6. d # n
    <2>1. d = r \/ rpo_numbers[d] < rpo_numbers[r]
      BY <1>5, OverNumber
    <2>2. d \in DOMAIN idoms
      BY <1>5, OverNumber
    <2>3. rpo_numbers[d] \in Nat /\ rpo_numbers[r] \in Nat /\ rpo_numbers[n] \in Nat
      BY <1>2, <1>5, <2>2 DEF TreeOK
    <2> QED
      BY <1>3, <1>5, <2>1, <2>3
  <1>7. Dominates(edges, Entry, d, idoms[n])
    BY <1>2, <1>4, <1>6 DEF Dominated
  <1>8. /\ idoms[n] \in DOMAIN idoms /\ rpo_numbers[idoms[n]] < rpo_numbers[n]
        /\ rpo_numbers[idoms[n]] \in Nat /\ rpo_numbers[n] \in Nat
    BY <1>2, <1>4 DEF TreeOK
  <1>9. rpo_numbers[n] <= rpo_numbers[idoms[n]]
    BY <1>1, <1>5, <1>7, <1>8
  <1> QED
    BY <1>8, <1>9

-----------------------------------------------------------------------------
LEMMA EstimatedAre ==
    ASSUME NumbersOK, PhaseOK
    PROVE  DOMAIN idoms \subseteq Reached
  BY DEF PhaseOK

LEMMA NumbersAre ==
    ASSUME NumbersOK
    PROVE  /\ Cardinality(Reached) \in Nat
           /\ \A n \in Reached : rpo_numbers[n] \in 1..Cardinality(Reached)
           /\ \A i \in 1..Cardinality(Reached) :
                 Numbered(i) \in Reached /\ rpo_numbers[Numbered(i)] = i
           /\ \A n \in Reached : rpo_numbers[n] = 1 <=> n = Entry
  <1>1. Cardinality(Reached) \in Nat
    BY FS_CardinalityType DEF NumbersOK
  <1>2. \A n \in Reached : rpo_numbers[n] \in 1..Cardinality(Reached)
    BY DEF NumbersOK
  <1>3. ASSUME NEW i \in 1..Cardinality(Reached)
        PROVE  Numbered(i) \in Reached /\ rpo_numbers[Numbered(i)] = i
    <2>1. \E n \in Reached : rpo_numbers[n] = i
      BY DEF NumbersOK
    <2> QED
      BY <2>1 DEF Numbered
  <1>4. \A n \in Reached : rpo_numbers[n] = 1 <=> n = Entry
    BY DEF NumbersOK
  <1> QED
    BY <1>1, <1>2, <1>3, <1>4

LEMMA FiniteTree ==
    ASSUME NumbersOK, PhaseOK
    PROVE  Bounded /\ IsFiniteSet(DOMAIN idoms)
  <1>1. \A b \in DOMAIN idoms : rpo_numbers[b] <= Cardinality(Reached)
    BY EstimatedAre, NumbersAre
  <1> QED
    BY <1>1, EstimatedAre, NumbersAre, FS_Subset DEF Bounded, NumbersOK

(* A node's earlier predecessor has an estimate when the node is come to.  *)
LEMMA EarlierPred ==
    ASSUME NumbersOK, PhaseOK, NEW b \in Reached \ {Entry},
           pc # "number", pc = "estimate" => rpo_numbers[b] <= block
    PROVE  \E q \in DOMAIN idoms : Linked(edges, q, b) /\ rpo_numbers[q] < rpo_numbers[b]
  <1>1. PICK q \in Reached : Linked(edges, q, b) /\ rpo_numbers[q] < rpo_numbers[b]
    BY DEF NumbersOK
  <1>2. CASE pc = "estimate"
    <2>1. rpo_numbers[q] \in Nat /\ rpo_numbers[b] \in Nat /\ block \in Nat
      BY NumbersAre DEF PhaseOK
    <2>2. rpo_numbers[q] < block
      BY <1>1, <1>2, <2>1
    <2> QED
      BY <1>1, <1>2, <2>2 DEF PhaseOK
  <1>3. CASE pc # "estimate"
    BY <1>1, <1>3 DEF PhaseOK
  <1> QED
    BY <1>2, <1>3

(* The estimate compute_idom makes: the lowest node that is above all of   *)
(* the predecessors that have one.                                         *)
IsNext(b, r) ==
    /\ r \in DOMAIN idoms /\ rpo_numbers[r] < rpo_numbers[b]
    /\ \A p \in DOMAIN idoms : Linked(edges, p, b) => Over(idoms, r, p)
    /\ \A x : (\A p \in DOMAIN idoms : Linked(edges, p, b) => Over(idoms, x, p))
              => Over(idoms, x, r)
    /\ \A d : Dominates(edges, Entry, d, b) /\ d # b => Dominates(edges, Entry, d, r)

LEMMA NextEstimate ==
    ASSUME IInv, NEW b \in Reached \ {Entry},
           pc # "number", pc = "estimate" => rpo_numbers[b] <= block
    PROVE  IsNext(b, ComputeIdom(b))
  <1> DEFINE r == ComputeIdom(b)
  <1>1. NumbersOK /\ PhaseOK /\ TreeOK(idoms) /\ Dominated(idoms)
    BY DEF IInv
  <1>2. PICK q \in DOMAIN idoms : Linked(edges, q, b) /\ rpo_numbers[q] < rpo_numbers[b]
    BY <1>1, EarlierPred
  <1>3. ReachablePreds(b) # {}
    BY <1>2, PredsAre
  <1>4. /\ r \in DOMAIN idoms
        /\ \A x : Over(idoms, x, r) <=> \A p \in ReachablePreds(b) : Over(idoms, x, p)
    BY <1>1, <1>3, FiniteTree, ComputeIdomIs
  <1> HIDE DEF r
  <1>5. \A x : Over(idoms, x, r)
               <=> \A p \in DOMAIN idoms : Linked(edges, p, b) => Over(idoms, x, p)
    BY <1>4, PredsAre
  <1>6. Over(idoms, r, r)
    BY ReachesRefl DEF Over
  <1>7. Over(idoms, r, q)
    BY <1>2, <1>5, <1>6
  <1>8. rpo_numbers[r] < rpo_numbers[b]
    <2>1. r = q \/ rpo_numbers[r] < rpo_numbers[q]
      BY <1>1, <1>7, OverNumber
    <2>2. rpo_numbers[r] \in Nat /\ rpo_numbers[q] \in Nat /\ rpo_numbers[b] \in Nat
      BY <1>1, <1>2, <1>4, EstimatedAre, NumbersAre
    <2> QED
      BY <1>2, <2>1, <2>2
  <1>9. ASSUME NEW d, Dominates(edges, Entry, d, b), d # b
        PROVE  Dominates(edges, Entry, d, r)
    <2>1. \A p : Linked(edges, p, b) => Dominates(edges, Entry, d, p)
      BY <1>9, DomEdge
    <2>2. \A p \in DOMAIN idoms : Linked(edges, p, b) => Over(idoms, d, p)
      BY <1>1, <2>1, DominatorsOver
    <2>3. Over(idoms, d, r)
      BY <1>5, <2>2
    <2> QED
      BY <1>1, <1>2, <1>7, <2>1, <2>3, DominatesOnTheWay
  <1>10. IsNext(b, r)
    BY <1>4, <1>5, <1>6, <1>8, <1>9 DEF IsNext
  <1> QED
    BY <1>10 DEF r

-----------------------------------------------------------------------------
(* The tree grows by a node whose parent is its next estimate.             *)
LEMMA Grown ==
    ASSUME IInv, pc = "estimate", NEW b \in Reached \ {Entry}, rpo_numbers[b] = block,
           NEW g, DOMAIN g = DOMAIN idoms \cup {b},
           \A z \in DOMAIN idoms : g[z] = idoms[z], IsNext(b, g[b])
    PROVE  TreeOK(g) /\ Dominated(g) /\ Held(g, block + 1) /\ Tight(g)
  <1> DEFINE D == DOMAIN idoms
  <1>1. /\ NumbersOK /\ PhaseOK /\ TreeOK(idoms)
        /\ Dominated(idoms) /\ Held(idoms, block) /\ Tight(idoms)
    BY DEF IInv
  <1>2. D = {n \in Reached : rpo_numbers[n] < block} /\ block \in Nat
    BY <1>1, NumbersAre DEF PhaseOK
  <1>3. \A n \in D : n \in Reached /\ rpo_numbers[n] \in Nat /\ rpo_numbers[n] < block
    BY <1>1, <1>2, NumbersAre
  <1>4. b \notin D /\ g[b] \in D /\ rpo_numbers[g[b]] < rpo_numbers[b]
    BY <1>2, <1>3 DEF IsNext
  <1>5. TreeOK(g)
    <2>1. \A m \in DOMAIN g : m \in Reached
      BY <1>3
    <2>2. /\ rpo_numbers[Entry] = 1 /\ None \notin DOMAIN g
          /\ \A m \in DOMAIN g : rpo_numbers[m] \in Nat \ {0}
      BY <1>1, <2>1, NumbersAre, EdgeAssumption DEF NumbersOK
    <2>3. \A m, n \in DOMAIN g : rpo_numbers[m] = rpo_numbers[n] => m = n
      BY <1>1, <2>1 DEF NumbersOK
    <2>4. Entry \in DOMAIN g => g[Entry] = None
      BY <1>1 DEF TreeOK
    <2>5. ASSUME NEW m \in DOMAIN g \ {Entry}
          PROVE  g[m] \in DOMAIN g /\ rpo_numbers[g[m]] < rpo_numbers[m]
      BY <1>1, <1>4 DEF TreeOK
    <2> QED
      BY <2>2, <2>3, <2>4, <2>5 DEF TreeOK
  <1>6. ASSUME NEW x, NEW y \in D PROVE Over(g, x, y) <=> Over(idoms, x, y)
    <2>1. Over(idoms, x, y) => Over(g, x, y)
      BY <1>1, <1>5, OverKept
    <2>2. ASSUME NEW z \in DOMAIN g, rpo_numbers[z] <= rpo_numbers[y]
          PROVE  z \in D /\ idoms[z] = g[z]
      <3>1. rpo_numbers[y] \in Nat /\ rpo_numbers[y] < block
        BY <1>3
      <3>2. z # b
        BY <1>2, <2>2, <3>1
      <3> QED
        BY <3>2
    <2>3. Over(g, x, y) => Over(idoms, x, y)
      BY <1>1, <1>5, <2>2, OverKept
    <2> QED
      BY <2>1, <2>3
  <1>7. Dominated(g)
    <2> SUFFICES ASSUME NEW n \in DOMAIN g \ {Entry}, NEW d,
                        Dominates(edges, Entry, d, n), d # n
                 PROVE  Dominates(edges, Entry, d, g[n])
      BY DEF Dominated
    <2>1. CASE n = b
      BY <2>1 DEF IsNext
    <2>2. CASE n # b
      BY <1>1, <2>2 DEF Dominated
    <2> QED
      BY <2>1, <2>2
  <1>8. Held(g, block + 1)
    <2> SUFFICES ASSUME NEW n \in DOMAIN g \ {Entry}, NEW q \in DOMAIN g,
                        Linked(edges, q, n), rpo_numbers[q] < rpo_numbers[n]
                 PROVE  Over(g, g[n], q)
      BY DEF Held
    <2>1. CASE n = b
      <3>1. q # b
        BY <1>2, <2>1
      <3>2. q \in D /\ Over(idoms, g[b], q)
        BY <2>1, <3>1 DEF IsNext
      <3> QED
        BY <1>6, <2>1, <3>2
    <2>2. CASE n # b
      <3>1. n \in D /\ g[n] = idoms[n] /\ rpo_numbers[n] < block /\ rpo_numbers[n] \in Nat
        BY <1>3, <2>2
      <3>2. q \in D
        BY <1>2, <3>1
      <3>3. Over(idoms, idoms[n], q)
        BY <1>1, <1>2, <3>1, <3>2 DEF Held
      <3> QED
        BY <1>6, <3>1, <3>2, <3>3
    <2> QED
      BY <2>1, <2>2
  <1>9. Tight(g)
    <2> SUFFICES ASSUME NEW n \in DOMAIN g \ {Entry}, NEW x,
                        \A p \in DOMAIN g : Linked(edges, p, n) => Over(g, x, p)
                 PROVE  Over(g, x, g[n])
      BY DEF Tight
    <2>1. \A p \in D : Linked(edges, p, n) => Over(idoms, x, p)
      BY <1>6
    <2>2. CASE n = b
      <3>1. Over(idoms, x, g[b])
        BY <2>1, <2>2 DEF IsNext
      <3> QED
        BY <1>4, <1>6, <2>2, <3>1
    <2>3. CASE n # b
      <3>1. n \in D \ {Entry} /\ g[n] = idoms[n] /\ idoms[n] \in D
        BY <1>1, <2>3 DEF TreeOK
      <3>2. Over(idoms, x, idoms[n])
        BY <1>1, <2>1, <3>1 DEF Tight
      <3> QED
        BY <1>6, <3>1, <3>2
    <2> QED
      BY <2>2, <2>3
  <1> QED
    BY <1>5, <1>7, <1>8, <1>9

(* A node's parent is replaced by its next estimate.                       *)
LEMMA Revised ==
    ASSUME IInv, pc = "for", NEW b \in Reached \ {Entry}, rpo_numbers[b] = block,
           NEW g, DOMAIN g = DOMAIN idoms,
           \A z \in DOMAIN idoms \ {b} : g[z] = idoms[z], IsNext(b, g[b])
    PROVE  /\ TreeOK(g) /\ Dominated(g) /\ Held(g, block + 1) /\ Tight(g)
           /\ g[b] = idoms[b] \/ rpo_numbers[g[b]] < rpo_numbers[idoms[b]]
  <1> DEFINE D == DOMAIN idoms
  <1>1. /\ NumbersOK /\ PhaseOK /\ TreeOK(idoms)
        /\ Dominated(idoms) /\ Held(idoms, block) /\ Tight(idoms)
    BY DEF IInv
  <1>2. D = Reached /\ b \in D \ {Entry} /\ block \in Nat
    BY <1>1, NumbersAre DEF PhaseOK
  <1>3. \A n \in D : rpo_numbers[n] \in Nat
    BY <1>1, <1>2, NumbersAre
  <1>4. g[b] \in D /\ rpo_numbers[g[b]] < block
    BY DEF IsNext
  <1>5. TreeOK(g)
    <2>1. ASSUME NEW m \in DOMAIN g \ {Entry}
          PROVE  g[m] \in DOMAIN g /\ rpo_numbers[g[m]] < rpo_numbers[m]
      BY <1>1, <1>4 DEF TreeOK
    <2>2. Entry \in DOMAIN g => g[Entry] = None
      BY <1>1, <1>2 DEF TreeOK
    <2> QED
      BY <1>1, <2>1, <2>2 DEF TreeOK
  <1>6. Over(idoms, g[b], idoms[b])
    BY <1>1, <1>2 DEF IsNext, Tight
  <1>7. \A x, y : Over(g, x, y) => Over(idoms, x, y)
    BY <1>1, <1>2, <1>5, <1>6, OverShrinks
  <1>8. ASSUME NEW x, NEW y \in D, Over(idoms, x, y),
               rpo_numbers[y] < block \/ (x \in D /\ block <= rpo_numbers[x])
        PROVE  Over(g, x, y)
    <2>1. ASSUME NEW z \in D, rpo_numbers[x] < rpo_numbers[z], rpo_numbers[z] <= rpo_numbers[y]
          PROVE  z # b
      BY <1>2, <1>3, <1>8, <2>1
    <2> QED
      BY <1>1, <1>5, <1>8, <2>1, OverKept
  <1>9. Dominated(g)
    <2> SUFFICES ASSUME NEW n \in DOMAIN g \ {Entry}, NEW d,
                        Dominates(edges, Entry, d, n), d # n
                 PROVE  Dominates(edges, Entry, d, g[n])
      BY DEF Dominated
    <2>1. CASE n = b
      BY <2>1 DEF IsNext
    <2>2. CASE n # b
      BY <1>1, <2>2 DEF Dominated
    <2> QED
      BY <2>1, <2>2
  <1>10. Held(g, block + 1)
    <2> SUFFICES ASSUME NEW n \in DOMAIN g \ {Entry}, NEW q \in DOMAIN g,
                        Linked(edges, q, n), rpo_numbers[q] < rpo_numbers[n],
                        ~Over(g, g[n], q)
                 PROVE  rpo_numbers[g[n]] < block + 1 /\ block + 1 <= rpo_numbers[n]
      BY DEF Held
    <2>1. rpo_numbers[n] \in Nat /\ rpo_numbers[q] \in Nat
      BY <1>3
    <2>2. CASE n = b
      <3>1. Over(idoms, g[b], q) /\ rpo_numbers[q] < block
        BY <2>2 DEF IsNext
      <3> QED
        BY <1>8, <2>2, <3>1
    <2>3. CASE n # b
      <3>1. g[n] = idoms[n] /\ idoms[n] \in D /\ rpo_numbers[idoms[n]] \in Nat
        BY <1>1, <1>3, <2>3 DEF TreeOK
      <3>2. rpo_numbers[n] # block
        BY <1>1, <1>2, <2>3 DEF NumbersOK
      <3>3. \/ Over(idoms, idoms[n], q)
            \/ rpo_numbers[idoms[n]] < block /\ block <= rpo_numbers[n]
        BY <1>1 DEF Held
      <3>4. CASE rpo_numbers[n] < block
        <4>1. Over(idoms, idoms[n], q) /\ rpo_numbers[q] < block
          BY <1>2, <2>1, <3>3, <3>4
        <4> QED
          BY <1>8, <3>1, <4>1
      <3>5. CASE block < rpo_numbers[n]
        <4>1. CASE rpo_numbers[idoms[n]] <= block
          BY <1>2, <2>1, <3>1, <3>5, <4>1
        <4>2. CASE block < rpo_numbers[idoms[n]]
          <5>1. Over(idoms, idoms[n], q)
            BY <1>2, <3>1, <3>3, <4>2
          <5> QED
            BY <1>2, <1>8, <3>1, <4>2, <5>1
        <4> QED
          BY <1>2, <3>1, <4>1, <4>2
      <3> QED
        BY <1>2, <2>1, <3>2, <3>4, <3>5
    <2> QED
      BY <2>2, <2>3
  <1>11. Tight(g)
    <2> SUFFICES ASSUME NEW n \in DOMAIN g \ {Entry}, NEW x,
                        \A p \in DOMAIN g : Linked(edges, p, n) => Over(g, x, p)
                 PROVE  Over(g, x, g[n])
      BY DEF Tight
    <2>1. \A p \in D : Linked(edges, p, n) => Over(idoms, x, p)
      BY <1>7
    <2>2. CASE n = b
      <3>1. Over(idoms, x, g[b])
        BY <2>1, <2>2 DEF IsNext
      <3> QED
        BY <1>4, <1>8, <2>2, <3>1
    <2>3. CASE n # b
      <3> DEFINE y == idoms[n]
      <3>1. n \in D \ {Entry} /\ g[n] = y /\ y \in D
        BY <1>1, <2>3 DEF TreeOK
      <3>2. Over(idoms, x, y)
        BY <1>1, <2>1, <3>1 DEF Tight
      <3> HIDE DEF y
      <3>3. x \in D /\ (x = y \/ rpo_numbers[x] < rpo_numbers[y])
        BY <1>1, <3>1, <3>2, OverNumber
      <3>4. CASE rpo_numbers[y] < block \/ block <= rpo_numbers[x]
        BY <1>8, <3>1, <3>2, <3>3, <3>4
      <3>5. CASE block <= rpo_numbers[y]
        <4>1. PICK q \in D : Linked(edges, q, n) /\ rpo_numbers[q] < rpo_numbers[n]
          BY <1>1, <1>2, <3>1, EarlierPred
        <4>2. Over(idoms, y, q)
          BY <1>1, <1>2, <1>3, <3>1, <3>5, <4>1 DEF Held, y
        <4>3. Over(g, y, q) /\ Over(g, x, q)
          BY <1>8, <3>1, <3>5, <4>1, <4>2
        <4>4. rpo_numbers[x] <= rpo_numbers[y]
          BY <1>3, <3>1, <3>3
        <4>5. Over(g, x, y)
          BY <1>5, <4>1, <4>3, <4>4, OverChain
        <4> QED
          BY <3>1, <4>5
      <3> QED
        BY <1>2, <1>3, <3>1, <3>3, <3>4, <3>5
    <2> QED
      BY <2>2, <2>3
  <1>12. g[b] = idoms[b] \/ rpo_numbers[g[b]] < rpo_numbers[idoms[b]]
    <2>1. idoms[b] \in D
      BY <1>1, <1>2 DEF TreeOK
    <2> QED
      BY <1>1, <1>6, <2>1, OverNumber
  <1> QED
    BY <1>5, <1>9, <1>10, <1>11, <1>12

-----------------------------------------------------------------------------
LEMMA InitOK == Init => IInv
  <1> SUFFICES ASSUME Init PROVE IInv
    OBVIOUS
  <1>1. /\ edges \subseteq Edge /\ rpo_numbers = [n \in {Entry} |-> 1]
        /\ idoms = [n \in {} |-> None] /\ changed = TRUE /\ block = 0 /\ pc = "number"
    BY DEF Init
  <1>2. Reached = {Entry} /\ rpo_numbers[Entry] = 1 /\ DOMAIN idoms = {}
    BY <1>1 DEF Reached
  <1>3. IsFiniteSet(Reached) /\ Cardinality(Reached) = 1
    BY <1>2, FS_Singleton
  <1>4. NumbersOK
    <2>1. rpo_numbers \in [Reached -> 1..Cardinality(Reached)]
      BY <1>1, <1>2, <1>3
    <2>2. \A n \in Reached : Reaches(edges, Entry, n)
      BY <1>2, ReachesRefl
    <2>3. Reached \subseteq Node /\ Entry \in Reached
      BY <1>2, EdgeAssumption
    <2>4. \A m, n \in Reached : rpo_numbers[m] = rpo_numbers[n] => m = n
      BY <1>2
    <2>5. \A i \in 1..Cardinality(Reached) : \E n \in Reached : rpo_numbers[n] = i
      BY <1>2, <1>3
    <2>6. \A n \in Reached \ {Entry} :
             \E m \in Reached : Linked(edges, m, n) /\ rpo_numbers[m] < rpo_numbers[n]
      BY <1>2
    <2> QED
      BY <1>1, <1>2, <1>3, <2>1, <2>2, <2>3, <2>4, <2>5, <2>6 DEF NumbersOK
  <1>5. PhaseOK
    BY <1>1, <1>2, <1>3 DEF PhaseOK
  <1>6. TreeOK(idoms) /\ Dominated(idoms) /\ Held(idoms, block) /\ Tight(idoms)
    BY <1>2 DEF TreeOK, Dominated, Held, Tight
  <1>7. EstimatesTyped
    BY <1>1 DEF EstimatesTyped
  <1> QED
    BY <1>1, <1>4, <1>5, <1>6, <1>7 DEF IInv

(* A set of nodes that has one has one with the largest number.            *)
LEMMA LatestExists ==
    ASSUME NumbersOK, NEW S \in SUBSET Reached, S # {}
    PROVE  \E m \in S : \A k \in S : rpo_numbers[k] <= rpo_numbers[m]
  <1> DEFINE T == {Cardinality(Reached) - rpo_numbers[n] : n \in S}
  <1>1. \A n \in S : /\ rpo_numbers[n] \in Nat /\ Cardinality(Reached) \in Nat
                     /\ Cardinality(Reached) - rpo_numbers[n] \in Nat
    BY NumbersAre
  <1>2. T \in SUBSET Nat /\ T # {}
    BY <1>1
  <1>3. PICK x \in T : \A y \in T : x <= y
    BY <1>2, LeastNat
  <1>4. PICK m \in S : x = Cardinality(Reached) - rpo_numbers[m]
    OBVIOUS
  <1>5. ASSUME NEW k \in S PROVE rpo_numbers[k] <= rpo_numbers[m]
    <2>1. x <= Cardinality(Reached) - rpo_numbers[k]
      BY <1>3
    <2> QED
      BY <1>1, <1>4, <2>1
  <1> QED
    BY <1>5

LEMMA NumberOK ==
    ASSUME IInv, NEW n \in Node, Number(n)
    PROVE  IInv'
  <1> DEFINE N == Cardinality(Reached)
  <1>1. /\ pc = "number" /\ rpo_numbers' = Put(rpo_numbers, n, N + 1)
        /\ edges' = edges /\ idoms' = idoms /\ changed' = changed /\ block' = block /\ pc' = pc
    BY DEF Number
  <1>2. NumbersOK /\ PhaseOK
    BY DEF IInv
  <1>3. PICK m \in Reached : n \in Unnumbered(m)
    <2> DEFINE latest == CHOOSE m \in Pending : \A k \in Pending : rpo_numbers[k] <= rpo_numbers[m]
    <2>1. Pending # {} /\ n \in Unnumbered(latest)
      BY DEF Number
    <2>2. Pending \in SUBSET Reached
      BY DEF Pending
    <2>3. \E k \in Pending : \A j \in Pending : rpo_numbers[j] <= rpo_numbers[k]
      BY <1>2, <2>1, <2>2, LatestExists
    <2>4. latest \in Pending
      BY <2>3
    <2> HIDE DEF latest
    <2> QED
      BY <2>1, <2>2, <2>4
  <1>4. Linked(edges, m, n) /\ n \notin Reached /\ n # Entry
    BY <1>2, <1>3, LinkedFacts DEF Unnumbered, NumbersOK
  <1>5. N \in Nat /\ \A k \in Reached : rpo_numbers[k] \in 1..N
    BY <1>2, NumbersAre
  <1>6. /\ Reached' = Reached \cup {n} /\ IsFiniteSet(Reached')
        /\ Cardinality(Reached') = N + 1
    <2>1. Reached' = Reached \cup {n}
      BY <1>1 DEF Reached, Put
    <2> QED
      BY <1>2, <1>4, <2>1, FS_AddElement DEF NumbersOK
  <1>7. rpo_numbers'[n] = N + 1 /\ \A k \in Reached : rpo_numbers'[k] = rpo_numbers[k]
    BY <1>1, <1>4 DEF Put, Reached
  <1>8. NumbersOK'
    <2>1. edges' \subseteq Edge /\ Reached' \subseteq Node /\ Entry \in Reached'
          /\ rpo_numbers'[Entry] = 1
      BY <1>1, <1>2, <1>6, <1>7 DEF NumbersOK
    <2>2. rpo_numbers' \in [Reached' -> 1..Cardinality(Reached')]
      <3>1. \A k \in Reached' : rpo_numbers'[k] \in 1..(N + 1)
        BY <1>5, <1>6, <1>7
      <3>2. rpo_numbers' = [k \in Reached' |-> rpo_numbers'[k]]
        BY <1>1 DEF Put, Reached
      <3> QED
        BY <1>6, <3>1, <3>2
    <2>3. ASSUME NEW j \in Reached', NEW k \in Reached', rpo_numbers'[j] = rpo_numbers'[k]
          PROVE  j = k
      BY <1>2, <1>5, <1>6, <1>7, <2>3 DEF NumbersOK
    <2>4. ASSUME NEW i \in 1..Cardinality(Reached')
          PROVE  \E k \in Reached' : rpo_numbers'[k] = i
      <3>1. CASE i = N + 1
        BY <1>6, <1>7, <3>1
      <3>2. CASE i # N + 1
        <4>1. i \in 1..N
          BY <1>5, <1>6, <3>2
        <4> QED
          BY <1>2, <1>6, <1>7, <4>1 DEF NumbersOK
      <3> QED
        BY <3>1, <3>2
    <2>5. ASSUME NEW k \in Reached' \ {Entry}
          PROVE  \E j \in Reached' : Linked(edges', j, k) /\ rpo_numbers'[j] < rpo_numbers'[k]
      <3>1. CASE k = n
        <4>1. rpo_numbers'[m] < rpo_numbers'[n]
          BY <1>5, <1>7
        <4> QED
          BY <1>1, <1>4, <1>6, <3>1, <4>1
      <3>2. CASE k # n
        <4>1. PICK j \in Reached : Linked(edges, j, k) /\ rpo_numbers[j] < rpo_numbers[k]
          BY <1>2, <1>6, <3>2 DEF NumbersOK
        <4> QED
          BY <1>1, <1>6, <1>7, <3>2, <4>1
      <3> QED
        BY <3>1, <3>2
    <2>6. ASSUME NEW k \in Reached' PROVE Reaches(edges', Entry, k)
      <3>1. CASE k = n
        <4>1. Reaches(edges, Entry, m)
          BY <1>2 DEF NumbersOK
        <4>2. Reaches(edges, Entry, n)
          BY <1>4, <4>1, ReachesEdge, ReachesTrans
        <4> QED
          BY <1>1, <3>1, <4>2
      <3>2. CASE k # n
        BY <1>1, <1>2, <1>6, <3>2 DEF NumbersOK
      <3> QED
        BY <3>1, <3>2
    <2> QED
      BY <1>1, <1>6, <2>1, <2>2, <2>3, <2>4, <2>5, <2>6 DEF NumbersOK
  <1>9. DOMAIN idoms' = {}
    BY <1>1, <1>2 DEF PhaseOK
  <1>10. PhaseOK'
    BY <1>1, <1>2, <1>5, <1>6, <1>9 DEF PhaseOK
  <1>11. TreeOK(idoms)'
    <2>1. rpo_numbers'[Entry] = 1
      BY <1>8 DEF NumbersOK
    <2> QED
      BY <1>9, <2>1 DEF TreeOK
  <1>12. (Dominated(idoms) /\ Held(idoms, block) /\ Tight(idoms))'
    BY <1>9 DEF Dominated, Held, Tight
  <1>13. EstimatesTyped'
    BY <1>1, <1>6 DEF EstimatesTyped, IInv
  <1> QED
    BY <1>1, <1>8, <1>10, <1>11, <1>12, <1>13 DEF IInv

(* The steps after the numbering leave graph and numbers alone.            *)
LEMMA Unmoved ==
    ASSUME NumbersOK, edges' = edges, rpo_numbers' = rpo_numbers,
           pc' # "number" => Closed(edges, Reached)
    PROVE  NumbersOK' /\ Reached' = Reached
  <1>1. Reached' = Reached
    BY DEF Reached
  <1>2. /\ edges' \subseteq Edge
        /\ IsFiniteSet(Reached') /\ Reached' \subseteq Node /\ Entry \in Reached'
        /\ rpo_numbers' \in [Reached' -> 1..Cardinality(Reached')]
        /\ rpo_numbers'[Entry] = 1
    BY <1>1 DEF NumbersOK
  <1>3. \A m, n \in Reached' : rpo_numbers'[m] = rpo_numbers'[n] => m = n
    BY <1>1 DEF NumbersOK
  <1>4. \A i \in 1..Cardinality(Reached') : \E n \in Reached' : rpo_numbers'[n] = i
    BY <1>1 DEF NumbersOK
  <1>5. \A n \in Reached' \ {Entry} :
          \E m \in Reached' : Linked(edges', m, n) /\ rpo_numbers'[m] < rpo_numbers'[n]
    BY <1>1 DEF NumbersOK
  <1>6. \A n \in Reached' : Reaches(edges', Entry, n)
    BY <1>1 DEF NumbersOK
  <1>7. pc' # "number" => Closed(edges', Reached')
    BY <1>1
  <1> QED
    BY <1>1, <1>2, <1>3, <1>4, <1>5, <1>6, <1>7 DEF NumbersOK

LEMMA TreeMoved ==
    ASSUME edges' = edges, rpo_numbers' = rpo_numbers, NEW at, at = block',
           TreeOK(idoms'), Dominated(idoms'), Held(idoms', at), Tight(idoms')
    PROVE  (TreeOK(idoms) /\ Dominated(idoms) /\ Held(idoms, block) /\ Tight(idoms))'
  <1>1. TreeOK(idoms)'
    BY DEF TreeOK
  <1>2. Dominated(idoms)'
    BY DEF Dominated
  <1>3. Held(idoms, block)'
    BY DEF Held
  <1>4. Tight(idoms)'
    BY DEF Tight
  <1> QED
    BY <1>1, <1>2, <1>3, <1>4

LEMMA AllNumberedOK ==
    ASSUME IInv, AllNumbered
    PROVE  IInv'
  <1>1. /\ pc = "number" /\ Pending = {} /\ block' = 1 /\ pc' = "estimate"
        /\ edges' = edges /\ rpo_numbers' = rpo_numbers /\ idoms' = idoms /\ changed' = changed
    BY DEF AllNumbered
  <1>2. NumbersOK /\ PhaseOK
    BY DEF IInv
  <1>3. Closed(edges, Reached)
    <2> SUFFICES ASSUME NEW m \in Reached, NEW n, Linked(edges, m, n), n \notin Reached
                 PROVE  FALSE
      BY DEF Closed
    <2>1. n \in Unnumbered(m)
      BY LinkedFacts DEF Unnumbered
    <2> QED
      BY <1>1, <2>1 DEF Pending
  <1>4. NumbersOK' /\ Reached' = Reached
    BY <1>1, <1>2, <1>3, Unmoved
  <1>5. DOMAIN idoms' = {}
    BY <1>1, <1>2 DEF PhaseOK
  <1>6. DOMAIN idoms' = {n \in Reached' : rpo_numbers'[n] < block'}
    <2>1. \A n \in Reached : rpo_numbers[n] \in Nat \ {0}
      BY <1>2, NumbersAre
    <2> QED
      BY <1>1, <1>4, <1>5, <2>1
  <1>7. PhaseOK'
    <2>1. Cardinality(Reached) \in Nat /\ changed
      BY <1>1, <1>2, NumbersAre DEF PhaseOK
    <2> QED
      BY <1>1, <1>2, <1>4, <1>6, <2>1 DEF PhaseOK
  <1>8. TreeOK(idoms)'
    <2>1. rpo_numbers'[Entry] = 1
      BY <1>4 DEF NumbersOK
    <2> QED
      BY <1>5, <2>1 DEF TreeOK
  <1>9. (Dominated(idoms) /\ Held(idoms, block) /\ Tight(idoms))'
    BY <1>5 DEF Dominated, Held, Tight
  <1>10. EstimatesTyped'
    BY <1>1, <1>4 DEF EstimatesTyped, IInv
  <1> QED
    BY <1>1, <1>4, <1>7, <1>8, <1>9, <1>10 DEF IInv

LEMMA EstimateOK ==
    ASSUME IInv, Estimate
    PROVE  IInv'
  <1> DEFINE b == Numbered(block)
  <1>1. /\ pc = "estimate" /\ block <= Cardinality(Reached)
        /\ idoms' = Put(idoms, b, ComputeIdom(b)) /\ block' = block + 1
        /\ edges' = edges /\ rpo_numbers' = rpo_numbers /\ changed' = changed /\ pc' = pc
    BY DEF Estimate
  <1>2. NumbersOK /\ PhaseOK
    BY DEF IInv
  <1>3. block \in 1..Cardinality(Reached) /\ Cardinality(Reached) \in Nat
    BY <1>1, <1>2, NumbersAre DEF PhaseOK
  <1>4. b \in Reached /\ rpo_numbers[b] = block
    BY <1>2, <1>3, NumbersAre
  <1>5. NumbersOK' /\ Reached' = Reached
    BY <1>1, <1>2, Unmoved DEF NumbersOK
  <1>6. /\ DOMAIN idoms' = DOMAIN idoms \cup {b} /\ idoms'[b] = ComputeIdom(b)
        /\ \A z \in DOMAIN idoms \ {b} : idoms'[z] = idoms[z]
    BY <1>1 DEF Put
  <1> HIDE DEF b
  <1>7. DOMAIN idoms = {n \in Reached : rpo_numbers[n] < block}
    BY <1>1, <1>2 DEF PhaseOK
  <1>8. \A n \in Reached : rpo_numbers[n] \in Nat /\ (rpo_numbers[n] = block => n = b)
    BY <1>2, <1>4, NumbersAre DEF NumbersOK
  <1>9. DOMAIN idoms' = {n \in Reached : rpo_numbers[n] < block + 1}
    <2>1. \A n \in Reached : rpo_numbers[n] < block + 1 <=> rpo_numbers[n] < block \/ n = b
      BY <1>3, <1>4, <1>8
    <2> QED
      BY <1>4, <1>6, <1>7, <2>1
  <1>10. PhaseOK'
    BY <1>1, <1>2, <1>3, <1>5, <1>9 DEF PhaseOK
  <1>11. TreeOK(idoms') /\ Dominated(idoms') /\ Held(idoms', block + 1) /\ Tight(idoms')
    <2>1. CASE b = Entry
      <3>1. block = 1
        BY <1>4, <2>1 DEF NumbersOK, IInv
      <3>2. DOMAIN idoms = {}
        BY <1>2, <1>7, <3>1, NumbersAre
      <3>3. DOMAIN idoms' = {Entry} /\ idoms'[Entry] = None
        BY <1>6, <2>1, <3>2 DEF ComputeIdom
      <3>4. rpo_numbers[Entry] = 1 /\ None # Entry
        BY <1>2, EdgeAssumption DEF NumbersOK
      <3> QED
        BY <3>3, <3>4 DEF TreeOK, Dominated, Held, Tight
    <2>2. CASE b # Entry
      <3>1. IsNext(b, idoms'[b])
        BY <1>1, <1>3, <1>4, <1>6, <2>2, NextEstimate
      <3>2. \A z \in DOMAIN idoms : idoms'[z] = idoms[z]
        BY <1>3, <1>4, <1>6, <1>7
      <3> QED
        BY <1>1, <1>4, <1>6, <2>2, <3>1, <3>2, Grown
    <2> QED
      BY <2>1, <2>2
  <1>12. (TreeOK(idoms) /\ Dominated(idoms) /\ Held(idoms, block) /\ Tight(idoms))'
    BY <1>1, <1>11, TreeMoved
  <1>13. EstimatesTyped'
    <2>1. \A n \in DOMAIN idoms' : idoms'[n] \in Reached' \cup {None}
      BY <1>5, <1>9, <1>11, <1>6, <1>4, <1>7 DEF TreeOK
    <2>2. idoms' = [n \in DOMAIN idoms' |-> idoms'[n]]
      BY <1>1 DEF Put
    <2> QED
      BY <2>1, <2>2 DEF EstimatesTyped
  <1> QED
    BY <1>1, <1>5, <1>10, <1>12, <1>13 DEF IInv

LEMMA AllEstimatedOK ==
    ASSUME IInv, AllEstimated
    PROVE  IInv'
  <1>1. /\ pc = "estimate" /\ block > Cardinality(Reached) /\ pc' = "while"
        /\ edges' = edges /\ rpo_numbers' = rpo_numbers /\ idoms' = idoms
        /\ changed' = changed /\ block' = block
    BY DEF AllEstimated
  <1>2. NumbersOK /\ PhaseOK /\ changed
    BY <1>1 DEF IInv, PhaseOK
  <1>3. Cardinality(Reached) \in Nat /\ block = Cardinality(Reached) + 1
    BY <1>1, <1>2, NumbersAre DEF PhaseOK
  <1>4. NumbersOK' /\ Reached' = Reached
    BY <1>1, <1>2, Unmoved DEF NumbersOK
  <1>5. DOMAIN idoms' = Reached
    <2>1. \A n \in Reached : rpo_numbers[n] < block
      BY <1>2, <1>3, NumbersAre
    <2> QED
      BY <1>1, <1>2, <2>1 DEF PhaseOK
  <1>6. PhaseOK'
    BY <1>1, <1>2, <1>3, <1>4, <1>5 DEF PhaseOK
  <1>7. (TreeOK(idoms) /\ Dominated(idoms) /\ Held(idoms, block) /\ Tight(idoms))'
    BY <1>1, TreeMoved DEF IInv
  <1>8. EstimatesTyped'
    BY <1>1, <1>4 DEF EstimatesTyped, IInv
  <1> QED
    BY <1>1, <1>2, <1>4, <1>6, <1>7, <1>8 DEF IInv

LEMMA StartPassOK ==
    ASSUME IInv, StartPass
    PROVE  IInv'
  <1>1. /\ pc = "while" /\ changed' = FALSE /\ block' = 1 /\ pc' = "for"
        /\ edges' = edges /\ rpo_numbers' = rpo_numbers /\ idoms' = idoms
    BY DEF StartPass
  <1>2. NumbersOK /\ PhaseOK
    BY DEF IInv
  <1>3. /\ Cardinality(Reached) \in Nat /\ block = Cardinality(Reached) + 1
        /\ DOMAIN idoms = Reached
        /\ \A n \in Reached : rpo_numbers[n] \in 1..Cardinality(Reached)
    BY <1>1, <1>2, NumbersAre DEF PhaseOK
  <1>4. NumbersOK' /\ Reached' = Reached
    BY <1>1, <1>2, Unmoved DEF NumbersOK
  <1>5. PhaseOK'
    <2>1. block' \in 0..Cardinality(Reached') + 1 /\ block' >= 1
      BY <1>1, <1>3, <1>4
    <2>2. changed' \in BOOLEAN /\ DOMAIN idoms' = Reached'
      BY <1>1, <1>3, <1>4
    <2> QED
      BY <1>1, <2>1, <2>2 DEF PhaseOK
  <1>6. Held(idoms, 1)
    <2> SUFFICES ASSUME NEW b \in DOMAIN idoms \ {Entry}, NEW q \in DOMAIN idoms,
                        Linked(edges, q, b), rpo_numbers[q] < rpo_numbers[b]
                 PROVE  Over(idoms, idoms[b], q)
      BY DEF Held
    <2>1. ~(block <= rpo_numbers[b])
      BY <1>3
    <2> QED
      BY <2>1 DEF Held, IInv
  <1>7. (TreeOK(idoms) /\ Dominated(idoms) /\ Held(idoms, block) /\ Tight(idoms))'
    BY <1>1, <1>6, TreeMoved DEF IInv
  <1>8. EstimatesTyped'
    BY <1>1, <1>4 DEF EstimatesTyped, IInv
  <1>9. Settled(idoms, block)'
    <2>1. \A b \in DOMAIN idoms' : ~(rpo_numbers'[b] < block')
      BY <1>1, <1>3
    <2> QED
      BY <2>1 DEF Settled
  <1> QED
    BY <1>4, <1>5, <1>7, <1>8, <1>9 DEF IInv

(* What a revision does to the tree.                                       *)
LEMMA ReviseIs ==
    ASSUME IInv, Revise
    PROVE  \E b \in Reached :
             /\ rpo_numbers[b] = block
             /\ DOMAIN idoms = Reached /\ DOMAIN idoms' = Reached
             /\ \A z \in Reached \ {b} : idoms'[z] = idoms[z]
             /\ idoms' = [n \in Reached |-> idoms'[n]]
             /\ idoms = [n \in Reached |-> idoms[n]]
             /\ b = Entry => idoms'[b] = idoms[b]
             /\ b # Entry => IsNext(b, idoms'[b])
             /\ ~changed' <=> ~changed /\ idoms'[b] = idoms[b]
  <1> DEFINE b == Numbered(block)
  <1>1. /\ pc = "for" /\ block <= Cardinality(Reached)
        /\ idoms' = [idoms EXCEPT ![b] = ComputeIdom(b)]
        /\ changed' = (changed \/ ComputeIdom(b) # idoms[b])
    BY DEF Revise
  <1>2. NumbersOK /\ PhaseOK
    BY DEF IInv
  <1>3. block \in 1..Cardinality(Reached) /\ DOMAIN idoms = Reached
    BY <1>1, <1>2, NumbersAre DEF PhaseOK
  <1>4. b \in Reached /\ rpo_numbers[b] = block
    BY <1>2, <1>3, NumbersAre
  <1> HIDE DEF b
  <1>5. /\ DOMAIN idoms' = Reached /\ idoms'[b] = ComputeIdom(b)
        /\ \A z \in Reached \ {b} : idoms'[z] = idoms[z]
    BY <1>1, <1>3, <1>4
  <1>6. idoms' = [n \in Reached |-> idoms'[n]]
    BY <1>1, <1>3
  <1>7. idoms = [n \in Reached |-> idoms[n]]
    BY <1>3 DEF EstimatesTyped, IInv
  <1>8. b = Entry => idoms'[b] = idoms[b]
    BY <1>3, <1>4, <1>5 DEF ComputeIdom, TreeOK, IInv
  <1>9. b # Entry => IsNext(b, idoms'[b])
    BY <1>1, <1>4, <1>5, NextEstimate
  <1>10. ~changed' <=> ~changed /\ idoms'[b] = idoms[b]
    BY <1>1, <1>5
  <1> QED
    BY <1>3, <1>4, <1>5, <1>6, <1>7, <1>8, <1>9, <1>10

LEMMA ReviseOK ==
    ASSUME IInv, Revise
    PROVE  IInv'
  <1>1. /\ pc = "for" /\ block <= Cardinality(Reached) /\ block' = block + 1 /\ pc' = pc
        /\ edges' = edges /\ rpo_numbers' = rpo_numbers /\ changed' \in BOOLEAN
    BY DEF Revise
  <1>2. NumbersOK /\ PhaseOK /\ TreeOK(idoms)
    BY DEF IInv
  <1>3. PICK b \in Reached :
             /\ rpo_numbers[b] = block
             /\ DOMAIN idoms = Reached /\ DOMAIN idoms' = Reached
             /\ \A z \in Reached \ {b} : idoms'[z] = idoms[z]
             /\ idoms' = [n \in Reached |-> idoms'[n]]
             /\ idoms = [n \in Reached |-> idoms[n]]
             /\ b = Entry => idoms'[b] = idoms[b]
             /\ b # Entry => IsNext(b, idoms'[b])
             /\ ~changed' <=> ~changed /\ idoms'[b] = idoms[b]
    BY ReviseIs
  <1>4. NumbersOK' /\ Reached' = Reached
    BY <1>1, <1>2, Unmoved DEF NumbersOK
  <1>5. /\ Cardinality(Reached) \in Nat /\ block \in 1..Cardinality(Reached)
        /\ \A n \in Reached : rpo_numbers[n] \in Nat
    BY <1>1, <1>2, NumbersAre DEF PhaseOK
  <1>6. PhaseOK'
    BY <1>1, <1>3, <1>4, <1>5 DEF PhaseOK
  <1>7. idoms'[b] = idoms[b] => idoms' = idoms
    BY <1>3
  <1>8. TreeOK(idoms') /\ Dominated(idoms') /\ Held(idoms', block + 1) /\ Tight(idoms')
    <2>1. CASE b = Entry
      <3>1. idoms' = idoms /\ block = 1
        BY <1>2, <1>3, <1>7, <2>1 DEF NumbersOK
      <3>2. Held(idoms, block + 1)
        <4> SUFFICES ASSUME NEW n \in DOMAIN idoms \ {Entry}, NEW q \in DOMAIN idoms,
                            Linked(edges, q, n), rpo_numbers[q] < rpo_numbers[n]
                     PROVE  \/ Over(idoms, idoms[n], q)
                            \/ rpo_numbers[idoms[n]] < block + 1 /\ block + 1 <= rpo_numbers[n]
          BY DEF Held
        <4>1. \/ Over(idoms, idoms[n], q)
              \/ rpo_numbers[idoms[n]] < block /\ block <= rpo_numbers[n]
          BY DEF Held, IInv
        <4>2. rpo_numbers[idoms[n]] \in Nat \ {0}
          BY <1>2 DEF TreeOK
        <4> QED
          BY <3>1, <4>1, <4>2
      <3> QED
        BY <3>1, <3>2 DEF IInv
    <2>2. CASE b # Entry
      BY <1>1, <1>3, <2>2, Revised
    <2> QED
      BY <2>1, <2>2
  <1>9. (TreeOK(idoms) /\ Dominated(idoms) /\ Held(idoms, block) /\ Tight(idoms))'
    BY <1>1, <1>8, TreeMoved
  <1>10. EstimatesTyped'
    <2>1. \A n \in Reached : idoms'[n] \in Reached \cup {None}
      BY <1>3, <1>8 DEF TreeOK
    <2> QED
      BY <1>3, <1>4, <2>1 DEF EstimatesTyped
  <1>11. ASSUME ~changed' PROVE Settled(idoms, block)'
    <2>1. idoms' = idoms /\ Settled(idoms, block)
      BY <1>1, <1>3, <1>7, <1>11 DEF IInv
    <2> SUFFICES ASSUME NEW n \in DOMAIN idoms \ {Entry}, NEW p \in DOMAIN idoms,
                        Linked(edges, p, n), rpo_numbers[n] < block + 1
                 PROVE  Over(idoms, idoms[n], p)
      BY <1>1, <2>1 DEF Settled
    <2>2. CASE n = b
      BY <1>3, <2>1, <2>2 DEF IsNext
    <2>3. CASE n # b
      <3>1. rpo_numbers[n] # block /\ rpo_numbers[n] \in Nat
        BY <1>2, <1>3, <1>5, <2>3 DEF NumbersOK
      <3>2. rpo_numbers[n] < block
        BY <1>5, <3>1
      <3> QED
        BY <2>1, <3>2 DEF Settled
    <2> QED
      BY <2>2, <2>3
  <1> QED
    BY <1>1, <1>4, <1>6, <1>9, <1>10, <1>11 DEF IInv

LEMMA EndPassOK ==
    ASSUME IInv, EndPass
    PROVE  IInv'
  <1>1. /\ pc = "for" /\ block > Cardinality(Reached) /\ pc' = "while"
        /\ edges' = edges /\ rpo_numbers' = rpo_numbers /\ idoms' = idoms
        /\ changed' = changed /\ block' = block
    BY DEF EndPass
  <1>2. NumbersOK /\ PhaseOK
    BY DEF IInv
  <1>3. /\ Cardinality(Reached) \in Nat /\ block = Cardinality(Reached) + 1
        /\ DOMAIN idoms = Reached
    BY <1>1, <1>2, NumbersAre DEF PhaseOK
  <1>4. NumbersOK' /\ Reached' = Reached
    BY <1>1, <1>2, Unmoved DEF NumbersOK
  <1>5. PhaseOK'
    BY <1>1, <1>2, <1>3, <1>4 DEF PhaseOK
  <1>6. (TreeOK(idoms) /\ Dominated(idoms) /\ Held(idoms, block) /\ Tight(idoms))'
    BY <1>1, TreeMoved DEF IInv
  <1>7. EstimatesTyped'
    BY <1>1, <1>4 DEF EstimatesTyped, IInv
  <1>8. ~changed' => Settled(idoms, block)'
    BY <1>1 DEF Settled, IInv
  <1> QED
    BY <1>4, <1>5, <1>6, <1>7, <1>8 DEF IInv

LEMMA LeaveLoopOK ==
    ASSUME IInv, LeaveLoop
    PROVE  IInv'
  <1>1. /\ pc = "while" /\ ~changed /\ pc' = "done"
        /\ edges' = edges /\ rpo_numbers' = rpo_numbers /\ idoms' = idoms
        /\ changed' = changed /\ block' = block
    BY DEF LeaveLoop
  <1>2. NumbersOK /\ PhaseOK
    BY DEF IInv
  <1>3. NumbersOK' /\ Reached' = Reached
    BY <1>1, <1>2, Unmoved DEF NumbersOK
  <1>4. PhaseOK'
    BY <1>1, <1>2, <1>3 DEF PhaseOK
  <1>5. (TreeOK(idoms) /\ Dominated(idoms) /\ Held(idoms, block) /\ Tight(idoms))'
    BY <1>1, TreeMoved DEF IInv
  <1>6. EstimatesTyped'
    BY <1>1, <1>3 DEF EstimatesTyped, IInv
  <1>7. Settled(idoms, block)'
    BY <1>1 DEF Settled, IInv
  <1> QED
    BY <1>3, <1>4, <1>5, <1>6, <1>7 DEF IInv

LEMMA NothingMovedOK ==
    ASSUME IInv, UNCHANGED vars
    PROVE  IInv'
  <1>1. /\ edges' = edges /\ rpo_numbers' = rpo_numbers /\ idoms' = idoms
        /\ changed' = changed /\ block' = block /\ pc' = pc
    BY DEF vars
  <1>2. NumbersOK /\ PhaseOK
    BY DEF IInv
  <1>3. NumbersOK' /\ Reached' = Reached
    BY <1>1, <1>2, Unmoved DEF NumbersOK
  <1>4. PhaseOK'
    BY <1>1, <1>2, <1>3 DEF PhaseOK
  <1>5. (TreeOK(idoms) /\ Dominated(idoms) /\ Held(idoms, block) /\ Tight(idoms))'
    BY <1>1, TreeMoved DEF IInv
  <1>6. EstimatesTyped'
    BY <1>1, <1>3 DEF EstimatesTyped, IInv
  <1>7. (pc \in {"while", "for", "done"} /\ ~changed => Settled(idoms, block))'
    BY <1>1 DEF Settled, IInv
  <1> QED
    BY <1>3, <1>4, <1>5, <1>6, <1>7 DEF IInv

LEMMA IInvInvariant == Spec => []IInv
  <1>1. ASSUME IInv, [Next]_vars PROVE IInv'
    <2>1. ASSUME NEW n \in Node, Number(n) PROVE IInv'
      BY <1>1, <2>1, NumberOK
    <2>2. CASE AllNumbered
      BY <1>1, <2>2, AllNumberedOK
    <2>3. CASE Estimate
      BY <1>1, <2>3, EstimateOK
    <2>4. CASE AllEstimated
      BY <1>1, <2>4, AllEstimatedOK
    <2>5. CASE StartPass
      BY <1>1, <2>5, StartPassOK
    <2>6. CASE Revise
      BY <1>1, <2>6, ReviseOK
    <2>7. CASE EndPass
      BY <1>1, <2>7, EndPassOK
    <2>8. CASE LeaveLoop
      BY <1>1, <2>8, LeaveLoopOK
    <2>9. CASE UNCHANGED vars
      BY <1>1, <2>9, NothingMovedOK
    <2> QED
      BY <1>1, <2>1, <2>2, <2>3, <2>4, <2>5, <2>6, <2>7, <2>8, <2>9 DEF Next
  <1> QED
    BY <1>1, InitOK, PTL DEF Spec

-----------------------------------------------------------------------------
(* Every reachable state has the types of compute's locals: each number is *)
(* at most the count of the nodes reached, and an estimate is a node that  *)
(* has been reached.                                                       *)
THEOREM TreeTyped == Spec => []TypeOK
  <1>1. IInv => TypeOK
    <2> SUFFICES ASSUME IInv PROVE TypeOK
      OBVIOUS
    <2>1. NumbersOK /\ PhaseOK /\ EstimatesTyped
      BY DEF IInv
    <2>2. DOMAIN idoms \subseteq Reached
      BY <2>1, EstimatedAre
    <2>3. edges \subseteq Edge /\ Reached \subseteq Node
          /\ rpo_numbers \in [Reached -> 1..Cardinality(Reached)]
      BY <2>1 DEF NumbersOK
    <2>4. idoms \in [DOMAIN idoms -> Reached \cup {None}]
      BY <2>1 DEF EstimatesTyped
    <2>5. changed \in BOOLEAN /\ block \in 0..Cardinality(Reached) + 1
          /\ pc \in {"number", "estimate", "while", "for", "done"}
      BY <2>1 DEF PhaseOK
    <2> QED
      BY <2>2, <2>3, <2>4, <2>5 DEF TypeOK
  <1> QED
    BY <1>1, IInvInvariant, PTL

(* The two `expect`s of compute_idom and the loop of common_dominator:     *)
(* whatever the graph and the order of its depth-first search, the block a *)
(* loop is at has a predecessor with an estimate, and every climb goes to  *)
(* a smaller number.                                                       *)
THEOREM BuilderNeverStuck == Spec => []NeverStuck
  <1>1. IInv => NeverStuck
    <2> SUFFICES ASSUME IInv PROVE NeverStuck
      OBVIOUS
    <2>1. NumbersOK /\ PhaseOK /\ TreeOK(idoms)
      BY DEF IInv
    <2>2. ASSUME pc \in {"estimate", "for"}, block \in 2..Cardinality(Reached)
          PROVE  ReachablePreds(Numbered(block)) # {}
      <3> DEFINE b == Numbered(block)
      <3>1. block \in 1..Cardinality(Reached) /\ block # 1
        BY <2>1, <2>2, NumbersAre
      <3>2. b \in Reached /\ rpo_numbers[b] = block
        BY <2>1, <3>1, NumbersAre
      <3> HIDE DEF b
      <3>3. b # Entry
        BY <2>1, <3>1, <3>2 DEF NumbersOK
      <3>4. PICK q \in DOMAIN idoms : Linked(edges, q, b)
        BY <2>1, <2>2, <3>1, <3>2, <3>3, EarlierPred
      <3>5. ReachablePreds(b) # {}
        BY <3>4, PredsAre
      <3> QED
        BY <3>5 DEF b
    <2>3. \A n \in DOMAIN idoms \ {Entry} : rpo_numbers[idoms[n]] < rpo_numbers[n]
      BY <2>1 DEF TreeOK
    <2> QED
      BY <2>2, <2>3 DEF NeverStuck
  <1> QED
    BY <1>1, IInvInvariant, PTL

LEMMA DominatesIsOver ==
    \A a, b : dominates(a, b) <=> Over(idoms, a, b)
  BY DEF dominates, tree, Over, Parents

(* While compute runs, every dominator of a node is above it in the tree   *)
(* of the estimates: they err on one side only.                            *)
THEOREM EstimatesAbove == Spec => []Above
  <1>1. IInv => Above
    <2> SUFFICES ASSUME IInv, NEW a \in DOMAIN idoms, NEW b \in DOMAIN idoms,
                        Dominates(edges, Entry, a, b)
                 PROVE  dominates(a, b)
      BY DEF Above
    <2>1. Over(idoms, a, b)
      BY DominatorsOver DEF IInv
    <2> QED
      BY <2>1, DominatesIsOver
  <1> QED
    BY <1>1, IInvInvariant, PTL

(* When a pass has changed nothing, what is above a node dominates it: the *)
(* nodes that x is not above are closed but for x.                         *)
LEMMA OverDominates ==
    ASSUME IInv, pc = "done", NEW x \in Reached, NEW y \in Reached, Over(idoms, x, y)
    PROVE  Dominates(edges, Entry, x, y)
  <1>1. NumbersOK /\ PhaseOK /\ TreeOK(idoms) /\ Settled(idoms, block)
    BY DEF IInv, PhaseOK
  <1>2. DOMAIN idoms = Reached /\ block = Cardinality(Reached) + 1 /\ Closed(edges, Reached)
    BY <1>1 DEF PhaseOK, NumbersOK
  <1>3. CASE x \in {Entry, y}
    BY <1>3 DEF Dominates
  <1>4. CASE x \notin {Entry, y}
    <2> DEFINE S == {n \in Reached : ~Over(idoms, x, n)}
    <2>1. Entry \in S
      BY <1>1, <1>4, OverEntry DEF NumbersOK
    <2>2. x \notin S /\ y \notin S
      BY ReachesRefl DEF Over
    <2>3. ASSUME NEW m \in S, NEW n, Linked(edges, m, n), n # x, n \notin S
          PROVE  FALSE
      <3>1. n \in Reached \ {Entry} /\ Over(idoms, x, n)
        BY <1>1, <1>2, <2>3, EdgesIn DEF Closed
      <3>2. Over(idoms, x, idoms[n])
        BY <1>1, <1>2, <2>3, <3>1, OverUp
      <3>3. rpo_numbers[n] < block
        BY <1>1, <1>2, <3>1, NumbersAre
      <3>4. Over(idoms, idoms[n], m)
        BY <1>1, <1>2, <2>3, <3>1, <3>3 DEF Settled
      <3>5. Over(idoms, x, m)
        BY <3>2, <3>4, ReachesTrans DEF Over
      <3> QED
        BY <2>3, <3>5
    <2>4. ClosedBut(edges, S, x)
      BY <2>3 DEF ClosedBut
    <2> HIDE DEF S
    <2> QED
      BY <2>1, <2>2, <2>4, DominatesIntro
  <1> QED
    BY <1>3, <1>4

LEMMA ParentIsImmediate ==
    ASSUME IInv, pc = "done", NEW y \in Reached \ {Entry}
    PROVE  idoms[y] \in Reached /\ IsImmediateDominator(edges, Entry, idoms[y], y)
  <1>1. NumbersOK /\ PhaseOK /\ TreeOK(idoms) /\ Dominated(idoms)
    BY DEF IInv
  <1>2. DOMAIN idoms = Reached
    BY <1>1 DEF PhaseOK
  <1>3. /\ idoms[y] \in Reached /\ rpo_numbers[idoms[y]] < rpo_numbers[y]
        /\ rpo_numbers[y] \in Nat
    BY <1>1, <1>2 DEF TreeOK
  <1>4. Over(idoms, idoms[y], y)
    <2>1. Over(idoms, idoms[y], idoms[y])
      BY ReachesRefl DEF Over
    <2> QED
      BY <1>1, <1>2, <2>1, OverUp
  <1>5. Dominates(edges, Entry, idoms[y], y) /\ idoms[y] # y
    BY <1>3, <1>4, OverDominates
  <1>6. \A d : StrictlyDominates(edges, Entry, d, y) => Dominates(edges, Entry, d, idoms[y])
    BY <1>1, <1>2 DEF Dominated, StrictlyDominates
  <1> QED
    BY <1>3, <1>5, <1>6 DEF IsImmediateDominator, StrictlyDominates

(* What compute returns and what DominatorTree answers by it: when the     *)
(* loop has ended, the children of a node are the nodes it immediately     *)
(* dominates, and `dominates` is dominance, whatever the graph and the     *)
(* order of its depth-first search.                                        *)
THEOREM TreeIsRight == Spec => []TreeIsDominance
  <1>1. IInv => TreeIsDominance
    <2> SUFFICES ASSUME IInv, pc = "done" PROVE TreeIsDominance
      BY DEF TreeIsDominance
    <2>1. NumbersOK /\ PhaseOK /\ TreeOK(idoms) /\ Dominated(idoms)
      BY DEF IInv
    <2>2. DOMAIN idoms = Reached
      BY <2>1 DEF PhaseOK
    <2>3. ASSUME NEW b \in Reached \ {Entry}, NEW a \in Reached
          PROVE  b \in children(a) <=> IsImmediateDominator(edges, Entry, a, b)
      <3>1. b \in children(a) <=> Linked(Parents(idoms), a, b)
        BY LinkedFacts DEF children, tree, Parents
      <3>2. b \in children(a) <=> a = idoms[b]
        BY <2>1, <2>2, <3>1, ParentLinks
      <3>3. IsImmediateDominator(edges, Entry, idoms[b], b) /\ Reaches(edges, Entry, b)
        BY <2>1, ParentIsImmediate DEF NumbersOK
      <3> QED
        BY <3>2, <3>3, ImmediateUnique
    <2>4. ASSUME NEW a \in Reached, NEW b \in Reached
          PROVE  dominates(a, b) <=> Dominates(edges, Entry, a, b)
      BY <2>1, <2>2, DominatesIsOver, DominatorsOver, OverDominates
    <2> QED
      BY <2>3, <2>4 DEF TreeIsDominance
  <1> QED
    BY <1>1, IInvInvariant, PTL

(* What compute returns depends on the graph alone and not on the order of *)
(* the search.                                                             *)
ResultOfGraph ==
    pc = "done" =>
        /\ Reached = {n \in Node : Reaches(edges, Entry, n)}
        /\ \A b \in Reached \ {Entry} :
              idoms[b] = CHOOSE a \in Node : IsImmediateDominator(edges, Entry, a, b)

(* The tree has the nodes that can be reached, each below the one node     *)
(* that immediately dominates it: of a reversed graph this is the tree     *)
(* ControlDependence starts from.                                          *)
THEOREM ResultIsThatOfTheGraph == Spec => []ResultOfGraph
  <1>1. IInv => ResultOfGraph
    <2> SUFFICES ASSUME IInv, pc = "done" PROVE ResultOfGraph
      BY DEF ResultOfGraph
    <2>1. NumbersOK /\ Closed(edges, Reached)
      BY DEF IInv, NumbersOK
    <2>2. ASSUME NEW n \in Node PROVE n \in Reached <=> Reaches(edges, Entry, n)
      <3>1. Entry \in Reached /\ (n \in Reached => Reaches(edges, Entry, n))
        BY <2>1 DEF NumbersOK
      <3> QED
        BY <2>1, <3>1, ReachesElim
    <2>3. Reached = {n \in Node : Reaches(edges, Entry, n)}
      BY <2>1, <2>2 DEF NumbersOK
    <2>4. ASSUME NEW b \in Reached \ {Entry}
          PROVE  idoms[b] = CHOOSE a \in Node : IsImmediateDominator(edges, Entry, a, b)
      <3>1. idoms[b] \in Node /\ IsImmediateDominator(edges, Entry, idoms[b], b)
        BY <2>1, ParentIsImmediate DEF NumbersOK
      <3>2. Reaches(edges, Entry, b)
        BY <2>3
      <3> DEFINE c == CHOOSE a \in Node : IsImmediateDominator(edges, Entry, a, b)
      <3>3. IsImmediateDominator(edges, Entry, c, b)
        BY <3>1
      <3> HIDE DEF c
      <3>4. idoms[b] = c
        BY <3>1, <3>2, <3>3, ImmediateUnique
      <3> QED
        BY <3>4 DEF c
    <2> QED
      BY <2>3, <2>4 DEF ResultOfGraph
  <1> QED
    BY <1>1, IInvInvariant, PTL

(* A revision of the running loop moves an estimate to a node with a       *)
(* smaller number, and no other step moves one: `changed` is set finitely  *)
(* often.                                                                  *)
THEOREM EstimatesOnlyRise == Spec => EstimatesRise
  <1> DEFINE Rise ==
        \A b \in DOMAIN idoms :
           idoms'[b] # idoms[b] => rpo_numbers[idoms'[b]] < rpo_numbers[idoms[b]]
  <1>1. ASSUME IInv, Next PROVE Rise
    <2>1. CASE Revise
      <3>1. PICK b \in Reached :
                 /\ rpo_numbers[b] = block
                 /\ DOMAIN idoms = Reached /\ DOMAIN idoms' = Reached
                 /\ \A z \in Reached \ {b} : idoms'[z] = idoms[z]
                 /\ idoms' = [n \in Reached |-> idoms'[n]]
                 /\ idoms = [n \in Reached |-> idoms[n]]
                 /\ b = Entry => idoms'[b] = idoms[b]
                 /\ b # Entry => IsNext(b, idoms'[b])
                 /\ ~changed' <=> ~changed /\ idoms'[b] = idoms[b]
        BY <1>1, <2>1, ReviseIs
      <3>2. pc = "for"
        BY <2>1 DEF Revise
      <3>3. b # Entry => idoms'[b] = idoms[b] \/ rpo_numbers[idoms'[b]] < rpo_numbers[idoms[b]]
        BY <1>1, <3>1, <3>2, Revised
      <3> QED
        BY <3>1, <3>3
    <2>2. CASE Estimate
      <3> DEFINE b == Numbered(block)
      <3>1. /\ pc = "estimate" /\ block <= Cardinality(Reached)
            /\ idoms' = Put(idoms, b, ComputeIdom(b))
        BY <2>2 DEF Estimate
      <3>2. NumbersOK /\ PhaseOK
        BY <1>1 DEF IInv
      <3>3. block \in 1..Cardinality(Reached)
        BY <3>1, <3>2, NumbersAre DEF PhaseOK
      <3>4. rpo_numbers[b] = block
        BY <3>2, <3>3, NumbersAre
      <3> HIDE DEF b
      <3>5. b \notin DOMAIN idoms
        BY <3>1, <3>2, <3>3, <3>4 DEF PhaseOK
      <3> QED
        BY <3>1, <3>5 DEF Put
    <2>3. CASE idoms' = idoms
      BY <2>3
    <2> QED
      BY <1>1, <2>1, <2>2, <2>3
      DEF Next, Number, AllNumbered, AllEstimated, StartPass, EndPass, LeaveLoop
  <1>2. IInv /\ [Next]_vars => [Rise]_vars
    BY <1>1
  <1> QED
    BY <1>2, IInvInvariant, PTL DEF Spec, EstimatesRise
=============================================================================
