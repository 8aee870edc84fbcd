--------------------------- MODULE PathfinderProofs ---------------------------
(***************************************************************************)
(* Proofs about Pathfinder, for worlds of every size and with every tile:  *)
(* no parent chain in the queue runs in a circle, and what the search      *)
(* finds is a shortest way.                                                *)
(*                                                                         *)
(* The search never improves a node in the queue and expands tiles again   *)
(* and again, so the argument is about the first time: when a tile is      *)
(* expanded for the first time, its chain is a shortest one, since the     *)
(* heuristic never changes by more than one between neighbours, and since  *)
(* whatever a tile that was expanded leads to is expanded as well or waits *)
(* in the queue with a chain that is short enough.                         *)
(*                                                                         *)
(* What a recursive function (within) computes is proved without an        *)
(* induction theorem: a set of naturals that is not empty has a least      *)
(* member, and a least counterexample is none.                             *)
(***************************************************************************)
EXTENDS Pathfinder, WellFoundedInduction, FiniteSetTheorems, SequenceTheorems, TLAPS

\* A set of naturals that is not empty has a least member.
LEMMA LeastNat ==
  ASSUME NEW T, T \subseteq Nat, T # {} PROVE \E x \in T : \A y \in T : x <= y
<1>. DEFINE R == {ss \in Nat \X Nat : ss[1] < ss[2]}
<1>1. IsWellFoundedOn(R, Nat)
  BY NatLessThanWellFounded DEF OpToRel
<1>2. PICK x \in T : \A y \in T : ~ (<<y, x>> \in R)
  BY <1>1, WFMin
<1>3. ASSUME NEW y \in T PROVE x <= y
  <2>1. <<y, x>> \in Nat \X Nat /\ <<y, x>> \notin R
    BY <1>2
  <2>2. ~ (y < x)
    BY <2>1
  <2>. QED
    BY <2>1, <2>2
<1>. QED
  BY <1>3

-----------------------------------------------------------------------------
(***************************************************************************)
(* The reference: what within contains.                                    *)
(***************************************************************************)
Last == m_width * m_height

Onward(S) == S \cup {b \in Place : \E a \in S : Passes(a, b)}

\* The size of a world is a natural number.
LEMMA SizeType ==
  Last \in Nat /\ m_width \in Nat \ {0} /\ m_height \in Nat \ {0}
BY PathAssumption DEF Last

\* There is a function that is defined step by step.
LEMMA LayersExist ==
  ASSUME NEW k \in Nat
  PROVE  \E g : g = [n \in 0 .. k |-> IF n = 0 THEN {start} ELSE Onward(g[n - 1])]
<1>. DEFINE Layers(g, m) == g = [n \in 0 .. m |-> IF n = 0 THEN {start} ELSE Onward(g[n - 1])]
            None == {m \in Nat : ~ \E g : Layers(g, m)}
<1>. HIDE DEF Layers
<1>1. ASSUME None # {} PROVE FALSE
  <2>1. PICK m \in None : \A j \in None : m <= j
    BY <1>1, LeastNat
  <2>2. CASE m = 0
    <3>1. Layers([n \in 0 .. 0 |-> {start}], 0)
      BY DEF Layers
    <3>. QED
      BY <2>1, <2>2, <3>1
  <2>3. CASE m # 0
    <3>1. m - 1 \in Nat /\ m \in Nat /\ m - 1 \notin None
      BY <2>1, <2>3
    <3>2. PICK g : Layers(g, m - 1)
      BY <3>1
    <3>. DEFINE h == [n \in 0 .. m |-> IF n = m THEN Onward(g[m - 1]) ELSE g[n]]
    <3>3. ASSUME NEW n \in 0 .. m
          PROVE  h[n] = IF n = 0 THEN {start} ELSE Onward(h[n - 1])
      <4>1. CASE n = m
        BY <2>3, <3>1, <4>1
      <4>2. CASE n # m
        <5>1. /\ n \in 0 .. m - 1 /\ h[n] = g[n]
              /\ n # 0 => n - 1 \in 0 .. m - 1 /\ h[n - 1] = g[n - 1]
          BY <3>1, <4>2
        <5>2. g[n] = IF n = 0 THEN {start} ELSE Onward(g[n - 1])
          BY <3>2, <5>1 DEF Layers
        <5>. QED
          BY <5>1, <5>2
      <4>. QED
        BY <4>1, <4>2
    <3>4. Layers(h, m)
      BY <3>3 DEF Layers
    <3>. QED
      BY <2>1, <3>4
  <2>. QED
    BY <2>2, <2>3
<1>2. \E g : Layers(g, k)
  BY <1>1
<1>. QED
  BY <1>2 DEF Layers

\* So that the definition of within says what each of its sets is.
LEMMA WithinLayers ==
  \A n \in 0 .. Last : within[n] = IF n = 0 THEN {start} ELSE Onward(within[n - 1])
<1>1. \E g : g = [n \in 0 .. Last |-> IF n = 0 THEN {start} ELSE Onward(g[n - 1])]
  BY LayersExist, SizeType
<1>2. within = [n \in 0 .. Last |-> IF n = 0 THEN {start} ELSE Onward(within[n - 1])]
  BY <1>1 DEF within, Onward, Last
<1>. QED
  BY <1>2

\* Every way stays in the world.
LEMMA WithinPlace ==
  ASSUME start \in Place PROVE \A n \in 0 .. Last : within[n] \subseteq Place
<1>. DEFINE Out == {n \in 0 .. Last : ~ (within[n] \subseteq Place)}
<1>1. ASSUME Out # {} PROVE FALSE
  <2>. Out \subseteq Nat
    BY SizeType
  <2>1. PICK m \in Out : \A j \in Out : m <= j
    BY <1>1, LeastNat
  <2>2. CASE m = 0
    BY <2>1, <2>2, WithinLayers
  <2>3. CASE m # 0
    <3>1. m - 1 \in 0 .. Last /\ m - 1 \notin Out
      BY <2>1, <2>3, SizeType
    <3>2. within[m - 1] \subseteq Place /\ within[m] = Onward(within[m - 1])
      BY <2>1, <2>3, <3>1, WithinLayers
    <3>. QED
      BY <2>1, <3>2 DEF Onward
  <2>. QED
    BY <2>2, <2>3
<1>. QED
  BY <1>1

\* The search changes neither the world nor where the ways lead.
LEMMA WithinKept ==
  ASSUME UNCHANGED grid
  PROVE  /\ \A a, b : Passes(a, b)' <=> Passes(a, b)
         /\ \A n \in 0 .. Last : within'[n] = within[n]
<1>1. ASSUME NEW a, NEW b PROVE Passes(a, b)' <=> Passes(a, b)
  BY DEF grid, Passes, Type, Marked, Sided
<1>2. \A n \in 0 .. Last : within[n] = IF n = 0 THEN {start} ELSE Onward(within[n - 1])
  BY WithinLayers
<1>3. (\A n \in 0 .. Last : within[n] = IF n = 0 THEN {start} ELSE Onward(within[n - 1]))'
  BY WithinLayers, PTL
<1>4. \A n \in 0 .. Last : within'[n] = IF n = 0 THEN {start} ELSE Onward(within'[n - 1])
  BY <1>1, <1>3 DEF Onward, grid
<1>. DEFINE Apart == {n \in 0 .. Last : within'[n] # within[n]}
<1>5. ASSUME Apart # {} PROVE FALSE
  <2>. Apart \subseteq Nat
    BY SizeType
  <2>1. PICK m \in Apart : \A j \in Apart : m <= j
    BY <1>5, LeastNat
  <2>2. CASE m = 0
    BY <1>2, <1>4, <2>1, <2>2
  <2>3. CASE m # 0
    <3>1. m - 1 \in 0 .. Last /\ m - 1 \notin Apart
      BY <2>1, <2>3, SizeType
    <3>2. within'[m - 1] = within[m - 1]
      BY <3>1
    <3>. QED
      BY <1>2, <1>4, <2>1, <2>3, <3>2
  <2>. QED
    BY <2>2, <2>3
<1>. QED
  BY <1>1, <1>5

-----------------------------------------------------------------------------
(***************************************************************************)
(* Distances and chains.                                                   *)
(***************************************************************************)
\* The heuristic never changes by more than one on a step, and is zero at the
\* goal only.
LEMMA Heuristic ==
  ASSUME NEW c \in Goal
  PROVE  /\ \A a \in Place : heuristic(a, c) \in Nat
         /\ heuristic(c, c) = 0
         /\ \A a, b \in Place : Near(a, b) => heuristic(a, c) <= heuristic(b, c) + 1
<1>1. PICK cx \in Nat, cy \in Nat : c = <<cx, cy>>
  BY SizeType DEF Goal, Place
<1>2. ASSUME NEW a \in Place PROVE heuristic(a, c) \in Nat
  <2>1. PICK ax \in Nat, ay \in Nat : a = <<ax, ay>>
    BY SizeType DEF Place
  <2>. QED
    BY <1>1, <2>1 DEF heuristic, Abs
<1>3. heuristic(c, c) = 0
  BY <1>1 DEF heuristic, Abs
<1>4. ASSUME NEW a \in Place, NEW b \in Place, Near(a, b)
      PROVE  heuristic(a, c) <= heuristic(b, c) + 1
  <2>1. PICK ax \in Nat, ay \in Nat : a = <<ax, ay>>
    BY SizeType DEF Place
  <2>2. PICK bx \in Nat, by \in Nat : b = <<bx, by>>
    BY SizeType DEF Place
  <2>. QED
    BY <1>1, <1>4, <2>1, <2>2 DEF Near, heuristic, Abs
<1>. QED
  BY <1>2, <1>3, <1>4

\* A chain of tiles that is a way, its tiles but the first one expanded.
Chain(node) ==
  /\ node \in Seq(Place) /\ IsWay(node)
  /\ \A i \in 2 .. Len(node) : node[i] \in closed_set

\* Where a chain is continued.
LEMMA Pushed ==
  ASSUME NEW node \in Seq(Place), IsWay(node), NEW b \in Place, Passes(node[1], b),
         \A i \in 1 .. Len(node) : node[i] # b
  PROVE  /\ <<b>> \o node \in Seq(Place) /\ IsWay(<<b>> \o node)
         /\ Len(<<b>> \o node) = Len(node) + 1 /\ (<<b>> \o node)[1] = b
         /\ \A i \in 2 .. Len(node) + 1 : (<<b>> \o node)[i] = node[i - 1]
<1>. DEFINE next == <<b>> \o node
<1>1. next \in Seq(Place) /\ Len(next) = Len(node) + 1 /\ next[1] = b
  OBVIOUS
<1>2. \A i \in 2 .. Len(node) + 1 : next[i] = node[i - 1]
  OBVIOUS
<1>3. Len(node) \in Nat \ {0} /\ node[1] \in Place
  BY DEF IsWay
<1>. HIDE DEF next
<1>4. next # <<>> /\ next[Len(next)] = start
  BY <1>1, <1>2, <1>3 DEF IsWay
<1>5. \A i \in 1 .. Len(next) : next[i] \in Place
  BY <1>1
<1>6. ASSUME NEW i \in 1 .. Len(next) - 1 PROVE Passes(next[i + 1], next[i])
  <2>1. CASE i = 1
    BY <1>1, <1>2, <1>3, <2>1
  <2>2. CASE i # 1
    <3>1. i - 1 \in 1 .. Len(node) - 1 /\ next[i] = node[i - 1] /\ next[i + 1] = node[i]
      BY <1>1, <1>2, <1>3, <2>2
    <3>2. Passes(node[(i - 1) + 1], node[i - 1])
      BY <3>1 DEF IsWay
    <3>. QED
      BY <3>1, <3>2, <1>3
  <2>. QED
    BY <2>1, <2>2
<1>7. ASSUME NEW i \in 1 .. Len(next), NEW j \in 1 .. Len(next), next[i] = next[j]
      PROVE  i = j
  <2>1. \A k \in 2 .. Len(next) : k - 1 \in 1 .. Len(node) /\ next[k] = node[k - 1]
    BY <1>1, <1>2, <1>3
  <2>2. CASE i = 1 \/ j = 1
    <3>1. \A k \in 2 .. Len(next) : next[k] # next[1]
      BY <1>1, <2>1
    <3>2. \A k \in 1 .. Len(next) : k # 1 => k \in 2 .. Len(next)
      BY <1>1, <1>3
    <3>. QED
      BY <1>7, <2>2, <3>1, <3>2
  <2>3. CASE i # 1 /\ j # 1
    <3>1. i \in Nat /\ j \in Nat /\ i \in 2 .. Len(next) /\ j \in 2 .. Len(next)
      BY <1>1, <1>3, <2>3
    <3>2. i - 1 \in 1 .. Len(node) /\ j - 1 \in 1 .. Len(node) /\ node[i - 1] = node[j - 1]
      BY <1>7, <2>1, <3>1
    <3>3. i - 1 = j - 1
      BY <3>2 DEF IsWay
    <3>. QED
      BY <3>1, <3>3
  <2>. QED
    BY <2>2, <2>3
<1>8. IsWay(next)
  BY <1>4, <1>5, <1>6, <1>7 DEF IsWay
<1>. QED
  BY <1>1, <1>2, <1>8 DEF next

\* A way that takes no tile twice is not longer than the world has tiles.
LEMMA WayLength ==
  ASSUME NEW node \in Seq(Place), IsWay(node) PROVE Len(node) <= Last /\ Len(node) \in Nat \ {0}
<1>1. Len(node) \in Nat \ {0} /\ node \in [1 .. Len(node) -> Place]
  BY DEF IsWay
<1>2. node \in Injection(1 .. Len(node), Place)
  BY <1>1 DEF IsWay, Injection, IsInjective
<1>3. /\ IsFiniteSet(0 .. m_width - 1) /\ Cardinality(0 .. m_width - 1) = m_width
      /\ IsFiniteSet(0 .. m_height - 1) /\ Cardinality(0 .. m_height - 1) = m_height
  <2>1. ASSUME NEW w \in Nat \ {0}
        PROVE  IsFiniteSet(0 .. w - 1) /\ Cardinality(0 .. w - 1) = w
    <3>1. w - 1 \in Int /\ ~ (0 > w - 1) /\ (w - 1) - 0 + 1 = w
      OBVIOUS
    <3>. QED
      BY <3>1, FS_Interval
  <2>. QED
    BY <2>1, SizeType
<1>4. IsFiniteSet(Place) /\ Cardinality(Place) = Last
  BY <1>3, FS_Product DEF Place, Last
<1>5. Cardinality(1 .. Len(node)) = Len(node)
  BY <1>1, FS_Interval
<1>6. Cardinality(1 .. Len(node)) <= Cardinality(Place)
  BY <1>2, <1>4, FS_Injection
<1>. QED
  BY <1>1, <1>4, <1>5, <1>6

-----------------------------------------------------------------------------
(***************************************************************************)
(* The invariants.                                                         *)
(***************************************************************************)
\* What is in the queue and in the result.
PathInv ==
  /\ start \in Place /\ end \in Goal
  /\ closed_set \subseteq Place /\ end \notin closed_set /\ done \in BOOLEAN
  /\ \A node \in open_set : Chain(node)
  /\ done /\ path = <<>> => open_set = {}
  /\ path # <<>> => path \in Seq(Place) /\ IsWay(path) /\ path[1] = end

\* What a tile that was expanded leads to was expanded, or waits in the queue
\* with a chain that is not longer than any way by that tile.
FrontierInv ==
  /\ start \in closed_set \/ <<start>> \in open_set
  /\ \A a \in closed_set, b \in Place \ closed_set, n \in 0 .. Last :
       Passes(a, b) /\ a \in within[n] => \E node \in open_set : node[1] = b /\ Len(node) <= n + 2

\* No way to the goal is shorter than the result.
BestInv == path # <<>> => \A n \in 0 .. Last : end \in within[n] => Len(path) - 1 <= n

\* Whatever tile can be reached and has not been expanded, something waits in
\* the queue with no greater an f than a shortest way to the tile would have.
LEMMA Frontier ==
  ASSUME PathInv, FrontierInv
  PROVE  \A k \in 0 .. Last : \A t \in within[k] \ closed_set :
           \E y \in open_set : f(y) <= k + heuristic(t, end)
<1>. DEFINE Waits(k, t) == \E y \in open_set : f(y) <= k + heuristic(t, end)
            Bad == {k \in 0 .. Last : ~ \A t \in within[k] \ closed_set : Waits(k, t)}
<1>0. \A k \in 0 .. Last : within[k] \subseteq Place
  BY WithinPlace DEF PathInv
<1>h. /\ \A a \in Place : heuristic(a, end) \in Nat
      /\ \A a, b \in Place : Near(a, b) => heuristic(a, end) <= heuristic(b, end) + 1
  BY Heuristic DEF PathInv
<1>l. \A y \in open_set : Len(y) \in Nat /\ y[1] \in Place /\ f(y) = Len(y) - 1 + heuristic(y[1], end)
  <2>. SUFFICES ASSUME NEW y \in open_set PROVE Len(y) \in Nat /\ y[1] \in Place
    BY DEF f
  <2>. QED
    BY DEF PathInv, Chain, IsWay
<1>1. ASSUME Bad # {} PROVE FALSE
  <2>. Bad \subseteq Nat
    BY SizeType
  <2>1. PICK k \in Bad : \A j \in Bad : k <= j
    BY <1>1, LeastNat
  <2>2. k \in 0 .. Last /\ k \in Nat
    BY <2>1
  <2>3. PICK t \in within[k] \ closed_set : ~ Waits(k, t)
    BY <2>1
  <2>4. CASE k = 0
    <3>1. t = start /\ <<start>> \in open_set
      BY <2>2, <2>3, <2>4, WithinLayers DEF FrontierInv
    <3>2. f(<<start>>) = 0 + heuristic(t, end)
      BY <1>h, <3>1 DEF f, PathInv
    <3>. QED
      BY <1>h, <2>3, <2>4, <3>1, <3>2 DEF PathInv
  <2>5. CASE k # 0
    <3>1. k - 1 \in 0 .. Last /\ k - 1 \notin Bad
      BY <2>1, <2>2, <2>5, SizeType
    <3>2. within[k] = Onward(within[k - 1])
      BY <2>2, <2>5, WithinLayers
    <3>3. ASSUME NEW a \in within[k - 1], a \notin closed_set,
                 heuristic(a, end) <= heuristic(t, end) + 1
          PROVE  FALSE
      <4>1. PICK y \in open_set : f(y) <= (k - 1) + heuristic(a, end)
        BY <3>1, <3>3
      <4>2. heuristic(a, end) \in Nat /\ heuristic(t, end) \in Nat /\ f(y) \in Int
        BY <1>0, <1>h, <1>l, <2>2, <2>3, <3>1
      <4>3. f(y) <= k + heuristic(t, end)
        BY <2>2, <3>3, <4>1, <4>2
      <4>. QED
        BY <2>3, <4>3
    <3>4. CASE t \in within[k - 1]
      <4>1. heuristic(t, end) <= heuristic(t, end) + 1
        BY <1>0, <1>h, <2>2, <2>3
      <4>. QED
        BY <2>3, <3>3, <3>4, <4>1
    <3>5. ASSUME NEW a \in within[k - 1], t \in Place, Passes(a, t) PROVE FALSE
      <4>1. a \in Place /\ Near(a, t)
        BY <1>0, <3>1, <3>5 DEF Passes
      <4>2. CASE a \notin closed_set
        BY <1>h, <3>3, <3>5, <4>1, <4>2
      <4>3. CASE a \in closed_set
        <5>1. PICK y \in open_set : y[1] = t /\ Len(y) <= (k - 1) + 2
          BY <2>3, <3>1, <3>5, <4>3 DEF FrontierInv
        <5>2. f(y) <= k + heuristic(t, end)
          BY <1>h, <1>l, <2>2, <3>5, <5>1
        <5>. QED
          BY <2>3, <5>2
      <4>. QED
        BY <4>2, <4>3
    <3>. QED
      BY <2>3, <3>2, <3>4, <3>5 DEF Onward
  <2>. QED
    BY <2>4, <2>5
<1>. QED
  BY <1>1

\* So the chain with which a tile is expanded for the first time, or the goal
\* reached, is a shortest one.
LEMMA TopShortest ==
  ASSUME PathInv, FrontierInv, NEW x, Top(x), x[1] \notin closed_set,
         NEW n \in 0 .. Last, x[1] \in within[n]
  PROVE  Len(x) - 1 <= n
<1>1. PICK y \in open_set : f(y) <= n + heuristic(x[1], end)
  BY Frontier
<1>2. x \in open_set /\ f(x) <= f(y)
  BY DEF Top
<1>3. \A z \in open_set : Len(z) \in Nat /\ z[1] \in Place
  BY DEF PathInv, Chain, IsWay
<1>4. \A a \in Place : heuristic(a, end) \in Nat
  BY Heuristic DEF PathInv
<1>5. f(x) = Len(x) - 1 + heuristic(x[1], end) /\ f(y) \in Int
  BY <1>2, <1>3, <1>4 DEF f
<1>6. n \in Nat /\ heuristic(x[1], end) \in Nat /\ Len(x) \in Nat
  BY <1>2, <1>3, <1>4
<1>. QED
  BY <1>1, <1>2, <1>5, <1>6

-----------------------------------------------------------------------------
(***************************************************************************)
(* The steps.                                                              *)
(***************************************************************************)
\* What is pushed are chains again, over tiles that have been expanded.
LEMMA ExpandChains ==
  ASSUME PathInv, NEW x \in open_set, expand(x)
  PROVE  \A node \in open_set' : Chain(node)'
<1>1. /\ closed_set' = closed_set \cup {x[1]} /\ UNCHANGED grid
      /\ open_set' = (open_set \ {x}) \cup Neighbours(x)
  BY DEF expand
<1>2. \A a, b : Passes(a, b)' <=> Passes(a, b)
  BY <1>1, WithinKept
<1>3. start' = start
  BY <1>1 DEF grid
<1>4. \A node : IsWay(node)' <=> IsWay(node)
  BY <1>2, <1>3 DEF IsWay, Place
<1>5. ASSUME NEW node \in Seq(Place), IsWay(node), \A i \in 2 .. Len(node) : node[i] \in closed_set'
      PROVE  Chain(node)'
  BY <1>4, <1>5 DEF Chain, Place
<1>6. ASSUME NEW node \in open_set PROVE Chain(node)'
  <2>1. Chain(node)
    BY DEF PathInv
  <2>. QED
    BY <1>1, <1>5, <2>1 DEF Chain
<1>7. ASSUME NEW node \in Neighbours(x) PROVE Chain(node)'
  <2>1. PICK t \in Place \ closed_set' : node = <<t>> \o x /\ Passes(x[1], t)
    BY DEF Neighbours
  <2>2. Chain(x)
    BY DEF PathInv
  <2>3. \A i \in 1 .. Len(x) : x[i] \in closed_set'
    <3>1. \A i \in 1 .. Len(x) : i = 1 \/ i \in 2 .. Len(x)
      BY <2>2 DEF Chain
    <3>. QED
      BY <1>1, <2>2, <3>1 DEF Chain
  <2>4. \A i \in 1 .. Len(x) : x[i] # t
    BY <2>1, <2>3
  <2>5. /\ node \in Seq(Place) /\ IsWay(node) /\ Len(node) = Len(x) + 1
        /\ \A i \in 2 .. Len(x) + 1 : node[i] = x[i - 1]
    BY <2>1, <2>2, <2>4, Pushed DEF Chain
  <2>6. \A i \in 2 .. Len(node) : node[i] \in closed_set'
    <3>1. \A i \in 2 .. Len(node) : i - 1 \in 1 .. Len(x) /\ node[i] = x[i - 1]
      BY <2>2, <2>5 DEF Chain
    <3>. QED
      BY <2>3, <3>1
  <2>. QED
    BY <1>5, <2>5, <2>6
<1>. QED
  BY <1>1, <1>6, <1>7

\* The tiles that are expanded are in the world, and the goal is none of them.
LEMMA ExpandPath ==
  ASSUME PathInv, NEW x \in open_set, expand(x)
  PROVE  PathInv'
<1>1. /\ closed_set' = closed_set \cup {x[1]} /\ x[1] # end /\ ~ done
      /\ start' = start /\ end' = end /\ path' = path /\ done' = done
      /\ UNCHANGED grid
  BY DEF expand, grid
<1>2. x[1] \in Place
  BY DEF PathInv, Chain, IsWay
<1>3. Place' = Place /\ Goal' = Goal
  BY DEF Place, Goal
<1>4. closed_set' \subseteq Place /\ end' \notin closed_set' /\ start' \in Place /\ end' \in Goal
  BY <1>1, <1>2 DEF PathInv
<1>5. \A node : IsWay(node)' <=> IsWay(node)
  BY <1>1, WithinKept DEF IsWay, Place
<1>6. path' # <<>> => path' \in Seq(Place) /\ IsWay(path)' /\ path'[1] = end'
  BY <1>1, <1>5 DEF PathInv
<1>7. \A node \in open_set' : Chain(node)'
  BY ExpandChains
<1>8. done' \in BOOLEAN /\ ~ done'
  BY <1>1 DEF PathInv
<1>. QED
  BY <1>3, <1>4, <1>6, <1>7, <1>8 DEF PathInv

\* A tile that is expanded for the first time is popped with a shortest chain,
\* so what it leads to is pushed with one that is short enough; and no other
\* node that is still needed is popped.
LEMMA ExpandFrontier ==
  ASSUME PathInv, FrontierInv, NEW x \in open_set, expand(x)
  PROVE  FrontierInv'
<1>1. /\ closed_set' = closed_set \cup {x[1]} /\ Top(x) /\ UNCHANGED grid
      /\ open_set' = (open_set \ {x}) \cup Neighbours(x)
      /\ start' = start
  BY DEF expand, grid
<1>2. /\ \A a, b : Passes(a, b)' <=> Passes(a, b)
      /\ \A n \in 0 .. Last : within'[n] = within[n]
  BY <1>1, WithinKept
<1>3. Chain(x) /\ Len(x) \in Nat \ {0} /\ x[1] \in Place
  BY DEF PathInv, Chain, IsWay
<1>4. start \in closed_set' \/ <<start>> \in open_set'
  <2>1. CASE x = <<start>>
    BY <1>1, <2>1
  <2>2. CASE x # <<start>>
    BY <1>1, <2>2 DEF FrontierInv
  <2>. QED
    BY <2>1, <2>2
<1>5. ASSUME NEW a \in closed_set', NEW b \in Place \ closed_set', NEW n \in 0 .. Last,
             Passes(a, b), a \in within[n]
      PROVE  \E node \in open_set' : node[1] = b /\ Len(node) <= n + 2
  <2>1. CASE a \in closed_set
    <3>1. PICK node \in open_set : node[1] = b /\ Len(node) <= n + 2
      BY <1>1, <1>5, <2>1 DEF FrontierInv
    <3>2. node # x
      BY <1>1, <3>1
    <3>. QED
      BY <1>1, <3>1, <3>2
  <2>2. CASE a \notin closed_set
    <3>1. a = x[1] /\ Len(x) - 1 <= n
      BY <1>1, <1>5, <2>2, TopShortest
    <3>. DEFINE next == <<b>> \o x
    <3>2. next \in open_set'
      BY <1>1, <1>5, <3>1 DEF Neighbours
    <3>3. next[1] = b /\ Len(next) = Len(x) + 1
      BY <1>3 DEF Chain
    <3>4. Len(x) + 1 <= n + 2
      BY <1>3, <3>1, SizeType
    <3>. QED
      BY <3>2, <3>3, <3>4
  <2>. QED
    BY <2>1, <2>2
<1>6. \A a \in closed_set', b \in Place \ closed_set', n \in 0 .. Last :
        Passes(a, b)' /\ a \in within'[n] =>
          \E node \in open_set' : node[1] = b /\ Len(node) <= n + 2
  BY <1>2, <1>5
<1>. QED
  BY <1>1, <1>4, <1>6 DEF FrontierInv, Last, Place

\* The search returns the chain of the goal, which is a shortest way.
LEMMA ReachedBest ==
  ASSUME PathInv, FrontierInv, BestInv, NEW x \in open_set, reached(x)
  PROVE  PathInv' /\ BestInv'
<1>1. /\ Top(x) /\ x[1] = end /\ path' = x /\ done' = TRUE
      /\ UNCHANGED <<open_set, closed_set>> /\ UNCHANGED grid
      /\ start' = start /\ end' = end
  BY DEF reached, grid
<1>2. \A node : (IsWay(node)' <=> IsWay(node)) /\ (Chain(node)' <=> Chain(node))
  BY <1>1, WithinKept DEF IsWay, Chain, Place
<1>3. Chain(x) /\ x # <<>>
  BY DEF PathInv, Chain, IsWay
<1>4. PathInv'
  BY <1>1, <1>2, <1>3 DEF PathInv, Chain, Place, Goal
<1>5. \A n \in 0 .. Last : end \in within[n] => Len(x) - 1 <= n
  BY <1>1, TopShortest DEF PathInv
<1>6. BestInv'
  BY <1>1, <1>5, WithinKept DEF BestInv, Last
<1>. QED
  BY <1>4, <1>6

\* Every step keeps the invariants.
LEMMA SearchStep ==
  ASSUME PathInv, FrontierInv, BestInv, [Next]_vars
  PROVE  PathInv' /\ FrontierInv' /\ BestInv'
<1>0. ASSUME UNCHANGED grid, UNCHANGED <<open_set, closed_set>> PROVE FrontierInv'
  BY <1>0, WithinKept DEF FrontierInv, Last, Place, grid
<1>1. ASSUME NEW x \in open_set, reached(x) PROVE PathInv' /\ FrontierInv' /\ BestInv'
  BY <1>0, <1>1, ReachedBest DEF reached
<1>2. ASSUME NEW x \in open_set, expand(x) PROVE PathInv' /\ FrontierInv' /\ BestInv'
  <2>1. BestInv'
    <3>1. path' = path /\ end' = end /\ UNCHANGED grid
      BY <1>2 DEF expand, grid
    <3>. QED
      BY <3>1, WithinKept DEF BestInv, Last
  <2>. QED
    BY <1>2, <2>1, ExpandPath, ExpandFrontier
<1>3. ASSUME UNCHANGED <<grid, open_set, closed_set, path>>,
             done' = done \/ (done' = TRUE /\ open_set = {})
      PROVE  PathInv' /\ FrontierInv' /\ BestInv'
  <2>1. UNCHANGED grid /\ UNCHANGED <<open_set, closed_set, path>> /\ start' = start /\ end' = end
    BY <1>3 DEF grid
  <2>2. \A node : (IsWay(node)' <=> IsWay(node)) /\ (Chain(node)' <=> Chain(node))
    BY <2>1, WithinKept DEF IsWay, Chain, Place
  <2>3. done' \in BOOLEAN /\ (done' /\ path = <<>> => open_set = {})
    <3>1. CASE done' = done
      BY <3>1 DEF PathInv
    <3>2. CASE done' = TRUE /\ open_set = {}
      BY <3>2
    <3>. QED
      BY <1>3, <3>1, <3>2
  <2>4. PathInv'
    BY <2>1, <2>2, <2>3 DEF PathInv, Place, Goal
  <2>5. BestInv'
    BY <2>1, WithinKept DEF BestInv, Last
  <2>. QED
    BY <1>0, <2>1, <2>4, <2>5
<1>4. CASE exhausted
  BY <1>3, <1>4 DEF exhausted
<1>5. CASE UNCHANGED vars
  BY <1>3, <1>5 DEF vars
<1>. QED
  BY <1>1, <1>2, <1>4, <1>5 DEF Next, Search

\* The search starts with the bot's own tile in the queue.
LEMMA SearchStart ==
  ASSUME Init PROVE PathInv /\ FrontierInv /\ BestInv
<1>1. start \in Place /\ end \in Goal
  BY PathAssumption DEF Init, Place
<1>2. open_set = {<<start>>} /\ closed_set = {} /\ path = <<>> /\ done = FALSE
  BY DEF Init
<1>3. <<start>> \in Seq(Place) /\ Len(<<start>>) = 1 /\ <<start>>[1] = start /\ <<start>> # <<>>
  BY <1>1
<1>4. IsWay(<<start>>)
  BY <1>1, <1>3 DEF IsWay
<1>5. Chain(<<start>>)
  BY <1>3, <1>4 DEF Chain
<1>. QED
  BY <1>1, <1>2, <1>5 DEF PathInv, FrontierInv, BestInv

\* So the invariants hold all the time.
LEMMA SearchInvariant == Spec => [](PathInv /\ FrontierInv /\ BestInv)
BY SearchStart, SearchStep, PTL DEF Spec

\* Every chain in the queue is a way from the start that takes no tile twice,
\* over tiles that have been expanded, so that following the parents ends.
THEOREM ChainsAreWays == Spec => []TypeOK
<1>1. PathInv => TypeOK
  BY DEF PathInv, TypeOK, Chain
<1>. QED
  BY <1>1, SearchInvariant, PTL

\* In a world of any size, with any tiles: what the search returns is a
\* shortest way, and nothing only if there is no way.
THEOREM FindsShortest == Spec => []ShortestWay
<1>1. PathInv /\ FrontierInv /\ BestInv => ShortestWay
  <2>. SUFFICES ASSUME PathInv, FrontierInv, BestInv, done PROVE ShortestWay
    BY DEF ShortestWay
  <2>1. CASE path = <<>>
    <3>1. open_set = {} /\ end \notin closed_set
      BY <2>1 DEF PathInv
    <3>2. end \notin within[Last]
      BY <3>1, Frontier, SizeType
    <3>. QED
      BY <2>1, <3>2 DEF ShortestWay, Last
  <2>2. CASE path # <<>>
    <3>1. path \in Seq(Place) /\ IsWay(path) /\ path[1] = end
      BY <2>2 DEF PathInv
    <3>2. Len(path) <= Last /\ Len(path) \in Nat \ {0}
      BY <3>1, WayLength
    <3>3. ASSUME Len(path) # 1 PROVE end \notin within[Len(path) - 2]
      <4>. DEFINE l == Len(path)
      <4>. HIDE DEF l
      <4>0. l \in Nat \ {0} /\ l # 1 /\ l <= Last /\ Last \in Nat
        BY <3>2, <3>3, SizeType DEF l
      <4>1. l - 2 \in 0 .. Last /\ ~ (l - 1 <= l - 2)
        BY <4>0
      <4>. QED
        BY <2>2, <4>1 DEF BestInv, l
    <3>. QED
      BY <2>2, <3>1, <3>3 DEF ShortestWay
  <2>. QED
    BY <2>1, <2>2
<1>. QED
  BY <1>1, SearchInvariant, PTL
=============================================================================
