------------------------------ MODULE Pathfinder ------------------------------
(***************************************************************************)
(* Pathfinder::find (pathfinder.hpp): the A* search of move_toward over    *)
(* the tiles of a world, with the rules by which tiles let a bot pass.     *)
(*                                                                         *)
(* The code does not search by the book: a tile is tested against the      *)
(* closed set only when it is pushed, so that it can wait in the queue     *)
(* more than once and is then expanded more than once.  A queued Node is   *)
(* its chain of parents, goal end first: a node is pushed once per chain,  *)
(* and the queue is a set of chains.  Which of several nodes with the      *)
(* least f the heap gives is not determined.                               *)
(***************************************************************************)
EXTENDS Integers, Sequences, FiniteSets

CONSTANTS
  m_width, m_height,  \* the size of the world
  Special,            \* the tiles that may stand in the way, as [type, marks]
  MaxSpecial,         \* bound: the number of them in a world
  Start               \* bound: where the bot may be

ASSUME PathAssumption ==
  /\ m_width \in Nat \ {0} /\ m_height \in Nat \ {0} /\ MaxSpecial \in Nat
  /\ Start \subseteq (0 .. m_width - 1) \X (0 .. m_height - 1)
  /\ IsFiniteSet(Special)

VARIABLES
  m_tiles,     \* the tiles
  role,        \* the bot in this world: its owner, on its access list, or guest
  start,       \* where the bot is
  end,         \* where it shall go, perhaps outside of the world
  open_set,    \* the queue of nodes
  closed_set,  \* the tiles that have been expanded
  path,        \* the result, goal first; empty: none
  done         \* find has returned

grid == <<m_tiles, role, start, end>>
vars == <<grid, open_set, closed_set, path, done>>

Place == (0 .. m_width - 1) \X (0 .. m_height - 1)
Goal  == Place \cup {<<m_width, 0>>}
Clear == [type |-> "NO_COLLISION", marks |-> {}]

Abs(n) == IF n < 0 THEN -n ELSE n
heuristic(a, b) == Abs(a[1] - b[1]) + Abs(a[2] - b[2])
\* Mutant: the way so far is left out.
f_greedy(node) == heuristic(node[1], end)

f(node) == Len(node) - 1 + heuristic(node[1], end)

Type(t) == m_tiles[t].type
Marked(t, flag) == flag \in m_tiles[t].marks

Near(a, b) == b \in Place /\ heuristic(a, b) = 1

\* A one-sided tile lets pass to its right, flipped to its left.
Sided(t, dx) ==
  Type(t) = "ONE_SIDE_COLLISION_HORIZONTAL" =>
    IF Marked(t, "FLIPPED") THEN dx <= 0 ELSE dx >= 0

Passes(a, b) ==
  /\ Near(a, b)
  /\ Type(b) # "FULL_COLLISION"
  /\ Type(b) = "COLLISION_ON_TOP" => b[2] <= a[2]
  /\ Type(b) = "NO_COLLISION_IF_ACCESSED" => Marked(b, "PUBLIC") \/ role # "guest"
  /\ Sided(a, b[1] - a[1]) /\ Sided(b, b[1] - a[1])
  /\ Type(b) = "NO_COLLISION_IF_VIP" => Marked(b, "LISTED") \/ role = "owner"

Init ==
  /\ \E special \in {s \in SUBSET Place : Cardinality(s) <= MaxSpecial} :
       \E kind \in [special -> Special] :
         m_tiles = [t \in Place |-> IF t \in special THEN kind[t] ELSE Clear]
  /\ role \in {"owner", "listed", "guest"}
  /\ end \in Goal
  /\ start \in Start
  /\ open_set = {<<start>>}
  /\ closed_set = {} /\ path = <<>> /\ done = FALSE

Top(node) == node \in open_set /\ \A other \in open_set : f(node) <= f(other)

reached(node) ==
  /\ ~ done /\ Top(node) /\ node[1] = end
  /\ path' = node /\ done' = TRUE
  /\ UNCHANGED <<grid, open_set, closed_set>>

\* Mutant: tiles that are closed are pushed as well.
Neighbours_closed(node) == {<<t>> \o node : t \in {u \in Place : Passes(node[1], u)}}

Neighbours(node) ==
  {<<t>> \o node : t \in {u \in Place \ closed_set' : Passes(node[1], u)}}

\* Mutant: the node is read and not popped.
expand_reads(node) ==
  /\ ~ done /\ Top(node) /\ node[1] # end
  /\ closed_set' = closed_set \cup {node[1]}
  /\ open_set' = open_set \cup Neighbours(node)
  /\ UNCHANGED <<grid, path, done>>

expand(node) ==
  /\ ~ done /\ Top(node) /\ node[1] # end
  /\ closed_set' = closed_set \cup {node[1]}
  /\ open_set' = (open_set \ {node}) \cup Neighbours(node)
  /\ UNCHANGED <<grid, path, done>>

exhausted ==
  /\ ~ done /\ open_set = {}
  /\ done' = TRUE
  /\ UNCHANGED <<grid, open_set, closed_set, path>>

Search == (\E node \in open_set : reached(node) \/ expand(node)) \/ exhausted

Next == Search

Spec == Init /\ [][Next]_vars /\ WF_vars(Search)

-----------------------------------------------------------------------------
(***************************************************************************)
(* Reference: the tiles that some way of at most n steps leads to.         *)
(***************************************************************************)
within[n \in 0 .. m_width * m_height] ==
  IF n = 0 THEN {start}
  ELSE within[n - 1] \cup
       {b \in Place : \E a \in within[n - 1] : Passes(a, b)}

(***************************************************************************)
(* Properties.                                                             *)
(***************************************************************************)
IsWay(node) ==
  /\ node # <<>> /\ node[Len(node)] = start
  /\ \A i \in 1 .. Len(node) : node[i] \in Place
  /\ \A i \in 1 .. Len(node) - 1 : Passes(node[i + 1], node[i])
  /\ \A i, j \in 1 .. Len(node) : node[i] = node[j] => i = j

\* Types; and every chain in the queue is a way from the start that the rules
\* allow and that takes no tile twice, over tiles that have been expanded:
\* although a tile may be expanded again and again, no parent chain runs in a
\* circle, so that the loop of pathfinder.hpp:39 over the parents ends.
TypeOK ==
  /\ closed_set \subseteq Place /\ done \in BOOLEAN
  /\ \A node \in open_set :
       IsWay(node) /\ \A i \in 2 .. Len(node) : node[i] \in closed_set

\* What move_toward gets is a shortest way to where it wants to go, and nothing
\* only if there is none, although no node is ever improved in the queue and
\* the rules are not symmetric (a platform lets pass up and not down, a
\* one-sided tile in one direction).
ShortestWay ==
  done =>
    IF path = <<>> THEN end \notin within[m_width * m_height]
    ELSE /\ IsWay(path) /\ path[1] = end
         /\ Len(path) = 1 \/ end \notin within[Len(path) - 2]

\* Every search ends, also one for a place that cannot be reached, in which
\* every tile is expanded once for each way of pushing it: move_toward holds
\* m_mutex all the while.
SearchEnds == <>done
=============================================================================
