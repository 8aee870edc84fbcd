------------------------------ MODULE WalkProofs ------------------------------
(***************************************************************************)
(* Proofs about Walk, for any number of threads, worlds and tiles.         *)
(* WalkInv is inductive: a thread in a step of a walk has a tile left to   *)
(* go to, a bot that has not left a world is in it while a thread moves,   *)
(* and as long as the last OnSetPos counts for a thread the flag is off.   *)
(***************************************************************************)
EXTENDS Walk, TLAPS

InStep == {"world", "send", "pos"}

TileLeft == \A t \in Http : at[t] \in InStep => path[t] # <<>>
Inside   == left = "no" => \A t \in Http : at[t] # "idle" => name = "world"

\* After OnSetPos the flag is off until some walk begins, and a thread that has
\* sent its step since will not pass the check of the flag again.
Stopped ==
  \A t \in Http : /\ late[t] \in {-1, 0, 1}
                  /\ late[t] >= 0 => flag = "off"
                  /\ late[t] = 1 => at[t] \notin {"world", "send"}

WalkInv == TypeOK /\ TileLeft /\ Inside /\ Stopped /\ FlagMeansWalk

\* A path is made of tiles.
LEMMA PathType == \A x, y \in Tile : PathTo(x, y) \in Seq(Tile)
<1> SUFFICES ASSUME NEW x \in Tile, NEW y \in Tile PROVE PathTo(x, y) \in Seq(Tile)
  OBVIOUS
<1> DEFINE n == (IF x <= y THEN y - x ELSE x - y) + 1
<1>1. n \in Nat
  BY WalkAssumption DEF Tile
<1>2. \A i \in 1 .. n : (IF x <= y THEN x + i - 1 ELSE x - i + 1) \in Tile
  BY WalkAssumption DEF Tile
<1>3. PathTo(x, y) = [i \in 1 .. n |-> IF x <= y THEN x + i - 1 ELSE x - i + 1]
  BY DEF PathTo
<1> HIDE DEF n
<1>4. [i \in 1 .. n |-> IF x <= y THEN x + i - 1 ELSE x - i + 1] \in [1 .. n -> Tile]
  BY <1>2
<1>5. PathTo(x, y) \in [1 .. n -> Tile]
  BY <1>3, <1>4
<1>6. QED  BY <1>1, <1>5

\* No thread walks at first.
LEMMA WalkInit == Init => WalkInv
<1> SUFFICES ASSUME Init PROVE WalkInv
  OBVIOUS
<1>1. TypeOK
  <2>1. 1 \in Place /\ 0 \in Place /\ <<>> \in Seq(Tile) /\ "idle" \in Stage
    BY WalkAssumption DEF Tile, Place, Stage
  <2>2. QED  BY <2>1, WalkAssumption DEF Init, TypeOK
<1>2. TileLeft /\ Inside /\ Stopped /\ FlagMeansWalk
  BY DEF Init, TileLeft, InStep, Inside, Stopped, FlagMeansWalk
<1>3. QED  BY <1>1, <1>2 DEF WalkInv

-----------------------------------------------------------------------------
\* The types after a step.
LEMMA TypeStep == TypeOK /\ TileLeft /\ [Next]_vars => TypeOK'
<1> SUFFICES ASSUME TypeOK, TileLeft, [Next]_vars PROVE TypeOK'
  OBVIOUS
<1> USE WalkAssumption DEF Stage, Loop
<1>1. ASSUME NEW t \in Http, NEW x \in Place, move_toward(t, x) \/ teleport(t, x) PROVE TypeOK'
  BY <1>1 DEF TypeOK, move_toward, teleport, Go
<1>2. ASSUME NEW t \in Http, check_flag(t) \/ walk_loop(t) \/ check_world(t) PROVE TypeOK'
  <2>1. <<>> \in Seq(Tile) /\ 1 \in Place /\ 0 \in 0 .. MaxLoads
    BY DEF Tile, Place
  <2>2. CASE check_flag(t)
    BY <2>1, <2>2 DEF TypeOK, check_flag, Leave, Go
  <2>3. CASE walk_loop(t)
    BY <2>1, <2>3 DEF TypeOK, walk_loop, Leave, Go
  <2>4. CASE check_world(t)
    BY <2>1, <2>4 DEF TypeOK, check_world, Leave, Go
  <2>5. QED  BY <1>2, <2>2, <2>3, <2>4
<1>3. ASSUME NEW t \in Http, find_path(t) PROVE TypeOK'
  <2>1. PICK p \in Paths(to[t]) : path' = [path EXCEPT ![t] = p]
    BY <1>3 DEF find_path
  <2>2. p \in Seq(Tile)
    <3>1. CASE p = <<>>
      BY <3>1
    <3>2. ASSUME NEW y \in Starts, to[t] # 0, p = PathTo(y, to[t]) PROVE p \in Seq(Tile)
      <4>1. y \in Tile /\ to[t] \in Tile
        BY <3>2 DEF TypeOK, Starts, Tile, Place
      <4>2. QED  BY <4>1, <3>2, PathType
    <3>3. QED  BY <2>1, <3>1, <3>2 DEF Paths
  <2>3. path' \in [Http -> Seq(Tile)]
    BY <2>1, <2>2 DEF TypeOK
  <2>4. QED  BY <1>3, <2>3 DEF TypeOK, find_path, Go
<1>4. ASSUME NEW t \in Http, walk_begins(t) PROVE TypeOK'
  <2>1. late' \in [Http -> Int]
    BY <1>4 DEF TypeOK, walk_begins
  <2>2. <<>> \in Seq(Tile) /\ 1 \in Place /\ 0 \in 0 .. MaxLoads
    BY DEF Tile, Place
  <2>3. QED  BY <1>4, <2>1, <2>2 DEF TypeOK, walk_begins, Leave, Go
<1>5. CASE ConnNext
  <2>1. 1 \in Place
    BY DEF Tile, Place
  <2>2. QED  BY <1>5, <2>1 DEF TypeOK, ConnNext, connect, connect_returns, reset, reset_player, threadVars
<1>6. ASSUME NEW t \in Http, send_step(t) PROVE TypeOK'
  <2>1. late' \in [Http -> Int]
    BY <1>6 DEF TypeOK, send_step
  <2>2. QED  BY <1>6, <2>1 DEF TypeOK, send_step, Go
<1>7. ASSUME NEW t \in Http, set_pos(t) PROVE TypeOK'
  <2>1. path[t] # <<>> /\ path[t] \in Seq(Tile)
    BY <1>7 DEF TileLeft, InStep, set_pos, Go, TypeOK
  <2>2. Tail(path[t]) \in Seq(Tile)
    BY <2>1
  <2>3. path' \in [Http -> Seq(Tile)]
    BY <1>7, <2>2 DEF TypeOK, set_pos
  <2>4. pos' \in Place
    <3>1. Head(path[t]) \in Place
      BY <2>1 DEF Tile, Place
    <3>2. QED  BY <1>7, <3>1 DEF set_pos, Reached
  <2>5. QED  BY <1>7, <2>3, <2>4 DEF TypeOK, set_pos, Go
<1>8. ASSUME NEW t \in Http, JumpStep(t) PROVE TypeOK'
  <2>1. CASE send_jump(t)
    BY <2>1 DEF TypeOK, send_jump, Go
  <2>2. CASE land(t)
    <3>1. pos' \in Place
      BY <2>2 DEF TypeOK, land, Tile, Place
    <3>2. <<>> \in Seq(Tile) /\ 1 \in Place /\ 0 \in 0 .. MaxLoads
      BY DEF Tile, Place
    <3>3. QED  BY <2>2, <3>1, <3>2 DEF TypeOK, land, Leave, Go
  <2>3. QED  BY <1>8, <2>1, <2>2 DEF JumpStep
<1>9. CASE MainNext
  <2>1. CASE send_map_data
    BY <2>1 DEF TypeOK, send_map_data, threadVars
  <2>2. CASE OnSpawn \/ OnRequestWorldSelectMenu
    BY <2>2 DEF TypeOK, OnSpawn, OnRequestWorldSelectMenu, threadVars, Tile, Place
  <2>3. CASE OnSetPos
    BY <2>3 DEF TypeOK, OnSetPos, threadVars, Tile, Place
  <2>4. QED  BY <1>9, <2>1, <2>2, <2>3 DEF MainNext
<1>10. CASE UNCHANGED vars
  BY <1>10 DEF TypeOK, vars, threadVars
<1>11. QED
  BY <1>1, <1>2, <1>3, <1>4, <1>5, <1>6, <1>7, <1>8, <1>9, <1>10 DEF Next, WalkStep, FreeStep, LockStep

\* A walk that takes a tile has one left.
LEMMA TileLeftStep == TypeOK /\ TileLeft /\ [Next]_vars => TileLeft'
<1> SUFFICES ASSUME TypeOK, TileLeft, [Next]_vars PROVE TileLeft'
  OBVIOUS
<1> USE DEF TypeOK, TileLeft, InStep
<1>1. ASSUME NEW t \in Http, NEW x \in Place, move_toward(t, x) \/ teleport(t, x) PROVE TileLeft'
  BY <1>1 DEF move_toward, teleport, Go
<1>2. ASSUME NEW t \in Http, WalkStep(t) PROVE TileLeft'
  <2>1. CASE check_flag(t) \/ find_path(t) \/ walk_begins(t)
    BY <2>1 DEF check_flag, find_path, walk_begins, Leave, Go
  <2>2. CASE walk_loop(t) \/ check_world(t)
    BY <2>2 DEF walk_loop, check_world, Leave, Go
  <2>3. CASE send_step(t) \/ set_pos(t)
    BY <2>3 DEF send_step, set_pos, Go
  <2>4. QED  BY <1>2, <2>1, <2>2, <2>3 DEF WalkStep, FreeStep, LockStep
<1>3. ASSUME NEW t \in Http, JumpStep(t) PROVE TileLeft'
  BY <1>3 DEF JumpStep, send_jump, land, Leave, Go
<1>4. CASE MainNext \/ ConnNext
  BY <1>4 DEF MainNext, send_map_data, OnSpawn, OnSetPos, OnRequestWorldSelectMenu, ConnNext, connect, connect_returns, reset, reset_player, threadVars
<1>5. CASE UNCHANGED vars
  BY <1>5 DEF vars, threadVars
<1>6. QED  BY <1>1, <1>2, <1>3, <1>4, <1>5 DEF Next

\* A thread in move_toward is in the world it began in, as long as the bot is.
LEMMA InsideStep == TypeOK /\ Inside /\ [Next]_vars => Inside'
<1> SUFFICES ASSUME TypeOK, Inside, [Next]_vars PROVE Inside'
  OBVIOUS
<1> USE DEF TypeOK, Inside
<1>1. ASSUME NEW t \in Http, NEW x \in Place, move_toward(t, x) \/ teleport(t, x) PROVE Inside'
  BY <1>1 DEF move_toward, teleport, Go
<1>2. ASSUME NEW t \in Http, WalkStep(t) \/ JumpStep(t) PROVE Inside'
  <2>1. name' = name /\ left' = left
    BY <1>2 DEF WalkStep, FreeStep, LockStep, JumpStep, check_flag, find_path, walk_begins, walk_loop,
                check_world, send_step, set_pos, send_jump, land
  <2>2. at[t] # "idle" /\ \A u \in Http \ {t} : at'[u] = at[u]
    BY <1>2 DEF WalkStep, FreeStep, LockStep, JumpStep, check_flag, find_path, walk_begins, walk_loop,
                check_world, send_step, set_pos, send_jump, land, Leave, Go
  <2>3. QED  BY <2>1, <2>2
<1>3. CASE MainNext \/ ConnNext
  BY <1>3 DEF MainNext, send_map_data, OnSpawn, OnSetPos, OnRequestWorldSelectMenu, ConnNext, connect, connect_returns, reset, reset_player, threadVars
<1>4. CASE UNCHANGED vars
  BY <1>4 DEF vars, threadVars
<1>5. QED  BY <1>1, <1>2, <1>3, <1>4 DEF Next

\* A thread that OnSetPos stopped stays stopped.
LEMMA StoppedStep == TypeOK /\ Stopped /\ [Next]_vars => Stopped'
<1> SUFFICES ASSUME TypeOK, Stopped, [Next]_vars PROVE Stopped'
  OBVIOUS
<1> USE DEF TypeOK, Stopped
<1>1. ASSUME NEW t \in Http, NEW x \in Place, move_toward(t, x) \/ teleport(t, x) PROVE Stopped'
  BY <1>1 DEF move_toward, teleport, Go
<1>2. ASSUME NEW t \in Http, WalkStep(t) PROVE Stopped'
  <2>1. CASE check_flag(t) \/ find_path(t)
    BY <2>1 DEF check_flag, find_path, Leave, Go
  <2>2. CASE walk_begins(t)
    BY <2>2 DEF walk_begins, Leave, Go
  <2>3. CASE walk_loop(t)
    BY <2>3 DEF walk_loop, Leave, Go
  <2>4. CASE check_world(t)
    BY <2>4 DEF check_world, Leave, Go
  <2>5. CASE send_step(t)
    BY <2>5 DEF send_step, Go
  <2>6. CASE set_pos(t)
    BY <2>6 DEF set_pos, Go
  <2>7. QED  BY <1>2, <2>1, <2>2, <2>3, <2>4, <2>5, <2>6 DEF WalkStep, FreeStep, LockStep
<1>3. ASSUME NEW t \in Http, JumpStep(t) PROVE Stopped'
  BY <1>3 DEF JumpStep, send_jump, land, Leave, Go
<1>4. CASE MainNext \/ ConnNext
  BY <1>4 DEF MainNext, send_map_data, OnSpawn, OnSetPos, OnRequestWorldSelectMenu, ConnNext, connect, connect_returns, reset, reset_player, threadVars
<1>5. CASE UNCHANGED vars
  BY <1>5 DEF vars, threadVars
<1>6. QED  BY <1>1, <1>2, <1>3, <1>4, <1>5 DEF Next

\* The flag goes off with the walk.
LEMMA FlagStep == TypeOK /\ Inside /\ FlagMeansWalk /\ [Next]_vars => FlagMeansWalk'
<1> SUFFICES ASSUME TypeOK, Inside, FlagMeansWalk, [Next]_vars, left' = "no", flag' = "on"
             PROVE  \E t \in Http : at'[t] \in Loop
  BY DEF FlagMeansWalk
<1> USE DEF TypeOK, Loop
<1>1. ASSUME NEW t \in Http, NEW x \in Place, move_toward(t, x) \/ teleport(t, x)
      PROVE  \E u \in Http : at'[u] \in Loop
  BY <1>1 DEF move_toward, teleport, Go, FlagMeansWalk
<1>2. ASSUME NEW t \in Http, WalkStep(t) PROVE \E u \in Http : at'[u] \in Loop
  <2>1. CASE check_flag(t) \/ find_path(t)
    BY <2>1 DEF check_flag, find_path, Leave, Go, FlagMeansWalk
  <2>2. CASE walk_begins(t)
    BY <2>2 DEF walk_begins, Leave, Go
  <2>3. CASE walk_loop(t)
    BY <2>3 DEF walk_loop, Leave, Go
  <2>4. CASE check_world(t)
    BY <2>4 DEF check_world, Leave, Go, Inside
  <2>5. CASE send_step(t) \/ set_pos(t)
    BY <2>5 DEF send_step, set_pos, Go
  <2>6. QED  BY <1>2, <2>1, <2>2, <2>3, <2>4, <2>5 DEF WalkStep, FreeStep, LockStep
<1>3. ASSUME NEW t \in Http, JumpStep(t) PROVE \E u \in Http : at'[u] \in Loop
  BY <1>3 DEF JumpStep, send_jump, land, Leave, Go, FlagMeansWalk
<1>4. CASE MainNext \/ ConnNext
  BY <1>4 DEF MainNext, send_map_data, OnSpawn, OnSetPos, OnRequestWorldSelectMenu, ConnNext, connect, connect_returns, reset, reset_player, threadVars, FlagMeansWalk
<1>5. CASE UNCHANGED vars
  BY <1>5 DEF vars, threadVars, FlagMeansWalk
<1>6. QED  BY <1>1, <1>2, <1>3, <1>4, <1>5 DEF Next

-----------------------------------------------------------------------------
\* WalkInv holds in every state of every behaviour.
LEMMA WalkInductive == Spec => []WalkInv
<1>1. Init => WalkInv
  BY WalkInit
<1>2. WalkInv /\ [Next]_vars => WalkInv'
  BY TypeStep, TileLeftStep, InsideStep, StoppedStep, FlagStep DEF WalkInv
<1>3. QED  BY <1>1, <1>2, PTL DEF Spec

\* Every variable of Walk keeps its type; in particular every tile that a walk
\* takes from its path was found on it.
THEOREM TypeCorrect == Spec => []TypeOK
<1>1. WalkInv => TypeOK
  BY DEF WalkInv
<1>2. QED  BY <1>1, WalkInductive, PTL

\* After OnSetPos (call_function.cpp:159-169) no thread inside move_toward sends
\* more than the one step it had begun, until a walk puts the flag on again.
THEOREM SetPosObeyed == Spec => []SetPosStops
<1>1. WalkInv => SetPosStops
  <2>1. \A n \in {-1, 0, 1} : n <= 1
    OBVIOUS
  <2>2. QED  BY <2>1 DEF WalkInv, Stopped, SetPosStops
<1>2. QED  BY <1>1, WalkInductive, PTL

\* m_is_pathfinding never stays on without a walk, unless the bot left a world.
THEOREM FlagTells == Spec => []FlagMeansWalk
<1>1. WalkInv => FlagMeansWalk
  BY DEF WalkInv
<1>2. QED  BY <1>1, WalkInductive, PTL
=============================================================================
