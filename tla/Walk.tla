--------------------------------- MODULE Walk ---------------------------------
(***************************************************************************)
(* Movement of one bot: move_toward and teleport (client.cpp), which HTTP  *)
(* handlers and scripts call on their threads, against the events of the   *)
(* game server that load a world, leave it and set the bot's position      *)
(* (call_function.cpp, send_map_data.cpp) on the main thread.              *)
(*                                                                         *)
(* What is done under m_mutex is one step, which waits as long as some     *)
(* thread is inside connect() (module ClientConn): that one keeps m_mutex  *)
(* over its network requests.  A path is found under m_mutex, but walked   *)
(* without: it holds pointers into m_world.m_tiles, which an event may     *)
(* have cleared or filled again.  The world is a row of tiles, so that the *)
(* path between two of them is known.                                      *)
(***************************************************************************)
EXTENDS Integers, Sequences

CONSTANTS
  Http,      \* the threads that call move_toward and teleport
  Width,     \* bound: the tiles of a world are 1..Width
  MaxLoads,  \* bound: the worlds entered
  MaxSets    \* bound: the OnSetPos received

ASSUME WalkAssumption == Width \in Nat \ {0} /\ MaxLoads \in Nat /\ MaxSets \in Nat

VARIABLES
  lock,    \* m_mutex: "held" while some thread is inside connect()
  name,    \* m_world.m_name: "" or "EXIT" is "no", any other is "world"
  tiles,   \* m_world.m_tiles: the number of the load that filled it, 0: empty
  pos,     \* m_player.m_pos, 1 in a new Player, 0 if it is outside the world
  flag,    \* m_is_pathfinding: "on", "off"
  at,      \* where each thread is
  to,      \* where it has been sent, 0 if that is outside the world
  path,    \* the rest of its path
  made,    \* the value of tiles when the path was found
  loads,   \* counts the worlds entered
  sets,    \* counts the OnSetPos received
  left,    \* history: the bot has left a world, or lost it in a reset
  late     \* history: the steps sent by each thread since the last OnSetPos,
           \* -1: there was none, or a walk has begun since

threadVars == <<at, to, path, made>>
vars == <<lock, name, tiles, pos, flag, threadVars, loads, sets, left, late>>

Tile  == 1 .. Width
Place == 0 .. Width
Loop  == {"loop", "world", "send", "pos"}
Stage == {"idle", "flag", "find", "found", "jump", "land"} \cup Loop

TypeOK ==
  /\ lock \in {"free", "held"}
  /\ name \in {"no", "world"}
  /\ tiles \in 0 .. MaxLoads /\ loads \in 0 .. MaxLoads /\ sets \in 0 .. MaxSets
  /\ pos \in Place
  /\ flag \in {"on", "off"}
  /\ at \in [Http -> Stage]
  /\ to \in [Http -> Place]
  /\ path \in [Http -> Seq(Tile)]
  /\ made \in [Http -> 0 .. MaxLoads]
  /\ left \in {"no", "yes"}
  /\ late \in [Http -> Int]

Init ==
  /\ lock = "free" /\ name = "no" /\ tiles = 0 /\ pos = 1 /\ flag = "off"
  /\ at = [t \in Http |-> "idle"]
  /\ to = [t \in Http |-> 1]
  /\ path = [t \in Http |-> <<>>]
  /\ made = [t \in Http |-> 0]
  /\ loads = 0 /\ sets = 0
  /\ left = "no"
  /\ late = [t \in Http |-> -1]

Go(t, from, next) == at[t] = from /\ at' = [at EXCEPT ![t] = next]

\* A step at which the function may return: then its locals are gone.
Leave(t, from, next) ==
  /\ Go(t, from, next)
  /\ IF next = "idle"
     THEN /\ to' = [to EXCEPT ![t] = 1]
          /\ path' = [path EXCEPT ![t] = <<>>] /\ made' = [made EXCEPT ![t] = 0]
     ELSE UNCHANGED <<to, path, made>>

-----------------------------------------------------------------------------
(***************************************************************************)
(* move_toward.                                                            *)
(***************************************************************************)
move_toward(t, x) ==
  /\ name = "world" /\ Go(t, "idle", "flag")
  /\ to' = [to EXCEPT ![t] = x]
  /\ UNCHANGED <<lock, name, tiles, pos, flag, path, made, loads, sets, left, late>>

check_flag(t) ==
  /\ Leave(t, "flag", IF flag = "on" THEN "idle" ELSE "find")
  /\ UNCHANGED <<lock, name, tiles, pos, flag, loads, sets, left, late>>

\* Mutant: one step too many.
PathTo_past(x, y) ==
  [i \in 1 .. (IF x <= y THEN y - x ELSE x - y) + 2 |-> IF x <= y THEN x + i - 1 ELSE x - i + 1]

\* From x to y, both included.
PathTo(x, y) ==
  [i \in 1 .. (IF x <= y THEN y - x ELSE x - y) + 1 |-> IF x <= y THEN x + i - 1 ELSE x - i + 1]

\* A position outside the world, from a tile that was none, indexes m_tiles
\* anywhere.
Starts == IF pos = 0 THEN Tile ELSE {pos}

\* None to a tile that is out of reach, or outside the world.
Paths(x) == {<<>>} \cup (IF x = 0 THEN {} ELSE {PathTo(y, x) : y \in Starts})

\* Pathfinder::find.  With m_tiles empty (the bot left the world since the
\* first check) its old memory is read.
find_path(t) ==
  /\ lock = "free" /\ Go(t, "find", "found")
  /\ path' \in {[path EXCEPT ![t] = p] : p \in Paths(to[t])}
  /\ made' = [made EXCEPT ![t] = tiles]
  /\ UNCHANGED <<lock, name, tiles, pos, flag, to, loads, sets, left, late>>

\* No path puts the flag off, even if another walk has put it on since.
walk_begins(t) ==
  /\ Leave(t, "found", IF path[t] = <<>> THEN "idle" ELSE "loop")
  /\ flag' = IF path[t] = <<>> THEN "off" ELSE "on"
  /\ late' = IF path[t] = <<>> THEN late ELSE [u \in Http |-> -1]
  /\ UNCHANGED <<lock, name, tiles, pos, loads, sets, left>>

\* Mutant: the flag stays on at the end of the path.
walk_loop_keeps_flag(t) ==
  /\ Leave(t, "loop", IF path[t] = <<>> \/ flag = "off" THEN "idle" ELSE "world")
  /\ UNCHANGED <<lock, name, tiles, pos, flag, loads, sets, left, late>>

walk_loop(t) ==
  /\ Leave(t, "loop", IF path[t] = <<>> \/ flag = "off" THEN "idle" ELSE "world")
  /\ flag' = IF path[t] = <<>> THEN "off" ELSE flag
  /\ UNCHANGED <<lock, name, tiles, pos, loads, sets, left, late>>

\* Out of the world: the flag stays as it is.
check_world(t) ==
  /\ Leave(t, "world", IF name = "world" THEN "send" ELSE "idle")
  /\ UNCHANGED <<lock, name, tiles, pos, flag, loads, sets, left, late>>

send_step(t) ==
  /\ lock = "free" /\ Go(t, "send", "pos")
  /\ late' = IF late[t] >= 0 THEN [late EXCEPT ![t] = @ + 1] ELSE late
  /\ UNCHANGED <<lock, name, tiles, pos, flag, to, path, made, loads, sets, left>>

\* tile->m_pos: any place if m_tiles is not what it was.
Reached(t) == IF made[t] = tiles THEN {Head(path[t])} ELSE Place

\* Mutant: the next round takes the same tile.
set_pos_stays(t) ==
  /\ lock = "free" /\ Go(t, "pos", "loop")
  /\ pos' \in Reached(t)
  /\ UNCHANGED <<lock, name, tiles, flag, to, path, made, loads, sets, left, late>>

\* tile->m_pos is read again after the send.  Then the thread sleeps.
set_pos(t) ==
  /\ lock = "free" /\ Go(t, "pos", "loop")
  /\ pos' \in Reached(t)
  /\ path' = [path EXCEPT ![t] = Tail(@)]
  /\ UNCHANGED <<lock, name, tiles, flag, to, made, loads, sets, left, late>>

\* The steps of move_toward without m_mutex, and those under it.
FreeStep(t) ==
  check_flag(t) \/ walk_begins(t) \/ walk_loop(t) \/ check_world(t)

LockStep(t) == find_path(t) \/ send_step(t) \/ set_pos(t)

WalkStep(t) == FreeStep(t) \/ LockStep(t)

-----------------------------------------------------------------------------
(***************************************************************************)
(* teleport: no look at the flag.                                          *)
(***************************************************************************)
teleport(t, x) ==
  /\ name = "world" /\ Go(t, "idle", "jump")
  /\ to' = [to EXCEPT ![t] = x]
  /\ UNCHANGED <<lock, name, tiles, pos, flag, path, made, loads, sets, left, late>>

send_jump(t) ==
  /\ lock = "free" /\ Go(t, "jump", "land")
  /\ UNCHANGED <<lock, name, tiles, pos, flag, to, path, made, loads, sets, left, late>>

land(t) ==
  /\ lock = "free" /\ Leave(t, "land", "idle")
  /\ pos' = to[t]
  /\ UNCHANGED <<lock, name, tiles, flag, loads, sets, left, late>>

JumpStep(t) == send_jump(t) \/ land(t)

-----------------------------------------------------------------------------
(***************************************************************************)
(* The main thread.                                                        *)
(***************************************************************************)
send_map_data ==
  /\ lock = "free"
  /\ loads < MaxLoads /\ loads' = loads + 1
  /\ name' = "world" /\ tiles' = loads + 1
  /\ UNCHANGED <<lock, pos, flag, threadVars, sets, left, late>>

OnSpawn ==
  /\ lock = "free"
  /\ name = "world"
  /\ pos' \in Tile
  /\ UNCHANGED <<lock, name, tiles, flag, threadVars, loads, sets, left, late>>

\* Mutant: the walk is not told.
OnSetPos_silent ==
  /\ lock = "free"
  /\ name = "world" /\ sets < MaxSets /\ sets' = sets + 1
  /\ pos' \in Tile
  /\ late' = [t \in Http |-> 0]
  /\ UNCHANGED <<lock, name, tiles, flag, threadVars, loads, left>>

OnSetPos ==
  /\ lock = "free"
  /\ name = "world" /\ sets < MaxSets /\ sets' = sets + 1
  /\ flag' = "off"
  /\ pos' \in Tile
  /\ late' = [t \in Http |-> 0]
  /\ UNCHANGED <<lock, name, tiles, threadVars, loads, left>>

OnRequestWorldSelectMenu ==
  /\ lock = "free"
  /\ name' = "no" /\ tiles' = 0 /\ pos' = 1
  /\ left' = "yes"
  /\ UNCHANGED <<lock, flag, threadVars, loads, sets, late>>

MainNext == send_map_data \/ OnSpawn \/ OnSetPos \/ OnRequestWorldSelectMenu

-----------------------------------------------------------------------------
(***************************************************************************)
(* connect() on any thread, and Client::reset, which a reconnect thread    *)
(* calls without m_mutex: first m_world, of which World's operator= copies *)
(* the name only, some time later m_player.                                *)
(***************************************************************************)
connect ==
  /\ lock = "free" /\ lock' = "held"
  /\ UNCHANGED <<name, tiles, pos, flag, threadVars, loads, sets, left, late>>

connect_returns ==
  /\ lock = "held" /\ lock' = "free"
  /\ UNCHANGED <<name, tiles, pos, flag, threadVars, loads, sets, left, late>>

reset ==
  /\ name' = "no"
  /\ left' = "yes"
  /\ UNCHANGED <<lock, tiles, pos, flag, threadVars, loads, sets, late>>

reset_player ==
  /\ left = "yes"
  /\ pos' = 1
  /\ UNCHANGED <<lock, name, tiles, flag, threadVars, loads, sets, left, late>>

ConnNext == connect \/ connect_returns \/ reset \/ reset_player

Next ==
  \/ MainNext
  \/ ConnNext
  \/ \E t \in Http : \/ \E x \in Place : move_toward(t, x) \/ teleport(t, x)
                     \/ WalkStep(t) \/ JumpStep(t)

Spec == Init /\ [][Next]_vars

(***************************************************************************)
(* Fairness: a thread inside move_toward or teleport runs, and gets        *)
(* m_mutex if it is free again and again.  Nobody promises that connect()  *)
(* returns.                                                                *)
(***************************************************************************)
FairSpec ==
  /\ Spec
  /\ \A t \in Http : WF_vars(FreeStep(t)) /\ SF_vars(LockStep(t)) /\ SF_vars(JumpStep(t))

-----------------------------------------------------------------------------
\* OnSetPos stops every walk: none sends more than the step it is in, unless
\* a new walk puts the flag on again.
SetPosStops == \A t \in Http : late[t] <= 1

\* As long as the bot never leaves or loses a world, the flag says that some thread
\* walks, however the walks of several threads overlap: move_toward is not
\* refused for nothing.  (After a walk that finds itself outside it stays on.)
FlagMeansWalk == left = "no" /\ flag = "on" => \E t \in Http : at[t] \in Loop

\* Every walk comes to an end, whatever the other threads and the server do,
\* as long as no connect() keeps m_mutex for ever.
MoveEnds ==
  []<>(lock = "free") => \A t \in Http : at[t] # "idle" ~> at[t] = "idle"
=============================================================================
