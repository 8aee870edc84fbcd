------------------------------ MODULE WorldState ------------------------------
(***************************************************************************)
(* What a bot knows of the world it is in: tiles and their lock, players,  *)
(* floating items and its inventory.  The game server holds the truth and  *)
(* tells the bot of every change by reliable, ordered packets, which the   *)
(* handlers of events/registered/game_packet apply on the main thread;     *)
(* HTTP handlers read the copy, and collect, smoke and reset (client.cpp)  *)
(* use it without m_mutex.  The link may be lost with packets on the way.  *)
(*                                                                         *)
(* Left out: labels, trees' times and the other extra data of a tile, and  *)
(* positions: a floating item lies at a place, and whether it is in range  *)
(* of the bot is left open.                                                *)
(***************************************************************************)
EXTENDS Naturals, Sequences, FiniteSets, SequencesExt

CONSTANTS
  Main,       \* the main thread
  Http,       \* the threads of the HTTP server
  HttpOps,    \* the requests it gets, of AllHttpOps
  Reconn,     \* the threads that reconnect when the link is lost
  World,      \* the names of worlds
  Locked,     \* the worlds of two tiles, one of them a lock; others have a bare one
  Gem, Item,  \* Item: the kinds of items, Gem one of them (item 112)
  Place,      \* where items lie
  Amount,     \* how much of an item is dropped, lost or gained at once
  NetId,      \* the ids of players in a world
  Uid,        \* the ids of users that own locks or have access
  Interval,   \* auto_collect_interval
  Gap,        \* the times that pass between two polls
  MaxCalls,   \* bound: the kinds of HTTP requests that may come (called)
  MaxWire,    \* bound: packets on the way
  MaxEvents   \* bound: what happens on the server

AllHttpOps == {"collect", "smoke", "reset", "tiles"}
Unnamed == ""       \* the name of World()

ASSUME WorldAssumption ==
  /\ Main \notin Http \cup Reconn /\ Http \cap Reconn = {} /\ HttpOps \subseteq AllHttpOps
  /\ Locked \subseteq World /\ "EXIT" \notin World /\ Unnamed \notin World
  /\ Gem \in Item /\ Amount \subseteq 1 .. 200 /\ NetId \subseteq Nat \ {0} /\ Uid \subseteq Nat \ {0}
  /\ IsFiniteSet(NetId)
  /\ Interval \in Nat /\ Gap \subseteq Nat \ {0} /\ MaxCalls \in Nat /\ MaxWire \in Nat /\ MaxEvents \in Nat

VARIABLES
  srv,        \* the game server: where the bot is and what is there
  online,     \* the bot is connected to it
  wire,       \* the packets on the way to the bot
  asked,      \* the drop ids the bot has asked for
  events,     \* counts what happened on the server
  name,       \* m_world.m_name
  size,       \* m_world.m_width (the height is 1)
  tiles,      \* m_world.m_tiles
  lock,       \* m_world.m_owner_uid and m_access_list
  players,    \* m_world.m_players: their net ids
  items,      \* m_world.m_floating_items
  count,      \* m_world.m_floating_item_count
  last,       \* m_world.m_last_floating_item_offset
  me,         \* m_player.m_net_id
  bag,        \* m_inventory.m_items
  gems,       \* m_gem_count
  auto,       \* m_macro.auto_collect
  since,      \* the time since m_macro.auto_collect_last
  smoke_index,\* m_macro.smoke_index
  pc,         \* where each thread is
  cur,        \* the item its collect has come to
  called,     \* history: the kinds of HTTP requests that came: smoke ever, collect and reset since the
              \* last login; a reset by a reconnect thread counts as one
  fault       \* "none", or the undefined behaviour that ended the run

srvVars   == <<srv, online, wire, asked, events>>
worldVars == <<name, size, tiles, lock, players, items, count, last>>
bagVars   == <<bag, gems>>
macroVars == <<auto, since, smoke_index>>
threadVars == <<pc, cur, called, fault>>
vars == <<srvVars, worldVars, me, bagVars, macroVars, threadVars>>

Cap    == 200        \* the most of one item a bot can hold
Word   == 65536      \* an owner is 16 bits wide
Thread == Http \cup Reconn \cup {Main}
Lock   == [owner : 0 .. Word - 1, access : SUBSET Uid]
NoLock == [owner |-> 0, access |-> {}]
Tile   == [fg : {"none", "block", "lock"}, bg : {"none", "wall"}, lock : Lock]
Bare   == [fg |-> "none", bg |-> "none", lock |-> NoLock]
Drop   == [id : Nat, item : Item, place : Place, amount : 0 .. 255]
Outside(held) == [at |-> "EXIT", tiles |-> <<>>, owner |-> 0, access |-> {}, drops |-> {},
                  last |-> 0, players |-> {}, self |-> 0, bag |-> held]
Packet == {"map", "local", "spawn", "remove", "drop", "merge", "take", "change", "tree",
           "update", "updates", "inventory", "modify", "bux", "exit"}

\* Every variable keeps its type: in particular amounts stay 8 bits wide.
TypeOK ==
  /\ srv.at \in World \cup {"EXIT"} /\ \A t \in Range(srv.tiles) : t.fg \in {"none", "block", "lock"}
  /\ online \in BOOLEAN /\ \A p \in Range(wire) : p.type \in Packet
  /\ asked \subseteq Nat /\ events \in 0 .. MaxEvents
  /\ name \in World \cup {Unnamed, "EXIT"} /\ size \in Nat /\ lock \in Lock
  /\ tiles \in Seq(Tile) /\ players \in Seq(NetId) /\ items \in Seq(Drop)
  /\ count \in Nat /\ last \in Nat /\ me \in NetId \cup {0}
  /\ \A i \in DOMAIN bag : i \in Item \ {Gem} /\ bag[i] \in 0 .. 255
  /\ gems \in Nat /\ auto \in BOOLEAN /\ since \in Nat /\ smoke_index \in Nat
  /\ pc \in [Thread -> {"idle", "collect", "stale", "smoke", "failed", "reset"}]
  /\ cur \in [Thread -> Nat] /\ called \subseteq AllHttpOps
  /\ fault \in {"none", "iterator", "player", "tile"}

\* The constructor leaves sizes and net id as the memory was (counts, too, but
\* no loop uses them before a map is loaded).
Init ==
  /\ srv = Outside([i \in Item |-> 0])
  /\ online = TRUE /\ wire = <<>> /\ asked = {} /\ events = 0
  /\ name = Unnamed /\ size \in 0 .. 1 /\ tiles = <<>> /\ lock = NoLock /\ players = <<>>
  /\ items = <<>> /\ count = 0 /\ last = 0 /\ me \in NetId \cup {0}
  /\ bag = <<>> /\ gems = 0
  /\ auto = FALSE /\ since = 0 /\ smoke_index = 0
  /\ pc = [t \in Thread |-> "idle"] /\ cur = [t \in Thread |-> 0]
  /\ called = {} /\ fault = "none"

-----------------------------------------------------------------------------
(***************************************************************************)
(* The game server.  Whatever happens in the bot's world is told to it.    *)
(***************************************************************************)
Tells(packets) ==
  /\ online /\ fault = "none" /\ events < MaxEvents
  /\ Len(wire) + Len(packets) <= MaxWire
  /\ wire' = wire \o packets
  /\ events' = events + 1

Quiet == UNCHANGED <<online, worldVars, me, bagVars, macroVars, threadVars>>
InWorld == srv.at \in World
HasLock == \E t \in Range(srv.tiles) : t.fg = "lock"

\* What the packet of a world holds.
Map(s) == [type |-> "map", at |-> s.at, tiles |-> s.tiles, owner |-> s.owner, access |-> s.access,
           drops |-> s.drops, last |-> s.last]

\* The bot enters a world others have built in and dropped items in, and is
\* given an id of its own.
server_enter(w, owner, drops, others) ==
  LET self == CHOOSE n \in NetId : n \notin others
      bare == [fg |-> "none", bg |-> "none"]
  IN /\ srv.at # w /\ NetId \ others # {}
     /\ srv' = [at |-> w, drops |-> drops, last |-> 1, players |-> others, self |-> self,
                tiles  |-> IF w \in Locked THEN <<[bare EXCEPT !.fg = "lock"], bare>> ELSE <<bare>>,
                owner  |-> IF w \in Locked THEN owner ELSE 0,
                access |-> IF w \in Locked THEN Uid ELSE {},
                bag    |-> srv.bag]
     /\ Tells(<<Map(srv'), [type |-> "local", id |-> self]>>
              \o SetToSeq({[type |-> "spawn", id |-> n] : n \in others}))
     /\ asked' = {}
     /\ Quiet

server_exit ==
  /\ InWorld /\ srv' = Outside(srv.bag)
  /\ Tells(<<[type |-> "exit"]>>) /\ asked' = {} /\ Quiet

\* An item is dropped.  One that lies at its place grows instead.
server_drop(i, p, a) ==
  /\ InWorld
  /\ \/ /\ \A d \in srv.drops : d.item # i \/ d.place # p
        /\ srv' = [srv EXCEPT !.last = @ + 1,
                              !.drops = @ \cup {[id |-> srv.last + 1, item |-> i, place |-> p, amount |-> a]}]
        /\ Tells(<<[type |-> "drop", item |-> i, place |-> p, amount |-> a]>>)
     \/ \E d \in srv.drops :
          /\ d.item = i /\ d.place = p /\ d.amount + a <= Cap
          /\ srv' = [srv EXCEPT !.drops = (@ \ {d}) \cup {[d EXCEPT !.amount = @ + a]}]
          /\ Tells(<<[type |-> "merge", item |-> i, place |-> p, amount |-> d.amount + a]>>)
  /\ UNCHANGED asked /\ Quiet

\* A player takes an item; the bot one it asked for and has room for.
server_take(d, n) ==
  /\ d \in srv.drops /\ n \in srv.players \cup {srv.self}
  /\ n = srv.self => d.id \in asked /\ (d.item = Gem \/ srv.bag[d.item] + d.amount <= Cap)
  /\ srv' = [srv EXCEPT !.drops = @ \ {d},
                        !.bag[d.item] = IF n = srv.self THEN @ + d.amount ELSE @]
  /\ Tells(<<[type |-> "take", by |-> n, id |-> d.id]>>)
  /\ asked' = asked \ {d.id}
  /\ Quiet

\* The bot uses up, drops or is given an item; it buys for gems or is given some.
server_modify(i, lost, gained) ==
  /\ i # Gem /\ (lost = 0 \/ gained = 0) /\ lost + gained > 0
  /\ srv.bag[i] >= lost /\ srv.bag[i] + gained <= Cap
  /\ srv' = [srv EXCEPT !.bag[i] = @ - lost + gained]
  /\ Tells(<<[type |-> "modify", item |-> i, lost |-> lost, gained |-> gained]>>)
  /\ UNCHANGED asked /\ Quiet

server_bux(g) ==
  /\ g # srv.bag[Gem] /\ srv' = [srv EXCEPT !.bag[Gem] = g]
  /\ Tells(<<[type |-> "bux", gems |-> g]>>) /\ UNCHANGED asked /\ Quiet

server_player(n) ==
  /\ InWorld /\ n # srv.self
  /\ srv' = [srv EXCEPT !.players = IF n \in @ THEN @ \ {n} ELSE @ \cup {n}]
  /\ Tells(<<[type |-> IF n \in srv.players THEN "remove" ELSE "spawn", id |-> n]>>)
  /\ UNCHANGED asked /\ Quiet

\* Somebody punches or builds; a lock is set, or its access list is changed.
\* A tree is harvested.
server_tile(x, t) ==
  /\ InWorld /\ x \in DOMAIN srv.tiles
  /\ LET old == srv.tiles[x] IN
     \/ /\ \/ t = "fist" /\ old.fg # "none" /\ srv' = [srv EXCEPT !.tiles[x].fg = "none"]
           \/ t = "fist" /\ old.fg = "none" /\ srv' = [srv EXCEPT !.tiles[x].bg = "none"]
           \/ t = "wall" /\ srv' = [srv EXCEPT !.tiles[x].bg = "wall"]
           \/ t = "block" /\ old.fg = "none" /\ srv' = [srv EXCEPT !.tiles[x].fg = "block"]
        /\ Tells(<<[type |-> "change", x |-> x, item |-> t]>>)
     \/ /\ t = "harvest" /\ old.fg = "block" /\ srv' = [srv EXCEPT !.tiles[x].fg = "none"]
        /\ Tells(<<[type |-> "tree", x |-> x]>>)
  /\ UNCHANGED asked /\ Quiet

server_lock(x, owner, access) ==
  /\ InWorld /\ x \in DOMAIN srv.tiles
  /\ \/ srv.tiles[x].fg = "lock" /\ owner = srv.owner
     \/ srv.tiles[x].fg = "none" /\ ~HasLock
  /\ srv' = [srv EXCEPT !.tiles[x].fg = "lock", !.owner = owner, !.access = access]
  /\ Tells(<<[type |-> "update", x |-> x, tile |-> [fg |-> "lock", bg |-> srv.tiles[x].bg],
              owner |-> owner, access |-> access]>>)
  /\ UNCHANGED asked /\ Quiet

\* Many tiles change at once: all get a background.
server_area ==
  LET built == [x \in DOMAIN srv.tiles |-> [srv.tiles[x] EXCEPT !.bg = "wall"]] IN
  /\ InWorld /\ built # srv.tiles /\ srv' = [srv EXCEPT !.tiles = built]
  /\ Tells(<<[type |-> "updates", tiles |-> built, owner |-> srv.owner, access |-> srv.access]>>)
  /\ UNCHANGED asked /\ Quiet

\* The link breaks: what is on the way is lost and the bot leaves its world.
link_lost ==
  /\ online /\ fault = "none" /\ events < MaxEvents
  /\ online' = FALSE /\ wire' = <<>> /\ asked' = {} /\ events' = events + 1
  /\ srv' = Outside(srv.bag)
  /\ UNCHANGED <<worldVars, me, bagVars, macroVars, threadVars>>

\* The bot logs in again, by the connect() of a reconnect thread or of a request,
\* and is told its inventory, gems and the menu.
relog ==
  /\ ~online /\ fault = "none"
  /\ online' = TRUE /\ called' = called \ {"collect", "reset"}
  /\ wire' = <<[type |-> "inventory", bag |-> srv.bag], [type |-> "bux", gems |-> srv.bag[Gem]],
               [type |-> "exit"]>>
  /\ UNCHANGED <<srv, asked, events, worldVars, me, bagVars, macroVars, pc, cur, fault>>

ServerSteps ==
  \/ \E w \in World, o \in Uid, ps \in SUBSET NetId :
       \/ server_enter(w, o, {}, ps)
       \/ \E i \in Item \ {Gem}, p \in Place, a \in Amount :
            server_enter(w, o, {[id |-> 1, item |-> i, place |-> p, amount |-> a]}, ps)
  \/ server_exit
  \/ \E i \in Item, p \in Place, a \in Amount : server_drop(i, p, a)
  \/ \E d \in srv.drops, n \in NetId : server_take(d, n)
  \/ \E i \in Item, a, b \in Amount \cup {0} : server_modify(i, a, b)
  \/ \E g \in Amount \cup {0} : server_bux(g)
  \/ \E n \in NetId : server_player(n)
  \/ \E x \in DOMAIN srv.tiles, t \in {"fist", "wall", "block", "harvest"} : server_tile(x, t)
  \/ \E x \in DOMAIN srv.tiles, o \in Uid, f \in SUBSET Uid : server_lock(x, o, f)
  \/ server_area \/ link_lost

ServerNext == (events < MaxEvents /\ online /\ ServerSteps) \/ relog

-----------------------------------------------------------------------------
(***************************************************************************)
(* The main thread applies a packet.  Handlers hold m_mutex, so what they  *)
(* change is one step for everybody who takes it, too.                     *)
(***************************************************************************)
Takes(type) ==
  /\ online /\ fault = "none" /\ pc[Main] = "idle"
  /\ wire # <<>> /\ Head(wire).type = type
  /\ wire' = Tail(wire)
  /\ UNCHANGED <<srv, online, asked, events, macroVars, cur, called>>

Receives(type) == Takes(type) /\ UNCHANGED fault

packet == Head(wire)

\* m_floating_items is cleared, or grows or shrinks: iterators into it are dead.
Invalidates == pc' = [t \in Thread |-> IF pc[t] = "collect" THEN "stale" ELSE pc[t]]

\* A tile holds its owner in 16 bits (tile.hpp).
ReadTile(t, owner, access) ==
  [fg |-> t.fg, bg |-> t.bg,
   lock |-> IF t.fg = "lock" THEN [owner |-> owner % Word, access |-> access] ELSE NoLock]

\* Mutant: the floating items of the last world stay.
send_map_data_appends ==
  /\ Receives("map")
  /\ name' = packet.at /\ size' = Len(packet.tiles) /\ players' = <<>>
  /\ tiles' = [x \in DOMAIN packet.tiles |-> ReadTile(packet.tiles[x], packet.owner, packet.access)]
  /\ lock' = IF packet.owner = 0 THEN lock ELSE [owner |-> packet.owner % Word, access |-> packet.access]
  /\ items' = items \o SetToSeq(packet.drops) /\ count' = Cardinality(packet.drops) /\ last' = packet.last
  /\ Invalidates /\ UNCHANGED <<me, bagVars>>

\* A world without a lock keeps the owner of the last one.
send_map_data ==
  /\ Receives("map")
  /\ name' = packet.at /\ size' = Len(packet.tiles) /\ players' = <<>>
  /\ tiles' = [x \in DOMAIN packet.tiles |-> ReadTile(packet.tiles[x], packet.owner, packet.access)]
  /\ lock' = IF \E x \in DOMAIN tiles' : tiles'[x].fg = "lock"
             THEN tiles'[CHOOSE x \in DOMAIN tiles' : tiles'[x].fg = "lock"].lock ELSE lock
  /\ items' = SetToSeq(packet.drops) /\ count' = Cardinality(packet.drops) /\ last' = packet.last
  /\ Invalidates /\ UNCHANGED <<me, bagVars>>

OnSpawn ==
  \/ /\ Receives("local") /\ me' = packet.id
     /\ UNCHANGED <<worldVars, bagVars, pc>>
  \/ /\ Receives("spawn") /\ players' = Append(players, packet.id)
     /\ UNCHANGED <<name, size, tiles, lock, items, count, last, me, bagVars, pc>>

\* std::remove_if and erase.
remove_if(s, id) ==
  LET kept[k \in 0 .. Len(s)] ==
        IF k = 0 THEN <<>> ELSE IF s[k] = id THEN kept[k - 1] ELSE Append(kept[k - 1], s[k])
  IN  kept[Len(s)]

OnRemove ==
  /\ Receives("remove") /\ players' = remove_if(players, packet.id)
  /\ UNCHANGED <<name, size, tiles, lock, items, count, last, me, bagVars, pc>>

\* The drop's id is not in the packet: it is counted.
item_dropped ==
  /\ Receives("drop") /\ last' = last + 1
  /\ items' = Append(items, [id |-> last', item |-> packet.item, place |-> packet.place,
                             amount |-> packet.amount % 256])
  /\ Invalidates /\ UNCHANGED <<name, size, tiles, lock, players, count, me, bagVars>>

item_merged ==
  /\ Receives("merge")
  /\ LET i == SelectInSeq(items, LAMBDA d : d.item = packet.item /\ d.place = packet.place)
     IN  items' = IF i = 0 THEN items ELSE [items EXCEPT ![i].amount = packet.amount % 256]
  /\ UNCHANGED <<name, size, tiles, lock, players, count, last, me, bagVars, pc>>

Have(i) == IF i \in DOMAIN bag THEN bag[i] ELSE 0

With(i, a) == [j \in DOMAIN bag \cup {i} |-> IF j = i THEN a ELSE bag[j]]

\* 8 bits, cut to the limit after they have wrapped.
Added(i, a) == LET sum == (Have(i) + a) % 256 IN IF sum > Cap THEN Cap ELSE sum

\* Mutant: gems are an item like the others.
Credit_in_bag(d) == bag' = With(d.item, Added(d.item, d.amount)) /\ gems' = gems

Credit(d) ==
  IF d.item = Gem THEN gems' = gems + d.amount /\ bag' = bag
  ELSE bag' = With(d.item, Added(d.item, d.amount)) /\ gems' = gems

\* Mutant: whoever takes it, it is the bot's.
item_taken_by_any ==
  /\ Receives("take")
  /\ LET i == SelectInSeq(items, LAMBDA d : d.id = packet.id) IN
     IF i = 0 THEN UNCHANGED <<items, bagVars, pc>>
     ELSE items' = RemoveAt(items, i) /\ Credit(items[i]) /\ Invalidates
  /\ UNCHANGED <<name, size, tiles, lock, players, count, last, me>>

item_taken ==
  /\ Receives("take")
  /\ LET i == SelectInSeq(items, LAMBDA d : d.id = packet.id) IN
     IF i = 0 THEN UNCHANGED <<items, bagVars, pc>>
     ELSE /\ items' = RemoveAt(items, i) /\ Invalidates
          /\ IF packet.by = me THEN Credit(items[i]) ELSE UNCHANGED bagVars
  /\ UNCHANGED <<name, size, tiles, lock, players, count, last, me>>

item_change_object == item_dropped \/ item_merged \/ item_taken

send_inventory_state ==
  /\ Receives("inventory")
  /\ bag' = [i \in {j \in Item \ {Gem} : packet.bag[j] > 0} |-> packet.bag[i]]
  /\ UNCHANGED <<worldVars, me, gems, pc>>

\* What runs out stays in the map with the amount 0.
modify_item_inventory ==
  /\ Receives("modify")
  /\ LET i == packet.item IN
     bag' = IF i \notin DOMAIN bag THEN With(i, packet.gained)
            ELSE IF packet.lost > 0 /\ bag[i] >= packet.lost THEN [bag EXCEPT ![i] = @ - packet.lost]
            ELSE IF packet.gained > 0 THEN [bag EXCEPT ![i] = (@ + packet.gained) % 256]
            ELSE [j \in DOMAIN bag \ {i} |-> bag[j]]
  /\ UNCHANGED <<worldVars, me, gems, pc>>

OnSetBux == Receives("bux") /\ gems' = packet.gems /\ UNCHANGED <<worldVars, me, bag, pc>>

\* World::get_tile: nullptr outside of the size, else an element of m_tiles.
get_tile(x) == IF x > size THEN "null" ELSE IF x > Len(tiles) THEN "wild" ELSE "tile"

\* A handler writes to the tile that get_tile finds, if any.
SetTile(x, t) ==
  /\ tiles' = IF get_tile(x) = "tile" THEN [tiles EXCEPT ![x].fg = t.fg, ![x].bg = t.bg] ELSE tiles
  /\ fault' = IF get_tile(x) = "wild" THEN "tile" ELSE fault

Changed(t, item) ==
  CASE item = "fist" /\ t.fg # "none" -> [t EXCEPT !.fg = "none"]
    [] item = "fist" /\ t.fg = "none" -> [t EXCEPT !.bg = "none"]
    [] item = "wall"  -> [t EXCEPT !.bg = "wall"]
    [] item = "block" -> [t EXCEPT !.fg = "block"]

tile_change_request ==
  /\ Takes("change") /\ SetTile(packet.x, Changed(tiles[packet.x], packet.item))
  /\ UNCHANGED <<name, size, lock, players, items, count, last, me, bagVars, pc>>

send_tile_tree_state ==
  /\ Takes("tree") /\ SetTile(packet.x, [tiles[packet.x] EXCEPT !.fg = "none"])
  /\ UNCHANGED <<name, size, lock, players, items, count, last, me, bagVars, pc>>

\* A tile read again: the access list of a lock is added to the one the tile
\* had (tile.cpp), and what the world knows of its lock follows.
Updated(old, t, owner, access) ==
  [fg |-> t.fg, bg |-> t.bg,
   lock |-> IF t.fg = "lock" THEN [owner |-> owner % Word, access |-> old.lock.access \cup access]
            ELSE old.lock]

\* Mutant: the world is not told of the lock.
UpdateTiles_tiles_only(new) ==
  /\ tiles' = [x \in DOMAIN tiles |->
                 IF x \in DOMAIN new THEN Updated(tiles[x], new[x], packet.owner, packet.access) ELSE tiles[x]]
  /\ UNCHANGED <<name, size, lock, players, items, count, last, me, bagVars, pc>>

UpdateTiles(new) ==
  /\ tiles' = [x \in DOMAIN tiles |->
                 IF x \in DOMAIN new THEN Updated(tiles[x], new[x], packet.owner, packet.access) ELSE tiles[x]]
  /\ LET locks == {x \in DOMAIN tiles \cap DOMAIN new : new[x].fg = "lock"} IN
     lock' = IF locks = {} THEN lock ELSE tiles'[CHOOSE x \in locks : TRUE].lock
  /\ UNCHANGED <<name, size, players, items, count, last, me, bagVars, pc>>

send_tile_update_data == Receives("update") /\ UpdateTiles([x \in {packet.x} |-> packet.tile])

send_tile_update_data_multiple == Receives("updates") /\ UpdateTiles(packet.tiles)

\* Mutant: the name stays.
OnRequestWorldSelectMenu_named ==
  /\ Receives("exit")
  /\ players' = <<>> /\ tiles' = <<>> /\ me' = 0 /\ lock' = [lock EXCEPT !.access = {}]
  /\ UNCHANGED <<name, size, items, count, last, bagVars, pc>>

\* World::operator= copies the name only: size, owner and items stay as they
\* were.  The new Player's net id is not set.
OnRequestWorldSelectMenu ==
  /\ Receives("exit")
  /\ name' = "EXIT" /\ players' = <<>> /\ tiles' = <<>> /\ me' \in NetId \cup {0}
  /\ lock' = [lock EXCEPT !.access = {}]
  /\ UNCHANGED <<size, items, count, last, bagVars, pc>>

Handlers ==
  \/ send_map_data \/ OnSpawn \/ OnRemove \/ item_change_object
  \/ send_inventory_state \/ modify_item_inventory \/ OnSetBux
  \/ tile_change_request \/ send_tile_tree_state
  \/ send_tile_update_data \/ send_tile_update_data_multiple
  \/ OnRequestWorldSelectMenu

-----------------------------------------------------------------------------
(***************************************************************************)
(* Commands that use the world without m_mutex, on the main thread (macros *)
(* of service_poll) and on the threads of the HTTP server, and readers.    *)
(***************************************************************************)
Calls(t, from, to) == fault = "none" /\ pc[t] = from /\ pc' = [pc EXCEPT ![t] = to]

\* A thread walks over the items, and asks for each in range.
collect(t) ==
  /\ Calls(t, "idle", IF count = 0 THEN "idle" ELSE "collect")
  /\ cur' = [cur EXCEPT ![t] = 1] /\ called' = called \cup {"collect"}
  /\ UNCHANGED <<srvVars, worldVars, me, bagVars, macroVars, fault>>

collect_next(t) ==
  /\ Calls(t, "collect", IF cur[t] < Len(items) THEN "collect" ELSE "idle")
  /\ \E near \in BOOLEAN :
       asked' = IF online /\ near /\ cur[t] <= Len(items) THEN asked \cup {items[cur[t]].id} ELSE asked
  /\ cur' = [cur EXCEPT ![t] = IF cur[t] < Len(items) THEN @ + 1 ELSE 0]
  /\ UNCHANGED <<srv, online, wire, events, worldVars, me, bagVars, macroVars, called, fault>>

\* The list was changed under the loop.
collect_stale(t) ==
  /\ Calls(t, "stale", "idle") /\ fault' = "iterator"
  /\ UNCHANGED <<srvVars, worldVars, me, bagVars, macroVars, cur, called>>

Checked == IF players # <<>> /\ smoke_index >= Len(players) THEN 0 ELSE smoke_index

smoke(t) ==
  /\ Calls(t, "idle", IF players = <<>> THEN "idle" ELSE "smoke")
  /\ smoke_index' = Checked /\ called' = called \cup {"smoke"}
  /\ UNCHANGED <<srvVars, worldVars, me, bagVars, auto, since, cur, fault>>

smoke_read(t) ==
  /\ Calls(t, "smoke", "idle")
  /\ IF smoke_index < Len(players) THEN smoke_index' = smoke_index + 1 /\ fault' = fault
     ELSE fault' = "player" /\ smoke_index' = smoke_index
  /\ UNCHANGED <<srvVars, worldVars, me, bagVars, auto, since, cur, called>>

\* Client::reset, without the mutex: m_world = World() copies the name only, then
\* m_player = Player().  A thread that stands at "from" begins it.
ResetFrom(t, from) ==
  /\ Calls(t, from, "reset") /\ name' = Unnamed /\ called' = called \cup {"reset"}
  /\ UNCHANGED <<srvVars, size, tiles, lock, players, items, count, last, me, bagVars, macroVars, cur, fault>>

reset_player(t) ==
  /\ Calls(t, "reset", "idle") /\ me' = 0 /\ called' = called \cup {"reset"}
  /\ UNCHANGED <<srvVars, worldVars, bagVars, macroVars, cur, fault>>

reset(t) == ResetFrom(t, "idle")

\* on_get_world_tiles, with the mutex, reads every tile within the size.
on_get_world_tiles(t) ==
  /\ Calls(t, "idle", "idle")
  /\ fault' = IF \E x \in 1 .. size : get_tile(x) = "wild" THEN "tile" ELSE fault
  /\ fault' # fault   \* else nothing changes
  /\ UNCHANGED <<srvVars, worldVars, me, bagVars, macroVars, cur, called>>

Asked(op) == op \in HttpOps /\ Cardinality(called \cup {op}) <= MaxCalls

HttpNext(t) ==
  \/ Asked("collect") /\ collect(t)
  \/ collect_next(t) \/ collect_stale(t)
  \/ Asked("smoke") /\ smoke(t)
  \/ Asked("reset") /\ reset(t)
  \/ smoke_read(t) \/ reset_player(t)
  \/ "tiles" \in HttpOps /\ on_get_world_tiles(t)

\* A script turns auto_collect on or off.
l_auto_collect ==
  /\ fault = "none" /\ auto' = ~auto
  /\ UNCHANGED <<srvVars, worldVars, me, bagVars, since, smoke_index, threadVars>>

\* The end of service_poll.  collect asks for the items in range, unless the
\* world had none when it was entered.  smoke_last is never set, so that smoke
\* runs in every poll, and sets auto_collect_last.
Listed == IF count = 0 THEN {} ELSE {d.id : d \in Range(items)}

macros(gap) ==
  /\ Calls(Main, "idle", IF players = <<>> THEN "idle" ELSE "smoke")
  /\ \E near \in SUBSET Listed :
       asked' = IF online /\ auto /\ since + gap > Interval THEN asked \cup near ELSE asked
  /\ smoke_index' = Checked /\ since' = 0
  /\ UNCHANGED <<srv, online, wire, events, worldVars, me, bagVars, auto, cur, called, fault>>

MainNext == Handlers \/ smoke_read(Main) \/ \E gap \in Gap : macros(gap)

\* The connect() of a reconnect thread fails (it ends the link if there is one:
\* link_lost).  Then the thread resets, whenever it comes to that: another thread
\* may have brought the bot online, and into a world, by then.
connect_fails(t) ==
  /\ ~online /\ Calls(t, "idle", "failed")
  /\ UNCHANGED <<srvVars, worldVars, me, bagVars, macroVars, cur, called, fault>>

reconnect_reset(t) == ResetFrom(t, "failed")

ReconnNext(t) == connect_fails(t) \/ reconnect_reset(t) \/ reset_player(t)

Ended == fault # "none" /\ UNCHANGED vars

Next ==
  \/ ServerNext \/ MainNext \/ l_auto_collect
  \/ (\E t \in Http : HttpNext(t)) \/ (\E t \in Reconn : ReconnNext(t))
  \/ Ended

Spec == Init /\ [][Next]_vars

-----------------------------------------------------------------------------
(***************************************************************************)
(* What the bot knows.                                                     *)
(***************************************************************************)
\* The bot has applied all that it was told.
Settled == online /\ fault = "none" /\ wire = <<>>

\* Although drop ids are counted on both sides and never sent with a drop, the
\* bot and the server mean the same items by them, through every load, merge,
\* pickup, exit and lost link: collect asks for what is there.
ItemsAgree ==
  Settled /\ InWorld =>
    Range(items) = srv.drops /\ Len(items) = Cardinality(srv.drops) /\ last = srv.last

\* The bot's view of its world: the players it lists are those that are there,
\* each once; the tiles are the server's, after any mix of changes, harvests and
\* updates; unless a reset() since the login took it away, be it one asked for or
\* a late one of a reconnect thread, the name is the world's; and where there is a
\* lock it knows everybody who has access (also some who have it no more), and the
\* lower 16 bits of the owner's id, which are all that a tile keeps: this does not
\* say that the owner is known.
ViewAgrees ==
  Settled /\ InWorld =>
    /\ Range(players) = srv.players /\ IsInjective(players)
    /\ [x \in DOMAIN tiles |-> [fg |-> tiles[x].fg, bg |-> tiles[x].bg]] = srv.tiles
    /\ size = Len(tiles) /\ (name = srv.at \/ (name = Unnamed /\ "reset" \in called))
    /\ HasLock => lock.owner = srv.owner % Word /\ srv.access \subseteq lock.access

\* The inventory never shows more than the bot has, and exactly what it has
\* unless a reset() since the login, also a late one of a reconnect thread, made
\* the bot forget which player it is.  (Within the limit of 200, which the server
\* keeps to; what a wrap of the 8 bits would do is not asked.)
BagAgrees ==
  Settled =>
    /\ \A i \in Item \ {Gem} : Have(i) <= srv.bag[i] /\ ("reset" \in called \/ Have(i) = srv.bag[i])
    /\ gems <= srv.bag[Gem] /\ ("reset" \in called \/ gems = srv.bag[Gem])

\* What an access outside of a list needs.  A tile outside of m_tiles is read or
\* written in no world only (the size of the last one outlives its tiles, and the
\* mutex does not help), a player past the end is read only after an HTTP smoke,
\* which has no mutex (whoever leaves between two smokes of the main thread).
FaultHasCause ==
  /\ fault = "tile" => name \in {Unnamed, "EXIT"} /\ tiles = <<>>
  /\ fault = "player" => "smoke" \in called

=============================================================================
