--------------------------- MODULE WorldStateProofs ---------------------------
(***************************************************************************)
(* Proofs about WorldState, for any worlds, items, players and HTTP        *)
(* requests, and for any number of packets on the way.                     *)
(*                                                                         *)
(* That the bot agrees with the server when nothing is on the way is not   *)
(* inductive.  What is: the bot agrees with what was true on the server    *)
(* some time ago, and the packets on the way tell, one after the other,    *)
(* of all that happened since.                                             *)
(***************************************************************************)
EXTENDS WorldState, SequenceTheorems, FiniteSetTheorems, WellFoundedInduction, TLAPS

SrvTile == [fg : {"none", "block", "lock"}, bg : {"none", "wall"}]
SrvDrop == [id : Nat, item : Item, place : Place, amount : 0 .. Cap]

OneLock(ts) == \A x, y \in DOMAIN ts : ts[x].fg = "lock" /\ ts[y].fg = "lock" => x = y

\* A floating item has an id of its own, and lies with no other of its kind.
Apart(drops) == \A d, e \in drops :
  d.id = e.id \/ (d.item = e.item /\ d.place = e.place) => d = e

ServerTypes ==
  [at : World \cup {"EXIT"}, tiles : Seq(SrvTile), owner : Uid \cup {0}, access : SUBSET Uid,
   drops : SUBSET SrvDrop, last : Nat, players : SUBSET NetId, self : NetId \cup {0},
   bag : [Item -> Nat]]

\* What can be true on the server.
Server == {s \in ServerTypes :
  /\ OneLock(s.tiles) /\ Apart(s.drops) /\ IsFiniteSet(s.drops)
  /\ \A d \in s.drops : d.id <= s.last
  /\ \A i \in Item \ {Gem} : s.bag[i] <= Cap}

\* A packet tells that the server went from s to t.
ToldMap(s, p, t) ==
  /\ p.type = "map" /\ p = Map(t) /\ t.at \in World
  /\ t.players = {} /\ t.self = 0 /\ t.bag = s.bag

ToldPlayer(s, p, t) ==
  \/ p.type = "local" /\ p.id \in NetId /\ t = [s EXCEPT !.self = p.id]
  \/ /\ p.type = "spawn" /\ p.id \in NetId \ s.players
     /\ t = [s EXCEPT !.players = s.players \cup {p.id}]
  \/ p.type = "remove" /\ t = [s EXCEPT !.players = s.players \ {p.id}]

Dropped(s, p) == [id |-> s.last + 1, item |-> p.item, place |-> p.place, amount |-> p.amount]

ToldDrop(s, p, t) ==
  /\ p.type = "drop" /\ p.item \in Item /\ p.place \in Place /\ p.amount \in 0 .. Cap
  /\ \A d \in s.drops : d.item # p.item \/ d.place # p.place
  /\ t = [s EXCEPT !.last = s.last + 1, !.drops = s.drops \cup {Dropped(s, p)}]

ToldMerge(s, p, t) ==
  /\ p.type = "merge" /\ p.amount \in 0 .. Cap
  /\ \E d \in s.drops :
       /\ d.item = p.item /\ d.place = p.place
       /\ t = [s EXCEPT !.drops = (s.drops \ {d}) \cup {[d EXCEPT !.amount = p.amount]}]

ToldTake(s, p, t) ==
  /\ p.type = "take" /\ p.by \in NetId /\ s.self \in NetId /\ s.at \in World
  /\ \E d \in s.drops :
       /\ d.id = p.id
       /\ p.by = s.self => d.item = Gem \/ s.bag[d.item] + d.amount <= Cap
       /\ t = [s EXCEPT !.drops = s.drops \ {d},
                        !.bag = [s.bag EXCEPT ![d.item] =
                                   IF p.by = s.self THEN s.bag[d.item] + d.amount ELSE s.bag[d.item]]]

ToldModify(s, p, t) ==
  /\ p.type = "modify" /\ p.item \in Item \ {Gem} /\ p.lost \in Nat /\ p.gained \in Nat
  /\ (p.lost = 0 \/ p.gained = 0) /\ p.lost + p.gained > 0
  /\ s.bag[p.item] >= p.lost /\ s.bag[p.item] + p.gained <= Cap
  /\ t = [s EXCEPT !.bag = [s.bag EXCEPT ![p.item] = s.bag[p.item] - p.lost + p.gained]]

ToldBag(s, p, t) ==
  \/ ToldModify(s, p, t)
  \/ p.type = "bux" /\ p.gems \in Nat /\ t = [s EXCEPT !.bag = [s.bag EXCEPT ![Gem] = p.gems]]
  \/ p.type = "inventory" /\ p.bag = s.bag /\ t = s

ToldTile(s, p, t) ==
  /\ p.type \in {"change", "tree", "update"} /\ p.x \in DOMAIN s.tiles
  /\ \/ /\ p.type = "change" /\ p.item \in {"fist", "wall", "block"}
        /\ t = [s EXCEPT !.tiles = [s.tiles EXCEPT ![p.x] = Changed(s.tiles[p.x], p.item)]]
     \/ /\ p.type = "tree"
        /\ t = [s EXCEPT !.tiles = [s.tiles EXCEPT ![p.x] = [s.tiles[p.x] EXCEPT !.fg = "none"]]]
     \/ /\ p.type = "update" /\ p.tile = [fg |-> "lock", bg |-> s.tiles[p.x].bg]
        /\ p.owner \in Uid \cup {0} /\ p.access \in SUBSET Uid
        /\ t = [s EXCEPT !.tiles = [s.tiles EXCEPT ![p.x] = p.tile],
                         !.owner = p.owner, !.access = p.access]

ToldTiles(s, p, t) ==
  /\ p.type = "updates" /\ p.owner = s.owner /\ p.access = s.access
  /\ p.tiles \in Seq(SrvTile) /\ DOMAIN p.tiles = DOMAIN s.tiles
  /\ \A x \in DOMAIN s.tiles : p.tiles[x].fg = s.tiles[x].fg
  /\ t = [s EXCEPT !.tiles = p.tiles]

ToldExit(s, p, t) == p.type = "exit" /\ t = Outside(s.bag)

Told(s, p, t) ==
  \/ ToldMap(s, p, t) \/ ToldPlayer(s, p, t)
  \/ ToldDrop(s, p, t) \/ ToldMerge(s, p, t) \/ ToldTake(s, p, t)
  \/ ToldBag(s, p, t) \/ ToldTile(s, p, t) \/ ToldTiles(s, p, t) \/ ToldExit(s, p, t)

\* The packets w lead the server from s to t.
Leads(h, w) ==
  /\ Len(h) = Len(w) + 1
  /\ \A k \in 1 .. Len(w) : Told(h[k], w[k], h[k + 1])

Path(s, w, t) == \E h \in Seq(Server) : Leads(h, w) /\ h[1] = s /\ h[Len(w) + 1] = t

\* The bot knows that s is true on the server.
ItemsMatch(s) == Range(items) = s.drops /\ IsInjective(items) /\ last = s.last

PlayersMatch(s) ==
  /\ Range(players) = s.players /\ IsInjective(players)
  /\ s.self # 0 => me = s.self \/ (me = 0 /\ "reset" \in called)
  /\ name = s.at \/ (name = Unnamed /\ "reset" \in called)

TilesMatch(s) ==
  /\ size = Len(tiles) /\ Len(tiles) = Len(s.tiles)
  /\ \A x \in DOMAIN tiles : tiles[x].fg = s.tiles[x].fg /\ tiles[x].bg = s.tiles[x].bg
  /\ (\E x \in DOMAIN s.tiles : s.tiles[x].fg = "lock")
       => lock.owner = s.owner % Word /\ s.access \subseteq lock.access

Coming(type) == \E k \in DOMAIN wire : wire[k].type = type

\* A login brings the inventory and the gems anew.
BagMatch(s) ==
  /\ \/ Coming("inventory")
     \/ \A i \in Item \ {Gem} : Have(i) <= s.bag[i] /\ ("reset" \in called \/ Have(i) = s.bag[i])
  /\ \/ Coming("bux")
     \/ gems <= s.bag[Gem] /\ ("reset" \in called \/ gems = s.bag[Gem])

Match(s) ==
  /\ s.at \in World => ItemsMatch(s) /\ PlayersMatch(s) /\ TilesMatch(s)
  /\ BagMatch(s)

\* What an inventory may hold.
Held == UNION {[I -> 0 .. 255] : I \in SUBSET (Item \ {Gem})}

BotTypes ==
  /\ online \in BOOLEAN /\ asked \subseteq Nat /\ events \in 0 .. MaxEvents
  /\ name \in World \cup {Unnamed, "EXIT"} /\ size \in Nat /\ lock \in Lock
  /\ tiles \in Seq(Tile) /\ players \in Seq(NetId) /\ items \in Seq(Drop)
  /\ count \in Nat /\ last \in Nat /\ me \in NetId \cup {0}
  /\ bag \in Held
  /\ gems \in Nat /\ auto \in BOOLEAN /\ since \in Nat /\ smoke_index \in Nat
  /\ pc \in [Thread -> {"idle", "collect", "stale", "smoke", "failed", "reset"}]
  /\ cur \in [Thread -> Nat] /\ called \subseteq AllHttpOps
  /\ fault \in {"none", "iterator", "player", "tile"}

\* A thread that collects has come to an item.
Collects == \A t \in Thread : pc[t] = "collect" => cur[t] > 0

\* Without a link the bot is in no world, and nothing is on the way.
Offline == ~online => srv = Outside(srv.bag) /\ wire = <<>>

Standing == IF srv.at \in World THEN srv.self \in NetId \ srv.players ELSE srv.drops = {}

\* The size of a world outlives its tiles where there is no world; only an HTTP
\* smoke can have taken the next player from the main thread.
CauseInv ==
  /\ size # Len(tiles) => tiles = <<>> /\ name \in {Unnamed, "EXIT"}
  /\ \A t \in Http : pc[t] = "smoke" => "smoke" \in called
  /\ pc[Main] = "smoke" => smoke_index < Len(players) \/ "smoke" \in called
  /\ FaultHasCause

\* What the bot's variables are, but for the server's.
TypesInv == srv \in Server /\ wire \in Seq(Range(wire)) /\ BotTypes /\ Collects /\ Offline /\ Standing

\* The bot knows of a state of the server from which the packets lead on.
Knows == online => \E s \in Server : Match(s) /\ Path(s, wire, srv)

WorldInv == TypesInv /\ Knows

-----------------------------------------------------------------------------
(***************************************************************************)
(* The helpers for sequences and sets.                                     *)
(***************************************************************************)
\* A set of naturals that is not empty has a least member.
LEMMA LeastNat ==
  ASSUME NEW T, T \subseteq Nat, T # {} PROVE \E x \in T : \A y \in T : x <= y
<1>. DEFINE R == {ss \in Nat \X Nat : ss[1] < ss[2]}
<1>1. IsWellFoundedOn(R, Nat)
  BY NatLessThanWellFounded DEF OpToRel
<1>2. PICK x \in T : \A y \in T : ~ (<<y, x>> \in R)
  BY <1>1, WFMin
<1>3. ASSUME NEW y \in T PROVE x <= y
  <2>1. <<y, x>> \in Nat \X Nat /\ <<y, x>> \notin R
    BY <1>2
  <2>2. ~ (y < x)
    BY <2>1
  <2>. QED
    BY <2>1, <2>2
<1>. QED
  BY <1>3

\* Min of a set of naturals.
LEMMA MinOfNats ==
  ASSUME NEW T, T \subseteq Nat, T # {} PROVE Min(T) \in T
BY LeastNat DEF Min

\* What SelectInSeq finds: none, or one.
LEMMA First ==
  ASSUME NEW I, I \subseteq Nat, NEW k, k = IF I # {} THEN Min(I) ELSE 0
  PROVE  (k = 0 /\ I = {}) \/ k \in I
BY MinOfNats

\* A list with one more member, which it had not.
LEMMA Appended ==
  ASSUME NEW S, NEW s \in Seq(S), NEW e \in S
  PROVE  /\ Append(s, e) \in Seq(S) /\ Range(Append(s, e)) = Range(s) \cup {e}
         /\ IsInjective(s) /\ e \notin Range(s) => IsInjective(Append(s, e))
<1>. DEFINE r == Append(s, e)
<1>1. /\ r \in Seq(S) /\ Len(r) = Len(s) + 1
      /\ \A i \in 1 .. Len(s) : r[i] = s[i]
      /\ r[Len(s) + 1] = e
  BY AppendProperties
<1>. HIDE DEF r
<1>2. /\ Len(s) \in Nat /\ DOMAIN s = 1 .. Len(s)
      /\ DOMAIN r = (1 .. Len(s)) \cup {Len(s) + 1}
  BY <1>1, LenProperties
<1>3. Range(r) = Range(s) \cup {e}
  BY <1>1, <1>2 DEF Range
<1>4. ASSUME IsInjective(s), e \notin Range(s) PROVE IsInjective(r)
  <2>1. \A i, j \in 1 .. Len(s) : s[i] = s[j] => i = j
    BY <1>2, <1>4 DEF IsInjective
  <2>2. \A i \in 1 .. Len(s) : s[i] # e
    BY <1>2, <1>4 DEF Range
  <2>. QED
    BY <1>1, <1>2, <2>1, <2>2 DEF IsInjective
<1>. QED
  BY <1>1, <1>3, <1>4 DEF r

SetAt(s, k, e) == [s EXCEPT ![k] = e]

\* A list with one member replaced by one it had not.
LEMMA Replaced ==
  ASSUME NEW S, NEW s \in Seq(S), NEW k \in 1 .. Len(s), NEW e \in S
  PROVE  /\ SetAt(s, k, e) \in Seq(S)
         /\ IsInjective(s) /\ e \notin Range(s) \ {s[k]}
              => /\ IsInjective(SetAt(s, k, e))
                 /\ Range(SetAt(s, k, e)) = (Range(s) \ {s[k]}) \cup {e}
<1>. DEFINE r == SetAt(s, k, e)
<1>1. /\ r \in Seq(S) /\ DOMAIN s = 1 .. Len(s) /\ DOMAIN r = 1 .. Len(s)
      /\ r[k] = e /\ \A j \in 1 .. Len(s) : j # k => r[j] = s[j]
  BY LenProperties DEF SetAt
<1>. HIDE DEF r
<1>2. ASSUME IsInjective(s), e \notin Range(s) \ {s[k]}
      PROVE  IsInjective(r) /\ Range(r) = (Range(s) \ {s[k]}) \cup {e}
  <2>1. \A i, j \in 1 .. Len(s) : s[i] = s[j] => i = j
    BY <1>1, <1>2 DEF IsInjective
  <2>2. \A j \in 1 .. Len(s) : j # k => r[j] # e
    BY <1>1, <1>2, <2>1 DEF Range
  <2>3. IsInjective(r)
    BY <1>1, <2>1, <2>2 DEF IsInjective
  <2>4. Range(r) \subseteq (Range(s) \ {s[k]}) \cup {e}
    BY <1>1, <2>1 DEF Range
  <2>5. (Range(s) \ {s[k]}) \cup {e} \subseteq Range(r)
    <3>1. e \in Range(r)
      BY <1>1 DEF Range
    <3>2. ASSUME NEW d \in Range(s), d # s[k] PROVE d \in Range(r)
      BY <1>1, <3>2 DEF Range
    <3>. QED
      BY <3>1, <3>2
  <2>. QED
    BY <2>3, <2>4, <2>5
<1>. QED
  BY <1>1, <1>2 DEF r

\* A list without one of its members, none of which comes twice.
LEMMA Removed ==
  ASSUME NEW S, NEW s \in Seq(S), NEW k \in 1 .. Len(s)
  PROVE  /\ RemoveAt(s, k) \in Seq(S)
         /\ IsInjective(s) => /\ IsInjective(RemoveAt(s, k))
                              /\ Range(RemoveAt(s, k)) = Range(s) \ {s[k]}
<1>. DEFINE a == SubSeq(s, 1, k - 1)
            b == SubSeq(s, k + 1, Len(s))
            r == RemoveAt(s, k)
            n == Len(s)
<1>0. n \in Nat /\ DOMAIN s = 1 .. n /\ \A j \in 1 .. n : s[j] \in S
  BY LenProperties, ElementOfSeq
<1>1. a \in Seq(S) /\ Len(a) = k - 1 /\ \A j \in 1 .. k - 1 : a[j] = s[j]
  <2>1. \A j \in 1 .. k - 1 : s[j] \in S
    BY <1>0
  <2>2. /\ a \in Seq(S) /\ Len(a) = IF 1 <= k - 1 THEN k - 1 - 1 + 1 ELSE 0
        /\ \A j \in 1 .. k - 1 - 1 + 1 : a[j] = s[1 + j - 1]
    BY <1>0, <2>1, SubSeqProperties
  <2>. QED
    BY <1>0, <2>2
<1>2. b \in Seq(S) /\ Len(b) = n - k /\ \A j \in 1 .. n - k : b[j] = s[k + j]
  <2>1. \A j \in k + 1 .. n : s[j] \in S
    BY <1>0
  <2>2. /\ b \in Seq(S) /\ Len(b) = IF k + 1 <= n THEN n - (k + 1) + 1 ELSE 0
        /\ \A j \in 1 .. n - (k + 1) + 1 : b[j] = s[k + 1 + j - 1]
    BY <1>0, <2>1, SubSeqProperties
  <2>. HIDE DEF b, n
  <2>3. n \in Nat /\ k \in 1 .. n
    BY <1>0 DEF n
  <2>4. n - (k + 1) + 1 = n - k /\ (k + 1 > n => n - k = 0)
    BY <2>3
  <2>5. ASSUME NEW j \in 1 .. n - k PROVE b[j] = s[k + j]
    BY <2>2, <2>3, <2>4
  <2>. QED
    BY <2>2, <2>3, <2>4, <2>5
<1>3. r = a \o b
  BY DEF RemoveAt
<1>4. /\ r \in Seq(S) /\ Len(r) = n - 1
      /\ \A j \in 1 .. n - 1 : r[j] = IF j < k THEN s[j] ELSE s[j + 1]
  <2>. HIDE DEF a, b, r, n
  <2>1. /\ a \o b \in Seq(S) /\ Len(a \o b) = Len(a) + Len(b)
        /\ \A j \in 1 .. Len(a) + Len(b) : (a \o b)[j] = IF j <= Len(a) THEN a[j] ELSE b[j - Len(a)]
    BY <1>1, <1>2, ConcatProperties
  <2>2. ASSUME NEW j \in 1 .. n - 1 PROVE r[j] = IF j < k THEN s[j] ELSE s[j + 1]
    <3>1. CASE j < k
      BY <1>0, <1>1, <1>2, <1>3, <2>1, <3>1 DEF n
    <3>2. CASE ~ (j < k)
      <4>1. j - (k - 1) \in 1 .. n - k /\ k + (j - (k - 1)) = j + 1
        BY <1>0, <3>2 DEF n
      <4>2. j \in 1 .. Len(a) + Len(b) /\ ~ (j <= Len(a)) /\ Len(a) = k - 1
        BY <1>0, <1>1, <1>2, <3>2 DEF n
      <4>3. r[j] = b[j - (k - 1)]
        BY <1>3, <2>1, <4>2
      <4>4. b[j - (k - 1)] = s[j + 1]
        BY <1>2, <4>1
      <4>. QED
        BY <3>2, <4>3, <4>4
    <3>. QED
      BY <3>1, <3>2
  <2>. QED
    BY <1>0, <1>1, <1>2, <1>3, <2>1, <2>2 DEF n
<1>. HIDE DEF a, b, r, n
<1>5. DOMAIN r = 1 .. n - 1
  BY <1>4
<1>6. ASSUME IsInjective(s) PROVE IsInjective(r) /\ Range(r) = Range(s) \ {s[k]}
  <2>1. \A i, j \in 1 .. n : s[i] = s[j] => i = j
    BY <1>0, <1>6 DEF IsInjective
  <2>2. IsInjective(r)
    <3>1. ASSUME NEW i \in 1 .. n - 1, NEW j \in 1 .. n - 1, i < j PROVE r[i] # r[j]
      <4>1. n \in Nat /\ k \in 1 .. n
        BY <1>0 DEF n
      <4>. DEFINE old(x) == IF x < k THEN x ELSE x + 1
      <4>2. old(i) \in 1 .. n /\ old(j) \in 1 .. n /\ old(i) # old(j)
        BY <3>1, <4>1
      <4>3. r[i] = s[old(i)] /\ r[j] = s[old(j)]
        BY <1>4
      <4>. QED
        BY <2>1, <4>2, <4>3
    <3>2. \A i, j \in 1 .. n - 1 : i < j \/ j < i \/ i = j
      BY <1>0 DEF n
    <3>. QED
      BY <1>5, <3>1, <3>2 DEF IsInjective
  <2>3. ASSUME NEW j \in 1 .. n - 1 PROVE r[j] \in Range(s) \ {s[k]}
    BY <1>0, <1>4, <2>1 DEF Range, n
  <2>4. ASSUME NEW j \in 1 .. n, s[j] # s[k] PROVE s[j] \in Range(r)
    <3>1. CASE j < k
      BY <1>0, <1>4, <1>5, <3>1 DEF Range, n
    <3>2. CASE ~ (j < k)
      <4>1. j - 1 \in 1 .. n - 1 /\ ~ (j - 1 < k) /\ j - 1 + 1 = j
        BY <1>0, <2>4, <3>2 DEF n
      <4>. QED
        BY <1>4, <1>5, <4>1 DEF Range
    <3>. QED
      BY <3>1, <3>2
  <2>. QED
    BY <1>0, <1>5, <2>2, <2>3, <2>4 DEF Range
<1>. QED
  BY <1>4, <1>6 DEF r

\* What remove_if has kept after each of n steps.
Kept(g, s, id, n) ==
  g = [k \in 0 .. n |-> IF k = 0 THEN <<>>
                        ELSE IF s[k] = id THEN g[k - 1] ELSE Append(g[k - 1], s[k])]

\* remove_if goes through the list step by step.
LEMMA KeptExist ==
  ASSUME NEW s, NEW id, NEW n \in Nat PROVE \E g : Kept(g, s, id, n)
<1>. DEFINE Onward(q, k) == IF s[k] = id THEN q ELSE Append(q, s[k])
            Made(g, m) == g = [k \in 0 .. m |-> IF k = 0 THEN <<>> ELSE Onward(g[k - 1], k)]
            None == {m \in Nat : ~ \E g : Made(g, m)}
<1>. HIDE DEF Made, Onward
<1>1. ASSUME None # {} PROVE FALSE
  <2>1. PICK m \in None : \A j \in None : m <= j
    BY <1>1, LeastNat
  <2>2. CASE m = 0
    <3>1. Made([k \in 0 .. 0 |-> <<>>], 0)
      BY DEF Made
    <3>. QED
      BY <2>1, <2>2, <3>1
  <2>3. CASE m # 0
    <3>1. m - 1 \in Nat /\ m \in Nat /\ m - 1 \notin None
      BY <2>1, <2>3
    <3>2. PICK g : Made(g, m - 1)
      BY <3>1
    <3>. DEFINE h == [k \in 0 .. m |-> IF k = m THEN Onward(g[m - 1], m) ELSE g[k]]
    <3>3. ASSUME NEW k \in 0 .. m
          PROVE  h[k] = IF k = 0 THEN <<>> ELSE Onward(h[k - 1], k)
      <4>1. CASE k = m
        BY <2>3, <3>1, <4>1
      <4>2. CASE k # m
        <5>1. /\ k \in 0 .. m - 1 /\ h[k] = g[k]
              /\ k # 0 => k - 1 \in 0 .. m - 1 /\ h[k - 1] = g[k - 1]
          BY <3>1, <4>2
        <5>2. g[k] = IF k = 0 THEN <<>> ELSE Onward(g[k - 1], k)
          BY <3>2, <5>1 DEF Made
        <5>. QED
          BY <5>1, <5>2
      <4>. QED
        BY <4>1, <4>2
    <3>4. Made(h, m)
      BY <3>3 DEF Made
    <3>. QED
      BY <2>1, <3>4
  <2>. QED
    BY <2>2, <2>3
<1>2. \E g : Made(g, n)
  BY <1>1
<1>. QED
  BY <1>2 DEF Kept, Made, Onward

\* remove_if takes one id out of a list, and keeps every other as it was.
LEMMA RemoveIf ==
  ASSUME NEW s \in Seq(NetId), NEW id
  PROVE  /\ remove_if(s, id) \in Seq(NetId)
         /\ Range(remove_if(s, id)) = Range(s) \ {id}
         /\ IsInjective(s) => IsInjective(remove_if(s, id))
<1>. DEFINE n == Len(s)
<1>0. n \in Nat /\ DOMAIN s = 1 .. n /\ \A j \in 1 .. n : s[j] \in NetId
  BY LenProperties, ElementOfSeq
<1>1. PICK g : Kept(g, s, id, n) /\ remove_if(s, id) = g[n]
  <2>1. \E g : Kept(g, s, id, n)
    BY <1>0, KeptExist
  <2>. QED
    BY <2>1 DEF remove_if, Kept
<1>. HIDE DEF n
<1>2. /\ g[0] = <<>>
      /\ \A k \in 1 .. n : g[k] = IF s[k] = id THEN g[k - 1] ELSE Append(g[k - 1], s[k])
  <2>1. \A k \in 0 .. n : g[k] = IF k = 0 THEN <<>>
          ELSE IF s[k] = id THEN g[k - 1] ELSE Append(g[k - 1], s[k])
    BY <1>1 DEF Kept
  <2>2. 0 \in 0 .. n /\ \A k \in 1 .. n : k \in 0 .. n /\ k # 0
    BY <1>0
  <2>. QED
    BY <2>1, <2>2
<1>. DEFINE Good(k) == /\ g[k] \in Seq(NetId)
                       /\ Range(g[k]) = {s[j] : j \in 1 .. k} \ {id}
                       /\ IsInjective(s) => IsInjective(g[k])
            Bad == {k \in 0 .. n : ~ Good(k)}
<1>3. Good(0)
  BY <1>2, EmptySeq DEF Range, IsInjective
<1>4. ASSUME NEW k \in 1 .. n, Good(k - 1) PROVE Good(k)
  <2>. DEFINE q == g[k - 1]
  <2>0. k - 1 \in 0 .. n /\ k \in Nat /\ 1 .. k = (1 .. k - 1) \cup {k} /\ 1 .. k - 1 \subseteq 1 .. n
    BY <1>0
  <2>1. {s[j] : j \in 1 .. k} = {s[j] : j \in 1 .. k - 1} \cup {s[k]}
    BY <2>0
  <2>2. CASE s[k] = id
    <3>1. g[k] = q
      BY <1>2, <2>2
    <3>. QED
      BY <1>4, <2>1, <2>2, <3>1
  <2>3. CASE s[k] # id
    <3>1. g[k] = Append(q, s[k])
      BY <1>2, <2>3
    <3>2. /\ q \in Seq(NetId) /\ s[k] \in NetId
          /\ Range(q) = {s[j] : j \in 1 .. k - 1} \ {id}
      BY <1>0, <1>4
    <3>. HIDE DEF q
    <3>3. /\ g[k] \in Seq(NetId) /\ Len(g[k]) = Len(q) + 1
          /\ \A i \in 1 .. Len(q) : g[k][i] = q[i]
          /\ g[k][Len(q) + 1] = s[k]
      BY <3>1, <3>2, AppendProperties
    <3>4. /\ Len(q) \in Nat /\ DOMAIN q = 1 .. Len(q)
          /\ DOMAIN g[k] = (1 .. Len(q)) \cup {Len(q) + 1}
      BY <3>2, <3>3, LenProperties
    <3>5. Range(g[k]) = Range(q) \cup {s[k]}
      BY <3>3, <3>4 DEF Range
    <3>6. Range(g[k]) = {s[j] : j \in 1 .. k} \ {id}
      BY <2>1, <2>3, <3>2, <3>5
    <3>7. ASSUME IsInjective(s) PROVE IsInjective(g[k])
      <4>1. s[k] \notin Range(q)
        BY <1>0, <2>0, <3>2, <3>7 DEF IsInjective
      <4>2. IsInjective(q)
        BY <1>4, <3>7 DEF q
      <4>3. \A i, j \in 1 .. Len(q) : q[i] = q[j] => i = j
        BY <3>4, <4>2 DEF IsInjective
      <4>4. \A i \in 1 .. Len(q) : q[i] # s[k]
        BY <3>4, <4>1 DEF Range
      <4>. QED
        BY <3>3, <3>4, <4>3, <4>4 DEF IsInjective
    <3>. QED
      BY <3>3, <3>6, <3>7
  <2>. QED
    BY <2>2, <2>3
<1>5. ASSUME Bad # {} PROVE FALSE
  <2>. HIDE DEF Good
  <2>0. Bad \subseteq Nat
    BY <1>0
  <2>1. PICK k \in Bad : \A j \in Bad : k <= j
    BY <1>5, <2>0, LeastNat
  <2>2. CASE k = 0
    BY <1>3, <2>1, <2>2
  <2>3. CASE k # 0
    <3>1. k \in 1 .. n /\ k - 1 \in 0 .. n /\ k - 1 \notin Bad
      BY <1>0, <2>1, <2>3
    <3>. QED
      BY <1>4, <2>1, <3>1
  <2>. QED
    BY <2>2, <2>3
<1>6. Good(n)
  <2>. HIDE DEF Good, Bad
  <2>1. n \in 0 .. n /\ Bad = {}
    BY <1>0, <1>5
  <2>. QED
    BY <2>1 DEF Bad
<1>7. Range(s) = {s[j] : j \in 1 .. n}
  BY <1>0 DEF Range
<1>. QED
  BY <1>1, <1>6, <1>7

\* A set as a list: every member once.
LEMMA ListOf ==
  ASSUME NEW S, IsFiniteSet(S)
  PROVE  /\ SetToSeq(S) \in Seq(S) /\ Len(SetToSeq(S)) = Cardinality(S)
         /\ IsInjective(SetToSeq(S)) /\ Range(SetToSeq(S)) = S
<1>. DEFINE n == Cardinality(S)
            f == SetToSeq(S)
<1>1. n \in Nat /\ ExistsBijection(1 .. n, S)
  BY FS_CardinalityType
<1>2. \E e \in [1 .. n -> S] : IsInjective(e)
  BY <1>1 DEF ExistsBijection, Bijection, Injection
<1>3. f \in [1 .. n -> S] /\ IsInjective(f)
  BY <1>2 DEF SetToSeq
<1>. HIDE DEF f, n
<1>4. IsFiniteSet(1 .. n) /\ Cardinality(1 .. n) = n
  BY <1>1, FS_Interval
<1>5. f \in Injection(1 .. n, S)
  BY <1>3 DEF Injection
<1>6. f \in Surjection(1 .. n, S)
  BY <1>4, <1>5, FS_Injection DEF n
<1>7. Range(f) = S
  BY <1>3, <1>6 DEF Surjection, Range
<1>8. f \in Seq(S) /\ Len(f) = n
  BY <1>1, <1>3, SeqDef
<1>. QED
  BY <1>3, <1>7, <1>8 DEF f, n

-----------------------------------------------------------------------------
(***************************************************************************)
(* Paths of packets.                                                       *)
(***************************************************************************)
\* With nothing on the way nothing has happened.
LEMMA PathEmpty ==
  ASSUME NEW s \in Server, NEW t, Path(s, <<>>, t) PROVE s = t
BY DEF Path

\* And the other way round.
LEMMA PathNone ==
  ASSUME NEW s \in Server PROVE Path(s, <<>>, s)
<1>1. /\ <<s>> \in Seq(Server) /\ Leads(<<s>>, <<>>)
      /\ <<s>>[1] = s /\ Len(<<>>) + 1 = 1
  BY DEF Leads
<1>. QED
  BY <1>1 DEF Path

\* One packet tells of one step.
LEMMA PathOne ==
  ASSUME NEW s \in Server, NEW t \in Server, NEW p, Told(s, p, t) PROVE Path(s, <<p>>, t)
<1>. DEFINE h == <<s, t>>
<1>1. h \in Seq(Server) /\ Len(h) = 2 /\ h[1] = s /\ h[2] = t
  OBVIOUS
<1>2. Len(<<p>>) = 1 /\ <<p>>[1] = p
  OBVIOUS
<1>. HIDE DEF h
<1>3. Leads(h, <<p>>)
  BY <1>1, <1>2 DEF Leads
<1>. QED
  BY <1>1, <1>2, <1>3 DEF Path

\* The first packet tells of the first step.
LEMMA PathHead ==
  ASSUME NEW s \in Server, NEW t, NEW P, NEW w \in Seq(P), w # <<>>, Path(s, w, t)
  PROVE  \E u \in Server : Told(s, Head(w), u) /\ Path(u, Tail(w), t)
<1>1. PICK h \in Seq(Server) : Leads(h, w) /\ h[1] = s /\ h[Len(w) + 1] = t
  BY DEF Path
<1>. DEFINE n == Len(w)
            g == Tail(h)
            v == Tail(w)
<1>2. n \in Nat /\ n >= 1 /\ Len(h) = n + 1 /\ h # <<>>
  BY <1>1, EmptySeq DEF Leads
<1>3. /\ g \in Seq(Server) /\ Len(g) = n /\ \A k \in 1 .. n : g[k] = h[k + 1]
      /\ Len(v) = n - 1 /\ \A k \in 1 .. n - 1 : v[k] = w[k + 1]
      /\ Head(w) = w[1]
  BY <1>1, <1>2, HeadTailProperties
<1>. HIDE DEF n, g, v
<1>4. \A k \in 1 .. n : Told(h[k], w[k], h[k + 1])
  BY <1>1 DEF Leads, n
<1>5. ASSUME NEW k \in 1 .. n - 1 PROVE Told(g[k], v[k], g[k + 1])
  <2>1. k \in 1 .. n /\ k + 1 \in 1 .. n
    BY <1>2
  <2>. QED
    BY <1>3, <1>4, <2>1
<1>6. Leads(g, v)
  BY <1>2, <1>3, <1>5 DEF Leads
<1>7. g[1] \in Server /\ g[1] = h[2] /\ g[n] = t
  BY <1>1, <1>2, <1>3 DEF n
<1>8. Told(s, w[1], h[2])
  BY <1>1, <1>2, <1>4
<1>9. Path(g[1], v, t)
  <2>1. Len(v) + 1 = n
    BY <1>2, <1>3
  <2>. QED
    BY <1>3, <1>6, <1>7, <2>1 DEF Path
<1>. QED
  BY <1>3, <1>7, <1>8, <1>9 DEF v

\* Two paths are one.
LEMMA PathConcat ==
  ASSUME NEW s, NEW t \in Server, NEW u, NEW P, NEW w \in Seq(P), NEW v \in Seq(P),
         Path(s, w, t), Path(t, v, u)
  PROVE  Path(s, w \o v, u)
<1>1. PICK g \in Seq(Server) : Leads(g, w) /\ g[1] = s /\ g[Len(w) + 1] = t
  BY DEF Path
<1>2. PICK h \in Seq(Server) : Leads(h, v) /\ h[1] = t /\ h[Len(v) + 1] = u
  BY DEF Path
<1>. DEFINE m == Len(w)
            n == Len(v)
            r == w \o v
            e == g \o Tail(h)
<1>3. m \in Nat /\ n \in Nat /\ Len(g) = m + 1 /\ Len(h) = n + 1 /\ h # <<>>
  BY <1>1, <1>2, EmptySeq DEF Leads
<1>4. /\ Len(r) = m + n
      /\ \A k \in 1 .. m + n : r[k] = IF k <= m THEN w[k] ELSE v[k - m]
  BY ConcatProperties
<1>5. /\ Tail(h) \in Seq(Server) /\ Len(Tail(h)) = n
      /\ \A k \in 1 .. n : Tail(h)[k] = h[k + 1]
  BY <1>3, HeadTailProperties
<1>6. /\ e \in Seq(Server) /\ Len(e) = m + 1 + n
      /\ \A k \in 1 .. m + 1 + n : e[k] = IF k <= m + 1 THEN g[k] ELSE Tail(h)[k - (m + 1)]
  <2>1. /\ e \in Seq(Server) /\ Len(e) = Len(g) + Len(Tail(h))
        /\ \A k \in 1 .. Len(g) + Len(Tail(h)) :
             e[k] = IF k <= Len(g) THEN g[k] ELSE Tail(h)[k - Len(g)]
    BY <1>5, ConcatProperties
  <2>. HIDE DEF m, n, e
  <2>. QED
    BY <1>3, <1>5, <2>1
<1>. HIDE DEF m, n, r, e
<1>7. \A k \in 1 .. m + 1 : e[k] = g[k]
  BY <1>3, <1>6
<1>8. ASSUME NEW k \in 1 .. n + 1 PROVE e[m + k] = h[k]
  <2>1. CASE k = 1
    BY <1>1, <1>2, <1>3, <1>7, <2>1 DEF m
  <2>2. CASE k # 1
    <3>1. k - 1 \in 1 .. n /\ m + k \in 1 .. m + 1 + n /\ ~ (m + k <= m + 1)
          /\ m + k - (m + 1) = k - 1 /\ k - 1 + 1 = k
      BY <1>3, <2>2
    <3>. DEFINE j == m + k
    <3>. HIDE DEF j
    <3>2. j \in 1 .. m + 1 + n /\ ~ (j <= m + 1) /\ j - (m + 1) = k - 1
      BY <1>3, <3>1 DEF j
    <3>3. e[j] = Tail(h)[j - (m + 1)]
      BY <1>6, <3>2
    <3>4. e[m + k] = Tail(h)[k - 1]
      BY <3>2, <3>3 DEF j
    <3>. QED
      BY <1>5, <3>1, <3>4
  <2>. QED
    BY <2>1, <2>2
<1>9. /\ \A k \in 1 .. m : Told(g[k], w[k], g[k + 1])
      /\ \A k \in 1 .. n : Told(h[k], v[k], h[k + 1])
  BY <1>1, <1>2 DEF Leads, m, n
<1>10. ASSUME NEW k \in 1 .. m + n PROVE Told(e[k], r[k], e[k + 1])
  <2>1. CASE k <= m
    <3>1. k \in 1 .. m /\ k \in 1 .. m + 1 /\ k + 1 \in 1 .. m + 1
      BY <1>3, <2>1
    <3>. QED
      BY <1>4, <1>7, <1>9, <2>1, <3>1
  <2>2. CASE ~ (k <= m)
    <3>. DEFINE j == k - m
    <3>1. j \in 1 .. n /\ j \in 1 .. n + 1 /\ j + 1 \in 1 .. n + 1 /\ k = m + j /\ k + 1 = m + (j + 1)
      BY <1>3, <2>2
    <3>2. r[k] = v[j]
      BY <1>4, <2>2
    <3>. HIDE DEF j
    <3>3. e[k] = h[j] /\ e[k + 1] = h[j + 1]
      BY <1>8, <3>1
    <3>. QED
      BY <1>9, <3>1, <3>2, <3>3
  <2>. QED
    BY <2>1, <2>2
<1>11. Leads(e, r)
  <2>1. Len(e) = Len(r) + 1
    BY <1>3, <1>4, <1>6
  <2>. QED
    BY <1>4, <1>10, <2>1 DEF Leads
<1>12. e[1] = s /\ e[Len(r) + 1] = u
  <2>1. Len(r) + 1 = m + (n + 1) /\ n + 1 \in 1 .. n + 1 /\ 1 \in 1 .. m + 1
    BY <1>3, <1>4
  <2>2. e[m + (n + 1)] = h[n + 1]
    BY <1>8, <2>1
  <2>. QED
    BY <1>1, <1>2, <1>7, <2>1, <2>2 DEF n
<1>. QED
  BY <1>6, <1>11, <1>12 DEF Path, r

\* A list is one of its own members.
LEMMA OwnRange ==
  ASSUME NEW P, NEW w \in Seq(P) PROVE w \in Seq(Range(w))
<1>1. Len(w) \in Nat /\ DOMAIN w = 1 .. Len(w) /\ w = [k \in 1 .. Len(w) |-> w[k]]
  BY LenProperties
<1>2. w \in [1 .. Len(w) -> Range(w)]
  BY <1>1 DEF Range
<1>. QED
  BY <1>1, <1>2, SeqDef

\* What is on the way stays on the way when more is sent.
LEMMA Sent ==
  ASSUME NEW w, w \in Seq(Range(w)), NEW v, v \in Seq(Range(v))
  PROVE  /\ w \o v \in Seq(Range(w \o v))
         /\ \A k \in DOMAIN w : k \in DOMAIN (w \o v) /\ (w \o v)[k] = w[k]
<1>. DEFINE P == Range(w) \cup Range(v)
<1>1. w \in Seq(P) /\ v \in Seq(P)
  <2>1. Len(w) \in Nat /\ DOMAIN w = 1 .. Len(w) /\ Len(v) \in Nat /\ DOMAIN v = 1 .. Len(v)
    BY LenProperties
  <2>2. w \in [1 .. Len(w) -> P] /\ v \in [1 .. Len(v) -> P]
    BY <2>1, LenProperties DEF Range
  <2>. QED
    BY <2>1, <2>2, SeqDef
<1>. HIDE DEF P
<1>2. /\ w \o v \in Seq(P) /\ Len(w \o v) = Len(w) + Len(v)
      /\ \A k \in 1 .. Len(w) + Len(v) : (w \o v)[k] = IF k <= Len(w) THEN w[k] ELSE v[k - Len(w)]
  BY <1>1, ConcatProperties
<1>3. Len(w) \in Nat /\ DOMAIN w = 1 .. Len(w) /\ Len(v) \in Nat /\ DOMAIN (w \o v) = 1 .. Len(w \o v)
  BY <1>1, <1>2, LenProperties
<1>. DEFINE r == w \o v
<1>. HIDE DEF r
<1>4. r \in Seq(P) /\ Len(r) = Len(w) + Len(v) /\ DOMAIN r = 1 .. Len(r)
  BY <1>2, <1>3 DEF r
<1>5. \A k \in 1 .. Len(w) : k \in DOMAIN r /\ r[k] = w[k]
  BY <1>2, <1>3, <1>4 DEF r
<1>6. r \in Seq(Range(r))
  BY <1>4, OwnRange
<1>. QED
  BY <1>3, <1>5, <1>6 DEF r

\* Two paths are one, whatever their packets are.
LEMMA PathOnward ==
  ASSUME NEW s, NEW t \in Server, NEW u, NEW w, w \in Seq(Range(w)), NEW v, v \in Seq(Range(v)),
         Path(s, w, t), Path(t, v, u)
  PROVE  Path(s, w \o v, u)
<1>. DEFINE P == Range(w) \cup Range(v)
<1>1. w \in Seq(P) /\ v \in Seq(P)
  <2>1. Len(w) \in Nat /\ DOMAIN w = 1 .. Len(w) /\ Len(v) \in Nat /\ DOMAIN v = 1 .. Len(v)
    BY LenProperties
  <2>2. w \in [1 .. Len(w) -> P] /\ v \in [1 .. Len(v) -> P]
    BY <2>1, LenProperties DEF Range
  <2>. QED
    BY <2>1, <2>2, SeqDef
<1>. QED
  BY <1>1, PathConcat

-----------------------------------------------------------------------------
(***************************************************************************)
(* The server tells of what happens.                                       *)
(***************************************************************************)
\* What the bot knows depends on nothing a quiet step changes, and packets
\* that are on the way stay there.
LEMMA MatchQuiet ==
  ASSUME NEW s, Match(s), Quiet, \A k \in DOMAIN wire : k \in DOMAIN wire' /\ wire'[k] = wire[k]
  PROVE  Match(s)'
<1>1. UNCHANGED <<name, size, tiles, lock, players, items, count, last, me, bag, gems, called>>
  BY DEF Quiet, worldVars, bagVars, threadVars
<1>2. ASSUME NEW type, Coming(type) PROVE Coming(type)'
  BY <1>2 DEF Coming
<1>3. ItemsMatch(s) => ItemsMatch(s)'
  BY <1>1 DEF ItemsMatch
<1>4. PlayersMatch(s) => PlayersMatch(s)'
  BY <1>1 DEF PlayersMatch
<1>5. TilesMatch(s) => TilesMatch(s)'
  BY <1>1 DEF TilesMatch
<1>6. Have(1)' = Have(1) /\ \A i : Have(i)' = Have(i)
  BY <1>1 DEF Have
<1>7. BagMatch(s)'
  <2>1. BagMatch(s)
    BY DEF Match
  <2>2. Coming("inventory") => Coming("inventory")'
    BY <1>2
  <2>3. Coming("bux") => Coming("bux")'
    BY <1>2
  <2>. QED
    BY <1>1, <1>6, <2>1, <2>2, <2>3 DEF BagMatch
<1>. QED
  BY <1>3, <1>4, <1>5, <1>7 DEF Match

\* A step of the server the packets ps tell of.
LEMMA StepOn ==
  ASSUME WorldInv, NEW ps, ps \in Seq(Range(ps)), Tells(ps), Quiet, asked' \subseteq Nat,
         srv' \in Server, Standing', Path(srv, ps, srv')
  PROVE  WorldInv'
<1>1. online /\ online' = online /\ events < MaxEvents /\ events' = events + 1 /\ wire' = wire \o ps
  BY DEF Tells, Quiet
<1>2. /\ wire' \in Seq(Range(wire'))
      /\ \A k \in DOMAIN wire : k \in DOMAIN wire' /\ wire'[k] = wire[k]
  BY <1>1, Sent DEF WorldInv, TypesInv
<1>3. BotTypes'
  <2>1. UNCHANGED <<worldVars, me, bagVars, macroVars, threadVars>>
    BY DEF Quiet
  <2>2. events' \in 0 .. MaxEvents
    <3>1. events \in 0 .. MaxEvents /\ MaxEvents \in Nat
      BY WorldAssumption DEF WorldInv, TypesInv, BotTypes
    <3>. QED
      BY <1>1, <3>1
  <2>. QED
    BY <1>1, <2>1, <2>2 DEF WorldInv, TypesInv, BotTypes, worldVars, bagVars, macroVars, threadVars
<1>4. Collects' /\ Offline'
  BY <1>1 DEF WorldInv, TypesInv, Collects, Offline, Quiet, threadVars
<1>5. Knows'
  <2>1. PICK s \in Server : Match(s) /\ Path(s, wire, srv)
    BY <1>1 DEF WorldInv, Knows
  <2>2. Match(s)'
    BY <1>2, <2>1, MatchQuiet
  <2>3. Path(s, wire', srv')
    BY <1>1, <2>1, PathOnward DEF WorldInv, TypesInv
  <2>. QED
    BY <2>2, <2>3 DEF Knows, Path
<1>. QED
  BY <1>2, <1>3, <1>4, <1>5 DEF WorldInv, TypesInv

\* A step of the server one packet tells of.
LEMMA StepOne ==
  ASSUME WorldInv, NEW p, Tells(<<p>>), Quiet, asked' \subseteq Nat,
         srv' \in Server, Standing', Told(srv, p, srv')
  PROVE  WorldInv'
<1>1. <<p>> \in Seq(Range(<<p>>))
  BY DEF Range
<1>2. Path(srv, <<p>>, srv')
  BY PathOne DEF WorldInv, TypesInv
<1>. QED
  BY <1>1, <1>2, StepOn

\* The types of what is true on the server.
LEMMA ServerFacts ==
  ASSUME NEW s \in Server
  PROVE  /\ s \in ServerTypes
         /\ s.at \in World \cup {"EXIT"} /\ s.tiles \in Seq(SrvTile) /\ s.owner \in Uid \cup {0}
         /\ s.access \in SUBSET Uid /\ s.drops \in SUBSET SrvDrop /\ s.last \in Nat
         /\ s.players \in SUBSET NetId /\ s.self \in NetId \cup {0} /\ s.bag \in [Item -> Nat]
         /\ OneLock(s.tiles) /\ Apart(s.drops) /\ IsFiniteSet(s.drops)
         /\ \A d \in s.drops : d.id <= s.last
         /\ \A i \in Item \ {Gem} : s.bag[i] <= Cap
BY DEF Server, ServerTypes

\* Nothing is in no world.
LEMMA OutsideServer ==
  ASSUME NEW s \in Server PROVE Outside(s.bag) \in Server
<1>1. Outside(s.bag) \in ServerTypes
  BY ServerFacts DEF Outside, ServerTypes
<1>2. /\ OneLock(Outside(s.bag).tiles) /\ Apart(Outside(s.bag).drops)
      /\ IsFiniteSet(Outside(s.bag).drops) /\ \A d \in Outside(s.bag).drops : d.id <= Outside(s.bag).last
  BY FS_EmptySet DEF Outside, OneLock, Apart
<1>3. Outside(s.bag).bag = s.bag
  BY DEF Outside
<1>. QED
  BY <1>1, <1>2, <1>3, ServerFacts DEF Server

\* server_exit: the bot leaves its world.
LEMMA ExitStep ==
  ASSUME WorldInv, server_exit PROVE WorldInv'
<1>1. /\ srv' = Outside(srv.bag) /\ Tells(<<[type |-> "exit"]>>) /\ asked' = {} /\ Quiet
  BY DEF server_exit
<1>2. srv \in Server
  BY DEF WorldInv, TypesInv
<1>3. srv' \in Server
  BY <1>1, <1>2, OutsideServer
<1>4. Standing'
  BY <1>1, WorldAssumption DEF Standing, Outside
<1>5. Told(srv, [type |-> "exit"], srv')
  BY <1>1 DEF Told, ToldExit
<1>. QED
  BY <1>1, <1>3, <1>4, <1>5, StepOne

\* server_drop: a new item lies in the world, or one that lay there grows.
LEMMA DropStep ==
  ASSUME WorldInv, NEW i \in Item, NEW p \in Place, NEW a \in Amount, server_drop(i, p, a)
  PROVE  WorldInv'
<1>0. srv \in Server /\ asked \subseteq Nat /\ Standing
  BY DEF WorldInv, TypesInv, BotTypes
<1>a. a \in 1 .. 200 /\ Cap = 200
  BY WorldAssumption DEF Cap
<1>b. srv \in ServerTypes /\ srv.drops \in SUBSET SrvDrop /\ srv.last \in Nat /\ IsFiniteSet(srv.drops)
  BY <1>0, ServerFacts
<1>1. UNCHANGED asked /\ Quiet
  BY DEF server_drop
<1>2. CASE /\ \A d \in srv.drops : d.item # i \/ d.place # p
           /\ srv' = [srv EXCEPT !.last = @ + 1,
                        !.drops = @ \cup {[id |-> srv.last + 1, item |-> i, place |-> p, amount |-> a]}]
           /\ Tells(<<[type |-> "drop", item |-> i, place |-> p, amount |-> a]>>)
  <2>. DEFINE n == [id |-> srv.last + 1, item |-> i, place |-> p, amount |-> a]
              k == [type |-> "drop", item |-> i, place |-> p, amount |-> a]
  <2>1. n \in SrvDrop /\ n.id = srv.last + 1 /\ n.item = i /\ n.place = p
    BY <1>a, <1>b DEF SrvDrop
  <2>2. n = Dropped(srv, k) /\ Told(srv, k, srv')
    <3>1. n = Dropped(srv, k)
      BY DEF Dropped
    <3>2. srv' = [srv EXCEPT !.last = srv.last + 1, !.drops = srv.drops \cup {Dropped(srv, k)}]
      BY <1>2, <3>1
    <3>3. k.type = "drop" /\ k.item = i /\ k.place = p /\ k.amount \in 0 .. Cap
      BY <1>a
    <3>4. ToldDrop(srv, k, srv')
      BY <1>2, <3>2, <3>3 DEF ToldDrop
    <3>. QED
      BY <3>1, <3>4 DEF Told
  <2>. HIDE DEF n
  <2>3. srv' = [srv EXCEPT !.last = srv.last + 1, !.drops = srv.drops \cup {n}]
    BY <1>2 DEF n
  <2>4. srv' \in ServerTypes /\ srv'.last = srv.last + 1 /\ srv'.drops = srv.drops \cup {n}
        /\ srv'.tiles = srv.tiles /\ srv'.bag = srv.bag
        /\ srv'.at = srv.at /\ srv'.self = srv.self /\ srv'.players = srv.players
    <3>1. srv.drops \cup {n} \in SUBSET SrvDrop /\ srv.last + 1 \in Nat
      BY <1>b, <2>1
    <3>. QED
      BY <1>b, <2>3, <3>1 DEF ServerTypes
  <2>5. Apart(srv'.drops)
    <3>1. \A d \in srv.drops : d.id # n.id /\ (d.item # n.item \/ d.place # n.place)
      <4>1. ASSUME NEW d \in srv.drops PROVE d.id # n.id
        <5>1. d.id \in Nat /\ srv.last \in Nat /\ d.id <= srv.last
          BY <1>0, ServerFacts DEF SrvDrop
        <5>. QED
          BY <2>1, <5>1
      <4>. QED
        BY <1>2, <2>1, <4>1
    <3>2. Apart(srv.drops)
      BY <1>0, ServerFacts
    <3>. QED
      BY <2>4, <3>1, <3>2 DEF Apart
  <2>6. IsFiniteSet(srv'.drops)
    BY <1>b, <2>4, FS_AddElement
  <2>7. \A d \in srv'.drops : d.id <= srv'.last
    <3>1. ASSUME NEW d \in srv.drops PROVE d.id <= srv.last + 1
      <4>1. d.id \in Nat /\ srv.last \in Nat /\ d.id <= srv.last
        BY <1>0, ServerFacts DEF SrvDrop
      <4>. QED
        BY <4>1
    <3>2. n.id <= srv.last + 1
      BY <1>0, <2>1, ServerFacts
    <3>. QED
      BY <2>4, <3>1, <3>2
  <2>8. srv' \in Server
    <3>1. OneLock(srv'.tiles) /\ \A j \in Item \ {Gem} : srv'.bag[j] <= Cap
      BY <1>0, <2>4, ServerFacts
    <3>. QED
      BY <2>4, <2>5, <2>6, <2>7, <3>1 DEF Server
  <2>9. Standing'
    <3>1. srv.at \in World
      BY DEF server_drop, InWorld
    <3>. QED
      BY <1>0, <2>4, <3>1 DEF Standing
  <2>. QED
    BY <1>0, <1>1, <1>2, <2>2, <2>8, <2>9, StepOne
<1>3. CASE \E d \in srv.drops :
             /\ d.item = i /\ d.place = p /\ d.amount + a <= Cap
             /\ srv' = [srv EXCEPT !.drops = (@ \ {d}) \cup {[d EXCEPT !.amount = @ + a]}]
             /\ Tells(<<[type |-> "merge", item |-> i, place |-> p, amount |-> d.amount + a]>>)
  <2>. PICK d \in srv.drops :
         /\ d.item = i /\ d.place = p /\ d.amount + a <= Cap
         /\ srv' = [srv EXCEPT !.drops = (@ \ {d}) \cup {[d EXCEPT !.amount = @ + a]}]
         /\ Tells(<<[type |-> "merge", item |-> i, place |-> p, amount |-> d.amount + a]>>)
    BY <1>3
  <2>. DEFINE n == [d EXCEPT !.amount = d.amount + a]
              k == [type |-> "merge", item |-> i, place |-> p, amount |-> d.amount + a]
  <2>0. d \in SrvDrop /\ d.amount + a \in 0 .. Cap
    <3>1. d \in SrvDrop /\ d.amount \in Nat /\ d.amount + a <= Cap
      BY <1>b DEF SrvDrop
    <3>2. ASSUME NEW m \in Nat, m + a <= Cap PROVE m + a \in 0 .. Cap
      BY <1>a, <3>2
    <3>. QED
      BY <3>1, <3>2
  <2>1. n \in SrvDrop /\ n.id = d.id /\ n.item = d.item /\ n.place = d.place
    BY <2>0 DEF SrvDrop
  <2>2. Told(srv, k, srv')
    <3>1. ToldMerge(srv, k, srv')
      BY <2>0 DEF ToldMerge
    <3>. QED
      BY <3>1 DEF Told
  <2>3. srv' = [srv EXCEPT !.drops = (srv.drops \ {d}) \cup {n}]
    OBVIOUS
  <2>. HIDE DEF n
  <2>4. srv' \in ServerTypes /\ srv'.last = srv.last /\ srv'.drops = (srv.drops \ {d}) \cup {n}
        /\ srv'.tiles = srv.tiles /\ srv'.bag = srv.bag
        /\ srv'.at = srv.at /\ srv'.self = srv.self /\ srv'.players = srv.players
    <3>1. (srv.drops \ {d}) \cup {n} \in SUBSET SrvDrop
      BY <1>b, <2>1
    <3>. QED
      BY <1>b, <2>3, <3>1 DEF ServerTypes
  <2>5. Apart(srv'.drops)
    <3>1. Apart(srv.drops)
      BY <1>0, ServerFacts
    <3>2. \A e \in srv.drops \ {d} : e.id # n.id /\ (e.item # n.item \/ e.place # n.place)
      BY <2>1, <3>1 DEF Apart
    <3>. QED
      BY <2>4, <3>1, <3>2 DEF Apart
  <2>6. IsFiniteSet(srv'.drops)
    <3>1. IsFiniteSet(srv.drops \ {d})
      BY <1>b, FS_RemoveElement
    <3>. QED
      BY <2>4, <3>1, FS_AddElement
  <2>7. \A e \in srv'.drops : e.id <= srv'.last
    BY <1>0, <2>1, <2>4, ServerFacts
  <2>8. srv' \in Server
    <3>1. OneLock(srv'.tiles) /\ \A j \in Item \ {Gem} : srv'.bag[j] <= Cap
      BY <1>0, <2>4, ServerFacts
    <3>. QED
      BY <2>4, <2>5, <2>6, <2>7, <3>1 DEF Server
  <2>9. Standing'
    <3>1. srv.at \in World
      BY DEF server_drop, InWorld
    <3>. QED
      BY <1>0, <2>4, <3>1 DEF Standing
  <2>. QED
    BY <1>0, <1>1, <2>2, <2>8, <2>9, StepOne
<1>. QED
  BY <1>2, <1>3 DEF server_drop

\* server_take: a player takes an item, the bot one it has room for.
LEMMA TakeStep ==
  ASSUME WorldInv, NEW d \in srv.drops, NEW n \in NetId, server_take(d, n)
  PROVE  WorldInv'
<1>. DEFINE k == [type |-> "take", by |-> n, id |-> d.id]
            b == [srv.bag EXCEPT ![d.item] = IF n = srv.self THEN srv.bag[d.item] + d.amount
                                                             ELSE srv.bag[d.item]]
<1>0. srv \in Server /\ asked \subseteq Nat /\ Standing /\ d \in SrvDrop
  BY ServerFacts DEF WorldInv, TypesInv, BotTypes
<1>1. /\ n \in srv.players \cup {srv.self} /\ asked' \subseteq Nat /\ Quiet
      /\ n = srv.self => d.item = Gem \/ srv.bag[d.item] + d.amount <= Cap
      /\ srv' = [srv EXCEPT !.drops = srv.drops \ {d}, !.bag = b]
      /\ Tells(<<k>>)
  BY <1>0 DEF server_take
<1>2. b \in [Item -> Nat] /\ \A j \in Item \ {Gem} : b[j] <= Cap
  <2>1. srv.bag \in [Item -> Nat] /\ d.item \in Item /\ d.amount \in Nat
        /\ \A j \in Item \ {Gem} : srv.bag[j] <= Cap
    BY <1>0, ServerFacts DEF SrvDrop
  <2>. QED
    BY <1>1, <2>1
<1>. HIDE DEF b
<1>3. srv' \in ServerTypes /\ srv'.last = srv.last /\ srv'.drops = srv.drops \ {d}
      /\ srv'.tiles = srv.tiles /\ srv'.bag = b
      /\ srv'.at = srv.at /\ srv'.self = srv.self /\ srv'.players = srv.players
  BY <1>0, <1>1, <1>2, ServerFacts DEF ServerTypes
<1>4. srv' \in Server
  <2>1. Apart(srv'.drops) /\ IsFiniteSet(srv'.drops) /\ \A e \in srv'.drops : e.id <= srv'.last
    <3>1. Apart(srv.drops) /\ IsFiniteSet(srv.drops) /\ \A e \in srv.drops : e.id <= srv.last
      BY <1>0, ServerFacts
    <3>2. IsFiniteSet(srv.drops \ {d})
      BY <3>1, FS_RemoveElement
    <3>. QED
      BY <1>3, <3>1, <3>2 DEF Apart
  <2>2. OneLock(srv'.tiles)
    BY <1>0, <1>3, ServerFacts
  <2>. QED
    BY <1>2, <1>3, <2>1, <2>2 DEF Server
<1>5. Standing' /\ srv.self \in NetId /\ srv.at \in World
  <2>1. srv.at \in World /\ srv.self \in NetId
    BY <1>0 DEF Standing
  <2>. QED
    BY <1>0, <1>3, <2>1 DEF Standing
<1>6. Told(srv, k, srv')
  <2>1. ToldTake(srv, k, srv')
    BY <1>1, <1>5 DEF ToldTake, b
  <2>. QED
    BY <2>1 DEF Told
<1>. QED
  BY <1>1, <1>4, <1>5, <1>6, StepOne

\* server_modify: the bot's inventory changes.
LEMMA ModifyStep ==
  ASSUME WorldInv, NEW i \in Item, NEW lost \in Amount \cup {0}, NEW gained \in Amount \cup {0},
         server_modify(i, lost, gained)
  PROVE  WorldInv'
<1>. DEFINE k == [type |-> "modify", item |-> i, lost |-> lost, gained |-> gained]
            b == [srv.bag EXCEPT ![i] = srv.bag[i] - lost + gained]
<1>0. srv \in Server /\ asked \subseteq Nat /\ Standing /\ lost \in Nat /\ gained \in Nat
  <2>1. Amount \subseteq 1 .. 200
    BY WorldAssumption
  <2>2. lost \in Nat /\ gained \in Nat
    BY <2>1
  <2>3. srv \in Server /\ asked \subseteq Nat /\ Standing
    BY DEF WorldInv, TypesInv, BotTypes
  <2>. QED
    BY <2>2, <2>3
<1>1. /\ i # Gem /\ (lost = 0 \/ gained = 0) /\ lost + gained > 0
      /\ srv.bag[i] >= lost /\ srv.bag[i] + gained <= Cap
      /\ srv' = [srv EXCEPT !.bag = b] /\ Tells(<<k>>) /\ asked' = asked /\ Quiet
  BY <1>0 DEF server_modify
<1>2. b \in [Item -> Nat] /\ \A j \in Item \ {Gem} : b[j] <= Cap
  <2>1. srv.bag \in [Item -> Nat] /\ \A j \in Item \ {Gem} : srv.bag[j] <= Cap
    BY <1>0, ServerFacts
  <2>2. srv.bag[i] \in Nat /\ srv.bag[i] - lost + gained \in Nat /\ srv.bag[i] - lost + gained <= Cap
    BY <1>0, <1>1, <2>1 DEF Cap
  <2>. QED
    BY <2>1, <2>2
<1>. HIDE DEF b
<1>3. srv' \in ServerTypes /\ srv'.last = srv.last /\ srv'.drops = srv.drops
      /\ srv'.tiles = srv.tiles /\ srv'.bag = b
      /\ srv'.at = srv.at /\ srv'.self = srv.self /\ srv'.players = srv.players
  BY <1>0, <1>1, <1>2, ServerFacts DEF ServerTypes
<1>4. srv' \in Server
  <2>1. OneLock(srv'.tiles) /\ Apart(srv'.drops) /\ IsFiniteSet(srv'.drops)
        /\ \A e \in srv'.drops : e.id <= srv'.last
    BY <1>0, <1>3, ServerFacts
  <2>. QED
    BY <1>2, <1>3, <2>1 DEF Server
<1>5. Standing'
  BY <1>0, <1>3 DEF Standing
<1>6. Told(srv, k, srv')
  <2>1. ToldModify(srv, k, srv')
    BY <1>0, <1>1 DEF ToldModify, b
  <2>. QED
    BY <2>1 DEF Told, ToldBag
<1>. QED
  BY <1>0, <1>1, <1>4, <1>5, <1>6, StepOne

\* server_bux: the bot's gems change.
LEMMA BuxStep ==
  ASSUME WorldInv, NEW g \in Amount \cup {0}, server_bux(g) PROVE WorldInv'
<1>. DEFINE k == [type |-> "bux", gems |-> g]
            b == [srv.bag EXCEPT ![Gem] = g]
<1>0. srv \in Server /\ asked \subseteq Nat /\ Standing /\ g \in Nat
  <2>1. Amount \subseteq 1 .. 200
    BY WorldAssumption
  <2>2. g \in Nat
    BY <2>1
  <2>3. srv \in Server /\ asked \subseteq Nat /\ Standing
    BY DEF WorldInv, TypesInv, BotTypes
  <2>. QED
    BY <2>2, <2>3
<1>1. srv' = [srv EXCEPT !.bag = b] /\ Tells(<<k>>) /\ asked' = asked /\ Quiet
  BY DEF server_bux
<1>2. b \in [Item -> Nat] /\ \A j \in Item \ {Gem} : b[j] <= Cap
  <2>1. srv.bag \in [Item -> Nat] /\ \A j \in Item \ {Gem} : srv.bag[j] <= Cap
    BY <1>0, ServerFacts
  <2>. QED
    BY <1>0, <2>1
<1>. HIDE DEF b
<1>3. srv' \in ServerTypes /\ srv'.last = srv.last /\ srv'.drops = srv.drops
      /\ srv'.tiles = srv.tiles /\ srv'.bag = b
      /\ srv'.at = srv.at /\ srv'.self = srv.self /\ srv'.players = srv.players
  BY <1>0, <1>1, <1>2, ServerFacts DEF ServerTypes
<1>4. srv' \in Server
  <2>1. OneLock(srv'.tiles) /\ Apart(srv'.drops) /\ IsFiniteSet(srv'.drops)
        /\ \A e \in srv'.drops : e.id <= srv'.last
    BY <1>0, <1>3, ServerFacts
  <2>. QED
    BY <1>2, <1>3, <2>1 DEF Server
<1>5. Standing'
  BY <1>0, <1>3 DEF Standing
<1>6. Told(srv, k, srv')
  BY <1>0, <1>1 DEF Told, ToldBag, b
<1>. QED
  BY <1>0, <1>1, <1>4, <1>5, <1>6, StepOne

\* server_player: somebody else comes or goes.
LEMMA PlayerStep ==
  ASSUME WorldInv, NEW n \in NetId, server_player(n) PROVE WorldInv'
<1>. DEFINE k == [type |-> IF n \in srv.players THEN "remove" ELSE "spawn", id |-> n]
            P == IF n \in srv.players THEN srv.players \ {n} ELSE srv.players \cup {n}
<1>0. srv \in Server /\ asked \subseteq Nat /\ Standing
  BY DEF WorldInv, TypesInv, BotTypes
<1>1. /\ srv.at \in World /\ n # srv.self
      /\ srv' = [srv EXCEPT !.players = P] /\ Tells(<<k>>) /\ asked' = asked /\ Quiet
  BY DEF server_player, InWorld
<1>2. P \in SUBSET NetId /\ srv \in ServerTypes
  BY <1>0, ServerFacts
<1>3. Told(srv, k, srv')
  <2>1. CASE n \in srv.players
    <3>1. P = srv.players \ {n} /\ k.type = "remove" /\ k.id = n
      BY <2>1
    <3>. HIDE DEF P, k
    <3>. QED
      BY <1>1, <3>1 DEF Told, ToldPlayer
  <2>2. CASE n \notin srv.players
    <3>1. P = srv.players \cup {n} /\ k.type = "spawn" /\ k.id = n
      BY <2>2
    <3>. HIDE DEF P, k
    <3>. QED
      BY <1>1, <2>2, <3>1 DEF Told, ToldPlayer
  <2>. QED
    BY <2>1, <2>2
<1>4. srv.self \notin P \/ srv.self \in srv.players
  BY <1>1
<1>. HIDE DEF P, k
<1>5. srv' \in ServerTypes /\ srv'.last = srv.last /\ srv'.drops = srv.drops
      /\ srv'.tiles = srv.tiles /\ srv'.bag = srv.bag
      /\ srv'.at = srv.at /\ srv'.self = srv.self /\ srv'.players = P
  BY <1>1, <1>2 DEF ServerTypes
<1>6. srv' \in Server
  <2>1. OneLock(srv'.tiles) /\ Apart(srv'.drops) /\ IsFiniteSet(srv'.drops)
        /\ (\A e \in srv'.drops : e.id <= srv'.last)
        /\ \A j \in Item \ {Gem} : srv'.bag[j] <= Cap
    BY <1>0, <1>5, ServerFacts
  <2>. QED
    BY <1>5, <2>1 DEF Server
<1>7. Standing'
  BY <1>0, <1>1, <1>4, <1>5 DEF Standing
<1>. QED
  BY <1>0, <1>1, <1>3, <1>6, <1>7, StepOne

\* A step of the server that changes its tiles, and who owns and has access to them.
LEMMA TilesStep ==
  ASSUME WorldInv, NEW p, NEW ts \in Seq(SrvTile), NEW owner \in Uid \cup {0}, NEW access \in SUBSET Uid,
         OneLock(ts), srv' = [srv EXCEPT !.tiles = ts, !.owner = owner, !.access = access],
         Told(srv, p, srv'), Tells(<<p>>), asked' = asked, Quiet, InWorld
  PROVE  WorldInv'
<1>0. srv \in Server /\ asked \subseteq Nat /\ Standing
  BY DEF WorldInv, TypesInv, BotTypes
<1>1. srv \in ServerTypes
  BY <1>0, ServerFacts
<1>2. srv' \in ServerTypes /\ srv'.last = srv.last /\ srv'.drops = srv.drops
      /\ srv'.tiles = ts /\ srv'.bag = srv.bag
      /\ srv'.at = srv.at /\ srv'.self = srv.self /\ srv'.players = srv.players
  BY <1>1 DEF ServerTypes
<1>3. srv' \in Server
  <2>1. Apart(srv'.drops) /\ IsFiniteSet(srv'.drops)
        /\ (\A e \in srv'.drops : e.id <= srv'.last)
        /\ \A j \in Item \ {Gem} : srv'.bag[j] <= Cap
    BY <1>0, <1>2, ServerFacts
  <2>. QED
    BY <1>2, <2>1 DEF Server
<1>4. Standing'
  BY <1>0, <1>2 DEF Standing, InWorld
<1>. QED
  BY <1>0, <1>3, <1>4, StepOne

\* One tile changes and none becomes a lock.
LEMMA TileStep ==
  ASSUME WorldInv, NEW p, NEW x \in DOMAIN srv.tiles, NEW t \in SrvTile,
         t.fg = "lock" => srv.tiles[x].fg = "lock",
         srv' = [srv EXCEPT !.tiles = [srv.tiles EXCEPT ![x] = t]],
         Told(srv, p, srv'), Tells(<<p>>), asked' = asked, Quiet, InWorld
  PROVE  WorldInv'
<1>. DEFINE ts == [srv.tiles EXCEPT ![x] = t]
<1>0. srv \in Server
  BY DEF WorldInv, TypesInv
<1>1. /\ srv \in ServerTypes /\ srv.tiles \in Seq(SrvTile) /\ srv.owner \in Uid \cup {0}
      /\ srv.access \in SUBSET Uid /\ OneLock(srv.tiles)
  BY <1>0, ServerFacts
<1>2. ts \in Seq(SrvTile) /\ OneLock(ts)
  <2>1. ts \in Seq(SrvTile)
    BY <1>1
  <2>2. DOMAIN ts = DOMAIN srv.tiles /\ \A y \in DOMAIN ts : ts[y].fg = "lock" => srv.tiles[y].fg = "lock"
    OBVIOUS
  <2>. QED
    BY <1>1, <2>1, <2>2 DEF OneLock
<1>. HIDE DEF ts
<1>3. srv' = [srv EXCEPT !.tiles = ts, !.owner = srv.owner, !.access = srv.access]
  BY <1>1 DEF ServerTypes, ts
<1>. QED
  BY <1>1, <1>2, <1>3, TilesStep

\* server_tile: somebody punches or builds, or harvests a tree.
LEMMA ServerTileStep ==
  ASSUME WorldInv, NEW x \in DOMAIN srv.tiles, NEW t \in {"fist", "wall", "block", "harvest"},
         server_tile(x, t)
  PROVE  WorldInv'
<1>. DEFINE old == srv.tiles[x]
<1>0. old \in SrvTile /\ old.fg \in {"none", "block", "lock"} /\ old.bg \in {"none", "wall"}
  <2>1. srv \in Server
    BY DEF WorldInv, TypesInv
  <2>2. srv.tiles \in Seq(SrvTile)
    BY <2>1, ServerFacts
  <2>3. old \in SrvTile
    BY <2>2, ElementOfSeq
  <2>. QED
    BY <2>3 DEF SrvTile
<1>1. InWorld /\ asked' = asked /\ Quiet
  BY DEF server_tile
<1>2. ASSUME NEW item, NEW u, u \in SrvTile, u.fg = "lock" => old.fg = "lock",
             item \in {"fist", "wall", "block"}, u = Changed(old, item),
             srv' = [srv EXCEPT !.tiles = [srv.tiles EXCEPT ![x] = u]],
             Tells(<<[type |-> "change", x |-> x, item |-> item]>>)
      PROVE  WorldInv'
  <2>. DEFINE p == [type |-> "change", x |-> x, item |-> item]
  <2>1. ToldTile(srv, p, srv')
    BY <1>2 DEF ToldTile
  <2>2. Told(srv, p, srv')
    BY <2>1 DEF Told
  <2>. HIDE DEF p
  <2>. QED
    BY <1>1, <1>2, <2>2, TileStep DEF p
<1>3. CASE t = "fist" /\ old.fg # "none" /\ srv' = [srv EXCEPT !.tiles[x].fg = "none"]
           /\ Tells(<<[type |-> "change", x |-> x, item |-> t]>>)
  <2>. DEFINE u == [old EXCEPT !.fg = "none"]
  <2>1. u \in SrvTile /\ u.fg = "none" /\ u = Changed(old, "fist")
    BY <1>0, <1>3 DEF SrvTile, Changed
  <2>2. srv' = [srv EXCEPT !.tiles = [srv.tiles EXCEPT ![x] = u]]
    BY <1>3
  <2>. QED
    BY <1>2, <1>3, <2>1, <2>2
<1>4. CASE t = "fist" /\ old.fg = "none" /\ srv' = [srv EXCEPT !.tiles[x].bg = "none"]
           /\ Tells(<<[type |-> "change", x |-> x, item |-> t]>>)
  <2>. DEFINE u == [old EXCEPT !.bg = "none"]
  <2>1. u \in SrvTile /\ u.fg = "none" /\ u = Changed(old, "fist")
    BY <1>0, <1>4 DEF SrvTile, Changed
  <2>2. srv' = [srv EXCEPT !.tiles = [srv.tiles EXCEPT ![x] = u]]
    BY <1>4
  <2>. QED
    BY <1>2, <1>4, <2>1, <2>2
<1>5. CASE t = "wall" /\ srv' = [srv EXCEPT !.tiles[x].bg = "wall"]
           /\ Tells(<<[type |-> "change", x |-> x, item |-> t]>>)
  <2>. DEFINE u == [old EXCEPT !.bg = "wall"]
  <2>1. u \in SrvTile /\ u.fg = old.fg /\ u = Changed(old, "wall")
    BY <1>0, <1>5 DEF SrvTile, Changed
  <2>2. srv' = [srv EXCEPT !.tiles = [srv.tiles EXCEPT ![x] = u]]
    BY <1>5
  <2>. QED
    BY <1>2, <1>5, <2>1, <2>2
<1>6. CASE t = "block" /\ old.fg = "none" /\ srv' = [srv EXCEPT !.tiles[x].fg = "block"]
           /\ Tells(<<[type |-> "change", x |-> x, item |-> t]>>)
  <2>. DEFINE u == [old EXCEPT !.fg = "block"]
  <2>1. u \in SrvTile /\ u.fg = "block" /\ u = Changed(old, "block")
    BY <1>0, <1>6 DEF SrvTile, Changed
  <2>2. srv' = [srv EXCEPT !.tiles = [srv.tiles EXCEPT ![x] = u]]
    BY <1>6
  <2>. QED
    BY <1>2, <1>6, <2>1, <2>2
<1>7. CASE /\ t = "harvest" /\ old.fg = "block" /\ srv' = [srv EXCEPT !.tiles[x].fg = "none"]
           /\ Tells(<<[type |-> "tree", x |-> x]>>)
  <2>. DEFINE u == [old EXCEPT !.fg = "none"]
              p == [type |-> "tree", x |-> x]
  <2>1. u \in SrvTile /\ u.fg = "none"
    BY <1>0 DEF SrvTile
  <2>2. srv' = [srv EXCEPT !.tiles = [srv.tiles EXCEPT ![x] = u]]
    BY <1>7
  <2>3. ToldTile(srv, p, srv')
    BY <2>2 DEF ToldTile
  <2>4. Told(srv, p, srv')
    BY <2>3 DEF Told
  <2>. HIDE DEF u, p
  <2>. QED
    BY <1>1, <1>7, <2>1, <2>2, <2>4, TileStep DEF p
<1>. QED
  BY <1>3, <1>4, <1>5, <1>6, <1>7 DEF server_tile

\* server_lock: a lock is set, or its access list is changed.
LEMMA LockStep ==
  ASSUME WorldInv, NEW x \in DOMAIN srv.tiles, NEW owner \in Uid, NEW access \in SUBSET Uid,
         server_lock(x, owner, access)
  PROVE  WorldInv'
<1>. DEFINE old == srv.tiles[x]
            u == [fg |-> "lock", bg |-> old.bg]
            ts == [srv.tiles EXCEPT ![x] = u]
            p == [type |-> "update", x |-> x, tile |-> u, owner |-> owner, access |-> access]
<1>0. /\ srv \in ServerTypes /\ srv.tiles \in Seq(SrvTile) /\ OneLock(srv.tiles)
      /\ old \in SrvTile /\ old.fg \in {"none", "block", "lock"} /\ old.bg \in {"none", "wall"}
  <2>1. srv \in Server
    BY DEF WorldInv, TypesInv
  <2>2. srv \in ServerTypes /\ srv.tiles \in Seq(SrvTile) /\ OneLock(srv.tiles)
    BY <2>1, ServerFacts
  <2>3. old \in SrvTile
    BY <2>2, ElementOfSeq
  <2>4. old.fg \in {"none", "block", "lock"} /\ old.bg \in {"none", "wall"}
    BY <2>3 DEF SrvTile
  <2>. QED
    BY <2>2, <2>3, <2>4
<1>1. /\ InWorld /\ asked' = asked /\ Quiet /\ Tells(<<p>>)
      /\ old.fg = "lock" \/ ~HasLock
  BY DEF server_lock
<1>2. u \in SrvTile /\ old = [fg |-> old.fg, bg |-> old.bg]
  BY <1>0 DEF SrvTile
<1>3. ts = [srv.tiles EXCEPT ![x].fg = "lock"]
  BY <1>0, <1>2
<1>4. srv' = [srv EXCEPT !.tiles = ts, !.owner = owner, !.access = access]
  BY <1>3 DEF server_lock
<1>5. ts \in Seq(SrvTile) /\ OneLock(ts)
  <2>1. ts \in Seq(SrvTile) /\ DOMAIN ts = DOMAIN srv.tiles
        /\ ts[x] = u /\ \A y \in DOMAIN ts : y # x => ts[y] = srv.tiles[y]
    BY <1>0, <1>2
  <2>2. \A y \in DOMAIN srv.tiles : srv.tiles[y].fg = "lock" => y = x
    BY <1>0, <1>1 DEF OneLock, HasLock, Range
  <2>. HIDE DEF ts
  <2>. QED
    BY <2>1, <2>2 DEF OneLock
<1>6. ToldTile(srv, p, srv')
  BY <1>4 DEF ToldTile
<1>7. Told(srv, p, srv')
  BY <1>6 DEF Told
<1>. HIDE DEF p, ts
<1>. QED
  BY <1>1, <1>4, <1>5, <1>7, TilesStep

\* server_area: all tiles get a background.
LEMMA AreaStep ==
  ASSUME WorldInv, server_area PROVE WorldInv'
<1>. DEFINE built == [x \in DOMAIN srv.tiles |-> [srv.tiles[x] EXCEPT !.bg = "wall"]]
            p == [type |-> "updates", tiles |-> built, owner |-> srv.owner, access |-> srv.access]
<1>0. /\ srv \in ServerTypes /\ srv.tiles \in Seq(SrvTile) /\ OneLock(srv.tiles)
      /\ srv.owner \in Uid \cup {0} /\ srv.access \in SUBSET Uid
  BY ServerFacts DEF WorldInv, TypesInv
<1>1. /\ InWorld /\ srv' = [srv EXCEPT !.tiles = built]
      /\ Tells(<<p>>) /\ asked' = asked /\ Quiet
  BY DEF server_area
<1>2. /\ Len(srv.tiles) \in Nat /\ DOMAIN srv.tiles = 1 .. Len(srv.tiles)
      /\ \A x \in DOMAIN srv.tiles : srv.tiles[x] \in SrvTile
  BY <1>0, ElementOfSeq
<1>3. \A x \in DOMAIN srv.tiles : built[x] \in SrvTile /\ built[x].fg = srv.tiles[x].fg
  BY <1>2 DEF SrvTile
<1>4. DOMAIN built = DOMAIN srv.tiles
  OBVIOUS
<1>5. built \in [1 .. Len(srv.tiles) -> SrvTile]
  BY <1>2, <1>3
<1>. HIDE DEF built
<1>6. built \in Seq(SrvTile) /\ OneLock(built)
  BY <1>0, <1>2, <1>3, <1>4, <1>5, SeqDef DEF OneLock
<1>7. Told(srv, p, srv')
  <2>1. ToldTiles(srv, p, srv')
    BY <1>1, <1>3, <1>4, <1>6 DEF ToldTiles
  <2>. QED
    BY <2>1 DEF Told
<1>. HIDE DEF p
<1>8. srv' = [srv EXCEPT !.tiles = built, !.owner = srv.owner, !.access = srv.access]
  BY <1>0, <1>1 DEF ServerTypes
<1>. QED
  BY <1>0, <1>1, <1>6, <1>7, <1>8, TilesStep

\* The players that are there are told one by one.
LEMMA SpawnPath ==
  ASSUME NEW s \in Server, s.players = {}, NEW others \in SUBSET NetId
  PROVE  Path(s, SetToSeq({[type |-> "spawn", id |-> n] : n \in others}),
              [s EXCEPT !.players = others])
<1>. DEFINE packetOf(n) == [type |-> "spawn", id |-> n]
            S == {packetOf(n) : n \in others}
            q == SetToSeq(S)
            m == Len(q)
            known(k) == {q[j].id : j \in 1 .. k - 1}
            state(k) == [s EXCEPT !.players = known(k)]
            h == [k \in 1 .. m + 1 |-> state(k)]
<1>1. IsFiniteSet(S)
  <2>1. IsFiniteSet(others)
    BY WorldAssumption, FS_Subset
  <2>. DEFINE f == [n \in others |-> packetOf(n)]
  <2>2. f \in Surjection(others, S)
    BY DEF Surjection
  <2>. QED
    BY <2>1, <2>2, FS_Surjection
<1>2. q \in Seq(S) /\ IsInjective(q) /\ Range(q) = S /\ m \in Nat /\ DOMAIN q = 1 .. m
  <2>. HIDE DEF S
  <2>1. q \in Seq(S) /\ IsInjective(q) /\ Range(q) = S
    BY <1>1, ListOf
  <2>. QED
    BY <2>1, LenProperties
<1>3. \A k \in 1 .. m : q[k] \in S
  BY <1>2, ElementOfSeq
<1>4. \A k \in 1 .. m : q[k].type = "spawn" /\ q[k].id \in others /\ q[k] = packetOf(q[k].id)
  <2>1. ASSUME NEW e \in S PROVE e.type = "spawn" /\ e.id \in others /\ e = packetOf(e.id)
    OBVIOUS
  <2>. HIDE DEF S, packetOf
  <2>. QED
    BY <1>3, <2>1
<1>. HIDE DEF q
<1>5. \A j, k \in 1 .. m : q[j].id = q[k].id => j = k
  BY <1>2, <1>4 DEF IsInjective
<1>. HIDE DEF m
<1>6. \A k \in 1 .. m + 1 : known(k) \in SUBSET NetId
  <2>1. \A k \in 1 .. m + 1 : \A j \in 1 .. k - 1 : j \in 1 .. m
    BY <1>2
  <2>2. \A k \in 1 .. m + 1 : \A j \in 1 .. k - 1 : q[j].id \in NetId
    BY <1>4, <2>1
  <2>. QED
    BY <2>2
<1>7. known(1) = {} /\ known(m + 1) = others
  <2>1. known(1) = {}
    OBVIOUS
  <2>2. ASSUME NEW n \in others PROVE \E j \in 1 .. m : q[j].id = n
    <3>1. packetOf(n) \in Range(q)
      BY <1>2
    <3>2. PICK j \in 1 .. m : q[j] = packetOf(n)
      BY <1>2, <3>1 DEF Range
    <3>. QED
      BY <3>2
  <2>3. known(m + 1) = {q[j].id : j \in 1 .. m}
    BY <1>2
  <2>4. {q[j].id : j \in 1 .. m} \subseteq others
    BY <1>4
  <2>5. others \subseteq {q[j].id : j \in 1 .. m}
    BY <2>2
  <2>. HIDE DEF known
  <2>. QED
    BY <2>1, <2>3, <2>4, <2>5
<1>8. ASSUME NEW k \in 1 .. m
      PROVE  q[k].id \in NetId \ known(k) /\ known(k + 1) = known(k) \cup {q[k].id}
  <2>1. \A j \in 1 .. k - 1 : j \in 1 .. m /\ j # k
    BY <1>2
  <2>2. q[k].id \notin known(k)
    BY <1>5, <2>1
  <2>3. 1 .. (k + 1) - 1 = (1 .. k - 1) \cup {k}
    BY <1>2
  <2>4. known(k + 1) = known(k) \cup {q[k].id}
    BY <2>3
  <2>. QED
    BY <1>4, <2>2, <2>4
<1>. HIDE DEF known
<1>9. ASSUME NEW k \in 1 .. m + 1
      PROVE state(k) \in Server /\ state(k).players = known(k)
  <2>. DEFINE u == state(k)
  <2>1. s \in ServerTypes
    BY ServerFacts
  <2>2. /\ u \in ServerTypes /\ u.players = known(k)
        /\ u.tiles = s.tiles /\ u.drops = s.drops /\ u.last = s.last /\ u.bag = s.bag
    BY <1>6, <2>1 DEF ServerTypes
  <2>. HIDE DEF u
  <2>3. /\ OneLock(u.tiles) /\ Apart(u.drops) /\ IsFiniteSet(u.drops)
        /\ (\A d \in u.drops : d.id <= u.last) /\ \A i \in Item \ {Gem} : u.bag[i] <= Cap
    BY <2>2, ServerFacts
  <2>. QED
    BY <2>2, <2>3 DEF Server, u
<1>10. ASSUME NEW k \in 1 .. m PROVE Told(state(k), q[k], state(k + 1))
  <2>1. k \in 1 .. m + 1 /\ k + 1 \in 1 .. m + 1
    BY <1>2
  <2>2. state(k + 1) = [s EXCEPT !.players = known(k) \cup {q[k].id}]
    BY <1>8
  <2>3. state(k + 1) = [state(k) EXCEPT !.players = known(k) \cup {q[k].id}]
    <3>1. s \in ServerTypes
      BY ServerFacts
    <3>. QED
      BY <2>2, <3>1 DEF ServerTypes
  <2>4. state(k).players = known(k)
    BY <1>9, <2>1
  <2>. HIDE DEF state
  <2>. QED
    BY <1>4, <1>8, <2>3, <2>4 DEF Told, ToldPlayer
<1>11. state(1) = s
  <2>1. s \in ServerTypes /\ known(1) = s.players
    BY <1>7, ServerFacts
  <2>. QED
    BY <2>1 DEF ServerTypes
<1>12. state(m + 1) = [s EXCEPT !.players = others]
  BY <1>7
<1>. HIDE DEF state
<1>13. h \in Seq(Server) /\ Len(h) = m + 1 /\ \A k \in 1 .. m + 1 : h[k] = state(k)
  <2>1. h \in [1 .. m + 1 -> Server] /\ m + 1 \in Nat
    BY <1>2, <1>9
  <2>. QED
    BY <2>1, SeqDef
<1>14. Leads(h, q)
  <2>1. ASSUME NEW k \in 1 .. m PROVE Told(h[k], q[k], h[k + 1])
    <3>1. k \in 1 .. m + 1 /\ k + 1 \in 1 .. m + 1
      BY <1>2
    <3>. QED
      BY <1>10, <1>13, <3>1
  <2>. HIDE DEF h
  <2>. QED
    BY <1>13, <2>1 DEF Leads, m
<1>. HIDE DEF h
<1>15. h[1] = s /\ h[Len(q) + 1] = [s EXCEPT !.players = others]
  <2>1. 1 \in 1 .. m + 1 /\ m + 1 \in 1 .. m + 1
    BY <1>2
  <2>2. h[1] = state(1) /\ h[m + 1] = state(m + 1)
    BY <1>13, <2>1
  <2>. QED
    BY <1>11, <1>12, <2>2 DEF m
<1>16. Path(s, q, [s EXCEPT !.players = others])
  BY <1>13, <1>14, <1>15 DEF Path
<1>. QED
  BY <1>16 DEF q

\* A record of the server, from its parts.
LEMMA MakeServer ==
  ASSUME NEW at \in World \cup {"EXIT"}, NEW ts \in Seq(SrvTile), NEW owner \in Uid \cup {0},
         NEW access \in SUBSET Uid, NEW drops \in SUBSET SrvDrop, NEW m \in Nat,
         NEW ps \in SUBSET NetId, NEW self \in NetId \cup {0}, NEW held \in [Item -> Nat],
         OneLock(ts), Apart(drops), IsFiniteSet(drops), \A d \in drops : d.id <= m,
         \A i \in Item \ {Gem} : held[i] <= Cap,
         NEW s, s = [at |-> at, tiles |-> ts, owner |-> owner, access |-> access, drops |-> drops,
                     last |-> m, players |-> ps, self |-> self, bag |-> held]
  PROVE  s \in Server
<1>1. s \in ServerTypes
  BY DEF ServerTypes
<1>2. s.tiles = ts /\ s.drops = drops /\ s.last = m /\ s.bag = held
  OBVIOUS
<1>. QED
  BY <1>1, <1>2 DEF Server

\* server_enter: the bot comes into a world.
LEMMA EnterStep ==
  ASSUME WorldInv, NEW w \in World, NEW owner \in Uid, NEW others \in SUBSET NetId,
         NEW drops \in SUBSET SrvDrop, IsFiniteSet(drops), Apart(drops), \A d \in drops : d.id <= 1,
         server_enter(w, owner, drops, others)
  PROVE  WorldInv'
<1>. DEFINE self == CHOOSE n \in NetId : n \notin others
            bare == [fg |-> "none", bg |-> "none"]
            ts == IF w \in Locked THEN <<[bare EXCEPT !.fg = "lock"], bare>> ELSE <<bare>>
            uid == IF w \in Locked THEN owner ELSE 0
            access == IF w \in Locked THEN Uid ELSE {}
            S(ps, n) == [at |-> w, tiles |-> ts, owner |-> uid, access |-> access, drops |-> drops,
                         last |-> 1, players |-> ps, self |-> n, bag |-> srv.bag]
            m == S({}, 0)
            a == S({}, self)
            loc == [type |-> "local", id |-> self]
            q == SetToSeq({[type |-> "spawn", id |-> n] : n \in others})
<1>0. srv \in Server
  BY DEF WorldInv, TypesInv
<1>1. self \in NetId \ others
  BY DEF server_enter
<1>2. srv' = S(others, self) /\ asked' = {} /\ Quiet
  BY DEF server_enter
<1>3. Tells(<<Map(srv'), loc>> \o q)
  BY DEF server_enter
<1>4. ts \in Seq(SrvTile) /\ OneLock(ts)
  <2>1. bare \in SrvTile /\ [bare EXCEPT !.fg = "lock"] \in SrvTile
        /\ bare.fg = "none"
    BY DEF SrvTile
  <2>2. CASE w \in Locked
    <3>1. ts = <<[bare EXCEPT !.fg = "lock"], bare>>
      BY <2>2
    <3>. HIDE DEF ts
    <3>2. ts \in Seq(SrvTile) /\ DOMAIN ts = {1, 2} /\ ts[2].fg = "none"
      BY <2>1, <3>1
    <3>. QED
      BY <3>2 DEF OneLock
  <2>3. CASE w \notin Locked
    <3>1. ts = <<bare>>
      BY <2>3
    <3>. HIDE DEF ts
    <3>2. ts \in Seq(SrvTile) /\ DOMAIN ts = {1}
      BY <2>1, <3>1
    <3>. QED
      BY <3>2 DEF OneLock
  <2>. QED
    BY <2>2, <2>3
<1>5. uid \in Uid \cup {0} /\ access \in SUBSET Uid
  OBVIOUS
<1>. HIDE DEF self, ts, uid, access
<1>6. ASSUME NEW ps \in SUBSET NetId, NEW n \in NetId \cup {0} PROVE S(ps, n) \in Server
  <2>1. srv.bag \in [Item -> Nat] /\ \A i \in Item \ {Gem} : srv.bag[i] <= Cap
    BY <1>0, ServerFacts
  <2>. QED
    BY <1>4, <1>5, <2>1, MakeServer
<1>7. m \in Server /\ a \in Server /\ srv' \in Server
  BY <1>1, <1>2, <1>6
<1>8. Map(srv') = Map(m) /\ a = [m EXCEPT !.self = self] /\ srv' = [a EXCEPT !.players = others]
      /\ a.players = {}
  BY <1>2 DEF Map
<1>9. ToldMap(srv, Map(m), m)
  <2>1. m.at \in World /\ m.players = {} /\ m.self = 0 /\ m.bag = srv.bag
    OBVIOUS
  <2>2. Map(m).type = "map"
    BY DEF Map
  <2>. HIDE DEF m
  <2>. QED
    BY <2>1, <2>2 DEF ToldMap
<1>10. Standing'
  BY <1>1, <1>2 DEF Standing
<1>. HIDE DEF m, a
<1>11. Path(srv, <<Map(m)>>, m)
  BY <1>0, <1>7, <1>9, PathOne DEF Told
<1>12. Path(m, <<loc>>, a)
  <2>1. loc.type = "local" /\ loc.id = self
    OBVIOUS
  <2>. HIDE DEF loc
  <2>2. Told(m, loc, a)
    BY <1>1, <1>8, <2>1 DEF Told, ToldPlayer
  <2>. QED
    BY <1>7, <2>2, PathOne
<1>13. Path(a, q, srv')
  BY <1>7, <1>8, SpawnPath
<1>14. q \in Seq(Range(q))
  <2>. DEFINE T == {[type |-> "spawn", id |-> n] : n \in others}
  <2>1. IsFiniteSet(T)
    <3>1. IsFiniteSet(others)
      BY WorldAssumption, FS_Subset
    <3>. DEFINE f == [n \in others |-> [type |-> "spawn", id |-> n]]
    <3>2. f \in Surjection(others, T)
      BY DEF Surjection
    <3>. QED
      BY <3>1, <3>2, FS_Surjection
  <2>. HIDE DEF T
  <2>2. q \in Seq(T)
    BY <2>1, ListOf DEF T
  <2>. QED
    BY <2>2, OwnRange
<1>. HIDE DEF q, loc
<1>15. <<Map(m)>> \in Seq(Range(<<Map(m)>>)) /\ <<loc>> \in Seq(Range(<<loc>>))
  BY DEF Range
<1>16. /\ <<Map(m)>> \o <<loc>> = <<Map(m), loc>>
       /\ <<Map(m), loc>> \in Seq(Range(<<Map(m), loc>>))
  <2>1. <<Map(m)>> \o <<loc>> = <<Map(m), loc>>
    <3>1. ASSUME NEW x, NEW y PROVE <<x>> \o <<y>> = <<x, y>>
      <4>1. <<x>> \in Seq({x, y}) /\ <<y>> \in Seq({x, y}) /\ <<x, y>> \in Seq({x, y})
        OBVIOUS
      <4>2. /\ <<x>> \o <<y>> \in Seq({x, y}) /\ Len(<<x>> \o <<y>>) = 1 + 1
            /\ \A k \in 1 .. 1 + 1 : (<<x>> \o <<y>>)[k] = IF k <= 1 THEN <<x>>[k] ELSE <<y>>[k - 1]
        <5>1. Len(<<x>>) = 1 /\ Len(<<y>>) = 1
          OBVIOUS
        <5>. QED
          BY <4>1, <5>1, ConcatProperties
      <4>3. \A k \in 1 .. 2 : (<<x>> \o <<y>>)[k] = <<x, y>>[k]
        <5>1. 1 \in 1 .. 1 + 1 /\ 2 \in 1 .. 1 + 1 /\ 2 - 1 = 1 /\ 1 + 1 = 2
          OBVIOUS
        <5>2. (<<x>> \o <<y>>)[1] = x /\ (<<x>> \o <<y>>)[2] = y
          BY <4>2, <5>1
        <5>. QED
          BY <5>2
      <4>4. Len(<<x, y>>) = 2 /\ Len(<<x>> \o <<y>>) = 2
        BY <4>2
      <4>. DEFINE u == <<x>> \o <<y>>
                  v == <<x, y>>
      <4>5. u \in Seq({x, y}) /\ v \in Seq({x, y}) /\ Len(u) = Len(v) /\ \A k \in 1 .. Len(u) : u[k] = v[k]
        BY <4>1, <4>2, <4>3, <4>4
      <4>. HIDE DEF u, v
      <4>6. u = v
        BY <4>5, SeqEqual
      <4>. QED
        BY <4>6 DEF u, v
    <3>. QED
      BY <3>1
  <2>2. <<Map(m)>> \o <<loc>> \in Seq(Range(<<Map(m)>> \o <<loc>>))
    BY <1>15, Sent
  <2>. QED
    BY <2>1, <2>2
<1>17. Path(srv, <<Map(m), loc>>, a)
  BY <1>7, <1>11, <1>12, <1>15, <1>16, PathOnward
<1>18. Path(srv, <<Map(m), loc>> \o q, srv')
  BY <1>7, <1>13, <1>14, <1>16, <1>17, PathOnward
<1>19. <<Map(m), loc>> \o q \in Seq(Range(<<Map(m), loc>> \o q))
  BY <1>14, <1>16, Sent
<1>. QED
  BY <1>2, <1>3, <1>7, <1>8, <1>10, <1>18, <1>19, StepOn

\* link_lost: the bot leaves its world, and what was on the way is lost.
LEMMA LostStep ==
  ASSUME WorldInv, link_lost PROVE WorldInv'
<1>0. srv \in Server /\ Standing /\ BotTypes /\ Collects
  BY DEF WorldInv, TypesInv
<1>1. /\ online' = FALSE /\ wire' = <<>> /\ asked' = {} /\ events < MaxEvents /\ events' = events + 1
      /\ srv' = Outside(srv.bag)
      /\ UNCHANGED <<worldVars, me, bagVars, macroVars, threadVars>>
  BY DEF link_lost
<1>2. events' \in 0 .. MaxEvents
  <2>1. events \in 0 .. MaxEvents /\ MaxEvents \in Nat
    BY <1>0, WorldAssumption DEF BotTypes
  <2>. QED
    BY <1>1, <2>1
<1>3. BotTypes'
  BY <1>0, <1>1, <1>2 DEF BotTypes, worldVars, bagVars, macroVars, threadVars
<1>4. srv' \in Server
  BY <1>0, <1>1, OutsideServer
<1>5. Standing' /\ Offline'
  BY <1>1, WorldAssumption DEF Standing, Offline, Outside
<1>6. Collects'
  BY <1>0, <1>1 DEF Collects, threadVars
<1>7. wire' \in Seq(Range(wire'))
  BY <1>1
<1>. QED
  BY <1>1, <1>3, <1>4, <1>5, <1>6, <1>7 DEF WorldInv, TypesInv, Knows

\* relog: the bot is told the inventory and the gems anew, so whatever it held
\* before does not matter.
LEMMA RelogStep ==
  ASSUME WorldInv, relog PROVE WorldInv'
<1>. DEFINE inv == [type |-> "inventory", bag |-> srv.bag]
            bux == [type |-> "bux", gems |-> srv.bag[Gem]]
            ex  == [type |-> "exit"]
            w   == <<inv, bux, ex>>
            h   == <<srv, srv, srv, srv>>
<1>0. srv \in Server /\ srv = Outside(srv.bag) /\ Standing /\ BotTypes /\ Collects
  BY DEF WorldInv, TypesInv, Offline, relog
<1>1. srv.bag \in [Item -> Nat] /\ srv.bag[Gem] \in Nat /\ srv \in ServerTypes
  <2>1. srv.bag \in [Item -> Nat] /\ srv \in ServerTypes
    BY <1>0, ServerFacts
  <2>2. Gem \in Item
    BY WorldAssumption
  <2>. QED
    BY <2>1, <2>2
<1>2. /\ online' = TRUE /\ wire' = w /\ called' = called \ {"collect", "reset"}
      /\ UNCHANGED <<srv, asked, events, worldVars, me, bagVars, macroVars, pc, cur, fault>>
  BY DEF relog
<1>3. BotTypes'
  BY <1>0, <1>2 DEF BotTypes, worldVars, bagVars, macroVars
<1>4. Collects' /\ Offline' /\ Standing' /\ srv' \in Server
  BY <1>0, <1>2 DEF Collects, Offline, Standing
<1>5. Told(srv, inv, srv)
  BY DEF Told, ToldBag
<1>6. Told(srv, bux, srv)
  <2>1. [srv.bag EXCEPT ![Gem] = srv.bag[Gem]] = srv.bag
    BY <1>1
  <2>2. srv = [srv EXCEPT !.bag = srv.bag]
    BY <1>1 DEF ServerTypes
  <2>. QED
    BY <1>1, <2>1, <2>2 DEF Told, ToldBag
<1>7. Told(srv, ex, srv)
  BY <1>0 DEF Told, ToldExit
<1>8. w \in Seq(Range(w)) /\ Len(w) = 3 /\ w[1] = inv /\ w[2] = bux /\ w[3] = ex
      /\ DOMAIN w = 1 .. 3
  BY DEF Range
<1>9. h \in Seq(Server) /\ Len(h) = 4 /\ h[1] = srv /\ h[2] = srv /\ h[3] = srv /\ h[4] = srv
  BY <1>0
<1>10. inv.type = "inventory" /\ bux.type = "bux"
  OBVIOUS
<1>. HIDE DEF inv, bux, ex, w, h
<1>11. Leads(h, w)
  <2>1. ASSUME NEW k \in 1 .. 3 PROVE Told(h[k], w[k], h[k + 1])
    <3>1. k = 1 \/ k = 2 \/ k = 3
      OBVIOUS
    <3>. QED
      BY <1>5, <1>6, <1>7, <1>8, <1>9, <3>1
  <2>. QED
    BY <1>8, <1>9, <2>1 DEF Leads
<1>12. Path(srv, w, srv)
  BY <1>8, <1>9, <1>11 DEF Path
<1>13. Match(srv)'
  <2>1. srv.at \notin World
    <3>1. srv.at = "EXIT"
      BY <1>0 DEF Outside
    <3>. QED
      BY <3>1, WorldAssumption
  <2>2. Coming("inventory")' /\ Coming("bux")'
    BY <1>2, <1>8, <1>10 DEF Coming
  <2>3. BagMatch(srv)'
    BY <2>2 DEF BagMatch
  <2>. QED
    BY <1>2, <2>1, <2>3 DEF Match
<1>14. Knows'
  BY <1>0, <1>2, <1>12, <1>13 DEF Knows, Path
<1>. QED
  BY <1>2, <1>3, <1>4, <1>8, <1>14 DEF WorldInv, TypesInv

\* What happens on the server keeps what the bot knows true.
LEMMA ServerStep ==
  ASSUME WorldInv, ServerNext PROVE WorldInv'
<1>1. ASSUME NEW w \in World, NEW o \in Uid, NEW ps \in SUBSET NetId, server_enter(w, o, {}, ps)
      PROVE  WorldInv'
  <2>1. {} \in SUBSET SrvDrop /\ IsFiniteSet({}) /\ Apart({}) /\ \A d \in {} : d.id <= 1
    BY FS_EmptySet DEF Apart
  <2>. QED
    BY <1>1, <2>1, EnterStep
<1>2. ASSUME NEW w \in World, NEW o \in Uid, NEW ps \in SUBSET NetId,
             NEW i \in Item \ {Gem}, NEW p \in Place, NEW a \in Amount,
             server_enter(w, o, {[id |-> 1, item |-> i, place |-> p, amount |-> a]}, ps)
      PROVE  WorldInv'
  <2>. DEFINE d == [id |-> 1, item |-> i, place |-> p, amount |-> a]
  <2>1. a \in 0 .. Cap
    <3>1. Amount \subseteq 1 .. 200
      BY WorldAssumption
    <3>. QED
      BY <3>1 DEF Cap
  <2>2. d \in SrvDrop /\ d.id <= 1
    BY <2>1 DEF SrvDrop
  <2>. HIDE DEF d
  <2>3. {d} \in SUBSET SrvDrop /\ IsFiniteSet({d}) /\ Apart({d}) /\ \A e \in {d} : e.id <= 1
    BY <2>2, FS_Singleton DEF Apart
  <2>. QED
    BY <1>2, <2>3, EnterStep DEF d
<1>3. CASE server_exit
  BY <1>3, ExitStep
<1>4. ASSUME NEW i \in Item, NEW p \in Place, NEW a \in Amount, server_drop(i, p, a) PROVE WorldInv'
  BY <1>4, DropStep
<1>5. ASSUME NEW d \in srv.drops, NEW n \in NetId, server_take(d, n) PROVE WorldInv'
  BY <1>5, TakeStep
<1>6. ASSUME NEW i \in Item, NEW a \in Amount \cup {0}, NEW b \in Amount \cup {0}, server_modify(i, a, b)
      PROVE  WorldInv'
  BY <1>6, ModifyStep
<1>7. ASSUME NEW g \in Amount \cup {0}, server_bux(g) PROVE WorldInv'
  BY <1>7, BuxStep
<1>8. ASSUME NEW n \in NetId, server_player(n) PROVE WorldInv'
  BY <1>8, PlayerStep
<1>9. ASSUME NEW x \in DOMAIN srv.tiles, NEW t \in {"fist", "wall", "block", "harvest"}, server_tile(x, t)
      PROVE  WorldInv'
  BY <1>9, ServerTileStep
<1>10. ASSUME NEW x \in DOMAIN srv.tiles, NEW o \in Uid, NEW f \in SUBSET Uid, server_lock(x, o, f)
       PROVE  WorldInv'
  BY <1>10, LockStep
<1>11. CASE server_area
  BY <1>11, AreaStep
<1>12. CASE link_lost
  BY <1>12, LostStep
<1>13. CASE relog
  BY <1>13, RelogStep
<1>. QED
  BY <1>1, <1>2, <1>3, <1>4, <1>5, <1>6, <1>7, <1>8, <1>9, <1>10, <1>11, <1>12, <1>13 DEF ServerNext, ServerSteps

-----------------------------------------------------------------------------
(***************************************************************************)
(* The bot applies a packet.                                               *)
(***************************************************************************)
\* What a packet of a type tells.
LEMMA ToldOf ==
  ASSUME NEW s, NEW p, NEW u, Told(s, p, u)
  PROVE  /\ p.type \in Packet
         /\ p.type = "map" => ToldMap(s, p, u)
         /\ p.type \in {"local", "spawn", "remove"} => ToldPlayer(s, p, u)
         /\ p.type = "drop" => ToldDrop(s, p, u)
         /\ p.type = "merge" => ToldMerge(s, p, u)
         /\ p.type = "take" => ToldTake(s, p, u)
         /\ p.type \in {"modify", "bux", "inventory"} => ToldBag(s, p, u)
         /\ p.type \in {"change", "tree", "update"} => ToldTile(s, p, u)
         /\ p.type = "updates" => ToldTiles(s, p, u)
         /\ p.type = "exit" => ToldExit(s, p, u)
<1>1. ToldMap(s, p, u) => p.type = "map"
  BY DEF ToldMap
<1>2. ToldPlayer(s, p, u) => p.type \in {"local", "spawn", "remove"}
  BY DEF ToldPlayer
<1>3. ToldDrop(s, p, u) => p.type = "drop"
  BY DEF ToldDrop
<1>4. ToldMerge(s, p, u) => p.type = "merge"
  BY DEF ToldMerge
<1>5. ToldTake(s, p, u) => p.type = "take"
  BY DEF ToldTake
<1>6. ToldBag(s, p, u) => p.type \in {"modify", "bux", "inventory"}
  BY DEF ToldBag, ToldModify
<1>7. ToldTile(s, p, u) => p.type \in {"change", "tree", "update"}
  BY DEF ToldTile
<1>8. ToldTiles(s, p, u) => p.type = "updates"
  BY DEF ToldTiles
<1>9. ToldExit(s, p, u) => p.type = "exit"
  BY DEF ToldExit
<1>10. \/ ToldMap(s, p, u) \/ ToldPlayer(s, p, u)
       \/ ToldDrop(s, p, u) \/ ToldMerge(s, p, u) \/ ToldTake(s, p, u)
       \/ ToldBag(s, p, u) \/ ToldTile(s, p, u) \/ ToldTiles(s, p, u) \/ ToldExit(s, p, u)
  BY DEF Told
<1>. QED
  BY <1>1, <1>2, <1>3, <1>4, <1>5, <1>6, <1>7, <1>8, <1>9, <1>10 DEF Packet

\* The next packet tells what follows on what the bot knows.
LEMMA Received ==
  ASSUME WorldInv, NEW type, Takes(type)
  PROVE  \E s, u \in Server :
           Match(s) /\ Told(s, packet, u) /\ Path(u, wire', srv) /\ packet.type = type
<1>1. online /\ wire # <<>> /\ wire' = Tail(wire) /\ Head(wire).type = type
  BY DEF Takes
<1>2. PICK s \in Server : Match(s) /\ Path(s, wire, srv)
  BY <1>1 DEF WorldInv, Knows
<1>3. \E u \in Server : Told(s, Head(wire), u) /\ Path(u, Tail(wire), srv)
  BY <1>1, <1>2, PathHead DEF WorldInv, TypesInv
<1>. QED
  BY <1>1, <1>2, <1>3 DEF packet

\* A packet that was applied is no more on the way, the others are.
LEMMA Applied ==
  ASSUME WorldInv, NEW type, Takes(type)
  PROVE  /\ wire' \in Seq(Range(wire'))
         /\ \A other : other # type /\ Coming(other) => Coming(other)'
<1>1. wire # <<>> /\ wire' = Tail(wire) /\ Head(wire).type = type /\ wire \in Seq(Range(wire))
  BY DEF Takes, WorldInv, TypesInv
<1>2. /\ wire' \in Seq(Range(wire)) /\ Len(wire') = Len(wire) - 1 /\ Head(wire) = wire[1]
      /\ \A k \in 1 .. Len(wire) - 1 : wire'[k] = wire[k + 1]
  BY <1>1, HeadTailProperties
<1>3. Len(wire) \in Nat /\ DOMAIN wire = 1 .. Len(wire) /\ DOMAIN wire' = 1 .. Len(wire')
  BY <1>1, <1>2, LenProperties
<1>4. ASSUME NEW other, other # type, Coming(other) PROVE Coming(other)'
  <2>1. PICK k \in 1 .. Len(wire) : wire[k].type = other
    BY <1>3, <1>4 DEF Coming
  <2>2. k # 1
    BY <1>1, <1>2, <1>4, <2>1
  <2>3. k - 1 \in 1 .. Len(wire) - 1 /\ (k - 1) + 1 = k
    BY <1>3, <2>2
  <2>4. wire'[k - 1] = wire[k]
    BY <1>2, <2>3
  <2>. QED
    BY <1>2, <1>3, <2>1, <2>3, <2>4 DEF Coming
<1>. QED
  BY <1>2, <1>4, OwnRange

\* A handler that makes the bot know what the packet tells keeps WorldInv.
LEMMA HandlerStep ==
  ASSUME WorldInv, NEW type, Takes(type), BotTypes', Collects',
         NEW u \in Server, Path(u, wire', srv), Match(u)'
  PROVE  WorldInv'
<1>1. online /\ online' = online /\ srv' = srv
  BY DEF Takes
<1>2. srv' \in Server /\ Offline' /\ Standing'
  BY <1>1 DEF WorldInv, TypesInv, Offline, Standing
<1>3. wire' \in Seq(Range(wire'))
  BY Applied
<1>4. Knows'
  BY <1>1 DEF Knows, Path
<1>. QED
  BY <1>2, <1>3, <1>4 DEF WorldInv, TypesInv

\* The bot's own state but for the world and the inventory.
LEMMA RestTypes ==
  ASSUME WorldInv, NEW type, Takes(type),
         pc' = pc \/ Invalidates, fault' \in {fault, "tile"},
         name' \in World \cup {Unnamed, "EXIT"}, size' \in Nat, lock' \in Lock, tiles' \in Seq(Tile),
         players' \in Seq(NetId), items' \in Seq(Drop), count' \in Nat, last' \in Nat,
         me' \in NetId \cup {0}, bag' \in Held,
         gems' \in Nat
  PROVE  BotTypes' /\ Collects'
<1>1. UNCHANGED <<online, asked, events, auto, since, smoke_index, cur, called>>
  BY DEF Takes, macroVars
<1>2. /\ pc' \in [Thread -> {"idle", "collect", "stale", "smoke", "failed", "reset"}]
      /\ \A t \in Thread : pc'[t] = "collect" => pc[t] = "collect"
  BY DEF Invalidates, WorldInv, TypesInv, BotTypes
<1>3. BotTypes'
  <2>1. fault' \in {"none", "iterator", "player", "tile"}
    BY DEF WorldInv, TypesInv, BotTypes
  <2>. QED
    BY <1>1, <1>2, <2>1 DEF WorldInv, TypesInv, BotTypes
<1>4. Collects'
  BY <1>1, <1>2 DEF WorldInv, TypesInv, Collects
<1>. QED
  BY <1>3, <1>4

\* What the bot knows of its inventory stays true where neither changes.
LEMMA BagStays ==
  ASSUME WorldInv, NEW type, Takes(type), type \notin {"inventory", "bux"},
         NEW s, NEW u, Match(s), u.bag = s.bag, UNCHANGED bagVars
  PROVE  BagMatch(u)'
<1>1. UNCHANGED <<bag, gems, called>>
  BY DEF bagVars, Takes
<1>2. (Coming("inventory") => Coming("inventory")') /\ (Coming("bux") => Coming("bux")')
  BY Applied
<1>3. \A i : Have(i)' = Have(i)
  BY <1>1 DEF Have
<1>4. BagMatch(s)
  BY DEF Match
<1>. QED
  BY <1>1, <1>2, <1>3, <1>4 DEF BagMatch

\* The bot's types.
LEMMA BotFacts ==
  ASSUME WorldInv
  PROVE  /\ name \in World \cup {Unnamed, "EXIT"} /\ size \in Nat /\ lock \in Lock /\ tiles \in Seq(Tile)
         /\ players \in Seq(NetId) /\ items \in Seq(Drop) /\ count \in Nat /\ last \in Nat
         /\ me \in NetId \cup {0} /\ bag \in Held
         /\ gems \in Nat
BY DEF WorldInv, TypesInv, BotTypes

\* What is cut to a width fits in it.
LEMMA CutFits == ASSUME NEW x \in Nat, NEW w \in Nat \ {0} PROVE x % w \in 0 .. w - 1
OBVIOUS

\* A world's tiles as they are read.
LEMMA ReadTiles ==
  ASSUME NEW ts \in Seq(SrvTile), NEW owner \in Nat, NEW access \in SUBSET Uid,
         NEW rs, rs = [x \in DOMAIN ts |-> ReadTile(ts[x], owner, access)]
  PROVE  /\ rs \in Seq(Tile) /\ Len(rs) = Len(ts) /\ DOMAIN rs = DOMAIN ts
         /\ \A x \in DOMAIN rs : /\ rs[x].fg = ts[x].fg /\ rs[x].bg = ts[x].bg /\ rs[x].lock \in Lock
                                 /\ rs[x].fg = "lock"
                                      => rs[x].lock = [owner |-> owner % Word, access |-> access]
<1>1. /\ Len(ts) \in Nat /\ DOMAIN ts = 1 .. Len(ts)
      /\ \A x \in DOMAIN ts : ts[x] \in SrvTile
  BY ElementOfSeq
<1>2. [owner |-> owner % Word, access |-> access] \in Lock /\ NoLock \in Lock
  <2>0. Word \in Nat \ {0}
    BY DEF Word
  <2>1. owner % Word \in 0 .. Word - 1
    BY <2>0, CutFits
  <2>2. 0 \in 0 .. Word - 1
    BY DEF Word
  <2>. QED
    BY <2>1, <2>2 DEF Lock, NoLock
<1>3. ASSUME NEW t \in SrvTile
      PROVE  LET r == ReadTile(t, owner, access) IN
             /\ r \in Tile /\ r.fg = t.fg /\ r.bg = t.bg /\ r.lock \in Lock
             /\ r.fg = "lock" => r.lock = [owner |-> owner % Word, access |-> access]
  BY <1>2 DEF ReadTile, Tile, SrvTile
<1>4. rs \in [1 .. Len(ts) -> Tile]
  BY <1>1, <1>3
<1>5. rs \in Seq(Tile) /\ Len(rs) = Len(ts)
  BY <1>1, <1>4, SeqDef
<1>. QED
  BY <1>1, <1>3, <1>5

\* send_map_data: the bot reads the world it has come to.
LEMMA MapStep ==
  ASSUME WorldInv, send_map_data PROVE WorldInv'
<1>. DEFINE p == packet
<1>1. /\ Takes("map") /\ fault' = fault /\ Invalidates /\ UNCHANGED <<me, bagVars>>
      /\ name' = p.at /\ size' = Len(p.tiles) /\ players' = <<>>
      /\ tiles' = [x \in DOMAIN p.tiles |-> ReadTile(p.tiles[x], p.owner, p.access)]
      /\ lock' = IF \E x \in DOMAIN tiles' : tiles'[x].fg = "lock"
                 THEN tiles'[CHOOSE x \in DOMAIN tiles' : tiles'[x].fg = "lock"].lock ELSE lock
      /\ items' = SetToSeq(p.drops) /\ count' = Cardinality(p.drops) /\ last' = p.last
  BY DEF send_map_data, Receives
<1>2. PICK s \in Server, u \in Server : Match(s) /\ Told(s, p, u) /\ Path(u, wire', srv) /\ p.type = "map"
  BY <1>1, Received
<1>. HIDE DEF p
<1>3. ToldMap(s, p, u)
  BY <1>2, ToldOf
<1>4. /\ p.at = u.at /\ p.tiles = u.tiles /\ p.owner = u.owner /\ p.access = u.access
      /\ p.drops = u.drops /\ p.last = u.last
      /\ u.at \in World /\ u.players = {} /\ u.self = 0 /\ u.bag = s.bag
  BY <1>3 DEF ToldMap, Map
<1>5. /\ u.tiles \in Seq(SrvTile) /\ u.owner \in Nat /\ u.access \in SUBSET Uid /\ u.last \in Nat
      /\ u.drops \in SUBSET SrvDrop /\ IsFiniteSet(u.drops)
  <2>1. Uid \subseteq Nat \ {0}
    BY WorldAssumption
  <2>2. u.owner \in Uid \/ u.owner = 0
    BY ServerFacts
  <2>3. Uid \cup {0} \subseteq Nat /\ u.owner \in Uid \cup {0}
    BY <2>1, <2>2
  <2>4. /\ u.tiles \in Seq(SrvTile) /\ u.access \in SUBSET Uid /\ u.last \in Nat
        /\ u.drops \in SUBSET SrvDrop /\ IsFiniteSet(u.drops)
    BY ServerFacts
  <2>. QED
    BY <2>3, <2>4
<1>6. /\ tiles' \in Seq(Tile) /\ Len(tiles') = Len(u.tiles) /\ DOMAIN tiles' = DOMAIN u.tiles
      /\ \A x \in DOMAIN tiles' : /\ tiles'[x].fg = u.tiles[x].fg /\ tiles'[x].bg = u.tiles[x].bg
                                  /\ tiles'[x].lock \in Lock
                                  /\ tiles'[x].fg = "lock"
                                       => tiles'[x].lock = [owner |-> u.owner % Word, access |-> u.access]
  <2>1. tiles' = [x \in DOMAIN u.tiles |-> ReadTile(u.tiles[x], u.owner, u.access)]
    BY <1>1, <1>4
  <2>. QED
    BY <1>5, <2>1, ReadTiles
<1>7. ASSUME \E x \in DOMAIN tiles' : tiles'[x].fg = "lock"
      PROVE  lock' = [owner |-> u.owner % Word, access |-> u.access] /\ lock' \in Lock
  <2>. DEFINE x == CHOOSE x \in DOMAIN tiles' : tiles'[x].fg = "lock"
  <2>1. x \in DOMAIN tiles' /\ tiles'[x].fg = "lock"
    BY <1>7
  <2>2. lock' = tiles'[x].lock
    BY <1>1, <1>7
  <2>. HIDE DEF x
  <2>. QED
    BY <1>6, <2>1, <2>2
<1>8. lock' \in Lock
  <2>1. CASE \E x \in DOMAIN tiles' : tiles'[x].fg = "lock"
    BY <1>7, <2>1
  <2>2. CASE ~ \E x \in DOMAIN tiles' : tiles'[x].fg = "lock"
    <3>1. lock' = lock
      BY <1>1, <2>2
    <3>. QED
      BY <3>1, BotFacts
  <2>. QED
    BY <2>1, <2>2
<1>9. /\ items' \in Seq(Drop) /\ Range(items') = u.drops /\ IsInjective(items')
      /\ count' \in Nat
  <2>1. items' \in Seq(u.drops) /\ IsInjective(items') /\ Range(items') = u.drops
    BY <1>1, <1>4, <1>5, ListOf
  <2>2. SrvDrop \subseteq Drop
    BY DEF SrvDrop, Drop, Cap
  <2>3. u.drops \subseteq Drop
    BY <1>5, <2>2
  <2>4. items' \in Seq(Drop)
    BY <2>1, <2>3
  <2>5. count' \in Nat
    BY <1>1, <1>4, <1>5, FS_CardinalityType
  <2>. QED
    BY <2>1, <2>4, <2>5
<1>10. BotTypes' /\ Collects'
  <2>1. size' \in Nat /\ players' \in Seq(NetId) /\ name' \in World \cup {Unnamed, "EXIT"} /\ last' \in Nat
    <3>1. Len(u.tiles) \in Nat /\ <<>> \in Seq(NetId)
      BY <1>5, LenProperties
    <3>. QED
      BY <1>1, <1>4, <1>5, <3>1
  <2>2. me' = me /\ bag' = bag /\ gems' = gems
    BY <1>1 DEF bagVars
  <2>3. me' \in NetId \cup {0} /\ bag' \in Held /\ gems' \in Nat
    BY <2>2, BotFacts
  <2>. QED
    BY <1>1, <1>6, <1>8, <1>9, <2>1, <2>3, RestTypes
<1>11. Match(u)'
  <2>1. ItemsMatch(u)'
    BY <1>1, <1>4, <1>9 DEF ItemsMatch
  <2>2. PlayersMatch(u)'
    <3>1. Range(<<>>) = {} /\ IsInjective(<<>>)
      BY DEF Range, IsInjective
    <3>. QED
      BY <1>1, <1>4, <3>1 DEF PlayersMatch
  <2>3. TilesMatch(u)'
    <3>1. size' = Len(tiles') /\ Len(tiles') = Len(u.tiles)
      BY <1>1, <1>4, <1>6
    <3>2. ASSUME \E x \in DOMAIN u.tiles : u.tiles[x].fg = "lock"
          PROVE  lock'.owner = u.owner % Word /\ u.access \subseteq lock'.access
      BY <1>6, <1>7, <3>2
    <3>. QED
      BY <1>6, <3>1, <3>2 DEF TilesMatch
  <2>4. BagMatch(u)'
    BY <1>1, <1>2, <1>4, BagStays
  <2>. QED
    BY <2>1, <2>2, <2>3, <2>4 DEF Match
<1>. QED
  BY <1>1, <1>2, <1>10, <1>11, HandlerStep

\* OnRequestWorldSelectMenu: the bot is in no world.
LEMMA MenuStep ==
  ASSUME WorldInv, OnRequestWorldSelectMenu PROVE WorldInv'
<1>1. /\ Takes("exit") /\ fault' = fault /\ name' = "EXIT" /\ players' = <<>> /\ tiles' = <<>> /\ me' \in NetId \cup {0}
      /\ lock' = [lock EXCEPT !.access = {}] /\ UNCHANGED <<size, items, count, last, bagVars, pc>>
  BY DEF OnRequestWorldSelectMenu, Receives
<1>2. PICK s \in Server, u \in Server :
        Match(s) /\ Told(s, packet, u) /\ Path(u, wire', srv) /\ packet.type = "exit"
  BY <1>1, Received
<1>3. u.at = "EXIT" /\ u.bag = s.bag
  <2>1. ToldExit(s, packet, u)
    BY <1>2, ToldOf
  <2>. QED
    BY <2>1 DEF ToldExit, Outside
<1>4. BotTypes' /\ Collects'
  <2>1. lock' \in Lock
    <3>1. lock \in Lock /\ lock' = [lock EXCEPT !.access = {}]
      BY <1>1, BotFacts
    <3>. QED
      BY <3>1 DEF Lock
  <2>2. players' \in Seq(NetId) /\ tiles' \in Seq(Tile) /\ name' \in World \cup {Unnamed, "EXIT"}
    BY <1>1
  <2>3. UNCHANGED <<size, items, count, last, bag, gems, pc>>
    BY <1>1 DEF bagVars
  <2>. QED
    BY <1>1, <2>1, <2>2, <2>3, RestTypes, BotFacts
<1>5. Match(u)'
  <2>1. u.at \notin World
    BY <1>3, WorldAssumption
  <2>2. BagMatch(u)'
    BY <1>1, <1>2, <1>3, BagStays
  <2>. QED
    BY <2>1, <2>2 DEF Match
<1>. QED
  BY <1>1, <1>2, <1>4, <1>5, HandlerStep

\* OnSpawn and OnRemove: the bot is given its id, and players come and go.
LEMMA PlayersStep ==
  ASSUME WorldInv, OnSpawn \/ OnRemove PROVE WorldInv'
<1>1. PICK type \in {"local", "spawn", "remove"} :
        /\ Takes(type) /\ fault' = fault
        /\ UNCHANGED <<name, size, tiles, lock, items, count, last, bagVars, pc>>
        /\ type = "local" => me' = packet.id /\ players' = players
        /\ type = "spawn" => me' = me /\ players' = Append(players, packet.id)
        /\ type = "remove" => me' = me /\ players' = remove_if(players, packet.id)
  BY DEF OnSpawn, OnRemove, worldVars, Receives
<1>2. PICK s \in Server, u \in Server :
        Match(s) /\ Told(s, packet, u) /\ Path(u, wire', srv) /\ packet.type = type
  BY <1>1, Received
<1>. DEFINE n == packet.id
<1>3. ToldPlayer(s, packet, u)
  BY <1>2, ToldOf
<1>4. /\ type = "local" => n \in NetId /\ u = [s EXCEPT !.self = n]
      /\ type = "spawn" => n \in NetId \ s.players /\ u = [s EXCEPT !.players = s.players \cup {n}]
      /\ type = "remove" => u = [s EXCEPT !.players = s.players \ {n}]
  BY <1>2, <1>3 DEF ToldPlayer
<1>. HIDE DEF n
<1>5. s \in ServerTypes
  BY ServerFacts
<1>6. /\ u.at = s.at /\ u.tiles = s.tiles /\ u.owner = s.owner /\ u.access = s.access
      /\ u.drops = s.drops /\ u.last = s.last /\ u.bag = s.bag
      /\ type = "local" => u.self = n /\ u.players = s.players
      /\ type = "spawn" => u.self = s.self /\ u.players = s.players \cup {n}
      /\ type = "remove" => u.self = s.self /\ u.players = s.players \ {n}
  BY <1>1, <1>4, <1>5 DEF ServerTypes
<1>7. /\ players' \in Seq(NetId) /\ me' \in NetId \cup {0}
      /\ (Range(players) = s.players /\ IsInjective(players))
           => Range(players') = u.players /\ IsInjective(players')
  <2>0. players \in Seq(NetId) /\ me \in NetId \cup {0}
    BY BotFacts
  <2>1. CASE type = "local"
    BY <1>1, <1>4, <1>6, <2>0, <2>1 DEF n
  <2>2. CASE type = "remove"
    BY <1>1, <1>6, <2>0, <2>2, RemoveIf DEF n
  <2>3. CASE type = "spawn"
    <3>1. players' = Append(players, n) /\ n \in NetId /\ n \notin s.players /\ me' = me
      BY <1>1, <1>4, <2>3 DEF n
    <3>2. /\ players' \in Seq(NetId) /\ Range(players') = Range(players) \cup {n}
          /\ IsInjective(players) /\ n \notin Range(players) => IsInjective(players')
      BY <2>0, <3>1, Appended
    <3>. QED
      BY <1>6, <2>0, <2>3, <3>1, <3>2
  <2>. QED
    BY <2>1, <2>2, <2>3
<1>8. UNCHANGED <<name, size, tiles, lock, items, count, last, bag, gems, pc, called>>
  BY <1>1 DEF bagVars, Takes
<1>9. BotTypes' /\ Collects'
  BY <1>1, <1>7, <1>8, RestTypes, BotFacts
<1>10. Match(u)'
  <2>1. ASSUME u.at \in World PROVE ItemsMatch(u)' /\ PlayersMatch(u)' /\ TilesMatch(u)'
    <3>1. ItemsMatch(s) /\ PlayersMatch(s) /\ TilesMatch(s)
      BY <1>2, <1>6, <2>1 DEF Match
    <3>2. ItemsMatch(u)' /\ TilesMatch(u)'
      BY <1>6, <1>8, <3>1 DEF ItemsMatch, TilesMatch
    <3>3. u.self # 0 => me' = u.self \/ (me' = 0 /\ "reset" \in called)
      <4>1. CASE type = "local"
        BY <1>1, <1>6, <4>1 DEF n
      <4>2. CASE type # "local"
        BY <1>1, <1>6, <3>1, <4>2 DEF PlayersMatch
      <4>. QED
        BY <4>1, <4>2
    <3>. QED
      BY <1>6, <1>7, <1>8, <3>1, <3>2, <3>3 DEF PlayersMatch
  <2>2. BagMatch(u)'
    BY <1>1, <1>2, <1>6, BagStays
  <2>. QED
    BY <2>1, <2>2 DEF Match
<1>. QED
  BY <1>1, <1>2, <1>9, <1>10, HandlerStep

\* What an inventory has of an item.
LEMMA HaveType ==
  ASSUME bag \in Held PROVE \A i : Have(i) \in 0 .. 255 /\ Have(i) \in Nat
<1>1. PICK I \in SUBSET (Item \ {Gem}) : bag \in [I -> 0 .. 255]
  BY DEF Held
<1>2. DOMAIN bag = I /\ \A i \in I : bag[i] \in 0 .. 255
  BY <1>1
<1>. QED
  BY <1>2 DEF Have

\* An inventory with one amount set.
LEMMA Put ==
  ASSUME bag \in Held, NEW i \in Item \ {Gem}, NEW a \in 0 .. 255, bag' = With(i, a)
  PROVE  bag' \in Held /\ Have(i)' = a /\ \A j : j # i => Have(j)' = Have(j)
<1>1. PICK I \in SUBSET (Item \ {Gem}) : bag \in [I -> 0 .. 255]
  BY DEF Held
<1>2. DOMAIN bag = I /\ bag' = [j \in I \cup {i} |-> IF j = i THEN a ELSE bag[j]]
  BY <1>1 DEF With
<1>3. bag' \in [I \cup {i} -> 0 .. 255]
  BY <1>1, <1>2
<1>4. I \cup {i} \in SUBSET (Item \ {Gem})
  OBVIOUS
<1>5. bag' \in Held
  BY <1>3, <1>4 DEF Held
<1>6. Have(i)' = a /\ \A j : j # i => Have(j)' = Have(j)
  BY <1>2 DEF Have
<1>. QED
  BY <1>5, <1>6

\* Where neither players nor tiles change, here and on the server, the bot still
\* knows them.
LEMMA WorldStays ==
  ASSUME NEW s, NEW u, Match(s), BagMatch(u)',
         u.at = s.at, u.tiles = s.tiles, u.owner = s.owner, u.access = s.access,
         u.players = s.players, u.self = s.self,
         UNCHANGED <<name, size, tiles, lock, players, me, called>>,
         \/ u.at \in World => ItemsMatch(u)'
         \/ u.drops = s.drops /\ u.last = s.last /\ UNCHANGED <<items, last>>
  PROVE  Match(u)'
<1>1. ASSUME u.at \in World PROVE ItemsMatch(u)' /\ PlayersMatch(u)' /\ TilesMatch(u)'
  <2>1. ItemsMatch(s) /\ PlayersMatch(s) /\ TilesMatch(s)
    BY <1>1 DEF Match
  <2>2. ItemsMatch(u)'
    BY <1>1, <2>1 DEF ItemsMatch
  <2>3. PlayersMatch(u)'
    BY <2>1 DEF PlayersMatch
  <2>4. TilesMatch(u)'
    BY <2>1 DEF TilesMatch
  <2>. QED
    BY <2>2, <2>3, <2>4
<1>. QED
  BY <1>1 DEF Match

\* OnSetBux and send_inventory_state: the gems and the inventory arrive anew.
LEMMA AnewStep ==
  ASSUME WorldInv, OnSetBux \/ send_inventory_state PROVE WorldInv'
<1>1. PICK type \in {"bux", "inventory"} :
        /\ Takes(type) /\ fault' = fault /\ UNCHANGED <<worldVars, me, pc>>
        /\ type = "bux" => gems' = packet.gems /\ bag' = bag
        /\ type = "inventory" =>
             /\ gems' = gems
             /\ bag' = [i \in {j \in Item \ {Gem} : packet.bag[j] > 0} |-> packet.bag[i]]
  BY DEF OnSetBux, send_inventory_state, Receives
<1>2. PICK s \in Server, u \in Server :
        Match(s) /\ Told(s, packet, u) /\ Path(u, wire', srv) /\ packet.type = type
  BY <1>1, Received
<1>3. ToldBag(s, packet, u)
  BY <1>2, ToldOf
<1>4. /\ type = "bux" => packet.gems \in Nat /\ u = [s EXCEPT !.bag = [s.bag EXCEPT ![Gem] = packet.gems]]
      /\ type = "inventory" => packet.bag = s.bag /\ u = s
  BY <1>2, <1>3 DEF ToldBag, ToldModify
<1>5. /\ s \in ServerTypes /\ s.bag \in [Item -> Nat] /\ Gem \in Item
      /\ \A i \in Item \ {Gem} : s.bag[i] \in Nat /\ s.bag[i] <= Cap
  <2>1. s \in ServerTypes /\ s.bag \in [Item -> Nat] /\ \A i \in Item \ {Gem} : s.bag[i] <= Cap
    BY ServerFacts
  <2>. QED
    BY <2>1, WorldAssumption
<1>6. /\ u.at = s.at /\ u.tiles = s.tiles /\ u.owner = s.owner /\ u.access = s.access
      /\ u.drops = s.drops /\ u.last = s.last /\ u.players = s.players /\ u.self = s.self
      /\ \A i \in Item \ {Gem} : u.bag[i] = s.bag[i]
      /\ type = "bux" => u.bag[Gem] = packet.gems
      /\ type = "inventory" => u.bag = s.bag
  <2>1. CASE type = "inventory"
    BY <1>1, <1>4, <2>1
  <2>2. CASE type = "bux"
    BY <1>1, <1>4, <1>5, <2>2 DEF ServerTypes
  <2>. QED
    BY <1>1, <2>1, <2>2
<1>7. UNCHANGED <<name, size, tiles, lock, players, items, count, last, me, pc, called>>
  BY <1>1 DEF worldVars, Takes
<1>8. ASSUME type = "inventory"
      PROVE  bag' \in Held /\ \A i \in Item \ {Gem} : Have(i)' = u.bag[i]
  <2>. DEFINE I == {j \in Item \ {Gem} : s.bag[j] > 0}
  <2>1. bag' = [i \in I |-> s.bag[i]]
    BY <1>1, <1>4, <1>8
  <2>2. \A i \in Item \ {Gem} : s.bag[i] \in 0 .. 255
    BY <1>5 DEF Cap
  <2>3. bag' \in [I -> 0 .. 255] /\ I \in SUBSET (Item \ {Gem})
    BY <2>1, <2>2
  <2>4. bag' \in Held
    BY <2>3 DEF Held
  <2>5. \A i \in Item \ {Gem} : Have(i)' = s.bag[i]
    BY <1>5, <2>1 DEF Have
  <2>. QED
    BY <1>6, <2>4, <2>5
<1>9. BotTypes' /\ Collects'
  <2>1. bag' \in Held /\ gems' \in Nat
    BY <1>1, <1>4, <1>8, BotFacts
  <2>. QED
    BY <1>1, <1>7, <2>1, RestTypes, BotFacts
<1>10. BagMatch(u)'
  <2>1. BagMatch(s)
    BY <1>2 DEF Match
  <2>2. \A other : other # type /\ Coming(other) => Coming(other)'
    BY <1>1, Applied
  <2>3. ASSUME NEW i \in Item \ {Gem} PROVE Have(i) \in Nat /\ u.bag[i] \in Nat /\ u.bag[i] <= u.bag[i]
    BY <1>5, <1>6, HaveType, BotFacts
  <2>4. CASE type = "inventory"
    <3>1. \A i \in Item \ {Gem} : Have(i)' = u.bag[i] /\ Have(i)' <= u.bag[i]
      BY <1>8, <2>3, <2>4
    <3>2. \/ Coming("bux")'
          \/ gems' <= u.bag[Gem] /\ ("reset" \in called' \/ gems' = u.bag[Gem])
      BY <1>1, <1>6, <1>7, <2>1, <2>2, <2>4 DEF BagMatch
    <3>. QED
      BY <3>1, <3>2 DEF BagMatch
  <2>5. CASE type = "bux"
    <3>1. gems' = u.bag[Gem] /\ gems' <= u.bag[Gem]
      BY <1>1, <1>4, <1>6, <2>5
    <3>2. \A i : Have(i)' = Have(i)
      BY <1>1, <2>5 DEF Have
    <3>3. \/ Coming("inventory")'
          \/ \A i \in Item \ {Gem} :
               Have(i)' <= u.bag[i] /\ ("reset" \in called' \/ Have(i)' = u.bag[i])
      BY <1>6, <1>7, <2>1, <2>2, <2>5, <3>2 DEF BagMatch
    <3>. QED
      BY <3>1, <3>3 DEF BagMatch
  <2>. QED
    BY <1>1, <2>4, <2>5
<1>11. Match(u)'
  BY <1>2, <1>6, <1>7, <1>10, WorldStays
<1>. QED
  BY <1>1, <1>2, <1>9, <1>11, HandlerStep

\* modify_item_inventory: also where reset() has made it lag behind, the bot's
\* inventory shows no more than there is.
LEMMA ModifiedStep ==
  ASSUME WorldInv, modify_item_inventory PROVE WorldInv'
<1>0. PICK p : p = packet
  OBVIOUS
<1>. DEFINE i == p.item
            lost == p.lost
            gained == p.gained
<1>1. /\ Takes("modify") /\ fault' = fault /\ UNCHANGED <<worldVars, me, gems, pc>>
      /\ bag' = IF i \notin DOMAIN bag THEN With(i, gained)
                ELSE IF lost > 0 /\ bag[i] >= lost THEN [bag EXCEPT ![i] = bag[i] - lost]
                ELSE IF gained > 0 THEN [bag EXCEPT ![i] = (bag[i] + gained) % 256]
                ELSE [j \in DOMAIN bag \ {i} |-> bag[j]]
  BY <1>0 DEF modify_item_inventory, Receives
<1>2. PICK s \in Server, u \in Server :
        Match(s) /\ Told(s, p, u) /\ Path(u, wire', srv) /\ p.type = "modify"
  BY <1>0, <1>1, Received
<1>3. ToldModify(s, p, u)
  <2>1. ToldBag(s, p, u)
    BY <1>2, ToldOf
  <2>. QED
    BY <1>2, <2>1 DEF ToldBag
<1>4. /\ i \in Item \ {Gem} /\ lost \in Nat /\ gained \in Nat
      /\ (lost = 0 \/ gained = 0) /\ lost + gained > 0
      /\ s.bag[i] >= lost /\ s.bag[i] + gained <= Cap
      /\ u = [s EXCEPT !.bag = [s.bag EXCEPT ![i] = s.bag[i] - lost + gained]]
  BY <1>3 DEF ToldModify
<1>. HIDE DEF i, lost, gained
<1>5. /\ s \in ServerTypes /\ s.bag \in [Item -> Nat] /\ Gem \in Item
      /\ s.bag[i] \in Nat
  <2>1. s \in ServerTypes /\ s.bag \in [Item -> Nat]
    BY ServerFacts
  <2>2. Gem \in Item
    BY WorldAssumption
  <2>. QED
    BY <1>4, <2>1, <2>2
<1>6. /\ u.at = s.at /\ u.tiles = s.tiles /\ u.owner = s.owner /\ u.access = s.access
      /\ u.drops = s.drops /\ u.last = s.last /\ u.players = s.players /\ u.self = s.self
      /\ u.bag = [s.bag EXCEPT ![i] = s.bag[i] - lost + gained]
  BY <1>4, <1>5 DEF ServerTypes
<1>7. /\ u.bag[i] = s.bag[i] - lost + gained
      /\ \A j \in Item : j # i => u.bag[j] = s.bag[j]
  BY <1>4, <1>5, <1>6
<1>8. UNCHANGED <<name, size, tiles, lock, players, items, count, last, me, pc, called, gems>>
  BY <1>1 DEF worldVars, Takes
<1>9. bag \in Held /\ \A j : Have(j) \in Nat /\ Have(j) <= 255
  <2>1. bag \in Held
    BY BotFacts
  <2>2. \A j : Have(j) \in 0 .. 255
    BY <2>1, HaveType
  <2>. QED
    BY <2>1, <2>2
<1>10. PICK I \in SUBSET (Item \ {Gem}) : bag \in [I -> 0 .. 255]
  BY <1>9 DEF Held
<1>11. gained \in 0 .. 255 /\ gained <= 200 /\ s.bag[i] + gained <= 200
  BY <1>4, <1>5 DEF Cap
<1>12. /\ bag' \in Held /\ \A j : j # i => Have(j)' = Have(j)
       /\ Have(i)' = IF i \notin DOMAIN bag THEN gained
                     ELSE IF lost > 0 /\ Have(i) >= lost THEN Have(i) - lost
                     ELSE IF gained > 0 THEN (Have(i) + gained) % 256 ELSE 0
  <2>0. DOMAIN bag = I /\ (i \in I => Have(i) = bag[i] /\ bag[i] \in 0 .. 255)
    BY <1>10 DEF Have
  <2>a. ASSUME i \in DOMAIN bag PROVE bag[i] \in Nat /\ bag[i] <= 255 /\ Have(i) = bag[i]
    BY <2>0, <2>a
  <2>1. CASE i \notin DOMAIN bag
    <3>1. bag' = With(i, gained)
      BY <1>1, <2>1
    <3>2. bag' \in Held /\ Have(i)' = gained /\ \A j : j # i => Have(j)' = Have(j)
      BY <1>4, <1>9, <1>11, <3>1, Put
    <3>. QED
      BY <2>1, <3>2
  <2>2. ASSUME i \in DOMAIN bag, NEW a \in 0 .. 255, bag' = [bag EXCEPT ![i] = a]
        PROVE  bag' \in Held /\ Have(i)' = a /\ \A j : j # i => Have(j)' = Have(j)
    <3>1. bag' \in [I -> 0 .. 255]
      BY <1>10, <2>2
    <3>2. bag' \in Held
      BY <3>1 DEF Held
    <3>3. DOMAIN bag' = I /\ bag'[i] = a /\ \A j \in I : j # i => bag'[j] = bag[j]
      BY <1>10, <2>0, <2>2
    <3>4. Have(i)' = a
      BY <2>0, <2>2, <3>3 DEF Have
    <3>5. ASSUME NEW j, j # i PROVE Have(j)' = Have(j)
      BY <2>0, <3>3, <3>5 DEF Have
    <3>. QED
      BY <3>2, <3>4, <3>5
  <2>3. CASE i \in DOMAIN bag /\ lost > 0 /\ bag[i] >= lost
    <3>0. bag' = [bag EXCEPT ![i] = bag[i] - lost]
      BY <1>1, <2>3
    <3>1. bag[i] - lost \in 0 .. 255
      BY <1>4, <2>a, <2>3
    <3>2. bag' \in Held /\ Have(i)' = bag[i] - lost /\ \A j : j # i => Have(j)' = Have(j)
      BY <2>2, <2>3, <3>0, <3>1
    <3>. QED
      BY <2>a, <2>3, <3>2
  <2>4. CASE i \in DOMAIN bag /\ ~ (lost > 0 /\ bag[i] >= lost) /\ gained > 0
    <3>0. bag' = [bag EXCEPT ![i] = (bag[i] + gained) % 256]
      BY <1>1, <2>4
    <3>1. (bag[i] + gained) % 256 \in 0 .. 255
      BY <1>4, <2>a, <2>4
    <3>2. bag' \in Held /\ Have(i)' = (bag[i] + gained) % 256 /\ \A j : j # i => Have(j)' = Have(j)
      BY <2>2, <2>4, <3>0, <3>1
    <3>. QED
      BY <2>a, <2>4, <3>2
  <2>5. CASE i \in DOMAIN bag /\ ~ (lost > 0 /\ bag[i] >= lost) /\ ~ (gained > 0)
    <3>1. bag' = [j \in I \ {i} |-> bag[j]]
      BY <1>1, <2>0, <2>5
    <3>2. bag' \in [I \ {i} -> 0 .. 255] /\ I \ {i} \in SUBSET (Item \ {Gem})
      BY <1>10, <3>1
    <3>3. bag' \in Held
      BY <3>2 DEF Held
    <3>a. DOMAIN bag' = I \ {i} /\ \A j \in I \ {i} : bag'[j] = bag[j]
      BY <3>1
    <3>b. Have(i)' = 0
      BY <3>a DEF Have
    <3>c. ASSUME NEW j, j # i PROVE Have(j)' = Have(j)
      BY <2>0, <3>a, <3>c DEF Have
    <3>4. Have(i)' = 0 /\ \A j : j # i => Have(j)' = Have(j)
      BY <3>b, <3>c
    <3>. QED
      BY <2>0, <2>5, <3>3, <3>4
  <2>. QED
    BY <2>1, <2>3, <2>4, <2>5
<1>13. i \notin DOMAIN bag => Have(i) = 0
  BY DEF Have
<1>14. BotTypes' /\ Collects'
  BY <1>1, <1>8, <1>12, RestTypes, BotFacts
<1>15. BagMatch(u)'
  <2>1. BagMatch(s)
    BY <1>2 DEF Match
  <2>2. (Coming("inventory") => Coming("inventory")') /\ (Coming("bux") => Coming("bux")')
    BY <1>1, Applied
  <2>3. \/ Coming("bux")'
        \/ gems' <= u.bag[Gem] /\ ("reset" \in called' \/ gems' = u.bag[Gem])
    <3>1. u.bag[Gem] = s.bag[Gem]
      BY <1>4, <1>5, <1>7
    <3>. QED
      BY <1>8, <2>1, <2>2, <3>1 DEF BagMatch
  <2>4. ASSUME ~ Coming("inventory")
        PROVE  \A j \in Item \ {Gem} :
                 Have(j)' <= u.bag[j] /\ ("reset" \in called' \/ Have(j)' = u.bag[j])
    <3>1. \A j \in Item \ {Gem} : Have(j) <= s.bag[j] /\ ("reset" \in called \/ Have(j) = s.bag[j])
      BY <2>1, <2>4 DEF BagMatch
    <3>2. Have(i) <= s.bag[i] /\ ("reset" \in called \/ Have(i) = s.bag[i]) /\ Have(i) \in Nat
      BY <1>4, <1>9, <3>1
    <3>3. Have(i)' <= u.bag[i] /\ (Have(i) = s.bag[i] => Have(i)' = u.bag[i])
      BY <1>4, <1>5, <1>7, <1>11, <1>12, <1>13, <3>2
    <3>4. ASSUME NEW j \in Item \ {Gem}, j # i
          PROVE  Have(j)' <= u.bag[j] /\ ("reset" \in called' \/ Have(j)' = u.bag[j])
      BY <1>7, <1>8, <1>12, <3>1, <3>4
    <3>5. called' = called
      BY <1>8
    <3>. QED
      BY <3>2, <3>3, <3>4, <3>5
  <2>. QED
    BY <2>2, <2>3, <2>4 DEF BagMatch
<1>16. Match(u)'
  BY <1>2, <1>6, <1>8, <1>15, WorldStays
<1>. QED
  BY <1>1, <1>2, <1>14, <1>16, HandlerStep

\* item_dropped: the bot counts the drop as the server does.
LEMMA DroppedStep ==
  ASSUME WorldInv, item_dropped PROVE WorldInv'
<1>0. PICK p : p = packet
  OBVIOUS
<1>. DEFINE n == [id |-> last + 1, item |-> p.item, place |-> p.place, amount |-> p.amount % 256]
<1>1. /\ Takes("drop") /\ fault' = fault /\ last' = last + 1 /\ items' = Append(items, n)
      /\ Invalidates /\ UNCHANGED <<name, size, tiles, lock, players, count, me, bagVars>>
  BY <1>0 DEF item_dropped, Receives
<1>2. PICK s \in Server, u \in Server :
        Match(s) /\ Told(s, p, u) /\ Path(u, wire', srv) /\ p.type = "drop"
  BY <1>0, <1>1, Received
<1>3. ToldDrop(s, p, u)
  BY <1>2, ToldOf
<1>4. /\ p.item \in Item /\ p.place \in Place /\ p.amount \in 0 .. 200
      /\ u = [s EXCEPT !.last = s.last + 1, !.drops = s.drops \cup {Dropped(s, p)}]
  BY <1>3 DEF ToldDrop, Cap
<1>5. /\ u.at = s.at /\ u.tiles = s.tiles /\ u.owner = s.owner /\ u.access = s.access
      /\ u.players = s.players /\ u.self = s.self /\ u.bag = s.bag
      /\ u.drops = s.drops \cup {Dropped(s, p)} /\ u.last = s.last + 1
  <2>1. s \in ServerTypes
    BY ServerFacts
  <2>. QED
    BY <1>4, <2>1 DEF ServerTypes
<1>6. UNCHANGED <<name, size, tiles, lock, players, count, me, bag, gems, called>>
  BY <1>1 DEF Takes, bagVars
<1>7. p.amount % 256 = p.amount /\ p.amount \in 0 .. 255 /\ last \in Nat /\ items \in Seq(Drop)
  <2>1. last \in Nat /\ items \in Seq(Drop)
    BY BotFacts
  <2>2. ASSUME NEW a \in 0 .. 200 PROVE a % 256 = a /\ a \in 0 .. 255
    OBVIOUS
  <2>3. p.amount \in 0 .. 200
    BY <1>4
  <2>4. p.amount % 256 = p.amount /\ p.amount \in 0 .. 255
    BY <2>2, <2>3
  <2>. QED
    BY <2>1, <2>4
<1>8. n \in Drop
  <2>1. last + 1 \in Nat
    BY <1>7
  <2>2. n = [id |-> last + 1, item |-> p.item, place |-> p.place, amount |-> p.amount]
    BY <1>7
  <2>. HIDE DEF n
  <2>. QED
    BY <1>4, <1>7, <2>1, <2>2 DEF Drop
<1>9. ASSUME last = s.last PROVE n = Dropped(s, p)
  BY <1>7, <1>9 DEF Dropped
<1>. HIDE DEF n
<1>10. /\ items' \in Seq(Drop) /\ Range(items') = Range(items) \cup {n}
       /\ IsInjective(items) /\ n \notin Range(items) => IsInjective(items')
  BY <1>1, <1>7, <1>8, Appended
<1>11. BotTypes' /\ Collects'
  <2>1. last' \in Nat
    BY <1>1, <1>7
  <2>. QED
    BY <1>1, <1>6, <1>10, <2>1, RestTypes, BotFacts
<1>12. ASSUME u.at \in World PROVE ItemsMatch(u)'
  <2>1. Range(items) = s.drops /\ IsInjective(items) /\ last = s.last
    BY <1>2, <1>5, <1>12 DEF Match, ItemsMatch
  <2>2. Dropped(s, p) \notin s.drops
    <3>1. Dropped(s, p).id = s.last + 1 /\ s.last \in Nat /\ \A d \in s.drops : d.id <= s.last
      BY ServerFacts DEF Dropped
    <3>2. ~ (s.last + 1 <= s.last)
      BY <3>1
    <3>. QED
      BY <3>1, <3>2
  <2>. QED
    BY <1>1, <1>5, <1>9, <1>10, <2>1, <2>2 DEF ItemsMatch
<1>13. BagMatch(u)'
  BY <1>1, <1>2, <1>5, BagStays
<1>14. Match(u)'
  BY <1>2, <1>5, <1>6, <1>12, <1>13, WorldStays
<1>. QED
  BY <1>0, <1>1, <1>2, <1>11, <1>14, HandlerStep

\* item_merged: the first of its kind at the place is the one the server means.
LEMMA MergedStep ==
  ASSUME WorldInv, item_merged PROVE WorldInv'
<1>0. PICK p : p = packet
  OBVIOUS
<1>. DEFINE I == {j \in 1 .. Len(items) : items[j].item = p.item /\ items[j].place = p.place}
<1>1. PICK k : /\ k = IF I # {} THEN Min(I) ELSE 0
               /\ items' = IF k = 0 THEN items ELSE [items EXCEPT ![k].amount = p.amount % 256]
  BY <1>0 DEF item_merged, SelectInSeq
<1>2. /\ Takes("merge") /\ fault' = fault
      /\ UNCHANGED <<name, size, tiles, lock, players, count, last, me, bagVars, pc>>
  BY DEF item_merged, Receives
<1>3. (k = 0 /\ I = {}) \/ k \in I
  <2>1. I \subseteq Nat
    OBVIOUS
  <2>. HIDE DEF I
  <2>. QED
    BY <1>1, <2>1, First
<1>4. PICK s \in Server, u \in Server :
        Match(s) /\ Told(s, p, u) /\ Path(u, wire', srv) /\ p.type = "merge"
  BY <1>0, <1>2, Received
<1>5. ToldMerge(s, p, u)
  BY <1>4, ToldOf
<1>6. PICK d \in s.drops :
        /\ p.amount \in 0 .. 200 /\ d.item = p.item /\ d.place = p.place
        /\ u = [s EXCEPT !.drops = (s.drops \ {d}) \cup {[d EXCEPT !.amount = p.amount]}]
  BY <1>5 DEF ToldMerge, Cap
<1>. DEFINE n == [d EXCEPT !.amount = p.amount]
<1>7. /\ u.at = s.at /\ u.tiles = s.tiles /\ u.owner = s.owner /\ u.access = s.access
      /\ u.players = s.players /\ u.self = s.self /\ u.bag = s.bag
      /\ u.drops = (s.drops \ {d}) \cup {n} /\ u.last = s.last
  <2>1. s \in ServerTypes
    BY ServerFacts
  <2>. QED
    BY <1>6, <2>1 DEF ServerTypes
<1>8. UNCHANGED <<name, size, tiles, lock, players, count, last, me, bag, gems, called, pc>>
  BY <1>2 DEF Takes, bagVars
<1>9. p.amount % 256 = p.amount /\ p.amount \in 0 .. 255 /\ items \in Seq(Drop)
  <2>1. items \in Seq(Drop)
    BY BotFacts
  <2>2. ASSUME NEW a \in 0 .. 200 PROVE a % 256 = a /\ a \in 0 .. 255
    OBVIOUS
  <2>3. p.amount \in 0 .. 200
    BY <1>6
  <2>4. p.amount % 256 = p.amount /\ p.amount \in 0 .. 255
    BY <2>2, <2>3
  <2>. QED
    BY <2>1, <2>4
<1>10. ASSUME k \in I
       PROVE  /\ k \in 1 .. Len(items) /\ items[k] \in Drop /\ items[k] \in Range(items)
              /\ items[k].item = p.item /\ items[k].place = p.place
              /\ [items[k] EXCEPT !.amount = p.amount] \in Drop
              /\ items' = [items EXCEPT ![k] = [items[k] EXCEPT !.amount = p.amount]]
  <2>1. k \in 1 .. Len(items) /\ k # 0 /\ items[k].item = p.item /\ items[k].place = p.place
    BY <1>10
  <2>2. items[k] \in Drop /\ items[k] \in Range(items)
    <3>1. DOMAIN items = 1 .. Len(items) /\ items[k] \in Drop
      BY <1>9, <2>1, ElementOfSeq
    <3>. QED
      BY <2>1, <3>1 DEF Range
  <2>3. [items[k] EXCEPT !.amount = p.amount] \in Drop
    BY <1>9, <2>2 DEF Drop
  <2>4. items' = [items EXCEPT ![k].amount = p.amount]
    BY <1>1, <1>9, <2>1
  <2>. QED
    BY <2>1, <2>2, <2>3, <2>4
<1>11. items' \in Seq(Drop)
  <2>1. CASE k \in I
    BY <1>9, <1>10, <2>1, Replaced DEF SetAt
  <2>2. CASE k = 0
    BY <1>1, <1>9, <2>2
  <2>. QED
    BY <1>3, <2>1, <2>2
<1>12. BotTypes' /\ Collects'
  BY <1>2, <1>8, <1>11, RestTypes, BotFacts
<1>13. ASSUME u.at \in World PROVE ItemsMatch(u)'
  <2>1. Range(items) = s.drops /\ IsInjective(items) /\ last = s.last
    BY <1>4, <1>7, <1>13 DEF Match, ItemsMatch
  <2>2. k \in I
    <3>1. PICK j \in 1 .. Len(items) : items[j] = d
      BY <1>9, <2>1, LenProperties DEF Range
    <3>2. j \in I
      BY <1>6, <3>1
    <3>. QED
      BY <1>3, <3>2
  <2>. HIDE DEF I
  <2>3. Apart(s.drops)
    BY ServerFacts
  <2>4. items[k] = d
    BY <1>6, <1>10, <2>1, <2>2, <2>3 DEF Apart
  <2>5. d \in Drop /\ n \in Drop /\ n.id = d.id /\ items' = [items EXCEPT ![k] = n]
    <3>1. d \in Drop
      BY <1>10, <2>2, <2>4
    <3>2. n.id = d.id
      BY <3>1 DEF Drop
    <3>. QED
      BY <1>10, <2>2, <2>4, <3>1, <3>2
  <2>. HIDE DEF n
  <2>6. n \notin Range(items) \ {items[k]}
    BY <2>1, <2>3, <2>4, <2>5 DEF Apart
  <2>7. IsInjective(items') /\ Range(items') = (Range(items) \ {items[k]}) \cup {n}
    <3>1. k \in 1 .. Len(items) /\ items \in Seq(Drop)
      BY <1>9, <1>10, <2>2
    <3>2. n \in Drop /\ items' = SetAt(items, k, n)
      BY <2>5 DEF SetAt
    <3>3. IsInjective(items) /\ n \notin Range(items) \ {items[k]}
            => IsInjective(items') /\ Range(items') = (Range(items) \ {items[k]}) \cup {n}
      BY <3>1, <3>2, Replaced
    <3>. QED
      BY <2>1, <2>6, <3>3
  <2>. QED
    BY <1>7, <1>8, <2>1, <2>4, <2>7 DEF ItemsMatch
<1>14. BagMatch(u)'
  BY <1>2, <1>4, <1>7, BagStays
<1>15. Match(u)'
  BY <1>4, <1>7, <1>8, <1>13, <1>14, WorldStays
<1>. QED
  BY <1>0, <1>2, <1>4, <1>12, <1>15, HandlerStep

\* item_taken: the bot takes the item the server means out of the world, and
\* puts it into its inventory if it took it itself.
LEMMA TakenStep ==
  ASSUME WorldInv, item_taken PROVE WorldInv'
<1>0. PICK p : p = packet
  OBVIOUS
<1>. DEFINE I == {j \in 1 .. Len(items) : items[j].id = p.id}
<1>1. PICK k : /\ k = IF I # {} THEN Min(I) ELSE 0
               /\ IF k = 0 THEN UNCHANGED <<items, bagVars, pc>>
                  ELSE /\ items' = RemoveAt(items, k) /\ Invalidates
                       /\ IF p.by = me THEN Credit(items[k]) ELSE UNCHANGED bagVars
  BY <1>0 DEF item_taken, SelectInSeq
<1>2. Takes("take") /\ fault' = fault /\ UNCHANGED <<name, size, tiles, lock, players, count, last, me>>
  BY DEF item_taken, Receives
<1>3. (k = 0 /\ I = {}) \/ k \in I
  <2>1. I \subseteq Nat
    OBVIOUS
  <2>. HIDE DEF I
  <2>. QED
    BY <1>1, <2>1, First
<1>4. PICK s \in Server, u \in Server :
        Match(s) /\ Told(s, p, u) /\ Path(u, wire', srv) /\ p.type = "take"
  BY <1>0, <1>2, Received
<1>5. ToldTake(s, p, u)
  BY <1>4, ToldOf
<1>6. PICK d \in s.drops :
        /\ p.by \in NetId /\ s.self \in NetId /\ s.at \in World /\ d.id = p.id
        /\ p.by = s.self => d.item = Gem \/ s.bag[d.item] + d.amount <= Cap
        /\ u = [s EXCEPT !.drops = s.drops \ {d},
                         !.bag = [s.bag EXCEPT ![d.item] =
                                    IF p.by = s.self THEN s.bag[d.item] + d.amount ELSE s.bag[d.item]]]
  BY <1>5 DEF ToldTake
<1>7. /\ s \in ServerTypes /\ s.bag \in [Item -> Nat] /\ Gem \in Item /\ d \in SrvDrop
      /\ Apart(s.drops) /\ \A j \in Item \ {Gem} : s.bag[j] <= Cap
  <2>1. /\ s \in ServerTypes /\ s.bag \in [Item -> Nat] /\ s.drops \in SUBSET SrvDrop
        /\ Apart(s.drops) /\ \A j \in Item \ {Gem} : s.bag[j] <= Cap
    BY ServerFacts
  <2>2. Gem \in Item
    BY WorldAssumption
  <2>. QED
    BY <2>1, <2>2
<1>8. d.item \in Item /\ d.amount \in Nat /\ d.amount <= 200 /\ Cap = 200
  BY <1>7 DEF SrvDrop, Cap
<1>9. /\ u.at = s.at /\ u.tiles = s.tiles /\ u.owner = s.owner /\ u.access = s.access
      /\ u.players = s.players /\ u.self = s.self /\ u.last = s.last /\ u.drops = s.drops \ {d}
      /\ u.bag = [s.bag EXCEPT ![d.item] =
                    IF p.by = s.self THEN s.bag[d.item] + d.amount ELSE s.bag[d.item]]
  BY <1>6, <1>7 DEF ServerTypes
<1>10. /\ u.bag[d.item] = IF p.by = s.self THEN s.bag[d.item] + d.amount ELSE s.bag[d.item]
       /\ s.bag[d.item] \in Nat
       /\ \A j \in Item : j # d.item => u.bag[j] = s.bag[j]
  BY <1>7, <1>8, <1>9
<1>11. ItemsMatch(s) /\ PlayersMatch(s)
  BY <1>4, <1>6 DEF Match
<1>12. items \in Seq(Drop) /\ bag \in Held /\ gems \in Nat /\ \A j : Have(j) \in Nat /\ Have(j) <= 255
  <2>1. items \in Seq(Drop) /\ bag \in Held /\ gems \in Nat
    BY BotFacts
  <2>2. \A j : Have(j) \in 0 .. 255
    BY <2>1, HaveType
  <2>3. \A j : Have(j) \in Nat /\ Have(j) <= 255
    BY <2>2
  <2>. QED
    BY <2>1, <2>3
<1>13. k \in 1 .. Len(items) /\ k # 0 /\ items[k] = d
  <2>1. DOMAIN items = 1 .. Len(items) /\ Range(items) = s.drops
    BY <1>11, <1>12, LenProperties DEF ItemsMatch
  <2>2. PICK j \in 1 .. Len(items) : items[j] = d
    BY <2>1 DEF Range
  <2>3. j \in I
    BY <1>6, <2>2
  <2>4. k \in 1 .. Len(items) /\ k # 0 /\ items[k].id = d.id
    BY <1>3, <1>6, <2>3
  <2>5. items[k] \in s.drops
    BY <2>1, <2>4 DEF Range
  <2>6. \A e \in s.drops : e.id = d.id => e = d
    BY <1>7 DEF Apart
  <2>. QED
    BY <2>4, <2>5, <2>6
<1>. HIDE DEF I
<1>14. items' = RemoveAt(items, k) /\ Invalidates /\ IF p.by = me THEN Credit(d) ELSE UNCHANGED bagVars
  BY <1>1, <1>13
<1>15. UNCHANGED <<name, size, tiles, lock, players, count, last, me, called>>
  BY <1>2 DEF Takes
<1>16. items' \in Seq(Drop) /\ ItemsMatch(u)'
  <2>1. Range(items) = s.drops /\ IsInjective(items) /\ last = s.last
    BY <1>11 DEF ItemsMatch
  <2>2. items' \in Seq(Drop) /\ IsInjective(items') /\ Range(items') = Range(items) \ {d}
    BY <1>12, <1>13, <1>14, <2>1, Removed
  <2>. QED
    BY <1>9, <1>15, <2>1, <2>2 DEF ItemsMatch
<1>17. (Coming("inventory") => Coming("inventory")') /\ (Coming("bux") => Coming("bux")')
  BY <1>2, Applied
<1>18. BagMatch(s)
  BY <1>4 DEF Match
<1>19. bag' \in Held /\ gems' \in Nat /\ BagMatch(u)'
  <2>1. CASE p.by # me
    <3>1. UNCHANGED <<bag, gems, called>>
      BY <1>14, <1>15, <2>1 DEF bagVars
    <3>2. \A j : Have(j)' = Have(j)
      BY <3>1 DEF Have
    <3>3. p.by = s.self => "reset" \in called
      <4>1. s.self # 0
        BY <1>6, WorldAssumption
      <4>. QED
        BY <1>11, <2>1, <4>1 DEF PlayersMatch
    <3>4. \A j \in Item : s.bag[j] \in Nat /\ u.bag[j] \in Nat /\ s.bag[j] <= u.bag[j]
          /\ ("reset" \in called \/ u.bag[j] = s.bag[j])
      <4>1. s.bag[d.item] <= u.bag[d.item] /\ u.bag[d.item] \in Nat
            /\ ("reset" \in called \/ u.bag[d.item] = s.bag[d.item])
        BY <1>8, <1>10, <3>3
      <4>. QED
        BY <1>7, <1>10, <4>1
    <3>5. \/ Coming("bux")'
          \/ gems' <= u.bag[Gem] /\ ("reset" \in called' \/ gems' = u.bag[Gem])
      <4>1. \/ Coming("bux")
            \/ gems <= s.bag[Gem] /\ ("reset" \in called \/ gems = s.bag[Gem])
        BY <1>18 DEF BagMatch
      <4>. QED
        BY <1>7, <1>12, <1>17, <3>1, <3>4, <4>1
    <3>6. \/ Coming("inventory")'
          \/ \A j \in Item \ {Gem} : Have(j)' <= u.bag[j] /\ ("reset" \in called' \/ Have(j)' = u.bag[j])
      <4>1. \/ Coming("inventory")
            \/ \A j \in Item \ {Gem} : Have(j) <= s.bag[j] /\ ("reset" \in called \/ Have(j) = s.bag[j])
        BY <1>18 DEF BagMatch
      <4>2. ASSUME NEW j \in Item \ {Gem}, Have(j) <= s.bag[j], "reset" \in called \/ Have(j) = s.bag[j]
            PROVE  Have(j)' <= u.bag[j] /\ ("reset" \in called' \/ Have(j)' = u.bag[j])
        BY <1>12, <3>1, <3>2, <3>4, <4>2
      <4>. QED
        BY <1>17, <4>1, <4>2
    <3>. QED
      BY <1>12, <3>1, <3>5, <3>6 DEF BagMatch
  <2>2. CASE p.by = me
    <3>1. me = s.self /\ p.by = s.self
      <4>1. me # 0 /\ s.self # 0
        BY <1>6, <2>2, WorldAssumption
      <4>. QED
        BY <1>11, <2>2, <4>1 DEF PlayersMatch
    <3>2. u.bag[d.item] = s.bag[d.item] + d.amount /\ Credit(d)
      BY <1>10, <1>14, <2>2, <3>1
    <3>3. CASE d.item = Gem
      <4>1. gems' = gems + d.amount /\ bag' = bag /\ called' = called
        BY <1>15, <3>2, <3>3 DEF Credit
      <4>2. \A j : Have(j)' = Have(j)
        BY <4>1 DEF Have
      <4>3. \/ Coming("bux")'
            \/ gems' <= u.bag[Gem] /\ ("reset" \in called' \/ gems' = u.bag[Gem])
        <5>1. \/ Coming("bux")
              \/ gems <= s.bag[Gem] /\ ("reset" \in called \/ gems = s.bag[Gem])
          BY <1>18 DEF BagMatch
        <5>2. gems \in Nat /\ d.amount \in Nat /\ s.bag[Gem] \in Nat /\ u.bag[Gem] = s.bag[Gem] + d.amount
          BY <1>8, <1>10, <1>12, <3>2, <3>3
        <5>3. ASSUME gems <= s.bag[Gem], "reset" \in called \/ gems = s.bag[Gem]
              PROVE  gems' <= u.bag[Gem] /\ ("reset" \in called' \/ gems' = u.bag[Gem])
          BY <4>1, <5>2, <5>3
        <5>. QED
          BY <1>17, <5>1, <5>3
      <4>4. \/ Coming("inventory")'
            \/ \A j \in Item \ {Gem} : Have(j)' <= u.bag[j] /\ ("reset" \in called' \/ Have(j)' = u.bag[j])
        <5>1. \A j \in Item \ {Gem} : u.bag[j] = s.bag[j]
          BY <1>10, <3>3
        <5>2. \/ Coming("inventory")
              \/ \A j \in Item \ {Gem} : Have(j) <= s.bag[j] /\ ("reset" \in called \/ Have(j) = s.bag[j])
          BY <1>18 DEF BagMatch
        <5>. QED
          BY <1>17, <4>1, <4>2, <5>1, <5>2
      <4>. QED
        BY <1>8, <1>12, <4>1, <4>3, <4>4 DEF BagMatch
    <3>4. CASE d.item # Gem
      <4>. DEFINE i == d.item
                  a == Added(i, d.amount)
      <4>1. gems' = gems /\ bag' = With(i, a) /\ called' = called
        BY <1>15, <3>2, <3>4 DEF Credit
      <4>2. s.bag[i] + d.amount <= 200
        BY <1>6, <1>8, <3>1, <3>4
      <4>3. a \in 0 .. 255 /\ (Have(i) + d.amount <= 200 => a = Have(i) + d.amount)
        <5>1. ASSUME NEW m \in Nat, NEW x \in Nat
              PROVE  /\ (m + x) % 256 \in 0 .. 255
                     /\ m + x <= 200 => (m + x) % 256 = m + x
          OBVIOUS
        <5>2. a = IF (Have(i) + d.amount) % 256 > 200 THEN 200 ELSE (Have(i) + d.amount) % 256
          BY <1>8 DEF Added
        <5>3. Have(i) \in Nat /\ d.amount \in Nat
          BY <1>8, <1>12
        <5>. DEFINE sum == (Have(i) + d.amount) % 256
        <5>4. /\ sum \in 0 .. 255
              /\ Have(i) + d.amount <= 200 => sum = Have(i) + d.amount
          BY <5>1, <5>3
        <5>5. a = IF sum > 200 THEN 200 ELSE sum
          BY <5>2
        <5>. HIDE DEF a, i, sum
        <5>. QED
          BY <5>3, <5>4, <5>5
      <4>. HIDE DEF a
      <4>4. i \in Item \ {Gem}
        BY <1>8, <3>4
      <4>5. bag' \in Held /\ Have(i)' = a /\ \A j : j # i => Have(j)' = Have(j)
        BY <1>12, <4>1, <4>3, <4>4, Put
      <4>6. \/ Coming("bux")'
            \/ gems' <= u.bag[Gem] /\ ("reset" \in called' \/ gems' = u.bag[Gem])
        <5>1. u.bag[Gem] = s.bag[Gem]
          BY <1>7, <1>10, <3>4
        <5>. QED
          BY <1>17, <1>18, <4>1, <5>1 DEF BagMatch
      <4>7. ASSUME NEW j \in Item \ {Gem}, Have(j) <= s.bag[j], "reset" \in called \/ Have(j) = s.bag[j]
            PROVE  Have(j)' <= u.bag[j] /\ ("reset" \in called' \/ Have(j)' = u.bag[j])
        <5>1. CASE j # i
          BY <1>10, <4>1, <4>5, <4>7, <5>1
        <5>2. CASE j = i
          <6>1. Have(i) \in Nat /\ s.bag[i] \in Nat /\ d.amount \in Nat /\ Have(i) <= s.bag[i]
            BY <1>8, <1>10, <1>12, <4>7, <5>2
          <6>2. Have(i) + d.amount <= 200 /\ Have(i)' = Have(i) + d.amount
            BY <4>2, <4>3, <4>5, <6>1
          <6>3. u.bag[i] = s.bag[i] + d.amount
            BY <3>2
          <6>. QED
            BY <4>1, <4>7, <5>2, <6>1, <6>2, <6>3
        <5>. QED
          BY <5>1, <5>2
      <4>8. \/ Coming("inventory")'
            \/ \A j \in Item \ {Gem} : Have(j)' <= u.bag[j] /\ ("reset" \in called' \/ Have(j)' = u.bag[j])
        <5>1. \/ Coming("inventory")
              \/ \A j \in Item \ {Gem} : Have(j) <= s.bag[j] /\ ("reset" \in called \/ Have(j) = s.bag[j])
          BY <1>18 DEF BagMatch
        <5>. QED
          BY <1>17, <4>7, <5>1
      <4>. QED
        BY <1>12, <4>1, <4>5, <4>6, <4>8 DEF BagMatch
    <3>. QED
      BY <3>3, <3>4
  <2>. QED
    BY <2>1, <2>2
<1>20. BotTypes' /\ Collects'
  BY <1>2, <1>14, <1>15, <1>16, <1>19, RestTypes, BotFacts
<1>21. Match(u)'
  BY <1>4, <1>9, <1>15, <1>16, <1>19, WorldStays
<1>. QED
  BY <1>0, <1>2, <1>4, <1>20, <1>21, HandlerStep

\* Where only tiles change, here and on the server, the bot still knows the rest.
LEMMA OthersStay ==
  ASSUME NEW s, NEW u, Match(s), BagMatch(u)', u.at \in World => TilesMatch(u)',
         u.at = s.at, u.drops = s.drops, u.last = s.last, u.players = s.players, u.self = s.self,
         UNCHANGED <<name, players, items, last, me, called>>
  PROVE  Match(u)'
<1>1. ASSUME u.at \in World PROVE ItemsMatch(u)' /\ PlayersMatch(u)' /\ TilesMatch(u)'
  <2>1. ItemsMatch(s) /\ PlayersMatch(s)
    BY <1>1 DEF Match
  <2>2. ItemsMatch(u)'
    BY <2>1 DEF ItemsMatch
  <2>3. PlayersMatch(u)'
    BY <2>1 DEF PlayersMatch
  <2>. QED
    BY <1>1, <2>2, <2>3
<1>. QED
  BY <1>1 DEF Match

\* What a change makes of a tile depends on what stands there only.
LEMMA ChangedFields ==
  ASSUME NEW t \in Tile \cup SrvTile, NEW item \in {"fist", "wall", "block"}
  PROVE  /\ Changed(t, item).fg = IF item = "fist" THEN "none" ELSE IF item = "block" THEN "block" ELSE t.fg
         /\ Changed(t, item).bg = IF item = "wall" THEN "wall"
                                  ELSE IF item = "fist" /\ t.fg = "none" THEN "none" ELSE t.bg
<1>1. CASE t \in Tile
  <2>1. CASE item = "fist" /\ t.fg # "none"
    BY <1>1, <2>1 DEF Changed, Tile
  <2>2. CASE item = "fist" /\ t.fg = "none"
    BY <1>1, <2>2 DEF Changed, Tile
  <2>3. CASE item = "wall"
    BY <1>1, <2>3 DEF Changed, Tile
  <2>4. CASE item = "block"
    BY <1>1, <2>4 DEF Changed, Tile
  <2>. QED
    BY <2>1, <2>2, <2>3, <2>4
<1>2. CASE t \in SrvTile
  <2>1. CASE item = "fist" /\ t.fg # "none"
    BY <1>2, <2>1 DEF Changed, SrvTile
  <2>2. CASE item = "fist" /\ t.fg = "none"
    BY <1>2, <2>2 DEF Changed, SrvTile
  <2>3. CASE item = "wall"
    BY <1>2, <2>3 DEF Changed, SrvTile
  <2>4. CASE item = "block"
    BY <1>2, <2>4 DEF Changed, SrvTile
  <2>. QED
    BY <2>1, <2>2, <2>3, <2>4
<1>. QED
  BY <1>1, <1>2

\* A harvest, too.
LEMMA HarvestedFields ==
  ASSUME NEW t \in Tile \cup SrvTile
  PROVE  [t EXCEPT !.fg = "none"].fg = "none" /\ [t EXCEPT !.fg = "none"].bg = t.bg
<1>1. CASE t \in Tile
  BY <1>1 DEF Tile
<1>2. CASE t \in SrvTile
  BY <1>2 DEF SrvTile
<1>. QED
  BY <1>1, <1>2

\* SetTile sets one tile.
LEMMA TileSet ==
  ASSUME tiles \in Seq(Tile), NEW x \in 1 .. Len(tiles), NEW t,
         t.fg \in {"none", "block", "lock"}, t.bg \in {"none", "wall"}, get_tile(x) = "tile", SetTile(x, t)
  PROVE  /\ tiles' \in Seq(Tile) /\ Len(tiles') = Len(tiles) /\ DOMAIN tiles' = DOMAIN tiles
         /\ tiles'[x].fg = t.fg /\ tiles'[x].bg = t.bg
         /\ \A y \in DOMAIN tiles : y # x => tiles'[y] = tiles[y]
<1>1. DOMAIN tiles = 1 .. Len(tiles) /\ tiles[x] \in Tile
  BY ElementOfSeq, LenProperties
<1>. DEFINE r == [[tiles[x] EXCEPT !.fg = t.fg] EXCEPT !.bg = t.bg]
<1>2. r \in Tile /\ r.fg = t.fg /\ r.bg = t.bg
  BY <1>1 DEF Tile
<1>3. tiles' = SetAt(tiles, x, r)
  BY <1>1 DEF SetTile, SetAt
<1>. HIDE DEF r
<1>4. tiles' \in Seq(Tile)
  BY <1>2, <1>3, Replaced
<1>5. tiles' = [tiles EXCEPT ![x] = r]
  BY <1>3 DEF SetAt
<1>6. Len(tiles') = Len(tiles)
  BY <1>4, <1>5, <1>1, LenProperties
<1>. QED
  BY <1>1, <1>2, <1>4, <1>5, <1>6

\* tile_change_request and send_tile_tree_state: the bot makes of its tile what
\* the server made of the one it has there.
LEMMA TileChangedStep ==
  ASSUME WorldInv, tile_change_request \/ send_tile_tree_state PROVE WorldInv'
<1>0. PICK p : p = packet
  OBVIOUS
<1>1. PICK type \in {"change", "tree"} :
        /\ Takes(type) /\ fault' \in {fault, "tile"}
        /\ UNCHANGED <<name, size, lock, players, items, count, last, me, bagVars, pc>>
        /\ type = "change" => SetTile(p.x, Changed(tiles[p.x], p.item))
        /\ type = "tree" => SetTile(p.x, [tiles[p.x] EXCEPT !.fg = "none"])
  <2>1. \A x, t : SetTile(x, t) => fault' \in {fault, "tile"}
    BY DEF SetTile
  <2>. QED
    BY <1>0, <2>1 DEF tile_change_request, send_tile_tree_state
<1>. DEFINE x == p.x
            N(t) == IF type = "change" THEN Changed(t, p.item) ELSE [t EXCEPT !.fg = "none"]
<1>2. PICK s \in Server, u \in Server :
        Match(s) /\ Told(s, p, u) /\ Path(u, wire', srv) /\ p.type = type
  BY <1>0, <1>1, Received
<1>3. ToldTile(s, p, u)
  BY <1>2, ToldOf
<1>4. /\ x \in DOMAIN s.tiles /\ type = "change" => p.item \in {"fist", "wall", "block"}
      /\ u = [s EXCEPT !.tiles = [s.tiles EXCEPT ![x] = N(s.tiles[x])]]
  BY <1>1, <1>2, <1>3 DEF ToldTile
<1>5. s \in ServerTypes /\ s.tiles \in Seq(SrvTile) /\ x \in DOMAIN s.tiles
  BY <1>3, ServerFacts DEF ToldTile
<1>6. \A t \in Tile \cup SrvTile : \A r \in Tile \cup SrvTile :
        t.fg = r.fg /\ t.bg = r.bg => N(t).fg = N(r).fg /\ N(t).bg = N(r).bg
  BY <1>1, <1>4, <1>5, ChangedFields, HarvestedFields
<1>7. \A t \in Tile \cup SrvTile :
        /\ N(t).fg \in {"none", "block", t.fg} /\ N(t).bg \in {"none", "wall", t.bg}
  BY <1>1, <1>4, <1>5, ChangedFields, HarvestedFields
<1>8. SetTile(x, N(tiles[x])) /\ (get_tile(x) # "tile" => tiles' = tiles)
  <2>1. SetTile(x, N(tiles[x]))
    BY <1>1
  <2>. QED
    BY <2>1 DEF SetTile
<1>. HIDE DEF N
<1>9. /\ u.at = s.at /\ u.owner = s.owner /\ u.access = s.access /\ u.bag = s.bag
      /\ u.drops = s.drops /\ u.last = s.last /\ u.players = s.players /\ u.self = s.self
      /\ u.tiles = [s.tiles EXCEPT ![x] = N(s.tiles[x])]
  BY <1>4, <1>5 DEF ServerTypes
<1>10. UNCHANGED <<name, size, lock, players, items, count, last, me, bag, gems, pc, called>>
  BY <1>1 DEF bagVars, Takes
<1>. HIDE DEF x
<1>11. /\ tiles \in Seq(Tile) /\ size \in Nat
       /\ Len(s.tiles) \in Nat /\ DOMAIN s.tiles = 1 .. Len(s.tiles) /\ x \in Nat /\ x >= 1
       /\ \A y \in DOMAIN s.tiles : s.tiles[y] \in SrvTile
       /\ Len(tiles) \in Nat /\ DOMAIN tiles = 1 .. Len(tiles)
       /\ \A y \in DOMAIN tiles : tiles[y] \in Tile
  <2>1. tiles \in Seq(Tile) /\ size \in Nat
    BY BotFacts
  <2>2. /\ Len(s.tiles) \in Nat /\ DOMAIN s.tiles = 1 .. Len(s.tiles)
        /\ \A y \in DOMAIN s.tiles : s.tiles[y] \in SrvTile
    BY <1>5, ElementOfSeq
  <2>3. /\ Len(tiles) \in Nat /\ DOMAIN tiles = 1 .. Len(tiles)
        /\ \A y \in DOMAIN tiles : tiles[y] \in Tile
    BY <2>1, ElementOfSeq
  <2>4. x \in Nat /\ x >= 1
    BY <1>5, <2>2 DEF x
  <2>. QED
    BY <2>1, <2>2, <2>3, <2>4
<1>12. ASSUME get_tile(x) = "tile"
       PROVE  /\ x \in DOMAIN tiles
              /\ tiles' \in Seq(Tile) /\ Len(tiles') = Len(tiles) /\ DOMAIN tiles' = DOMAIN tiles
              /\ tiles'[x].fg = N(tiles[x]).fg /\ tiles'[x].bg = N(tiles[x]).bg
              /\ \A y \in DOMAIN tiles : y # x => tiles'[y] = tiles[y]
  <2>1. x <= Len(tiles)
    BY <1>11, <1>12 DEF get_tile
  <2>2. x \in 1 .. Len(tiles) /\ x \in DOMAIN tiles
    BY <1>11, <2>1
  <2>3. /\ tiles[x] \in Tile /\ tiles[x].fg \in {"none", "block", "lock"} /\ tiles[x].bg \in {"none", "wall"}
    BY <1>11, <2>2 DEF Tile
  <2>4. N(tiles[x]).fg \in {"none", "block", "lock"} /\ N(tiles[x]).bg \in {"none", "wall"}
    BY <1>7, <2>3
  <2>5. SetTile(x, N(tiles[x]))
    BY <1>8
  <2>. QED
    BY <1>11, <1>12, <2>2, <2>4, <2>5, TileSet
<1>13. tiles' \in Seq(Tile)
  BY <1>8, <1>11, <1>12
<1>14. BotTypes' /\ Collects'
  BY <1>1, <1>10, <1>13, RestTypes, BotFacts
<1>15. ASSUME u.at \in World PROVE TilesMatch(u)'
  <2>1. TilesMatch(s)
    BY <1>2, <1>9, <1>15 DEF Match
  <2>2. size = Len(tiles) /\ Len(tiles) = Len(s.tiles)
        /\ \A y \in DOMAIN tiles : tiles[y].fg = s.tiles[y].fg /\ tiles[y].bg = s.tiles[y].bg
    BY <2>1 DEF TilesMatch
  <2>3. x \in DOMAIN s.tiles /\ x \in DOMAIN tiles /\ DOMAIN tiles = DOMAIN s.tiles
    BY <1>5, <1>11, <2>2 DEF x
  <2>4. get_tile(x) = "tile"
    BY <1>11, <2>2, <2>3 DEF get_tile
  <2>5. /\ DOMAIN u.tiles = DOMAIN s.tiles /\ Len(u.tiles) = Len(s.tiles)
        /\ u.tiles[x] = N(s.tiles[x]) /\ \A y \in DOMAIN s.tiles : y # x => u.tiles[y] = s.tiles[y]
    <3>1. u.tiles \in Seq(SrvTile)
      BY ServerFacts
    <3>2. DOMAIN u.tiles = DOMAIN s.tiles
          /\ u.tiles[x] = N(s.tiles[x]) /\ \A y \in DOMAIN s.tiles : y # x => u.tiles[y] = s.tiles[y]
      BY <1>9, <2>3
    <3>3. Len(u.tiles) \in Nat /\ DOMAIN u.tiles = 1 .. Len(u.tiles)
      BY <3>1, LenProperties
    <3>. QED
      BY <1>11, <3>2, <3>3
  <2>6. N(tiles[x]).fg = N(s.tiles[x]).fg /\ N(tiles[x]).bg = N(s.tiles[x]).bg
    BY <1>6, <1>11, <2>2, <2>3
  <2>7. \A y \in DOMAIN tiles' : tiles'[y].fg = u.tiles[y].fg /\ tiles'[y].bg = u.tiles[y].bg
    BY <1>12, <2>2, <2>3, <2>4, <2>5, <2>6
  <2>8. ASSUME NEW y \in DOMAIN u.tiles, u.tiles[y].fg = "lock" PROVE s.tiles[y].fg = "lock"
    <3>1. CASE y = x
      BY <1>7, <1>11, <2>3, <2>5, <2>8, <3>1
    <3>2. CASE y # x
      BY <2>5, <2>8, <3>2
    <3>. QED
      BY <3>1, <3>2
  <2>9. (\E y \in DOMAIN u.tiles : u.tiles[y].fg = "lock")
          => lock'.owner = u.owner % Word /\ u.access \subseteq lock'.access
    BY <1>9, <1>10, <2>1, <2>5, <2>8 DEF TilesMatch
  <2>10. size' = Len(tiles') /\ Len(tiles') = Len(u.tiles)
    BY <1>10, <1>12, <2>2, <2>4, <2>5
  <2>. QED
    BY <2>7, <2>9, <2>10 DEF TilesMatch
<1>16. BagMatch(u)'
  BY <1>1, <1>2, <1>9, BagStays
<1>17. Match(u)'
  BY <1>2, <1>9, <1>10, <1>15, <1>16, OthersStay
<1>. QED
  BY <1>0, <1>1, <1>2, <1>14, <1>17, HandlerStep

\* What reading a tile again makes of it.
LEMMA UpdatedTile ==
  ASSUME NEW old \in Tile, NEW t \in SrvTile, NEW owner \in Nat, NEW access \in SUBSET Uid
  PROVE  /\ Updated(old, t, owner, access) \in Tile
         /\ Updated(old, t, owner, access).fg = t.fg /\ Updated(old, t, owner, access).bg = t.bg
         /\ t.fg = "lock" => /\ Updated(old, t, owner, access).lock \in Lock
                             /\ Updated(old, t, owner, access).lock.owner = owner % Word
                             /\ access \subseteq Updated(old, t, owner, access).lock.access
<1>1. Word \in Nat \ {0}
  BY DEF Word
<1>2. owner % Word \in 0 .. Word - 1
  BY <1>1, CutFits
<1>3. /\ old.lock \in Lock /\ old.lock.access \in SUBSET Uid
      /\ t.fg \in {"none", "block", "lock"} /\ t.bg \in {"none", "wall"}
  BY DEF Tile, Lock, SrvTile
<1>. DEFINE new == [owner |-> owner % Word, access |-> old.lock.access \cup access]
            l == IF t.fg = "lock" THEN new ELSE old.lock
            r == [fg |-> t.fg, bg |-> t.bg, lock |-> l]
<1>4. new \in Lock /\ new.owner = owner % Word /\ access \subseteq new.access
  BY <1>2, <1>3 DEF Lock
<1>5. Updated(old, t, owner, access) = r
  BY DEF Updated
<1>. HIDE DEF new
<1>6. l \in Lock
  BY <1>3, <1>4
<1>7. t.fg = "lock" => l = new
  OBVIOUS
<1>. HIDE DEF l
<1>8. r \in Tile /\ r.fg = t.fg /\ r.bg = t.bg /\ r.lock = l
  BY <1>3, <1>6 DEF Tile
<1>. HIDE DEF r
<1>. QED
  BY <1>4, <1>5, <1>7, <1>8

\* UpdateTiles reads the tiles of new again, and what the world knows of its
\* lock follows.
LEMMA TilesUpdated ==
  ASSUME tiles \in Seq(Tile), lock \in Lock, NEW p, p = packet, NEW new, UpdateTiles(new),
         p.owner \in Nat, p.access \in SUBSET Uid, \A x \in DOMAIN new : new[x] \in SrvTile
  PROVE  /\ tiles' \in Seq(Tile) /\ Len(tiles') = Len(tiles) /\ DOMAIN tiles' = DOMAIN tiles
         /\ \A x \in DOMAIN tiles :
              IF x \in DOMAIN new THEN tiles'[x].fg = new[x].fg /\ tiles'[x].bg = new[x].bg
              ELSE tiles'[x] = tiles[x]
         /\ lock' \in Lock
         /\ \/ lock' = lock /\ \A x \in DOMAIN tiles \cap DOMAIN new : new[x].fg # "lock"
            \/ lock'.owner = p.owner % Word /\ p.access \subseteq lock'.access
<1>. DEFINE U(x) == Updated(tiles[x], new[x], p.owner, p.access)
            locks == {x \in DOMAIN tiles \cap DOMAIN new : new[x].fg = "lock"}
<1>1. /\ tiles' = [x \in DOMAIN tiles |-> IF x \in DOMAIN new THEN U(x) ELSE tiles[x]]
      /\ lock' = IF locks = {} THEN lock ELSE tiles'[CHOOSE x \in locks : TRUE].lock
  BY DEF UpdateTiles
<1>2. /\ Len(tiles) \in Nat /\ DOMAIN tiles = 1 .. Len(tiles)
      /\ \A x \in DOMAIN tiles : tiles[x] \in Tile
  BY ElementOfSeq
<1>3. \A x \in DOMAIN tiles \cap DOMAIN new :
        /\ U(x) \in Tile /\ U(x).fg = new[x].fg /\ U(x).bg = new[x].bg
        /\ new[x].fg = "lock" => /\ U(x).lock \in Lock /\ U(x).lock.owner = p.owner % Word
                                 /\ p.access \subseteq U(x).lock.access
  BY <1>2, UpdatedTile
<1>. HIDE DEF U
<1>4. tiles' = [x \in 1 .. Len(tiles) |-> IF x \in DOMAIN new THEN U(x) ELSE tiles[x]]
  BY <1>1, <1>2
<1>5. \A x \in 1 .. Len(tiles) : (IF x \in DOMAIN new THEN U(x) ELSE tiles[x]) \in Tile
  BY <1>2, <1>3
<1>6. tiles' \in [1 .. Len(tiles) -> Tile]
  BY <1>4, <1>5
<1>7. tiles' \in Seq(Tile) /\ Len(tiles') = Len(tiles) /\ DOMAIN tiles' = DOMAIN tiles
  BY <1>2, <1>6, SeqDef, LenProperties
<1>8. \A x \in DOMAIN tiles :
        IF x \in DOMAIN new THEN tiles'[x].fg = new[x].fg /\ tiles'[x].bg = new[x].bg
        ELSE tiles'[x] = tiles[x]
  BY <1>1, <1>3
<1>9. CASE locks = {}
  BY <1>1, <1>7, <1>8, <1>9
<1>10. CASE locks # {}
  <2>. DEFINE x == CHOOSE x \in locks : TRUE
  <2>1. x \in locks
    BY <1>10
  <2>2. lock' = tiles'[x].lock
    BY <1>1, <1>10
  <2>. HIDE DEF x
  <2>3. x \in DOMAIN tiles \cap DOMAIN new /\ new[x].fg = "lock"
    BY <2>1
  <2>4. tiles'[x] = U(x)
    BY <1>1, <2>3
  <2>. QED
    BY <1>3, <1>7, <1>8, <2>2, <2>3, <2>4
<1>. QED
  BY <1>9, <1>10

\* send_tile_update_data and send_tile_update_data_multiple.
LEMMA TileUpdatedStep ==
  ASSUME WorldInv, send_tile_update_data \/ send_tile_update_data_multiple PROVE WorldInv'
<1>0. PICK p : p = packet
  OBVIOUS
<1>. DEFINE Read(type, new) ==
              /\ Takes(type) /\ fault' = fault /\ UpdateTiles(new)
              /\ type = "update" => new = [x \in {p.x} |-> p.tile]
              /\ type = "updates" => new = p.tiles
<1>t. PICK type \in {"update", "updates"} : \E new : Read(type, new)
  BY <1>0 DEF send_tile_update_data, send_tile_update_data_multiple, Receives
<1>1. PICK new : Read(type, new)
  BY <1>t
<1>2. PICK s \in Server, u \in Server :
        Match(s) /\ Told(s, p, u) /\ Path(u, wire', srv) /\ p.type = type
  BY <1>0, <1>1, Received
<1>3. /\ s \in ServerTypes /\ s.tiles \in Seq(SrvTile) /\ s.owner \in Uid \cup {0} /\ s.access \in SUBSET Uid
      /\ Uid \subseteq Nat
  BY ServerFacts, WorldAssumption DEF ServerTypes
<1>4. /\ Len(s.tiles) \in Nat /\ DOMAIN s.tiles = 1 .. Len(s.tiles)
      /\ \A x \in DOMAIN s.tiles : s.tiles[x] \in SrvTile
  BY <1>3, ElementOfSeq
<1>5. /\ \A x \in DOMAIN new : new[x] \in SrvTile
      /\ DOMAIN new \subseteq DOMAIN s.tiles
      /\ p.owner \in Uid \cup {0} /\ p.access \in SUBSET Uid
      /\ u.at = s.at /\ u.owner = p.owner /\ u.access = p.access /\ u.bag = s.bag
      /\ u.drops = s.drops /\ u.last = s.last /\ u.players = s.players /\ u.self = s.self
      /\ DOMAIN u.tiles = DOMAIN s.tiles
      /\ \A x \in DOMAIN s.tiles : u.tiles[x] = IF x \in DOMAIN new THEN new[x] ELSE s.tiles[x]
      /\ \/ \E x \in DOMAIN new : new[x].fg = "lock"
         \/ /\ u.owner = s.owner /\ u.access = s.access
            /\ \A x \in DOMAIN s.tiles : u.tiles[x].fg = s.tiles[x].fg
  <2>1. CASE type = "update"
    <3>1. ToldTile(s, p, u)
      BY <1>2, <2>1, ToldOf
    <3>2. /\ p.x \in DOMAIN s.tiles /\ p.tile = [fg |-> "lock", bg |-> s.tiles[p.x].bg]
          /\ p.owner \in Uid \cup {0} /\ p.access \in SUBSET Uid
          /\ u = [s EXCEPT !.tiles = [s.tiles EXCEPT ![p.x] = p.tile], !.owner = p.owner, !.access = p.access]
      BY <1>2, <2>1, <3>1 DEF ToldTile
    <3>3. s.tiles[p.x] \in SrvTile
      BY <1>4, <3>2
    <3>4. p.tile \in SrvTile /\ p.tile.fg = "lock"
      BY <3>2, <3>3 DEF SrvTile
    <3>5. new = [x \in {p.x} |-> p.tile]
      BY <1>1, <2>1
    <3>6. DOMAIN new = {p.x} /\ new[p.x] = p.tile
      BY <3>5
    <3>7. /\ u.at = s.at /\ u.owner = p.owner /\ u.access = p.access /\ u.bag = s.bag
          /\ u.drops = s.drops /\ u.last = s.last /\ u.players = s.players /\ u.self = s.self
          /\ u.tiles = [s.tiles EXCEPT ![p.x] = p.tile]
      BY <1>3, <3>2 DEF ServerTypes
    <3>8. /\ DOMAIN u.tiles = DOMAIN s.tiles
          /\ \A x \in DOMAIN s.tiles : u.tiles[x] = IF x \in DOMAIN new THEN new[x] ELSE s.tiles[x]
      BY <3>2, <3>6, <3>7
    <3>. QED
      BY <3>2, <3>4, <3>6, <3>7, <3>8
  <2>2. CASE type = "updates"
    <3>1. ToldTiles(s, p, u)
      BY <1>2, <2>2, ToldOf
    <3>2. /\ p.owner = s.owner /\ p.access = s.access
          /\ p.tiles \in Seq(SrvTile) /\ DOMAIN p.tiles = DOMAIN s.tiles
          /\ \A x \in DOMAIN s.tiles : p.tiles[x].fg = s.tiles[x].fg
          /\ u = [s EXCEPT !.tiles = p.tiles]
      BY <3>1 DEF ToldTiles
    <3>3. new = p.tiles
      BY <1>1, <2>2
    <3>4. /\ u.at = s.at /\ u.owner = s.owner /\ u.access = s.access /\ u.bag = s.bag
          /\ u.drops = s.drops /\ u.last = s.last /\ u.players = s.players /\ u.self = s.self
          /\ u.tiles = p.tiles
      BY <1>3, <3>2 DEF ServerTypes
    <3>5. \A x \in DOMAIN p.tiles : p.tiles[x] \in SrvTile
      BY <3>2, ElementOfSeq
    <3>. QED
      BY <1>3, <3>2, <3>3, <3>4, <3>5
  <2>. QED
    BY <2>1, <2>2
<1>6. /\ tiles \in Seq(Tile) /\ lock \in Lock /\ p.owner \in Nat /\ p.access \in SUBSET Uid
  <2>1. p.owner \in Nat
    <3>1. p.owner \in Uid \cup {0}
      BY <1>5
    <3>2. Uid \cup {0} \subseteq Nat
      BY <1>3
    <3>. QED
      BY <3>1, <3>2
  <2>. QED
    BY <1>5, <2>1, BotFacts
<1>7. /\ tiles' \in Seq(Tile) /\ Len(tiles') = Len(tiles) /\ DOMAIN tiles' = DOMAIN tiles
      /\ \A x \in DOMAIN tiles :
           IF x \in DOMAIN new THEN tiles'[x].fg = new[x].fg /\ tiles'[x].bg = new[x].bg
           ELSE tiles'[x] = tiles[x]
      /\ lock' \in Lock
      /\ \/ lock' = lock /\ \A x \in DOMAIN tiles \cap DOMAIN new : new[x].fg # "lock"
         \/ lock'.owner = p.owner % Word /\ p.access \subseteq lock'.access
  BY <1>0, <1>1, <1>5, <1>6, TilesUpdated
<1>8. /\ UNCHANGED <<name, size, players, items, count, last, me, pc, called>>
      /\ UNCHANGED bagVars
  BY <1>1 DEF UpdateTiles, Takes
<1>9. BotTypes' /\ Collects'
  BY <1>1, <1>7, <1>8, RestTypes, BotFacts DEF bagVars
<1>10. ASSUME u.at \in World PROVE TilesMatch(u)'
  <2>1. TilesMatch(s)
    BY <1>2, <1>5, <1>10 DEF Match
  <2>2. /\ size = Len(tiles) /\ Len(tiles) = Len(s.tiles)
        /\ \A x \in DOMAIN tiles : tiles[x].fg = s.tiles[x].fg /\ tiles[x].bg = s.tiles[x].bg
    BY <2>1 DEF TilesMatch
  <2>3. DOMAIN tiles = DOMAIN s.tiles
    <3>1. DOMAIN tiles = 1 .. Len(tiles)
      BY <1>6, LenProperties
    <3>. QED
      BY <1>4, <2>2, <3>1
  <2>4. Len(u.tiles) = Len(s.tiles)
    <3>1. u.tiles \in Seq(SrvTile)
      BY ServerFacts
    <3>2. Len(u.tiles) \in Nat /\ DOMAIN u.tiles = 1 .. Len(u.tiles)
      BY <3>1, LenProperties
    <3>. QED
      BY <1>4, <1>5, <3>2
  <2>5. \A x \in DOMAIN tiles' : tiles'[x].fg = u.tiles[x].fg /\ tiles'[x].bg = u.tiles[x].bg
    BY <1>5, <1>7, <2>2, <2>3
  <2>6. (\E x \in DOMAIN u.tiles : u.tiles[x].fg = "lock")
          => lock'.owner = u.owner % Word /\ u.access \subseteq lock'.access
    <3>1. CASE lock'.owner = p.owner % Word /\ p.access \subseteq lock'.access
      BY <1>5, <3>1
    <3>2. CASE lock' = lock /\ \A x \in DOMAIN tiles \cap DOMAIN new : new[x].fg # "lock"
      <4>1. \A x \in DOMAIN new : new[x].fg # "lock"
        BY <1>5, <2>3, <3>2
      <4>2. /\ u.owner = s.owner /\ u.access = s.access
            /\ \A x \in DOMAIN s.tiles : u.tiles[x].fg = s.tiles[x].fg
        BY <1>5, <4>1
      <4>. QED
        BY <1>5, <2>1, <3>2, <4>2 DEF TilesMatch
    <3>. QED
      BY <1>7, <3>1, <3>2
  <2>7. size' = Len(tiles') /\ Len(tiles') = Len(u.tiles)
    BY <1>7, <1>8, <2>2, <2>4
  <2>. QED
    BY <2>5, <2>6, <2>7 DEF TilesMatch
<1>11. BagMatch(u)'
  BY <1>1, <1>2, <1>5, <1>8, BagStays
<1>12. Match(u)'
  BY <1>2, <1>5, <1>8, <1>10, <1>11, OthersStay
<1>. QED
  BY <1>1, <1>2, <1>9, <1>12, HandlerStep

\* Every handler keeps WorldInv.
LEMMA HandlersStep ==
  ASSUME WorldInv, Handlers PROVE WorldInv'
<1>1. CASE item_change_object
  BY <1>1, DroppedStep, MergedStep, TakenStep DEF item_change_object
<1>2. CASE tile_change_request \/ send_tile_tree_state
  BY <1>2, TileChangedStep
<1>3. CASE send_tile_update_data \/ send_tile_update_data_multiple
  BY <1>3, TileUpdatedStep
<1>4. CASE send_inventory_state \/ modify_item_inventory \/ OnSetBux
  BY <1>4, AnewStep, ModifiedStep
<1>5. CASE send_map_data \/ OnSpawn \/ OnRemove \/ OnRequestWorldSelectMenu
  BY <1>5, MapStep, MenuStep, PlayersStep
<1>. QED
  BY <1>1, <1>2, <1>3, <1>4, <1>5 DEF Handlers

-----------------------------------------------------------------------------
(***************************************************************************)
(* What the bot does besides.                                              *)
(***************************************************************************)
\* Where neither the server nor what the bot was told changes, the bot still
\* knows it, unless reset() takes the name or the net id away.
LEMMA OwnStep ==
  ASSUME WorldInv, BotTypes', Collects', called \subseteq called',
         UNCHANGED <<srv, online, wire, size, tiles, lock, players, items, count, last, bag, gems>>,
         name' = name \/ (name' = Unnamed /\ (online => "reset" \in called')),
         me' = me \/ (me' = 0 /\ (online => "reset" \in called'))
  PROVE  WorldInv'
<1>1. ASSUME online, NEW s, Match(s) PROVE Match(s)'
  <2>1. BagMatch(s)'
    <3>1. \A i : Have(i)' = Have(i)
      BY DEF Have
    <3>2. \A type : Coming(type)' <=> Coming(type)
      BY DEF Coming
    <3>3. BagMatch(s)
      BY <1>1 DEF Match
    <3>. QED
      BY <3>1, <3>2, <3>3 DEF BagMatch
  <2>2. ASSUME s.at \in World PROVE ItemsMatch(s)' /\ PlayersMatch(s)' /\ TilesMatch(s)'
    <3>1. ItemsMatch(s) /\ PlayersMatch(s) /\ TilesMatch(s)
      BY <1>1, <2>2 DEF Match
    <3>2. ItemsMatch(s)'
      BY <3>1 DEF ItemsMatch
    <3>3. PlayersMatch(s)'
      BY <1>1, <3>1 DEF PlayersMatch
    <3>4. TilesMatch(s)'
      BY <3>1 DEF TilesMatch
    <3>. QED
      BY <3>2, <3>3, <3>4
  <2>. QED
    BY <2>1, <2>2 DEF Match
<1>2. Knows'
  BY <1>1 DEF WorldInv, Knows, Path
<1>3. srv' \in Server /\ Offline' /\ Standing' /\ wire' \in Seq(Range(wire'))
  BY DEF WorldInv, TypesInv, Offline, Standing
<1>. QED
  BY <1>2, <1>3 DEF WorldInv, TypesInv

\* Where a thread gets to.
LEMMA ThreadTypes ==
  ASSUME WorldInv, NEW t \in Thread, NEW from, NEW to \in {"idle", "collect", "stale", "smoke", "failed", "reset"},
         Calls(t, from, to),
         \/ cur' = cur /\ to # "collect"
         \/ \E k \in Nat : cur' = [cur EXCEPT ![t] = k] /\ (to = "collect" => k > 0)
  PROVE  /\ pc' \in [Thread -> {"idle", "collect", "stale", "smoke", "failed", "reset"}]
         /\ cur' \in [Thread -> Nat] /\ Collects'
<1>1. /\ pc \in [Thread -> {"idle", "collect", "stale", "smoke", "failed", "reset"}] /\ cur \in [Thread -> Nat]
      /\ \A u \in Thread : pc[u] = "collect" => cur[u] > 0
  BY DEF WorldInv, TypesInv, BotTypes, Collects
<1>2. pc' = [pc EXCEPT ![t] = to]
  BY DEF Calls
<1>3. pc' \in [Thread -> {"idle", "collect", "stale", "smoke", "failed", "reset"}]
  BY <1>1, <1>2
<1>4. cur' \in [Thread -> Nat]
  BY <1>1
<1>5. \A u \in Thread : pc'[u] = "collect" => cur'[u] > 0
  BY <1>1, <1>2
<1>. QED
  BY <1>3, <1>4, <1>5 DEF Collects

\* The items of the list have ids.
LEMMA ItemIds ==
  ASSUME WorldInv PROVE Listed \subseteq Nat /\ \A k \in Nat \ {0} : k <= Len(items) => items[k].id \in Nat
<1>1. /\ items \in Seq(Drop) /\ DOMAIN items = 1 .. Len(items) /\ Len(items) \in Nat
      /\ \A k \in 1 .. Len(items) : items[k] \in Drop
  BY BotFacts, ElementOfSeq, LenProperties
<1>2. \A k \in 1 .. Len(items) : items[k].id \in Nat
  BY <1>1 DEF Drop
<1>3. Listed \subseteq Nat
  BY <1>1, <1>2 DEF Listed, Range
<1>. QED
  BY <1>1, <1>2, <1>3

\* collect, on a thread of the HTTP server.
LEMMA CollectStep ==
  ASSUME WorldInv, NEW t \in Thread, collect(t) \/ collect_next(t) \/ collect_stale(t) PROVE WorldInv'
<1>1. CASE collect(t)
  <2>1. /\ Calls(t, "idle", IF count = 0 THEN "idle" ELSE "collect") /\ cur' = [cur EXCEPT ![t] = 1]
        /\ called' = called \cup {"collect"}
        /\ UNCHANGED <<srvVars, worldVars, me, bagVars, macroVars, fault>>
    BY <1>1 DEF collect
  <2>2. UNCHANGED <<srv, online, wire, asked, events, name, size, tiles, lock, players, items, count, last,
                    me, bag, gems, auto, since, smoke_index, fault>>
    BY <2>1 DEF srvVars, worldVars, bagVars, macroVars
  <2>3. \E k \in Nat : cur' = [cur EXCEPT ![t] = k] /\ k > 0
    <3>. DEFINE k == 1
    <3>1. k \in Nat /\ cur' = [cur EXCEPT ![t] = k] /\ k > 0
      BY <2>1
    <3>. HIDE DEF k
    <3>. QED
      BY <3>1
  <2>4. (IF count = 0 THEN "idle" ELSE "collect") \in {"idle", "collect", "stale", "smoke", "failed", "reset"}
    OBVIOUS
  <2>5. /\ pc' \in [Thread -> {"idle", "collect", "stale", "smoke", "failed", "reset"}]
        /\ cur' \in [Thread -> Nat] /\ Collects'
    BY <2>1, <2>3, <2>4, ThreadTypes
  <2>6. called' \subseteq AllHttpOps
    BY <2>1 DEF AllHttpOps, WorldInv, TypesInv, BotTypes
  <2>7. BotTypes'
    BY <2>2, <2>5, <2>6 DEF WorldInv, TypesInv, BotTypes
  <2>. QED
    BY <2>1, <2>2, <2>5, <2>7, OwnStep
<1>2. CASE collect_next(t)
  <2>1. /\ Calls(t, "collect", IF cur[t] < Len(items) THEN "collect" ELSE "idle")
        /\ \E near \in BOOLEAN :
             asked' = IF online /\ near /\ cur[t] <= Len(items) THEN asked \cup {items[cur[t]].id} ELSE asked
        /\ cur' = [cur EXCEPT ![t] = IF cur[t] < Len(items) THEN cur[t] + 1 ELSE 0]
        /\ UNCHANGED <<srv, online, wire, events, worldVars, me, bagVars, macroVars, called, fault>>
    BY <1>2 DEF collect_next
  <2>2. UNCHANGED <<srv, online, wire, events, name, size, tiles, lock, players, items, count, last,
                    me, bag, gems, auto, since, smoke_index, called, fault>>
    BY <2>1 DEF worldVars, bagVars, macroVars
  <2>3. cur[t] \in Nat /\ cur[t] > 0 /\ asked \subseteq Nat
    BY <2>1 DEF WorldInv, TypesInv, BotTypes, Collects, Calls
  <2>4. asked' \subseteq Nat
    <3>1. asked' = asked \/ (cur[t] <= Len(items) /\ asked' = asked \cup {items[cur[t]].id})
      BY <2>1
    <3>2. cur[t] <= Len(items) => items[cur[t]].id \in Nat
      BY <2>3, ItemIds
    <3>. QED
      BY <2>3, <3>1, <3>2
  <2>5. (IF cur[t] < Len(items) THEN "collect" ELSE "idle") \in {"idle", "collect", "stale", "smoke", "failed", "reset"}
    OBVIOUS
  <2>6. \E k \in Nat : /\ cur' = [cur EXCEPT ![t] = k]
                       /\ (IF cur[t] < Len(items) THEN "collect" ELSE "idle") = "collect" => k > 0
    <3>. DEFINE k == IF cur[t] < Len(items) THEN cur[t] + 1 ELSE 0
    <3>1. k \in Nat /\ cur' = [cur EXCEPT ![t] = k]
      BY <2>1, <2>3
    <3>2. cur[t] < Len(items) => k > 0
      BY <2>3
    <3>. HIDE DEF k
    <3>. QED
      BY <3>1, <3>2
  <2>7. /\ pc' \in [Thread -> {"idle", "collect", "stale", "smoke", "failed", "reset"}]
        /\ cur' \in [Thread -> Nat] /\ Collects'
    BY <2>1, <2>5, <2>6, ThreadTypes
  <2>8. BotTypes'
    BY <2>2, <2>4, <2>7 DEF WorldInv, TypesInv, BotTypes
  <2>. QED
    BY <2>2, <2>7, <2>8, OwnStep
<1>3. CASE collect_stale(t)
  <2>1. /\ Calls(t, "stale", "idle") /\ fault' = "iterator"
        /\ UNCHANGED <<srvVars, worldVars, me, bagVars, macroVars, cur, called>>
    BY <1>3 DEF collect_stale
  <2>2. UNCHANGED <<srv, online, wire, asked, events, name, size, tiles, lock, players, items, count, last,
                    me, bag, gems, auto, since, smoke_index, cur, called>>
    BY <2>1 DEF srvVars, worldVars, bagVars, macroVars
  <2>3. /\ pc' \in [Thread -> {"idle", "collect", "stale", "smoke", "failed", "reset"}] /\ Collects'
    BY <2>1, <2>2, ThreadTypes
  <2>4. BotTypes'
    BY <2>1, <2>2, <2>3 DEF WorldInv, TypesInv, BotTypes
  <2>. QED
    BY <2>2, <2>3, <2>4, OwnStep
<1>. QED
  BY <1>1, <1>2, <1>3

\* smoke, and the macros of service_poll.
LEMMA SmokeStep ==
  ASSUME WorldInv, NEW t \in Thread,
         smoke(t) \/ smoke_read(t) \/ (t = Main /\ \E gap \in Gap : macros(gap))
  PROVE  WorldInv'
<1>1. /\ smoke_index \in Nat /\ called \subseteq AllHttpOps /\ asked \subseteq Nat
      /\ fault \in {"none", "iterator", "player", "tile"}
  BY DEF WorldInv, TypesInv, BotTypes
<1>2. Checked \in Nat
  BY <1>1 DEF Checked
<1>3. (IF players = <<>> THEN "idle" ELSE "smoke") \in {"idle", "stale", "smoke", "failed", "reset"}
  OBVIOUS
<1>4. PICK from, to \in {"idle", "stale", "smoke", "failed", "reset"} :
        /\ Calls(t, from, to) /\ smoke_index' \in Nat /\ since' \in {since, 0}
        /\ called \subseteq called' /\ called' \subseteq AllHttpOps
        /\ asked' \subseteq Nat /\ fault' \in {fault, "player"}
        /\ UNCHANGED <<srv, online, wire, events, name, size, tiles, lock, players, items, count, last,
                       me, bag, gems, auto, cur>>
  <2>1. CASE smoke(t)
    <3>1. /\ Calls(t, "idle", IF players = <<>> THEN "idle" ELSE "smoke")
          /\ smoke_index' = Checked /\ called' = called \cup {"smoke"}
          /\ UNCHANGED <<srvVars, worldVars, me, bagVars, auto, since, cur, fault>>
      BY <2>1 DEF smoke
    <3>2. UNCHANGED <<srv, online, wire, asked, events, name, size, tiles, lock, players, items, count, last,
                      me, bag, gems, auto, since, cur, fault>>
      BY <3>1 DEF srvVars, worldVars, bagVars
    <3>3. called' \subseteq AllHttpOps
      BY <1>1, <3>1 DEF AllHttpOps
    <3>. QED
      BY <1>1, <1>2, <1>3, <3>1, <3>2, <3>3
  <2>2. CASE smoke_read(t)
    <3>1. /\ Calls(t, "smoke", "idle")
          /\ \/ smoke_index' = smoke_index + 1 /\ fault' = fault
             \/ smoke_index' = smoke_index /\ fault' = "player"
          /\ UNCHANGED <<srvVars, worldVars, me, bagVars, auto, since, cur, called>>
      BY <2>2 DEF smoke_read
    <3>2. UNCHANGED <<srv, online, wire, asked, events, name, size, tiles, lock, players, items, count, last,
                      me, bag, gems, auto, since, cur, called>>
      BY <3>1 DEF srvVars, worldVars, bagVars
    <3>3. smoke_index' \in Nat /\ fault' \in {fault, "player"}
      BY <1>1, <3>1
    <3>. QED
      BY <1>1, <3>1, <3>2, <3>3
  <2>3. CASE t = Main /\ \E gap \in Gap : macros(gap)
    <3>1. PICK gap \in Gap : macros(gap)
      BY <2>3
    <3>2. /\ Calls(t, "idle", IF players = <<>> THEN "idle" ELSE "smoke")
          /\ \E near \in SUBSET Listed :
               asked' = IF online /\ auto /\ since + gap > Interval THEN asked \cup near ELSE asked
          /\ smoke_index' = Checked /\ since' = 0
          /\ UNCHANGED <<srv, online, wire, events, worldVars, me, bagVars, auto, cur, called, fault>>
      BY <2>3, <3>1 DEF macros
    <3>3. UNCHANGED <<srv, online, wire, events, name, size, tiles, lock, players, items, count, last,
                      me, bag, gems, auto, cur, called, fault>>
      BY <3>2 DEF worldVars, bagVars
    <3>4. asked' \subseteq Nat
      <4>1. Listed \subseteq Nat
        BY ItemIds
      <4>2. PICK near \in SUBSET Listed : asked' = asked \cup near \/ asked' = asked
        BY <3>2
      <4>. QED
        BY <1>1, <4>1, <4>2
    <3>. QED
      BY <1>1, <1>2, <1>3, <3>2, <3>3, <3>4
  <2>. QED
    BY <2>1, <2>2, <2>3
<1>5. /\ pc' \in [Thread -> {"idle", "collect", "stale", "smoke", "failed", "reset"}] /\ Collects'
  <2>1. cur' = cur /\ to # "collect" /\ to \in {"idle", "collect", "stale", "smoke", "failed", "reset"}
    BY <1>4
  <2>. QED
    BY <1>4, <2>1, ThreadTypes
<1>6. BotTypes'
  <2>1. since' \in Nat /\ fault' \in {"none", "iterator", "player", "tile"}
    BY <1>1, <1>4 DEF WorldInv, TypesInv, BotTypes
  <2>. QED
    BY <1>4, <1>5, <2>1 DEF WorldInv, TypesInv, BotTypes
<1>. QED
  BY <1>4, <1>5, <1>6, OwnStep

\* reset on a thread of the HTTP server and on a reconnect thread, a script's
\* auto_collect, and the reader of the tiles.
LEMMA ResetStep ==
  ASSUME WorldInv,
         \/ l_auto_collect
         \/ \E t \in Thread : \/ reset(t) \/ reconnect_reset(t) \/ reset_player(t)
                             \/ connect_fails(t) \/ on_get_world_tiles(t)
  PROVE  WorldInv'
<1>2. CASE l_auto_collect
  <2>1. UNCHANGED <<srv, online, wire, asked, events, name, size, tiles, lock, players, items, count, last,
                    me, bag, gems, since, smoke_index, pc, cur, called, fault>>
    BY <1>2 DEF l_auto_collect, srvVars, worldVars, bagVars, threadVars
  <2>2. auto' \in BOOLEAN
    BY <1>2 DEF l_auto_collect
  <2>3. BotTypes'
    BY <2>1, <2>2 DEF WorldInv, TypesInv, BotTypes
  <2>4. Collects'
    BY <2>1 DEF WorldInv, TypesInv, Collects
  <2>. QED
    BY <2>1, <2>3, <2>4, OwnStep
<1>3. ASSUME NEW t \in Thread, \/ reset(t) \/ reconnect_reset(t) \/ reset_player(t)
                                \/ connect_fails(t) \/ on_get_world_tiles(t)
      PROVE  WorldInv'
  <2>1. PICK from, to \in {"idle", "stale", "smoke", "failed", "reset"} :
          /\ Calls(t, from, to)
          /\ \/ UNCHANGED <<name, me, called>> /\ fault' \in {fault, "tile"}
             \/ name' = Unnamed /\ me' = me /\ called' = called \cup {"reset"} /\ fault' = fault
             \/ me' = 0 /\ name' = name /\ called' = called \cup {"reset"} /\ fault' = fault
          /\ UNCHANGED <<srv, online, wire, asked, events, size, tiles, lock, players, items, count, last,
                         bag, gems, auto, since, smoke_index, cur>>
    <3>1. ASSUME NEW from \in {"idle", "failed"}, ResetFrom(t, from)
          PROVE  \E to \in {"idle", "stale", "smoke", "failed", "reset"} :
                   /\ Calls(t, from, to)
                   /\ name' = Unnamed /\ me' = me /\ called' = called \cup {"reset"} /\ fault' = fault
                   /\ UNCHANGED <<srv, online, wire, asked, events, size, tiles, lock, players, items,
                                  count, last, bag, gems, auto, since, smoke_index, cur>>
      <4>1. /\ Calls(t, from, "reset")
            /\ name' = Unnamed /\ me' = me /\ called' = called \cup {"reset"} /\ fault' = fault
            /\ UNCHANGED <<srv, online, wire, asked, events, size, tiles, lock, players, items, count, last,
                           bag, gems, auto, since, smoke_index, cur>>
        BY <3>1 DEF ResetFrom, srvVars, bagVars, macroVars
      <4>. QED
        BY <4>1
    <3>2. CASE reset_player(t)
      <4>1. /\ Calls(t, "reset", "idle")
            /\ me' = 0 /\ name' = name /\ called' = called \cup {"reset"} /\ fault' = fault
            /\ UNCHANGED <<srv, online, wire, asked, events, size, tiles, lock, players, items, count, last,
                           bag, gems, auto, since, smoke_index, cur>>
        BY <3>2 DEF reset_player, srvVars, worldVars, bagVars, macroVars
      <4>. QED
        BY <4>1
    <3>3. CASE on_get_world_tiles(t)
      <4>1. /\ Calls(t, "idle", "idle")
            /\ UNCHANGED <<name, me, called>> /\ fault' \in {fault, "tile"}
            /\ UNCHANGED <<srv, online, wire, asked, events, size, tiles, lock, players, items, count, last,
                           bag, gems, auto, since, smoke_index, cur>>
        BY <3>3 DEF on_get_world_tiles, srvVars, worldVars, bagVars, macroVars
      <4>. QED
        BY <4>1
    <3>4. CASE connect_fails(t)
      <4>1. /\ Calls(t, "idle", "failed") /\ UNCHANGED <<name, me, called, fault>>
            /\ UNCHANGED <<srv, online, wire, asked, events, size, tiles, lock, players, items, count, last,
                           bag, gems, auto, since, smoke_index, cur>>
        BY <3>4 DEF connect_fails, srvVars, worldVars, bagVars, macroVars
      <4>. QED
        BY <4>1
    <3>5. CASE reset(t)
      BY <3>1, <3>5 DEF reset
    <3>6. CASE reconnect_reset(t)
      BY <3>1, <3>6 DEF reconnect_reset
    <3>. QED
      BY <1>3, <3>2, <3>3, <3>4, <3>5, <3>6
  <2>2. /\ pc' \in [Thread -> {"idle", "collect", "stale", "smoke", "failed", "reset"}] /\ Collects'
    <3>1. cur' = cur /\ to # "collect" /\ to \in {"idle", "collect", "stale", "smoke", "failed", "reset"}
      BY <2>1
    <3>. QED
      BY <2>1, <3>1, ThreadTypes
  <2>3. /\ called \subseteq called' /\ called' \subseteq AllHttpOps
        /\ name' = name \/ (name' = Unnamed /\ "reset" \in called')
        /\ me' = me \/ (me' = 0 /\ "reset" \in called')
        /\ fault' \in {fault, "tile"}
    <3>1. called \subseteq AllHttpOps /\ "reset" \in AllHttpOps
      BY DEF WorldInv, TypesInv, BotTypes, AllHttpOps
    <3>. QED
      BY <2>1, <3>1
  <2>4. BotTypes'
    <3>1. /\ name' \in World \cup {Unnamed, "EXIT"} /\ me' \in NetId \cup {0}
      BY <2>3 DEF WorldInv, TypesInv, BotTypes
    <3>2. fault' \in {"none", "iterator", "player", "tile"}
      BY <2>3 DEF WorldInv, TypesInv, BotTypes
    <3>. QED
      BY <2>1, <2>2, <2>3, <3>1, <3>2 DEF WorldInv, TypesInv, BotTypes
  <2>. QED
    BY <2>1, <2>2, <2>3, <2>4, OwnStep
<1>. QED
  BY <1>2, <1>3

-----------------------------------------------------------------------------
(***************************************************************************)
(* The invariant, and what follows.                                        *)
(***************************************************************************)
\* At first the bot is in no world, and owns nothing.
LEMMA InitTypes ==
  ASSUME Init PROVE BotTypes /\ Collects
<1>1. /\ online = TRUE /\ asked = {} /\ events = 0
      /\ name = Unnamed /\ size \in 0 .. 1 /\ tiles = <<>> /\ lock = NoLock /\ players = <<>>
      /\ items = <<>> /\ count = 0 /\ last = 0 /\ me \in NetId \cup {0}
      /\ bag = <<>> /\ gems = 0 /\ auto = FALSE /\ since = 0 /\ smoke_index = 0
      /\ pc = [t \in Thread |-> "idle"] /\ cur = [t \in Thread |-> 0]
      /\ called = {} /\ fault = "none"
  BY DEF Init
<1>2. NoLock \in Lock
  <2>1. 0 \in 0 .. Word - 1
    BY DEF Word
  <2>. QED
    BY <2>1 DEF NoLock, Lock
<1>3. <<>> \in Held
  <2>1. <<>> \in [{} -> 0 .. 255]
    OBVIOUS
  <2>2. {} \in SUBSET (Item \ {Gem})
    OBVIOUS
  <2>. QED
    BY <2>1, <2>2 DEF Held
<1>4. events \in 0 .. MaxEvents
  BY <1>1, WorldAssumption
<1>5. online \in BOOLEAN /\ auto \in BOOLEAN
  BY <1>1
<1>6. /\ size \in Nat /\ count \in Nat /\ last \in Nat /\ gems \in Nat /\ since \in Nat /\ smoke_index \in Nat
      /\ cur \in [Thread -> Nat] /\ asked \subseteq Nat
  BY <1>1
<1>7. tiles \in Seq(Tile) /\ players \in Seq(NetId) /\ items \in Seq(Drop)
  BY <1>1
<1>8. pc \in [Thread -> {"idle", "collect", "stale", "smoke", "failed", "reset"}]
  BY <1>1
<1>9. Collects
  BY <1>1 DEF Collects
<1>. QED
  BY <1>1, <1>2, <1>3, <1>4, <1>5, <1>6, <1>7, <1>8, <1>9 DEF BotTypes

\* And it knows so.
LEMMA InitInv ==
  ASSUME Init PROVE WorldInv /\ CauseInv
<1>1. /\ srv = Outside([i \in Item |-> 0]) /\ wire = <<>> /\ bag = <<>> /\ gems = 0
      /\ name = Unnamed /\ tiles = <<>> /\ pc = [t \in Thread |-> "idle"] /\ fault = "none" /\ online = TRUE
  BY DEF Init
<1>2. BotTypes /\ Collects
  BY InitTypes
<1>. DEFINE held == [i \in Item |-> 0]
<1>3. held \in [Item -> Nat] /\ (\A i \in Item : held[i] = 0) /\ Gem \in Item /\ 0 <= Cap
  BY WorldAssumption DEF Cap
<1>4. srv = Outside(held)
  BY <1>1
<1>. HIDE DEF held
<1>5. /\ srv.at = "EXIT" /\ srv.drops = {} /\ srv.bag = held
      /\ srv = [at |-> "EXIT", tiles |-> <<>>, owner |-> 0, access |-> {}, drops |-> {},
                last |-> 0, players |-> {}, self |-> 0, bag |-> held]
  BY <1>4 DEF Outside
<1>6. srv \in Server
  <2>1. OneLock(<<>>) /\ Apart({}) /\ IsFiniteSet({}) /\ <<>> \in Seq(SrvTile)
    BY FS_EmptySet DEF OneLock, Apart
  <2>2. \A i \in Item \ {Gem} : held[i] <= Cap
    BY <1>3
  <2>3. srv \in ServerTypes
    BY <1>3, <1>5, <2>1 DEF ServerTypes
  <2>4. srv.tiles = <<>>
    BY <1>5
  <2>. QED
    BY <1>5, <2>1, <2>2, <2>3, <2>4 DEF Server
<1>7. srv.at \notin World
  BY <1>5, WorldAssumption
<1>8. Offline /\ Standing
  BY <1>1, <1>5, <1>7 DEF Offline, Standing
<1>9. wire \in Seq(Range(wire))
  <2>1. <<>> \in Seq(Range(<<>>))
    OBVIOUS
  <2>. QED
    BY <1>1, <2>1
<1>10. BagMatch(srv)
  <2>1. \A i \in Item : Have(i) = 0
    BY <1>1 DEF Have
  <2>2. \A i \in Item \ {Gem} : Have(i) <= srv.bag[i] /\ Have(i) = srv.bag[i]
    BY <1>3, <1>5, <2>1
  <2>3. gems <= srv.bag[Gem] /\ gems = srv.bag[Gem]
    BY <1>1, <1>3, <1>5
  <2>. QED
    BY <2>2, <2>3 DEF BagMatch
<1>11. Match(srv)
  BY <1>7, <1>10 DEF Match
<1>12. Path(srv, wire, srv)
  BY <1>1, <1>6, PathNone
<1>13. Knows
  BY <1>6, <1>11, <1>12 DEF Knows
<1>14. CauseInv
  <2>1. Main \in Thread /\ Http \subseteq Thread
    BY DEF Thread
  <2>2. pc[Main] # "smoke" /\ \A t \in Http : pc[t] # "smoke"
    BY <1>1, <2>1
  <2>3. FaultHasCause
    BY <1>1 DEF FaultHasCause
  <2>. QED
    BY <1>1, <2>2, <2>3 DEF CauseInv
<1>. QED
  BY <1>2, <1>6, <1>8, <1>9, <1>13, <1>14 DEF WorldInv, TypesInv

\* Every step keeps WorldInv.
LEMMA NextInv ==
  ASSUME WorldInv, [Next]_vars PROVE WorldInv'
<1>1. CASE ServerNext
  BY <1>1, ServerStep
<1>2. CASE MainNext
  <2>1. Main \in Thread
    BY DEF Thread
  <2>. QED
    BY <1>2, <2>1, HandlersStep, SmokeStep DEF MainNext
<1>3. CASE l_auto_collect
  BY <1>3, ResetStep
<1>4. ASSUME NEW t \in Http, HttpNext(t) PROVE WorldInv'
  <2>1. t \in Thread
    BY DEF Thread
  <2>. QED
    BY <1>4, <2>1, CollectStep, SmokeStep, ResetStep DEF HttpNext
<1>6. ASSUME NEW t \in Reconn, ReconnNext(t) PROVE WorldInv'
  <2>1. t \in Thread
    BY DEF Thread
  <2>. QED
    BY <1>6, <2>1, ResetStep DEF ReconnNext
<1>5. CASE UNCHANGED vars
  <2>1. UNCHANGED <<srv, online, wire, asked, events, name, size, tiles, lock, players, items, count, last,
                    me, bag, gems, auto, since, smoke_index, pc, cur, called, fault>>
    BY <1>5 DEF vars, srvVars, worldVars, bagVars, macroVars, threadVars
  <2>2. BotTypes'
    BY <2>1 DEF WorldInv, TypesInv, BotTypes
  <2>3. Collects'
    BY <2>1 DEF WorldInv, TypesInv, Collects
  <2>. QED
    BY <2>1, <2>2, <2>3, OwnStep
<1>. QED
  BY <1>1, <1>2, <1>3, <1>4, <1>5, <1>6 DEF Next, Ended

\* A sequence whose domain stays keeps its length; one of length 0 is empty.
LEMMA SameLength ==
  ASSUME NEW S, NEW s \in Seq(S), NEW T, NEW t \in Seq(T), DOMAIN s = DOMAIN t
  PROVE  Len(s) = Len(t) /\ (s = <<>> => t = <<>>)
<1>1. Len(s) \in Nat /\ DOMAIN s = 1 .. Len(s) /\ Len(t) \in Nat /\ DOMAIN t = 1 .. Len(t)
  BY LenProperties
<1>2. Len(s) = Len(t)
  <2>1. ASSUME NEW n \in Nat, NEW m \in Nat, 1 .. n = 1 .. m PROVE n <= m
    <3>1. n \in 1 .. n \/ n = 0
      OBVIOUS
    <3>. QED
      BY <2>1, <3>1
  <2>2. \A n, m \in Nat : 1 .. n = 1 .. m => n = m
    <3>1. \A n, m \in Nat : n <= m /\ m <= n => n = m
      OBVIOUS
    <3>. QED
      BY <2>1, <3>1
  <2>3. 1 .. Len(s) = 1 .. Len(t)
    BY <1>1
  <2>. DEFINE n == Len(s)
              m == Len(t)
  <2>4. n \in Nat /\ m \in Nat /\ 1 .. n = 1 .. m
    BY <1>1, <2>3
  <2>. HIDE DEF n, m
  <2>5. n = m
    BY <2>2, <2>4
  <2>. QED
    BY <2>5 DEF n, m
<1>3. (s = <<>> <=> Len(s) = 0) /\ (t = <<>> <=> Len(t) = 0)
  BY EmptySeq
<1>. QED
  BY <1>2, <1>3

\* What the server does and a lost link leave the threads alone.
LEMMA CauseServer ==
  ASSUME CauseInv, ServerNext PROVE CauseInv'
<1>1. \/ Quiet \/ link_lost \/ relog
  <2>1. \A w, o, ds, ps : server_enter(w, o, ds, ps) => Quiet
    BY DEF server_enter
  <2>2. server_exit => Quiet
    BY DEF server_exit
  <2>3. \A i, p, a : server_drop(i, p, a) => Quiet
    BY DEF server_drop
  <2>4. \A d, n : server_take(d, n) => Quiet
    BY DEF server_take
  <2>5. \A i, a, b : server_modify(i, a, b) => Quiet
    BY DEF server_modify
  <2>6. \A g : server_bux(g) => Quiet
    BY DEF server_bux
  <2>7. \A n : server_player(n) => Quiet
    BY DEF server_player
  <2>8. \A x, t : server_tile(x, t) => Quiet
    BY DEF server_tile
  <2>9. \A x, o, f : server_lock(x, o, f) => Quiet
    BY DEF server_lock
  <2>10. server_area => Quiet
    BY DEF server_area
  <2>. QED
    BY <2>1, <2>2, <2>3, <2>4, <2>5, <2>6, <2>7, <2>8, <2>9, <2>10 DEF ServerNext, ServerSteps
<1>2. /\ UNCHANGED <<name, size, tiles, players, smoke_index, pc, fault>>
      /\ "smoke" \in called => "smoke" \in called'
  <2>1. CASE Quiet
    BY <2>1 DEF Quiet, worldVars, macroVars, threadVars
  <2>2. CASE link_lost
    BY <2>2 DEF link_lost, worldVars, macroVars, threadVars
  <2>3. CASE relog
    BY <2>3 DEF relog, worldVars, macroVars
  <2>. QED
    BY <1>1, <2>1, <2>2, <2>3
<1>. QED
  BY <1>2 DEF CauseInv, FaultHasCause

\* A handler runs while the main thread is not in a macro.
LEMMA CauseHandler ==
  ASSUME WorldInv, WorldInv', CauseInv, Handlers PROVE CauseInv'
<1>1. PICK type : Takes(type)
  BY DEF Handlers, send_map_data, OnSpawn, OnRemove, item_change_object, item_dropped, item_merged,
         item_taken, send_inventory_state, modify_item_inventory, OnSetBux, tile_change_request,
         send_tile_tree_state, send_tile_update_data, send_tile_update_data_multiple,
         OnRequestWorldSelectMenu, Receives
<1>2. pc' = pc \/ Invalidates
  BY DEF Handlers, send_map_data, OnSpawn, OnRemove, item_change_object, item_dropped, item_merged,
         item_taken, send_inventory_state, modify_item_inventory, OnSetBux, tile_change_request,
         send_tile_tree_state, send_tile_update_data, send_tile_update_data_multiple,
         OnRequestWorldSelectMenu, UpdateTiles, worldVars
<1>3. /\ fault = "none" /\ called' = called /\ pc[Main] = "idle"
  BY <1>1 DEF Takes
<1>4. Main \in Thread /\ Http \subseteq Thread
  BY DEF Thread
<1>5. pc \in [Thread -> {"idle", "collect", "stale", "smoke", "failed", "reset"}]
  BY DEF WorldInv, TypesInv, BotTypes
<1>6. \A t \in Thread : pc'[t] = "smoke" => pc[t] = "smoke"
  BY <1>2, <1>5 DEF Invalidates
<1>7. FaultHasCause'
  <2>1. CASE tile_change_request \/ send_tile_tree_state
    <3>1. UNCHANGED name /\ \E x, t : SetTile(x, t)
      BY <2>1 DEF tile_change_request, send_tile_tree_state
    <3>2. PICK x, t : SetTile(x, t)
      BY <3>1
    <3>3. CASE get_tile(x) = "wild"
      <4>1. size # Len(tiles)
        BY <3>3 DEF get_tile
      <4>2. tiles' = tiles /\ fault' = "tile"
        BY <3>2, <3>3 DEF SetTile
      <4>. QED
        BY <3>1, <4>1, <4>2 DEF CauseInv, FaultHasCause
    <3>4. CASE get_tile(x) # "wild"
      BY <1>3, <3>2, <3>4 DEF SetTile, FaultHasCause
    <3>. QED
      BY <3>3, <3>4
  <2>2. CASE ~ (tile_change_request \/ send_tile_tree_state)
    <3>1. fault' = fault
      BY <2>2 DEF Handlers, send_map_data, OnSpawn, OnRemove, item_change_object, item_dropped, item_merged,
         item_taken, send_inventory_state, modify_item_inventory, OnSetBux,
         send_tile_update_data, send_tile_update_data_multiple, OnRequestWorldSelectMenu, Receives
    <3>. QED
      BY <1>3, <3>1 DEF FaultHasCause
  <2>. QED
    BY <2>1, <2>2
<1>8. tiles \in Seq(Tile) /\ tiles' \in Seq(Tile)
  BY DEF WorldInv, TypesInv, BotTypes
<1>9. size' # Len(tiles') => tiles' = <<>> /\ name' \in {Unnamed, "EXIT"}
  <2>0. size # Len(tiles) => tiles = <<>> /\ name \in {Unnamed, "EXIT"}
    BY DEF CauseInv
  <2>1. CASE send_map_data
    <3>0. PICK p : p = packet
      OBVIOUS
    <3>1. Takes("map") /\ size' = Len(p.tiles) /\ DOMAIN tiles' = DOMAIN p.tiles
      BY <2>1, <3>0 DEF send_map_data, Receives
    <3>2. PICK s \in Server, u \in Server : Told(s, p, u) /\ p.type = "map"
      BY <3>0, <3>1, Received
    <3>3. p.tiles = u.tiles
      BY <3>2, ToldOf DEF ToldMap, Map
    <3>4. p.tiles \in Seq(SrvTile)
      BY <3>3, ServerFacts
    <3>. QED
      BY <1>8, <3>1, <3>4, SameLength
  <2>2. CASE OnRequestWorldSelectMenu
    BY <2>2 DEF OnRequestWorldSelectMenu
  <2>3. CASE UNCHANGED <<name, size>> /\ DOMAIN tiles' = DOMAIN tiles
    BY <1>8, <2>0, <2>3, SameLength
  <2>4. CASE \/ OnSpawn \/ OnRemove \/ item_change_object
             \/ send_inventory_state \/ modify_item_inventory \/ OnSetBux
    BY <2>4, <2>3 DEF OnSpawn, OnRemove, item_change_object, item_dropped, item_merged, item_taken,
                      send_inventory_state, modify_item_inventory, OnSetBux, worldVars
  <2>5. CASE tile_change_request \/ send_tile_tree_state
    <3>1. UNCHANGED <<name, size>>
      BY <2>5 DEF tile_change_request, send_tile_tree_state
    <3>2. DOMAIN tiles' = DOMAIN tiles
      BY <2>5 DEF tile_change_request, send_tile_tree_state, SetTile
    <3>. QED
      BY <2>3, <3>1, <3>2
  <2>6. CASE send_tile_update_data \/ send_tile_update_data_multiple
    BY <2>6, <2>3 DEF send_tile_update_data, send_tile_update_data_multiple, UpdateTiles
  <2>. QED
    BY <2>1, <2>2, <2>4, <2>5, <2>6 DEF Handlers
<1>. QED
  BY <1>3, <1>4, <1>6, <1>7, <1>9 DEF CauseInv

\* A thread's step.
LEMMA CauseThread ==
  ASSUME WorldInv, CauseInv, NEW t \in Thread,
         \/ collect(t) \/ collect_next(t) \/ collect_stale(t)
         \/ (smoke(t) /\ t \in Http) \/ (smoke_read(t) /\ t \in Http \cup {Main})
         \/ reset(t) \/ reconnect_reset(t) \/ reset_player(t) \/ connect_fails(t)
         \/ on_get_world_tiles(t) \/ (t = Main /\ \E gap \in Gap : macros(gap))
  PROVE  CauseInv'
<1>1. /\ pc \in [Thread -> {"idle", "collect", "stale", "smoke", "failed", "reset"}]
      /\ smoke_index \in Nat /\ players \in Seq(NetId) /\ tiles \in Seq(Tile)
  BY DEF WorldInv, TypesInv, BotTypes
<1>2. Main \in Thread /\ Http \subseteq Thread /\ Main \notin Http /\ Len(players) \in Nat
  BY <1>1, WorldAssumption, LenProperties DEF Thread
<1>3. /\ size # Len(tiles) => tiles = <<>> /\ name \in {Unnamed, "EXIT"}
      /\ \A u \in Http : pc[u] = "smoke" => "smoke" \in called
      /\ pc[Main] = "smoke" => smoke_index < Len(players) \/ "smoke" \in called
      /\ fault = "tile" => name \in {Unnamed, "EXIT"} /\ tiles = <<>>
      /\ fault = "player" => "smoke" \in called
  BY DEF CauseInv, FaultHasCause
<1>4. players # <<>> => Checked < Len(players)
  <2>1. players # <<>> => Len(players) > 0
    BY <1>1, <1>2, EmptySeq
  <2>. QED
    BY <1>1, <1>2, <2>1 DEF Checked
<1>5. ASSUME NEW from, NEW to, Calls(t, from, to), UNCHANGED <<size, tiles, players>>,
             name' = name \/ name' = Unnamed, called \subseteq called',
             to = "smoke" => IF t = Main THEN smoke_index' < Len(players) ELSE "smoke" \in called',
             t = Main \/ smoke_index' = smoke_index \/ "smoke" \in called',
             fault' = fault \/ fault' \in {"none", "iterator"}
               \/ (fault' = "tile" /\ size # Len(tiles)) \/ (fault' = "player" /\ "smoke" \in called')
      PROVE  CauseInv'
  <2>1. pc' = [pc EXCEPT ![t] = to]
    BY <1>5 DEF Calls
  <2>2. pc'[t] = to /\ \A u \in Thread : u # t => pc'[u] = pc[u]
    BY <1>1, <2>1
  <2>3. size' # Len(tiles') => tiles' = <<>> /\ name' \in {Unnamed, "EXIT"}
    BY <1>3, <1>5
  <2>4. ASSUME NEW u \in Http, pc'[u] = "smoke" PROVE "smoke" \in called'
    BY <1>2, <1>3, <1>5, <2>2, <2>4
  <2>5. ASSUME pc'[Main] = "smoke" PROVE smoke_index' < Len(players') \/ "smoke" \in called'
    <3>1. CASE t = Main
      BY <1>5, <2>2, <2>5, <3>1
    <3>2. CASE t # Main
      BY <1>2, <1>3, <1>5, <2>2, <2>5, <3>2
    <3>. QED
      BY <3>1, <3>2
  <2>6. fault' = "tile" => name' \in {Unnamed, "EXIT"} /\ tiles' = <<>>
    BY <1>3, <1>5
  <2>7. fault' = "player" => "smoke" \in called'
    BY <1>3, <1>5
  <2>. QED
    BY <2>3, <2>4, <2>5, <2>6, <2>7 DEF CauseInv, FaultHasCause
<1>6. CASE collect(t) \/ collect_next(t) \/ collect_stale(t)
  <2>1. PICK from, to \in {"idle", "collect", "stale"} :
          /\ Calls(t, from, to) /\ UNCHANGED <<size, tiles, players, name, smoke_index>>
          /\ called \subseteq called' /\ (fault' = fault \/ fault' = "iterator")
    <3>1. CASE collect(t)
      <4>1. (IF count = 0 THEN "idle" ELSE "collect") \in {"idle", "collect"}
        OBVIOUS
      <4>. QED
        BY <3>1, <4>1 DEF collect, worldVars, macroVars
    <3>2. CASE collect_next(t)
      <4>1. (IF cur[t] < Len(items) THEN "collect" ELSE "idle") \in {"idle", "collect"}
        OBVIOUS
      <4>. QED
        BY <3>2, <4>1 DEF collect_next, worldVars, macroVars
    <3>3. CASE collect_stale(t)
      BY <3>3 DEF collect_stale, worldVars, macroVars
    <3>. QED
      BY <1>6, <3>1, <3>2, <3>3
  <2>. QED
    BY <2>1, <1>5
<1>7. CASE smoke(t) /\ t \in Http
  <2>1. /\ Calls(t, "idle", IF players = <<>> THEN "idle" ELSE "smoke") /\ "smoke" \in called'
        /\ UNCHANGED <<size, tiles, players, name, fault>> /\ called \subseteq called'
    BY <1>7 DEF smoke, worldVars
  <2>2. t # Main
    BY <1>2, <1>7
  <2>. QED
    BY <2>1, <2>2, <1>5
<1>8. CASE smoke_read(t) /\ t \in Http \cup {Main}
  <2>1. /\ Calls(t, "smoke", "idle") /\ UNCHANGED <<size, tiles, players, name, called>>
        /\ \/ smoke_index < Len(players) /\ fault' = fault
           \/ ~ (smoke_index < Len(players)) /\ fault' = "player"
    BY <1>8 DEF smoke_read, srvVars, worldVars
  <2>2. t \in Http => "smoke" \in called'
    BY <1>3, <2>1 DEF Calls
  <2>3. t = Main => smoke_index < Len(players) \/ "smoke" \in called'
    BY <1>3, <2>1 DEF Calls
  <2>4. t \in Http \/ t = Main
    BY <1>8
  <2>5. t = Main \/ smoke_index' = smoke_index \/ "smoke" \in called'
    BY <2>2, <2>4
  <2>6. fault' = fault \/ (fault' = "player" /\ "smoke" \in called')
    BY <2>1, <2>2, <2>3, <2>4
  <2>. QED
    BY <2>1, <2>5, <2>6, <1>5
<1>9. CASE reset(t) \/ reconnect_reset(t) \/ reset_player(t) \/ connect_fails(t)
  <2>1. PICK from, to \in {"idle", "failed", "reset"} :
          /\ Calls(t, from, to) /\ UNCHANGED <<size, tiles, players, smoke_index, fault>>
          /\ (name' = name \/ name' = Unnamed) /\ called \subseteq called'
    BY <1>9 DEF reset, reconnect_reset, ResetFrom, reset_player, connect_fails, worldVars, macroVars
  <2>. QED
    BY <2>1, <1>5
<1>10. CASE on_get_world_tiles(t)
  <2>1. /\ Calls(t, "idle", "idle") /\ UNCHANGED <<size, tiles, players, name, smoke_index, called>>
        /\ fault' = IF \E x \in 1 .. size : get_tile(x) = "wild" THEN "tile" ELSE fault
    BY <1>10 DEF on_get_world_tiles, worldVars, macroVars
  <2>2. ASSUME NEW x \in 1 .. size, get_tile(x) = "wild" PROVE size # Len(tiles)
    <3>1. size \in Nat /\ Len(tiles) \in Nat
      BY <1>1, LenProperties DEF WorldInv, TypesInv, BotTypes
    <3>. QED
      BY <2>2, <3>1 DEF get_tile
  <2>3. fault' = fault \/ (fault' = "tile" /\ size # Len(tiles))
    BY <2>1, <2>2
  <2>. QED
    BY <2>1, <2>3, <1>5
<1>11. CASE t = Main /\ \E gap \in Gap : macros(gap)
  <2>1. PICK gap \in Gap : macros(gap)
    BY <1>11
  <2>2. /\ Calls(t, "idle", IF players = <<>> THEN "idle" ELSE "smoke") /\ smoke_index' = Checked
        /\ UNCHANGED <<size, tiles, players, name, fault, called>>
    BY <1>11, <2>1 DEF macros, worldVars
  <2>. QED
    BY <1>4, <1>11, <2>2, <1>5
<1>. QED
  BY <1>6, <1>7, <1>8, <1>9, <1>10, <1>11

\* Every step keeps CauseInv.
LEMMA NextCause ==
  ASSUME WorldInv, WorldInv', CauseInv, [Next]_vars PROVE CauseInv'
<1>1. CASE ServerNext
  BY <1>1, CauseServer
<1>2. CASE MainNext
  <2>1. Main \in Thread
    BY DEF Thread
  <2>. QED
    BY <1>2, <2>1, CauseHandler, CauseThread DEF MainNext
<1>3. ASSUME NEW t \in Reconn, ReconnNext(t) PROVE CauseInv'
  <2>1. t \in Thread
    BY DEF Thread
  <2>. QED
    BY <1>3, <2>1, CauseThread DEF ReconnNext
<1>4. CASE l_auto_collect \/ UNCHANGED vars
  <2>1. UNCHANGED <<name, size, tiles, players, smoke_index, pc, called, fault>>
    BY <1>4 DEF l_auto_collect, vars, worldVars, macroVars, threadVars
  <2>. QED
    BY <2>1 DEF CauseInv, FaultHasCause
<1>5. ASSUME NEW t \in Http, HttpNext(t) PROVE CauseInv'
  <2>1. t \in Thread
    BY DEF Thread
  <2>. QED
    BY <1>5, <2>1, CauseThread DEF HttpNext
<1>. QED
  BY <1>1, <1>2, <1>3, <1>4, <1>5 DEF Next, Ended

\* Every variable has its type, the packets on the way, too.
LEMMA Typed ==
  ASSUME WorldInv PROVE TypeOK
<1>1. srv \in Server /\ wire \in Seq(Range(wire)) /\ BotTypes /\ Offline
  BY DEF WorldInv, TypesInv
<1>2. srv.at \in World \cup {"EXIT"} /\ \A t \in Range(srv.tiles) : t.fg \in {"none", "block", "lock"}
  <2>1. srv.at \in World \cup {"EXIT"} /\ srv.tiles \in Seq(SrvTile)
    BY <1>1, ServerFacts
  <2>2. \A x \in DOMAIN srv.tiles : srv.tiles[x] \in SrvTile
    BY <2>1, ElementOfSeq, LenProperties
  <2>. QED
    BY <2>1, <2>2 DEF Range, SrvTile
<1>3. \A p \in Range(wire) : p.type \in Packet
  <2>1. CASE ~ online
    BY <1>1, <2>1 DEF Offline, Range
  <2>2. CASE online
    <3>1. PICK s \in Server : Path(s, wire, srv)
      BY <2>2 DEF WorldInv, Knows
    <3>2. PICK h : Leads(h, wire)
      BY <3>1 DEF Path
    <3>3. \A k \in 1 .. Len(wire) : Told(h[k], wire[k], h[k + 1])
      BY <3>2 DEF Leads
    <3>4. \A k \in 1 .. Len(wire) : wire[k].type \in Packet
      BY <3>3, ToldOf
    <3>5. DOMAIN wire = 1 .. Len(wire)
      BY <1>1, LenProperties
    <3>. QED
      BY <3>4, <3>5 DEF Range
  <2>. QED
    BY <2>1, <2>2
<1>4. \A i \in DOMAIN bag : i \in Item \ {Gem} /\ bag[i] \in 0 .. 255
  <2>1. PICK I \in SUBSET (Item \ {Gem}) : bag \in [I -> 0 .. 255]
    BY <1>1 DEF BotTypes, Held
  <2>. QED
    BY <2>1
<1>. QED
  BY <1>1, <1>2, <1>3, <1>4 DEF TypeOK, BotTypes

\* Where nothing is on the way the bot knows what is true.
LEMMA KnowsNow ==
  ASSUME WorldInv, Settled PROVE Match(srv)
<1>1. online /\ wire = <<>>
  BY DEF Settled
<1>2. PICK s \in Server : Match(s) /\ Path(s, wire, srv)
  BY <1>1 DEF WorldInv, Knows
<1>3. s = srv
  BY <1>1, <1>2, PathEmpty
<1>. QED
  BY <1>2, <1>3

\* A list without repetition is as long as its set is large.
LEMMA Counted ==
  ASSUME NEW S, NEW s \in Seq(S), IsInjective(s) PROVE Len(s) = Cardinality(Range(s))
<1>1. Len(s) \in Nat /\ DOMAIN s = 1 .. Len(s) /\ s = [k \in 1 .. Len(s) |-> s[k]]
  BY LenProperties
<1>2. s \in [1 .. Len(s) -> Range(s)]
  BY <1>1 DEF Range
<1>3. s \in Bijection(1 .. Len(s), Range(s))
  <2>1. s \in Injection(1 .. Len(s), Range(s))
    BY <1>2 DEF Injection
  <2>2. s \in Surjection(1 .. Len(s), Range(s))
    BY <1>1, <1>2 DEF Surjection, Range
  <2>. QED
    BY <2>1, <2>2 DEF Bijection
<1>4. ExistsBijection(1 .. Len(s), Range(s))
  BY <1>3 DEF ExistsBijection
<1>. QED
  BY <1>1, <1>4, FS_CountingElements

\* The properties follow: the items,
LEMMA ItemsHold ==
  ASSUME WorldInv PROVE ItemsAgree
<1>1. SUFFICES ASSUME Settled, InWorld
               PROVE  Range(items) = srv.drops /\ Len(items) = Cardinality(srv.drops) /\ last = srv.last
  BY DEF ItemsAgree
<1>2. ItemsMatch(srv)
  BY <1>1, KnowsNow DEF Match, InWorld
<1>3. Range(items) = srv.drops /\ IsInjective(items) /\ last = srv.last
  BY <1>2 DEF ItemsMatch
<1>4. Len(items) = Cardinality(Range(items))
  BY <1>3, Counted, BotFacts
<1>. QED
  BY <1>3, <1>4

\* the view of the world,
LEMMA ViewHolds ==
  ASSUME WorldInv PROVE ViewAgrees
<1>1. SUFFICES ASSUME Settled, InWorld
               PROVE  /\ Range(players) = srv.players /\ IsInjective(players)
                      /\ [x \in DOMAIN tiles |-> [fg |-> tiles[x].fg, bg |-> tiles[x].bg]] = srv.tiles
                      /\ size = Len(tiles) /\ (name = srv.at \/ (name = Unnamed /\ "reset" \in called))
                      /\ HasLock => lock.owner = srv.owner % Word /\ srv.access \subseteq lock.access
  BY DEF ViewAgrees
<1>2. PlayersMatch(srv) /\ TilesMatch(srv)
  BY <1>1, KnowsNow DEF Match, InWorld
<1>3. /\ Range(players) = srv.players /\ IsInjective(players)
      /\ name = srv.at \/ (name = Unnamed /\ "reset" \in called)
  BY <1>2 DEF PlayersMatch
<1>4. /\ size = Len(tiles) /\ Len(tiles) = Len(srv.tiles)
      /\ \A x \in DOMAIN tiles : tiles[x].fg = srv.tiles[x].fg /\ tiles[x].bg = srv.tiles[x].bg
      /\ (\E x \in DOMAIN srv.tiles : srv.tiles[x].fg = "lock")
           => lock.owner = srv.owner % Word /\ srv.access \subseteq lock.access
  BY <1>2 DEF TilesMatch
<1>5. tiles \in Seq(Tile) /\ srv.tiles \in Seq(SrvTile)
  BY BotFacts, ServerFacts DEF WorldInv, TypesInv
<1>6. /\ DOMAIN tiles = 1 .. Len(tiles) /\ DOMAIN srv.tiles = 1 .. Len(srv.tiles)
      /\ srv.tiles = [x \in 1 .. Len(srv.tiles) |-> srv.tiles[x]]
      /\ \A x \in DOMAIN srv.tiles : srv.tiles[x] \in SrvTile
  BY <1>5, LenProperties, ElementOfSeq
<1>7. \A x \in DOMAIN tiles : [fg |-> tiles[x].fg, bg |-> tiles[x].bg] = srv.tiles[x]
  BY <1>4, <1>6 DEF SrvTile
<1>8. [x \in DOMAIN tiles |-> [fg |-> tiles[x].fg, bg |-> tiles[x].bg]] = srv.tiles
  BY <1>4, <1>6, <1>7
<1>9. HasLock => \E x \in DOMAIN srv.tiles : srv.tiles[x].fg = "lock"
  BY DEF HasLock, Range
<1>. QED
  BY <1>3, <1>4, <1>8, <1>9

\* and the inventory.
LEMMA BagHolds ==
  ASSUME WorldInv PROVE BagAgrees
<1>1. ASSUME Settled
      PROVE  /\ \A i \in Item \ {Gem} : Have(i) <= srv.bag[i] /\ ("reset" \in called \/ Have(i) = srv.bag[i])
             /\ gems <= srv.bag[Gem] /\ ("reset" \in called \/ gems = srv.bag[Gem])
  <2>1. BagMatch(srv)
    BY <1>1, KnowsNow DEF Match
  <2>2. \A type : ~ Coming(type)
    BY <1>1 DEF Settled, Coming
  <2>. QED
    BY <2>1, <2>2 DEF BagMatch
<1>. QED
  BY <1>1 DEF BagAgrees

\* The two invariants hold in every state.
LEMMA Always == Spec => [](WorldInv /\ CauseInv)
<1>1. Init => WorldInv /\ CauseInv
  BY InitInv
<1>2. WorldInv /\ CauseInv /\ [Next]_vars => (WorldInv /\ CauseInv)'
  BY NextInv, NextCause
<1>. QED
  BY <1>1, <1>2, PTL DEF Spec

\* Every variable keeps its type; in particular amounts stay 8 bits wide.
THEOREM TypeCorrect == Spec => []TypeOK
BY Always, Typed, PTL

\* The bot and the server mean the same floating items by the ids each of them
\* counts (item_change_object.cpp), however many drops, merges and pickups there
\* are, and through every exit, load and lost link.
THEOREM ItemsStayTrue == Spec => []ItemsAgree
BY Always, ItemsHold, PTL

\* Once it has applied all that it was told, the bot sees the players, tiles and
\* lock (of its owner the lower 16 bits) of the world it is in, after any mix of
\* changes, harvests and updates; and its name, unless an HTTP request or a
\* reconnect thread whose connect() had failed resets the bot in mid-session.
THEOREM ViewStaysTrue == Spec => []ViewAgrees
BY Always, ViewHolds, PTL

\* The inventory never shows more than the bot has, and, as long as no HTTP
\* request and no reconnect thread resets the bot in mid-session, exactly what it
\* has.
THEOREM BagStaysTrue == Spec => []BagAgrees
BY Always, BagHolds, PTL

\* What an access outside of a list needs: no world for a tile, an
\* HTTP smoke for a player past the end.
THEOREM FaultsHaveCause == Spec => []FaultHasCause
<1>1. CauseInv => FaultHasCause
  BY DEF CauseInv
<1>. QED
  BY <1>1, Always, PTL

================================================================================
