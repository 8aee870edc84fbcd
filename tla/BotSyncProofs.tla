----------------------------- MODULE BotSyncProofs -----------------------------
(***************************************************************************)
(* Proofs about BotSync: its types, and that a sync deletes no row of a    *)
(* bot that was active all the while.                                      *)
(*                                                                         *)
(* For the latter a sync must be alone (syncInProgress), what it has       *)
(* found out must stay true of some time in this sync (absent only grows   *)
(* until the next one), and the rows that it read must still be about the  *)
(* same bots when it deletes by their ids.                                 *)
(***************************************************************************)
EXTENDS BotSync, TLAPS

Visiting == {"check", "purge", "list", "remove", "look", "write"}

\* What a call holds at each of its stages.
Holds(c) ==
  /\ at[c] \in Visiting => node[c] \in Node
  /\ at[c] = "write" => found[c] # {}

TypesInv == TypeOK /\ \A c \in Call : Holds(c)

\* Two calls never work at a time.
Alone ==
  /\ \A c \in Call : at[c] # "idle" => sync
  /\ \A c, d \in Call : at[c] # "idle" /\ at[d] # "idle" => c = d

\* One id is one bot on one node, in the table and in what was read from it.
SameBot(r, s) == r.id = s.id => r.node = s.node /\ r.user = s.user

IdsInv ==
  /\ \A r, s \in rows : SameBot(r, s)
  /\ \A c \in Call : \A r \in snap[c], s \in rows : SameBot(r, s)

\* What a call knows as long as no request has failed.
Known(c) ==
  /\ at[c] \in {"next", "end"} \cup Visiting => Absent \subseteq absent
  /\ at[c] = "purge" => \A b \in Bot : <<node[c], b>> \in absent
  /\ at[c] = "remove" => \A r \in gone[c] : r \in snap[c] /\ <<r.node, r.user>> \in absent

KnownInv == left.fault = MaxFault => \A c \in Call : Known(c)

-----------------------------------------------------------------------------
(***************************************************************************)
(* Types.                                                                  *)
(***************************************************************************)
\* Every step keeps the types.
LEMMA TypesStep ==
  ASSUME TypesInv, Next PROVE TypesInv'
<1>. MaxChange \in Nat /\ MaxFault \in Nat /\ MaxExit \in Nat
  BY SyncAssumption
<1>1. ASSUME node_changes PROVE TypesInv'
  <2>1. up' \in SUBSET Node
    BY <1>1 DEF node_changes, TypesInv, TypeOK
  <2>2. bots' \in [Node -> SUBSET Entry]
    <3>1. CASE UNCHANGED bots
      BY <3>1 DEF TypesInv, TypeOK
    <3>2. ASSUME NEW n \in Node, NEW b \in Bot, NEW status \in Status \cup {Nothing},
                 bots' = [bots EXCEPT ![n] = {e \in @ : e.user # b}
                   \cup (IF status = Nothing THEN {} ELSE {[user |-> b, status |-> status]})]
          PROVE  bots' \in [Node -> SUBSET Entry]
      <4>1. (IF status = Nothing THEN {} ELSE {[user |-> b, status |-> status]}) \subseteq Entry
        BY <3>2 DEF Entry
      <4>2. {e \in bots[n] : e.user # b} \subseteq Entry
        BY DEF TypesInv, TypeOK
      <4>. QED
        BY <3>2, <4>1, <4>2 DEF TypesInv, TypeOK
    <3>. QED
      BY <1>1, <3>1, <3>2 DEF node_changes
  <2>3. absent' \subseteq Node \X Bot
    BY <1>1 DEF node_changes, Absent, TypesInv, TypeOK
  <2>4. left' \in [change : 0 .. MaxChange, fault : 0 .. MaxFault, exit : 0 .. MaxExit]
    BY <1>1 DEF node_changes, Change, TypesInv, TypeOK
  <2>. QED
    BY <1>1, <2>1, <2>2, <2>3, <2>4
      DEF node_changes, Change, TypesInv, TypeOK, Holds, callVars
<1>2. ASSUME table_changes PROVE TypesInv'
  BY <1>2
    DEF table_changes, Change, NewRow, TypesInv, TypeOK, Holds, Visiting, Stage,
       Row, Entry, Status, Fresh, Inactive, ActiveOn, RowsOf, Matching, envVars,
       callVars
<1>3. ASSUME exit PROVE TypesInv'
  <2>1. left' \in [change : 0 .. MaxChange, fault : 0 .. MaxFault, exit : 0 .. MaxExit]
    BY <1>3 DEF exit, TypesInv, TypeOK
  <2>. QED
    BY <1>3, <2>1 DEF exit, TypesInv, TypeOK, Holds, envVars, callVars
<1>4. ASSUME start PROVE TypesInv'
  BY <1>4
    DEF start, TypesInv, TypeOK, Holds, Visiting, Stage, Row, Entry, Status, Fresh,
       Inactive, ActiveOn, RowsOf, Matching, envVars, callVars
<1>5. ASSUME NEW c \in Call, sync_begins(c) PROVE TypesInv'
  BY <1>5
    DEF sync_begins, Go, TypesInv, TypeOK, Holds, Visiting, Stage, Row, Entry,
       Status, Fresh, Inactive, ActiveOn, RowsOf, Matching, envVars, callVars
<1>6. ASSUME NEW c \in Call, database_healthy(c) PROVE TypesInv'
  BY <1>6
    DEF database_healthy, Go, TypesInv, TypeOK, Holds, Visiting, Stage, Row, Entry,
       Status, Fresh, Inactive, ActiveOn, RowsOf, Matching, envVars, callVars
<1>7. ASSUME NEW c \in Call, find_nodes(c) PROVE TypesInv'
  <2>1. absent' \subseteq Node \X Bot
    BY <1>7 DEF find_nodes, Absent
  <2>2. at' = [at EXCEPT ![c] = "next"] /\ at' \in [Call -> Stage]
    BY <1>7 DEF find_nodes, Go, TypesInv, TypeOK, Stage
  <2>. QED
    BY <1>7, <2>1, <2>2 DEF find_nodes, TypesInv, TypeOK, Holds, Visiting, envVars
<1>8. ASSUME NEW c \in Call, next_node(c) PROVE TypesInv'
  BY <1>8
    DEF next_node, Go, TypesInv, TypeOK, Holds, Visiting, Stage, Row, Entry, Status,
       Fresh, Inactive, ActiveOn, RowsOf, Matching, envVars, callVars
<1>9. ASSUME NEW c \in Call, checkNodeHealth(c) PROVE TypesInv'
  BY <1>9
    DEF checkNodeHealth, Go, TypesInv, TypeOK, Holds, Visiting, Stage, Row, Entry,
       Status, Fresh, Inactive, ActiveOn, RowsOf, Matching, envVars, callVars
<1>10. ASSUME NEW c \in Call, removeAllBotsFromNode(c) PROVE TypesInv'
  BY <1>10
    DEF removeAllBotsFromNode, Go, Fault, TypesInv, TypeOK, Holds, Visiting, Stage,
       Row, Entry, Status, Fresh, Inactive, ActiveOn, RowsOf, Matching, envVars,
       callVars
<1>11. ASSUME NEW c \in Call, getActiveBots(c) PROVE TypesInv'
  BY <1>11
    DEF getActiveBots, Go, Listed, TypesInv, TypeOK, Holds, Visiting, Stage, Row,
       Entry, Status, Fresh, Inactive, ActiveOn, RowsOf, Matching, envVars, callVars
<1>12. ASSUME NEW c \in Call, removeInactiveBots(c) PROVE TypesInv'
  BY <1>12
    DEF removeInactiveBots, Go, Fault, TypesInv, TypeOK, Holds, Visiting, Stage,
       Row, Entry, Status, Fresh, Inactive, ActiveOn, RowsOf, Matching, envVars,
       callVars
<1>13. ASSUME NEW c \in Call, removed_all(c) PROVE TypesInv'
  BY <1>13
    DEF removed_all, Go, TypesInv, TypeOK, Holds, Visiting, Stage, Row, Entry,
       Status, Fresh, Inactive, ActiveOn, RowsOf, Matching, envVars, callVars
<1>14. ASSUME NEW c \in Call, find_bot(c) PROVE TypesInv'
  BY <1>14
    DEF find_bot, Go, TypesInv, TypeOK, Holds, Visiting, Stage, Row, Entry, Status,
       Fresh, Inactive, ActiveOn, RowsOf, Matching, envVars, callVars
<1>15. ASSUME NEW c \in Call, write_bot(c) PROVE TypesInv'
  <2>. DEFINE e == CHOOSE e \in found[c] : TRUE
  <2>1. e \in Entry /\ node[c] \in Node /\ at[c] = "write"
    BY <1>15 DEF write_bot, Go, TypesInv, TypeOK, Holds, Visiting
  <2>. HIDE DEF e
  <2>. DEFINE Typed == /\ rows' \subseteq Row
                       /\ left' \in [change : 0 .. MaxChange, fault : 0 .. MaxFault,
                                     exit : 0 .. MaxExit]
  <2>2. ASSUME rows' = {IF r.id = row[c] THEN [r EXCEPT !.status = e.status] ELSE r : r \in rows},
               UNCHANGED left
        PROVE  Typed
    <3>1. ASSUME NEW r \in rows
          PROVE  (IF r.id = row[c] THEN [r EXCEPT !.status = e.status] ELSE r) \in Row
      BY <2>1 DEF TypesInv, TypeOK, Row, Entry
    <3>2. rows' \subseteq Row
      BY <2>2, <3>1
    <3>. QED
      BY <2>2, <3>2 DEF TypesInv, TypeOK
  <2>3. ASSUME NewRow(node[c], e.user, e.status), UNCHANGED left PROVE Typed
    BY <2>1, <2>3 DEF NewRow, Fresh, TypesInv, TypeOK, Row, Entry
  <2>4. ASSUME UNCHANGED rows, UNCHANGED left \/ Fault PROVE Typed
    BY <2>4 DEF Fault, TypesInv, TypeOK
  <2>5. Typed
    <3>1. \/ /\ rows' = {IF r.id = row[c] THEN [r EXCEPT !.status = e.status] ELSE r : r \in rows}
             /\ UNCHANGED left
          \/ NewRow(node[c], e.user, e.status) /\ UNCHANGED left
          \/ UNCHANGED rows /\ (UNCHANGED left \/ Fault)
      BY <1>15 DEF write_bot, e
    <3>. QED
      BY <3>1, <2>2, <2>3, <2>4
  <2>6. at' = [at EXCEPT ![c] = "look"]
    BY <1>15 DEF write_bot, Go
  <2>7. found' = [found EXCEPT ![c] = @ \ {e}] /\ row' = [row EXCEPT ![c] = Nothing]
    BY <1>15 DEF write_bot, e
  <2>8. at' \in [Call -> Stage] /\ found' \in [Call -> SUBSET Entry]
        /\ row' \in [Call -> Id \cup {Nothing}]
    BY <2>6, <2>7 DEF TypesInv, TypeOK, Stage
  <2>9. ASSUME NEW d \in Call PROVE Holds(d)'
    BY <1>15, <2>6, <2>7, <2>1 DEF write_bot, TypesInv, TypeOK, Holds, Visiting
  <2>. QED
    BY <1>15, <2>5, <2>8, <2>9 DEF write_bot, TypesInv, TypeOK, envVars
<1>16. ASSUME NEW c \in Call, updated_all(c) PROVE TypesInv'
  BY <1>16
    DEF updated_all, Go, TypesInv, TypeOK, Holds, Visiting, Stage, Row, Entry,
       Status, Fresh, Inactive, ActiveOn, RowsOf, Matching, envVars, callVars
<1>17. ASSUME NEW c \in Call, visited_all(c) PROVE TypesInv'
  BY <1>17
    DEF visited_all, Go, TypesInv, TypeOK, Holds, Visiting, Stage, Row, Entry,
       Status, Fresh, Inactive, ActiveOn, RowsOf, Matching, envVars, callVars
<1>18. ASSUME NEW c \in Call, sync_ends(c) PROVE TypesInv'
  BY <1>18
    DEF sync_ends, Go, TypesInv, TypeOK, Holds, Visiting, Stage, Row, Entry, Status,
       Fresh, Inactive, ActiveOn, RowsOf, Matching, envVars, callVars
<1>19. ASSUME NEW c \in Call, database_fails(c) PROVE TypesInv'
  BY <1>19
    DEF database_fails, Go, Fault, TypesInv, TypeOK, Holds, Visiting, Stage, Row,
       Entry, Status, Fresh, Inactive, ActiveOn, RowsOf, Matching, envVars, callVars
<1>20. ASSUME NEW c \in Call, health_fails(c) PROVE TypesInv'
  BY <1>20
    DEF health_fails, Go, Fault, TypesInv, TypeOK, Holds, Visiting, Stage, Row,
       Entry, Status, Fresh, Inactive, ActiveOn, RowsOf, Matching, envVars, callVars
<1>21. ASSUME NEW c \in Call, bots_fail(c) PROVE TypesInv'
  BY <1>21
    DEF bots_fail, Go, Fault, Listed, TypesInv, TypeOK, Holds, Visiting, Stage, Row,
       Entry, Status, Fresh, Inactive, ActiveOn, RowsOf, Matching, envVars, callVars
<1>. QED
  BY <1>1, <1>2, <1>3, <1>4, <1>5, <1>6, <1>7, <1>8, <1>9, <1>10, <1>11, <1>12,
     <1>13, <1>14, <1>15, <1>16, <1>17, <1>18, <1>19, <1>20, <1>21
    DEF Next, SyncStep, NodeStep, Failure

\* The types hold at the start.
LEMMA TypesStart == Init => TypesInv
<1>. SUFFICES ASSUME Init PROVE TypesInv
  OBVIOUS
<1>1. left \in [change : 0 .. MaxChange, fault : 0 .. MaxFault, exit : 0 .. MaxExit]
  BY SyncAssumption DEF Init
<1>2. up \in SUBSET Node /\ bots \in [Node -> SUBSET Entry] /\ rows \subseteq Row
      /\ alive \in BOOLEAN /\ sync \in BOOLEAN /\ absent \subseteq Node \X Bot
  BY DEF Init
<1>3. at \in [Call -> Stage] /\ (\A c \in Call : Holds(c))
  BY DEF Init, Stage, Holds, Visiting
<1>. QED
  BY <1>1, <1>2, <1>3 DEF Init, TypesInv, TypeOK

\* The types hold always.
LEMMA TypesInvariant ==
  Spec => []TypesInv
<1>1. TypesInv /\ UNCHANGED vars => TypesInv'
  BY DEF TypesInv, TypeOK, Holds, vars, envVars, callVars
<1>. QED
  BY <1>1, TypesStart, TypesStep, PTL DEF Spec

-----------------------------------------------------------------------------
(***************************************************************************)
(* One sync at a time, and ids that stay with their bots.                  *)
(***************************************************************************)
\* Every step keeps the calls of syncBots apart.
LEMMA AloneStep ==
  ASSUME TypesInv, Alone, Next PROVE Alone'
<1>1. ASSUME node_changes PROVE Alone'
  BY <1>1
    DEF node_changes, Change, TypesInv, TypeOK, Alone, envVars, callVars
<1>2. ASSUME table_changes PROVE Alone'
  BY <1>2
    DEF table_changes, Change, NewRow, TypesInv, TypeOK, Alone, envVars, callVars
<1>3. ASSUME exit PROVE Alone'
  BY <1>3
    DEF exit, TypesInv, TypeOK, Alone, envVars, callVars
<1>4. ASSUME start PROVE Alone'
  BY <1>4
    DEF start, TypesInv, TypeOK, Alone, envVars, callVars
<1>5. ASSUME NEW c \in Call, sync_begins(c) PROVE Alone'
  BY <1>5
    DEF sync_begins, Go, TypesInv, TypeOK, Alone, envVars, callVars
<1>6. ASSUME NEW c \in Call, database_healthy(c) PROVE Alone'
  BY <1>6
    DEF database_healthy, Go, TypesInv, TypeOK, Alone, envVars, callVars
<1>7. ASSUME NEW c \in Call, find_nodes(c) PROVE Alone'
  BY <1>7
    DEF find_nodes, Go, TypesInv, TypeOK, Alone, envVars, callVars
<1>8. ASSUME NEW c \in Call, next_node(c) PROVE Alone'
  BY <1>8
    DEF next_node, Go, TypesInv, TypeOK, Alone, envVars, callVars
<1>9. ASSUME NEW c \in Call, checkNodeHealth(c) PROVE Alone'
  BY <1>9
    DEF checkNodeHealth, Go, TypesInv, TypeOK, Alone, envVars, callVars
<1>10. ASSUME NEW c \in Call, removeAllBotsFromNode(c) PROVE Alone'
  BY <1>10
    DEF removeAllBotsFromNode, Go, Fault, TypesInv, TypeOK, Alone, envVars, callVars
<1>11. ASSUME NEW c \in Call, getActiveBots(c) PROVE Alone'
  BY <1>11
    DEF getActiveBots, Go, Listed, TypesInv, TypeOK, Alone, envVars, callVars
<1>12. ASSUME NEW c \in Call, removeInactiveBots(c) PROVE Alone'
  BY <1>12
    DEF removeInactiveBots, Go, Fault, TypesInv, TypeOK, Alone, envVars, callVars
<1>13. ASSUME NEW c \in Call, removed_all(c) PROVE Alone'
  BY <1>13
    DEF removed_all, Go, TypesInv, TypeOK, Alone, envVars, callVars
<1>14. ASSUME NEW c \in Call, find_bot(c) PROVE Alone'
  BY <1>14
    DEF find_bot, Go, TypesInv, TypeOK, Alone, envVars, callVars
<1>15. ASSUME NEW c \in Call, write_bot(c) PROVE Alone'
  BY <1>15
    DEF write_bot, Go, Fault, NewRow, TypesInv, TypeOK, Alone, envVars, callVars
<1>16. ASSUME NEW c \in Call, updated_all(c) PROVE Alone'
  BY <1>16
    DEF updated_all, Go, TypesInv, TypeOK, Alone, envVars, callVars
<1>17. ASSUME NEW c \in Call, visited_all(c) PROVE Alone'
  BY <1>17
    DEF visited_all, Go, TypesInv, TypeOK, Alone, envVars, callVars
<1>18. ASSUME NEW c \in Call, sync_ends(c) PROVE Alone'
  BY <1>18
    DEF sync_ends, Go, TypesInv, TypeOK, Alone, envVars, callVars
<1>19. ASSUME NEW c \in Call, database_fails(c) PROVE Alone'
  BY <1>19
    DEF database_fails, Go, Fault, TypesInv, TypeOK, Alone, envVars, callVars
<1>20. ASSUME NEW c \in Call, health_fails(c) PROVE Alone'
  BY <1>20
    DEF health_fails, Go, Fault, TypesInv, TypeOK, Alone, envVars, callVars
<1>21. ASSUME NEW c \in Call, bots_fail(c) PROVE Alone'
  BY <1>21
    DEF bots_fail, Go, Fault, Listed, TypesInv, TypeOK, Alone, envVars, callVars
<1>. QED
  BY <1>1, <1>2, <1>3, <1>4, <1>5, <1>6, <1>7, <1>8, <1>9, <1>10, <1>11, <1>12,
     <1>13, <1>14, <1>15, <1>16, <1>17, <1>18, <1>19, <1>20, <1>21
    DEF Next, SyncStep, NodeStep, Failure

\* Rows that are still about the bots of earlier rows keep IdsInv.
LEMMA IdsKept ==
  ASSUME IdsInv,
         \A s \in rows' : \E r \in rows : r.id = s.id /\ r.node = s.node /\ r.user = s.user,
         \A c \in Call : snap'[c] \subseteq snap[c] \cup rows
  PROVE  IdsInv'
<1>1. ASSUME NEW r \in rows', NEW s \in rows' PROVE SameBot(r, s)
  BY DEF IdsInv, SameBot
<1>2. ASSUME NEW c \in Call, NEW r \in snap'[c], NEW s \in rows' PROVE SameBot(r, s)
  BY DEF IdsInv, SameBot
<1>. QED
  BY <1>1, <1>2 DEF IdsInv, SameBot

\* A row with an id that is not in use keeps IdsInv.
LEMMA IdsNew ==
  ASSUME TypesInv, IdsInv, NEW n, NEW b, NEW status, NewRow(n, b, status), UNCHANGED snap
  PROVE  IdsInv'
<1>1. PICK id \in Fresh :
        rows' = rows \cup {[id |-> id, node |-> n, user |-> b, status |-> status]}
  BY DEF NewRow
<1>2. \A r \in rows : r.id # id
  BY DEF Fresh
<1>3. \A c \in Call : \A r \in snap[c] : r.id # id
  BY DEF Fresh
<1>4. ASSUME NEW r \in rows', NEW s \in rows' PROVE SameBot(r, s)
  BY <1>1, <1>2 DEF IdsInv, SameBot
<1>5. ASSUME NEW c \in Call, NEW r \in snap[c], NEW s \in rows' PROVE SameBot(r, s)
  BY <1>1, <1>3 DEF IdsInv, SameBot
<1>. QED
  BY <1>4, <1>5 DEF IdsInv, SameBot

\* Every step keeps an id with its bot.
LEMMA IdsStep ==
  ASSUME TypesInv, IdsInv, Next PROVE IdsInv'
<1>1. ASSUME node_changes PROVE IdsInv'
  BY <1>1, IdsKept DEF node_changes, Change, callVars
<1>2. ASSUME table_changes PROVE IdsInv'
  <2>1. CASE \E r \in rows : rows' = rows \ {r}
    BY <1>2, <2>1, IdsKept DEF table_changes, Change, callVars
  <2>. QED
    BY <1>2, <2>1, IdsNew DEF table_changes, Change, callVars
<1>3. ASSUME exit PROVE IdsInv'
  BY <1>3, IdsKept DEF exit, callVars
<1>4. ASSUME start PROVE IdsInv'
  BY <1>4, IdsKept DEF start
<1>5. ASSUME NEW c \in Call, sync_begins(c) PROVE IdsInv'
  BY <1>5, IdsKept DEF sync_begins
<1>6. ASSUME NEW c \in Call, database_healthy(c) PROVE IdsInv'
  BY <1>6, IdsKept DEF database_healthy
<1>7. ASSUME NEW c \in Call, find_nodes(c) PROVE IdsInv'
  BY <1>7, IdsKept DEF find_nodes, TypesInv, TypeOK
<1>8. ASSUME NEW c \in Call, next_node(c) PROVE IdsInv'
  BY <1>8, IdsKept DEF next_node
<1>9. ASSUME NEW c \in Call, checkNodeHealth(c) PROVE IdsInv'
  BY <1>9, IdsKept DEF checkNodeHealth
<1>10. ASSUME NEW c \in Call, removeAllBotsFromNode(c) PROVE IdsInv'
  BY <1>10, IdsKept DEF removeAllBotsFromNode
<1>11. ASSUME NEW c \in Call, getActiveBots(c) PROVE IdsInv'
  BY <1>11, IdsKept DEF getActiveBots, Listed
<1>12. ASSUME NEW c \in Call, removeInactiveBots(c) PROVE IdsInv'
  BY <1>12, IdsKept DEF removeInactiveBots
<1>13. ASSUME NEW c \in Call, removed_all(c) PROVE IdsInv'
  BY <1>13, IdsKept DEF removed_all
<1>14. ASSUME NEW c \in Call, find_bot(c) PROVE IdsInv'
  BY <1>14, IdsKept DEF find_bot
<1>15. ASSUME NEW c \in Call, write_bot(c) PROVE IdsInv'
  <2>. DEFINE e == CHOOSE e \in found[c] : TRUE
  <2>. HIDE DEF e
  <2>1. CASE rows' = {IF r.id = row[c] THEN [r EXCEPT !.status = e.status] ELSE r : r \in rows}
    <3>1. ASSUME NEW r \in rows
          PROVE  LET s == IF r.id = row[c] THEN [r EXCEPT !.status = e.status] ELSE r
                 IN  r.id = s.id /\ r.node = s.node /\ r.user = s.user
      BY DEF TypesInv, TypeOK, Row
    <3>2. \A s \in rows' : \E r \in rows : r.id = s.id /\ r.node = s.node /\ r.user = s.user
      BY <2>1, <3>1
    <3>. QED
      BY <1>15, <3>2, IdsKept DEF write_bot
  <2>2. CASE NewRow(node[c], e.user, e.status)
    BY <1>15, <2>2, IdsNew DEF write_bot
  <2>3. CASE UNCHANGED rows
    BY <1>15, <2>3, IdsKept DEF write_bot
  <2>. QED
    BY <1>15, <2>1, <2>2, <2>3 DEF write_bot, e
<1>16. ASSUME NEW c \in Call, updated_all(c) PROVE IdsInv'
  BY <1>16, IdsKept DEF updated_all
<1>17. ASSUME NEW c \in Call, visited_all(c) PROVE IdsInv'
  BY <1>17, IdsKept DEF visited_all
<1>18. ASSUME NEW c \in Call, sync_ends(c) PROVE IdsInv'
  BY <1>18, IdsKept DEF sync_ends, TypesInv, TypeOK
<1>19. ASSUME NEW c \in Call, database_fails(c) PROVE IdsInv'
  BY <1>19, IdsKept DEF database_fails
<1>20. ASSUME NEW c \in Call, health_fails(c) PROVE IdsInv'
  BY <1>20, IdsKept DEF health_fails
<1>21. ASSUME NEW c \in Call, bots_fail(c) PROVE IdsInv'
  BY <1>21, IdsKept DEF bots_fail, Listed
<1>. QED
  BY <1>1, <1>2, <1>3, <1>4, <1>5, <1>6, <1>7, <1>8, <1>9, <1>10, <1>11, <1>12,
     <1>13, <1>14, <1>15, <1>16, <1>17, <1>18, <1>19, <1>20, <1>21
    DEF Next, SyncStep, NodeStep, Failure

-----------------------------------------------------------------------------
(***************************************************************************)
(* What a sync knows.                                                      *)
(***************************************************************************)
\* While the nodes do not change, the same bots are absent.
LEMMA AbsentSame ==
  ASSUME UNCHANGED envVars PROVE Absent' = Absent
BY DEF Absent, Runs, ActiveOn, envVars

\* Faults are only used up.
LEMMA FaultsUsed ==
  ASSUME TypesInv, Next, left'.fault = MaxFault PROVE left.fault = MaxFault
<1>1. left.fault \in 0 .. MaxFault /\ MaxFault \in Nat
  BY SyncAssumption DEF TypesInv, TypeOK
<1>2. UNCHANGED left \/ Fault \/ left' = [left EXCEPT !.change = left.change - 1]
      \/ left' = [left EXCEPT !.exit = left.exit - 1]
  BY DEF Next, node_changes, table_changes, Change, exit, start, sync_begins, SyncStep,
    NodeStep, Failure, database_healthy, find_nodes, next_node, checkNodeHealth,
    removeAllBotsFromNode, getActiveBots, removeInactiveBots, removed_all, find_bot,
    write_bot, updated_all, visited_all, sync_ends, database_fails, health_fails, bots_fail
<1>3. CASE Fault
  BY <1>1, <1>3 DEF Fault, TypesInv, TypeOK
<1>. QED
  BY <1>2, <1>3 DEF TypesInv, TypeOK

\* A bot that is not in the answer of an active node is absent.
LEMMA InactiveAbsent ==
  ASSUME TypesInv, NEW c \in Call, node[c] \in Node, Serves = AllEndpoints, NEW r \in
           Inactive(c, IF Answers(c, "bots") THEN ActiveOn(node[c]) ELSE {})
  PROVE  r \in snap[c] /\ <<r.node, r.user>> \in Absent
<1>1. r \in snap[c] /\ r \in Row /\ r.node = node[c]
  BY DEF Inactive, TypesInv, TypeOK
<1>2. r.user \notin Runs(node[c])
  BY DEF Inactive, Answers, AllEndpoints, Runs
<1>. QED
  BY <1>1, <1>2 DEF Absent, Row

\* Every step keeps what a sync knows.
LEMMA KnownStep ==
  ASSUME Serves = AllEndpoints, TypesInv, Alone, KnownInv, Next PROVE KnownInv'
<1>. SUFFICES ASSUME left'.fault = MaxFault PROVE \A d \in Call : Known(d)'
  BY DEF KnownInv
<1>. left.fault = MaxFault /\ \A d \in Call : Known(d)
  BY FaultsUsed DEF KnownInv
<1>. USE DEF Visiting
<1>1. ASSUME node_changes PROVE \A d \in Call : Known(d)'
  BY <1>1 DEF node_changes, Change, Known, callVars
<1>2. ASSUME table_changes PROVE \A d \in Call : Known(d)'
  BY <1>2, AbsentSame DEF table_changes, Change, Known, callVars
<1>3. ASSUME exit PROVE \A d \in Call : Known(d)'
  BY <1>3, AbsentSame DEF exit, Known, callVars
<1>4. ASSUME start PROVE \A d \in Call : Known(d)'
  BY <1>4 DEF start, Known
<1>5. ASSUME NEW c \in Call, sync_begins(c) PROVE \A d \in Call : Known(d)'
  BY <1>5, AbsentSame DEF sync_begins, Go, Known, TypesInv, TypeOK
<1>6. ASSUME NEW c \in Call, database_healthy(c) PROVE \A d \in Call : Known(d)'
  BY <1>6, AbsentSame DEF database_healthy, Go, Known, TypesInv, TypeOK
<1>7. ASSUME NEW c \in Call, find_nodes(c) PROVE \A d \in Call : Known(d)'
  <2>1. absent' = Absent'
    BY <1>7, AbsentSame DEF find_nodes
  <2>2. \A d \in Call : at'[d] \notin {"purge", "remove"}
    BY <1>7 DEF find_nodes, Go, Alone, TypesInv, TypeOK
  <2>. QED
    BY <2>1, <2>2 DEF Known
<1>8. ASSUME NEW c \in Call, next_node(c) PROVE \A d \in Call : Known(d)'
  BY <1>8, AbsentSame DEF next_node, Go, Known, TypesInv, TypeOK
<1>9. ASSUME NEW c \in Call, checkNodeHealth(c) PROVE \A d \in Call : Known(d)'
  <2>1. node[c] \in Node /\ at[c] = "check" /\ Absent \subseteq absent
    BY <1>9 DEF checkNodeHealth, Go, TypesInv, Holds, Known
  <2>2. ASSUME at'[c] = "purge", NEW b \in Bot PROVE <<node[c], b>> \in absent
    <3>1. node[c] \notin up
      BY <1>9, <2>2 DEF checkNodeHealth, Go, Answers, AllEndpoints, TypesInv, TypeOK
    <3>. QED
      BY <2>1, <3>1 DEF Absent, Runs
  <2>. QED
    BY <1>9, <2>1, <2>2, AbsentSame DEF checkNodeHealth, Go, Known, TypesInv, TypeOK
<1>10. ASSUME NEW c \in Call, removeAllBotsFromNode(c) PROVE \A d \in Call : Known(d)'
  BY <1>10, AbsentSame DEF removeAllBotsFromNode, Go, Known, TypesInv, TypeOK
<1>11. ASSUME NEW c \in Call, getActiveBots(c) PROVE \A d \in Call : Known(d)'
  <2>. DEFINE answer == IF Answers(c, "bots") THEN ActiveOn(node[c]) ELSE {}
  <2>1. node[c] \in Node /\ at[c] = "list" /\ Absent \subseteq absent
    BY <1>11 DEF getActiveBots, Listed, Go, TypesInv, Holds, Known
  <2>2. \A r \in Inactive(c, answer) : r \in snap[c] /\ <<r.node, r.user>> \in absent
    BY <2>1, InactiveAbsent
  <2>3. gone' = [gone EXCEPT ![c] = Inactive(c, answer)]
    BY <1>11 DEF getActiveBots, Listed
  <2>. HIDE DEF answer
  <2>. QED
    BY <1>11, <2>1, <2>2, <2>3, AbsentSame
      DEF getActiveBots, Listed, Go, Known, TypesInv, TypeOK
<1>12. ASSUME NEW c \in Call, removeInactiveBots(c) PROVE \A d \in Call : Known(d)'
  BY <1>12, AbsentSame DEF removeInactiveBots, Go, Known, TypesInv, TypeOK
<1>13. ASSUME NEW c \in Call, removed_all(c) PROVE \A d \in Call : Known(d)'
  BY <1>13, AbsentSame DEF removed_all, Go, Known, TypesInv, TypeOK
<1>14. ASSUME NEW c \in Call, find_bot(c) PROVE \A d \in Call : Known(d)'
  BY <1>14, AbsentSame DEF find_bot, Go, Known, TypesInv, TypeOK
<1>15. ASSUME NEW c \in Call, write_bot(c) PROVE \A d \in Call : Known(d)'
  BY <1>15, AbsentSame DEF write_bot, Go, Known, TypesInv, TypeOK
<1>16. ASSUME NEW c \in Call, updated_all(c) PROVE \A d \in Call : Known(d)'
  BY <1>16, AbsentSame DEF updated_all, Go, Known, TypesInv, TypeOK
<1>17. ASSUME NEW c \in Call, visited_all(c) PROVE \A d \in Call : Known(d)'
  BY <1>17, AbsentSame DEF visited_all, Go, Known, TypesInv, TypeOK
<1>18. ASSUME NEW c \in Call, sync_ends(c) PROVE \A d \in Call : Known(d)'
  BY <1>18, AbsentSame DEF sync_ends, Go, Known, TypesInv, TypeOK
<1>19. ASSUME NEW c \in Call, database_fails(c) PROVE \A d \in Call : Known(d)'
  BY <1>19, SyncAssumption DEF database_fails, Fault, TypesInv, TypeOK
<1>20. ASSUME NEW c \in Call, health_fails(c) PROVE \A d \in Call : Known(d)'
  BY <1>20, SyncAssumption DEF health_fails, Fault, TypesInv, TypeOK
<1>21. ASSUME NEW c \in Call, bots_fail(c) PROVE \A d \in Call : Known(d)'
  BY <1>21, SyncAssumption DEF bots_fail, Fault, TypesInv, TypeOK
<1>. QED
  BY <1>1, <1>2, <1>3, <1>4, <1>5, <1>6, <1>7, <1>8, <1>9, <1>10, <1>11, <1>12,
     <1>13, <1>14, <1>15, <1>16, <1>17, <1>18, <1>19, <1>20, <1>21
    DEF Next, SyncStep, NodeStep, Failure

-----------------------------------------------------------------------------
(***************************************************************************)
(* What a sync deletes.                                                    *)
(***************************************************************************)
\* A step of a sync deletes only rows of bots that were absent.
LEMMA DeletesStep ==
  ASSUME TypesInv, IdsInv, KnownInv, left.fault = MaxFault, NEW c \in Call, SyncStep(c),
         NEW r \in Deleted
  PROVE  <<r.node, r.user>> \in absent
<1>1. r \in rows /\ r \in Row /\ \A s \in rows' : s.id # r.id
  BY DEF Deleted, TypesInv, TypeOK
<1>2. rows' # rows
  BY <1>1
<1>3. CASE removeAllBotsFromNode(c)
  <2>1. \A b \in Bot : <<node[c], b>> \in absent
    BY <1>3 DEF removeAllBotsFromNode, Go, KnownInv, Known
  <2>2. r.node = node[c]
    BY <1>1, <1>2, <1>3 DEF removeAllBotsFromNode, RowsOf
  <2>. QED
    BY <1>1, <2>1, <2>2 DEF Row
<1>4. CASE removeInactiveBots(c)
  <2>1. PICK g \in gone[c] : rows' = {q \in rows : q.id # g.id}
    BY <1>2, <1>4 DEF removeInactiveBots
  <2>2. g \in snap[c] /\ <<g.node, g.user>> \in absent
    BY <1>4 DEF removeInactiveBots, Go, KnownInv, Known
  <2>3. g.id = r.id
    BY <1>1, <2>1
  <2>. QED
    BY <1>1, <2>2, <2>3 DEF IdsInv, SameBot
<1>5. CASE write_bot(c)
  <2>. DEFINE e == CHOOSE e \in found[c] : TRUE
  <2>. HIDE DEF e
  <2>1. CASE rows' = {IF q.id = row[c] THEN [q EXCEPT !.status = e.status] ELSE q : q \in rows}
    <3>. DEFINE s == IF r.id = row[c] THEN [r EXCEPT !.status = e.status] ELSE r
    <3>1. s.id = r.id
      BY <1>1 DEF Row
    <3>2. s \in rows'
      BY <1>1, <2>1
    <3>. QED
      BY <1>1, <3>1, <3>2
  <2>2. CASE NewRow(node[c], e.user, e.status)
    BY <1>1, <2>2 DEF NewRow
  <2>. QED
    BY <1>2, <1>5, <2>1, <2>2 DEF write_bot, e
<1>. QED
  BY <1>2, <1>3, <1>4, <1>5
    DEF SyncStep, NodeStep, database_healthy, find_nodes, next_node, checkNodeHealth,
      getActiveBots, Listed, removed_all, find_bot, updated_all, visited_all, sync_ends

\* The other invariants hold at the start.
LEMMA SyncStart == Init => Alone /\ IdsInv /\ KnownInv
BY DEF Init, Alone, IdsInv, KnownInv, Known, Visiting

\* They hold always.
LEMMA SyncInvariants ==
  Spec => [](Alone /\ IdsInv)
<1>1. TypesInv /\ Alone /\ IdsInv /\ [Next]_vars => (Alone /\ IdsInv)'
  <2>. SUFFICES ASSUME TypesInv, Alone, IdsInv, [Next]_vars PROVE (Alone /\ IdsInv)'
    OBVIOUS
  <2>1. CASE Next
    BY <2>1, AloneStep, IdsStep
  <2>2. CASE UNCHANGED vars
    BY <2>2 DEF vars, callVars, Alone, IdsInv, SameBot
  <2>. QED
    BY <2>1, <2>2
<1>. QED
  BY <1>1, SyncStart, TypesInvariant, PTL DEF Spec

\* What a sync knows is so, if the nodes serve the endpoints.
LEMMA KnownInvariant ==
  Serves = AllEndpoints => (Spec => []KnownInv)
<1>. SUFFICES ASSUME Serves = AllEndpoints PROVE Spec => []KnownInv
  OBVIOUS
<1>1. TypesInv /\ Alone /\ KnownInv /\ [Next]_vars => KnownInv'
  <2>. SUFFICES ASSUME TypesInv, Alone, KnownInv, [Next]_vars PROVE KnownInv'
    OBVIOUS
  <2>1. CASE Next
    BY <2>1, KnownStep
  <2>2. CASE UNCHANGED vars
    BY <2>2, AbsentSame DEF vars, callVars, envVars, KnownInv, Known
  <2>. QED
    BY <2>1, <2>2
<1>. QED
  BY <1>1, SyncStart, TypesInvariant, SyncInvariants, PTL DEF Spec

\* Every variable has its type, whatever the environment does.
THEOREM TypeCorrect ==
  Spec => []TypeOK
<1>1. TypesInv => TypeOK
  BY DEF TypesInv
<1>. QED
  BY <1>1, TypesInvariant, PTL

\* README.md:11-13 of the worker, for any nodes, bots and calls of syncBots: a
\* sync removes the row of a bot only if the bot, at some time in this sync, was
\* not active on a node that could be reached.  The nodes serve the endpoints,
\* and no request has failed so far though its node would answer.
THEOREM RemovesOnlyAbsent ==
  Serves = AllEndpoints => (Spec => DeletesAbsent)
<1>. SUFFICES ASSUME Serves = AllEndpoints PROVE Spec => DeletesAbsent
  OBVIOUS
<1>1. TypesInv /\ IdsInv /\ KnownInv /\ [Next]_vars
        => [(\E c \in Call : SyncStep(c)) /\ left.fault = MaxFault
              => \A r \in Deleted : <<r.node, r.user>> \in absent]_vars
  BY DeletesStep
<1>. QED
  BY <1>1, TypesInvariant, SyncInvariants, KnownInvariant, PTL DEF Spec, DeletesAbsent
================================================================================
