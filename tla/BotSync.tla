------------------------------- MODULE BotSync -------------------------------
(***************************************************************************)
(* web-control/worker/index.js: a process that keeps the rows of a table   *)
(* of bots in step with what the nodes run.  One sync asks every node; it  *)
(* is started by start() and by a timer, and other code runs whenever it   *)
(* awaits a request.  The nodes, the database and whoever else writes to   *)
(* it (test-data.js) are its environment.                                  *)
(***************************************************************************)
EXTENDS Naturals, FiniteSets

CONSTANTS
  Node, Bot,  \* the nodes in the database, the names (username) of bots
  Id,         \* the ids of rows; one in use is not given again
  Serves,     \* the endpoints that a node answers, of AllEndpoints
  Call,       \* the calls of syncBots that there may be at a time
  MaxChange,  \* bound: the changes of the environment
  MaxFault,   \* bound: the requests that fail though the node would answer
  MaxExit,    \* bound: the ends of the process
  Nothing     \* no node, no id

AllEndpoints == {"health", "bots"}

ASSUME SyncAssumption ==
  /\ Serves \subseteq AllEndpoints
  /\ MaxChange \in Nat /\ MaxFault \in Nat /\ MaxExit \in Nat
  /\ Nothing \notin Node \cup Id

VARIABLES
  up,       \* the nodes that can be reached
  bots,     \* the bots of each node with their status
  rows,     \* the table: records [id, node, user, status]
  alive,    \* the process runs
  sync,     \* syncInProgress
  at,       \* where each call of syncBots is
  nodes,    \* the nodes it still has to visit
  snap,     \* the rows it read with the nodes
  node,     \* the node it visits
  found,    \* activeBots, those it has not updated yet
  gone,     \* the rows that removeInactiveBots still has to delete
  row,      \* what findFirst returned
  left,     \* the bounds that are left: changes, faults, exits
  absent    \* history: the bots that, since the sync read the table, were once
            \* not active on a node that can be reached

callVars == <<at, nodes, snap, node, found, gone, row>>
envVars  == <<up, bots>>
vars == <<envVars, rows, alive, sync, callVars, left, absent>>

Status == {"ONLINE", "OFFLINE"}
Row    == [id : Id, node : Node, user : Bot, status : Status]
Entry  == [user : Bot, status : Status]
Stage  == {"idle", "health", "find", "next", "check", "purge", "list", "remove",
           "look", "write", "end"}

TypeOK ==
  /\ up \in SUBSET Node
  /\ bots \in [Node -> SUBSET Entry]
  /\ rows \subseteq Row
  /\ alive \in BOOLEAN /\ sync \in BOOLEAN
  /\ at \in [Call -> Stage]
  /\ nodes \in [Call -> SUBSET Node]
  /\ snap \in [Call -> SUBSET Row]
  /\ node \in [Call -> Node \cup {Nothing}]
  /\ found \in [Call -> SUBSET Entry]
  /\ gone \in [Call -> SUBSET Row]
  /\ row \in [Call -> Id \cup {Nothing}]
  /\ left \in [change : 0 .. MaxChange, fault : 0 .. MaxFault, exit : 0 .. MaxExit]
  /\ absent \subseteq Node \X Bot

RowsOf(n)   == {r \in rows : r.node = n}
ActiveOn(n) == {e \in bots[n] : e.status = "ONLINE"}  \* or 'CONNECTED'
Runs(n)     == IF n \in up THEN {e.user : e \in ActiveOn(n)} ELSE {}
Absent      == {p \in Node \X Bot : p[2] \notin Runs(p[1])}

Init ==
  /\ up \in SUBSET Node
  /\ bots = [n \in Node |-> {}]
  /\ rows = {}
  /\ alive = TRUE /\ sync = FALSE
  /\ at = [c \in Call |-> "idle"]
  /\ nodes = [c \in Call |-> {}] /\ snap = [c \in Call |-> {}]
  /\ node = [c \in Call |-> Nothing]
  /\ found = [c \in Call |-> {}] /\ gone = [c \in Call |-> {}]
  /\ row = [c \in Call |-> Nothing]
  /\ left = [change |-> MaxChange, fault |-> MaxFault, exit |-> MaxExit]
  /\ absent = {}

-----------------------------------------------------------------------------
(***************************************************************************)
(* The environment.                                                        *)
(***************************************************************************)
Change ==
  /\ left.change > 0 /\ left' = [left EXCEPT !.change = @ - 1]
  /\ UNCHANGED <<alive, sync, callVars>>

node_changes ==
  /\ Change
  /\ \E n \in Node :
       \/ /\ up' = IF n \in up THEN up \ {n} ELSE up \cup {n}
          /\ UNCHANGED bots
       \/ \E b \in Bot, status \in Status \cup {Nothing} :
            /\ bots' = [bots EXCEPT ![n] =
                 {e \in @ : e.user # b} \cup (IF status = Nothing THEN {} ELSE {[user |-> b, status |-> status]})]
            /\ UNCHANGED up
  /\ absent' = absent \cup Absent'
  /\ UNCHANGED rows

\* An id that no row has, and no call holds.
Fresh == Id \ ({r.id : r \in rows \cup UNION {snap[c] : c \in Call}} \cup {row[c] : c \in Call})

NewRow(n, b, status) ==
  /\ \A r \in RowsOf(n) : r.user # b                   \* @@unique([username, nodeId])
  /\ \E id \in Fresh : rows' = rows \cup {[id |-> id, node |-> n, user |-> b, status |-> status]}

\* test-data.js, or an operator.
table_changes ==
  /\ Change
  /\ \/ \E n \in Node, b \in Bot, status \in Status : NewRow(n, b, status)
     \/ \E r \in rows : rows' = rows \ {r}
  /\ UNCHANGED <<envVars, absent>>

-----------------------------------------------------------------------------
(***************************************************************************)
(* syncBots.  Each await is a step; what an error leads to is named fails. *)
(***************************************************************************)
Go(c, from, to) == alive /\ at[c] = from /\ at' = [at EXCEPT ![c] = to]

Fault == left.fault > 0 /\ left' = [left EXCEPT !.fault = @ - 1]

sync_begins(c) ==
  /\ Go(c, "idle", "health")
  /\ ~ sync /\ sync' = TRUE
  /\ UNCHANGED <<envVars, rows, alive, nodes, snap, node, found, gone, row, left, absent>>

\* checkDatabaseHealth, or findMany.
database_fails(c) ==
  /\ \E from \in {"health", "find"} : Go(c, from, "end")
  /\ Fault
  /\ UNCHANGED <<envVars, rows, alive, sync, nodes, snap, node, found, gone, row, absent>>

database_healthy(c) ==
  /\ Go(c, "health", "find")
  /\ UNCHANGED <<envVars, rows, alive, sync, nodes, snap, node, found, gone, row, left, absent>>

find_nodes(c) ==
  /\ Go(c, "find", "next")
  /\ nodes' = [nodes EXCEPT ![c] = Node]
  /\ snap' = [snap EXCEPT ![c] = rows]
  /\ absent' = Absent
  /\ UNCHANGED <<envVars, rows, alive, sync, node, found, gone, row, left>>

next_node(c) ==
  /\ \E n \in nodes[c] : /\ Go(c, "next", "check")
                         /\ nodes' = [nodes EXCEPT ![c] = @ \ {n}]
                         /\ node' = [node EXCEPT ![c] = n]
  /\ UNCHANGED <<envVars, rows, alive, sync, snap, found, gone, row, left, absent>>

Answers(c, endpoint) == endpoint \in Serves /\ node[c] \in up

checkNodeHealth(c) ==
  /\ Go(c, "check", IF Answers(c, "health") THEN "list" ELSE "purge")
  /\ UNCHANGED <<envVars, rows, alive, sync, nodes, snap, node, found, gone, row, left, absent>>

health_fails(c) ==
  /\ Go(c, "check", "purge") /\ Fault
  /\ UNCHANGED <<envVars, rows, alive, sync, nodes, snap, node, found, gone, row, absent>>

removeAllBotsFromNode(c) ==
  /\ Go(c, "purge", "next")
  /\ \/ rows' = rows \ RowsOf(node[c]) /\ UNCHANGED left
     \/ Fault /\ UNCHANGED rows
  /\ UNCHANGED <<envVars, alive, sync, nodes, snap, node, found, gone, row, absent>>

\* Mutant: the rows of all nodes are compared with one node's answer.
Inactive_anywhere(c, answer) ==
  {r \in snap[c] : r.user \notin {e.user : e \in answer}}

\* The rows of the snapshot whose bot is not in the answer.
Inactive(c, answer) ==
  {r \in snap[c] : r.node = node[c] /\ r.user \notin {e.user : e \in answer}}

Listed(c, answer) ==
  /\ Go(c, "list", "remove")
  /\ found' = [found EXCEPT ![c] = answer]
  /\ gone' = [gone EXCEPT ![c] = Inactive(c, answer)]
  /\ UNCHANGED <<envVars, rows, alive, sync, nodes, snap, node, row, absent>>

\* Mutant: offline bots are not filtered out of the answer.
getActiveBots_unfiltered(c) ==
  /\ Listed(c, IF Answers(c, "bots") THEN bots[node[c]] ELSE {})
  /\ UNCHANGED left

\* Any error is an empty list.
getActiveBots(c) ==
  /\ Listed(c, IF Answers(c, "bots") THEN ActiveOn(node[c]) ELSE {})
  /\ UNCHANGED left

bots_fail(c) == Listed(c, {}) /\ Fault

\* A row that is gone already is an error, which is caught.
removeInactiveBots(c) ==
  /\ \E r \in gone[c] :
       /\ Go(c, "remove", "remove")
       /\ \/ rows' = {q \in rows : q.id # r.id} /\ UNCHANGED left
          \/ Fault /\ UNCHANGED rows
       /\ gone' = [gone EXCEPT ![c] = @ \ {r}]
  /\ UNCHANGED <<envVars, alive, sync, nodes, snap, node, found, row, absent>>

removed_all(c) ==
  /\ gone[c] = {} /\ Go(c, "remove", "look")
  /\ UNCHANGED <<envVars, rows, alive, sync, nodes, snap, node, found, gone, row, left, absent>>

updated_all(c) ==
  /\ found[c] = {} /\ Go(c, "look", "next")
  /\ UNCHANGED <<envVars, rows, alive, sync, nodes, snap, node, found, gone, row, left, absent>>

\* findFirst for the next active bot.
Matching(c, e) == {r \in RowsOf(node[c]) : r.user = e.user}

\* Mutant: the row is kept, and not its id.
find_bot_row(c) ==
  /\ found[c] # {} /\ Go(c, "look", "write")
  /\ LET e == CHOOSE e \in found[c] : TRUE IN
       row' = [row EXCEPT ![c] = IF Matching(c, e) = {} THEN Nothing
                                 ELSE CHOOSE r \in Matching(c, e) : TRUE]
  /\ UNCHANGED <<envVars, rows, alive, sync, nodes, snap, node, found, gone, left, absent>>

find_bot(c) ==
  /\ found[c] # {} /\ Go(c, "look", "write")
  /\ LET e == CHOOSE e \in found[c] : TRUE IN
       row' = [row EXCEPT ![c] = IF Matching(c, e) = {} THEN Nothing
                                 ELSE (CHOOSE r \in Matching(c, e) : TRUE).id]
  /\ UNCHANGED <<envVars, rows, alive, sync, nodes, snap, node, found, gone, left, absent>>

\* Update, or create.  Either fails if the table has changed meanwhile.
write_bot(c) ==
  /\ Go(c, "write", "look")
  /\ LET e == CHOOSE e \in found[c] : TRUE IN
       /\ found' = [found EXCEPT ![c] = @ \ {e}]
       /\ \/ /\ row[c] # Nothing
             /\ rows' = {IF r.id = row[c] THEN [r EXCEPT !.status = e.status] ELSE r : r \in rows}
             /\ UNCHANGED left
          \/ /\ row[c] = Nothing
             /\ IF Matching(c, e) = {} THEN NewRow(node[c], e.user, e.status) ELSE UNCHANGED rows
             /\ UNCHANGED left
          \/ Fault /\ UNCHANGED rows
  /\ row' = [row EXCEPT ![c] = Nothing]
  /\ UNCHANGED <<envVars, alive, sync, nodes, snap, node, gone, absent>>

visited_all(c) ==
  /\ nodes[c] = {} /\ Go(c, "next", "end")
  /\ UNCHANGED <<envVars, rows, alive, sync, nodes, snap, node, found, gone, row, left, absent>>

\* Mutant: an error before the first node leaves the flag.
sync_ends_flagged(c) ==
  /\ Go(c, "end", "idle")
  /\ sync' = (node[c] = Nothing)
  /\ snap' = [snap EXCEPT ![c] = {}] /\ node' = [node EXCEPT ![c] = Nothing]
  /\ UNCHANGED <<envVars, rows, alive, nodes, found, gone, row, left, absent>>

\* The counts, and finally.
sync_ends(c) ==
  /\ Go(c, "end", "idle")
  /\ sync' = FALSE
  /\ snap' = [snap EXCEPT ![c] = {}] /\ node' = [node EXCEPT ![c] = Nothing]
  /\ UNCHANGED <<envVars, rows, alive, nodes, found, gone, row, left, absent>>

NodeStep(c) ==
  \/ checkNodeHealth(c) \/ removeAllBotsFromNode(c) \/ getActiveBots(c)
  \/ removeInactiveBots(c) \/ removed_all(c)
  \/ find_bot(c) \/ write_bot(c) \/ updated_all(c)

SyncStep(c) ==
  \/ database_healthy(c) \/ find_nodes(c)
  \/ next_node(c) \/ NodeStep(c) \/ visited_all(c) \/ sync_ends(c)

Failure(c) == database_fails(c) \/ health_fails(c) \/ bots_fail(c)

-----------------------------------------------------------------------------
(***************************************************************************)
(* stop() waits for the sync, but not longer than 30 seconds; a crash does *)
(* not wait.  A new process starts with nothing but the table.             *)
(***************************************************************************)
exit ==
  /\ alive /\ alive' = FALSE
  /\ left.exit > 0 /\ left' = [left EXCEPT !.exit = @ - 1]
  /\ UNCHANGED <<envVars, rows, sync, callVars, absent>>

start ==
  /\ ~ alive /\ alive' = TRUE
  /\ sync' = FALSE
  /\ at' = [c \in Call |-> "idle"]
  /\ nodes' = [c \in Call |-> {}] /\ snap' = [c \in Call |-> {}]
  /\ node' = [c \in Call |-> Nothing]
  /\ found' = [c \in Call |-> {}] /\ gone' = [c \in Call |-> {}]
  /\ row' = [c \in Call |-> Nothing]
  /\ UNCHANGED <<envVars, rows, left, absent>>

Next ==
  \/ node_changes \/ table_changes
  \/ \E c \in Call : sync_begins(c) \/ SyncStep(c) \/ Failure(c)
  \/ exit \/ start

Spec == Init /\ [][Next]_vars

(***************************************************************************)
(* Fairness: every request is answered or times out (the timeouts of the   *)
(* axios calls), the timer starts syncs for ever, the process is started   *)
(* again.  Failures and changes have bounds and need no fairness.          *)
(***************************************************************************)
Fairness ==
  /\ \A c \in Call : WF_vars(SyncStep(c))
  /\ WF_vars(\E c \in Call : sync_begins(c))
  /\ WF_vars(start)

FairSpec == Spec /\ Fairness

-----------------------------------------------------------------------------
\* Whatever failed, changed or crashed: a sync comes to its end, or its process.
SyncEnds == sync ~> ~ sync

\* When everything holds still, the table holds the active bots of the nodes
\* that can be reached with their status, and no other, and so it stays.  (For
\* nodes that serve both endpoints, as README.md:54-74 of the worker asks; those
\* of this repository serve none of them.)
InStep == \A n \in Node :
  {[user |-> r.user, status |-> r.status] : r \in RowsOf(n)} = IF n \in up THEN ActiveOn(n) ELSE {}
Converges == <>[]InStep

\* README.md:11-13 of the worker: the row of a bot is removed only if the node
\* is not active or does not run it, at some time in this sync.  This needs that
\* no request has failed so far, and that the nodes serve the endpoints.
Deleted == {r \in rows : r.id \notin {q.id : q \in rows'}}
DeletesAbsent ==
  [][(\E c \in Call : SyncStep(c)) /\ left.fault = MaxFault
       => \A r \in Deleted : <<r.node, r.user>> \in absent]_vars

\* Not so if the list of bots cannot be fetched: README.md:12 of the worker has
\* rows removed from an active node that runs no bots, the code takes an error
\* for an empty list.
RemovesUnlisted ==
  [][(\E c \in Call : removeInactiveBots(c)) => \A r \in Deleted : <<r.node, r.user>> \in absent]_vars
=============================================================================
