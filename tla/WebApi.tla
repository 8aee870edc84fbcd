-------------------------------- MODULE WebApi --------------------------------
(***************************************************************************)
(* The web control (web-control/src/app/api): its tables of users, nodes   *)
(* and bots, and the requests that change them.  Each request runs beside  *)
(* the others and is interrupted at every await, of the database or of a   *)
(* node; the only transaction is a cascading delete.  A node is a row of   *)
(* the table with the address of a process, which can be given another     *)
(* one.  The processes are those of this repository, whose pool keeps the  *)
(* promise of Registry (which ClientPool implements), or others that also  *)
(* say who their bots are (client_id, GET /clients, GET /status), which    *)
(* the web control expects.                                                *)
(*                                                                         *)
(* Left out: the status and the other columns of a bot, which decide       *)
(* nothing here, names and passwords of users, and isActive of a user.     *)
(***************************************************************************)
EXTENDS Naturals, FiniteSets

CONSTANTS
  User, Node, Name,  \* ids of users and nodes (a bound), accounts of bots
  Process,           \* the processes, by their addresses
  Role,              \* the roles that are given, of AllRoles
  Id,                \* what clientId can be if the node does not tell it
  Req,               \* the requests that run at a time
  Limit,             \* the nodes of a FREEMIUM user: 3 in the code
  MaxRequest,        \* bound: the requests that come
  MaxChange,         \* bound: the changes of the processes' pools from elsewhere
  Nobody             \* no user, no node, no process, no request

AllRoles == {"ADMIN", "PREMIUM", "FREEMIUM"}

ASSUME WebAssumption ==
  /\ Role \subseteq AllRoles /\ "ADMIN" \in Role
  /\ Limit \in Nat \ {0} /\ MaxRequest \in Nat /\ MaxChange \in Nat
  /\ IsFiniteSet(Node) /\ Name \cap Id = {}
  /\ Nobody \notin User \cup Node \cup Process \cup Name \cup Id

VARIABLES
  role,       \* of each user; "gone" after the user was deleted
  nodes,      \* the table of nodes: owner and isActive of each
  url,        \* apiUrl of each node (of an id not given yet: the one it will
              \* be registered with)
  rows,       \* the table of bots: records [client, name, node]
  pool,       \* the bots each process runs
  identifies, \* whether the processes say who their bots are
  at, my,     \* where each request is, and its local variables
  stage, op, arg,   \* its add at a process, as Registry has it
  left,       \* what is left of the bounds, and of the nodes' ids
  excused,    \* history: the users that once were not FREEMIUM, or had two
              \* requests for a new node at a time
  raced,      \* history: the users and nodes deleted while a request used them
  lost,       \* history: the bots <<node, name>> that once left the process
              \* the node is, or whose node became another process
  late,       \* history: somebody changed users who was no ADMIN any more
  quiet       \* history: the syncs whose node and rows nobody else has
              \* changed since they fetched the process's list

call    == <<stage, op, arg>>
history == <<excused, raced, lost, late, quiet>>
vars == <<role, nodes, url, rows, pool, identifies, at, my, call, left, history>>

Row   == [client : Name \cup Id, name : Name, node : Node]
Local == [user : User \cup {Nobody}, node : Node \cup {Nobody}, todo : SUBSET Node,
          url : [Node -> Process \cup {Nobody}], known : SUBSET Node, seen : SUBSET Name,
          gone : SUBSET (Name \cup Id), ok : BOOLEAN]
Fresh == [user |-> Nobody, node |-> Nobody, todo |-> {}, url |-> [n \in Node |-> Nobody],
          known |-> {}, seen |-> {}, gone |-> {}, ok |-> FALSE]
SyncStage == {"list", "current", "remove", "upsert"}
Stage == SyncStage \cup
         {"idle", "add", "abandoned", "replace", "insert", "visit", "ask", "mark",
          "node_create", "node_insert", "node_write", "node_drop", "user_update", "user_delete"}

There     == DOMAIN nodes
Active    == {n \in There : nodes[n].active}
Owned(u)  == {n \in There : nodes[n].owner = u}
RowsOf(n) == {r \in rows : r.node = n}
Clients   == {r.client : r \in rows}

\* Every variable keeps its type; no clientId is there twice (@unique).
TypeOK ==
  /\ role \in [User -> Role \cup {"gone"}]
  /\ There \subseteq Node /\ \A n \in There : nodes[n] \in [owner : User, active : BOOLEAN]
  /\ rows \subseteq Row /\ \A r, s \in rows : r.client = s.client => r = s
  /\ url \in [Node -> Process] /\ pool \in [Process -> SUBSET Name] /\ identifies \in BOOLEAN
  /\ at \in [Req -> Stage] /\ my \in [Req -> Local]
  /\ left \in [request : 0 .. MaxRequest, change : 0 .. MaxChange, node : SUBSET Node]
  /\ excused \subseteq User /\ raced \subseteq User \cup Node /\ lost \subseteq Node \X Name
  /\ late \in BOOLEAN /\ quiet \subseteq Req

\* Some users have registered nodes, which run bots the web control has no rows
\* of yet.
Init ==
  /\ role \in [User -> Role] /\ \E u \in User : role[u] = "ADMIN"
  /\ \E N \in SUBSET Node : nodes \in [N -> [owner : User, active : {TRUE}]]
  /\ \A u \in User : role[u] = "FREEMIUM" => Cardinality(Owned(u)) <= Limit
  /\ rows = {} /\ identifies \in BOOLEAN
  /\ url \in [Node -> Process] /\ pool \in [Process -> SUBSET Name]
  /\ at = [q \in Req |-> "idle"] /\ my = [q \in Req |-> Fresh]
  /\ stage = [q \in Req |-> "done"] /\ op = [q \in Req |-> Nobody] /\ arg = [q \in Req |-> Nobody]
  /\ left = [request |-> MaxRequest, change |-> MaxChange, node |-> Node \ There]
  /\ excused = {u \in User : role[u] # "FREEMIUM"}
  /\ raced = {} /\ lost = {} /\ late = FALSE /\ quiet = {}

-----------------------------------------------------------------------------
Goes(q, from, to) == at[q] = from /\ at' = [at EXCEPT ![q] = to]

\* The request is over, and its local variables are gone.
Ends(q, from) == Goes(q, from, "idle") /\ my' = [my EXCEPT ![q] = Fresh]

\* A request comes: getAuthUser finds the user with the role, and what it reads
\* first is read as well.  (One that is turned down here changes nothing.)
Comes(q, to, local) ==
  /\ left.request > 0 /\ left' = [left EXCEPT !.request = @ - 1]
  /\ Goes(q, "idle", to) /\ my' = [my EXCEPT ![q] = local]
  /\ UNCHANGED <<role, nodes, rows, pool, identifies, url>>

Exists(u)  == role[u] # "gone"
Visible(u) == IF role[u] = "ADMIN" THEN There ELSE Owned(u)

\* The nodes of N as they are read, and the process that the request finds at
\* its node, whatever the address is by now.
Addresses(N)  == [n \in Node |-> IF n \in N THEN url[n] ELSE Nobody]
Peer(q)   == my[q].url[my[q].node]

\* Nothing changes but what the request itself holds.
Reads == UNCHANGED <<role, nodes, rows, pool, identifies, url, left>>

-----------------------------------------------------------------------------
(***************************************************************************)
(* POST /api/bots/create: the process adds the bot, then the row is made.  *)
(***************************************************************************)
R(p) == INSTANCE Registry WITH Http <- Req, Ops <- {"add"}, names <- pool[p]

Answered(q) == \E p \in {Peer(q)} : R(p)!Answer(q)

\* The node is found; its answer is awaited for 30 seconds.
create_begins(q, u, n, a) ==
  /\ Exists(u) /\ n \in Visible(u) \cap Active
  /\ Comes(q, "add", [Fresh EXCEPT !.user = u, !.node = n, !.url = Addresses({n})])
  /\ R(url[n])!Arrive(q, "add", a)

node_adds(q) ==
  /\ at[q] \in {"add", "abandoned"} /\ stage[q] = "called"
  /\ \E names \in SUBSET Name : pool' = [pool EXCEPT ![Peer(q)] = names]
  /\ \E p \in {Peer(q)} : R(p)!Act(q)
  /\ UNCHANGED <<role, nodes, rows, identifies, url, at, my, left>>

\* Mutant: whatever the answer says, the row is made.
create_added_anyway(q) ==
  /\ stage[q] \in {"found", "refused"}
  /\ Goes(q, "add", IF identifies THEN "replace" ELSE "insert")
  /\ Reads /\ UNCHANGED <<my, call>>

\* The answer is success: the name was new to the process, and connect() worked.
create_added(q) ==
  /\ stage[q] = "found"
  /\ Goes(q, "add", IF identifies THEN "replace" ELSE "insert")
  /\ Reads /\ UNCHANGED <<my, call>>

\* The answer is an error, or comes too late for anybody to hear it.
create_refused(q) ==
  /\ \E from \in {"add", "abandoned"} : Ends(q, from)
  /\ Reads /\ Answered(q)

create_timeout(q) ==
  /\ Goes(q, "add", "abandoned")
  /\ Reads /\ UNCHANGED <<my, call>>

\* A row with the clientId the process gave is deleted; without one, a new
\* clientId is made up.
create_replace(q) ==
  /\ Goes(q, "replace", "insert")
  /\ rows' = {r \in rows : r.client # arg[q]}
  /\ UNCHANGED <<role, nodes, pool, identifies, url, my, call, left>>

\* Mutant: the schema without @unique on clientId.
create_insert_twice(q) ==
  /\ Ends(q, "insert")
  /\ LET client == IF identifies THEN arg[q] ELSE CHOOSE i \in Id : i \notin Clients IN
       rows' = rows \cup {[client |-> client, name |-> arg[q], node |-> my[q].node]}
  /\ UNCHANGED <<role, nodes, pool, identifies, url, left>> /\ Answered(q)

\* The database checks that the clientId is new, not that the node is there.
create_insert(q) ==
  /\ Ends(q, "insert")
  /\ LET client == IF identifies THEN arg[q] ELSE CHOOSE i \in Id : i \notin Clients IN
       /\ client \in (Name \cup Id) \ Clients
       /\ rows' = rows \cup {[client |-> client, name |-> arg[q], node |-> my[q].node]}
  /\ UNCHANGED <<role, nodes, pool, identifies, url, left>> /\ Answered(q)

create(q) ==
  \/ \E u \in User, n \in Node, a \in Name : create_begins(q, u, n, a)
  \/ create_added(q) \/ create_refused(q) \/ create_timeout(q)
  \/ create_replace(q) \/ create_insert(q)

\* An error of the database ends a request.  (In the loops of sync and check it
\* has consequences of its own.)
database_fails(q) ==
  /\ at[q] \in {"replace", "insert", "node_create", "node_insert", "node_write", "node_drop"}
  /\ Ends(q, at[q]) /\ Reads
  /\ IF stage[q] = "found" THEN Answered(q) ELSE UNCHANGED call

-----------------------------------------------------------------------------
(***************************************************************************)
(* POST /api/bots: the rows of each node follow the list its process gives. *)
(* An error goes on with the next node.                                    *)
(***************************************************************************)
sync_begins(q, u) ==
  /\ Exists(u)
  /\ LET N == Visible(u) \cap Active IN
       Comes(q, "visit", [Fresh EXCEPT !.user = u, !.todo = N, !.url = Addresses(N)])
  /\ UNCHANGED call

sync_visit(q) ==
  /\ \/ my[q].todo = {} /\ Ends(q, "visit")
     \/ \E n \in my[q].todo :
          /\ Goes(q, "visit", "list")
          /\ my' = [my EXCEPT ![q].node = n, ![q].todo = @ \ {n}]
  /\ Reads /\ UNCHANGED call

sync_list(q) ==
  /\ identifies /\ Goes(q, "list", "current")
  /\ my' = [my EXCEPT ![q].seen = pool[Peer(q)]]
  /\ Reads /\ UNCHANGED call

sync_current(q) ==
  /\ Goes(q, "current", "remove")
  /\ my' = [my EXCEPT ![q].gone = {r.client : r \in RowsOf(my[q].node)} \ my[q].seen]
  /\ Reads /\ UNCHANGED call

\* Mutant: what is not listed stays.
sync_remove_not(q) ==
  /\ Goes(q, "remove", "upsert")
  /\ my' = [my EXCEPT ![q].gone = {}]
  /\ Reads /\ UNCHANGED call

sync_remove(q) ==
  /\ Goes(q, "remove", "upsert")
  /\ rows' = {r \in rows : r.node # my[q].node \/ r.client \notin my[q].gone}
  /\ my' = [my EXCEPT ![q].gone = {}]
  /\ UNCHANGED <<role, nodes, pool, identifies, url, call, left>>

\* A row with the clientId is updated, whatever node it is of.
sync_upsert(q) ==
  /\ \E a \in my[q].seen :
       /\ rows' = IF a \in Clients THEN rows
                  ELSE rows \cup {[client |-> a, name |-> a, node |-> my[q].node]}
       /\ Goes(q, "upsert", "upsert")
       /\ my' = [my EXCEPT ![q].seen = @ \ {a}]
  /\ UNCHANGED <<role, nodes, pool, identifies, url, call, left>>

\* Done with this node, or an error.
sync_next(q) ==
  /\ at[q] \in SyncStage /\ Goes(q, at[q], "visit")
  /\ my' = [my EXCEPT ![q].node = Nobody, ![q].seen = {}, ![q].gone = {}]
  /\ Reads /\ UNCHANGED call

sync(q) ==
  \/ (\E u \in User : sync_begins(q, u)) \/ sync_visit(q) \/ sync_list(q) \/ sync_current(q)
  \/ sync_remove(q) \/ sync_upsert(q) \/ sync_next(q)

-----------------------------------------------------------------------------
(***************************************************************************)
(* POST /api/nodes/check: each node is asked for a page that only some     *)
(* nodes have, and isActive follows.                                       *)
(***************************************************************************)
check_begins(q) ==
  /\ Comes(q, "ask", [Fresh EXCEPT !.todo = There, !.known = Active])
  /\ UNCHANGED call

check_ask(q) ==
  /\ \/ my[q].todo = {} /\ Ends(q, "ask")
     \/ \E n \in my[q].todo, ok \in {identifies, FALSE} :
          /\ Goes(q, "ask", IF ok = (n \in my[q].known) THEN "ask" ELSE "mark")
          /\ my' = [my EXCEPT ![q].node = n, ![q].todo = @ \ {n}, ![q].ok = ok]
  /\ Reads /\ UNCHANGED call

\* An update that fails (the node was deleted) counts as a node that is not
\* active, but one that fails while that is being recorded ends the request.
check_mark(q) ==
  LET n == my[q].node IN
  /\ \/ n \in There /\ nodes' = [nodes EXCEPT ![n].active = my[q].ok]
        /\ Goes(q, "mark", "ask") /\ UNCHANGED my
     \/ my[q].ok /\ UNCHANGED <<nodes, my>> /\ Goes(q, "mark", "ask")
     \/ ~my[q].ok /\ UNCHANGED nodes /\ Ends(q, "mark")
  /\ UNCHANGED <<role, rows, pool, identifies, url, call, left>>

check(q) == check_begins(q) \/ check_ask(q) \/ check_mark(q)

-----------------------------------------------------------------------------
(***************************************************************************)
(* Nodes.  A delete takes the bots of the node with it (onDelete: Cascade). *)
(***************************************************************************)
node_create_begins(q, u) ==
  /\ Exists(u)
  /\ Comes(q, IF role[u] = "FREEMIUM" THEN "node_create" ELSE "node_insert", [Fresh EXCEPT !.user = u])
  /\ UNCHANGED call

\* Mutant: one too many.
node_count_over(q) ==
  /\ Cardinality(Owned(my[q].user)) <= Limit
  /\ Goes(q, "node_create", "node_insert")
  /\ Reads /\ UNCHANGED <<my, call>>

node_count(q) ==
  /\ Cardinality(Owned(my[q].user)) < Limit
  /\ Goes(q, "node_create", "node_insert")
  /\ Reads /\ UNCHANGED <<my, call>>

\* The database does not check that the owner is there.
node_insert(q) ==
  /\ \E n \in left.node :
       /\ nodes' = [m \in There \cup {n} |->
                     IF m = n THEN [owner |-> my[q].user, active |-> TRUE] ELSE nodes[m]]
       /\ left' = [left EXCEPT !.node = @ \ {n}]
  /\ Ends(q, "node_insert")
  /\ UNCHANGED <<role, rows, pool, identifies, url, call>>

\* PUT and DELETE look for the node first.
node_begins(q, u, n, to) ==
  /\ Exists(u) /\ n \in Visible(u)
  /\ Comes(q, to, [Fresh EXCEPT !.user = u, !.node = n])
  /\ UNCHANGED call

\* isActive and the address; the rows stay as they are.
node_write(q) ==
  /\ my[q].node \in There
  /\ \E active \in BOOLEAN : nodes' = [nodes EXCEPT ![my[q].node].active = active]
  /\ \E p \in Process : url' = [url EXCEPT ![my[q].node] = p]
  /\ Ends(q, "node_write")
  /\ UNCHANGED <<role, rows, pool, identifies, call, left>>

\* Mutant: the bots stay.
Deleted_nodes_only(N) ==
  /\ nodes' = [n \in There \ N |-> nodes[n]]
  /\ rows' = rows

Deleted(N) ==
  /\ nodes' = [n \in There \ N |-> nodes[n]]
  /\ rows' = {r \in rows : r.node \notin N}

node_drop(q) ==
  /\ my[q].node \in There
  /\ Deleted({my[q].node})
  /\ Ends(q, "node_drop")
  /\ UNCHANGED <<role, pool, identifies, url, call, left>>

node_request(q) ==
  \/ \E u \in User : node_create_begins(q, u)
  \/ \E u \in User, n \in Node, to \in {"node_write", "node_drop"} : node_begins(q, u, n, to)
  \/ node_count(q) \/ node_insert(q) \/ node_write(q) \/ node_drop(q)

-----------------------------------------------------------------------------
(***************************************************************************)
(* Users, by an ADMIN, who cannot change the own role or delete themselves. *)
(* (What else they may write of their own row is left out.)                *)
(***************************************************************************)
user_begins(q, u, to) ==
  /\ role[u] = "ADMIN"
  /\ Comes(q, to, [Fresh EXCEPT !.user = u])
  /\ UNCHANGED call

Others(q) == {u \in User \ {my[q].user} : role[u] # "gone"}

\* Mutant: an ADMIN may take the role from themselves.
user_update_self(q) ==
  /\ \E u \in Others(q) \cup {my[q].user}, r \in Role : role' = [role EXCEPT ![u] = r]
  /\ Ends(q, "user_update")
  /\ UNCHANGED <<nodes, rows, pool, identifies, url, call, left>>

user_update(q) ==
  /\ \E u \in Others(q), r \in Role : role' = [role EXCEPT ![u] = r]
  /\ Ends(q, "user_update")
  /\ UNCHANGED <<nodes, rows, pool, identifies, url, call, left>>

user_delete(q) ==
  /\ \E u \in Others(q) : role' = [role EXCEPT ![u] = "gone"] /\ Deleted(Owned(u))
  /\ Ends(q, "user_delete")
  /\ UNCHANGED <<pool, identifies, url, call, left>>

user_request(q) ==
  \/ \E u \in User, to \in {"user_update", "user_delete"} : user_begins(q, u, to)
  \/ user_update(q) \/ user_delete(q)

-----------------------------------------------------------------------------
(***************************************************************************)
(* The processes' own life: others add and remove bots there, and one that *)
(* crashes has none, and answers nobody.                                   *)
(***************************************************************************)
pool_changes(p) ==
  /\ left.change > 0 /\ left' = [left EXCEPT !.change = @ - 1]
  /\ \/ /\ \E a \in Name : pool' = [pool EXCEPT ![p] = IF a \in @ THEN @ \ {a} ELSE @ \cup {a}]
        /\ UNCHANGED <<at, my, call>>
     \/ LET cut == {q \in Req : at[q] \in {"add", "abandoned"} /\ Peer(q) = p} IN
        /\ pool' = [pool EXCEPT ![p] = {}]
        /\ at' = [q \in Req |-> IF q \in cut THEN "idle" ELSE at[q]]
        /\ my' = [q \in Req |-> IF q \in cut THEN Fresh ELSE my[q]]
        /\ stage' = [q \in Req |-> IF q \in cut THEN "done" ELSE stage[q]]
        /\ op' = [q \in Req |-> IF q \in cut THEN Nobody ELSE op[q]]
        /\ arg' = [q \in Req |-> IF q \in cut THEN Nobody ELSE arg[q]]
  /\ UNCHANGED <<role, nodes, rows, identifies, url>>

Step ==
  \/ \E q \in Req :
       \/ create(q) \/ node_adds(q) \/ database_fails(q) \/ sync(q) \/ check(q)
       \/ node_request(q) \/ user_request(q)
  \/ \E p \in Process : pool_changes(p)

\* What the properties remember.
Moved(q) == at'[q] # at[q] \/ my'[q] # my[q]

Used ==
  LET others == {q \in Req : ~Moved(q)} IN
  {my[q].node : q \in {p \in others : at[p] \in {"add", "replace", "insert"} \cup SyncStage}}
  \cup (UNION {my[q].todo : q \in {p \in others : at[p] \in {"visit"} \cup SyncStage}})
  \cup {my[q].user : q \in {p \in others : at[p] \in {"node_create", "node_insert"}}}

Remembered ==
  /\ excused' = excused \cup {u \in User :
       \/ role'[u] \in {"ADMIN", "PREMIUM"}
       \/ \E p, q \in Req : p # q /\ u = my'[p].user /\ u = my'[q].user
                            /\ {at'[p], at'[q]} \subseteq {"node_create", "node_insert"}}
  /\ lost' = lost \cup {b \in Node \X Name : 
       \/ url'[b[1]] # url[b[1]]
       \/ b[2] \in pool[url[b[1]]] \ pool'[url[b[1]]]}
  /\ raced' = raced \cup (Used \cap ((There \ There') \cup {u \in User : role'[u] = "gone"}))
  /\ late' = (late \/ \E q \in Req : at[q] \in {"user_update", "user_delete"} /\ role[my[q].user] # "ADMIN"
                                       /\ role' # role /\ Moved(q))
  /\ quiet' = {q \in Req : /\ at'[q] \in SyncStage \ {"list"}
                           /\ \/ at[q] = "list"
                              \/ q \in quiet /\ (Moved(q) \/ (pool' = pool /\ rows' = rows))}

Next == Step /\ Remembered

Spec == Init /\ [][Next]_vars

-----------------------------------------------------------------------------
\* A user who never was more than FREEMIUM has no more nodes than that allows,
\* unless two of the user's requests overlapped: count and insert are two steps.
FreemiumBounded ==
  \A u \in User \ excused : Cardinality(Owned(u)) <= Limit

\* The database checks no references, but a cascading delete leaves no bot
\* without a node and no node without an owner behind, unless a request that had
\* found the node or the user before made the row after.
OrphansRaced ==
  /\ \A r \in rows : r.node \in There \cup raced
  /\ \A n \in There : role[nodes[n].owner] # "gone" \/ nodes[n].owner \in raced

\* Nodes that do not tell a clientId get one made up for each row.  There still
\* are two rows for a bot only if it left the process in between, which adds no
\* name twice, or the node was given another address (a create may have found
\* the one before), whatever requests time out and are tried again.
RowsDistinct ==
  \A r, s \in rows : r.node = s.node /\ r.name = s.name /\ r # s => <<r.node, r.name>> \in lost

\* A sync leaves the node's rows as the list of the process it found is, if nobody else changed either
\* meanwhile, except for a bot that has a row of another node already.
SyncExact ==
  \A q \in quiet : at[q] = "upsert" /\ my[q].seen = {} =>
    LET n == my[q].node IN
    {r.name : r \in RowsOf(n)} = {a \in pool[Peer(q)] : \A r \in rows : r.client = a => r.node = n}

\* There always is an ADMIN, unless an ADMIN's request was carried out after
\* another one had taken the role from them.
AdminRemains == (\E u \in User : role[u] = "ADMIN") \/ late
=============================================================================
