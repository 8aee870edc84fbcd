----------------------------- MODULE WebApiProofs -----------------------------
(***************************************************************************)
(* Proofs about WebApi: the types of its tables and requests, the limit of *)
(* FREEMIUM users, which races leave a row without its node, when a bot    *)
(* has two rows, what a sync leaves behind, and that an ADMIN remains.     *)
(*                                                                         *)
(* A request works on its own: no step of another request touches what it  *)
(* holds, but the tables change under it.  So each inductive invariant     *)
(* says what a request knows of the tables while it holds a node, a user,  *)
(* a list or an answer, and which history variable excuses it.             *)
(***************************************************************************)
EXTENDS WebApi, FiniteSetTheorems, TLAPS

Adding == {"add", "abandoned", "replace", "insert"}

CallTypes ==
  /\ stage \in [Req -> {"done", "called", "found", "refused"}]
  /\ op \in [Req -> {"add", Nobody}] /\ arg \in [Req -> Name \cup {Nobody}]

\* What a request holds at each of its stages.
Holds(q) ==
  /\ at[q] \in Adding <=> stage[q] # "done"
  /\ at[q] \in Adding => op[q] = "add" /\ arg[q] \in Name
  /\ at[q] \in {"replace", "insert"} => stage[q] = "found"
  /\ at[q] \in Adding \cup SyncStage => my[q].node \in Node
  /\ at[q] \in {"visit"} \cup SyncStage => \A n \in my[q].todo : my[q].url[n] \in Process
  /\ at[q] \in SyncStage => Peer(q) \in Process
  /\ at[q] \in {"node_create", "node_insert", "user_update", "user_delete"} => my[q].user \in User

TypesInv == TypeOK /\ CallTypes /\ \A q \in Req : Holds(q)

\* Who has no excuse has no role but FREEMIUM, and makes one node at a time,
\* which is counted before.
NewNode == {"node_create", "node_insert"}

Counted(u) ==
  /\ role[u] \notin {"ADMIN", "PREMIUM"}
  /\ Cardinality(Owned(u)) <= Limit
  /\ \A q \in Req : at[q] = "node_insert" /\ my[q].user = u => Cardinality(Owned(u)) < Limit
  /\ \A p, q \in Req : at[p] \in NewNode /\ at[q] \in NewNode /\ my[p].user = u /\ my[q].user = u
                       => p = q

LimitInv == \A u \in User \ excused : Counted(u)

\* What a request found before is still there, or was deleted meanwhile.
Found(q) ==
  /\ at[q] \in {"add", "replace", "insert"} \cup SyncStage => my[q].node \in There \cup raced
  /\ at[q] \in {"visit"} \cup SyncStage => my[q].todo \subseteq There \cup raced
  /\ at[q] \in NewNode => role[my[q].user] # "gone" \/ my[q].user \in raced

RacedInv == OrphansRaced /\ \A q \in Req : Found(q)

\* Nodes that tell who their bots are: the clientId is the name.
Told == identifies => \A r \in rows : r.client = r.name

\* The node was given another address, which excuses all of its bots.
Elsewhere(n) == \A a \in Name : <<n, a>> \in lost

\* Others are never synced; there, a process holds what has a row or will get
\* one, as long as its node keeps the address.
Listed == {"current", "remove", "upsert"}

UntoldParts ==
  /\ \A q \in Req : at[q] \notin Listed
  /\ \A r \in rows : r.name \in pool[url[r.node]] \/ <<r.node, r.name>> \in lost
  /\ \A q \in Req : stage[q] = "found" =>
       arg[q] \in pool[url[my[q].node]] \/ <<my[q].node, arg[q]>> \in lost
  /\ \A q \in Req : at[q] \in Adding => Peer(q) = url[my[q].node] \/ Elsewhere(my[q].node)
  /\ \A p, q \in Req : stage[p] = "found" /\ stage[q] = "found" /\ p # q
       /\ my[p].node = my[q].node /\ arg[p] = arg[q] => <<my[p].node, arg[p]>> \in lost
  /\ \A q \in Req, r \in rows : stage[q] = "found" /\ r.node = my[q].node /\ r.name = arg[q]
       => <<my[q].node, arg[q]>> \in lost

Untold == ~identifies => UntoldParts /\ RowsDistinct

\* What a sync that nobody disturbs knows after each of its steps.
Synced(q) ==
  LET n == my[q].node  has == pool[Peer(q)] IN
  /\ identifies /\ at[q] \in Listed
  /\ at[q] = "current" => my[q].seen = has
  /\ at[q] = "remove" =>
       my[q].seen = has /\ my[q].gone = {r.client : r \in RowsOf(n)} \ my[q].seen
  /\ at[q] = "upsert" =>
       /\ my[q].seen \subseteq has
       /\ \A r \in rows : r.node = n => r.client \in has
       /\ \A a \in has \ my[q].seen : a \in Clients

SyncInv == \A q \in quiet : Synced(q)

-----------------------------------------------------------------------------
(***************************************************************************)
(* A step is the work of one request, or a change of a pool.               *)
(***************************************************************************)
Work(q) ==
  create(q) \/ node_adds(q) \/ database_fails(q) \/ sync(q) \/ check(q) \/ node_request(q)
  \/ user_request(q)

\* A request works alone: nothing another one holds is changed by it.
Alone(q) == \A p \in Req : p # q =>
  /\ at'[p] = at[p] /\ my'[p] = my[p]
  /\ stage'[p] = stage[p] /\ op'[p] = op[p] /\ arg'[p] = arg[p]

\* Whatever a request does next, it leaves what the others hold as it is.
LEMMA WorkAlone ==
  ASSUME TypesInv, NEW q \in Req, Work(q) PROVE Alone(q)
<1>. at \in [Req -> Stage] /\ my \in [Req -> Local] /\ CallTypes
  BY DEF TypesInv, TypeOK
<1>. HIDE DEF TypesInv
<1>1. ASSUME NEW u \in User, NEW n \in Node, NEW a \in Name, create_begins(q, u, n, a)
     PROVE  Alone(q)
  BY <1>1
    DEF create_begins, Comes, Goes, R!Arrive, Visible, Active, Alone, CallTypes
<1>2. ASSUME create_added(q)
     PROVE  Alone(q)
  BY <1>2
    DEF create_added, Goes, Reads, call, Alone, CallTypes
<1>3. ASSUME create_refused(q)
     PROVE  Alone(q)
  BY <1>3
    DEF create_refused, Ends, Goes, Reads, Answered, R!Answer, Alone, CallTypes
<1>4. ASSUME create_timeout(q)
     PROVE  Alone(q)
  BY <1>4
    DEF create_timeout, Goes, Reads, call, Alone, CallTypes
<1>5. ASSUME create_replace(q)
     PROVE  Alone(q)
  BY <1>5
    DEF create_replace, Goes, call, Alone, CallTypes
<1>6. ASSUME create_insert(q)
     PROVE  Alone(q)
  BY <1>6
    DEF create_insert, Ends, Goes, Answered, R!Answer, Alone, CallTypes
<1>7. ASSUME node_adds(q)
     PROVE  Alone(q)
  BY <1>7
    DEF node_adds, R!Act, Alone, CallTypes
<1>8. ASSUME database_fails(q)
     PROVE  Alone(q)
  BY <1>8
    DEF database_fails, Ends, Goes, Reads, Answered, R!Answer, call, Alone,
       CallTypes
<1>9. ASSUME NEW u \in User, sync_begins(q, u)
     PROVE  Alone(q)
  BY <1>9
    DEF sync_begins, Comes, Goes, call, Visible, Active, Alone, CallTypes
<1>10. ASSUME sync_visit(q)
     PROVE  Alone(q)
  BY <1>10
    DEF sync_visit, Ends, Goes, Reads, call, Alone, CallTypes
<1>11. ASSUME sync_list(q)
     PROVE  Alone(q)
  BY <1>11
    DEF sync_list, Goes, Reads, call, Alone, CallTypes
<1>12. ASSUME sync_current(q)
     PROVE  Alone(q)
  BY <1>12
    DEF sync_current, Goes, Reads, call, Alone, CallTypes
<1>13. ASSUME sync_remove(q)
     PROVE  Alone(q)
  BY <1>13
    DEF sync_remove, Goes, call, Alone, CallTypes
<1>14. ASSUME sync_upsert(q)
     PROVE  Alone(q)
  BY <1>14
    DEF sync_upsert, Goes, call, Alone, CallTypes
<1>15. ASSUME sync_next(q)
     PROVE  Alone(q)
  BY <1>15
    DEF sync_next, Goes, Reads, call, Alone, CallTypes
<1>16. ASSUME check_begins(q)
     PROVE  Alone(q)
  BY <1>16
    DEF check_begins, Comes, Goes, call, Alone, CallTypes
<1>17. ASSUME check_ask(q)
     PROVE  Alone(q)
  BY <1>17
    DEF check_ask, Goes, Ends, Reads, call, Alone, CallTypes
<1>18. ASSUME check_mark(q)
     PROVE  Alone(q)
  BY <1>18
    DEF check_mark, Goes, Ends, call, Alone, CallTypes
<1>19. ASSUME NEW u \in User, node_create_begins(q, u)
     PROVE  Alone(q)
  BY <1>19
    DEF node_create_begins, Comes, Goes, call, Alone, CallTypes
<1>20. ASSUME NEW u \in User, NEW n \in Node, NEW to \in {"node_write", "node_drop"},
             node_begins(q, u, n, to)
     PROVE  Alone(q)
  BY <1>20
    DEF node_begins, Comes, Goes, call, Visible, Alone, CallTypes
<1>21. ASSUME node_count(q)
     PROVE  Alone(q)
  BY <1>21
    DEF node_count, Goes, Reads, call, Alone, CallTypes
<1>22. ASSUME node_insert(q)
     PROVE  Alone(q)
  BY <1>22
    DEF node_insert, Ends, Goes, call, Alone, CallTypes
<1>23. ASSUME node_write(q)
     PROVE  Alone(q)
  BY <1>23
    DEF node_write, Ends, Goes, call, Alone, CallTypes
<1>24. ASSUME node_drop(q)
     PROVE  Alone(q)
  BY <1>24
    DEF node_drop, Ends, Goes, call, Deleted, Alone, CallTypes
<1>25. ASSUME NEW u \in User, NEW to \in {"user_update", "user_delete"}, user_begins(q, u, to)
     PROVE  Alone(q)
  BY <1>25
    DEF user_begins, Comes, Goes, call, Alone, CallTypes
<1>26. ASSUME user_update(q)
     PROVE  Alone(q)
  BY <1>26
    DEF user_update, Ends, Goes, call, Others, Alone, CallTypes
<1>27. ASSUME user_delete(q)
     PROVE  Alone(q)
  BY <1>27
    DEF user_delete, Ends, Goes, call, Deleted, Others, Alone, CallTypes
<1>. QED BY Work(q), <1>1, <1>2, <1>3, <1>4, <1>5, <1>6, <1>7, <1>8, <1>9, <1>10, <1>11,
     <1>12, <1>13, <1>14, <1>15, <1>16, <1>17, <1>18, <1>19, <1>20, <1>21, <1>22,
     <1>23, <1>24, <1>25, <1>26, <1>27
    DEF Work, create, sync, check, node_request, user_request

-----------------------------------------------------------------------------
(***************************************************************************)
(* Types.                                                                  *)
(***************************************************************************)
TableTypes ==
  /\ role \in [User -> Role \cup {"gone"}]
  /\ There \subseteq Node /\ \A n \in There : nodes[n] \in [owner : User, active : BOOLEAN]
  /\ rows \subseteq Row /\ \A r, s \in rows : r.client = s.client => r = s
  /\ url \in [Node -> Process] /\ pool \in [Process -> SUBSET Name] /\ identifies \in BOOLEAN
  /\ left \in [request : 0 .. MaxRequest, change : 0 .. MaxChange, node : SUBSET Node]

RequestTypes == at \in [Req -> Stage] /\ my \in [Req -> Local] /\ CallTypes

HistoryTypes ==
  /\ excused \subseteq User /\ raced \subseteq User \cup Node /\ lost \subseteq Node \X Name
  /\ late \in BOOLEAN /\ quiet \subseteq Req

\* The parts of the type invariant.
LEMMA TypesParts ==
  TypesInv <=> TableTypes /\ RequestTypes /\ HistoryTypes /\ \A q \in Req : Holds(q)
BY DEF TypesInv, TypeOK, TableTypes, RequestTypes, HistoryTypes

\* Whatever a request does, the tables keep their types.
LEMMA WorkTables ==
  ASSUME TypesInv, NEW q \in Req, Work(q) PROVE TableTypes'
<1>. TableTypes /\ RequestTypes /\ Holds(q)
  BY TypesParts
<1>. Role \subseteq AllRoles /\ MaxRequest \in Nat /\ MaxChange \in Nat
  BY WebAssumption
<1>. HIDE DEF TypesInv
<1>1. ASSUME NEW u \in User, NEW n \in Node, NEW a \in Name, create_begins(q, u, n, a)
     PROVE  TableTypes'
  BY <1>1 DEF create_begins, Comes, TableTypes, There
<1>2. ASSUME create_added(q)
     PROVE  TableTypes'
  BY <1>2
    DEF create_added, Goes, Reads, call, TableTypes, There, RequestTypes, Holds,
       Adding, CallTypes, Row, Local, SyncStage, Stage
<1>3. ASSUME create_refused(q)
     PROVE  TableTypes'
  BY <1>3
    DEF create_refused, Ends, Goes, Reads, Answered, R!Answer, TableTypes, There,
       RequestTypes, Holds, Adding, CallTypes, Row, Local, SyncStage, Stage
<1>4. ASSUME create_timeout(q)
     PROVE  TableTypes'
  BY <1>4
    DEF create_timeout, Goes, Reads, call, TableTypes, There, RequestTypes, Holds,
       Adding, CallTypes, Row, Local, SyncStage, Stage
<1>5. ASSUME create_replace(q)
     PROVE  TableTypes'
  BY <1>5
    DEF create_replace, Goes, call, TableTypes, There, RequestTypes, Holds, Adding,
       CallTypes, Row, Local, SyncStage, Stage
<1>6. ASSUME create_insert(q)
     PROVE  TableTypes'
  <2>. PICK client : rows' = rows \cup {[client |-> client, name |-> arg[q], node |-> my[q].node]}
                     /\ client \in (Name \cup Id) \ Clients
    BY <1>6 DEF create_insert
  <2>1. arg[q] \in Name /\ my[q].node \in Node
    BY <1>6 DEF create_insert, Ends, Goes, Holds, Adding
  <2>2. rows' \subseteq Row /\ \A r, s \in rows' : r.client = s.client => r = s
    BY <2>1 DEF Clients, TableTypes, Row
  <2>3. UNCHANGED <<role, nodes, url, pool, identifies, left>>
    BY <1>6 DEF create_insert
  <2>. QED
    BY <2>2, <2>3 DEF TableTypes, There
<1>7. ASSUME node_adds(q)
     PROVE  TableTypes'
  <2>1. PICK names \in SUBSET Name : pool' = [pool EXCEPT ![Peer(q)] = names]
    BY <1>7 DEF node_adds
  <2>2. pool' \in [Process -> SUBSET Name]
    BY <2>1 DEF TableTypes
  <2>3. UNCHANGED <<role, nodes, url, rows, identifies, left>>
    BY <1>7 DEF node_adds
  <2>. QED
    BY <2>2, <2>3 DEF TableTypes, There
<1>8. ASSUME database_fails(q)
     PROVE  TableTypes'
  BY <1>8
    DEF database_fails, Ends, Goes, Reads, Answered, R!Answer, call, TableTypes,
       There, RequestTypes, Holds, Adding, CallTypes, Row, Local, SyncStage, Stage
<1>9. ASSUME NEW u \in User, sync_begins(q, u)
     PROVE  TableTypes'
  BY <1>9 DEF sync_begins, Comes, TableTypes, There
<1>10. ASSUME sync_visit(q)
     PROVE  TableTypes'
  BY <1>10
    DEF sync_visit, Ends, Goes, Reads, call, TableTypes, There, RequestTypes, Holds,
       Adding, CallTypes, Row, Local, SyncStage, Stage
<1>11. ASSUME sync_list(q)
     PROVE  TableTypes'
  BY <1>11
    DEF sync_list, Goes, Reads, call, TableTypes, There, RequestTypes, Holds,
       Adding, CallTypes, Row, Local, SyncStage, Stage
<1>12. ASSUME sync_current(q)
     PROVE  TableTypes'
  BY <1>12
    DEF sync_current, Goes, Reads, call, TableTypes, There, RequestTypes, Holds,
       Adding, CallTypes, Row, Local, SyncStage, Stage
<1>13. ASSUME sync_remove(q)
     PROVE  TableTypes'
  BY <1>13
    DEF sync_remove, Goes, call, TableTypes, There, RequestTypes, Holds, Adding,
       CallTypes, Row, Local, SyncStage, Stage
<1>14. ASSUME sync_upsert(q)
     PROVE  TableTypes'
  <2>1. PICK a \in my[q].seen :
          rows' = IF a \in Clients THEN rows
                  ELSE rows \cup {[client |-> a, name |-> a, node |-> my[q].node]}
    BY <1>14 DEF sync_upsert
  <2>2. my[q].seen \subseteq Name /\ my[q].node \in Node
    BY <1>14 DEF sync_upsert, Goes, Holds, SyncStage, RequestTypes, Local
  <2>3. rows' \subseteq Row /\ \A r, s \in rows' : r.client = s.client => r = s
    BY <2>1, <2>2 DEF Clients, TableTypes, Row
  <2>4. UNCHANGED <<role, nodes, url, pool, identifies, left>>
    BY <1>14 DEF sync_upsert
  <2>. QED
    BY <2>3, <2>4 DEF TableTypes, There
<1>15. ASSUME sync_next(q)
     PROVE  TableTypes'
  BY <1>15
    DEF sync_next, Goes, Reads, call, TableTypes, There, RequestTypes, Holds,
       Adding, CallTypes, Row, Local, SyncStage, Stage
<1>16. ASSUME check_begins(q)
     PROVE  TableTypes'
  BY <1>16 DEF check_begins, Comes, TableTypes, There
<1>17. ASSUME check_ask(q)
     PROVE  TableTypes'
  BY <1>17
    DEF check_ask, Goes, Ends, Reads, call, TableTypes, There, RequestTypes, Holds,
       Adding, CallTypes, Row, Local, SyncStage, Stage
<1>18. ASSUME check_mark(q)
     PROVE  TableTypes'
  <2>1. UNCHANGED <<role, url, rows, pool, identifies, left>>
    BY <1>18 DEF check_mark
  <2>2. CASE nodes' = nodes
    BY <2>1, <2>2 DEF TableTypes, There
  <2>3. CASE my[q].node \in There /\ nodes' = [nodes EXCEPT ![my[q].node].active = my[q].ok]
    <3>1. my[q].ok \in BOOLEAN
      BY DEF RequestTypes, Local
    <3>2. There' = There
      BY <2>3 DEF There
    <3>3. ASSUME NEW n \in There PROVE nodes'[n] \in [owner : User, active : BOOLEAN]
      BY <2>3, <3>1, <3>3 DEF TableTypes, There
    <3>. QED
      BY <2>1, <3>2, <3>3 DEF TableTypes
  <2>. QED
    BY <1>18, <2>2, <2>3 DEF check_mark
<1>19. ASSUME NEW u \in User, node_create_begins(q, u)
     PROVE  TableTypes'
  BY <1>19 DEF node_create_begins, Comes, TableTypes, There
<1>20. ASSUME NEW u \in User, NEW n \in Node, NEW to \in {"node_write", "node_drop"},
             node_begins(q, u, n, to)
     PROVE  TableTypes'
  BY <1>20 DEF node_begins, Comes, TableTypes, There
<1>21. ASSUME node_count(q)
     PROVE  TableTypes'
  BY <1>21
    DEF node_count, Goes, Reads, call, TableTypes, There, RequestTypes, Holds,
       Adding, CallTypes, Row, Local, SyncStage, Stage
<1>22. ASSUME node_insert(q)
     PROVE  TableTypes'
  BY <1>22
    DEF node_insert, Ends, Goes, call, TableTypes, There, RequestTypes, Holds,
       Adding, CallTypes, Row, Local, SyncStage, Stage
<1>23. ASSUME node_write(q)
     PROVE  TableTypes'
  <2>. PICK active \in BOOLEAN, p \in Process :
         /\ nodes' = [nodes EXCEPT ![my[q].node].active = active]
         /\ url' = [url EXCEPT ![my[q].node] = p]
    BY <1>23 DEF node_write
  <2>1. UNCHANGED <<role, rows, pool, identifies, left>>
    BY <1>23 DEF node_write
  <2>2. There' = There
    BY DEF There
  <2>3. ASSUME NEW n \in There PROVE nodes'[n] \in [owner : User, active : BOOLEAN]
    BY <2>3 DEF TableTypes, There
  <2>4. url' \in [Node -> Process]
    BY DEF TableTypes
  <2>. QED
    BY <2>1, <2>2, <2>3, <2>4 DEF TableTypes
<1>24. ASSUME node_drop(q)
     PROVE  TableTypes'
  BY <1>24
    DEF node_drop, Ends, Goes, call, Deleted, TableTypes, There, RequestTypes,
       Holds, Adding, CallTypes, Row, Local, SyncStage, Stage
<1>25. ASSUME NEW u \in User, NEW to \in {"user_update", "user_delete"}, user_begins(q, u, to)
     PROVE  TableTypes'
  BY <1>25 DEF user_begins, Comes, TableTypes, There
<1>26. ASSUME user_update(q)
     PROVE  TableTypes'
  BY <1>26
    DEF user_update, Ends, Goes, call, Others, TableTypes, There, RequestTypes,
       Holds, Adding, CallTypes, Row, Local, SyncStage, Stage
<1>27. ASSUME user_delete(q)
     PROVE  TableTypes'
  BY <1>27
    DEF user_delete, Ends, Goes, call, Deleted, Others, TableTypes, There,
       RequestTypes, Holds, Adding, CallTypes, Row, Local, SyncStage, Stage
<1>. QED BY Work(q), <1>1, <1>2, <1>3, <1>4, <1>5, <1>6, <1>7, <1>8, <1>9, <1>10, <1>11,
     <1>12, <1>13, <1>14, <1>15, <1>16, <1>17, <1>18, <1>19, <1>20, <1>21, <1>22,
     <1>23, <1>24, <1>25, <1>26, <1>27
    DEF Work, create, sync, check, node_request, user_request

\* The addresses that are read are those of processes.
LEMMA AddressTypes ==
  ASSUME url \in [Node -> Process], NEW N \in SUBSET Node
  PROVE  /\ Addresses(N) \in [Node -> Process \cup {Nobody}]
         /\ \A n \in N : Addresses(N)[n] = url[n] /\ Addresses(N)[n] \in Process
BY DEF Addresses

\* Whatever a request does, the requests keep their types.
LEMMA WorkRequests ==
  ASSUME TypesInv, NEW q \in Req, Work(q) PROVE RequestTypes'
<1>. TableTypes /\ RequestTypes /\ Holds(q)
  BY TypesParts
<1>. HIDE DEF TypesInv
<1>1. ASSUME NEW u \in User, NEW n \in Node, NEW a \in Name, create_begins(q, u, n, a)
     PROVE  RequestTypes'
  <2>1. Addresses({n}) \in [Node -> Process \cup {Nobody}]
    BY AddressTypes DEF TableTypes
  <2>2. [Fresh EXCEPT !.user = u, !.node = n, !.url = Addresses({n})] \in Local
    BY <2>1 DEF Fresh, Local
  <2>3. at' \in [Req -> Stage] /\ my' \in [Req -> Local]
    BY <1>1, <2>2 DEF create_begins, Comes, Goes, RequestTypes, Stage
  <2>4. CallTypes'
    BY <1>1 DEF create_begins, R!Arrive, RequestTypes, CallTypes
  <2>. QED
    BY <2>3, <2>4 DEF RequestTypes
<1>2. ASSUME create_added(q)
     PROVE  RequestTypes'
  BY <1>2
    DEF create_added, Goes, Reads, call, TableTypes, RequestTypes, There, Active,
       Fresh, CallTypes, Local, SyncStage, Stage, RowsOf, Row
<1>3. ASSUME create_refused(q)
     PROVE  RequestTypes'
  BY <1>3
    DEF create_refused, Ends, Goes, Reads, Answered, R!Answer, TableTypes,
       RequestTypes, There, Active, Fresh, CallTypes, Local, SyncStage, Stage,
       RowsOf, Row
<1>4. ASSUME create_timeout(q)
     PROVE  RequestTypes'
  BY <1>4
    DEF create_timeout, Goes, Reads, call, TableTypes, RequestTypes, There, Active,
       Fresh, CallTypes, Local, SyncStage, Stage, RowsOf, Row
<1>5. ASSUME create_replace(q)
     PROVE  RequestTypes'
  BY <1>5
    DEF create_replace, Goes, call, TableTypes, RequestTypes, There, Active, Fresh,
       CallTypes, Local, SyncStage, Stage, RowsOf, Row
<1>6. ASSUME create_insert(q)
     PROVE  RequestTypes'
  BY <1>6
    DEF create_insert, Ends, Goes, Answered, R!Answer, TableTypes, RequestTypes,
       There, Active, Fresh, CallTypes, Local, SyncStage, Stage, RowsOf, Row
<1>7. ASSUME node_adds(q)
     PROVE  RequestTypes'
  BY <1>7
    DEF node_adds, R!Act, TableTypes, RequestTypes, There, Active, Fresh, CallTypes,
       Local, SyncStage, Stage, RowsOf, Row
<1>8. ASSUME database_fails(q)
     PROVE  RequestTypes'
  BY <1>8
    DEF database_fails, Ends, Goes, Reads, Answered, R!Answer, call, TableTypes,
       RequestTypes, There, Active, Fresh, CallTypes, Local, SyncStage, Stage,
       RowsOf, Row
<1>9. ASSUME NEW u \in User, sync_begins(q, u)
     PROVE  RequestTypes'
  <2>. DEFINE N == Visible(u) \cap Active
  <2>1. N \subseteq Node
    BY DEF Active, TableTypes
  <2>. HIDE DEF N
  <2>2. Addresses(N) \in [Node -> Process \cup {Nobody}]
    BY <2>1, AddressTypes DEF TableTypes
  <2>3. [Fresh EXCEPT !.user = u, !.todo = N, !.url = Addresses(N)] \in Local
    BY <2>1, <2>2 DEF Fresh, Local
  <2>4. at' \in [Req -> Stage] /\ my' \in [Req -> Local] /\ UNCHANGED <<stage, op, arg>>
    BY <1>9, <2>3 DEF sync_begins, Comes, Goes, call, RequestTypes, Stage, N
  <2>. QED
    BY <2>4 DEF RequestTypes, CallTypes
<1>10. ASSUME sync_visit(q)
     PROVE  RequestTypes'
  <2>. Fresh \in Local
    BY DEF Fresh, Local
  <2>1. my' \in [Req -> Local]
    <3>1. CASE Ends(q, "visit")
      BY <3>1 DEF Ends, RequestTypes
    <3>2. ASSUME NEW n \in my[q].todo, my' = [my EXCEPT ![q].node = n, ![q].todo = @ \ {n}]
          PROVE  my' \in [Req -> Local]
      <4>1. my' = [my EXCEPT ![q] = my'[q]] /\ my'[q] \in Local
        BY <3>2 DEF RequestTypes, Local
      <4>. QED
        BY <4>1 DEF RequestTypes
    <3>. QED
      BY <1>10, <3>1, <3>2 DEF sync_visit
  <2>2. at' \in [Req -> Stage] /\ UNCHANGED <<stage, op, arg>>
    BY <1>10 DEF sync_visit, Ends, Goes, Reads, call, RequestTypes, Stage, SyncStage
  <2>. QED
    BY <2>1, <2>2 DEF RequestTypes, CallTypes
<1>11. ASSUME sync_list(q)
     PROVE  RequestTypes'
  <2>0. pool[Peer(q)] \subseteq Name
    BY <1>11 DEF sync_list, Goes, Holds, SyncStage, TableTypes
  <2>. my[q] \in Local
    BY DEF RequestTypes
  <2>1. my' = [my EXCEPT ![q] = my'[q]] /\ my'[q] = [my[q] EXCEPT !.seen = pool[Peer(q)]]
    BY <1>11 DEF sync_list, RequestTypes
  <2>3. my'[q] \in Local
    BY <2>0, <2>1 DEF Local
  <2>2. at' \in [Req -> Stage] /\ UNCHANGED <<stage, op, arg>>
    BY <1>11 DEF sync_list, Goes, Reads, call, RequestTypes, Stage, SyncStage
  <2>. QED
    BY <2>1, <2>2, <2>3 DEF RequestTypes, CallTypes
<1>12. ASSUME sync_current(q)
     PROVE  RequestTypes'
  <2>. my[q] \in Local
    BY DEF RequestTypes
  <2>1. /\ my' = [my EXCEPT ![q] = my'[q]]
        /\ my'[q] = [my[q] EXCEPT !.gone = {r.client : r \in RowsOf(my[q].node)} \ my[q].seen]
    BY <1>12 DEF sync_current, RequestTypes
  <2>3. {r.client : r \in RowsOf(my[q].node)} \subseteq Name \cup Id
    BY DEF TableTypes, RowsOf, Row
  <2>4. my'[q] \in Local
    BY <2>1, <2>3 DEF Local
  <2>2. at' \in [Req -> Stage] /\ UNCHANGED <<stage, op, arg>>
    BY <1>12 DEF sync_current, Goes, call, Reads, RequestTypes, Stage, SyncStage
  <2>. QED
    BY <2>1, <2>2, <2>4 DEF RequestTypes, CallTypes
<1>13. ASSUME sync_remove(q)
     PROVE  RequestTypes'
  <2>1. my' = [my EXCEPT ![q] = my'[q]] /\ my'[q] \in Local
    BY <1>13 DEF sync_remove, Goes, RequestTypes, Local
  <2>2. at' \in [Req -> Stage] /\ UNCHANGED <<stage, op, arg>>
    BY <1>13 DEF sync_remove, Goes, call, Reads, RequestTypes, Stage, SyncStage
  <2>. QED
    BY <2>1, <2>2 DEF RequestTypes, CallTypes
<1>14. ASSUME sync_upsert(q)
     PROVE  RequestTypes'
  <2>. my[q] \in Local
    BY DEF RequestTypes
  <2>0. PICK a \in my[q].seen : my' = [my EXCEPT ![q].seen = @ \ {a}]
    BY <1>14 DEF sync_upsert
  <2>1. my' = [my EXCEPT ![q] = my'[q]] /\ my'[q] \in Local
    BY <2>0 DEF RequestTypes, Local
  <2>2. at' \in [Req -> Stage] /\ UNCHANGED <<stage, op, arg>>
    BY <1>14 DEF sync_upsert, Goes, call, Reads, RequestTypes, Stage, SyncStage
  <2>. QED
    BY <2>1, <2>2 DEF RequestTypes, CallTypes
<1>15. ASSUME sync_next(q)
     PROVE  RequestTypes'
  <2>1. my' = [my EXCEPT ![q] = my'[q]] /\ my'[q] \in Local
    BY <1>15 DEF sync_next, Goes, RequestTypes, Local
  <2>2. at' \in [Req -> Stage] /\ UNCHANGED <<stage, op, arg>>
    BY <1>15 DEF sync_next, Goes, call, Reads, RequestTypes, Stage, SyncStage
  <2>. QED
    BY <2>1, <2>2 DEF RequestTypes, CallTypes
<1>16. ASSUME check_begins(q)
     PROVE  RequestTypes'
  BY <1>16
    DEF check_begins, Comes, Goes, call, TableTypes, RequestTypes, There, Active,
       Fresh, CallTypes, Local, SyncStage, Stage, RowsOf, Row
<1>17. ASSUME check_ask(q)
     PROVE  RequestTypes'
  <2>. Fresh \in Local
    BY DEF Fresh, Local
  <2>1. my' \in [Req -> Local]
    <3>1. CASE Ends(q, "ask")
      BY <3>1 DEF Ends, RequestTypes
    <3>2. ASSUME NEW n \in my[q].todo, NEW ok \in {identifies, FALSE},
                 my' = [my EXCEPT ![q].node = n, ![q].todo = @ \ {n}, ![q].ok = ok]
          PROVE  my' \in [Req -> Local]
      <4>. ok \in BOOLEAN
        BY DEF TableTypes
      <4>1. my' = [my EXCEPT ![q] = my'[q]] /\ my'[q] \in Local
        BY <3>2 DEF RequestTypes, Local
      <4>. QED
        BY <4>1 DEF RequestTypes
    <3>. QED
      BY <1>17, <3>1, <3>2 DEF check_ask
  <2>2. at' \in [Req -> Stage] /\ UNCHANGED <<stage, op, arg>>
    BY <1>17 DEF check_ask, Ends, Goes, Reads, call, RequestTypes, Stage, SyncStage
  <2>. QED
    BY <2>1, <2>2 DEF RequestTypes, CallTypes
<1>18. ASSUME check_mark(q)
     PROVE  RequestTypes'
  <2>. Fresh \in Local
    BY DEF Fresh, Local
  <2>1. my' \in [Req -> Local]
    BY <1>18 DEF check_mark, Ends, RequestTypes
  <2>2. at' \in [Req -> Stage] /\ UNCHANGED <<stage, op, arg>>
    BY <1>18 DEF check_mark, Ends, Goes, call, RequestTypes, Stage, SyncStage
  <2>. QED
    BY <2>1, <2>2 DEF RequestTypes, CallTypes
<1>19. ASSUME NEW u \in User, node_create_begins(q, u)
     PROVE  RequestTypes'
  BY <1>19
    DEF node_create_begins, Comes, Goes, call, TableTypes, RequestTypes, There,
       Active, Fresh, CallTypes, Local, SyncStage, Stage, RowsOf, Row
<1>20. ASSUME NEW u \in User, NEW n \in Node, NEW to \in {"node_write", "node_drop"},
             node_begins(q, u, n, to)
     PROVE  RequestTypes'
  BY <1>20
    DEF node_begins, Comes, Goes, call, Visible, TableTypes, RequestTypes, There,
       Active, Fresh, CallTypes, Local, SyncStage, Stage, RowsOf, Row
<1>21. ASSUME node_count(q)
     PROVE  RequestTypes'
  BY <1>21
    DEF node_count, Goes, Reads, call, TableTypes, RequestTypes, There, Active,
       Fresh, CallTypes, Local, SyncStage, Stage, RowsOf, Row
<1>22. ASSUME node_insert(q)
     PROVE  RequestTypes'
  BY <1>22
    DEF node_insert, Ends, Goes, call, TableTypes, RequestTypes, There, Active,
       Fresh, CallTypes, Local, SyncStage, Stage, RowsOf, Row
<1>23. ASSUME node_write(q)
     PROVE  RequestTypes'
  BY <1>23
    DEF node_write, Ends, Goes, call, TableTypes, RequestTypes, There, Active,
       Fresh, CallTypes, Local, SyncStage, Stage, RowsOf, Row
<1>24. ASSUME node_drop(q)
     PROVE  RequestTypes'
  BY <1>24
    DEF node_drop, Ends, Goes, call, Deleted, TableTypes, RequestTypes, There,
       Active, Fresh, CallTypes, Local, SyncStage, Stage, RowsOf, Row
<1>25. ASSUME NEW u \in User, NEW to \in {"user_update", "user_delete"}, user_begins(q, u, to)
     PROVE  RequestTypes'
  BY <1>25
    DEF user_begins, Comes, Goes, call, TableTypes, RequestTypes, There, Active,
       Fresh, CallTypes, Local, SyncStage, Stage, RowsOf, Row
<1>26. ASSUME user_update(q)
     PROVE  RequestTypes'
  BY <1>26
    DEF user_update, Ends, Goes, call, Others, TableTypes, RequestTypes, There,
       Active, Fresh, CallTypes, Local, SyncStage, Stage, RowsOf, Row
<1>27. ASSUME user_delete(q)
     PROVE  RequestTypes'
  BY <1>27
    DEF user_delete, Ends, Goes, call, Deleted, Others, TableTypes, RequestTypes,
       There, Active, Fresh, CallTypes, Local, SyncStage, Stage, RowsOf, Row
<1>. QED BY Work(q), <1>1, <1>2, <1>3, <1>4, <1>5, <1>6, <1>7, <1>8, <1>9, <1>10, <1>11,
     <1>12, <1>13, <1>14, <1>15, <1>16, <1>17, <1>18, <1>19, <1>20, <1>21, <1>22,
     <1>23, <1>24, <1>25, <1>26, <1>27
    DEF Work, create, sync, check, node_request, user_request

\* Whatever a request does, it then holds what its new stage needs.
LEMMA WorkHolds ==
  ASSUME TypesInv, NEW q \in Req, Work(q) PROVE Holds(q)'
<1>. TableTypes /\ RequestTypes /\ Holds(q)
  BY TypesParts
<1>. HIDE DEF TypesInv
<1>1. ASSUME NEW u \in User, NEW n \in Node, NEW a \in Name, create_begins(q, u, n, a)
     PROVE  Holds(q)'
  BY <1>1
    DEF create_begins, Comes, Goes, R!Arrive, Visible, Active, TableTypes,
       RequestTypes, There, Holds, Adding, CallTypes, SyncStage, Stage, Local, Fresh
<1>2. ASSUME create_added(q)
     PROVE  Holds(q)'
  BY <1>2
    DEF create_added, Goes, Reads, call, TableTypes, RequestTypes, There, Holds,
       Adding, CallTypes, SyncStage, Stage, Local, Fresh
<1>3. ASSUME create_refused(q)
     PROVE  Holds(q)'
  BY <1>3
    DEF create_refused, Ends, Goes, Reads, Answered, R!Answer, TableTypes,
       RequestTypes, There, Holds, Adding, CallTypes, SyncStage, Stage, Local, Fresh
<1>4. ASSUME create_timeout(q)
     PROVE  Holds(q)'
  BY <1>4
    DEF create_timeout, Goes, Reads, call, TableTypes, RequestTypes, There, Holds,
       Adding, CallTypes, SyncStage, Stage, Local, Fresh
<1>5. ASSUME create_replace(q)
     PROVE  Holds(q)'
  BY <1>5
    DEF create_replace, Goes, call, TableTypes, RequestTypes, There, Holds, Adding,
       CallTypes, SyncStage, Stage, Local, Fresh
<1>6. ASSUME create_insert(q)
     PROVE  Holds(q)'
  BY <1>6
    DEF create_insert, Ends, Goes, Answered, R!Answer, TableTypes, RequestTypes,
       There, Holds, Adding, CallTypes, SyncStage, Stage, Local, Fresh
<1>7. ASSUME node_adds(q)
     PROVE  Holds(q)'
  BY <1>7
    DEF node_adds, R!Act, TableTypes, RequestTypes, There, Holds, Adding, CallTypes,
       SyncStage, Stage, Local, Fresh
<1>8. ASSUME database_fails(q)
     PROVE  Holds(q)'
  BY <1>8
    DEF database_fails, Ends, Goes, Reads, Answered, R!Answer, call, TableTypes,
       RequestTypes, There, Holds, Adding, CallTypes, SyncStage, Stage, Local, Fresh
<1>9. ASSUME NEW u \in User, sync_begins(q, u)
     PROVE  Holds(q)'
  <2>. DEFINE N == Visible(u) \cap Active
  <2>1. N \subseteq Node
    BY DEF Active, TableTypes
  <2>. HIDE DEF N
  <2>2. my'[q].todo = N /\ my'[q].url = Addresses(N) /\ at[q] = "idle" /\ at'[q] = "visit"
    BY <1>9 DEF sync_begins, Comes, Goes, RequestTypes, Fresh, N
  <2>3. \A n \in N : Addresses(N)[n] \in Process
    BY <2>1, AddressTypes DEF TableTypes
  <2>4. stage'[q] = stage[q]
    BY <1>9 DEF sync_begins, call
  <2>. QED
    BY <2>2, <2>3, <2>4 DEF Holds, Adding, SyncStage
<1>10. ASSUME sync_visit(q)
     PROVE  Holds(q)'
  <2>1. my[q].todo \subseteq Node /\ \A n \in my[q].todo : my[q].url[n] \in Process
    BY <1>10 DEF sync_visit, Ends, Goes, RequestTypes, Local, Holds
  <2>2. stage'[q] = stage[q] /\ at[q] = "visit"
    BY <1>10 DEF sync_visit, Ends, Goes, call
  <2>3. CASE my[q].todo = {} /\ Ends(q, "visit")
    <3>1. at'[q] = "idle"
      BY <2>3 DEF Ends, Goes, RequestTypes
    <3>. QED
      BY <2>2, <3>1 DEF Holds, Adding, SyncStage
  <2>4. ASSUME NEW n \in my[q].todo, Goes(q, "visit", "list"),
               my' = [my EXCEPT ![q].node = n, ![q].todo = @ \ {n}]
        PROVE  Holds(q)'
    <3>1. at'[q] = "list"
      BY <2>4 DEF Goes, RequestTypes
    <3>2. my'[q].node = n /\ my'[q].url = my[q].url /\ my'[q].todo = my[q].todo \ {n}
      BY <2>4 DEF RequestTypes, Local
    <3>. QED
      BY <2>1, <2>2, <3>1, <3>2 DEF Holds, Adding, SyncStage, Peer
  <2>. QED
    BY <1>10, <2>3, <2>4 DEF sync_visit
<1>11. ASSUME sync_list(q)
     PROVE  Holds(q)'
  <2>1. at[q] \in SyncStage /\ at'[q] \in SyncStage /\ stage'[q] = stage[q]
    BY <1>11 DEF sync_list, Goes, call, SyncStage, RequestTypes
  <2>2. my'[q].node = my[q].node /\ my'[q].todo = my[q].todo /\ my'[q].url = my[q].url
    BY <1>11 DEF sync_list, RequestTypes, Local
  <2>. QED
    BY <2>1, <2>2 DEF Holds, Adding, SyncStage, Peer
<1>12. ASSUME sync_current(q)
     PROVE  Holds(q)'
  <2>1. at[q] \in SyncStage /\ at'[q] \in SyncStage /\ stage'[q] = stage[q]
    BY <1>12 DEF sync_current, Goes, call, SyncStage, RequestTypes
  <2>2. my'[q].node = my[q].node /\ my'[q].todo = my[q].todo /\ my'[q].url = my[q].url
    BY <1>12 DEF sync_current, RequestTypes, Local
  <2>. QED
    BY <2>1, <2>2 DEF Holds, Adding, SyncStage, Peer
<1>13. ASSUME sync_remove(q)
     PROVE  Holds(q)'
  <2>1. at[q] \in SyncStage /\ at'[q] \in SyncStage /\ stage'[q] = stage[q]
    BY <1>13 DEF sync_remove, Goes, call, SyncStage, RequestTypes
  <2>2. my'[q].node = my[q].node /\ my'[q].todo = my[q].todo /\ my'[q].url = my[q].url
    BY <1>13 DEF sync_remove, RequestTypes, Local
  <2>. QED
    BY <2>1, <2>2 DEF Holds, Adding, SyncStage, Peer
<1>14. ASSUME sync_upsert(q)
     PROVE  Holds(q)'
  <2>1. at[q] \in SyncStage /\ at'[q] \in SyncStage /\ stage'[q] = stage[q]
    BY <1>14 DEF sync_upsert, Goes, call, SyncStage, RequestTypes
  <2>2. my'[q].node = my[q].node /\ my'[q].todo = my[q].todo /\ my'[q].url = my[q].url
    BY <1>14 DEF sync_upsert, RequestTypes, Local
  <2>. QED
    BY <2>1, <2>2 DEF Holds, Adding, SyncStage, Peer
<1>15. ASSUME sync_next(q)
     PROVE  Holds(q)'
  BY <1>15
    DEF sync_next, Goes, Reads, call, TableTypes, RequestTypes, There, Holds,
       Adding, CallTypes, SyncStage, Stage, Local, Fresh
<1>16. ASSUME check_begins(q)
     PROVE  Holds(q)'
  BY <1>16
    DEF check_begins, Comes, Goes, call, TableTypes, RequestTypes, There, Holds,
       Adding, CallTypes, SyncStage, Stage, Local, Fresh
<1>17. ASSUME check_ask(q)
     PROVE  Holds(q)'
  <2>1. at[q] = "ask" /\ at'[q] \in {"ask", "mark", "idle"} /\ stage'[q] = stage[q]
    BY <1>17 DEF check_ask, Ends, Goes, call, RequestTypes
  <2>. QED
    BY <2>1 DEF Holds, Adding, SyncStage
<1>18. ASSUME check_mark(q)
     PROVE  Holds(q)'
  BY <1>18
    DEF check_mark, Goes, Ends, call, TableTypes, RequestTypes, There, Holds,
       Adding, CallTypes, SyncStage, Stage, Local, Fresh
<1>19. ASSUME NEW u \in User, node_create_begins(q, u)
     PROVE  Holds(q)'
  BY <1>19
    DEF node_create_begins, Comes, Goes, call, TableTypes, RequestTypes, There,
       Holds, Adding, CallTypes, SyncStage, Stage, Local, Fresh
<1>20. ASSUME NEW u \in User, NEW n \in Node, NEW to \in {"node_write", "node_drop"},
             node_begins(q, u, n, to)
     PROVE  Holds(q)'
  BY <1>20
    DEF node_begins, Comes, Goes, call, Visible, TableTypes, RequestTypes, There,
       Holds, Adding, CallTypes, SyncStage, Stage, Local, Fresh
<1>21. ASSUME node_count(q)
     PROVE  Holds(q)'
  BY <1>21
    DEF node_count, Goes, Reads, call, TableTypes, RequestTypes, There, Holds,
       Adding, CallTypes, SyncStage, Stage, Local, Fresh
<1>22. ASSUME node_insert(q)
     PROVE  Holds(q)'
  BY <1>22
    DEF node_insert, Ends, Goes, call, TableTypes, RequestTypes, There, Holds,
       Adding, CallTypes, SyncStage, Stage, Local, Fresh
<1>23. ASSUME node_write(q)
     PROVE  Holds(q)'
  BY <1>23
    DEF node_write, Ends, Goes, call, TableTypes, RequestTypes, There, Holds,
       Adding, CallTypes, SyncStage, Stage, Local, Fresh
<1>24. ASSUME node_drop(q)
     PROVE  Holds(q)'
  BY <1>24
    DEF node_drop, Ends, Goes, call, Deleted, TableTypes, RequestTypes, There,
       Holds, Adding, CallTypes, SyncStage, Stage, Local, Fresh
<1>25. ASSUME NEW u \in User, NEW to \in {"user_update", "user_delete"}, user_begins(q, u, to)
     PROVE  Holds(q)'
  BY <1>25
    DEF user_begins, Comes, Goes, call, TableTypes, RequestTypes, There, Holds,
       Adding, CallTypes, SyncStage, Stage, Local, Fresh
<1>26. ASSUME user_update(q)
     PROVE  Holds(q)'
  BY <1>26
    DEF user_update, Ends, Goes, call, Others, TableTypes, RequestTypes, There,
       Holds, Adding, CallTypes, SyncStage, Stage, Local, Fresh
<1>27. ASSUME user_delete(q)
     PROVE  Holds(q)'
  BY <1>27
    DEF user_delete, Ends, Goes, call, Deleted, Others, TableTypes, RequestTypes,
       There, Holds, Adding, CallTypes, SyncStage, Stage, Local, Fresh
<1>. QED BY Work(q), <1>1, <1>2, <1>3, <1>4, <1>5, <1>6, <1>7, <1>8, <1>9, <1>10, <1>11,
     <1>12, <1>13, <1>14, <1>15, <1>16, <1>17, <1>18, <1>19, <1>20, <1>21, <1>22,
     <1>23, <1>24, <1>25, <1>26, <1>27
    DEF Work, create, sync, check, node_request, user_request

\* A process that changes, or crashes with the calls that wait for it.
LEMMA PoolTypes ==
  ASSUME TypesInv, NEW m \in Process, pool_changes(m)
  PROVE  TableTypes' /\ RequestTypes' /\ \A q \in Req : Holds(q)'
<1>. TableTypes /\ RequestTypes /\ (\A q \in Req : Holds(q))
  BY TypesParts
<1>. HIDE DEF TypesInv
<1>1. UNCHANGED <<role, nodes, rows, identifies, url>> /\ left.change > 0
      /\ left' = [left EXCEPT !.change = @ - 1]
  BY DEF pool_changes
<1>2. MaxChange \in Nat
  BY WebAssumption
<1>3. left' \in [request : 0 .. MaxRequest, change : 0 .. MaxChange, node : SUBSET Node]
  BY <1>1, <1>2 DEF TableTypes
<1>4. pool' \in [Process -> SUBSET Name]
  <2>1. ASSUME NEW a \in Name,
               pool' = [pool EXCEPT ![m] = IF a \in @ THEN @ \ {a} ELSE @ \cup {a}]
        PROVE  pool' \in [Process -> SUBSET Name]
    BY <2>1 DEF TableTypes
  <2>2. ASSUME pool' = [pool EXCEPT ![m] = {}] PROVE pool' \in [Process -> SUBSET Name]
    BY <2>2 DEF TableTypes
  <2>. QED
    BY <2>1, <2>2 DEF pool_changes
<1>5. TableTypes'
  BY <1>1, <1>3, <1>4 DEF TableTypes, There
<1>6. CASE UNCHANGED <<at, my, call>>
  BY <1>5, <1>6 DEF RequestTypes, CallTypes, call, Holds, Peer
<1>7. CASE \E cut \in SUBSET Req :
             /\ at' = [q \in Req |-> IF q \in cut THEN "idle" ELSE at[q]]
             /\ my' = [q \in Req |-> IF q \in cut THEN Fresh ELSE my[q]]
             /\ stage' = [q \in Req |-> IF q \in cut THEN "done" ELSE stage[q]]
             /\ op' = [q \in Req |-> IF q \in cut THEN Nobody ELSE op[q]]
             /\ arg' = [q \in Req |-> IF q \in cut THEN Nobody ELSE arg[q]]
  <2>. Fresh \in Local
    BY DEF Fresh, Local
  <2>1. at' \in [Req -> Stage] /\ my' \in [Req -> Local]
    BY <1>7 DEF RequestTypes, Stage
  <2>2. CallTypes'
    BY <1>7 DEF RequestTypes, CallTypes
  <2>3. ASSUME NEW q \in Req PROVE Holds(q)'
    BY <1>7 DEF Holds, Adding, SyncStage, Peer
  <2>. QED
    BY <1>5, <2>1, <2>2, <2>3 DEF RequestTypes
<1>. QED
  BY <1>6, <1>7 DEF pool_changes

\* What the properties remember has its type too.
LEMMA HistoryKept ==
  ASSUME TypesInv, Remembered PROVE HistoryTypes'
<1>. HistoryTypes
  BY TypesParts
<1>1. excused' \subseteq User /\ lost' \subseteq Node \X Name /\ quiet' \subseteq Req
  BY DEF Remembered, HistoryTypes
<1>2. late' \in BOOLEAN
  BY DEF Remembered
<1>3. raced' \subseteq User \cup Node
  <2>1. There \subseteq Node
    BY DEF TypesInv, TypeOK
  <2>2. raced' = raced \cup (Used \cap ((There \ There') \cup {u \in User : role'[u] = "gone"}))
    BY DEF Remembered
  <2>. QED
    BY <2>1, <2>2 DEF HistoryTypes
<1>. QED
  BY <1>1, <1>2, <1>3 DEF HistoryTypes

\* Every step keeps the types.
LEMMA TypesStep ==
  ASSUME TypesInv, Step, Remembered PROVE TypesInv'
<1>1. ASSUME NEW q \in Req, Work(q) PROVE TypesInv'
  <2>1. TableTypes' /\ RequestTypes' /\ HistoryTypes'
    BY <1>1, WorkTables, WorkRequests, HistoryKept
  <2>2. ASSUME NEW p \in Req PROVE Holds(p)'
    <3>1. CASE p = q
      BY <1>1, <3>1, WorkHolds
    <3>2. CASE p # q
      <4>1. /\ at'[p] = at[p] /\ my'[p] = my[p]
            /\ stage'[p] = stage[p] /\ op'[p] = op[p] /\ arg'[p] = arg[p]
        BY <1>1, <3>2, WorkAlone DEF Alone
      <4>2. Holds(p)
        BY TypesParts
      <4>. QED
        BY <4>1, <4>2 DEF Holds, Peer
    <3>. QED
      BY <3>1, <3>2
  <2>. QED
    BY <2>1, <2>2 DEF TypesInv, TypeOK, TableTypes, RequestTypes, HistoryTypes
<1>2. ASSUME NEW m \in Process, pool_changes(m) PROVE TypesInv'
  <2>1. TableTypes' /\ RequestTypes' /\ (\A q \in Req : Holds(q)') /\ HistoryTypes'
    BY <1>2, PoolTypes, HistoryKept
  <2>. QED
    BY <2>1 DEF TypesInv, TypeOK, TableTypes, RequestTypes, HistoryTypes
<1>. QED
  BY <1>1, <1>2 DEF Step, Work

\* All requests begin idle, with tables of the right types.
LEMMA TypesStart ==
  ASSUME Init PROVE TypesInv
<1>. Role \subseteq AllRoles /\ MaxRequest \in Nat /\ MaxChange \in Nat
  BY WebAssumption
<1>1. TableTypes
  <2>1. PICK N \in SUBSET Node : nodes \in [N -> [owner : User, active : {TRUE}]]
    BY DEF Init
  <2>2. There \subseteq Node /\ \A n \in There : nodes[n] \in [owner : User, active : BOOLEAN]
    BY <2>1 DEF There
  <2>3. left \in [request : 0 .. MaxRequest, change : 0 .. MaxChange, node : SUBSET Node]
    BY DEF Init
  <2>. QED
    BY <2>2, <2>3 DEF Init, TableTypes
<1>2. RequestTypes
  BY DEF Init, RequestTypes, CallTypes, Stage, Local, Fresh
<1>3. HistoryTypes
  BY DEF Init, HistoryTypes
<1>4. ASSUME NEW q \in Req PROVE Holds(q)
  BY DEF Init, Holds, Adding, SyncStage
<1>. QED
  BY <1>1, <1>2, <1>3, <1>4, TypesParts

\* So the types hold all the time.
LEMMA TypesInvariant == Spec => []TypesInv
<1>1. Init => TypesInv
  BY TypesStart
<1>2. TypesInv /\ [Next]_vars => TypesInv'
  <2>1. ASSUME TypesInv, Next PROVE TypesInv'
    BY <2>1, TypesStep DEF Next
  <2>2. ASSUME TypesInv, UNCHANGED vars PROVE TypesInv'
    BY <2>2 DEF TypesInv, TypeOK, CallTypes, Holds, Peer, There, vars, call, history
  <2>. QED
    BY <2>1, <2>2
<1>. QED
  BY <1>1, <1>2, PTL DEF Spec

\* The tables, the requests and what the properties remember keep their types,
\* and no clientId is in the table of bots twice, however requests overlap.
THEOREM TypeCorrect == Spec => []TypeOK
BY TypesInvariant, PTL DEF TypesInv

-----------------------------------------------------------------------------
(***************************************************************************)
(* An ADMIN remains.                                                       *)
(***************************************************************************)
\* Only two requests change what users are.
LEMMA WorkRoles ==
  ASSUME NEW q \in Req, Work(q) PROVE role' = role \/ user_update(q) \/ user_delete(q)
<1>. DEFINE Goal == role' = role \/ user_update(q) \/ user_delete(q)
<1>1. ASSUME NEW u \in User, NEW n \in Node, NEW a \in Name, create_begins(q, u, n, a)
     PROVE  Goal
  BY <1>1
    DEF create_begins, Comes, Goes, R!Arrive, Visible, Active
<1>2. ASSUME create_added(q)
     PROVE  Goal
  BY <1>2
    DEF create_added, Goes, Reads, call
<1>3. ASSUME create_refused(q)
     PROVE  Goal
  BY <1>3
    DEF create_refused, Ends, Goes, Reads, Answered, R!Answer
<1>4. ASSUME create_timeout(q)
     PROVE  Goal
  BY <1>4
    DEF create_timeout, Goes, Reads, call
<1>5. ASSUME create_replace(q)
     PROVE  Goal
  BY <1>5
    DEF create_replace, Goes, call
<1>6. ASSUME create_insert(q)
     PROVE  Goal
  BY <1>6
    DEF create_insert, Ends, Goes, Answered, R!Answer
<1>7. ASSUME node_adds(q)
     PROVE  Goal
  BY <1>7
    DEF node_adds, R!Act
<1>8. ASSUME database_fails(q)
     PROVE  Goal
  BY <1>8
    DEF database_fails, Ends, Goes, Reads, Answered, R!Answer, call
<1>9. ASSUME NEW u \in User, sync_begins(q, u)
     PROVE  Goal
  BY <1>9
    DEF sync_begins, Comes, Goes, call, Visible, Active
<1>10. ASSUME sync_visit(q)
     PROVE  Goal
  BY <1>10
    DEF sync_visit, Ends, Goes, Reads, call
<1>11. ASSUME sync_list(q)
     PROVE  Goal
  BY <1>11
    DEF sync_list, Goes, Reads, call
<1>12. ASSUME sync_current(q)
     PROVE  Goal
  BY <1>12
    DEF sync_current, Goes, Reads, call
<1>13. ASSUME sync_remove(q)
     PROVE  Goal
  BY <1>13
    DEF sync_remove, Goes, call
<1>14. ASSUME sync_upsert(q)
     PROVE  Goal
  BY <1>14
    DEF sync_upsert, Goes, call
<1>15. ASSUME sync_next(q)
     PROVE  Goal
  BY <1>15
    DEF sync_next, Goes, Reads, call
<1>16. ASSUME check_begins(q)
     PROVE  Goal
  BY <1>16
    DEF check_begins, Comes, Goes, call
<1>17. ASSUME check_ask(q)
     PROVE  Goal
  BY <1>17
    DEF check_ask, Goes, Ends, Reads, call
<1>18. ASSUME check_mark(q)
     PROVE  Goal
  BY <1>18
    DEF check_mark, Goes, Ends, call
<1>19. ASSUME NEW u \in User, node_create_begins(q, u)
     PROVE  Goal
  BY <1>19
    DEF node_create_begins, Comes, Goes, call
<1>20. ASSUME NEW u \in User, NEW n \in Node, NEW to \in {"node_write", "node_drop"},
             node_begins(q, u, n, to)
     PROVE  Goal
  BY <1>20
    DEF node_begins, Comes, Goes, call, Visible
<1>21. ASSUME node_count(q)
     PROVE  Goal
  BY <1>21
    DEF node_count, Goes, Reads, call
<1>22. ASSUME node_insert(q)
     PROVE  Goal
  BY <1>22
    DEF node_insert, Ends, Goes, call
<1>23. ASSUME node_write(q)
     PROVE  Goal
  BY <1>23
    DEF node_write, Ends, Goes, call
<1>24. ASSUME node_drop(q)
     PROVE  Goal
  BY <1>24
    DEF node_drop, Ends, Goes, call, Deleted
<1>25. ASSUME NEW u \in User, NEW to \in {"user_update", "user_delete"}, user_begins(q, u, to)
     PROVE  Goal
  BY <1>25
    DEF user_begins, Comes, Goes, call
<1>26. ASSUME user_update(q)
     PROVE  Goal
  BY <1>26
<1>27. ASSUME user_delete(q)
     PROVE  Goal
  BY <1>27
<1>. QED BY Work(q), <1>1, <1>2, <1>3, <1>4, <1>5, <1>6, <1>7, <1>8, <1>9, <1>10, <1>11,
     <1>12, <1>13, <1>14, <1>15, <1>16, <1>17, <1>18, <1>19, <1>20, <1>21, <1>22,
     <1>23, <1>24, <1>25, <1>26, <1>27
    DEF Work, create, sync, check, node_request, user_request

\* The one who asks keeps the role, so that only somebody who has lost it
\* meanwhile can take the last ADMIN's.
LEMMA AdminStep ==
  ASSUME TypesInv, AdminRemains, Step, Remembered PROVE AdminRemains'
<1>1. CASE role' = role
  BY <1>1 DEF AdminRemains, Remembered
<1>2. ASSUME NEW q \in Req, user_update(q) \/ user_delete(q), role' # role PROVE AdminRemains'
  <2>1. at[q] \in {"user_update", "user_delete"} /\ at'[q] # at[q]
    BY <1>2 DEF user_update, user_delete, Ends, Goes, TypesInv, TypeOK
  <2>2. CASE role[my[q].user] # "ADMIN"
    BY <1>2, <2>1, <2>2 DEF Remembered, Moved, AdminRemains
  <2>3. CASE role[my[q].user] = "ADMIN"
    <3>1. my[q].user \in User /\ role \in [User -> Role \cup {"gone"}]
      BY <2>1 DEF TypesInv, TypeOK, Holds
    <3>2. PICK u \in Others(q), r \in Role \cup {"gone"} : role' = [role EXCEPT ![u] = r]
      BY <1>2 DEF user_update, user_delete
    <3>3. role'[my[q].user] = "ADMIN"
      BY <2>3, <3>1, <3>2 DEF Others
    <3>. QED
      BY <3>1, <3>3 DEF AdminRemains
  <2>. QED
    BY <2>2, <2>3
<1>. QED
  BY <1>1, <1>2, WorkRoles DEF Step, Work, pool_changes

\* Whatever requests overlap, there is an ADMIN as long as every change of a
\* user was carried out by somebody who then still was one.
THEOREM AdminStays == Spec => []AdminRemains
<1>1. Init => AdminRemains
  BY DEF Init, AdminRemains
<1>2. TypesInv /\ AdminRemains /\ [Next]_vars => AdminRemains'
  <2>1. ASSUME TypesInv, AdminRemains, Next PROVE AdminRemains'
    BY <2>1, AdminStep DEF Next
  <2>2. ASSUME AdminRemains, UNCHANGED vars PROVE AdminRemains'
    BY <2>2 DEF AdminRemains, vars, history
  <2>. QED
    BY <2>1, <2>2
<1>. QED
  BY <1>1, <1>2, TypesInvariant, PTL DEF Spec

-----------------------------------------------------------------------------
(***************************************************************************)
(* The limit of FREEMIUM users.                                            *)
(***************************************************************************)
\* How the number of a user's nodes grows.
LEMMA Sizes ==
  ASSUME NEW S \in SUBSET Node, NEW n
  PROVE  /\ Cardinality(S) \in Nat
         /\ \A T \in SUBSET S : Cardinality(T) \in Nat /\ Cardinality(T) <= Cardinality(S)
         /\ \A T \in SUBSET (S \cup {n}) :
              Cardinality(T) \in Nat /\ Cardinality(T) <= Cardinality(S) + 1
<1>1. IsFiniteSet(S)
  BY WebAssumption, FS_Subset
<1>2. Cardinality(S) \in Nat /\ IsFiniteSet(S \cup {n})
  BY <1>1, FS_CardinalityType, FS_AddElement
<1>3. Cardinality(S \cup {n}) <= Cardinality(S) + 1 /\ Cardinality(S \cup {n}) \in Nat
  BY <1>1, <1>2, FS_AddElement
<1>4. ASSUME NEW T \in SUBSET S
      PROVE  Cardinality(T) \in Nat /\ Cardinality(T) <= Cardinality(S)
  BY <1>1, <1>2, FS_Subset, FS_CardinalityType
<1>5. ASSUME NEW T \in SUBSET (S \cup {n})
      PROVE  Cardinality(T) \in Nat /\ Cardinality(T) <= Cardinality(S) + 1
  <2>1. Cardinality(T) \in Nat /\ Cardinality(T) <= Cardinality(S \cup {n})
    BY <1>2, FS_Subset, FS_CardinalityType
  <2>. QED
    BY <2>1, <1>2, <1>3
<1>. QED
  BY <1>2, <1>4, <1>5

\* No request but the last step of making a node gives anybody a node.
LEMMA WorkNodes ==
  ASSUME TypesInv, NEW q \in Req, Work(q)
  PROVE  node_insert(q) \/ (/\ There' \subseteq There
                            /\ \A n \in There' : nodes'[n].owner = nodes[n].owner)
<1>. DEFINE Goal == \/ node_insert(q)
                    \/ /\ There' \subseteq There
                       /\ \A n \in There' : nodes'[n].owner = nodes[n].owner
<1>1. ASSUME NEW u \in User, NEW n \in Node, NEW a \in Name, create_begins(q, u, n, a)
     PROVE  Goal
  BY <1>1
    DEF create_begins, Comes, Goes, R!Arrive, Visible, Active, There
<1>2. ASSUME create_added(q)
     PROVE  Goal
  BY <1>2
    DEF create_added, Goes, Reads, call, There
<1>3. ASSUME create_refused(q)
     PROVE  Goal
  BY <1>3
    DEF create_refused, Ends, Goes, Reads, Answered, R!Answer, There
<1>4. ASSUME create_timeout(q)
     PROVE  Goal
  BY <1>4
    DEF create_timeout, Goes, Reads, call, There
<1>5. ASSUME create_replace(q)
     PROVE  Goal
  BY <1>5
    DEF create_replace, Goes, call, There
<1>6. ASSUME create_insert(q)
     PROVE  Goal
  BY <1>6
    DEF create_insert, Ends, Goes, Answered, R!Answer, There
<1>7. ASSUME node_adds(q)
     PROVE  Goal
  BY <1>7
    DEF node_adds, R!Act, There
<1>8. ASSUME database_fails(q)
     PROVE  Goal
  BY <1>8
    DEF database_fails, Ends, Goes, Reads, Answered, R!Answer, call, There
<1>9. ASSUME NEW u \in User, sync_begins(q, u)
     PROVE  Goal
  BY <1>9
    DEF sync_begins, Comes, Goes, call, Visible, Active, There
<1>10. ASSUME sync_visit(q)
     PROVE  Goal
  BY <1>10
    DEF sync_visit, Ends, Goes, Reads, call, There
<1>11. ASSUME sync_list(q)
     PROVE  Goal
  BY <1>11
    DEF sync_list, Goes, Reads, call, There
<1>12. ASSUME sync_current(q)
     PROVE  Goal
  BY <1>12
    DEF sync_current, Goes, Reads, call, There
<1>13. ASSUME sync_remove(q)
     PROVE  Goal
  BY <1>13
    DEF sync_remove, Goes, call, There
<1>14. ASSUME sync_upsert(q)
     PROVE  Goal
  BY <1>14
    DEF sync_upsert, Goes, call, There
<1>15. ASSUME sync_next(q)
     PROVE  Goal
  BY <1>15
    DEF sync_next, Goes, Reads, call, There
<1>16. ASSUME check_begins(q)
     PROVE  Goal
  BY <1>16
    DEF check_begins, Comes, Goes, call, There
<1>17. ASSUME check_ask(q)
     PROVE  Goal
  BY <1>17
    DEF check_ask, Goes, Ends, Reads, call, There
<1>18. ASSUME check_mark(q)
     PROVE  Goal
  <2>1. \A n \in There : nodes[n] \in [owner : User, active : BOOLEAN]
    BY DEF TypesInv, TypeOK
  <2>2. nodes' = nodes \/ \E n \in There : nodes' = [nodes EXCEPT ![n].active = my[q].ok]
    BY <1>18 DEF check_mark
  <2>. QED
    BY <2>1, <2>2 DEF There
<1>19. ASSUME NEW u \in User, node_create_begins(q, u)
     PROVE  Goal
  BY <1>19
    DEF node_create_begins, Comes, Goes, call, There
<1>20. ASSUME NEW u \in User, NEW n \in Node, NEW to \in {"node_write", "node_drop"},
             node_begins(q, u, n, to)
     PROVE  Goal
  BY <1>20
    DEF node_begins, Comes, Goes, call, Visible, There
<1>21. ASSUME node_count(q)
     PROVE  Goal
  BY <1>21
    DEF node_count, Goes, Reads, call, There
<1>22. ASSUME node_insert(q)
     PROVE  Goal
  BY <1>22
<1>23. ASSUME node_write(q)
     PROVE  Goal
  BY <1>23
    DEF node_write, Ends, Goes, call, There
<1>24. ASSUME node_drop(q)
     PROVE  Goal
  BY <1>24
    DEF node_drop, Ends, Goes, call, Deleted, There
<1>25. ASSUME NEW u \in User, NEW to \in {"user_update", "user_delete"}, user_begins(q, u, to)
     PROVE  Goal
  BY <1>25
    DEF user_begins, Comes, Goes, call, There
<1>26. ASSUME user_update(q)
     PROVE  Goal
  BY <1>26
    DEF user_update, Ends, Goes, call, Others, There
<1>27. ASSUME user_delete(q)
     PROVE  Goal
  BY <1>27
    DEF user_delete, Ends, Goes, call, Deleted, Others, There
<1>. QED BY Work(q), <1>1, <1>2, <1>3, <1>4, <1>5, <1>6, <1>7, <1>8, <1>9, <1>10, <1>11,
     <1>12, <1>13, <1>14, <1>15, <1>16, <1>17, <1>18, <1>19, <1>20, <1>21, <1>22,
     <1>23, <1>24, <1>25, <1>26, <1>27
    DEF Work, create, sync, check, node_request, user_request

\* Who comes to the last step is more than FREEMIUM, or has been counted.
LEMMA WorkCounted ==
  ASSUME TypesInv, NEW q \in Req, Work(q), at'[q] = "node_insert"
  PROVE  \/ role[my'[q].user] \in {"ADMIN", "PREMIUM"}
         \/ Cardinality(Owned(my'[q].user)) < Limit
<1>. /\ at \in [Req -> Stage] /\ my \in [Req -> Local] /\ role \in [User -> Role \cup {"gone"}]
     /\ Role \subseteq AllRoles
  BY WebAssumption DEF TypesInv, TypeOK
<1>. HIDE DEF TypesInv
<1>. DEFINE Goal == \/ role[my'[q].user] \in {"ADMIN", "PREMIUM"}
                    \/ Cardinality(Owned(my'[q].user)) < Limit
<1>1. ASSUME NEW u \in User, NEW n \in Node, NEW a \in Name, create_begins(q, u, n, a)
     PROVE  Goal
  BY <1>1
    DEF create_begins, Comes, Goes, R!Arrive, Visible, Active, SyncStage
<1>2. ASSUME create_added(q)
     PROVE  Goal
  BY <1>2
    DEF create_added, Goes, Reads, call, SyncStage
<1>3. ASSUME create_refused(q)
     PROVE  Goal
  BY <1>3
    DEF create_refused, Ends, Goes, Reads, Answered, R!Answer, SyncStage
<1>4. ASSUME create_timeout(q)
     PROVE  Goal
  BY <1>4
    DEF create_timeout, Goes, Reads, call, SyncStage
<1>5. ASSUME create_replace(q)
     PROVE  Goal
  BY <1>5
    DEF create_replace, Goes, call, SyncStage
<1>6. ASSUME create_insert(q)
     PROVE  Goal
  BY <1>6
    DEF create_insert, Ends, Goes, Answered, R!Answer, SyncStage
<1>7. ASSUME node_adds(q)
     PROVE  Goal
  BY <1>7 DEF node_adds, Stage, SyncStage
<1>8. ASSUME database_fails(q)
     PROVE  Goal
  BY <1>8
    DEF database_fails, Ends, Goes, Reads, Answered, R!Answer, call, SyncStage
<1>9. ASSUME NEW u \in User, sync_begins(q, u)
     PROVE  Goal
  BY <1>9
    DEF sync_begins, Comes, Goes, call, Visible, Active, SyncStage
<1>10. ASSUME sync_visit(q)
     PROVE  Goal
  BY <1>10
    DEF sync_visit, Ends, Goes, Reads, call, SyncStage
<1>11. ASSUME sync_list(q)
     PROVE  Goal
  BY <1>11
    DEF sync_list, Goes, Reads, call, SyncStage
<1>12. ASSUME sync_current(q)
     PROVE  Goal
  BY <1>12
    DEF sync_current, Goes, Reads, call, SyncStage
<1>13. ASSUME sync_remove(q)
     PROVE  Goal
  BY <1>13
    DEF sync_remove, Goes, call, SyncStage
<1>14. ASSUME sync_upsert(q)
     PROVE  Goal
  BY <1>14
    DEF sync_upsert, Goes, call, SyncStage
<1>15. ASSUME sync_next(q)
     PROVE  Goal
  BY <1>15
    DEF sync_next, Goes, Reads, call, SyncStage
<1>16. ASSUME check_begins(q)
     PROVE  Goal
  BY <1>16
    DEF check_begins, Comes, Goes, call, SyncStage
<1>17. ASSUME check_ask(q)
     PROVE  Goal
  BY <1>17
    DEF check_ask, Goes, Ends, Reads, call, SyncStage
<1>18. ASSUME check_mark(q)
     PROVE  Goal
  BY <1>18
    DEF check_mark, Goes, Ends, call, SyncStage
<1>19. ASSUME NEW u \in User, node_create_begins(q, u)
     PROVE  Goal
  <2>1. role[u] # "FREEMIUM" /\ role[u] # "gone" /\ my'[q] = [Fresh EXCEPT !.user = u]
    BY <1>19 DEF node_create_begins, Comes, Goes, Exists
  <2>. QED
    BY <2>1 DEF Fresh, AllRoles
<1>20. ASSUME NEW u \in User, NEW n \in Node, NEW to \in {"node_write", "node_drop"},
             node_begins(q, u, n, to)
     PROVE  Goal
  BY <1>20
    DEF node_begins, Comes, Goes, call, Visible, SyncStage
<1>21. ASSUME node_count(q)
     PROVE  Goal
  BY <1>21 DEF node_count, Reads, Goes
<1>22. ASSUME node_insert(q)
     PROVE  Goal
  BY <1>22
    DEF node_insert, Ends, Goes, call, SyncStage
<1>23. ASSUME node_write(q)
     PROVE  Goal
  BY <1>23
    DEF node_write, Ends, Goes, call, SyncStage
<1>24. ASSUME node_drop(q)
     PROVE  Goal
  BY <1>24
    DEF node_drop, Ends, Goes, call, Deleted, SyncStage
<1>25. ASSUME NEW u \in User, NEW to \in {"user_update", "user_delete"}, user_begins(q, u, to)
     PROVE  Goal
  BY <1>25
    DEF user_begins, Comes, Goes, call, SyncStage
<1>26. ASSUME user_update(q)
     PROVE  Goal
  BY <1>26
    DEF user_update, Ends, Goes, call, Others, SyncStage
<1>27. ASSUME user_delete(q)
     PROVE  Goal
  BY <1>27
    DEF user_delete, Ends, Goes, call, Deleted, Others, SyncStage
<1>. QED BY Work(q), <1>1, <1>2, <1>3, <1>4, <1>5, <1>6, <1>7, <1>8, <1>9, <1>10, <1>11,
     <1>12, <1>13, <1>14, <1>15, <1>16, <1>17, <1>18, <1>19, <1>20, <1>21, <1>22,
     <1>23, <1>24, <1>25, <1>26, <1>27
    DEF Work, create, sync, check, node_request, user_request

\* Whatever a request does, the limit holds for those without an excuse.
LEMMA LimitWork ==
  ASSUME TypesInv, LimitInv, NEW q \in Req, Work(q), Remembered, NEW u \in User \ excused'
  PROVE  Counted(u)'
<1>1. u \in User \ excused /\ Counted(u)
  BY DEF Remembered, LimitInv
<1>2. role'[u] \notin {"ADMIN", "PREMIUM"}
  BY DEF Remembered
<1>3. ASSUME NEW p1 \in Req, NEW p2 \in Req, at'[p1] \in NewNode, at'[p2] \in NewNode,
             my'[p1].user = u, my'[p2].user = u
      PROVE  p1 = p2
  BY <1>3 DEF Remembered, NewNode
<1>4. Alone(q)
  BY WorkAlone
<1>5. Owned(u) \in SUBSET Node /\ Limit \in Nat
  BY WebAssumption DEF Owned, TypesInv, TypeOK
<1>6. CASE Owned(u)' \subseteq Owned(u) /\ ~node_insert(q)
  <2>1. Cardinality(Owned(u)') <= Cardinality(Owned(u)) /\ Cardinality(Owned(u)') \in Nat
        /\ Cardinality(Owned(u)) \in Nat
    BY <1>5, <1>6, Sizes
  <2>2. ASSUME NEW p \in Req, at'[p] = "node_insert", my'[p].user = u
        PROVE  Cardinality(Owned(u)) < Limit
    <3>1. CASE p = q
      BY <1>1, <2>2, <3>1, WorkCounted DEF Counted
    <3>2. CASE p # q
      BY <1>1, <1>4, <2>2, <3>2 DEF Counted, Alone
    <3>. QED
      BY <3>1, <3>2
  <2>. HIDE DEF Owned
  <2>3. Cardinality(Owned(u)') <= Limit
    BY <1>1, <1>5, <2>1 DEF Counted
  <2>4. ASSUME NEW p \in Req, at'[p] = "node_insert", my'[p].user = u
        PROVE  Cardinality(Owned(u)') < Limit
    BY <1>5, <2>1, <2>2, <2>4
  <2>. QED
    BY <1>2, <1>3, <2>3, <2>4 DEF Counted
<1>7. CASE node_insert(q)
  <2>1. PICK n \in left.node :
          nodes' = [m \in There \cup {n} |->
                     IF m = n THEN [owner |-> my[q].user, active |-> TRUE] ELSE nodes[m]]
    BY <1>7 DEF node_insert
  <2>2. at[q] = "node_insert" /\ at'[q] = "idle"
    BY <1>7 DEF node_insert, Ends, Goes, TypesInv, TypeOK
  <2>3. CASE my[q].user = u
    <3>1. Owned(u)' \subseteq Owned(u) \cup {n}
      BY <2>1 DEF Owned, There
    <3>2. Cardinality(Owned(u)) < Limit
      BY <1>1, <2>2, <2>3 DEF Counted
    <3>3. Cardinality(Owned(u)') <= Cardinality(Owned(u)) + 1 /\ Cardinality(Owned(u)') \in Nat
          /\ Cardinality(Owned(u)) \in Nat
      BY <1>5, <3>1, Sizes
    <3>4. ASSUME NEW p \in Req, at'[p] = "node_insert", my'[p].user = u PROVE FALSE
      <4>1. p # q /\ at[p] = "node_insert" /\ my[p].user = u
        BY <1>4, <2>2, <3>4 DEF Alone
      <4>. QED
        BY <1>1, <2>2, <2>3, <4>1 DEF Counted, NewNode
    <3>. HIDE DEF Owned
    <3>5. Cardinality(Owned(u)') <= Limit
      BY <1>5, <3>2, <3>3
    <3>. QED
      BY <1>2, <1>3, <3>4, <3>5 DEF Counted
  <2>4. CASE my[q].user # u
    <3>1. Owned(u)' \subseteq Owned(u)
      BY <2>1, <2>4 DEF Owned, There
    <3>2. Cardinality(Owned(u)') <= Cardinality(Owned(u)) /\ Cardinality(Owned(u)') \in Nat
          /\ Cardinality(Owned(u)) \in Nat
      BY <1>5, <3>1, Sizes
    <3>3. ASSUME NEW p \in Req, at'[p] = "node_insert", my'[p].user = u
          PROVE  Cardinality(Owned(u)) < Limit
      BY <1>1, <1>4, <2>2, <3>3 DEF Counted, Alone
    <3>. HIDE DEF Owned
    <3>4. Cardinality(Owned(u)') <= Limit
      BY <1>1, <1>5, <3>2 DEF Counted
    <3>5. ASSUME NEW p \in Req, at'[p] = "node_insert", my'[p].user = u
          PROVE  Cardinality(Owned(u)') < Limit
      BY <1>5, <3>2, <3>3, <3>5
    <3>. QED
      BY <1>2, <1>3, <3>4, <3>5 DEF Counted
  <2>. QED
    BY <2>3, <2>4
<1>. QED
  <2>1. ~node_insert(q) => Owned(u)' \subseteq Owned(u)
    BY WorkNodes DEF Owned
  <2>. QED
    BY <1>6, <1>7, <2>1

\* So it does when a node changes, since that leaves the table of nodes alone.
LEMMA LimitNode ==
  ASSUME TypesInv, LimitInv, NEW m \in Process, pool_changes(m), Remembered,
         NEW u \in User \ excused'
  PROVE  Counted(u)'
<1>1. Counted(u)
  BY DEF Remembered, LimitInv
<1>2. Owned(u)' = Owned(u) /\ role' = role
  BY DEF pool_changes, Owned, There
<1>3. ASSUME NEW p \in Req, at'[p] \in NewNode PROVE at'[p] = at[p] /\ my'[p] = my[p]
  BY <1>3 DEF pool_changes, NewNode
<1>. HIDE DEF Owned
<1>. QED
  BY <1>1, <1>2, <1>3 DEF Counted, NewNode

\* A user who never was more than FREEMIUM and never had two requests for a new
\* node at a time does not get more nodes than the limit allows.
THEOREM LimitKept == Spec => []FreemiumBounded
<1>1. Init => LimitInv
  <2>. SUFFICES ASSUME Init, NEW u \in User \ excused PROVE Counted(u)
    BY DEF LimitInv
  <2>1. role[u] = "FREEMIUM" /\ \A q \in Req : at[q] = "idle"
    BY DEF Init
  <2>2. Cardinality(Owned(u)) <= Limit
    BY <2>1 DEF Init
  <2>. QED
    BY <2>1, <2>2 DEF Counted, NewNode
<1>2. TypesInv /\ LimitInv /\ [Next]_vars => LimitInv'
  <2>1. ASSUME TypesInv, LimitInv, Next PROVE LimitInv'
    BY <2>1, LimitWork, LimitNode DEF Next, Step, Work, LimitInv
  <2>2. ASSUME LimitInv, UNCHANGED vars PROVE LimitInv'
    <3>1. ASSUME NEW u \in User \ excused PROVE Counted(u)'
      <4>1. Owned(u)' = Owned(u)
        BY <2>2 DEF vars, Owned, There
      <4>. HIDE DEF Owned
      <4>. QED
        BY <2>2, <3>1, <4>1 DEF LimitInv, Counted, vars
    <3>. QED
      BY <2>2, <3>1 DEF LimitInv, vars, history
  <2>. QED
    BY <2>1, <2>2
<1>3. LimitInv => FreemiumBounded
  BY DEF LimitInv, Counted, FreemiumBounded
<1>. QED
  BY <1>1, <1>2, <1>3, TypesInvariant, PTL DEF Spec

-----------------------------------------------------------------------------
(***************************************************************************)
(* Nothing is left behind but by a race.                                   *)
(***************************************************************************)
\* What a request holds that does not move is still there, or is remembered.
LEMMA FoundStays ==
  ASSUME TypesInv, Remembered, NEW p \in Req, Found(p), at'[p] = at[p], my'[p] = my[p]
  PROVE  Found(p)'
<1>1. ~Moved(p) /\ Holds(p) /\ my[p] \in Local
  BY DEF Moved, TypesInv, TypeOK
<1>2. raced' = raced \cup (Used \cap ((There \ There') \cup {u \in User : role'[u] = "gone"}))
  BY DEF Remembered
<1>4. my[p].node \in There' \cup raced' \/ at[p] \notin {"add", "replace", "insert"} \cup SyncStage
  <2>1. at[p] \in {"add", "replace", "insert"} \cup SyncStage => my[p].node \in Used
    BY <1>1 DEF Used
  <2>. QED
    BY <2>1, <1>2 DEF Found
<1>5. my[p].todo \subseteq There' \cup raced' \/ at[p] \notin {"visit"} \cup SyncStage
  <2>1. at[p] \in {"visit"} \cup SyncStage => my[p].todo \subseteq Used
    BY <1>1 DEF Used
  <2>. QED
    BY <2>1, <1>2 DEF Found
<1>6. at[p] \in NewNode => role'[my[p].user] # "gone" \/ my[p].user \in raced'
  <2>1. at[p] \in NewNode => my[p].user \in Used
    BY <1>1 DEF Used, NewNode
  <2>2. at[p] \in NewNode => my[p].user \in User
    BY <1>1 DEF Holds, NewNode
  <2>. QED
    BY <2>1, <2>2, <1>2 DEF Found
<1>. QED
  BY <1>4, <1>5, <1>6 DEF Found

\* What the worker itself holds next it has found in the tables, or held before.
LEMMA FoundWork ==
  ASSUME TypesInv, Remembered, NEW q \in Req, Found(q), Work(q)
  PROVE  Found(q)'
<1>. /\ at \in [Req -> Stage] /\ my \in [Req -> Local] /\ role \in [User -> Role \cup {"gone"}]
     /\ raced \subseteq raced'
  BY DEF TypesInv, TypeOK, Remembered
<1>. HIDE DEF TypesInv, Remembered
<1>1. ASSUME NEW u \in User, NEW n \in Node, NEW a \in Name, create_begins(q, u, n, a)
     PROVE  Found(q)'
  BY <1>1
    DEF create_begins, Comes, Goes, R!Arrive, Visible, Active, Found, NewNode,
       SyncStage, There, Fresh, Local, Exists, Reads
<1>2. ASSUME create_added(q)
     PROVE  Found(q)'
  BY <1>2
    DEF create_added, Goes, Reads, call, Found, NewNode, SyncStage, There, Fresh,
       Local, Exists
<1>3. ASSUME create_refused(q)
     PROVE  Found(q)'
  BY <1>3
    DEF create_refused, Ends, Goes, Reads, Answered, R!Answer, Found, NewNode,
       SyncStage, There, Fresh, Local, Exists
<1>4. ASSUME create_timeout(q)
     PROVE  Found(q)'
  BY <1>4
    DEF create_timeout, Goes, Reads, call, Found, NewNode, SyncStage, There, Fresh,
       Local, Exists
<1>5. ASSUME create_replace(q)
     PROVE  Found(q)'
  BY <1>5
    DEF create_replace, Goes, call, Found, NewNode, SyncStage, There, Fresh, Local,
       Exists, Reads
<1>6. ASSUME create_insert(q)
     PROVE  Found(q)'
  BY <1>6
    DEF create_insert, Ends, Goes, Answered, R!Answer, Found, NewNode, SyncStage,
       There, Fresh, Local, Exists, Reads
<1>7. ASSUME node_adds(q)
     PROVE  Found(q)'
  BY <1>7
    DEF node_adds, R!Act, Found, NewNode, SyncStage, There, Fresh, Local, Exists,
       Reads
<1>8. ASSUME database_fails(q)
     PROVE  Found(q)'
  BY <1>8
    DEF database_fails, Ends, Goes, Reads, Answered, R!Answer, call, Found, NewNode,
       SyncStage, There, Fresh, Local, Exists
<1>9. ASSUME NEW u \in User, sync_begins(q, u)
     PROVE  Found(q)'
  BY <1>9
    DEF sync_begins, Comes, Goes, call, Visible, Active, Found, NewNode, SyncStage,
       There, Fresh, Local, Exists, Reads
<1>10. ASSUME sync_visit(q)
     PROVE  Found(q)'
  <2>1. There' = There /\ my[q] \in Local /\ at[q] = "visit" /\ role' = role
    BY <1>10 DEF sync_visit, Ends, Goes, Reads, There
  <2>2. at'[q] = "idle" \/ (/\ at'[q] = "list" /\ my'[q].node \in my[q].todo
                            /\ my'[q].todo \subseteq my[q].todo)
    <3>1. CASE Ends(q, "visit")
      BY <3>1 DEF Ends, Goes
    <3>2. ASSUME NEW n \in my[q].todo, Goes(q, "visit", "list"),
                 my' = [my EXCEPT ![q].node = n, ![q].todo = @ \ {n}]
          PROVE  at'[q] = "list" /\ my'[q].node = n /\ my'[q].todo = my[q].todo \ {n}
      BY <2>1, <3>2 DEF Goes, Local
    <3>. QED
      BY <1>10, <3>1, <3>2 DEF sync_visit
  <2>3. my[q].todo \subseteq There \cup raced
    BY <2>1 DEF Found
  <2>. QED
    BY <2>1, <2>2, <2>3 DEF Found, NewNode, SyncStage
<1>11. ASSUME sync_list(q)
     PROVE  Found(q)'
  BY <1>11
    DEF sync_list, Goes, Reads, call, Found, NewNode, SyncStage, There, Fresh,
       Local, Exists
<1>12. ASSUME sync_current(q)
     PROVE  Found(q)'
  BY <1>12
    DEF sync_current, Goes, Reads, call, Found, NewNode, SyncStage, There, Fresh,
       Local, Exists
<1>13. ASSUME sync_remove(q)
     PROVE  Found(q)'
  BY <1>13
    DEF sync_remove, Goes, call, Found, NewNode, SyncStage, There, Fresh, Local,
       Exists, Reads
<1>14. ASSUME sync_upsert(q)
     PROVE  Found(q)'
  BY <1>14
    DEF sync_upsert, Goes, call, Found, NewNode, SyncStage, There, Fresh, Local,
       Exists, Reads
<1>15. ASSUME sync_next(q)
     PROVE  Found(q)'
  BY <1>15
    DEF sync_next, Goes, Reads, call, Found, NewNode, SyncStage, There, Fresh,
       Local, Exists
<1>16. ASSUME check_begins(q)
     PROVE  Found(q)'
  BY <1>16
    DEF check_begins, Comes, Goes, call, Found, NewNode, SyncStage, There, Fresh,
       Local, Exists, Reads
<1>17. ASSUME check_ask(q)
     PROVE  Found(q)'
  BY <1>17
    DEF check_ask, Goes, Ends, Reads, call, Found, NewNode, SyncStage, There, Fresh,
       Local, Exists
<1>18. ASSUME check_mark(q)
     PROVE  Found(q)'
  BY <1>18
    DEF check_mark, Goes, Ends, call, Found, NewNode, SyncStage, There, Fresh,
       Local, Exists, Reads
<1>19. ASSUME NEW u \in User, node_create_begins(q, u)
     PROVE  Found(q)'
  BY <1>19
    DEF node_create_begins, Comes, Goes, call, Found, NewNode, SyncStage, There,
       Fresh, Local, Exists, Reads
<1>20. ASSUME NEW u \in User, NEW n \in Node, NEW to \in {"node_write", "node_drop"},
             node_begins(q, u, n, to)
     PROVE  Found(q)'
  BY <1>20
    DEF node_begins, Comes, Goes, call, Visible, Found, NewNode, SyncStage, There,
       Fresh, Local, Exists, Reads
<1>21. ASSUME node_count(q)
     PROVE  Found(q)'
  BY <1>21
    DEF node_count, Goes, Reads, call, Found, NewNode, SyncStage, There, Fresh,
       Local, Exists
<1>22. ASSUME node_insert(q)
     PROVE  Found(q)'
  BY <1>22
    DEF node_insert, Ends, Goes, call, Found, NewNode, SyncStage, There, Fresh,
       Local, Exists, Reads
<1>23. ASSUME node_write(q)
     PROVE  Found(q)'
  BY <1>23
    DEF node_write, Ends, Goes, call, Found, NewNode, SyncStage, There, Fresh,
       Local, Exists, Reads
<1>24. ASSUME node_drop(q)
     PROVE  Found(q)'
  BY <1>24
    DEF node_drop, Ends, Goes, call, Deleted, Found, NewNode, SyncStage, There,
       Fresh, Local, Exists, Reads
<1>25. ASSUME NEW u \in User, NEW to \in {"user_update", "user_delete"}, user_begins(q, u, to)
     PROVE  Found(q)'
  BY <1>25
    DEF user_begins, Comes, Goes, call, Found, NewNode, SyncStage, There, Fresh,
       Local, Exists, Reads
<1>26. ASSUME user_update(q)
     PROVE  Found(q)'
  BY <1>26
    DEF user_update, Ends, Goes, call, Others, Found, NewNode, SyncStage, There,
       Fresh, Local, Exists, Reads
<1>27. ASSUME user_delete(q)
     PROVE  Found(q)'
  BY <1>27
    DEF user_delete, Ends, Goes, call, Deleted, Others, Found, NewNode, SyncStage,
       There, Fresh, Local, Exists, Reads
<1>. QED BY Work(q), <1>1, <1>2, <1>3, <1>4, <1>5, <1>6, <1>7, <1>8, <1>9, <1>10, <1>11,
     <1>12, <1>13, <1>14, <1>15, <1>16, <1>17, <1>18, <1>19, <1>20, <1>21, <1>22,
     <1>23, <1>24, <1>25, <1>26, <1>27
    DEF Work, create, sync, check, node_request, user_request

\* Every row a request makes is of a node it has found, every node of a user it
\* has found, and what a delete removes takes all with it that refers to it.
LEMMA OrphansWork ==
  ASSUME TypesInv, RacedInv, Remembered, NEW q \in Req, Work(q)
  PROVE  OrphansRaced'
<1>. /\ at \in [Req -> Stage] /\ my \in [Req -> Local] /\ role \in [User -> Role \cup {"gone"}]
     /\ raced \subseteq raced' /\ TableTypes /\ Holds(q) /\ OrphansRaced /\ Found(q)
  BY TypesParts DEF TypesInv, TypeOK, Remembered, RacedInv
<1>. "gone" \notin Role
  BY WebAssumption DEF AllRoles
<1>. HIDE DEF TypesInv, Remembered, RacedInv
<1>1. ASSUME NEW u \in User, NEW n \in Node, NEW a \in Name, create_begins(q, u, n, a)
     PROVE  OrphansRaced'
  BY <1>1
    DEF create_begins, Comes, Goes, R!Arrive, Visible, Active, OrphansRaced, Found,
       NewNode, SyncStage, There, TableTypes, Holds, Owned
<1>2. ASSUME create_added(q)
     PROVE  OrphansRaced'
  BY <1>2
    DEF create_added, Goes, Reads, call, OrphansRaced, Found, NewNode, SyncStage,
       There, TableTypes, Holds, Owned
<1>3. ASSUME create_refused(q)
     PROVE  OrphansRaced'
  BY <1>3
    DEF create_refused, Ends, Goes, Reads, Answered, R!Answer, OrphansRaced, Found,
       NewNode, SyncStage, There, TableTypes, Holds, Owned
<1>4. ASSUME create_timeout(q)
     PROVE  OrphansRaced'
  BY <1>4
    DEF create_timeout, Goes, Reads, call, OrphansRaced, Found, NewNode, SyncStage,
       There, TableTypes, Holds, Owned
<1>5. ASSUME create_replace(q)
     PROVE  OrphansRaced'
  BY <1>5
    DEF create_replace, Goes, call, OrphansRaced, Found, NewNode, SyncStage, There,
       TableTypes, Holds, Owned
<1>6. ASSUME create_insert(q)
     PROVE  OrphansRaced'
  BY <1>6
    DEF create_insert, Ends, Goes, Answered, R!Answer, OrphansRaced, Found, NewNode,
       SyncStage, There, TableTypes, Holds, Owned
<1>7. ASSUME node_adds(q)
     PROVE  OrphansRaced'
  BY <1>7
    DEF node_adds, R!Act, OrphansRaced, Found, NewNode, SyncStage, There,
       TableTypes, Holds, Owned
<1>8. ASSUME database_fails(q)
     PROVE  OrphansRaced'
  BY <1>8
    DEF database_fails, Ends, Goes, Reads, Answered, R!Answer, call, OrphansRaced,
       Found, NewNode, SyncStage, There, TableTypes, Holds, Owned
<1>9. ASSUME NEW u \in User, sync_begins(q, u)
     PROVE  OrphansRaced'
  BY <1>9
    DEF sync_begins, Comes, Goes, call, Visible, Active, OrphansRaced, Found,
       NewNode, SyncStage, There, TableTypes, Holds, Owned
<1>10. ASSUME sync_visit(q)
     PROVE  OrphansRaced'
  BY <1>10
    DEF sync_visit, Ends, Goes, Reads, call, OrphansRaced, Found, NewNode,
       SyncStage, There, TableTypes, Holds, Owned
<1>11. ASSUME sync_list(q)
     PROVE  OrphansRaced'
  BY <1>11
    DEF sync_list, Goes, Reads, call, OrphansRaced, Found, NewNode, SyncStage,
       There, TableTypes, Holds, Owned
<1>12. ASSUME sync_current(q)
     PROVE  OrphansRaced'
  BY <1>12
    DEF sync_current, Goes, Reads, call, OrphansRaced, Found, NewNode, SyncStage,
       There, TableTypes, Holds, Owned
<1>13. ASSUME sync_remove(q)
     PROVE  OrphansRaced'
  BY <1>13
    DEF sync_remove, Goes, call, OrphansRaced, Found, NewNode, SyncStage, There,
       TableTypes, Holds, Owned
<1>14. ASSUME sync_upsert(q)
     PROVE  OrphansRaced'
  BY <1>14
    DEF sync_upsert, Goes, call, OrphansRaced, Found, NewNode, SyncStage, There,
       TableTypes, Holds, Owned
<1>15. ASSUME sync_next(q)
     PROVE  OrphansRaced'
  BY <1>15
    DEF sync_next, Goes, Reads, call, OrphansRaced, Found, NewNode, SyncStage,
       There, TableTypes, Holds, Owned
<1>16. ASSUME check_begins(q)
     PROVE  OrphansRaced'
  BY <1>16
    DEF check_begins, Comes, Goes, call, OrphansRaced, Found, NewNode, SyncStage,
       There, TableTypes, Holds, Owned
<1>17. ASSUME check_ask(q)
     PROVE  OrphansRaced'
  BY <1>17
    DEF check_ask, Goes, Ends, Reads, call, OrphansRaced, Found, NewNode, SyncStage,
       There, TableTypes, Holds, Owned
<1>18. ASSUME check_mark(q)
     PROVE  OrphansRaced'
  BY <1>18
    DEF check_mark, Goes, Ends, call, OrphansRaced, Found, NewNode, SyncStage,
       There, TableTypes, Holds, Owned
<1>19. ASSUME NEW u \in User, node_create_begins(q, u)
     PROVE  OrphansRaced'
  BY <1>19
    DEF node_create_begins, Comes, Goes, call, OrphansRaced, Found, NewNode,
       SyncStage, There, TableTypes, Holds, Owned
<1>20. ASSUME NEW u \in User, NEW n \in Node, NEW to \in {"node_write", "node_drop"},
             node_begins(q, u, n, to)
     PROVE  OrphansRaced'
  BY <1>20
    DEF node_begins, Comes, Goes, call, Visible, OrphansRaced, Found, NewNode,
       SyncStage, There, TableTypes, Holds, Owned
<1>21. ASSUME node_count(q)
     PROVE  OrphansRaced'
  BY <1>21
    DEF node_count, Goes, Reads, call, OrphansRaced, Found, NewNode, SyncStage,
       There, TableTypes, Holds, Owned
<1>22. ASSUME node_insert(q)
     PROVE  OrphansRaced'
  BY <1>22
    DEF node_insert, Ends, Goes, call, OrphansRaced, Found, NewNode, SyncStage,
       There, TableTypes, Holds, Owned
<1>23. ASSUME node_write(q)
     PROVE  OrphansRaced'
  BY <1>23
    DEF node_write, Ends, Goes, call, OrphansRaced, Found, NewNode, SyncStage,
       There, TableTypes, Holds, Owned
<1>24. ASSUME node_drop(q)
     PROVE  OrphansRaced'
  BY <1>24
    DEF node_drop, Ends, Goes, call, Deleted, OrphansRaced, Found, NewNode,
       SyncStage, There, TableTypes, Holds, Owned
<1>25. ASSUME NEW u \in User, NEW to \in {"user_update", "user_delete"}, user_begins(q, u, to)
     PROVE  OrphansRaced'
  BY <1>25
    DEF user_begins, Comes, Goes, call, OrphansRaced, Found, NewNode, SyncStage,
       There, TableTypes, Holds, Owned
<1>26. ASSUME user_update(q)
     PROVE  OrphansRaced'
  BY <1>26
    DEF user_update, Ends, Goes, call, Others, OrphansRaced, Found, NewNode,
       SyncStage, There, TableTypes, Holds, Owned
<1>27. ASSUME user_delete(q)
     PROVE  OrphansRaced'
  BY <1>27
    DEF user_delete, Ends, Goes, call, Deleted, Others, OrphansRaced, Found,
       NewNode, SyncStage, There, TableTypes, Holds, Owned
<1>. QED BY Work(q), <1>1, <1>2, <1>3, <1>4, <1>5, <1>6, <1>7, <1>8, <1>9, <1>10, <1>11,
     <1>12, <1>13, <1>14, <1>15, <1>16, <1>17, <1>18, <1>19, <1>20, <1>21, <1>22,
     <1>23, <1>24, <1>25, <1>26, <1>27
    DEF Work, create, sync, check, node_request, user_request

\* Every step keeps the invariant.
LEMMA RacedStep ==
  ASSUME TypesInv, RacedInv, Step, Remembered PROVE RacedInv'
<1>1. ASSUME NEW q \in Req, Work(q) PROVE RacedInv'
  <2>1. ASSUME NEW p \in Req PROVE Found(p)'
    <3>1. CASE p = q
      BY <1>1, <3>1, FoundWork DEF RacedInv
    <3>2. CASE p # q
      BY <1>1, <3>2, WorkAlone, FoundStays DEF Alone, RacedInv
    <3>. QED
      BY <3>1, <3>2
  <2>. QED
    BY <1>1, <2>1, OrphansWork DEF RacedInv
<1>2. ASSUME NEW m \in Process, pool_changes(m) PROVE RacedInv'
  <2>1. ASSUME NEW p \in Req PROVE Found(p)'
    <3>1. CASE at'[p] = at[p] /\ my'[p] = my[p]
      BY <3>1, FoundStays DEF RacedInv
    <3>2. CASE ~(at'[p] = at[p] /\ my'[p] = my[p])
      BY <1>2, <3>2 DEF pool_changes, Found, NewNode, SyncStage
    <3>. QED
      BY <3>1, <3>2
  <2>2. UNCHANGED <<role, nodes, rows>> /\ raced \subseteq raced'
    BY <1>2 DEF pool_changes, Remembered
  <2>3. OrphansRaced'
    BY <2>2 DEF RacedInv, OrphansRaced, There
  <2>. QED
    BY <2>1, <2>3 DEF RacedInv
<1>. QED
  BY <1>1, <1>2 DEF Step, Work

\* No bot without its node and no node without its owner is left, unless a
\* request that had found the node or the user before came after the delete.
THEOREM OrphansOnlyRaced == Spec => []OrphansRaced
<1>1. Init => RacedInv
  <2>. SUFFICES ASSUME Init PROVE RacedInv
    OBVIOUS
  <2>1. \A q \in Req : at[q] = "idle"
    BY DEF Init
  <2>2. TypesInv /\ rows = {} /\ role \in [User -> Role] /\ "gone" \notin Role
    BY TypesStart, WebAssumption DEF Init, AllRoles
  <2>3. OrphansRaced
    BY <2>2 DEF OrphansRaced, TypesInv, TypeOK
  <2>. QED
    BY <2>1, <2>3 DEF RacedInv, Found, NewNode, SyncStage
<1>2. TypesInv /\ RacedInv /\ [Next]_vars => RacedInv'
  <2>1. ASSUME TypesInv, RacedInv, Next PROVE RacedInv'
    BY <2>1, RacedStep DEF Next
  <2>2. ASSUME RacedInv, UNCHANGED vars PROVE RacedInv'
    BY <2>2 DEF RacedInv, OrphansRaced, Found, There, vars, history
  <2>. QED
    BY <2>1, <2>2
<1>3. RacedInv => OrphansRaced
  BY DEF RacedInv
<1>. QED
  BY <1>1, <1>2, <1>3, TypesInvariant, PTL DEF Spec

-----------------------------------------------------------------------------
(***************************************************************************)
(* Two rows for a bot.                                                     *)
(***************************************************************************)
\* Rows are made by two steps only, and no step changes whether nodes tell who
\* their bots are.
LEMMA WorkRows ==
  ASSUME NEW q \in Req, Work(q)
  PROVE  identifies' = identifies /\ (rows' \subseteq rows \/ create_insert(q) \/ sync_upsert(q))
<1>. DEFINE Goal == /\ identifies' = identifies
                    /\ rows' \subseteq rows \/ create_insert(q) \/ sync_upsert(q)
<1>1. ASSUME NEW u \in User, NEW n \in Node, NEW a \in Name, create_begins(q, u, n, a)
     PROVE  Goal
  BY <1>1
    DEF create_begins, Comes, Goes, R!Arrive, Visible, Active
<1>2. ASSUME create_added(q)
     PROVE  Goal
  BY <1>2
    DEF create_added, Goes, Reads, call
<1>3. ASSUME create_refused(q)
     PROVE  Goal
  BY <1>3
    DEF create_refused, Ends, Goes, Reads, Answered, R!Answer
<1>4. ASSUME create_timeout(q)
     PROVE  Goal
  BY <1>4
    DEF create_timeout, Goes, Reads, call
<1>5. ASSUME create_replace(q)
     PROVE  Goal
  BY <1>5
    DEF create_replace, Goes, call
<1>6. ASSUME create_insert(q)
     PROVE  Goal
  BY <1>6 DEF create_insert
<1>7. ASSUME node_adds(q)
     PROVE  Goal
  BY <1>7 DEF node_adds
<1>8. ASSUME database_fails(q)
     PROVE  Goal
  BY <1>8
    DEF database_fails, Ends, Goes, Reads, Answered, R!Answer, call
<1>9. ASSUME NEW u \in User, sync_begins(q, u)
     PROVE  Goal
  BY <1>9
    DEF sync_begins, Comes, Goes, call, Visible, Active
<1>10. ASSUME sync_visit(q)
     PROVE  Goal
  BY <1>10
    DEF sync_visit, Ends, Goes, Reads, call
<1>11. ASSUME sync_list(q)
     PROVE  Goal
  BY <1>11
    DEF sync_list, Goes, Reads, call
<1>12. ASSUME sync_current(q)
     PROVE  Goal
  BY <1>12
    DEF sync_current, Goes, Reads, call
<1>13. ASSUME sync_remove(q)
     PROVE  Goal
  BY <1>13
    DEF sync_remove, Goes, call
<1>14. ASSUME sync_upsert(q)
     PROVE  Goal
  BY <1>14 DEF sync_upsert
<1>15. ASSUME sync_next(q)
     PROVE  Goal
  BY <1>15
    DEF sync_next, Goes, Reads, call
<1>16. ASSUME check_begins(q)
     PROVE  Goal
  BY <1>16
    DEF check_begins, Comes, Goes, call
<1>17. ASSUME check_ask(q)
     PROVE  Goal
  BY <1>17
    DEF check_ask, Goes, Ends, Reads, call
<1>18. ASSUME check_mark(q)
     PROVE  Goal
  BY <1>18
    DEF check_mark, Goes, Ends, call
<1>19. ASSUME NEW u \in User, node_create_begins(q, u)
     PROVE  Goal
  BY <1>19
    DEF node_create_begins, Comes, Goes, call
<1>20. ASSUME NEW u \in User, NEW n \in Node, NEW to \in {"node_write", "node_drop"},
             node_begins(q, u, n, to)
     PROVE  Goal
  BY <1>20
    DEF node_begins, Comes, Goes, call, Visible
<1>21. ASSUME node_count(q)
     PROVE  Goal
  BY <1>21
    DEF node_count, Goes, Reads, call
<1>22. ASSUME node_insert(q)
     PROVE  Goal
  BY <1>22
    DEF node_insert, Ends, Goes, call
<1>23. ASSUME node_write(q)
     PROVE  Goal
  BY <1>23
    DEF node_write, Ends, Goes, call
<1>24. ASSUME node_drop(q)
     PROVE  Goal
  BY <1>24
    DEF node_drop, Ends, Goes, call, Deleted
<1>25. ASSUME NEW u \in User, NEW to \in {"user_update", "user_delete"}, user_begins(q, u, to)
     PROVE  Goal
  BY <1>25
    DEF user_begins, Comes, Goes, call
<1>26. ASSUME user_update(q)
     PROVE  Goal
  BY <1>26
    DEF user_update, Ends, Goes, call, Others
<1>27. ASSUME user_delete(q)
     PROVE  Goal
  BY <1>27
    DEF user_delete, Ends, Goes, call, Deleted, Others
<1>. QED BY Work(q), <1>1, <1>2, <1>3, <1>4, <1>5, <1>6, <1>7, <1>8, <1>9, <1>10, <1>11,
     <1>12, <1>13, <1>14, <1>15, <1>16, <1>17, <1>18, <1>19, <1>20, <1>21, <1>22,
     <1>23, <1>24, <1>25, <1>26, <1>27
    DEF Work, create, sync, check, node_request, user_request

\* Only a sync comes to the steps that follow a list.
LEMMA WorkSync ==
  ASSUME TypesInv, NEW q \in Req, Work(q), at'[q] \in Listed
  PROVE  sync_list(q) \/ sync_current(q) \/ sync_remove(q) \/ sync_upsert(q)
<1>. at \in [Req -> Stage]
  BY DEF TypesInv, TypeOK
<1>. HIDE DEF TypesInv
<1>. DEFINE Goal == sync_list(q) \/ sync_current(q) \/ sync_remove(q) \/ sync_upsert(q)
<1>1. ASSUME NEW u \in User, NEW n \in Node, NEW a \in Name, create_begins(q, u, n, a)
     PROVE  Goal
  BY <1>1
    DEF create_begins, Comes, Goes, R!Arrive, Visible, Active, Listed
<1>2. ASSUME create_added(q)
     PROVE  Goal
  BY <1>2
    DEF create_added, Goes, Reads, call, Listed
<1>3. ASSUME create_refused(q)
     PROVE  Goal
  BY <1>3
    DEF create_refused, Ends, Goes, Reads, Answered, R!Answer, Listed
<1>4. ASSUME create_timeout(q)
     PROVE  Goal
  BY <1>4
    DEF create_timeout, Goes, Reads, call, Listed
<1>5. ASSUME create_replace(q)
     PROVE  Goal
  BY <1>5
    DEF create_replace, Goes, call, Listed
<1>6. ASSUME create_insert(q)
     PROVE  Goal
  BY <1>6
    DEF create_insert, Ends, Goes, Answered, R!Answer, Listed
<1>7. ASSUME node_adds(q)
     PROVE  Goal
  BY <1>7 DEF node_adds, Listed
<1>8. ASSUME database_fails(q)
     PROVE  Goal
  BY <1>8
    DEF database_fails, Ends, Goes, Reads, Answered, R!Answer, call, Listed
<1>9. ASSUME NEW u \in User, sync_begins(q, u)
     PROVE  Goal
  BY <1>9
    DEF sync_begins, Comes, Goes, call, Visible, Active, Listed
<1>10. ASSUME sync_visit(q)
     PROVE  Goal
  BY <1>10
    DEF sync_visit, Ends, Goes, Reads, call, Listed
<1>11. ASSUME sync_list(q)
     PROVE  Goal
  BY <1>11
<1>12. ASSUME sync_current(q)
     PROVE  Goal
  BY <1>12
<1>13. ASSUME sync_remove(q)
     PROVE  Goal
  BY <1>13
<1>14. ASSUME sync_upsert(q)
     PROVE  Goal
  BY <1>14
<1>15. ASSUME sync_next(q)
     PROVE  Goal
  BY <1>15
    DEF sync_next, Goes, Reads, call, Listed
<1>16. ASSUME check_begins(q)
     PROVE  Goal
  BY <1>16
    DEF check_begins, Comes, Goes, call, Listed
<1>17. ASSUME check_ask(q)
     PROVE  Goal
  BY <1>17
    DEF check_ask, Goes, Ends, Reads, call, Listed
<1>18. ASSUME check_mark(q)
     PROVE  Goal
  BY <1>18
    DEF check_mark, Goes, Ends, call, Listed
<1>19. ASSUME NEW u \in User, node_create_begins(q, u)
     PROVE  Goal
  BY <1>19
    DEF node_create_begins, Comes, Goes, call, Listed
<1>20. ASSUME NEW u \in User, NEW n \in Node, NEW to \in {"node_write", "node_drop"},
             node_begins(q, u, n, to)
     PROVE  Goal
  BY <1>20
    DEF node_begins, Comes, Goes, call, Visible, Listed
<1>21. ASSUME node_count(q)
     PROVE  Goal
  BY <1>21
    DEF node_count, Goes, Reads, call, Listed
<1>22. ASSUME node_insert(q)
     PROVE  Goal
  BY <1>22
    DEF node_insert, Ends, Goes, call, Listed
<1>23. ASSUME node_write(q)
     PROVE  Goal
  BY <1>23
    DEF node_write, Ends, Goes, call, Listed
<1>24. ASSUME node_drop(q)
     PROVE  Goal
  BY <1>24
    DEF node_drop, Ends, Goes, call, Deleted, Listed
<1>25. ASSUME NEW u \in User, NEW to \in {"user_update", "user_delete"}, user_begins(q, u, to)
     PROVE  Goal
  BY <1>25
    DEF user_begins, Comes, Goes, call, Listed
<1>26. ASSUME user_update(q)
     PROVE  Goal
  BY <1>26
    DEF user_update, Ends, Goes, call, Others, Listed
<1>27. ASSUME user_delete(q)
     PROVE  Goal
  BY <1>27
    DEF user_delete, Ends, Goes, call, Deleted, Others, Listed
<1>. QED BY Work(q), <1>1, <1>2, <1>3, <1>4, <1>5, <1>6, <1>7, <1>8, <1>9, <1>10, <1>11,
     <1>12, <1>13, <1>14, <1>15, <1>16, <1>17, <1>18, <1>19, <1>20, <1>21, <1>22,
     <1>23, <1>24, <1>25, <1>26, <1>27
    DEF Work, create, sync, check, node_request, user_request

\* What a node does with an add: it takes a name that is new, and says so.
LEMMA Added ==
  ASSUME TypesInv, NEW q \in Req, node_adds(q)
  PROVE  /\ my[q].node \in Node /\ arg[q] \in Name /\ UNCHANGED <<at, my, rows, op, arg>>
         /\ url' = url
         /\ Peer(q) \in Process =>
              /\ pool' = [pool EXCEPT ![Peer(q)] = @ \cup {arg[q]}]
              /\ stage'[q] = "found" => arg[q] \notin pool[Peer(q)]
<1>1. at[q] \in Adding /\ Holds(q)
  BY DEF node_adds, Adding, TypesInv
<1>2. my[q].node \in Node /\ arg[q] \in Name /\ op[q] = "add"
  BY <1>1 DEF Holds
<1>3. stage \in [Req -> {"done", "called", "found", "refused"}] /\ pool \in [Process -> SUBSET Name]
  BY DEF TypesInv, TypeOK, CallTypes
<1>4. UNCHANGED <<at, my, rows, op, arg, url>>
  BY DEF node_adds, R!Act
<1>5. ASSUME Peer(q) \in Process
      PROVE  /\ pool' = [pool EXCEPT ![Peer(q)] = @ \cup {arg[q]}]
             /\ stage'[q] = "found" => arg[q] \notin pool[Peer(q)]
  <2>1. pool'[Peer(q)] = pool[Peer(q)] \cup {arg[q]}
    BY <1>2, <1>5 DEF node_adds, R!Act
  <2>2. pool' = [pool EXCEPT ![Peer(q)] = @ \cup {arg[q]}]
    BY <1>3, <1>5, <2>1 DEF node_adds
  <2>3. stage'[q] = "found" => arg[q] \notin pool[Peer(q)]
    BY <1>2, <1>3, <1>5 DEF node_adds, R!Act
  <2>. QED
    BY <2>2, <2>3
<1>. QED
  BY <1>2, <1>4, <1>5

\* Nothing else fills a pool, or turns the answer of an add into success; a
\* request keeps the address it has read.
LEMMA WorkFound ==
  ASSUME TypesInv, NEW q \in Req, Work(q), ~node_adds(q)
  PROVE  /\ pool' = pool
         /\ stage'[q] = "found" =>
              stage[q] = "found" /\ arg'[q] = arg[q] /\ my'[q].node = my[q].node
         /\ at'[q] \in Adding =>
              \/ at[q] \in Adding /\ my'[q] = my[q]
              \/ Peer(q)' = url'[my'[q].node]
<1>. at \in [Req -> Stage] /\ my \in [Req -> Local]
  BY DEF TypesInv, TypeOK
<1>. CallTypes /\ Holds(q)
  BY DEF TypesInv
<1>. HIDE DEF TypesInv
<1>. DEFINE Goal == /\ pool' = pool
                    /\ stage'[q] = "found" =>
                         stage[q] = "found" /\ arg'[q] = arg[q] /\ my'[q].node = my[q].node
                    /\ at'[q] \in Adding =>
                         \/ at[q] \in Adding /\ my'[q] = my[q]
                         \/ Peer(q)' = url'[my'[q].node]
<1>1. ASSUME NEW u \in User, NEW n \in Node, NEW a \in Name, create_begins(q, u, n, a)
     PROVE  Goal
  BY <1>1
    DEF create_begins, Comes, Goes, R!Arrive, Visible, Active, CallTypes, Holds,
       Adding, SyncStage, Addresses, Peer, Local, Fresh
<1>2. ASSUME create_added(q)
     PROVE  Goal
  BY <1>2
    DEF create_added, Goes, Reads, call, CallTypes, Holds, Adding, SyncStage
<1>3. ASSUME create_refused(q)
     PROVE  Goal
  BY <1>3
    DEF create_refused, Ends, Goes, Reads, Answered, R!Answer, CallTypes, Holds,
       Adding, SyncStage
<1>4. ASSUME create_timeout(q)
     PROVE  Goal
  BY <1>4
    DEF create_timeout, Goes, Reads, call, CallTypes, Holds, Adding, SyncStage
<1>5. ASSUME create_replace(q)
     PROVE  Goal
  BY <1>5
    DEF create_replace, Goes, call, CallTypes, Holds, Adding, SyncStage
<1>6. ASSUME create_insert(q)
     PROVE  Goal
  BY <1>6
    DEF create_insert, Ends, Goes, Answered, R!Answer, CallTypes, Holds, Adding,
       SyncStage
<1>7. ASSUME node_adds(q)
     PROVE  Goal
  BY <1>7
<1>8. ASSUME database_fails(q)
     PROVE  Goal
  BY <1>8
    DEF database_fails, Ends, Goes, Reads, Answered, R!Answer, call, CallTypes,
       Holds, Adding, SyncStage
<1>9. ASSUME NEW u \in User, sync_begins(q, u)
     PROVE  Goal
  BY <1>9
    DEF sync_begins, Comes, Goes, call, Visible, Active, CallTypes, Holds, Adding,
       SyncStage
<1>10. ASSUME sync_visit(q)
     PROVE  Goal
  BY <1>10
    DEF sync_visit, Ends, Goes, Reads, call, CallTypes, Holds, Adding, SyncStage
<1>11. ASSUME sync_list(q)
     PROVE  Goal
  BY <1>11
    DEF sync_list, Goes, Reads, call, CallTypes, Holds, Adding, SyncStage
<1>12. ASSUME sync_current(q)
     PROVE  Goal
  BY <1>12
    DEF sync_current, Goes, Reads, call, CallTypes, Holds, Adding, SyncStage
<1>13. ASSUME sync_remove(q)
     PROVE  Goal
  BY <1>13
    DEF sync_remove, Goes, call, CallTypes, Holds, Adding, SyncStage
<1>14. ASSUME sync_upsert(q)
     PROVE  Goal
  BY <1>14
    DEF sync_upsert, Goes, call, CallTypes, Holds, Adding, SyncStage
<1>15. ASSUME sync_next(q)
     PROVE  Goal
  BY <1>15
    DEF sync_next, Goes, Reads, call, CallTypes, Holds, Adding, SyncStage
<1>16. ASSUME check_begins(q)
     PROVE  Goal
  BY <1>16
    DEF check_begins, Comes, Goes, call, CallTypes, Holds, Adding, SyncStage
<1>17. ASSUME check_ask(q)
     PROVE  Goal
  BY <1>17
    DEF check_ask, Goes, Ends, Reads, call, CallTypes, Holds, Adding, SyncStage
<1>18. ASSUME check_mark(q)
     PROVE  Goal
  BY <1>18
    DEF check_mark, Goes, Ends, call, CallTypes, Holds, Adding, SyncStage
<1>19. ASSUME NEW u \in User, node_create_begins(q, u)
     PROVE  Goal
  BY <1>19
    DEF node_create_begins, Comes, Goes, call, CallTypes, Holds, Adding, SyncStage
<1>20. ASSUME NEW u \in User, NEW n \in Node, NEW to \in {"node_write", "node_drop"},
             node_begins(q, u, n, to)
     PROVE  Goal
  BY <1>20
    DEF node_begins, Comes, Goes, call, Visible, CallTypes, Holds, Adding, SyncStage
<1>21. ASSUME node_count(q)
     PROVE  Goal
  BY <1>21
    DEF node_count, Goes, Reads, call, CallTypes, Holds, Adding, SyncStage
<1>22. ASSUME node_insert(q)
     PROVE  Goal
  BY <1>22
    DEF node_insert, Ends, Goes, call, CallTypes, Holds, Adding, SyncStage
<1>23. ASSUME node_write(q)
     PROVE  Goal
  BY <1>23
    DEF node_write, Ends, Goes, call, CallTypes, Holds, Adding, SyncStage
<1>24. ASSUME node_drop(q)
     PROVE  Goal
  BY <1>24
    DEF node_drop, Ends, Goes, call, Deleted, CallTypes, Holds, Adding, SyncStage
<1>25. ASSUME NEW u \in User, NEW to \in {"user_update", "user_delete"}, user_begins(q, u, to)
     PROVE  Goal
  BY <1>25
    DEF user_begins, Comes, Goes, call, CallTypes, Holds, Adding, SyncStage
<1>26. ASSUME user_update(q)
     PROVE  Goal
  BY <1>26
    DEF user_update, Ends, Goes, call, Others, CallTypes, Holds, Adding, SyncStage
<1>27. ASSUME user_delete(q)
     PROVE  Goal
  BY <1>27
    DEF user_delete, Ends, Goes, call, Deleted, Others, CallTypes, Holds, Adding,
       SyncStage
<1>. QED BY Work(q), <1>1, <1>2, <1>3, <1>4, <1>5, <1>6, <1>7, <1>8, <1>9, <1>10, <1>11,
     <1>12, <1>13, <1>14, <1>15, <1>16, <1>17, <1>18, <1>19, <1>20, <1>21, <1>22,
     <1>23, <1>24, <1>25, <1>26, <1>27
    DEF Work, create, sync, check, node_request, user_request

\* A row made for a node that tells who its bots are has the name as clientId.
LEMMA ToldStep ==
  ASSUME TypesInv, Told, Step PROVE Told'
<1>1. ASSUME NEW q \in Req, Work(q) PROVE Told'
  <2>1. CASE create_insert(q)
    BY <2>1 DEF create_insert, Told
  <2>2. CASE sync_upsert(q)
    BY <2>2 DEF sync_upsert, Told
  <2>3. CASE rows' \subseteq rows /\ identifies' = identifies
    BY <2>3 DEF Told
  <2>. QED
    BY <1>1, <2>1, <2>2, <2>3, WorkRows
<1>2. ASSUME NEW m \in Process, pool_changes(m) PROVE Told'
  BY <1>2 DEF pool_changes, Told
<1>. QED
  BY <1>1, <1>2 DEF Step, Work

\* A node's address is changed and a bot leaves it only if that is remembered.
LEMMA UntoldKeeps ==
  ASSUME TypesInv, Remembered
  PROVE  /\ lost \subseteq lost'
         /\ \A m \in Node : Elsewhere(m) => Elsewhere(m)'
         /\ \A m \in Node : url'[m] = url[m] \/ Elsewhere(m)'
         /\ \A m \in Node, a \in Name :
              a \in pool[url[m]] => a \in pool'[url'[m]] \/ <<m, a>> \in lost'
<1>1. lost \subseteq lost'
  BY DEF Remembered
<1>2. ASSUME NEW m \in Node, NEW a \in Name, url'[m] # url[m] PROVE <<m, a>> \in lost'
  BY <1>2 DEF Remembered
<1>3. ASSUME NEW m \in Node, NEW a \in Name, a \in pool[url[m]] \ pool'[url[m]]
      PROVE  <<m, a>> \in lost'
  BY <1>3 DEF Remembered
<1>. QED
  BY <1>1, <1>2, <1>3 DEF Elsewhere

\* The process adds a name: whoever was told so for the same name before was told
\* so of a bot that has left.
LEMMA UntoldAdds ==
  ASSUME TypesInv, UntoldParts, RowsDistinct, NEW q \in Req, node_adds(q), Remembered
  PROVE  UntoldParts' /\ RowsDistinct'
<1>. DEFINE n == my[q].node
<1>1. /\ n \in Node /\ arg[q] \in Name /\ UNCHANGED <<at, my, rows, op, arg, url>>
      /\ Peer(q) \in Process =>
           /\ pool' = [pool EXCEPT ![Peer(q)] = @ \cup {arg[q]}]
           /\ stage'[q] = "found" => arg[q] \notin pool[Peer(q)]
  BY Added
<1>2. /\ lost \subseteq lost' /\ rows \subseteq Row
      /\ url \in [Node -> Process] /\ pool \in [Process -> SUBSET Name]
  BY DEF Remembered, TypesInv, TypeOK
<1>3. \A p \in Req : p # q => stage'[p] = stage[p]
  BY WorkAlone DEF Alone, Work
<1>4. \A m \in Node, a \in Name : a \in pool[url[m]] => a \in pool'[url'[m]] \/ <<m, a>> \in lost'
  BY UntoldKeeps
<1>5. Peer(q) = url[n] \/ <<n, arg[q]>> \in lost
  <2>1. at[q] \in Adding
    BY DEF node_adds, Adding
  <2>. QED
    BY <1>1, <2>1 DEF UntoldParts, Elsewhere
<1>6. \A p \in Req : stage[p] = "found" => my[p].node \in Node /\ arg[p] \in Name
  BY DEF TypesInv, Holds
<1>. HIDE DEF n
<1>7. \A p \in Req : at'[p] \notin Listed
  BY <1>1 DEF UntoldParts
<1>a. arg[q] \in pool'[url[n]] \/ <<n, arg[q]>> \in lost
  BY <1>1, <1>2, <1>5
<1>b. stage'[q] = "found" => arg[q] \notin pool[url[n]] \/ <<n, arg[q]>> \in lost
  BY <1>1, <1>2, <1>5
<1>8. \A r \in rows' : r.name \in pool'[url'[r.node]] \/ <<r.node, r.name>> \in lost'
  BY <1>1, <1>2, <1>4 DEF UntoldParts, Row
<1>9. ASSUME NEW p \in Req, stage'[p] = "found"
      PROVE  arg'[p] \in pool'[url'[my'[p].node]] \/ <<my'[p].node, arg'[p]>> \in lost'
  <2>1. CASE p = q
    BY <1>1, <1>2, <1>a, <2>1 DEF n
  <2>2. CASE p # q
    BY <1>1, <1>2, <1>3, <1>4, <1>6, <1>9, <2>2 DEF UntoldParts
  <2>. QED
    BY <2>1, <2>2
<1>10. ASSUME NEW p \in Req, p # q, stage'[p] = "found", stage'[q] = "found",
              my[p].node = n, arg[p] = arg[q]
       PROVE  <<n, arg[q]>> \in lost
  BY <1>1, <1>3, <1>b, <1>10 DEF UntoldParts
<1>11. ASSUME NEW p1 \in Req, NEW p2 \in Req, stage'[p1] = "found", stage'[p2] = "found",
              p1 # p2, my'[p1].node = my'[p2].node, arg'[p1] = arg'[p2]
       PROVE  <<my'[p1].node, arg'[p1]>> \in lost'
  <2>1. CASE p1 = q
    BY <1>1, <1>2, <1>10, <1>11, <2>1 DEF n
  <2>2. CASE p2 = q
    BY <1>1, <1>2, <1>10, <1>11, <2>2 DEF n
  <2>3. CASE p1 # q /\ p2 # q
    BY <1>1, <1>2, <1>3, <1>11, <2>3 DEF UntoldParts
  <2>. QED
    BY <2>1, <2>2, <2>3
<1>12. ASSUME NEW p \in Req, NEW r \in rows', stage'[p] = "found", r.node = my'[p].node,
              r.name = arg'[p]
       PROVE  <<my'[p].node, arg'[p]>> \in lost'
  <2>1. CASE p = q
    BY <1>1, <1>2, <1>b, <1>12, <2>1 DEF n, UntoldParts
  <2>2. CASE p # q
    BY <1>1, <1>2, <1>3, <1>12, <2>2 DEF UntoldParts
  <2>. QED
    BY <2>1, <2>2
<1>13. RowsDistinct'
  BY <1>1, <1>2 DEF RowsDistinct
<1>c. \A p \in Req : at'[p] \in Adding => Peer(p)' = url'[my'[p].node] \/ Elsewhere(my[p].node)'
  BY <1>1, <1>2 DEF UntoldParts, Peer, Elsewhere
<1>14. UntoldParts'
  BY <1>7, <1>8, <1>9, <1>11, <1>12, <1>c DEF UntoldParts
<1>. QED
  BY <1>13, <1>14

\* The row is made: it is the only one for the bot, unless that has left.
LEMMA UntoldInserts ==
  ASSUME TypesInv, UntoldParts, RowsDistinct, NEW q \in Req, create_insert(q), Remembered
  PROVE  UntoldParts' /\ RowsDistinct'
<1>1. PICK client :
        rows' = rows \cup {[client |-> client, name |-> arg[q], node |-> my[q].node]}
  BY DEF create_insert
<1>. DEFINE row == [client |-> client, name |-> arg[q], node |-> my[q].node]
<1>2. row.name = arg[q] /\ row.node = my[q].node
  OBVIOUS
<1>. HIDE DEF row
<1>3. rows' = rows \cup {row}
  BY <1>1 DEF row
<1>4. pool' = pool /\ url' = url /\ stage[q] = "found" /\ stage'[q] = "done" /\ at'[q] = "idle"
  BY DEF create_insert, Ends, Goes, Answered, R!Answer, TypesInv, TypeOK, CallTypes, Holds
<1>5. lost \subseteq lost' /\ Alone(q)
  BY WorkAlone DEF Remembered, Work, create
<1>6. \A p \in Req : stage'[p] = "found" =>
        p # q /\ stage[p] = "found" /\ arg'[p] = arg[p] /\ my'[p] = my[p]
  BY <1>4, <1>5 DEF Alone
<1>7. \A p \in Req : at'[p] \notin Listed
  BY <1>4, <1>5 DEF UntoldParts, Alone, Listed
<1>8. \A r \in rows' : r.name \in pool'[url'[r.node]] \/ <<r.node, r.name>> \in lost'
  BY <1>2, <1>3, <1>4, <1>5 DEF UntoldParts
<1>9. \A p \in Req : stage'[p] = "found" =>
        arg'[p] \in pool'[url'[my'[p].node]] \/ <<my'[p].node, arg'[p]>> \in lost'
  BY <1>4, <1>5, <1>6 DEF UntoldParts
<1>10. \A p1, p2 \in Req : stage'[p1] = "found" /\ stage'[p2] = "found" /\ p1 # p2
         /\ my'[p1].node = my'[p2].node /\ arg'[p1] = arg'[p2]
         => <<my'[p1].node, arg'[p1]>> \in lost'
  BY <1>5, <1>6 DEF UntoldParts
<1>11. ASSUME NEW p \in Req, NEW r \in rows', stage'[p] = "found", r.node = my'[p].node,
              r.name = arg'[p]
       PROVE  <<my'[p].node, arg'[p]>> \in lost'
  <2>1. CASE r \in rows
    BY <1>5, <1>6, <1>11, <2>1 DEF UntoldParts
  <2>2. CASE r = row
    <3>1. p # q /\ stage[p] = "found" /\ my[p].node = my[q].node /\ arg[p] = arg[q]
      BY <1>2, <1>6, <1>11, <2>2
    <3>2. <<my[p].node, arg[p]>> \in lost
      BY <1>4, <3>1 DEF UntoldParts
    <3>. QED
      BY <1>5, <1>6, <1>11, <3>2
  <2>. QED
    BY <1>3, <2>1, <2>2
<1>a. \A p \in Req : at'[p] \in Adding => Peer(p)' = url'[my'[p].node] \/ Elsewhere(my[p].node)'
  BY <1>4, <1>5 DEF UntoldParts, Alone, Adding, Peer, Elsewhere
<1>12. UntoldParts'
  BY <1>7, <1>8, <1>9, <1>10, <1>11, <1>a DEF UntoldParts
<1>13. \A r \in rows : r.node = my[q].node /\ r.name = arg[q] => <<r.node, r.name>> \in lost
  BY <1>4 DEF UntoldParts
<1>14. RowsDistinct'
  BY <1>2, <1>3, <1>5, <1>13 DEF RowsDistinct
<1>. QED
  BY <1>12, <1>14

\* No other work makes rows here, since no sync comes so far.
LEMMA UntoldWork ==
  ASSUME TypesInv, UntoldParts, RowsDistinct, ~identifies, NEW q \in Req, Work(q), Remembered
  PROVE  UntoldParts' /\ RowsDistinct'
<1>1. CASE node_adds(q)
  BY <1>1, UntoldAdds
<1>2. CASE create_insert(q)
  BY <1>2, UntoldInserts
<1>3. CASE ~node_adds(q) /\ ~create_insert(q)
  <2>1. ~sync_list(q) /\ ~sync_current(q) /\ ~sync_remove(q) /\ ~sync_upsert(q)
    BY DEF sync_list, sync_current, sync_remove, sync_upsert, Goes, UntoldParts, Listed
  <2>2. rows' \subseteq rows /\ at'[q] \notin Listed
    BY <1>3, <2>1, WorkRows, WorkSync
  <2>3. pool' = pool /\ lost \subseteq lost' /\ Alone(q)
    BY <1>3, WorkFound, WorkAlone DEF Remembered
  <2>4. \A p \in Req : stage'[p] = "found" =>
          stage[p] = "found" /\ arg'[p] = arg[p] /\ my'[p].node = my[p].node
    BY <1>3, <2>3, WorkFound DEF Alone
  <2>5. \A p \in Req : at'[p] \notin Listed
    BY <2>2, <2>3 DEF UntoldParts, Alone
  <2>6. UntoldParts'
    <3>1. /\ \A m \in Node : (Elsewhere(m) => Elsewhere(m)') /\ (url'[m] = url[m] \/ Elsewhere(m)')
          /\ \A m \in Node, a \in Name :
               a \in pool[url[m]] => a \in pool'[url'[m]] \/ <<m, a>> \in lost'
      BY UntoldKeeps
    <3>2. rows \subseteq Row /\ \A p \in Req : Holds(p)
      BY DEF TypesInv, TypeOK
    <3>3. \A p \in Req : at[p] \in Adding => my[p].node \in Node /\ arg[p] \in Name
      BY <3>2 DEF Holds
    <3>4. \A p \in Req : stage[p] = "found" => my[p].node \in Node /\ arg[p] \in Name
      BY <3>2 DEF Holds
    <3>5. \A r \in rows' : r.name \in pool'[url'[r.node]] \/ <<r.node, r.name>> \in lost'
      BY <2>2, <2>3, <3>1, <3>2 DEF UntoldParts, Row
    <3>6. \A p \in Req : stage'[p] = "found" =>
            arg'[p] \in pool'[url'[my'[p].node]] \/ <<my'[p].node, arg'[p]>> \in lost'
      BY <2>3, <2>4, <3>1, <3>4 DEF UntoldParts
    <3>7. ASSUME NEW p \in Req, at'[p] \in Adding
          PROVE  Peer(p)' = url'[my'[p].node] \/ Elsewhere(my[p].node)'
      <4>1. CASE at[p] \in Adding /\ my'[p] = my[p]
        BY <3>1, <3>3, <4>1 DEF UntoldParts, Peer
      <4>2. CASE Peer(p)' = url'[my'[p].node]
        BY <4>2
      <4>3. \/ at[p] \in Adding /\ my'[p] = my[p]
            \/ Peer(p)' = url'[my'[p].node]
        BY <1>3, <2>3, <3>7, WorkFound DEF Alone
      <4>. QED
        BY <4>1, <4>2, <4>3
    <3>8. /\ \A p1, p2 \in Req : stage'[p1] = "found" /\ stage'[p2] = "found" /\ p1 # p2
               /\ my'[p1].node = my'[p2].node /\ arg'[p1] = arg'[p2]
               => <<my'[p1].node, arg'[p1]>> \in lost'
          /\ \A p \in Req, r \in rows' : stage'[p] = "found" /\ r.node = my'[p].node
               /\ r.name = arg'[p] => <<my'[p].node, arg'[p]>> \in lost'
      BY <2>2, <2>3, <2>4 DEF UntoldParts
    <3>. QED
      BY <2>5, <3>5, <3>6, <3>7, <3>8 DEF UntoldParts
  <2>7. RowsDistinct'
    BY <2>2, <2>3 DEF RowsDistinct
  <2>. QED
    BY <2>6, <2>7
<1>. QED
  BY <1>1, <1>2, <1>3

\* A bot that leaves the process is remembered.
LEMMA UntoldPool ==
  ASSUME TypesInv, UntoldParts, RowsDistinct, NEW m \in Process, pool_changes(m), Remembered
  PROVE  UntoldParts' /\ RowsDistinct'
<1>1. rows' = rows /\ url' = url /\ lost \subseteq lost' /\ rows \subseteq Row
  BY DEF pool_changes, Remembered, TypesInv, TypeOK
<1>2. \A n \in Node, a \in Name : a \in pool[url[n]] => a \in pool'[url'[n]] \/ <<n, a>> \in lost'
  BY UntoldKeeps
<1>3. \A p \in Req : stage'[p] = "found" =>
        /\ stage[p] = "found" /\ arg'[p] = arg[p] /\ my'[p] = my[p]
        /\ my[p].node \in Node /\ arg[p] \in Name
  BY DEF pool_changes, call, TypesInv, Holds
<1>4. \A p \in Req : at'[p] \notin Listed
  BY DEF pool_changes, UntoldParts, Listed
<1>5. \A r \in rows' : r.name \in pool'[url'[r.node]] \/ <<r.node, r.name>> \in lost'
  BY <1>1, <1>2 DEF UntoldParts, Row
<1>6. \A p \in Req : stage'[p] = "found" =>
        arg'[p] \in pool'[url'[my'[p].node]] \/ <<my'[p].node, arg'[p]>> \in lost'
  BY <1>1, <1>2, <1>3 DEF UntoldParts
<1>7. \A p \in Req : at'[p] \in Adding => at[p] \in Adding /\ my'[p] = my[p]
  BY DEF pool_changes, Adding
<1>8. \A p \in Req : at'[p] \in Adding => Peer(p)' = url'[my'[p].node] \/ Elsewhere(my[p].node)'
  BY <1>1, <1>7 DEF UntoldParts, Peer, Elsewhere
<1>9. UntoldParts'
  BY <1>1, <1>3, <1>4, <1>5, <1>6, <1>8 DEF UntoldParts
<1>10. RowsDistinct'
  BY <1>1 DEF RowsDistinct
<1>. QED
  BY <1>9, <1>10

\* Whatever requests overlap, time out and are tried again, and whatever the
\* processes do, a bot has two rows of a node only if it left its process in
\* between or the node was given the address of another one.
THEOREM RowsStayDistinct == Spec => []RowsDistinct
<1>1. Init => Told /\ Untold
  <2>. SUFFICES ASSUME Init PROVE Told /\ Untold
    OBVIOUS
  <2>1. rows = {} /\ \A q \in Req : at[q] = "idle" /\ stage[q] = "done"
    BY DEF Init
  <2>. QED
    BY <2>1 DEF Told, Untold, UntoldParts, RowsDistinct, Listed, Adding
<1>2. TypesInv /\ Told /\ Untold /\ [Next]_vars => Told' /\ Untold'
  <2>1. ASSUME TypesInv, Told, Untold, Next PROVE Told' /\ Untold'
    <3>1. identifies' = identifies
      BY <2>1, WorkRows DEF Next, Step, Work, pool_changes
    <3>2. ~identifies => UntoldParts' /\ RowsDistinct'
      BY <2>1, UntoldWork, UntoldPool DEF Next, Step, Work, Untold
    <3>. QED
      BY <2>1, <3>1, <3>2, ToldStep DEF Next, Untold
  <2>2. ASSUME Told, Untold, UNCHANGED vars PROVE Told' /\ Untold'
    BY <2>2 DEF Told, Untold, UntoldParts, RowsDistinct, Peer, Elsewhere, vars, call, history
  <2>. QED
    BY <2>1, <2>2
<1>3. TypesInv /\ Told /\ Untold => RowsDistinct
  BY DEF TypesInv, TypeOK, Told, Untold, RowsDistinct
<1>. QED
  BY <1>1, <1>2, <1>3, TypesInvariant, PTL DEF Spec

-----------------------------------------------------------------------------
(***************************************************************************)
(* What a sync leaves.                                                     *)
(***************************************************************************)
\* What a sync that is on its own comes to know by its own steps.
LEMMA SyncWork ==
  ASSUME TypesInv, NEW q \in Req, Work(q), at'[q] \in Listed, at[q] = "list" \/ Synced(q)
  PROVE  Synced(q)'
<1>. /\ at \in [Req -> Stage] /\ my \in [Req -> Local] /\ pool \in [Process -> SUBSET Name]
     /\ rows \subseteq Row /\ Holds(q)
  BY DEF TypesInv, TypeOK
<1>. DEFINE n == my[q].node
            p == Peer(q)
<1>1. CASE sync_list(q)
  <2>1. /\ identifies' /\ at'[q] = "current" /\ pool' = pool
        /\ my'[q].node = n /\ Peer(q)' = p /\ my'[q].seen = pool[p]
    BY <1>1 DEF sync_list, Goes, Reads, Local, Peer
  <2>. QED
    BY <2>1 DEF Synced, Listed
<1>2. CASE sync_current(q)
  <2>1. at[q] = "current" /\ at'[q] = "remove" /\ UNCHANGED <<pool, rows, identifies>>
    BY <1>2 DEF sync_current, Goes, Reads
  <2>2. /\ my'[q].node = n /\ Peer(q)' = p /\ my'[q].seen = my[q].seen
        /\ my'[q].gone = {r.client : r \in RowsOf(n)} \ my[q].seen
    BY <1>2 DEF sync_current, Local, Peer
  <2>3. identifies /\ my[q].seen = pool[p]
    BY <2>1 DEF Synced
  <2>4. RowsOf(n)' = RowsOf(n)
    BY <2>1, <2>2 DEF RowsOf
  <2>. QED
    BY <2>1, <2>2, <2>3, <2>4 DEF Synced, Listed, RowsOf
<1>3. CASE sync_remove(q)
  <2>1. at[q] = "remove" /\ at'[q] = "upsert" /\ UNCHANGED <<pool, identifies>>
    BY <1>3 DEF sync_remove, Goes
  <2>2. /\ my'[q].node = n /\ Peer(q)' = p /\ my'[q].seen = my[q].seen
        /\ rows' = {r \in rows : r.node # n \/ r.client \notin my[q].gone}
    BY <1>3 DEF sync_remove, Local, Peer
  <2>3. /\ identifies /\ my[q].seen = pool[p]
        /\ my[q].gone = {r.client : r \in RowsOf(n)} \ my[q].seen
    BY <2>1 DEF Synced
  <2>4. \A r \in rows' : r.node = n => r.client \in pool[p]
    BY <2>2, <2>3 DEF RowsOf
  <2>5. identifies' /\ at'[q] \in Listed /\ my'[q].seen = pool'[Peer(q)']
    BY <2>1, <2>2, <2>3 DEF Listed
  <2>6. \A r \in rows' : r.node = my'[q].node => r.client \in pool'[Peer(q)']
    BY <2>1, <2>2, <2>4
  <2>. QED
    BY <2>1, <2>5, <2>6 DEF Synced
<1>4. CASE sync_upsert(q)
  <2>1. at[q] = "upsert" /\ at'[q] = "upsert" /\ UNCHANGED <<pool, identifies>>
    BY <1>4 DEF sync_upsert, Goes
  <2>2. PICK a \in my[q].seen :
          /\ rows' = IF a \in Clients THEN rows
                     ELSE rows \cup {[client |-> a, name |-> a, node |-> n]}
          /\ my' = [my EXCEPT ![q].seen = @ \ {a}]
    BY <1>4 DEF sync_upsert
  <2>3. my'[q].node = n /\ Peer(q)' = p /\ my'[q].seen = my[q].seen \ {a}
    BY <2>2 DEF Local, Peer
  <2>4. /\ identifies /\ my[q].seen \subseteq pool[p]
        /\ \A r \in rows : r.node = n => r.client \in pool[p]
        /\ \A b \in pool[p] \ my[q].seen : b \in Clients
    BY <2>1 DEF Synced
  <2>5. \A r \in rows' : r.node = n => r.client \in pool[p]
    BY <2>2, <2>4
  <2>6. a \in Clients' /\ Clients \subseteq Clients'
    <3>1. CASE a \in Clients
      BY <2>2, <3>1 DEF Clients
    <3>2. CASE a \notin Clients
      <4>. DEFINE row == [client |-> a, name |-> a, node |-> n]
      <4>1. row.client = a /\ row \in rows' /\ rows \subseteq rows'
        BY <2>2, <3>2
      <4>. HIDE DEF row
      <4>. QED
        BY <4>1 DEF Clients
    <3>. QED
      BY <3>1, <3>2
  <2>7. \A b \in pool[p] \ my'[q].seen : b \in Clients'
    BY <2>3, <2>4, <2>6
  <2>. HIDE DEF n, p
  <2>8. my'[q].node = n /\ Peer(q)' = p
    BY <2>3
  <2>. QED
    BY <2>1, <2>3, <2>4, <2>5, <2>7, <2>8 DEF Synced, Listed
<1>. QED
  BY <1>1, <1>2, <1>3, <1>4, WorkSync

\* Nobody but the sync itself has moved it or changed what it relies on.
LEMMA SyncStep ==
  ASSUME TypesInv, SyncInv, Step, Remembered PROVE SyncInv'
<1>. SUFFICES ASSUME NEW q \in Req, q \in quiet' PROVE Synced(q)'
  BY DEF SyncInv, Remembered
<1>1. /\ at'[q] \in Listed
      /\ at[q] = "list" \/ (q \in quiet /\ (Moved(q) \/ (pool' = pool /\ rows' = rows)))
  <2>1. /\ at'[q] \in SyncStage \ {"list"}
        /\ at[q] = "list" \/ (q \in quiet /\ (Moved(q) \/ (pool' = pool /\ rows' = rows)))
    BY DEF Remembered
  <2>. QED
    BY <2>1 DEF SyncStage, Listed
<1>2. q \in quiet => Synced(q)
  BY DEF SyncInv
<1>3. CASE Work(q)
  BY <1>1, <1>2, <1>3, SyncWork
<1>4. CASE at'[q] = at[q] /\ my'[q] = my[q] /\ identifies' = identifies
  <2>1. q \in quiet /\ pool' = pool /\ rows' = rows
    BY <1>1, <1>4 DEF Moved, Listed
  <2>. QED
    BY <1>2, <1>4, <2>1 DEF Synced, RowsOf, Clients, Peer
<1>5. ASSUME NEW p \in Req, p # q, Work(p) PROVE Synced(q)'
  BY <1>4, <1>5, WorkAlone, WorkRows DEF Alone
<1>6. ASSUME NEW m \in Process, pool_changes(m) PROVE Synced(q)'
  <2>1. at'[q] # "idle"
    BY <1>1 DEF Listed
  <2>2. at'[q] = at[q] /\ my'[q] = my[q] /\ identifies' = identifies
    BY <1>6, <2>1 DEF pool_changes
  <2>. QED
    BY <1>4, <2>2
<1>. QED
  BY <1>3, <1>5, <1>6 DEF Step, Work

\* When a sync is done with a node, and nobody else has changed its process or
\* its rows since it fetched the list, the rows of the node are those of the list,
\* except for bots that have a row of another node.
THEOREM SyncStaysExact == Spec => []SyncExact
<1>1. Init => Told /\ SyncInv
  BY DEF Init, Told, SyncInv
<1>2. TypesInv /\ Told /\ SyncInv /\ [Next]_vars => Told' /\ SyncInv'
  <2>1. ASSUME TypesInv, Told, SyncInv, Next PROVE Told' /\ SyncInv'
    BY <2>1, ToldStep, SyncStep DEF Next
  <2>2. ASSUME Told, SyncInv, UNCHANGED vars PROVE Told' /\ SyncInv'
    BY <2>2 DEF Told, SyncInv, Synced, Peer, RowsOf, Clients, vars, history
  <2>. QED
    BY <2>1, <2>2
<1>3. TypesInv /\ Told /\ SyncInv => SyncExact
  <2>. SUFFICES ASSUME TypesInv, Told, SyncInv, NEW q \in quiet, at[q] = "upsert",
                       my[q].seen = {}
                PROVE  LET n == my[q].node IN
                       {r.name : r \in RowsOf(n)}
                         = {a \in pool[Peer(q)] : \A r \in rows : r.client = a => r.node = n}
    BY DEF SyncExact
  <2>. DEFINE n == my[q].node
              Left == {r.name : r \in RowsOf(n)}
              Due  == {a \in pool[Peer(q)] : \A r \in rows : r.client = a => r.node = n}
  <2>1. /\ identifies
        /\ \A r \in rows : r.node = n => r.client \in pool[Peer(q)]
        /\ \A a \in pool[Peer(q)] : a \in Clients
    BY DEF SyncInv, Synced
  <2>2. /\ \A r \in rows : r.client = r.name
        /\ \A r, s \in rows : r.client = s.client => r = s
    BY <2>1 DEF Told, TypesInv, TypeOK
  <2>3. ASSUME NEW a \in Left PROVE a \in Due
    BY <2>1, <2>2 DEF RowsOf
  <2>4. ASSUME NEW a \in Due PROVE a \in Left
    BY <2>1, <2>2 DEF RowsOf, Clients
  <2>. QED
    BY <2>3, <2>4
<1>. QED
  BY <1>1, <1>2, <1>3, TypesInvariant, PTL DEF Spec
===============================================================================
