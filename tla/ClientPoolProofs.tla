--------------------------- MODULE ClientPoolProofs ---------------------------
(***************************************************************************)
(* Proofs about ClientPool, for any number of handlers, clients and names. *)
(* PoolInv is the inductive invariant behind UniqueNames: what a scan has  *)
(* seen so far stays true, because the pool's mutex is held over it and the *)
(* names do not change.                                                    *)
(***************************************************************************)
EXTENDS ClientPool, SequenceTheorems, TLAPS

PoolTypes ==
  /\ clients \in Seq(Client)
  /\ name \in [Client -> Name \cup ServerNames \cup {Nobody}]
  /\ keep \in [Http -> Seq(Client)]
  /\ pos \in [Http -> Nat \ {0}]
  /\ at \in [Http -> Stage]

RequestTypes ==
  /\ op \in [Http -> AllOps \cup {Nobody}]
  /\ arg \in [Http -> Name \cup {Nobody}]

PoolLocked == \A t \in Http : at[t] = "scan" => lock = t

\* What add has compared so far has another name.
AddScanned ==
  \A t \in Http : at[t] = "scan" /\ op[t] = "add" =>
    \A i \in 1..Len(clients) : i < pos[t] => name[clients[i]] # arg[t]

\* What remove keeps was in the part of the pool it has gone through, and the
\* names in it differ as they do there.
KeptScanned ==
  \A t \in Http : at[t] = "scan" /\ op[t] = "remove" =>
    /\ \A k \in 1..Len(keep[t]) :
         \E i \in 1..Len(clients) : i < pos[t] /\ keep[t][k] = clients[i]
    /\ \A j, k \in 1..Len(keep[t]) : name[keep[t][j]] = name[keep[t][k]] => j = k

Distinct == \A i, j \in 1..Len(clients) : name[clients[i]] = name[clients[j]] => i = j

\* keep is filled by remove alone; a scan starts with an empty one.
KeepEmpty == \A t \in Http : at[t] \in {"done", "lock"} => keep[t] = <<>> /\ pos[t] = 1

PoolInv ==
  PoolTypes /\ RequestTypes /\ PoolLocked /\ AddScanned /\ KeptScanned /\ Distinct /\ KeepEmpty
\* The pool is empty at first.
LEMMA PoolInit == Init => PoolInv
<1> SUFFICES ASSUME Init PROVE PoolInv
  OBVIOUS
<1>1. PoolTypes
  <2>1. <<>> \in Seq(Client) /\ 1 \in Nat \ {0} /\ "done" \in Stage
    BY DEF Stage
  <2>2. QED  BY <2>1 DEF Init, PoolTypes
<1>2. RequestTypes
  BY DEF Init, RequestTypes
<1>3. \A t \in Http : at[t] = "done" /\ keep[t] = <<>> /\ pos[t] = 1
  BY DEF Init
<1>4. PoolLocked /\ AddScanned /\ KeptScanned /\ KeepEmpty
  BY <1>3 DEF PoolLocked, AddScanned, KeptScanned, KeepEmpty
<1>5. Distinct
  BY DEF Init, Distinct
<1>6. QED  BY <1>1, <1>2, <1>4, <1>5 DEF PoolInv

\* A step that leaves the pool, the scans and the waiting requests alone.
Frame ==
  /\ clients' = clients /\ name' = name /\ lock' = lock
  /\ keep' = keep /\ pos' = pos /\ op' = op /\ arg' = arg
  /\ at' \in [Http -> Stage]
  /\ \A t \in Http : at'[t] \in {"scan", "done", "lock"} \/ at[t] = "done" => at'[t] = at[t]

\* Steps elsewhere leave PoolInv alone.
LEMMA FrameStep == ASSUME PoolInv, Frame PROVE PoolInv'
<1> USE DEF Frame
<1>1. PoolTypes' /\ RequestTypes'
  BY DEF PoolInv, PoolTypes, RequestTypes
<1>2. PoolLocked' /\ KeepEmpty'
  BY DEF PoolInv, PoolLocked, KeepEmpty
<1>3. AddScanned'
  BY DEF PoolInv, AddScanned
<1>4. KeptScanned'
  BY DEF PoolInv, KeptScanned
<1>5. Distinct'
  BY DEF PoolInv, Distinct
<1>6. QED  BY <1>1, <1>2, <1>3, <1>4, <1>5 DEF PoolInv

\* Only one request scans at a time.
LEMMA OneScan ==
  ASSUME PoolInv, NEW t \in Http, at[t] = "scan"
  PROVE  /\ lock = t
         /\ \A u \in Http : u # t => at[u] # "scan"
BY DEF PoolInv, PoolLocked

\* The steps of a request before and after its scan.
LEMMA RequestStep ==
  ASSUME PoolInv, NEW t \in Http,
         \/ \E o \in Ops, n \in Name : handle_post(t, o, n)
         \/ reply(t) \/ get_clients(t) \/ list_next(t)
  PROVE  PoolInv'
<1> USE PoolAssumption
<1>0. PoolTypes /\ RequestTypes /\ PoolLocked /\ AddScanned /\ KeptScanned /\ Distinct /\ KeepEmpty
  BY DEF PoolInv
<1>1. /\ clients' = clients /\ name' = name /\ lock' = lock
      /\ at' \in [Http -> Stage] /\ pos' \in [Http -> Nat \ {0}] /\ keep' \in [Http -> Seq(Client)]
  <2>1. CASE \E o \in Ops, n \in Name : handle_post(t, o, n)
    BY <1>0, <2>1 DEF handle_post, PoolTypes, Stage
  <2>2. CASE reply(t)
    BY <1>0, <2>2 DEF reply, PoolTypes, Stage
  <2>3. CASE get_clients(t)
    BY <1>0, <2>3 DEF get_clients, PoolTypes, Stage
  <2>4. CASE list_next(t)
    <3>1. keep[t] # <<>> => Tail(keep[t]) \in Seq(Client)
      BY <1>0, HeadTailProperties DEF PoolTypes
    <3>2. clients' = clients /\ name' = name /\ lock' = lock /\ at' \in [Http -> Stage]
      BY <1>0, <2>4 DEF list_next, PoolTypes, Stage
    <3>3. pos' \in [Http -> Nat \ {0}] /\ keep' \in [Http -> Seq(Client)]
      <4>0. keep \in [Http -> Seq(Client)] /\ pos \in [Http -> Nat \ {0}]
        BY <1>0 DEF PoolTypes
      <4>1. CASE keep[t] # <<>> /\ keep' = [keep EXCEPT ![t] = Tail(@)] /\ pos' = pos
        <5>1. Tail(keep[t]) \in Seq(Client)
          BY <4>1, <3>1
        <5>. QED
          BY <4>0, <4>1, <5>1, Zenon
      <4>2. CASE keep' = keep /\ pos' = pos
        BY <4>0, <4>2
      <4>3. QED
        BY <2>4, <4>1, <4>2 DEF list_next
    <3>4. QED  BY <3>2, <3>3
  <2>5. QED  BY <2>1, <2>2, <2>3, <2>4
<1>2. op' \in [Http -> AllOps \cup {Nobody}] /\ arg' \in [Http -> Name \cup {Nobody}]
  <2>1. CASE \E o \in Ops, n \in Name : handle_post(t, o, n)
    BY <1>0, <2>1 DEF handle_post, RequestTypes
  <2>2. CASE reply(t)
    BY <1>0, <2>2 DEF reply, RequestTypes
  <2>3. CASE get_clients(t) \/ list_next(t)
    BY <1>0, <2>3 DEF get_clients, list_next, RequestTypes
  <2>4. QED  BY <2>1, <2>2, <2>3
<1>3. /\ at'[t] # "scan"
      /\ at'[t] \in {"done", "lock"} => keep'[t] = <<>> /\ pos'[t] = 1
      /\ \A u \in Http : u # t => /\ at'[u] = at[u] /\ op'[u] = op[u] /\ arg'[u] = arg[u]
                                  /\ pos'[u] = pos[u] /\ keep'[u] = keep[u]
  <2>1. CASE \E o \in Ops, n \in Name : handle_post(t, o, n)
    BY <1>0, <2>1 DEF handle_post, PoolTypes, RequestTypes, KeepEmpty
  <2>2. CASE reply(t)
    BY <1>0, <2>2 DEF reply, PoolTypes, RequestTypes
  <2>3. CASE get_clients(t)
    BY <1>0, <2>3 DEF get_clients, PoolTypes
  <2>4. CASE list_next(t)
    BY <1>0, <2>4 DEF list_next, PoolTypes
  <2>5. QED  BY <2>1, <2>2, <2>3, <2>4
<1>4. PoolTypes' /\ RequestTypes'
  BY <1>0, <1>1, <1>2 DEF PoolTypes, RequestTypes
<1>5. PoolLocked' /\ KeepEmpty'
  BY <1>0, <1>1, <1>3 DEF PoolLocked, KeepEmpty
<1>31. \A u \in Http : at'[u] = "scan" =>
         /\ at[u] = "scan" /\ op'[u] = op[u] /\ arg'[u] = arg[u]
         /\ pos'[u] = pos[u] /\ keep'[u] = keep[u]
  BY <1>3
<1>6. AddScanned'
  <2>1. SUFFICES ASSUME NEW u \in Http, at'[u] = "scan", op'[u] = "add",
                        NEW i \in 1..Len(clients), i < pos'[u]
                 PROVE  name[clients[i]] # arg'[u]
    BY <1>1 DEF AddScanned
  <2>2. QED  BY <1>0, <1>31, <2>1 DEF AddScanned
<1>7. KeptScanned'
  <2>1. SUFFICES ASSUME NEW u \in Http, at'[u] = "scan", op'[u] = "remove"
                 PROVE  /\ \A k \in 1..Len(keep'[u]) :
                             \E i \in 1..Len(clients) : i < pos'[u] /\ keep'[u][k] = clients[i]
                        /\ \A j, k \in 1..Len(keep'[u]) :
                             name[keep'[u][j]] = name[keep'[u][k]] => j = k
    BY <1>1 DEF KeptScanned
  <2>2. at[u] = "scan" /\ op[u] = "remove" /\ pos'[u] = pos[u] /\ keep'[u] = keep[u]
    BY <1>31, <2>1
  <2>3. QED  BY <1>0, <2>2 DEF KeptScanned
<1>8. Distinct'
  BY <1>0, <1>1 DEF Distinct
<1>9. QED  BY <1>4, <1>5, <1>6, <1>7, <1>8 DEF PoolInv

\* The scan goes on by one client.
LEMMA ScanNextStep ==
  ASSUME PoolInv, NEW t \in Http, scan_next(t)
  PROVE  PoolInv'
<1>0. PoolTypes /\ RequestTypes /\ PoolLocked /\ AddScanned /\ KeptScanned /\ Distinct /\ KeepEmpty
  BY DEF PoolInv
<1>1. /\ at[t] = "scan" /\ pos[t] \in 1..Len(clients)
      /\ clients[pos[t]] \in Client
      /\ ~ Hit(t) \/ op[t] = "remove"
  <2>1. at[t] = "scan" /\ pos[t] \in Nat \ {0} /\ pos[t] <= Len(clients) /\ Len(clients) \in Nat
    BY <1>0 DEF scan_next, Compares, PoolTypes
  <2>2. pos[t] \in 1..Len(clients)
    BY <2>1
  <2>3. QED  BY <1>0, <2>1, <2>2, ElementOfSeq DEF scan_next, PoolTypes
<1>2. /\ clients' = clients /\ name' = name /\ lock' = lock
      /\ at' = at /\ op' = op /\ arg' = arg
      /\ pos' \in [Http -> Nat \ {0}] /\ pos'[t] = pos[t] + 1
      /\ \A u \in Http : u # t => pos'[u] = pos[u]
  BY <1>0 DEF scan_next, PoolTypes
<1>3. \A u \in Http : u # t => at[u] # "scan"
  BY <1>1, OneScan
<1>4. /\ keep' \in [Http -> Seq(Client)]
      /\ \A u \in Http : u # t => keep'[u] = keep[u]
      /\ \/ keep'[t] = keep[t]
         \/ keep'[t] = Append(keep[t], clients[pos[t]])
  BY <1>0, <1>1 DEF scan_next, PoolTypes
<1>5. PoolTypes' /\ RequestTypes'
  BY <1>0, <1>2, <1>4 DEF PoolTypes, RequestTypes
<1>6. PoolLocked' /\ Distinct'
  BY <1>0, <1>2 DEF PoolLocked, Distinct
<1>7. KeepEmpty'
  BY <1>0, <1>1, <1>2, <1>4 DEF KeepEmpty
<1>8. AddScanned'
  <2>1. SUFFICES ASSUME at[t] = "scan", op[t] = "add", NEW i \in 1..Len(clients), i < pos[t] + 1
                 PROVE  name[clients[i]] # arg[t]
    BY <1>2, <1>3 DEF AddScanned
  <2>2. CASE i < pos[t]
    BY <1>0, <2>1, <2>2 DEF AddScanned
  <2>3. CASE i = pos[t]
    BY <1>1, <2>1, <2>3 DEF Hit
  <2>4. QED  BY <1>1, <2>1, <2>2, <2>3
<1>9. KeptScanned'
  <2>1. SUFFICES ASSUME op[t] = "remove"
                 PROVE  /\ \A k \in 1..Len(keep'[t]) :
                             \E i \in 1..Len(clients) : i < pos[t] + 1 /\ keep'[t][k] = clients[i]
                        /\ \A j, k \in 1..Len(keep'[t]) :
                             name[keep'[t][j]] = name[keep'[t][k]] => j = k
    <3>1. \A u \in Http : at'[u] = "scan" => u = t
      BY <1>2, <1>3
    <3>2. op'[t] = "remove" => op[t] = "remove"
      BY <1>2
    <3>3. QED  BY <1>2, <3>1, <3>2 DEF KeptScanned
  <2>2. /\ \A k \in 1..Len(keep[t]) :
             \E i \in 1..Len(clients) : i < pos[t] /\ keep[t][k] = clients[i]
        /\ \A j, k \in 1..Len(keep[t]) : name[keep[t][j]] = name[keep[t][k]] => j = k
    BY <1>0, <1>1, <2>1 DEF KeptScanned
  <2>3. CASE keep'[t] = keep[t]
    <3>1. \A i \in 1..Len(clients) : i < pos[t] => i < pos[t] + 1
      BY <1>1
    <3>2. QED  BY <2>2, <2>3, <3>1
  <2>4. CASE keep'[t] = Append(keep[t], clients[pos[t]])
    <3>1. keep[t] \in Seq(Client) /\ Len(keep[t]) \in Nat
      BY <1>0 DEF PoolTypes
    <3>2. /\ Len(keep'[t]) = Len(keep[t]) + 1
          /\ \A k \in 1..Len(keep[t]) : keep'[t][k] = keep[t][k]
          /\ keep'[t][Len(keep[t]) + 1] = clients[pos[t]]
      BY <1>1, <2>4, <3>1
    <3>3. \A k \in 1..Len(keep[t]) : name[keep[t][k]] # name[clients[pos[t]]]
      BY <1>0, <1>1, <2>2 DEF Distinct
    <3>4. \A k \in 1..Len(keep'[t]) : k \in 1..Len(keep[t]) \/ k = Len(keep[t]) + 1
      BY <3>1, <3>2
    <3>5. \A k \in 1..Len(keep'[t]) :
            \E i \in 1..Len(clients) : i < pos[t] + 1 /\ keep'[t][k] = clients[i]
      <4>1. TAKE k \in 1..Len(keep'[t])
      <4>2. CASE k \in 1..Len(keep[t])
        BY <1>1, <2>2, <3>2, <4>2
      <4>3. CASE k = Len(keep[t]) + 1
        BY <1>1, <3>2, <4>3
      <4>4. QED  BY <3>4, <4>2, <4>3
    <3>6. \A j, k \in 1..Len(keep'[t]) : name[keep'[t][j]] = name[keep'[t][k]] => j = k
      BY <2>2, <3>2, <3>3, <3>4
    <3>7. QED  BY <3>5, <3>6
  <2>5. QED  BY <1>4, <2>3, <2>4
<1>10. QED  BY <1>5, <1>6, <1>7, <1>8, <1>9 DEF PoolInv

\* The steps that take and give back the pool's mutex and leave the pool alone.
LEMMA LockStep ==
  ASSUME PoolInv, NEW t \in Http,
         pool_lock(t) \/ scan_hit(t) \/ get_nothing(t)
  PROVE  PoolInv'
<1>0. PoolTypes /\ RequestTypes /\ PoolLocked /\ AddScanned /\ KeptScanned /\ Distinct /\ KeepEmpty
  BY DEF PoolInv
<1>1. /\ clients' = clients /\ name' = name /\ op' = op /\ arg' = arg
      /\ pos' = pos /\ keep' = keep
  BY DEF pool_lock, scan_hit, get_nothing
<1>2. /\ at' \in [Http -> Stage]
      /\ \A u \in Http : u # t => at'[u] = at[u]
      /\ at'[t] \notin {"done", "lock"}
  BY <1>0 DEF pool_lock, scan_hit, get_nothing, PoolTypes, Stage
<1>3. /\ at'[t] = "scan" => at[t] = "lock" /\ lock' = t
      /\ \A u \in Http : u # t => at[u] # "scan"
  <2>1. CASE pool_lock(t)
    BY <1>0, <2>1, PoolAssumption DEF pool_lock, PoolLocked
  <2>2. CASE scan_hit(t)
    BY <1>0, <2>2, OneScan DEF scan_hit, Compares, PoolTypes
  <2>3. CASE get_nothing(t)
    BY <1>0, <2>3, OneScan DEF get_nothing, Scanned, PoolTypes
  <2>4. QED  BY <2>1, <2>2, <2>3
<1>4. PoolTypes' /\ RequestTypes'
  BY <1>0, <1>1, <1>2 DEF PoolTypes, RequestTypes
<1>5. PoolLocked' /\ Distinct' /\ KeepEmpty'
  BY <1>0, <1>1, <1>2, <1>3 DEF PoolLocked, Distinct, KeepEmpty
<1>6. AddScanned' /\ KeptScanned'
  <2>1. at'[t] = "scan" => pos[t] = 1 /\ keep[t] = <<>>
    BY <1>0, <1>3 DEF KeepEmpty
  <2>2. AddScanned'
    BY <1>1, <1>2, <1>3, <2>1 DEF AddScanned
  <2>3. KeptScanned'
    BY <1>1, <1>2, <1>3, <2>1 DEF KeptScanned
  <2>4. QED  BY <2>2, <2>3
<1>7. QED  BY <1>4, <1>5, <1>6 DEF PoolInv

\* The end of add: every name has been compared with the new one.
LEMMA AddStep ==
  ASSUME PoolInv, NEW t \in Http, add_client(t)
  PROVE  PoolInv'
<1>0. PoolTypes /\ RequestTypes /\ PoolLocked /\ AddScanned /\ KeptScanned /\ Distinct /\ KeepEmpty
  BY DEF PoolInv
<1>1. PICK c \in Unused : name' = [name EXCEPT ![c] = arg[t]] /\ clients' = Append(clients, c)
  BY DEF add_client
<1>2. /\ op[t] = "add" /\ op' = op /\ arg' = arg /\ pos' = pos /\ keep' = keep
      /\ at[t] = "scan" /\ pos[t] > Len(clients)
      /\ at' = [at EXCEPT ![t] = "call"]
  BY DEF add_client, Scanned
<1>3. \A u \in Http : u # t => at[u] # "scan"
  BY <1>2, OneScan
<1>4. \A u \in Http : at'[u] \notin {"scan"} /\ (at'[u] \in {"done", "lock"} => at[u] = at'[u])
  BY <1>0, <1>2, <1>3 DEF PoolTypes
<1>5. /\ clients \in Seq(Client) /\ Len(clients) \in Nat /\ c \in Client
      /\ \A i \in 1..Len(clients) : clients[i] \in Client /\ clients[i] # c
  <2>1. clients \in Seq(Client) /\ Len(clients) \in Nat /\ c \in Client
    BY <1>0, <1>1 DEF PoolTypes, Unused
  <2>2. DOMAIN clients = 1..Len(clients)
    BY <2>1, LenProperties
  <2>3. \A i \in 1..Len(clients) : clients[i] # c
    BY <1>1, <2>2 DEF Unused, Alive, Elems
  <2>4. QED  BY <2>1, <2>3, ElementOfSeq
<1>6. PoolTypes'
  <2>1. clients' \in Seq(Client)
    BY <1>1, <1>5
  <2>2. name' \in [Client -> Name \cup ServerNames \cup {Nobody}]
    BY <1>0, <1>1, <1>5 DEF PoolTypes, RequestTypes
  <2>3. at' \in [Http -> Stage]
    BY <1>0, <1>2 DEF PoolTypes, Stage
  <2>4. QED  BY <1>0, <1>2, <2>1, <2>2, <2>3 DEF PoolTypes
<1>7. RequestTypes'
  BY <1>0, <1>2 DEF RequestTypes
<1>8. PoolLocked' /\ AddScanned' /\ KeptScanned'
  BY <1>4 DEF PoolLocked, AddScanned, KeptScanned
<1>9. KeepEmpty'
  BY <1>0, <1>2, <1>4 DEF KeepEmpty
<1>10. Distinct'
  <2>1. /\ Len(clients') = Len(clients) + 1
        /\ clients'[Len(clients) + 1] = c
        /\ \A i \in 1..Len(clients) : clients'[i] = clients[i]
    BY <1>1, <1>5
  <2>2. /\ name'[c] = arg[t]
        /\ \A i \in 1..Len(clients) : name'[clients[i]] = name[clients[i]]
    BY <1>0, <1>1, <1>5 DEF PoolTypes
  <2>3. \A i \in 1..Len(clients) : name[clients[i]] # arg[t]
    BY <1>0, <1>2, <1>5 DEF AddScanned, PoolTypes
  <2>4. \A i \in 1..Len(clients') : i \in 1..Len(clients) \/ i = Len(clients) + 1
    BY <1>5, <2>1
  <2>5. QED  BY <1>0, <2>1, <2>2, <2>3, <2>4 DEF Distinct
<1>11. QED  BY <1>6, <1>7, <1>8, <1>9, <1>10 DEF PoolInv

\* The end of remove: what is kept has distinct names.
LEMMA RemoveStep ==
  ASSUME PoolInv, NEW t \in Http, remove_client(t)
  PROVE  PoolInv'
<1>0. PoolTypes /\ RequestTypes /\ PoolLocked /\ AddScanned /\ KeptScanned /\ Distinct /\ KeepEmpty
  BY DEF PoolInv
<1>1. /\ op[t] = "remove" /\ at[t] = "scan" /\ clients' = keep[t] /\ name' = name
      /\ op' = op /\ arg' = arg /\ pos' = pos /\ keep' = keep
      /\ at' = [at EXCEPT ![t] = "found"]
  BY DEF remove_client, Scanned
<1>2. \A u \in Http : u # t => at[u] # "scan"
  BY <1>1, OneScan
<1>3. \A u \in Http : at'[u] # "scan" /\ (at'[u] \in {"done", "lock"} => at[u] = at'[u])
  BY <1>0, <1>1, <1>2 DEF PoolTypes
<1>4. PoolTypes' /\ RequestTypes'
  BY <1>0, <1>1 DEF PoolTypes, RequestTypes, Stage
<1>5. PoolLocked' /\ AddScanned' /\ KeptScanned' /\ KeepEmpty'
  BY <1>0, <1>1, <1>3 DEF PoolLocked, AddScanned, KeptScanned, KeepEmpty
<1>6. Distinct'
  BY <1>0, <1>1 DEF KeptScanned, Distinct
<1>7. QED  BY <1>4, <1>5, <1>6 DEF PoolInv

\* PoolInv holds after every step, as long as the game server renames nobody.
THEOREM PoolInductive == ServerNames = {} /\ PoolInv /\ [Next]_vars => PoolInv'
<1> SUFFICES ASSUME ServerNames = {}, PoolInv, [Next]_vars PROVE PoolInv'
  OBVIOUS
<1>0. PoolTypes /\ RequestTypes
  BY DEF PoolInv
<1>1. CASE UNCHANGED vars
  BY <1>0, <1>1, FrameStep DEF vars, reqVars, Frame, PoolTypes
<1>2. ASSUME NEW t \in Http, use_client(t) \/ call_connect(t) \/ connect_returns(t) PROVE Frame
  BY <1>0, <1>2 DEF use_client, call_connect, connect_returns, Frame, PoolTypes, Stage
<1>3. ASSUME MainNext PROVE Frame
  <2>1. name' = name /\ UNCHANGED <<lock, clients, reqVars>>
    <3>1. CASE handle
      BY <1>0, <3>1 DEF handle, PoolTypes
    <3>2. CASE ~ handle
      BY <1>3, <3>2 DEF MainNext, main_copy, poll_done, main_sleep, poll_event, redirect_connect,
         redirect_returns, link_lost
    <3>3. QED  BY <3>1, <3>2
  <2>2. QED  BY <1>0, <2>1 DEF Frame, reqVars, PoolTypes
<1>4. ASSUME NEW c \in Client, ReconNext(c) PROVE Frame
  BY <1>0, <1>4 DEF ReconNext, recon_connect, recon_returns, Frame, reqVars, PoolTypes
<1>5. QED
  BY <1>1, <1>2, <1>3, <1>4, FrameStep, RequestStep, ScanNextStep, LockStep, AddStep, RemoveStep
  DEF Next, PoolSteps, ClientSteps

\* For any number of handlers, clients and names: unless the game server renames
\* bots, the pool never holds two bots of one name.
THEOREM NamesUnique == ServerNames = {} => (Spec => []UniqueNames)
<1> SUFFICES ASSUME ServerNames = {} PROVE Spec => []UniqueNames
  OBVIOUS
<1>1. Init => PoolInv
  BY PoolInit
<1>2. PoolInv /\ [Next]_vars => PoolInv'
  BY PoolInductive
<1>3. PoolInv => UniqueNames
  BY LenProperties DEF PoolInv, PoolTypes, Distinct, UniqueNames
<1>4. QED  BY <1>1, <1>2, <1>3, PTL DEF Spec

-----------------------------------------------------------------------------
(***************************************************************************)
(* Types, also when the game server renames bots.                          *)
(***************************************************************************)
TypesInv == TypeOK /\ pos \in [Http -> Nat \ {0}]

\* A client's mutex is given to a holder.
LEMMA MutexSet ==
  ASSUME mutex \in [Client -> Holder \cup {Nobody}], NEW c, NEW h \in Holder \cup {Nobody}
  PROVE  [mutex EXCEPT ![c] = h] \in [Client -> Holder \cup {Nobody}]
OBVIOUS

\* The types at first.
LEMMA TypesInit == Init => TypesInv
<1> SUFFICES ASSUME Init PROVE TypesInv
  OBVIOUS
<1>1. <<>> \in Seq(Client) /\ 1 \in Nat \ {0} /\ "done" \in Stage
  BY DEF Stage
<1>2. QED  BY <1>1 DEF Init, TypesInv, TypeOK

\* The types after a step.
LEMMA TypesStep == TypesInv /\ [Next]_vars => TypesInv'
<1> SUFFICES ASSUME TypesInv, [Next]_vars PROVE TypesInv'
  OBVIOUS
<1> USE PoolAssumption DEF TypesInv, TypeOK, Stage, reqVars
<1>1. ASSUME NEW t \in Http, NEW o \in Ops, NEW n \in Name, handle_post(t, o, n) PROVE TypesInv'
  BY <1>1 DEF handle_post
<1>2. ASSUME NEW t \in Http, reply(t) PROVE TypesInv'
  BY <1>2 DEF reply
<1>3. ASSUME NEW t \in Http, Compares(t) PROVE clients[pos[t]] \in Client
  <2>1. pos[t] \in 1..Len(clients)
    BY <1>3 DEF Compares
  <2>2. QED  BY <2>1, ElementOfSeq
<1>4. ASSUME NEW t \in Http, PoolSteps(t) PROVE TypesInv'
  <2>1. CASE pool_lock(t)
    BY <2>1 DEF pool_lock
  <2>2. CASE scan_next(t)
    BY <1>3, <2>2 DEF scan_next
  <2>3. CASE scan_hit(t)
    BY <1>3, <2>3 DEF scan_hit
  <2>4. CASE get_clients(t)
    BY <2>4 DEF get_clients
  <2>5. CASE add_client(t)
    <3>1. PICK c \in Unused : /\ name' = [name EXCEPT ![c] = arg[t]]
                              /\ clients' = Append(clients, c)
                              /\ ref' = [ref EXCEPT ![t] = c]
      BY <2>5 DEF add_client
    <3>2. c \in Client
      BY DEF Unused
    <3>3. QED  BY <2>5, <3>1, <3>2 DEF add_client
  <2>6. CASE get_nothing(t)
    BY <2>6 DEF get_nothing
  <2>7. CASE remove_client(t)
    BY <2>7 DEF remove_client
  <2>8. QED  BY <1>4, <2>1, <2>2, <2>3, <2>4, <2>5, <2>6, <2>7 DEF PoolSteps
<1>5. ASSUME NEW t \in Http, ClientSteps(t) \/ connect_returns(t) PROVE TypesInv'
  <2>1. CASE use_client(t)
    BY <2>1 DEF use_client
  <2>2. CASE list_next(t)
    <3>1. keep[t] # <<>> => Tail(keep[t]) \in Seq(Client)
      BY HeadTailProperties
    <3>2. CASE keep' = keep
      BY <2>2, <3>2 DEF list_next
    <3>21. CASE keep[t] # <<>> /\ keep' = [keep EXCEPT ![t] = Tail(@)] /\ UNCHANGED at
      BY <2>2, <3>1, <3>21 DEF list_next
    <3>3. QED  BY <2>2, <3>2, <3>21 DEF list_next
  <2>3. CASE call_connect(t) \/ connect_returns(t)
    <3>0. at' = [at EXCEPT ![t] = "connect"] \/ at' = [at EXCEPT ![t] = "found"]
      BY <2>3 DEF call_connect, connect_returns
    <3>1. at' \in [Http -> Stage]
      BY <3>0
    <3>2. t \in Holder
      BY DEF Holder
    <3>20. mutex' \in {[mutex EXCEPT ![ref[t]] = t], [mutex EXCEPT ![ref[t]] = Nobody]}
      BY <2>3 DEF call_connect, connect_returns
    <3>21. mutex' \in [Client -> Holder \cup {Nobody}]
      BY <3>2, <3>20, MutexSet
    <3>3. QED  BY <2>3, <3>1, <3>21 DEF call_connect, connect_returns
  <2>4. QED  BY <1>5, <2>1, <2>2, <2>3 DEF ClientSteps
<1>6. CASE MainNext
  <2>1. CASE main_copy \/ main_sleep \/ (\E l \in {"handle", "call"} : poll_event(l)) \/ link_lost
    BY <2>1 DEF main_copy, main_sleep, poll_event, link_lost
  <2>2. CASE poll_done
    <3>1. Tail(snap) \in Seq(Client)
      BY <2>2, HeadTailProperties DEF poll_done
    <3>2. QED  BY <2>2, <3>1 DEF poll_done
  <2>3. CASE handle
    <3>1. PICK n \in ServerNames \cup {name[Head(snap)]} : name' = [name EXCEPT ![Head(snap)] = n]
      BY <2>3 DEF handle
    <3>2. name' \in [Client -> Name \cup ServerNames \cup {Nobody}]
      <4>1. CASE Head(snap) \in Client
        BY <3>1, <4>1
      <4>2. CASE Head(snap) \notin Client
        BY <3>1, <4>2
      <4>3. QED  BY <4>1, <4>2
    <3>3. QED  BY <2>3, <3>2 DEF handle
  <2>4. CASE redirect_connect \/ redirect_returns
    BY <2>4 DEF redirect_connect, redirect_returns, Holder
  <2>5. QED  BY <1>6, <2>1, <2>2, <2>3, <2>4 DEF MainNext
<1>7. ASSUME NEW c \in Client, ReconNext(c) PROVE TypesInv'
  <2>0. c \in Holder
    BY DEF Holder
  <2>01. mutex' \in {[mutex EXCEPT ![c] = c], [mutex EXCEPT ![c] = Nobody]}
    BY <1>7 DEF ReconNext, recon_connect, recon_returns
  <2>1. mutex' \in [Client -> Holder \cup {Nobody}]
    BY <2>0, <2>01, MutexSet
  <2>2. recon' \in [Client -> {"none", "wait", "connect"}]
    BY <1>7 DEF ReconNext, recon_connect, recon_returns
  <2>3. QED  BY <1>7, <2>1, <2>2 DEF ReconNext, recon_connect, recon_returns
<1>8. CASE UNCHANGED vars
  BY <1>8 DEF vars
<1>9. QED  BY <1>1, <1>2, <1>4, <1>5, <1>6, <1>7, <1>8 DEF Next

\* Every variable keeps its type, whatever names the game server gives and
\* whatever else works on a bot meanwhile.
THEOREM TypeCorrect == Spec => []TypeOK
<1>1. Init => TypesInv                       BY TypesInit
<1>2. TypesInv /\ [Next]_vars => TypesInv'   BY TypesStep
<1>3. TypesInv => TypeOK                     BY DEF TypesInv
<1>4. QED  BY <1>1, <1>2, <1>3, PTL DEF Spec

-----------------------------------------------------------------------------
(***************************************************************************)
(* ClientPool implements Registry.  RegistryInv adds to PoolInv what a     *)
(* scan knows when it ends: that get's name is nowhere, and that remove    *)
(* keeps everything else.  Names and StageMap are the refinement mapping.  *)
(***************************************************************************)
Mapped(a) == CASE a \in {"lock", "scan"} -> "called"
               [] a \in {"done", "refused"} -> a
               [] OTHER -> "found"
StageMap == [t \in Http |-> Mapped(at[t])]
Names == {name[c] : c \in Elems(clients)}

\* The stage of the registry for each stage of a handler.
LEMMA MappedStage ==
  ASSUME NEW a \in Stage
  PROVE  /\ a \in {"lock", "scan"} => Mapped(a) = "called"
         /\ a = "done" => Mapped(a) = "done"
         /\ a = "refused" => Mapped(a) = "refused"
         /\ a \in {"use", "list", "call", "connect", "found"} => Mapped(a) = "found"
BY DEF Stage, Mapped

\* A handler that moves moves its request.
LEMMA StageMoves ==
  ASSUME at \in [Http -> Stage], NEW t \in Http, NEW l \in Stage, at' = [at EXCEPT ![t] = l]
  PROVE  StageMap' = [StageMap EXCEPT ![t] = Mapped(l)]
<1>1. \A u \in Http : at'[u] = IF u = t THEN l ELSE at[u]
  OBVIOUS
<1>2. \A u \in Http : Mapped(at'[u]) = IF u = t THEN Mapped(l) ELSE Mapped(at[u])
  BY <1>1
<1>3. QED BY <1>2 DEF StageMap

\* The names registered are those of the clients in the list.
LEMMA NamesAre ==
  ASSUME clients \in Seq(Client), NEW x
  PROVE  x \in Names <=> \E i \in 1..Len(clients) : name[clients[i]] = x
<1>1. DOMAIN clients = 1..Len(clients)
  BY LenProperties
<1>2. QED BY <1>1 DEF Names, Elems

\* The instant of a request that finds its bot, and of one that does not.
LEMMA ActFound ==
  ASSUME NEW t \in Http, StageMap[t] = "called", StageMap' = [StageMap EXCEPT ![t] = "found"],
         UNCHANGED <<op, arg>>,
         \/ op[t] = "add" /\ arg[t] \notin Names /\ Names' = Names \cup {arg[t]}
         \/ op[t] = "remove" /\ Names' = Names \ {arg[t]}
         \/ op[t] \in {"use", "connect"} /\ arg[t] \in Names /\ Names' = Names
         \/ op[t] = "list" /\ Names' = Names
  PROVE  R!Act(t)
BY DEF R!Act, Names, StageMap, Mapped

\* ... that finds none, or for add finds one.
LEMMA ActRefused ==
  ASSUME NEW t \in Http, StageMap[t] = "called", StageMap' = [StageMap EXCEPT ![t] = "refused"],
         UNCHANGED <<op, arg>>, Names' = Names,
         \/ op[t] = "add" /\ arg[t] \in Names
         \/ op[t] \in {"use", "connect"} /\ arg[t] \notin Names
  PROVE  R!Act(t)
BY DEF R!Act, Names, StageMap, Mapped

\* A request of the pool asks for something, and only the others copy the list.
Requested ==
  \A t \in Http :
    /\ at[t] # "done" => op[t] \in AllOps /\ arg[t] \in Name
    /\ at[t] = "scan" => op[t] # "list"

\* What get has compared so far has another name.
MissScanned ==
  \A t \in Http : at[t] = "scan" /\ op[t] \in {"use", "connect"} =>
    \A i \in 1..Len(clients) : i < pos[t] => name[clients[i]] # arg[t]

\* What remove keeps is all that it has gone through but the name it removes.
KeptExact ==
  \A t \in Http : at[t] = "scan" /\ op[t] = "remove" =>
    /\ \A k \in 1..Len(keep[t]) : name[keep[t][k]] # arg[t]
    /\ \A i \in 1..Len(clients) : i < pos[t] /\ name[clients[i]] # arg[t] =>
         \E k \in 1..Len(keep[t]) : keep[t][k] = clients[i]

RegistryInv == PoolInv /\ Requested /\ MissScanned /\ KeptExact

\* A step that begins no scan and moves none leaves what has been scanned.
LEMMA ScansKept ==
  ASSUME MissScanned, KeptExact,
         \A u \in Http : at'[u] = "scan" =>
           /\ at[u] = "scan" /\ op'[u] = op[u] /\ arg'[u] = arg[u]
           /\ pos'[u] = pos[u] /\ keep'[u] = keep[u]
           /\ clients' = clients /\ name' = name
  PROVE  MissScanned' /\ KeptExact'
<1>1. MissScanned'
  <2>1. SUFFICES ASSUME NEW u \in Http, at'[u] = "scan", op'[u] \in {"use", "connect"},
                        NEW i \in 1..Len(clients'), i < pos'[u]
                 PROVE  name'[clients'[i]] # arg'[u]
    BY DEF MissScanned
  <2>2. QED  BY <2>1 DEF MissScanned
<1>2. KeptExact'
  <2>1. SUFFICES ASSUME NEW u \in Http, at'[u] = "scan", op'[u] = "remove"
                 PROVE  /\ \A k \in 1..Len(keep'[u]) : name'[keep'[u][k]] # arg'[u]
                        /\ \A i \in 1..Len(clients') : i < pos'[u] /\ name'[clients'[i]] # arg'[u] =>
                             \E k \in 1..Len(keep'[u]) : keep'[u][k] = clients'[i]
    BY DEF KeptExact
  <2>2. QED  BY <2>1 DEF KeptExact
<1>3. QED  BY <1>1, <1>2

\* The invariant makes each step of a request one of the registry, or none.
RegistryStep == Requested' /\ MissScanned' /\ KeptExact' /\ [R!RNext]_(R!rvars)

\* What the registry does not see.
LEMMA Stutters ==
  ASSUME clients' = clients, name' = name, op' = op, arg' = arg, StageMap' = StageMap
  PROVE  UNCHANGED R!rvars
BY DEF R!rvars, Names, StageMap, Mapped

\* The names change with the list or the clients' names only.
LEMMA NamesSame == clients' = clients /\ name' = name => Names' = Names
BY DEF Names

\* A request arrives.
LEMMA AskStep ==
  ASSUME RegistryInv, NEW t \in Http, NEW o \in Ops, NEW n \in Name, handle_post(t, o, n)
  PROVE  RegistryStep
<1>0. PoolTypes /\ RequestTypes /\ Requested /\ MissScanned /\ KeptExact
  BY DEF RegistryInv, PoolInv
<1>1. /\ at' = [at EXCEPT ![t] = "lock"] /\ at[t] = "done"
      /\ op' = [op EXCEPT ![t] = o] /\ arg' = [arg EXCEPT ![t] = n]
      /\ UNCHANGED <<clients, name, pos, keep>>
  BY DEF handle_post
<1>2. \A u \in Http : u # t => at'[u] = at[u] /\ op'[u] = op[u] /\ arg'[u] = arg[u]
  BY <1>1
<1>3. at'[t] = "lock" /\ op'[t] = o /\ arg'[t] = n
  BY <1>0, <1>1 DEF PoolTypes, RequestTypes
<1>4. Requested'
  BY <1>0, <1>2, <1>3, PoolAssumption DEF Requested
<1>5. MissScanned' /\ KeptExact'
  BY <1>0, <1>1, <1>2, <1>3, ScansKept
<1>6. StageMap[t] = "done" /\ StageMap' = [StageMap EXCEPT ![t] = "called"]
  <2>1. "done" \in Stage /\ "lock" \in Stage
    BY DEF Stage
  <2>2. Mapped("done") = "done" /\ Mapped("lock") = "called"
    BY <2>1, MappedStage
  <2>3. QED  BY <1>0, <1>1, <2>1, <2>2, StageMoves DEF PoolTypes, StageMap
<1>7. R!Arrive(t, o, n)
  BY <1>1, <1>6, NamesSame DEF R!Arrive, Names, StageMap, Mapped
<1>8. QED  BY <1>4, <1>5, <1>7 DEF RegistryStep, R!RNext

\* ... and is answered.
LEMMA ReplyStep ==
  ASSUME RegistryInv, NEW t \in Http, reply(t)
  PROVE  RegistryStep
<1>0. PoolTypes /\ RequestTypes /\ Requested /\ MissScanned /\ KeptExact
  BY DEF RegistryInv, PoolInv
<1>1. /\ at' = [at EXCEPT ![t] = "done"] /\ at[t] \in {"refused", "found"}
      /\ op' = [op EXCEPT ![t] = Nobody] /\ arg' = [arg EXCEPT ![t] = Nobody]
      /\ pos' = [pos EXCEPT ![t] = 1] /\ keep' = [keep EXCEPT ![t] = <<>>]
      /\ UNCHANGED <<clients, name>>
  BY DEF reply
<1>2. \A u \in Http : u # t => /\ at'[u] = at[u] /\ op'[u] = op[u] /\ arg'[u] = arg[u]
                               /\ pos'[u] = pos[u] /\ keep'[u] = keep[u]
  BY <1>1
<1>3. at'[t] = "done"
  BY <1>0, <1>1 DEF PoolTypes
<1>4. Requested'
  BY <1>0, <1>2, <1>3 DEF Requested
<1>5. MissScanned' /\ KeptExact'
  BY <1>0, <1>1, <1>2, <1>3, ScansKept
<1>6. StageMap[t] \in {"refused", "found"} /\ StageMap' = [StageMap EXCEPT ![t] = "done"]
  <2>1. {"done", "refused", "found"} \subseteq Stage
    BY DEF Stage
  <2>2. Mapped("done") = "done" /\ Mapped("refused") = "refused" /\ Mapped("found") = "found"
    BY <2>1, MappedStage
  <2>3. StageMap[t] = Mapped(at[t])
    BY DEF StageMap
  <2>4. QED  BY <1>0, <1>1, <2>1, <2>2, <2>3, StageMoves DEF PoolTypes
<1>7. R!Answer(t)
  BY <1>1, <1>6, NamesSame DEF R!Answer, Names, StageMap, Mapped
<1>8. QED  BY <1>4, <1>5, <1>7 DEF RegistryStep, R!RNext

\* The mutex is taken, and the scan begins with nothing seen.
LEMMA ScanBegins ==
  ASSUME RegistryInv, NEW t \in Http, pool_lock(t)
  PROVE  RegistryStep
<1>0. PoolTypes /\ PoolLocked /\ KeepEmpty /\ Requested /\ MissScanned /\ KeptExact
  BY DEF RegistryInv, PoolInv
<1>1. /\ at' = [at EXCEPT ![t] = "scan"] /\ at[t] = "lock" /\ op[t] # "list" /\ lock = Nobody
      /\ UNCHANGED <<clients, name, op, arg, pos, keep>>
  BY DEF pool_lock
<1>2. /\ at'[t] = "scan" /\ pos[t] = 1 /\ keep[t] = <<>>
      /\ \A u \in Http : u # t => at'[u] = at[u] /\ at[u] # "scan"
  BY <1>0, <1>1, PoolAssumption DEF PoolTypes, PoolLocked, KeepEmpty
<1>3. Requested'
  BY <1>0, <1>1, <1>2 DEF Requested
<1>4. MissScanned'
  BY <1>0, <1>1, <1>2 DEF MissScanned
<1>5. KeptExact'
  <2>1. Len(keep[t]) = 0
    BY <1>2
  <2>2. \A i \in 1..Len(clients) : ~ (i < pos[t])
    BY <1>2
  <2>3. SUFFICES ASSUME NEW u \in Http, at'[u] = "scan", op'[u] = "remove"
                 PROVE  /\ \A k \in 1..Len(keep[u]) : name[keep[u][k]] # arg[u]
                        /\ \A i \in 1..Len(clients) : i < pos[u] /\ name[clients[i]] # arg[u] =>
                             \E k \in 1..Len(keep[u]) : keep[u][k] = clients[i]
    BY <1>1 DEF KeptExact
  <2>4. u = t
    BY <1>2, <2>3
  <2>5. QED  BY <2>1, <2>2, <2>4
<1>6. StageMap' = StageMap
  <2>1. "lock" \in Stage /\ "scan" \in Stage
    BY DEF Stage
  <2>2. Mapped("lock") = Mapped("scan")
    BY <2>1, MappedStage
  <2>3. \A u \in Http : Mapped(at'[u]) = Mapped(at[u])
    BY <1>1, <1>2, <2>2
  <2>4. QED  BY <2>3 DEF StageMap
<1>7. QED  BY <1>1, <1>3, <1>4, <1>5, <1>6, Stutters DEF RegistryStep

\* The scan goes on by one client: seen, and if remove wants to, kept.
LEMMA ScanGoesOn ==
  ASSUME RegistryInv, NEW t \in Http, scan_next(t)
  PROVE  RegistryStep
<1>0. /\ PoolInv /\ PoolTypes /\ Requested /\ MissScanned /\ KeptExact
      /\ clients \in Seq(Client) /\ keep[t] \in Seq(Client)
      /\ pos[t] \in Nat \ {0} /\ Len(keep[t]) \in Nat
  BY DEF RegistryInv, PoolInv, PoolTypes
<1>1. /\ at[t] = "scan" /\ pos[t] <= Len(clients) /\ (~ Hit(t) \/ op[t] = "remove")
      /\ at' = at /\ op' = op /\ arg' = arg /\ clients' = clients /\ name' = name
      /\ pos'[t] = pos[t] + 1
  BY <1>0 DEF scan_next, Compares, PoolTypes
<1>2. /\ op[t] = "remove" /\ ~ Hit(t) => keep'[t] = Append(keep[t], clients[pos[t]])
      /\ ~ (op[t] = "remove" /\ ~ Hit(t)) => keep'[t] = keep[t]
  BY <1>0 DEF scan_next, PoolTypes
<1>3. \A u \in Http : at[u] = "scan" => u = t
  BY <1>0, <1>1, OneScan
<1>4. Requested'
  BY <1>0, <1>1 DEF Requested
<1>5. MissScanned'
  <2>1. SUFFICES ASSUME op[t] \in {"use", "connect"}, NEW i \in 1..Len(clients), i < pos[t] + 1
                 PROVE  name[clients[i]] # arg[t]
    BY <1>1, <1>3 DEF MissScanned
  <2>2. CASE i < pos[t]
    BY <1>0, <1>1, <2>1, <2>2 DEF MissScanned
  <2>3. CASE i = pos[t]
    BY <1>1, <2>1, <2>3 DEF Hit
  <2>4. QED  BY <1>0, <2>1, <2>2, <2>3
<1>6. KeptExact'
  <2>1. SUFFICES ASSUME op[t] = "remove"
                 PROVE  /\ \A k \in 1..Len(keep'[t]) : name[keep'[t][k]] # arg[t]
                        /\ \A i \in 1..Len(clients) : i < pos[t] + 1 /\ name[clients[i]] # arg[t] =>
                             \E k \in 1..Len(keep'[t]) : keep'[t][k] = clients[i]
    <3>1. \A u \in Http : at'[u] = "scan" /\ op'[u] = "remove" => u = t /\ op[t] = "remove"
      BY <1>1, <1>3
    <3>2. QED  BY <1>1, <3>1 DEF KeptExact
  <2>2. /\ \A k \in 1..Len(keep[t]) : name[keep[t][k]] # arg[t]
        /\ \A i \in 1..Len(clients) : i < pos[t] /\ name[clients[i]] # arg[t] =>
             \E k \in 1..Len(keep[t]) : keep[t][k] = clients[i]
    BY <1>0, <1>1, <2>1 DEF KeptExact
  <2>3. CASE Hit(t)
    <3>1. keep'[t] = keep[t]
      BY <1>2, <2>3
    <3>2. \A i \in 1..Len(clients) : i < pos[t] + 1 /\ name[clients[i]] # arg[t] => i < pos[t]
      <4>1. TAKE i \in 1..Len(clients)
      <4>2. HAVE i < pos[t] + 1 /\ name[clients[i]] # arg[t]
      <4>3. i # pos[t]
        BY <2>3, <4>2 DEF Hit
      <4>4. QED  BY <1>0, <4>2, <4>3
    <3>3. QED  BY <2>2, <3>1, <3>2
  <2>4. CASE ~ Hit(t)
    <3>1. /\ Len(keep'[t]) = Len(keep[t]) + 1
          /\ \A k \in 1..Len(keep[t]) : keep'[t][k] = keep[t][k]
          /\ keep'[t][Len(keep[t]) + 1] = clients[pos[t]]
      <4>1. keep'[t] = Append(keep[t], clients[pos[t]])
        BY <1>2, <2>1, <2>4
      <4>2. clients[pos[t]] \in Client
        BY <1>0, <1>1, ElementOfSeq
      <4>3. QED  BY <1>0, <4>1, <4>2
    <3>2. \A k \in 1..Len(keep'[t]) : k \in 1..Len(keep[t]) \/ k = Len(keep[t]) + 1
      BY <1>0, <3>1
    <3>3. \A k \in 1..Len(keep'[t]) : name[keep'[t][k]] # arg[t]
      BY <2>2, <2>4, <3>1, <3>2 DEF Hit
    <3>4. \A k \in 1..Len(keep[t]) : k \in 1..Len(keep'[t])
      BY <1>0, <3>1
    <3>5. Len(keep[t]) + 1 \in 1..Len(keep'[t])
      BY <1>0, <3>1
    <3>6. \A i \in 1..Len(clients) : i < pos[t] + 1 /\ name[clients[i]] # arg[t] =>
            \E k \in 1..Len(keep'[t]) : keep'[t][k] = clients[i]
      <4>1. TAKE i \in 1..Len(clients)
      <4>2. HAVE i < pos[t] + 1 /\ name[clients[i]] # arg[t]
      <4>3. CASE i < pos[t]
        BY <2>2, <3>1, <3>4, <4>2, <4>3
      <4>4. CASE i = pos[t]
        BY <3>1, <3>5, <4>4
      <4>5. QED  BY <1>0, <4>2, <4>3, <4>4
    <3>7. QED  BY <3>3, <3>6
  <2>5. QED  BY <2>3, <2>4
<1>7. StageMap' = StageMap
  BY <1>1 DEF StageMap
<1>8. QED  BY <1>1, <1>4, <1>5, <1>6, <1>7, Stutters DEF RegistryStep

\* A scan that ends, and list, which needs none: the instant of the request.
LEMMA Acts ==
  ASSUME RegistryInv, NEW t \in Http, NEW l \in Stage \ {"done", "lock", "scan"},
         at' = [at EXCEPT ![t] = l], UNCHANGED <<op, arg>>,
         \/ at[t] = "scan"
         \/ at[t] = "lock" /\ UNCHANGED <<clients, name, pos>> /\ \A u \in Http : u # t => keep'[u] = keep[u],
         \A u \in Http : at[u] = "scan" /\ u # t =>
            UNCHANGED <<clients, name, pos>> /\ keep'[u] = keep[u],
         \/ /\ l # "refused"
            /\ \/ op[t] = "add" /\ arg[t] \notin Names /\ Names' = Names \cup {arg[t]}
               \/ op[t] = "remove" /\ Names' = Names \ {arg[t]}
               \/ op[t] \in {"use", "connect"} /\ arg[t] \in Names /\ Names' = Names
               \/ op[t] = "list" /\ Names' = Names
         \/ /\ l = "refused" /\ Names' = Names
            /\ \/ op[t] = "add" /\ arg[t] \in Names
               \/ op[t] \in {"use", "connect"} /\ arg[t] \notin Names
  PROVE  RegistryStep
<1>0. PoolTypes /\ Requested /\ MissScanned /\ KeptExact
  BY DEF RegistryInv, PoolInv
<1>1. at'[t] = l /\ \A u \in Http : u # t => at'[u] = at[u]
  BY <1>0 DEF PoolTypes
<1>2. Requested'
  <2>1. at[t] # "done"
    OBVIOUS
  <2>2. SUFFICES ASSUME NEW u \in Http
                 PROVE  /\ at'[u] # "done" => op[u] \in AllOps /\ arg[u] \in Name
                        /\ at'[u] = "scan" => op[u] # "list"
    BY DEF Requested
  <2>3. QED  BY <1>0, <1>1, <2>1 DEF Requested
<1>3. MissScanned' /\ KeptExact'
  <2>1. \A u \in Http : at'[u] = "scan" => u # t /\ at[u] = "scan"
    BY <1>1
  <2>2. QED  BY <1>0, <2>1, ScansKept
<1>4. StageMap[t] = "called" /\ StageMap' = [StageMap EXCEPT ![t] = Mapped(l)]
  <2>1. Mapped(at[t]) = "called"
    BY <1>0, MappedStage DEF PoolTypes
  <2>2. QED  BY <1>0, <2>1, StageMoves DEF PoolTypes, StageMap
<1>5. /\ l # "refused" => Mapped(l) = "found"
      /\ l = "refused" => Mapped(l) = "refused"
  BY MappedStage DEF Stage
<1>6. R!Act(t)
  BY <1>4, <1>5, ActFound, ActRefused
<1>7. QED  BY <1>2, <1>3, <1>6 DEF RegistryStep, R!RNext

\* A hit: add is refused, and get hands out its client.
LEMMA HitStep ==
  ASSUME RegistryInv, NEW t \in Http, scan_hit(t)
  PROVE  RegistryStep
<1>0. /\ PoolInv /\ PoolTypes /\ Requested /\ clients \in Seq(Client)
      /\ pos[t] \in Nat \ {0}
  BY DEF RegistryInv, PoolInv, PoolTypes
<1>1. /\ at[t] = "scan" /\ pos[t] \in 1..Len(clients) /\ name[clients[pos[t]]] = arg[t]
      /\ op[t] \in {"add", "use", "connect"}
      /\ UNCHANGED <<clients, name, op, arg, pos, keep>>
  BY <1>0 DEF scan_hit, Compares, Hit, Requested, AllOps
<1>2. \E l \in {"refused", "use", "call"} :
        at' = [at EXCEPT ![t] = l] /\ (l = "refused" <=> op[t] = "add")
  BY <1>1 DEF scan_hit
<1>3. arg[t] \in Names /\ Names' = Names
  BY <1>0, <1>1, NamesAre, NamesSame
<1>4. QED  BY <1>1, <1>2, <1>3, Acts DEF Stage

\* No hit for get.
LEMMA MissStep ==
  ASSUME RegistryInv, NEW t \in Http, get_nothing(t)
  PROVE  RegistryStep
<1>0. /\ PoolInv /\ PoolTypes /\ MissScanned /\ clients \in Seq(Client)
      /\ pos[t] \in Nat \ {0} /\ Len(clients) \in Nat
  BY DEF RegistryInv, PoolInv, PoolTypes
<1>1. /\ at[t] = "scan" /\ pos[t] > Len(clients) /\ op[t] \in {"use", "connect"}
      /\ at' = [at EXCEPT ![t] = "refused"]
      /\ UNCHANGED <<clients, name, op, arg, pos, keep>>
  BY DEF get_nothing, Scanned
<1>2. \A i \in 1..Len(clients) : name[clients[i]] # arg[t]
  BY <1>0, <1>1 DEF MissScanned
<1>3. arg[t] \notin Names /\ Names' = Names
  BY <1>0, <1>1, <1>2, NamesAre, NamesSame
<1>4. QED  BY <1>1, <1>3, Acts DEF Stage

\* list copies the whole list at once.
LEMMA ListStep ==
  ASSUME RegistryInv, NEW t \in Http, get_clients(t)
  PROVE  RegistryStep
<1>1. /\ at[t] = "lock" /\ op[t] = "list" /\ at' = [at EXCEPT ![t] = "list"]
      /\ UNCHANGED <<clients, name, op, arg, pos>>
      /\ \A u \in Http : u # t => keep'[u] = keep[u]
  BY DEF get_clients, RegistryInv, PoolInv, PoolTypes
<1>2. Names' = Names
  BY <1>1, NamesSame
<1>3. QED  BY <1>1, <1>2, Acts DEF Stage

\* No hit for add: the new client is the only one of its name.
LEMMA NewStep ==
  ASSUME RegistryInv, NEW t \in Http, add_client(t)
  PROVE  RegistryStep
<1>0. /\ PoolInv /\ PoolTypes /\ RequestTypes /\ AddScanned /\ clients \in Seq(Client)
      /\ pos[t] \in Nat \ {0} /\ Len(clients) \in Nat
  BY DEF RegistryInv, PoolInv, PoolTypes
<1>1. PICK c \in Unused : name' = [name EXCEPT ![c] = arg[t]] /\ clients' = Append(clients, c)
  BY DEF add_client
<1>2. /\ at[t] = "scan" /\ pos[t] > Len(clients) /\ op[t] = "add"
      /\ at' = [at EXCEPT ![t] = "call"] /\ UNCHANGED <<op, arg, pos, keep>>
  BY DEF add_client, Scanned
<1>3. \A i \in 1..Len(clients) : name[clients[i]] # arg[t]
  BY <1>0, <1>2 DEF AddScanned
<1>4. arg[t] \notin Names
  BY <1>0, <1>3, NamesAre
<1>5. /\ c \in Client /\ clients' \in Seq(Client) /\ Len(clients') = Len(clients) + 1
      /\ clients'[Len(clients) + 1] = c
      /\ \A i \in 1..Len(clients) : clients'[i] = clients[i] /\ clients[i] # c
  <2>1. c \in Client
    BY DEF Unused
  <2>2. DOMAIN clients = 1..Len(clients)
    BY <1>0, LenProperties
  <2>3. \A i \in 1..Len(clients) : clients[i] # c
    BY <2>2 DEF Unused, Alive, Elems
  <2>4. QED  BY <1>0, <1>1, <2>1, <2>3
<1>6. /\ name'[c] = arg[t]
      /\ \A i \in 1..Len(clients) : name'[clients'[i]] = name[clients[i]]
  BY <1>0, <1>1, <1>5, ElementOfSeq DEF PoolTypes
<1>7. Names' = Names \cup {arg[t]}
  <2>1. \A x : x \in Names' <=> \E i \in 1..Len(clients') : name'[clients'[i]] = x
    BY <1>5 DEF Names, Elems
  <2>2. \A i : i \in 1..Len(clients') <=> i \in 1..Len(clients) \/ i = Len(clients) + 1
    BY <1>0, <1>5
  <2>3. \A x : x \in Names' <=> x \in Names \/ x = arg[t]
    BY <1>0, <1>5, <1>6, <2>1, <2>2, NamesAre
  <2>4. QED  BY <2>3
<1>8. \A u \in Http : at[u] = "scan" => u = t
  BY <1>0, <1>2, OneScan
<1>9. QED  BY <1>2, <1>4, <1>7, <1>8, Acts DEF Stage

\* What remove has kept is all but the name it removes.
LEMMA GoneStep ==
  ASSUME RegistryInv, NEW t \in Http, remove_client(t)
  PROVE  RegistryStep
<1>0. /\ PoolInv /\ PoolTypes /\ KeptScanned /\ KeptExact /\ clients \in Seq(Client)
      /\ keep[t] \in Seq(Client) /\ pos[t] \in Nat \ {0} /\ Len(clients) \in Nat
  BY DEF RegistryInv, PoolInv, PoolTypes
<1>1. /\ at[t] = "scan" /\ pos[t] > Len(clients) /\ op[t] = "remove" /\ clients' = keep[t]
      /\ at' = [at EXCEPT ![t] = "found"] /\ UNCHANGED <<name, op, arg, pos, keep>>
  BY DEF remove_client, Scanned
<1>2. /\ \A k \in 1..Len(keep[t]) : \E i \in 1..Len(clients) : keep[t][k] = clients[i]
      /\ \A k \in 1..Len(keep[t]) : name[keep[t][k]] # arg[t]
      /\ \A i \in 1..Len(clients) : name[clients[i]] # arg[t] =>
           \E k \in 1..Len(keep[t]) : keep[t][k] = clients[i]
  <2>1. \A i \in 1..Len(clients) : i < pos[t]
    BY <1>0, <1>1
  <2>2. QED  BY <1>0, <1>1, <2>1 DEF KeptScanned, KeptExact
<1>3. Names' = Names \ {arg[t]}
  <2>1. \A x : x \in Names' <=> \E k \in 1..Len(keep[t]) : name[keep[t][k]] = x
    <3>1. DOMAIN clients' = 1..Len(keep[t])
      BY <1>0, <1>1, LenProperties
    <3>2. QED  BY <1>1, <3>1 DEF Names, Elems
  <2>2. \A x : x \in Names' <=> x \in Names /\ x # arg[t]
    BY <1>0, <1>2, <2>1, NamesAre
  <2>3. QED  BY <2>2
<1>4. \A u \in Http : at[u] = "scan" => u = t
  BY <1>0, <1>1, OneScan
<1>5. QED  BY <1>1, <1>3, <1>4, Acts DEF Stage

\* What the handlers do with their clients, the main loop and the reconnect
\* threads is nothing to the registry.
LEMMA QuietStep ==
  ASSUME RegistryInv, UNCHANGED <<clients, op, arg, pos>>, name' = name,
         at' \in [Http -> Stage],
         \A t \in Http : \/ at'[t] = at[t] /\ (at[t] = "scan" => keep'[t] = keep[t])
                         \/ {at[t], at'[t]} \subseteq {"use", "list", "call", "connect", "found"}
  PROVE  RegistryStep
<1>0. PoolTypes /\ Requested /\ MissScanned /\ KeptExact
  BY DEF RegistryInv, PoolInv
<1>1. Requested'
  <2>1. SUFFICES ASSUME NEW t \in Http
                 PROVE  /\ at'[t] # "done" => op[t] \in AllOps /\ arg[t] \in Name
                        /\ at'[t] = "scan" => op[t] # "list"
    BY DEF Requested
  <2>2. at'[t] = "scan" => at[t] = "scan"
    OBVIOUS
  <2>3. at'[t] # "done" => at[t] # "done"
    OBVIOUS
  <2>4. QED  BY <1>0, <2>2, <2>3 DEF Requested
<1>2. MissScanned' /\ KeptExact'
  <2>1. \A t \in Http : at'[t] = "scan" => at[t] = "scan" /\ keep'[t] = keep[t]
    OBVIOUS
  <2>2. QED  BY <1>0, <2>1, ScansKept
<1>3. StageMap' = StageMap
  <2>1. \A t \in Http : Mapped(at'[t]) = Mapped(at[t])
    <3>1. TAKE t \in Http
    <3>2. CASE at'[t] = at[t]
      BY <3>2
    <3>3. CASE {at[t], at'[t]} \subseteq {"use", "list", "call", "connect", "found"}
      <4>1. at[t] \in Stage /\ at'[t] \in Stage
        BY <1>0 DEF PoolTypes
      <4>2. Mapped(at[t]) = "found" /\ Mapped(at'[t]) = "found"
        BY <3>3, <4>1, MappedStage
      <4>3. QED  BY <4>2
    <3>4. QED  BY <3>2, <3>3
  <2>2. QED  BY <2>1 DEF StageMap
<1>4. QED  BY <1>1, <1>2, <1>3, Stutters DEF RegistryStep

\* Every step of the pool and of those who work with it.
LEMMA RegistrySteps ==
  ASSUME ServerNames = {}, RegistryInv, [Next]_vars
  PROVE  RegistryStep
<1>0. at \in [Http -> Stage] /\ keep \in [Http -> Seq(Client)]
      /\ name \in [Client -> Name \cup ServerNames \cup {Nobody}]
  BY DEF RegistryInv, PoolInv, PoolTypes
<1>1. ASSUME NEW t \in Http, ClientSteps(t) \/ connect_returns(t) PROVE RegistryStep
  <2>1. UNCHANGED <<clients, op, arg, pos>> /\ name' = name
    BY <1>1 DEF ClientSteps, use_client, list_next, call_connect, connect_returns
  <2>2. /\ at[t] \in {"use", "list", "call", "connect"}
        /\ \/ at' = at
           \/ at' = [at EXCEPT ![t] = "found"]
           \/ at' = [at EXCEPT ![t] = "connect"]
        /\ \A u \in Http : u # t => keep'[u] = keep[u]
    BY <1>0, <1>1 DEF ClientSteps, use_client, list_next, call_connect, connect_returns
  <2>3. at' \in [Http -> Stage]
    BY <1>0, <2>2 DEF Stage
  <2>4. \A u \in Http :
           \/ at'[u] = at[u] /\ (at[u] = "scan" => keep'[u] = keep[u])
           \/ {at[u], at'[u]} \subseteq {"use", "list", "call", "connect", "found"}
    BY <1>0, <2>2
  <2>5. QED  BY <2>1, <2>3, <2>4, QuietStep
<1>2. ASSUME name' = name, UNCHANGED <<clients, reqVars>> PROVE RegistryStep
  BY <1>0, <1>2, QuietStep DEF reqVars
<1>3. CASE MainNext
  <2>1. CASE handle
    <3>1. name' = name
      BY <1>0, <2>1 DEF handle
    <3>2. QED  BY <1>2, <2>1, <3>1 DEF handle
  <2>2. CASE ~ handle
    BY <1>2, <1>3, <2>2 DEF MainNext, main_copy, poll_done, main_sleep, poll_event, redirect_connect,
       redirect_returns, link_lost
  <2>3. QED  BY <2>1, <2>2
<1>4. CASE (\E c \in Client : ReconNext(c)) \/ UNCHANGED vars
  BY <1>2, <1>4 DEF ReconNext, recon_connect, recon_returns, vars
<1>5. ASSUME NEW t \in Http, PoolSteps(t) PROVE RegistryStep
  BY <1>5, ScanBegins, ScanGoesOn, HitStep, MissStep, ListStep, NewStep, GoneStep DEF PoolSteps
<1>6. QED
  BY <1>1, <1>3, <1>4, <1>5, AskStep, ReplyStep DEF Next

\* For any number of handlers, clients and names, unless the game server renames
\* bots: each request that goes through ClientPool, however its scan interleaves
\* with the others and with the bots, acts on the set of names at one instant.
THEOREM PoolImplementsRegistry == ServerNames = {} => (Spec => PoolIsRegistry)
<1> SUFFICES ASSUME ServerNames = {} PROVE Spec => PoolIsRegistry
  OBVIOUS
<1>1. Init => RegistryInv /\ R!RInit
  <2> SUFFICES ASSUME Init PROVE RegistryInv /\ R!RInit
    OBVIOUS
  <2>1. \A t \in Http : at[t] = "done"
    BY DEF Init
  <2>2. Requested /\ MissScanned /\ KeptExact
    BY <2>1 DEF Requested, MissScanned, KeptExact
  <2>3. Names = {}
    BY DEF Init, Names, Elems
  <2>4. StageMap = [t \in Http |-> "done"]
    <3>1. "done" \in Stage
      BY DEF Stage
    <3>2. QED  BY <2>1, <3>1, MappedStage DEF StageMap
  <2>5. R!RInit
    BY <2>3, <2>4 DEF R!RInit, Init, Names, StageMap, Mapped
  <2>6. QED  BY <2>2, <2>5, PoolInit DEF RegistryInv
<1>2. RegistryInv /\ [Next]_vars => RegistryInv' /\ [R!RNext]_(R!rvars)
  BY PoolInductive, RegistrySteps DEF RegistryInv, RegistryStep
<1>3. QED  BY <1>1, <1>2, PTL DEF Spec, PoolIsRegistry, R!RSpec
=============================================================================
