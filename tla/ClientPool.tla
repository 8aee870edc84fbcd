------------------------------ MODULE ClientPool ------------------------------
(***************************************************************************)
(* The bots of one process and those who work with them: the HTTP handlers *)
(* (http_server.cpp), which look a bot up in ClientPool (client_pool.cpp)  *)
(* and then call it, the main loop (main.cpp), which copies the list and   *)
(* polls each bot, and the detached reconnect threads.                     *)
(*                                                                         *)
(* Two kinds of mutexes nest: the pool's, and under it each client's, one  *)
(* after the other, while the names are compared.  connect() holds the     *)
(* client's mutex for as long as its network requests take (its inside is  *)
(* module ClientConn), so whoever scans the pool may wait for it with the  *)
(* pool locked.                                                            *)
(***************************************************************************)
EXTENDS Naturals, FiniteSets, Sequences

CONSTANTS
  Main,         \* the thread that runs main()
  Http,         \* the threads that run HTTP handlers
  Client,       \* the Client objects that can exist at a time (a bound: an
                \* add starts while there is memory for one)
  Name,         \* what the requests call bots
  ServerNames,  \* what the game server may rename a bot to (SetHasGrowID)
  Ops,          \* the requests sent, of AllOps
  Events,       \* what the main loop meets, of AllEvents
  Nobody        \* a mutex is free, a request has no client, a client no name

\* "use" stands for the handlers that look up a bot and work under its mutex;
\* on_disconnect is one of them.
AllOps == {"add", "remove", "use", "connect", "list"}

\* An event whose handler takes the bot's mutex, a redirect (which connects),
\* a lost link (which starts a reconnect thread).
AllEvents == {"handle", "call", "lost"}

ASSUME PoolAssumption ==
  /\ Main \notin Http
  /\ {Main} \cap Client = {} /\ Http \cap Client = {}
  /\ Nobody \notin {Main} \cup Http \cup Client \cup Name \cup ServerNames
  /\ Ops \subseteq AllOps /\ Events \subseteq AllEvents

\* The reconnect thread of a client goes by the client.
Holder == {Main} \cup Http \cup Client

VARIABLES
  lock,     \* the holder of ClientPool::m_mutex
  clients,  \* ClientPool::m_clients
  mutex,    \* the holder of each Client::m_mutex
  name,     \* m_login_info.m_tank_id_name
  recon,    \* the reconnect thread of each client
  main,     \* where the main loop is
  snap,     \* its copy of the list, from the bot it polls on
  at,       \* where each HTTP handler is
  op, arg,  \* its request: the option, and tank_id_name
  pos,      \* the index it has reached in m_clients
  keep,     \* what remove has kept so far; what list has left to report
  ref       \* the client it got from the pool

reqVars == <<at, op, arg, pos, keep, ref>>
vars == <<lock, clients, mutex, name, recon, main, snap, reqVars>>

Stage == {"done", "lock", "scan", "use", "list", "call", "connect", "refused", "found"}

TypeOK ==
  /\ lock \in Http \cup {Nobody}
  /\ clients \in Seq(Client)
  /\ mutex \in [Client -> Holder \cup {Nobody}]
  /\ name \in [Client -> Name \cup ServerNames \cup {Nobody}]
  /\ recon \in [Client -> {"none", "wait", "connect"}]
  /\ main \in {"copy", "poll", "handle", "call", "connect"}
  /\ snap \in Seq(Client)
  /\ at \in [Http -> Stage]
  /\ op \in [Http -> AllOps \cup {Nobody}]
  /\ arg \in [Http -> Name \cup {Nobody}]
  /\ pos \in [Http -> Nat]
  /\ keep \in [Http -> Seq(Client)]
  /\ ref \in [Http -> Client \cup {Nobody}]

Init ==
  /\ lock = Nobody
  /\ clients = <<>>
  /\ mutex = [c \in Client |-> Nobody]
  /\ name = [c \in Client |-> Nobody]
  /\ recon = [c \in Client |-> "none"]
  /\ main = "copy" /\ snap = <<>>
  /\ at = [t \in Http |-> "done"]
  /\ op = [t \in Http |-> Nobody] /\ arg = [t \in Http |-> Nobody]
  /\ pos = [t \in Http |-> 1]
  /\ keep = [t \in Http |-> <<>>]
  /\ ref = [t \in Http |-> Nobody]

Elems(s) == {s[i] : i \in DOMAIN s}

\* A shared_ptr to c exists: in the pool, in the main loop's copy, or in a
\* handler.  A Client without one is destroyed.
Alive(c) ==
  \/ c \in Elems(clients) \cup Elems(snap)
  \/ \E t \in Http : ref[t] = c \/ (at[t] = "list" /\ c \in Elems(keep[t]))

-----------------------------------------------------------------------------
(***************************************************************************)
(* A request: handle_post and the handler of its option.                   *)
(***************************************************************************)
Unused  == {c \in Client : ~ Alive(c) /\ recon[c] = "none"}
Pending == {t \in Http : op[t] = "add" /\ at[t] \in {"lock", "scan"}}

handle_post(t, o, n) ==
  /\ at[t] = "done"
  /\ o = "add" => Cardinality(Pending) < Cardinality(Unused)
  /\ op' = [op EXCEPT ![t] = o] /\ arg' = [arg EXCEPT ![t] = n]
  /\ at' = [at EXCEPT ![t] = "lock"]
  /\ UNCHANGED <<lock, clients, mutex, name, recon, main, snap, pos, keep, ref>>

reply(t) ==
  /\ at[t] \in {"refused", "found"}
  /\ at' = [at EXCEPT ![t] = "done"]
  /\ ref' = [ref EXCEPT ![t] = Nobody]
  /\ op' = [op EXCEPT ![t] = Nobody] /\ arg' = [arg EXCEPT ![t] = Nobody]
  /\ pos' = [pos EXCEPT ![t] = 1] /\ keep' = [keep EXCEPT ![t] = <<>>]
  /\ UNCHANGED <<lock, clients, mutex, name, recon, main, snap>>

-----------------------------------------------------------------------------
(***************************************************************************)
(* ClientPool::add, get and remove: m_mutex is held over the whole scan.   *)
(***************************************************************************)
\* Mutant: the pool is scanned without its mutex.
pool_lock_unlocked(t) ==
  /\ at[t] = "lock" /\ op[t] # "list"
  /\ at' = [at EXCEPT ![t] = "scan"]
  /\ UNCHANGED <<lock, clients, mutex, name, recon, main, snap, op, arg, pos, keep, ref>>

pool_lock(t) ==
  /\ at[t] = "lock" /\ op[t] # "list"
  /\ lock = Nobody /\ lock' = t
  /\ at' = [at EXCEPT ![t] = "scan"]
  /\ UNCHANGED <<clients, mutex, name, recon, main, snap, op, arg, pos, keep, ref>>

\* A client's name is compared under its mutex.
Compares(t) ==
  /\ at[t] = "scan"
  /\ pos[t] <= Len(clients)
  /\ mutex[clients[pos[t]]] = Nobody

Hit(t) == name[clients[pos[t]]] = arg[t]

\* Mutant: remove does not go on after a bot that it erases.
scan_next_stuck(t) ==
  /\ Compares(t)
  /\ ~ Hit(t) \/ op[t] = "remove"
  /\ pos' = [pos EXCEPT ![t] = IF Hit(t) THEN @ ELSE @ + 1]
  /\ keep' = IF op[t] = "remove" /\ ~ Hit(t)
             THEN [keep EXCEPT ![t] = Append(@, clients[pos[t]])] ELSE keep
  /\ UNCHANGED <<lock, clients, mutex, name, recon, main, snap, at, op, arg, ref>>

scan_next(t) ==
  /\ Compares(t)
  /\ ~ Hit(t) \/ op[t] = "remove"
  /\ pos' = [pos EXCEPT ![t] = @ + 1]
  /\ keep' = IF op[t] = "remove" /\ ~ Hit(t)
             THEN [keep EXCEPT ![t] = Append(@, clients[pos[t]])] ELSE keep
  /\ UNCHANGED <<lock, clients, mutex, name, recon, main, snap, at, op, arg, ref>>

\* add: the name is taken.  get: the client is handed to the handler.
scan_hit(t) ==
  /\ Compares(t)
  /\ Hit(t) /\ op[t] # "remove"
  /\ lock' = Nobody
  /\ IF op[t] = "add"
     THEN at' = [at EXCEPT ![t] = "refused"] /\ UNCHANGED ref
     ELSE /\ at' = [at EXCEPT ![t] = IF op[t] = "use" THEN "use" ELSE "call"]
          /\ ref' = [ref EXCEPT ![t] = clients[pos[t]]]
  /\ UNCHANGED <<clients, mutex, name, recon, main, snap, op, arg, pos, keep>>

Scanned(t) == at[t] = "scan" /\ pos[t] > Len(clients)

\* The new client is in the pool before its first connect, and stays there
\* when that fails.
add_client(t) ==
  /\ Scanned(t) /\ op[t] = "add"
  /\ \E c \in Unused :
       /\ name' = [name EXCEPT ![c] = arg[t]]
       /\ clients' = Append(clients, c)
       /\ ref' = [ref EXCEPT ![t] = c]
  /\ lock' = Nobody
  /\ at' = [at EXCEPT ![t] = "call"]
  /\ UNCHANGED <<mutex, recon, main, snap, op, arg, pos, keep>>

get_nothing(t) ==
  /\ Scanned(t) /\ op[t] \in {"use", "connect"}
  /\ lock' = Nobody
  /\ at' = [at EXCEPT ![t] = "refused"]
  /\ UNCHANGED <<clients, mutex, name, recon, main, snap, op, arg, pos, keep, ref>>

remove_client(t) ==
  /\ Scanned(t) /\ op[t] = "remove"
  /\ clients' = keep[t]
  /\ lock' = Nobody
  /\ at' = [at EXCEPT ![t] = "found"]
  /\ UNCHANGED <<mutex, name, recon, main, snap, op, arg, pos, keep, ref>>

\* on_list_clients works on a copy of the list.
get_clients(t) ==
  /\ at[t] = "lock" /\ op[t] = "list"
  /\ lock = Nobody
  /\ keep' = [keep EXCEPT ![t] = clients]
  /\ at' = [at EXCEPT ![t] = "list"]
  /\ UNCHANGED <<lock, clients, mutex, name, recon, main, snap, op, arg, pos, ref>>

PoolSteps(t) ==
  \/ pool_lock(t) \/ scan_next(t) \/ scan_hit(t) \/ get_clients(t)
  \/ add_client(t) \/ get_nothing(t) \/ remove_client(t)

-----------------------------------------------------------------------------
(***************************************************************************)
(* What the handlers do with the clients they got.                         *)
(***************************************************************************)
use_client(t) ==
  /\ at[t] = "use" /\ mutex[ref[t]] = Nobody
  /\ at' = [at EXCEPT ![t] = "found"]
  /\ UNCHANGED <<lock, clients, mutex, name, recon, main, snap, op, arg, pos, keep, ref>>

list_next(t) ==
  /\ at[t] = "list"
  /\ \/ /\ keep[t] # <<>> /\ mutex[Head(keep[t])] = Nobody
        /\ keep' = [keep EXCEPT ![t] = Tail(@)] /\ UNCHANGED at
     \/ /\ keep[t] = <<>> /\ UNCHANGED keep
        /\ at' = [at EXCEPT ![t] = "found"]
  /\ UNCHANGED <<lock, clients, mutex, name, recon, main, snap, op, arg, pos, ref>>

call_connect(t) ==
  /\ at[t] = "call" /\ mutex[ref[t]] = Nobody
  /\ mutex' = [mutex EXCEPT ![ref[t]] = t]
  /\ at' = [at EXCEPT ![t] = "connect"]
  /\ UNCHANGED <<lock, clients, name, recon, main, snap, op, arg, pos, keep, ref>>

\* Mutant: a client whose connect failed is taken out, without the pool's mutex.
connect_returns_cleans_up(t) ==
  /\ at[t] = "connect"
  /\ mutex' = [mutex EXCEPT ![ref[t]] = Nobody]
  /\ clients' \in {clients, SelectSeq(clients, LAMBDA c : c # ref[t])}
  /\ at' = [at EXCEPT ![t] = "found"]
  /\ UNCHANGED <<lock, name, recon, main, snap, op, arg, pos, keep, ref>>

\* Whether it worked is all the same: the client stays where it is.
connect_returns(t) ==
  /\ at[t] = "connect"
  /\ mutex' = [mutex EXCEPT ![ref[t]] = Nobody]
  /\ at' = [at EXCEPT ![t] = "found"]
  /\ UNCHANGED <<lock, clients, name, recon, main, snap, op, arg, pos, keep, ref>>

ClientSteps(t) == use_client(t) \/ list_next(t) \/ call_connect(t)

-----------------------------------------------------------------------------
(***************************************************************************)
(* The main loop.  service_poll handles the events of one bot until there  *)
(* is none; a handler that needs the bot's mutex waits for it.             *)
(***************************************************************************)
\* Mutant: the bots are polled with the pool locked.
main_copy_locks ==
  /\ main = "copy" /\ lock = Nobody
  /\ lock' = Main
  /\ snap' = clients /\ main' = "poll"
  /\ UNCHANGED <<clients, mutex, name, recon, reqVars>>

\* Mutant: the last bot of the list is left out.
main_copy_all_but_last ==
  /\ main = "copy" /\ lock = Nobody
  /\ snap' = SubSeq(clients, 1, Len(clients) - 1) /\ main' = "poll"
  /\ UNCHANGED <<lock, clients, mutex, name, recon, reqVars>>

main_copy ==
  /\ main = "copy" /\ lock = Nobody
  /\ snap' = clients /\ main' = "poll"
  /\ UNCHANGED <<lock, clients, mutex, name, recon, reqVars>>

poll_done ==
  /\ main = "poll" /\ snap # <<>>
  /\ snap' = Tail(snap)
  /\ UNCHANGED <<lock, clients, mutex, name, recon, main, reqVars>>

main_sleep ==
  /\ main = "poll" /\ snap = <<>>
  /\ main' = "copy"
  /\ UNCHANGED <<lock, clients, mutex, name, recon, snap, reqVars>>

\* An event whose handler takes the mutex, or calls connect (OnSendToServer).
poll_event(l) ==
  /\ l \in Events
  /\ main = "poll" /\ snap # <<>>
  /\ main' = l
  /\ UNCHANGED <<lock, clients, mutex, name, recon, snap, reqVars>>

\* SetHasGrowID changes the name, the other handlers do not.
handle ==
  /\ main = "handle" /\ mutex[Head(snap)] = Nobody
  /\ name' \in {[name EXCEPT ![Head(snap)] = n] : n \in ServerNames \cup {name[Head(snap)]}}
  /\ main' = "poll"
  /\ UNCHANGED <<lock, clients, mutex, recon, snap, reqVars>>

redirect_connect ==
  /\ main = "call" /\ mutex[Head(snap)] = Nobody
  /\ mutex' = [mutex EXCEPT ![Head(snap)] = Main]
  /\ main' = "connect"
  /\ UNCHANGED <<lock, clients, name, recon, snap, reqVars>>

redirect_returns ==
  /\ main = "connect"
  /\ mutex' = [mutex EXCEPT ![Head(snap)] = Nobody]
  /\ main' = "poll"
  /\ UNCHANGED <<lock, clients, name, recon, snap, reqVars>>

\* The link is lost: a detached thread, which captures `this` and no reference.
link_lost ==
  /\ "lost" \in Events
  /\ main = "poll" /\ snap # <<>>
  /\ recon[Head(snap)] = "none"
  /\ recon' = [recon EXCEPT ![Head(snap)] = "wait"]
  /\ UNCHANGED <<lock, clients, mutex, name, main, snap, reqVars>>

MainNext ==
  \/ main_copy \/ poll_done \/ main_sleep
  \/ \E l \in {"handle", "call"} : poll_event(l)
  \/ handle \/ redirect_connect \/ redirect_returns
  \/ link_lost

recon_connect(c) ==
  /\ recon[c] = "wait" /\ mutex[c] = Nobody
  /\ mutex' = [mutex EXCEPT ![c] = c]
  /\ recon' = [recon EXCEPT ![c] = "connect"]
  /\ UNCHANGED <<lock, clients, name, main, snap, reqVars>>

recon_returns(c, next) ==
  /\ recon[c] = "connect"
  /\ mutex' = [mutex EXCEPT ![c] = Nobody]
  /\ recon' = [recon EXCEPT ![c] = next]
  /\ UNCHANGED <<lock, clients, name, main, snap, reqVars>>

ReconNext(c) == recon_connect(c) \/ \E next \in {"none", "wait"} : recon_returns(c, next)

-----------------------------------------------------------------------------
Next ==
  \/ \E t \in Http : \/ \E o \in Ops, n \in Name : handle_post(t, o, n)
                     \/ PoolSteps(t) \/ ClientSteps(t)
                     \/ connect_returns(t) \/ reply(t)
  \/ MainNext
  \/ \E c \in Client : ReconNext(c)

Spec == Init /\ [][Next]_vars

(***************************************************************************)
(* Fairness: every thread is scheduled, a thread that wants a mutex again  *)
(* and again gets it, and a bot's server does not send events for ever     *)
(* without a pause.  Nobody promises that a connect() returns: the login   *)
(* request inside it has no time limit (module ClientConn).                *)
(***************************************************************************)
Fairness ==
  /\ \A t \in Http : /\ SF_vars(PoolSteps(t))
                     /\ SF_vars(ClientSteps(t))
                     /\ WF_vars(reply(t))
  /\ SF_vars(main_copy) /\ SF_vars(poll_done) /\ WF_vars(main_sleep)
  /\ SF_vars(handle) /\ SF_vars(redirect_connect)
  /\ \A c \in Client : WF_vars(recon_connect(c))

FairSpec == Spec /\ Fairness

-----------------------------------------------------------------------------
\* However the requests interleave, no two bots of the pool have one name, so
\* that a request always means one bot.  (Needs ServerNames = {}: the rename
\* of SetHasGrowID does not look at the other bots.)
UniqueNames ==
  \A i, j \in DOMAIN clients : name[clients[i]] = name[clients[j]] => i = j

\* Each request acts on the set of registered names at one instant.
R == INSTANCE Registry WITH
       names <- {name[c] : c \in Elems(clients)},
       stage <- [t \in Http |-> CASE at[t] \in {"lock", "scan"} -> "called"
                                  [] at[t] \in {"done", "refused"} -> at[t]
                                  [] OTHER -> "found"]

PoolIsRegistry == R!RSpec

\* No connect() hangs for ever: each client's mutex is free again and again.
ConnectsReturn == \A c \in Client : []<>(mutex[c] = Nobody)

\* Every request is answered, although each may wait for the connect() of any
\* bot, and behind it for the pool: the threads never wait for each other in a
\* circle, and nothing but a connect() that never returns can keep them.
RequestAnswered == ConnectsReturn => \A t \in Http : at[t] # "done" ~> at[t] = "done"

\* The main loop comes back to every bot that stays in the pool, although it
\* waits for the pool, and inside a bot for its mutex; again only a connect()
\* that never returns can end that.
EveryBotPolled ==
  ConnectsReturn =>
    \A c \in Client : []<>(c \notin Elems(clients) \/ (snap # <<>> /\ Head(snap) = c))
=============================================================================
