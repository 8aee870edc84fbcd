------------------------------ MODULE ClientConn ------------------------------
(***************************************************************************)
(* The connection of one bot: Client::connect, disconnect, send_packet,    *)
(* get_ping and service_poll, the login data they share, and the detached  *)
(* threads service_poll starts when the link is lost.                      *)
(*                                                                         *)
(* Three kinds of threads work on a Client:                                *)
(*   - the main thread polls it in a loop, WITHOUT taking Client::m_mutex; *)
(*   - the HTTP handlers connect, disconnect, send and read the ping;      *)
(*   - one detached thread per lost link calls connect() until it works.   *)
(* connect() holds m_mutex from its first line to its return, across all   *)
(* its network requests, so it is a sequence of steps here; every other    *)
(* critical section is short and is one step.  All of these requests have  *)
(* a time limit but the two of growidLogin, which may get no answer ever.  *)
(*                                                                         *)
(* Pointers are abstracted to what can be told about them: "null", "live"  *)
(* (points into an ENet host that exists) or "stale" (it points into one   *)
(* that was destroyed).  A use of freed memory or of a null host ends the  *)
(* process or happens to be harmless: fault records the first case, after  *)
(* which nothing happens.                                                  *)
(***************************************************************************)
EXTENDS Naturals

CONSTANTS
  Main,      \* the thread that runs main() and calls service_poll
  Http,      \* the threads that run HTTP handlers
  Recon,     \* slots for detached reconnect threads (a bound: a lost link
             \* is only reported to service_poll while a slot is free)
  NoThread,  \* m_mutex is not held
  HttpOps    \* the requests the HTTP clients send, of AllHttpOps

AllHttpOps == {"reconnect", "disconnect", "send", "ping"}

ASSUME ThreadAssumption ==
  /\ Main \notin Http \cup Recon
  /\ Http \cap Recon = {}
  /\ Http # {}
  /\ NoThread \notin {Main} \cup Http \cup Recon
  /\ HttpOps \subseteq AllHttpOps

Thread == {Main} \cup Http \cup Recon

VARIABLES
  lock,     \* the holder of Client::m_mutex
  host,     \* Client::m_host
  hosts,    \* how many ENet hosts this client created and did not destroy
  peer,     \* Client::m_peer
  link,     \* the one outgoing peer of the live host
  dialled,  \* the server that peer was dialled to
  status,   \* Client::status
  addr,     \* m_login_info.m_address and m_port: "" when either is unset
  meta,     \* m_login_info.m_meta: "" or "set"
  ltoken,   \* m_login_info.m_ltoken: "" or "set"
  session,  \* m_user, m_token and m_uuid_token of m_login_info
  pc,       \* what each thread does
  svc,      \* the host the main thread is working on, in enet_host_service
            \* or in a handler of one of its events
  fault     \* the use of a dead object that ended the process

enetVars  == <<host, hosts, peer, link, dialled>>
loginVars == <<addr, meta, ltoken, session>>
vars == <<lock, enetVars, status, loginVars, pc, svc, fault>>

InConnect == {"create", "server", "app", "token", "stalled", "dial"}
MainPC    == {"idle", "call", "service", "reply", "world", "redirect", "bye",
              "connect"}
ReconPC   == {"free", "connect", "failed", "sleep"}
HttpPC    == {"idle", "connect"}
Label     == InConnect \cup MainPC \cup ReconPC \cup HttpPC

EnetOK ==
  /\ host \in {"null", "live"}
  /\ hosts \in Nat
  /\ peer \in {"null", "live", "stale"}
  /\ link \in {"none", "connecting", "connected", "down"}
  /\ dialled \in {"none", "login", "game"}
  /\ svc \in {"none", "live", "stale"}

LoginOK ==
  /\ addr \in {"", "login", "game"}
  /\ meta \in {"", "set"}
  /\ ltoken \in {"", "set"}
  /\ session \in {"none", "full", "uuid_only"}

OutcomeOK ==
  /\ lock \in Thread \cup {NoThread}
  /\ status \in {"OFFLINE", "CONNECTED", "DISCONNECTED", "ONLINE",
                 "FORBIDDEN", "FORBIDDEN1", "LOGINFAILED"}
  /\ fault \in {"none", "null_host", "freed_host", "stale_peer", "enet_race"}

TypeOK == EnetOK /\ LoginOK /\ OutcomeOK /\ pc \in [Thread -> Label]

(***************************************************************************)
(* ClientPool::add has made the client and put it in the pool; the handler *)
(* that did so, on_add, is about to call connect().                        *)
(***************************************************************************)
Init ==
  /\ lock = NoThread
  /\ host = "null" /\ hosts = 0 /\ peer = "null"
  /\ link = "none" /\ dialled = "none"
  /\ status = "OFFLINE"
  /\ addr = "" /\ meta = "" /\ ltoken = "" /\ session = "none"
  /\ \E adder \in Http :
       pc = [t \in Thread |-> IF t = adder THEN "connect"
                              ELSE IF t \in Recon THEN "free" ELSE "idle"]
  /\ svc = "none"
  /\ fault = "none"

Goto(t, l) == pc' = [pc EXCEPT ![t] = l]

\* The main thread is in enet_host_service, on a host that still exists.
HostInService == pc[Main] = "service" /\ svc = "live"

Destroyed(p) == IF p = "live" THEN "stale" ELSE p

-----------------------------------------------------------------------------
(***************************************************************************)
(* The login data.                                                         *)
(***************************************************************************)

\* Mutant: the redirect or server_data address is not cleared.
login_info_reset_keeps_address ==
  /\ meta' = ""
  /\ session' = IF session = "none" THEN "none" ELSE "uuid_only"
  /\ UNCHANGED <<addr, ltoken>>

\* LoginInfo::reset keeps m_ltoken and m_uuid_token.
login_info_reset ==
  /\ addr' = ""
  /\ meta' = ""
  /\ session' = IF session = "none" THEN "none" ELSE "uuid_only"
  /\ UNCHANGED ltoken

-----------------------------------------------------------------------------
\* Mutant: the loop of the reconnect thread goes on although connect worked.
AfterConnect_loops(t, ok) ==
  IF t = Main THEN "call" ELSE IF t \in Http THEN "idle" ELSE "failed"

(***************************************************************************)
(* Client::connect, by thread t.  It returns to the loop of service_poll,  *)
(* to the HTTP handler, or to the loop of the reconnect thread.            *)
(***************************************************************************)
AfterConnect(t, ok) ==
  IF t = Main THEN "call"
  ELSE IF t \in Http THEN "idle"
  ELSE IF ok THEN "free" ELSE "failed"

Return(t, ok) == lock' = NoThread /\ Goto(t, AfterConnect(t, ok))

\* Mutant: the host is destroyed without looking whether there is one.
destroy_host_unchecked ==
  /\ host' = "null" /\ hosts' = hosts - 1
  /\ link' = "none" /\ dialled' = "none"
  /\ svc' = Destroyed(svc)

\* enet_host_destroy(m_host), if there is one: m_peer keeps its old value.
destroy_host ==
  /\ host' = "null"
  /\ hosts' = IF host = "live" THEN hosts - 1 ELSE hosts
  /\ link' = "none" /\ dialled' = "none"
  /\ svc' = Destroyed(svc)

\* Mutant: connect() works without the lock.
connect_begin_unlocked(t, reset) ==
  /\ lock' = t
  /\ IF reset THEN login_info_reset ELSE UNCHANGED loginVars
  /\ destroy_host
  /\ peer' = Destroyed(peer)
  /\ Goto(t, "create")
  /\ UNCHANGED <<status, fault>>

\* The lock, the optional reset and the end of the old host.
connect_begin(t, reset) ==
  /\ lock = NoThread
  /\ lock' = t
  /\ IF reset THEN login_info_reset ELSE UNCHANGED loginVars
  /\ destroy_host
  /\ peer' = Destroyed(peer)
  /\ Goto(t, "create")
  /\ UNCHANGED <<status, fault>>

connect(t) == pc[t] = "connect" /\ connect_begin(t, FALSE)

\* enet_host_create and the range coder: both may fail.
host_create_fails(t) ==
  /\ pc[t] = "create"
  /\ \/ UNCHANGED <<host, hosts>>
     \/ host' = "live" /\ hosts' = hosts + 1
  /\ Return(t, FALSE)
  /\ UNCHANGED <<peer, link, dialled, status, loginVars, svc, fault>>

host_create(t) ==
  /\ pc[t] = "create"
  /\ host' = "live" /\ hosts' = hosts + 1
  /\ Goto(t, IF addr = "" THEN "server" ELSE "dial")
  /\ UNCHANGED <<lock, peer, link, dialled, status, loginVars, svc, fault>>

\* A step of connect that fails and leaves st as the status.
Fails(t, st) ==
  /\ Return(t, FALSE)
  /\ status' = st
  /\ UNCHANGED <<host, hosts, link, dialled, svc, fault>>

\* LoginInfo::request_server_data.  The address and the port are stored as
\* they are parsed, so an answer without the meta field fails with both set.
server_data_fails(t) ==
  /\ pc[t] = "server"
  /\ \/ UNCHANGED addr
     \/ meta = "" /\ addr' = "login"
  /\ Fails(t, "FORBIDDEN")
  /\ UNCHANGED <<peer, meta, ltoken, session>>

request_server_data(t) ==
  /\ pc[t] = "server"
  /\ addr' \in {"", "login"}          \* "": the port in the answer is 0
  /\ meta' = "set"
  /\ Goto(t, "app")
  /\ UNCHANGED <<lock, enetVars, status, ltoken, session, svc, fault>>

\* Mutant: connect() itself tries again, with the lock held.
app_data_fails_retries(t) ==
  /\ pc[t] = "app"
  /\ status' = "FORBIDDEN1"
  /\ Goto(t, "server")
  /\ UNCHANGED <<lock, enetVars, loginVars, svc, fault>>

app_data_fails(t) ==
  /\ pc[t] = "app"
  /\ Fails(t, "FORBIDDEN1") \/ Fails(t, "FORBIDDEN")
  /\ UNCHANGED <<peer, loginVars>>

request_app_data(t) ==
  /\ pc[t] = "app"
  /\ Goto(t, "token")
  /\ UNCHANGED <<lock, enetVars, status, loginVars, svc, fault>>

\* Up to five attempts to get a login token, none if there is one already;
\* an exception sets the status, five refusals do not.
growid_login_fails(t) ==
  /\ pc[t] = "token"
  /\ ltoken = ""
  /\ Fails(t, status) \/ Fails(t, "FORBIDDEN")
  /\ UNCHANGED <<peer, loginVars>>

\* growidLogin sets no CURLOPT_TIMEOUT: a login server that takes the request
\* and never answers keeps the thread there, with m_mutex.
growid_login_stalls(t) ==
  /\ pc[t] = "token"
  /\ ltoken = ""
  /\ Goto(t, "stalled")
  /\ UNCHANGED <<lock, enetVars, status, loginVars, svc, fault>>

\* The token is there, but not the address: FORBIDDEN.
address_invalid(t) ==
  /\ pc[t] = "token"
  /\ addr = ""
  /\ ltoken' = "set"
  /\ Fails(t, "FORBIDDEN")
  /\ UNCHANGED <<peer, addr, meta, session>>

growid_login(t) ==
  /\ pc[t] = "token"
  /\ addr # ""
  /\ ltoken' = "set"
  /\ Goto(t, "dial")
  /\ UNCHANGED <<lock, enetVars, status, addr, meta, session, svc, fault>>

\* enet_address_set_host_ip refuses the address (which stays), or
\* enet_host_connect has no peer to give (and the address is gone).
dial_fails(t) ==
  /\ pc[t] = "dial"
  /\ \/ UNCHANGED <<addr, peer>>
     \/ addr # "" /\ addr' = "" /\ peer' = "null"
  /\ Fails(t, "FORBIDDEN")
  /\ UNCHANGED <<meta, ltoken, session>>

\* Mutant: connect() waits until the link is up.
dial_waits(t) ==
  /\ pc[t] = "dial"
  /\ addr # ""
  /\ peer' = "live" /\ link' = "connected" /\ dialled' = addr
  /\ addr' = ""
  /\ Return(t, TRUE)
  /\ UNCHANGED <<host, hosts, status, meta, ltoken, session, svc, fault>>

dial(t) ==
  /\ pc[t] = "dial"
  /\ addr # ""
  /\ peer' = "live" /\ link' = "connecting" /\ dialled' = addr
  /\ addr' = ""
  /\ Return(t, TRUE)
  /\ \/ fault' = "none"
     \/ HostInService /\ fault' = "enet_race"
  /\ UNCHANGED <<host, hosts, status, meta, ltoken, session, svc>>

ConnectSteps(t) ==
  \/ connect(t)
  \/ host_create(t)         \/ host_create_fails(t)
  \/ request_server_data(t) \/ server_data_fails(t)
  \/ request_app_data(t)    \/ app_data_fails(t)
  \/ growid_login(t)        \/ growid_login_fails(t) \/ address_invalid(t)
  \/ growid_login_stalls(t)
  \/ dial(t)                \/ dial_fails(t)

-----------------------------------------------------------------------------
(***************************************************************************)
(* send_packet reads m_peer->state under the lock, get_ping without it: a  *)
(* stale m_peer is a read of freed memory.  A packet sent while the main   *)
(* thread, which does not take the lock, services the same host is a data  *)
(* race in ENet.                                                           *)
(***************************************************************************)
ReadPeer ==
  \/ fault' = "none"
  \/ peer = "stale" /\ fault' = "stale_peer"

send_packet ==
  /\ lock = NoThread
  /\ \/ ReadPeer
     \/ link = "connected" /\ HostInService /\ fault' = "enet_race"

\* The requests of the HTTP API that reach the connection.
on_reconnect(t) ==
  /\ "reconnect" \in HttpOps
  /\ pc[t] = "idle"
  /\ connect_begin(t, TRUE)

on_disconnect(t) ==
  /\ "disconnect" \in HttpOps
  /\ pc[t] = "idle"
  /\ lock = NoThread
  /\ destroy_host
  /\ peer' = "null"
  /\ ReadPeer                         \* enet_peer_reset(m_peer)
  /\ UNCHANGED <<lock, status, loginVars, pc>>

on_send(t) ==
  /\ "send" \in HttpOps
  /\ pc[t] = "idle"
  /\ send_packet
  /\ UNCHANGED <<lock, enetVars, status, loginVars, pc, svc>>

on_ping(t) ==
  /\ "ping" \in HttpOps
  /\ pc[t] = "idle"
  /\ ReadPeer
  /\ UNCHANGED <<lock, enetVars, status, loginVars, pc, svc>>

HttpNext(t) ==
  on_reconnect(t) \/ on_disconnect(t) \/ on_send(t) \/ on_ping(t)

-----------------------------------------------------------------------------
(***************************************************************************)
(* The detached thread: while (!connect() && auto_reconnect) { reset;      *)
(* login_info.reset; sleep }.  auto_reconnect is true and never assigned.  *)
(* Both resets run without the lock.                                       *)
(***************************************************************************)
reconnect_reset(r) ==
  /\ pc[r] = "failed"
  /\ login_info_reset
  /\ Goto(r, "sleep")
  /\ UNCHANGED <<lock, enetVars, status, svc, fault>>

reconnect_wake(r) ==
  /\ pc[r] = "sleep"
  /\ Goto(r, "connect")
  /\ UNCHANGED <<lock, enetVars, status, loginVars, svc, fault>>

ReconNext(r) == reconnect_reset(r) \/ reconnect_wake(r)

-----------------------------------------------------------------------------
(***************************************************************************)
(* Client::service_poll, on the main thread, without the lock.             *)
(***************************************************************************)
poll_begin ==
  /\ pc[Main] = "idle"
  /\ host # "null" /\ peer # "null"
  /\ Goto(Main, "call")
  /\ UNCHANGED <<lock, enetVars, status, loginVars, svc, fault>>

\* enet_host_service(m_host, ...) reads m_host again.
poll_call ==
  /\ pc[Main] = "call"
  /\ \/ /\ host = "live"
        /\ svc' = "live" /\ Goto(Main, "service")
        /\ UNCHANGED fault
     \/ /\ host = "null"
        /\ fault' = "null_host"
        /\ UNCHANGED <<svc, pc>>
  /\ UNCHANGED <<lock, enetVars, status, loginVars>>

\* The host was destroyed while enet_host_service was working on it.
poll_freed ==
  /\ pc[Main] = "service"
  /\ svc = "stale"
  /\ fault' \in {"none", "freed_host"}
  /\ svc' = "none" /\ Goto(Main, "idle")
  /\ UNCHANGED <<lock, enetVars, status, loginVars>>

\* No event, or a game packet that is too short: service_poll returns.
poll_end ==
  /\ HostInService
  /\ svc' = "none" /\ Goto(Main, "idle")
  /\ UNCHANGED <<lock, enetVars, status, loginVars, fault>>

event_connect ==
  /\ HostInService
  /\ link = "connecting"
  /\ link' = "connected"
  /\ status' = "CONNECTED"
  /\ svc' = "none" /\ Goto(Main, "call")
  /\ UNCHANGED <<lock, host, hosts, peer, dialled, loginVars, fault>>

\* DISCONNECT sets the status, DISCONNECT_TIMEOUT does not; both start a
\* reconnect thread.
link_lost(r, st) ==
  /\ HostInService
  /\ link \in {"connecting", "connected"}
  /\ pc[r] = "free"
  /\ link' = "down"
  /\ status' = st
  /\ pc' = [pc EXCEPT ![Main] = "call", ![r] = "connect"]
  /\ svc' = "none"
  /\ UNCHANGED <<lock, host, hosts, peer, dialled, loginVars, fault>>

event_disconnect(r) == link_lost(r, "DISCONNECTED")
event_timeout(r)    == link_lost(r, status)

\* A message from the server, to the handler l: one that answers with a
\* packet (SERVER_HELLO: login; also ping requests and OnSuperMain), the map
\* or the world menu, or OnSendToServer.
event_receive(l) ==
  /\ HostInService
  /\ link = "connected"
  /\ Goto(Main, l)
  /\ UNCHANGED <<lock, enetVars, status, loginVars, svc, fault>>

\* track_packet, Authentication_error: the status, and for an IP ban (which
\* has a status of its own, not told apart here) LoginInfo::reset, unlocked.
authentication_error ==
  /\ HostInService
  /\ link = "connected"
  /\ status' = "LOGINFAILED"
  /\ login_info_reset \/ UNCHANGED loginVars
  /\ svc' = "none" /\ Goto(Main, "call")
  /\ UNCHANGED <<lock, enetVars, fault>>

\* The handlers of the main thread that need the lock.
handle_reply ==
  /\ pc[Main] = "reply"
  /\ send_packet
  /\ svc' = "none" /\ Goto(Main, "call")
  /\ UNCHANGED <<lock, enetVars, status, loginVars>>

handle_world ==
  /\ pc[Main] = "world"
  /\ lock = NoThread
  /\ status' = "ONLINE"
  /\ svc' = "none" /\ Goto(Main, "call")
  /\ UNCHANGED <<lock, enetVars, loginVars, fault>>

OnSendToServer ==
  /\ pc[Main] = "redirect"
  /\ lock = NoThread
  /\ addr' = "game" /\ session' = "full"
  /\ Goto(Main, "bye")
  /\ UNCHANGED <<lock, enetVars, status, meta, ltoken, svc, fault>>

\* ... then the DISCONNECT packet, and connect().
redirect_bye ==
  /\ pc[Main] = "bye"
  /\ send_packet
  /\ Goto(Main, "connect")
  /\ UNCHANGED <<lock, enetVars, status, loginVars, svc>>

MainNext ==
  \/ poll_begin \/ poll_call \/ poll_freed \/ poll_end
  \/ event_connect
  \/ \E r \in Recon : event_disconnect(r) \/ event_timeout(r)
  \/ \E l \in {"reply", "world", "redirect"} : event_receive(l)
  \/ authentication_error
  \/ handle_reply \/ handle_world
  \/ OnSendToServer \/ redirect_bye

-----------------------------------------------------------------------------
ThreadNext ==
  \/ MainNext
  \/ \E t \in Http : HttpNext(t)
  \/ \E r \in Recon : ReconNext(r)
  \/ \E t \in Thread : ConnectSteps(t)

\* The process has ended.
Crashed == fault # "none" /\ UNCHANGED vars

\* A login request is never answered; the thread waits on.
Hung == (\E t \in Thread : pc[t] = "stalled") /\ UNCHANGED vars

Next == (fault = "none" /\ ThreadNext) \/ Crashed \/ Hung

Spec == Init /\ [][Next]_vars
(***************************************************************************)
(* Fairness.  Every thread is scheduled, and every network request with a   *)
(* time limit ends, so a thread inside connect() takes its next step, or    *)
(* stalls in growidLogin; nothing gets it out of there.  For the recovery   *)
(* of a lost link more is assumed: a thread that wants m_mutex again and    *)
(* again gets it, and a service that is asked again and again (and did not  *)
(* stall) answers in the end.                                               *)
(***************************************************************************)
Alive(A) == fault = "none" /\ A

ConnectFair == \A t \in Thread : WF_vars(Alive(ConnectSteps(t) /\ pc[t] # "connect"))

NetworkFair ==
  \A r \in Recon :
    /\ WF_vars(Alive(ReconNext(r)))
    /\ SF_vars(Alive(connect(r)))
    /\ SF_vars(Alive(host_create(r)))
    /\ SF_vars(Alive(request_server_data(r) /\ addr' # ""))
    /\ SF_vars(Alive(request_app_data(r) /\ addr # ""))
    /\ SF_vars(Alive(growid_login(r)))
    /\ SF_vars(Alive(dial(r)))

FairSpec == Spec /\ ConnectFair

RecoverySpec == FairSpec /\ NetworkFair

-----------------------------------------------------------------------------
(***************************************************************************)
(* What holds whatever the threads do.                                     *)
(***************************************************************************)

\* Mutual exclusion over the whole of connect(), network requests included:
\* the thread that is inside is the holder of m_mutex.
ConnectExclusive == \A t \in Thread : pc[t] \in InConnect <=> lock = t

\* However connects, failures, disconnects and redirects follow each other,
\* no ENet host is leaked: one exists exactly when m_host points to it.
OneHost == hosts = IF host = "live" THEN 1 ELSE 0

\* m_peer points to a peer of the live host exactly when that host has a
\* peer: a dial that worked is never forgotten, and m_peer can be stale only
\* while the client has no link at all.
PeerIsLink == (peer = "live" <=> link # "none") /\ (link # "none" => host = "live")

\* Both: what connect() and disconnect() build and tear down on three kinds of
\* threads is at every step one whole connection, or none.
HostAndPeer == OneHost /\ PeerIsLink

\* The answer to a message (the login after SERVER_HELLO among them) never
\* goes out on another connection than the one the message came from,
\* although the handler waits for the lock and the other threads may replace
\* the connection meanwhile: the new one cannot be up before the main thread
\* polls again.
ReplyOnSameLink ==
  pc[Main] \in {"reply", "bye"} /\ svc = "stale" => link # "connected"

\* m_mutex, which the pool and with it every HTTP request waits for: connect()
\* gives it back on each of its paths, and the one thing that can make a thread
\* keep it for ever is a login request that is never answered.
LockReleased ==
  \A t \in Thread : lock = t ~> lock # t \/ pc[t] = "stalled" \/ fault # "none"

\* Not so: the destroyers of a host hold m_mutex, the main thread, which may be
\* working on that host, does not ask for it.
NoFreedHost == fault # "freed_host"

\* Every reconnect thread comes to an end, which it does only after a dial
\* that worked, unless some thread stalls in growidLogin: its own connect() or
\* one that it waits for.
ReconnectorFinishes ==
  \A r \in Recon :
    pc[r] # "free" ~>
      pc[r] = "free" \/ fault # "none" \/ \E t \in Thread : pc[t] = "stalled"
=============================================================================
