--------------------------- MODULE ClientConnProofs ---------------------------
(***************************************************************************)
(* Proofs about ClientConn and, at the end, ConnRequests, for every set of *)
(* threads.  ConnInv is the inductive invariant behind the properties of   *)
(* ClientConn; it adds to them what the inside of connect() and of         *)
(* service_poll may rely on.                                               *)
(***************************************************************************)
EXTENDS ConnRequests, TLAPS

\* Inside connect() the old host is gone until the new one is created, and
\* the new one has no peer until the dial.
HostInConnect ==
  \A t \in Thread :
    /\ pc[t] = "create" => host = "null"
    /\ pc[t] \in InConnect \ {"create"} => host = "live" /\ link = "none"

\* The host the main thread works on is the live one, or the link that is
\* there now is not up.
ServicedHost ==
  /\ svc = "live" => host = "live"
  /\ svc = "stale" => link # "connected"

ConnInv ==
  TypeOK /\ ConnectExclusive /\ OneHost /\ PeerIsLink /\ HostInConnect /\ ServicedHost

\* The kinds of threads are disjoint.
LEMMA ThreadKinds ==
  /\ Main \in Thread /\ Http \subseteq Thread /\ Recon \subseteq Thread
  /\ NoThread \notin Thread
  /\ \A t \in Thread : t \in Http => t # Main /\ t \notin Recon
  /\ \A t \in Recon : t # Main /\ t \notin Http
BY ThreadAssumption DEF Thread

\* The labels that steps go to.
LEMMA Labels ==
  /\ {"create", "server", "app", "token", "dial", "idle", "call", "service", "reply",
      "world", "redirect", "bye", "connect", "free", "failed", "sleep"} \subseteq Label
  /\ InConnect \subseteq Label
BY DEF Label, InConnect, MainPC, ReconPC, HttpPC

\* A step that goes to a label moves its own thread only.
LEMMA GotoLabel ==
  ASSUME pc \in [Thread -> Label], NEW t \in Thread, NEW l \in Label, Goto(t, l)
  PROVE  /\ pc' \in [Thread -> Label]
         /\ pc'[t] = l
         /\ \A u \in Thread : u # t => pc'[u] = pc[u]
BY DEF Goto

\* Nobody is inside connect() at first, and there is no host.
LEMMA ConnInit == Init => ConnInv
<1> SUFFICES ASSUME Init PROVE ConnInv
  OBVIOUS
<1>1. PICK adder \in Http :
        pc = [t \in Thread |-> IF t = adder THEN "connect"
                               ELSE IF t \in Recon THEN "free" ELSE "idle"]
  BY DEF Init
<1>2. \A t \in Thread : pc[t] \in {"connect", "free", "idle"}
  BY <1>1
<1>3. TypeOK
  <2>1. pc \in [Thread -> Label]
    BY <1>1, Labels
  <2>2. QED  BY <2>1 DEF Init, TypeOK, EnetOK, LoginOK, OutcomeOK
<1>4. ConnectExclusive /\ OneHost /\ PeerIsLink /\ HostInConnect /\ ServicedHost
  BY <1>2, ThreadKinds DEF Init, ConnectExclusive, OneHost, PeerIsLink, HostInConnect,
     ServicedHost, InConnect
<1>5. QED  BY <1>3, <1>4 DEF ConnInv

\* connect() begins, for any of its callers.
LEMMA BeginStep ==
  ASSUME ConnInv, NEW t \in Thread, pc[t] \notin InConnect,
         NEW reset \in BOOLEAN, connect_begin(t, reset)
  PROVE  ConnInv'
<1> USE ThreadKinds DEF connect_begin, destroy_host, Destroyed, Goto
<1>1. TypeOK'
  <2>1. EnetOK'
    BY DEF ConnInv, TypeOK, EnetOK, OneHost
  <2>2. LoginOK'
    BY DEF ConnInv, TypeOK, LoginOK, loginVars, login_info_reset
  <2>3. OutcomeOK'
    BY DEF ConnInv, TypeOK, OutcomeOK
  <2>4. pc' \in [Thread -> Label]
    BY Labels, GotoLabel DEF ConnInv, TypeOK
  <2>5. QED  BY <2>1, <2>2, <2>3, <2>4 DEF TypeOK
<1>2. \A u \in Thread :
        /\ pc'[u] \in InConnect <=> u = t
        /\ u = t => pc'[u] = "create"
  BY DEF ConnInv, TypeOK, ConnectExclusive, InConnect
<1>3. ConnectExclusive'
  BY <1>2 DEF ConnectExclusive
<1>4. HostInConnect'
  BY <1>2 DEF HostInConnect, InConnect
<1>5. OneHost'
  BY DEF ConnInv, OneHost
<1>6. PeerIsLink'
  BY DEF PeerIsLink
<1>7. ServicedHost'
  BY DEF ServicedHost
<1>8. QED  BY <1>1, <1>3, <1>4, <1>5, <1>6, <1>7 DEF ConnInv

\* The steps of connect() after the first.
LEMMA InsideStep ==
  ASSUME ConnInv, NEW u \in Thread, ConnectSteps(u), ~ connect(u)
  PROVE  ConnInv'
<1> USE ThreadKinds DEF ConnInv, enetVars, loginVars
<1>1. ASSUME NEW t \in Thread, host_create(t) PROVE ConnInv'
  <2>0. /\ pc[t] = "create" /\ host = "null" /\ link = "none"
        /\ host' = "live" /\ hosts' = hosts + 1
        /\ UNCHANGED <<lock, peer, link, dialled, svc>>
    BY <1>1 DEF host_create, HostInConnect, PeerIsLink
  <2>1. /\ pc'[t] \in {"server", "dial"}
        /\ \A v \in Thread : v # t => pc'[v] = pc[v]
        /\ pc' \in [Thread -> Label]
    BY <1>1, Labels, GotoLabel DEF host_create, TypeOK, InConnect
  <2>2. EnetOK' /\ LoginOK' /\ OutcomeOK'
    <3>1. EnetOK'     BY <2>0 DEF TypeOK, EnetOK
    <3>2. LoginOK'    BY <1>1 DEF host_create, TypeOK, LoginOK
    <3>3. OutcomeOK'  BY <1>1 DEF host_create, TypeOK, OutcomeOK
    <3>4. QED  BY <3>1, <3>2, <3>3
  <2>3. ConnectExclusive' /\ HostInConnect'
    BY <2>0, <2>1 DEF ConnectExclusive, HostInConnect, InConnect
  <2>4. OneHost' /\ PeerIsLink' /\ ServicedHost'
    BY <2>0 DEF OneHost, PeerIsLink, ServicedHost
  <2>5. QED  BY <2>1, <2>2, <2>3, <2>4 DEF TypeOK
<1>2. ASSUME NEW t \in Thread, host_create_fails(t) PROVE ConnInv'
  <2>1. /\ pc'[t] \notin InConnect
        /\ \A v \in Thread : v # t => pc'[v] = pc[v]
        /\ pc' \in [Thread -> Label]
    BY <1>2, Labels, GotoLabel DEF host_create_fails, Return, AfterConnect, TypeOK, InConnect
  <2>2. EnetOK' /\ LoginOK' /\ OutcomeOK'
    <3>1. EnetOK'     BY <1>2 DEF host_create_fails, Return, AfterConnect, TypeOK, EnetOK
    <3>2. LoginOK'    BY <1>2 DEF host_create_fails, Return, AfterConnect, TypeOK, LoginOK
    <3>3. OutcomeOK'  BY <1>2 DEF host_create_fails, Return, AfterConnect, TypeOK, OutcomeOK
    <3>4. QED  BY <3>1, <3>2, <3>3
  <2>3. ConnectExclusive' /\ HostInConnect'
    BY <1>2, <2>1 DEF host_create_fails, Return, AfterConnect, ConnectExclusive, HostInConnect, InConnect
  <2>4. OneHost' /\ PeerIsLink' /\ ServicedHost'
    BY <1>2 DEF host_create_fails, Return, AfterConnect, OneHost, PeerIsLink, ServicedHost, HostInConnect, InConnect
  <2>5. QED  BY <2>1, <2>2, <2>3, <2>4 DEF TypeOK
<1>3. ASSUME NEW t \in Thread, request_server_data(t) PROVE ConnInv'
  <2>1. /\ pc'[t] = "app"
        /\ \A v \in Thread : v # t => pc'[v] = pc[v]
        /\ pc' \in [Thread -> Label]
    BY <1>3, Labels, GotoLabel DEF request_server_data, TypeOK, InConnect
  <2>2. EnetOK' /\ LoginOK' /\ OutcomeOK'
    <3>1. EnetOK'     BY <1>3 DEF request_server_data, TypeOK, EnetOK
    <3>2. LoginOK'    BY <1>3 DEF request_server_data, TypeOK, LoginOK
    <3>3. OutcomeOK'  BY <1>3 DEF request_server_data, TypeOK, OutcomeOK
    <3>4. QED  BY <3>1, <3>2, <3>3
  <2>3. ConnectExclusive' /\ HostInConnect'
    BY <1>3, <2>1 DEF request_server_data, ConnectExclusive, HostInConnect, InConnect
  <2>4. OneHost' /\ PeerIsLink' /\ ServicedHost'
    BY <1>3 DEF request_server_data, OneHost, PeerIsLink, ServicedHost, HostInConnect, InConnect
  <2>5. QED  BY <2>1, <2>2, <2>3, <2>4 DEF TypeOK
<1>4. ASSUME NEW t \in Thread, server_data_fails(t) PROVE ConnInv'
  <2>1. /\ pc'[t] \notin InConnect
        /\ \A v \in Thread : v # t => pc'[v] = pc[v]
        /\ pc' \in [Thread -> Label]
    BY <1>4, Labels, GotoLabel DEF server_data_fails, Fails, Return, AfterConnect, TypeOK, InConnect
  <2>2. EnetOK' /\ LoginOK' /\ OutcomeOK'
    <3>1. EnetOK'     BY <1>4 DEF server_data_fails, Fails, Return, AfterConnect, TypeOK, EnetOK
    <3>2. LoginOK'    BY <1>4 DEF server_data_fails, Fails, Return, AfterConnect, TypeOK, LoginOK
    <3>3. OutcomeOK'  BY <1>4 DEF server_data_fails, Fails, Return, AfterConnect, TypeOK, OutcomeOK
    <3>4. QED  BY <3>1, <3>2, <3>3
  <2>3. ConnectExclusive' /\ HostInConnect'
    BY <1>4, <2>1 DEF server_data_fails, Fails, Return, AfterConnect, ConnectExclusive, HostInConnect, InConnect
  <2>4. OneHost' /\ PeerIsLink' /\ ServicedHost'
    BY <1>4 DEF server_data_fails, Fails, Return, AfterConnect, OneHost, PeerIsLink, ServicedHost, HostInConnect, InConnect
  <2>5. QED  BY <2>1, <2>2, <2>3, <2>4 DEF TypeOK
<1>5. ASSUME NEW t \in Thread, request_app_data(t) PROVE ConnInv'
  <2>1. /\ pc'[t] = "token"
        /\ \A v \in Thread : v # t => pc'[v] = pc[v]
        /\ pc' \in [Thread -> Label]
    BY <1>5, Labels, GotoLabel DEF request_app_data, TypeOK, InConnect
  <2>2. EnetOK' /\ LoginOK' /\ OutcomeOK'
    <3>1. EnetOK'     BY <1>5 DEF request_app_data, TypeOK, EnetOK
    <3>2. LoginOK'    BY <1>5 DEF request_app_data, TypeOK, LoginOK
    <3>3. OutcomeOK'  BY <1>5 DEF request_app_data, TypeOK, OutcomeOK
    <3>4. QED  BY <3>1, <3>2, <3>3
  <2>3. ConnectExclusive' /\ HostInConnect'
    BY <1>5, <2>1 DEF request_app_data, ConnectExclusive, HostInConnect, InConnect
  <2>4. OneHost' /\ PeerIsLink' /\ ServicedHost'
    BY <1>5 DEF request_app_data, OneHost, PeerIsLink, ServicedHost, HostInConnect, InConnect
  <2>5. QED  BY <2>1, <2>2, <2>3, <2>4 DEF TypeOK
<1>6. ASSUME NEW t \in Thread, app_data_fails(t) PROVE ConnInv'
  <2>1. /\ pc'[t] \notin InConnect
        /\ \A v \in Thread : v # t => pc'[v] = pc[v]
        /\ pc' \in [Thread -> Label]
    BY <1>6, Labels, GotoLabel DEF app_data_fails, Fails, Return, AfterConnect, TypeOK, InConnect
  <2>2. EnetOK' /\ LoginOK' /\ OutcomeOK'
    <3>1. EnetOK'     BY <1>6 DEF app_data_fails, Fails, Return, AfterConnect, TypeOK, EnetOK
    <3>2. LoginOK'    BY <1>6 DEF app_data_fails, Fails, Return, AfterConnect, TypeOK, LoginOK
    <3>3. OutcomeOK'  BY <1>6 DEF app_data_fails, Fails, Return, AfterConnect, TypeOK, OutcomeOK
    <3>4. QED  BY <3>1, <3>2, <3>3
  <2>3. ConnectExclusive' /\ HostInConnect'
    BY <1>6, <2>1 DEF app_data_fails, Fails, Return, AfterConnect, ConnectExclusive, HostInConnect, InConnect
  <2>4. OneHost' /\ PeerIsLink' /\ ServicedHost'
    BY <1>6 DEF app_data_fails, Fails, Return, AfterConnect, OneHost, PeerIsLink, ServicedHost, HostInConnect, InConnect
  <2>5. QED  BY <2>1, <2>2, <2>3, <2>4 DEF TypeOK
<1>7. ASSUME NEW t \in Thread, growid_login(t) PROVE ConnInv'
  <2>1. /\ pc'[t] = "dial"
        /\ \A v \in Thread : v # t => pc'[v] = pc[v]
        /\ pc' \in [Thread -> Label]
    BY <1>7, Labels, GotoLabel DEF growid_login, TypeOK, InConnect
  <2>2. EnetOK' /\ LoginOK' /\ OutcomeOK'
    <3>1. EnetOK'     BY <1>7 DEF growid_login, TypeOK, EnetOK
    <3>2. LoginOK'    BY <1>7 DEF growid_login, TypeOK, LoginOK
    <3>3. OutcomeOK'  BY <1>7 DEF growid_login, TypeOK, OutcomeOK
    <3>4. QED  BY <3>1, <3>2, <3>3
  <2>3. ConnectExclusive' /\ HostInConnect'
    BY <1>7, <2>1 DEF growid_login, ConnectExclusive, HostInConnect, InConnect
  <2>4. OneHost' /\ PeerIsLink' /\ ServicedHost'
    BY <1>7 DEF growid_login, OneHost, PeerIsLink, ServicedHost, HostInConnect, InConnect
  <2>5. QED  BY <2>1, <2>2, <2>3, <2>4 DEF TypeOK
<1>8. ASSUME NEW t \in Thread, growid_login_fails(t) PROVE ConnInv'
  <2>1. /\ pc'[t] \notin InConnect
        /\ \A v \in Thread : v # t => pc'[v] = pc[v]
        /\ pc' \in [Thread -> Label]
    BY <1>8, Labels, GotoLabel DEF growid_login_fails, Fails, Return, AfterConnect, TypeOK, InConnect
  <2>2. EnetOK' /\ LoginOK' /\ OutcomeOK'
    <3>1. EnetOK'     BY <1>8 DEF growid_login_fails, Fails, Return, AfterConnect, TypeOK, EnetOK
    <3>2. LoginOK'    BY <1>8 DEF growid_login_fails, Fails, Return, AfterConnect, TypeOK, LoginOK
    <3>3. OutcomeOK'  BY <1>8 DEF growid_login_fails, Fails, Return, AfterConnect, TypeOK, OutcomeOK
    <3>4. QED  BY <3>1, <3>2, <3>3
  <2>3. ConnectExclusive' /\ HostInConnect'
    BY <1>8, <2>1 DEF growid_login_fails, Fails, Return, AfterConnect, ConnectExclusive, HostInConnect, InConnect
  <2>4. OneHost' /\ PeerIsLink' /\ ServicedHost'
    BY <1>8 DEF growid_login_fails, Fails, Return, AfterConnect, OneHost, PeerIsLink, ServicedHost, HostInConnect, InConnect
  <2>5. QED  BY <2>1, <2>2, <2>3, <2>4 DEF TypeOK
<1>9. ASSUME NEW t \in Thread, address_invalid(t) PROVE ConnInv'
  <2>1. /\ pc'[t] \notin InConnect
        /\ \A v \in Thread : v # t => pc'[v] = pc[v]
        /\ pc' \in [Thread -> Label]
    BY <1>9, Labels, GotoLabel DEF address_invalid, Fails, Return, AfterConnect, TypeOK, InConnect
  <2>2. EnetOK' /\ LoginOK' /\ OutcomeOK'
    <3>1. EnetOK'     BY <1>9 DEF address_invalid, Fails, Return, AfterConnect, TypeOK, EnetOK
    <3>2. LoginOK'    BY <1>9 DEF address_invalid, Fails, Return, AfterConnect, TypeOK, LoginOK
    <3>3. OutcomeOK'  BY <1>9 DEF address_invalid, Fails, Return, AfterConnect, TypeOK, OutcomeOK
    <3>4. QED  BY <3>1, <3>2, <3>3
  <2>3. ConnectExclusive' /\ HostInConnect'
    BY <1>9, <2>1 DEF address_invalid, Fails, Return, AfterConnect, ConnectExclusive, HostInConnect, InConnect
  <2>4. OneHost' /\ PeerIsLink' /\ ServicedHost'
    BY <1>9 DEF address_invalid, Fails, Return, AfterConnect, OneHost, PeerIsLink, ServicedHost, HostInConnect, InConnect
  <2>5. QED  BY <2>1, <2>2, <2>3, <2>4 DEF TypeOK
<1>10. ASSUME NEW t \in Thread, dial(t) PROVE ConnInv'
  <2>1. /\ pc'[t] \notin InConnect
        /\ \A v \in Thread : v # t => pc'[v] = pc[v]
        /\ pc' \in [Thread -> Label]
    BY <1>10, Labels, GotoLabel DEF dial, Return, AfterConnect, TypeOK, InConnect
  <2>2. EnetOK' /\ LoginOK' /\ OutcomeOK'
    <3>1. EnetOK'
      <4>1. addr \in {"", "login", "game"} /\ addr # ""
        BY <1>10 DEF dial, TypeOK, LoginOK
      <4>2. QED  BY <1>10, <4>1 DEF dial, TypeOK, EnetOK
    <3>2. LoginOK'    BY <1>10 DEF dial, Return, AfterConnect, TypeOK, LoginOK
    <3>3. OutcomeOK'  BY <1>10 DEF dial, Return, AfterConnect, TypeOK, OutcomeOK
    <3>4. QED  BY <3>1, <3>2, <3>3
  <2>3. ConnectExclusive' /\ HostInConnect'
    BY <1>10, <2>1 DEF dial, Return, AfterConnect, ConnectExclusive, HostInConnect, InConnect
  <2>4. OneHost' /\ PeerIsLink' /\ ServicedHost'
    BY <1>10 DEF dial, Return, AfterConnect, OneHost, PeerIsLink, ServicedHost, HostInConnect, InConnect
  <2>5. QED  BY <2>1, <2>2, <2>3, <2>4 DEF TypeOK
<1>11. ASSUME NEW t \in Thread, dial_fails(t) PROVE ConnInv'
  <2>1. /\ pc'[t] \notin InConnect
        /\ \A v \in Thread : v # t => pc'[v] = pc[v]
        /\ pc' \in [Thread -> Label]
    BY <1>11, Labels, GotoLabel DEF dial_fails, Fails, Return, AfterConnect, TypeOK, InConnect
  <2>2. EnetOK' /\ LoginOK' /\ OutcomeOK'
    <3>1. EnetOK'     BY <1>11 DEF dial_fails, Fails, Return, AfterConnect, TypeOK, EnetOK
    <3>2. LoginOK'    BY <1>11 DEF dial_fails, Fails, Return, AfterConnect, TypeOK, LoginOK
    <3>3. OutcomeOK'  BY <1>11 DEF dial_fails, Fails, Return, AfterConnect, TypeOK, OutcomeOK
    <3>4. QED  BY <3>1, <3>2, <3>3
  <2>3. ConnectExclusive' /\ HostInConnect'
    BY <1>11, <2>1 DEF dial_fails, Fails, Return, AfterConnect, ConnectExclusive, HostInConnect, InConnect
  <2>4. OneHost' /\ PeerIsLink' /\ ServicedHost'
    BY <1>11 DEF dial_fails, Fails, Return, AfterConnect, OneHost, PeerIsLink, ServicedHost, HostInConnect, InConnect
  <2>5. QED  BY <2>1, <2>2, <2>3, <2>4 DEF TypeOK
<1>12. ASSUME NEW t \in Thread, growid_login_stalls(t) PROVE ConnInv'
  <2>1. /\ pc'[t] = "stalled"
        /\ \A v \in Thread : v # t => pc'[v] = pc[v]
        /\ pc' \in [Thread -> Label]
    BY <1>12, Labels, GotoLabel DEF growid_login_stalls, TypeOK, InConnect
  <2>2. EnetOK' /\ LoginOK' /\ OutcomeOK'
    <3>1. EnetOK'     BY <1>12 DEF growid_login_stalls, TypeOK, EnetOK
    <3>2. LoginOK'    BY <1>12 DEF growid_login_stalls, TypeOK, LoginOK
    <3>3. OutcomeOK'  BY <1>12 DEF growid_login_stalls, TypeOK, OutcomeOK
    <3>4. QED  BY <3>1, <3>2, <3>3
  <2>3. ConnectExclusive' /\ HostInConnect'
    BY <1>12, <2>1 DEF growid_login_stalls, ConnectExclusive, HostInConnect, InConnect
  <2>4. OneHost' /\ PeerIsLink' /\ ServicedHost'
    BY <1>12 DEF growid_login_stalls, OneHost, PeerIsLink, ServicedHost, HostInConnect, InConnect
  <2>5. QED  BY <2>1, <2>2, <2>3, <2>4 DEF TypeOK
<1>13. QED  BY <1>1, <1>2, <1>3, <1>4, <1>5, <1>6, <1>7, <1>8, <1>9, <1>10, <1>11, <1>12 DEF ConnectSteps

\* A step outside connect(): those who are in it, the lock, the host and m_peer
\* are left alone, a link neither appears nor goes away, and one that comes up
\* does so on a host that the main thread is not working on after its end.
Outside ==
  /\ lock' = lock /\ host' = host /\ hosts' = hosts /\ peer' = peer
  /\ \A u \in Thread : pc[u] \in InConnect \/ pc'[u] \in InConnect => pc'[u] = pc[u]
  /\ link' = link \/ (link # "none" /\ link' # "none")
  /\ svc' = svc \/ svc' = "none" \/ (svc' = "live" /\ host = "live")
  /\ link' = "connected" => link = "connected" \/ svc' # "stale"

\* A step outside connect() keeps what the threads inside it rely on.
LEMMA OutsideStep ==
  ASSUME ConnInv, TypeOK', Outside
  PROVE  ConnInv'
<1> USE DEF ConnInv, Outside
<1>1. ConnectExclusive' /\ HostInConnect'
  BY DEF ConnectExclusive, HostInConnect, InConnect
<1>2. OneHost' /\ PeerIsLink' /\ ServicedHost'
  BY DEF OneHost, PeerIsLink, ServicedHost
<1>3. QED  BY <1>1, <1>2

\* ConnInv holds after every step of every thread (client.cpp: connect, disconnect,
\* send_packet, service_poll).
THEOREM ConnInductive == ConnInv /\ [Next]_vars => ConnInv'
<1> SUFFICES ASSUME ConnInv, [Next]_vars PROVE ConnInv'
  OBVIOUS
<1>1. ASSUME ThreadNext, fault = "none" PROVE ConnInv'
  <2> USE ThreadKinds DEF enetVars, loginVars
  <2>0. TypeOK /\ OneHost /\ ConnectExclusive /\ HostInConnect
    BY DEF ConnInv
  <2> USE <2>0
  <2>1. ASSUME NEW t \in Http, on_send(t) PROVE TypeOK' /\ Outside
    <3>1. /\ pc' \in [Thread -> Label]
          /\ \A u \in Thread : pc[u] \in InConnect \/ pc'[u] \in InConnect => pc'[u] = pc[u]
      BY <2>1, Labels, GotoLabel DEF on_send, send_packet, ReadPeer, TypeOK, InConnect
    <3>2. EnetOK'
      BY <2>1 DEF on_send, send_packet, ReadPeer, TypeOK, EnetOK
    <3>3. LoginOK'
      BY <2>1 DEF on_send, send_packet, ReadPeer, TypeOK, LoginOK
    <3>4. OutcomeOK'
      BY <2>1 DEF on_send, send_packet, ReadPeer, TypeOK, OutcomeOK
    <3>5. lock' = lock /\ host' = host /\ hosts' = hosts /\ peer' = peer
      BY <2>1 DEF on_send, send_packet, ReadPeer
    <3>6. /\ link' = link \/ (link # "none" /\ link' # "none")
          /\ svc' = svc \/ svc' = "none" \/ (svc' = "live" /\ host = "live")
          /\ link' = "connected" => link = "connected" \/ svc' # "stale"
      BY <2>1 DEF on_send, send_packet, ReadPeer
    <3>7. QED  BY <3>1, <3>2, <3>3, <3>4, <3>5, <3>6 DEF TypeOK, Outside
  <2>2. ASSUME NEW t \in Http, on_ping(t) PROVE TypeOK' /\ Outside
    <3>1. /\ pc' \in [Thread -> Label]
          /\ \A u \in Thread : pc[u] \in InConnect \/ pc'[u] \in InConnect => pc'[u] = pc[u]
      BY <2>2, Labels, GotoLabel DEF on_ping, ReadPeer, TypeOK, InConnect
    <3>2. EnetOK'
      BY <2>2 DEF on_ping, ReadPeer, TypeOK, EnetOK
    <3>3. LoginOK'
      BY <2>2 DEF on_ping, ReadPeer, TypeOK, LoginOK
    <3>4. OutcomeOK'
      BY <2>2 DEF on_ping, ReadPeer, TypeOK, OutcomeOK
    <3>5. lock' = lock /\ host' = host /\ hosts' = hosts /\ peer' = peer
      BY <2>2 DEF on_ping, ReadPeer
    <3>6. /\ link' = link \/ (link # "none" /\ link' # "none")
          /\ svc' = svc \/ svc' = "none" \/ (svc' = "live" /\ host = "live")
          /\ link' = "connected" => link = "connected" \/ svc' # "stale"
      BY <2>2 DEF on_ping, ReadPeer
    <3>7. QED  BY <3>1, <3>2, <3>3, <3>4, <3>5, <3>6 DEF TypeOK, Outside
  <2>3. ASSUME NEW r \in Recon, reconnect_reset(r) PROVE TypeOK' /\ Outside
    <3>1. /\ pc' \in [Thread -> Label]
          /\ \A u \in Thread : pc[u] \in InConnect \/ pc'[u] \in InConnect => pc'[u] = pc[u]
      BY <2>3, Labels, GotoLabel DEF reconnect_reset, login_info_reset, TypeOK, InConnect
    <3>2. EnetOK'
      BY <2>3 DEF reconnect_reset, login_info_reset, TypeOK, EnetOK
    <3>3. LoginOK'
      BY <2>3 DEF reconnect_reset, login_info_reset, TypeOK, LoginOK
    <3>4. OutcomeOK'
      BY <2>3 DEF reconnect_reset, login_info_reset, TypeOK, OutcomeOK
    <3>5. lock' = lock /\ host' = host /\ hosts' = hosts /\ peer' = peer
      BY <2>3 DEF reconnect_reset, login_info_reset
    <3>6. /\ link' = link \/ (link # "none" /\ link' # "none")
          /\ svc' = svc \/ svc' = "none" \/ (svc' = "live" /\ host = "live")
          /\ link' = "connected" => link = "connected" \/ svc' # "stale"
      BY <2>3 DEF reconnect_reset, login_info_reset
    <3>7. QED  BY <3>1, <3>2, <3>3, <3>4, <3>5, <3>6 DEF TypeOK, Outside
  <2>4. ASSUME NEW r \in Recon, reconnect_wake(r) PROVE TypeOK' /\ Outside
    <3>1. /\ pc' \in [Thread -> Label]
          /\ \A u \in Thread : pc[u] \in InConnect \/ pc'[u] \in InConnect => pc'[u] = pc[u]
      BY <2>4, Labels, GotoLabel DEF reconnect_wake, TypeOK, InConnect
    <3>2. EnetOK'
      BY <2>4 DEF reconnect_wake, TypeOK, EnetOK
    <3>3. LoginOK'
      BY <2>4 DEF reconnect_wake, TypeOK, LoginOK
    <3>4. OutcomeOK'
      BY <2>4 DEF reconnect_wake, TypeOK, OutcomeOK
    <3>5. lock' = lock /\ host' = host /\ hosts' = hosts /\ peer' = peer
      BY <2>4 DEF reconnect_wake
    <3>6. /\ link' = link \/ (link # "none" /\ link' # "none")
          /\ svc' = svc \/ svc' = "none" \/ (svc' = "live" /\ host = "live")
          /\ link' = "connected" => link = "connected" \/ svc' # "stale"
      BY <2>4 DEF reconnect_wake
    <3>7. QED  BY <3>1, <3>2, <3>3, <3>4, <3>5, <3>6 DEF TypeOK, Outside
  <2>5. ASSUME poll_begin PROVE TypeOK' /\ Outside
    <3>1. /\ pc' \in [Thread -> Label]
          /\ \A u \in Thread : pc[u] \in InConnect \/ pc'[u] \in InConnect => pc'[u] = pc[u]
      BY <2>5, Labels, GotoLabel DEF poll_begin, TypeOK, InConnect
    <3>2. EnetOK'
      BY <2>5 DEF poll_begin, TypeOK, EnetOK
    <3>3. LoginOK'
      BY <2>5 DEF poll_begin, TypeOK, LoginOK
    <3>4. OutcomeOK'
      BY <2>5 DEF poll_begin, TypeOK, OutcomeOK
    <3>5. lock' = lock /\ host' = host /\ hosts' = hosts /\ peer' = peer
      BY <2>5 DEF poll_begin
    <3>6. /\ link' = link \/ (link # "none" /\ link' # "none")
          /\ svc' = svc \/ svc' = "none" \/ (svc' = "live" /\ host = "live")
          /\ link' = "connected" => link = "connected" \/ svc' # "stale"
      BY <2>5 DEF poll_begin
    <3>7. QED  BY <3>1, <3>2, <3>3, <3>4, <3>5, <3>6 DEF TypeOK, Outside
  <2>6. ASSUME poll_call PROVE TypeOK' /\ Outside
    <3>1. /\ pc' \in [Thread -> Label]
          /\ \A u \in Thread : pc[u] \in InConnect \/ pc'[u] \in InConnect => pc'[u] = pc[u]
      BY <2>6, Labels, GotoLabel DEF poll_call, TypeOK, InConnect
    <3>2. EnetOK'
      BY <2>6 DEF poll_call, TypeOK, EnetOK
    <3>3. LoginOK'
      BY <2>6 DEF poll_call, TypeOK, LoginOK
    <3>4. OutcomeOK'
      BY <2>6 DEF poll_call, TypeOK, OutcomeOK
    <3>5. lock' = lock /\ host' = host /\ hosts' = hosts /\ peer' = peer
      BY <2>6 DEF poll_call
    <3>6. /\ link' = link \/ (link # "none" /\ link' # "none")
          /\ svc' = svc \/ svc' = "none" \/ (svc' = "live" /\ host = "live")
          /\ link' = "connected" => link = "connected" \/ svc' # "stale"
      BY <2>6 DEF poll_call
    <3>7. QED  BY <3>1, <3>2, <3>3, <3>4, <3>5, <3>6 DEF TypeOK, Outside
  <2>7. ASSUME poll_freed PROVE TypeOK' /\ Outside
    <3>1. /\ pc' \in [Thread -> Label]
          /\ \A u \in Thread : pc[u] \in InConnect \/ pc'[u] \in InConnect => pc'[u] = pc[u]
      BY <2>7, Labels, GotoLabel DEF poll_freed, TypeOK, InConnect
    <3>2. EnetOK'
      BY <2>7 DEF poll_freed, TypeOK, EnetOK
    <3>3. LoginOK'
      BY <2>7 DEF poll_freed, TypeOK, LoginOK
    <3>4. OutcomeOK'
      BY <2>7 DEF poll_freed, TypeOK, OutcomeOK
    <3>5. lock' = lock /\ host' = host /\ hosts' = hosts /\ peer' = peer
      BY <2>7 DEF poll_freed
    <3>6. /\ link' = link \/ (link # "none" /\ link' # "none")
          /\ svc' = svc \/ svc' = "none" \/ (svc' = "live" /\ host = "live")
          /\ link' = "connected" => link = "connected" \/ svc' # "stale"
      BY <2>7 DEF poll_freed
    <3>7. QED  BY <3>1, <3>2, <3>3, <3>4, <3>5, <3>6 DEF TypeOK, Outside
  <2>8. ASSUME poll_end PROVE TypeOK' /\ Outside
    <3>1. /\ pc' \in [Thread -> Label]
          /\ \A u \in Thread : pc[u] \in InConnect \/ pc'[u] \in InConnect => pc'[u] = pc[u]
      BY <2>8, Labels, GotoLabel DEF poll_end, HostInService, TypeOK, InConnect
    <3>2. EnetOK'
      BY <2>8 DEF poll_end, HostInService, TypeOK, EnetOK
    <3>3. LoginOK'
      BY <2>8 DEF poll_end, HostInService, TypeOK, LoginOK
    <3>4. OutcomeOK'
      BY <2>8 DEF poll_end, HostInService, TypeOK, OutcomeOK
    <3>5. lock' = lock /\ host' = host /\ hosts' = hosts /\ peer' = peer
      BY <2>8 DEF poll_end, HostInService
    <3>6. /\ link' = link \/ (link # "none" /\ link' # "none")
          /\ svc' = svc \/ svc' = "none" \/ (svc' = "live" /\ host = "live")
          /\ link' = "connected" => link = "connected" \/ svc' # "stale"
      BY <2>8 DEF poll_end, HostInService
    <3>7. QED  BY <3>1, <3>2, <3>3, <3>4, <3>5, <3>6 DEF TypeOK, Outside
  <2>9. ASSUME event_connect PROVE TypeOK' /\ Outside
    <3>1. /\ pc' \in [Thread -> Label]
          /\ \A u \in Thread : pc[u] \in InConnect \/ pc'[u] \in InConnect => pc'[u] = pc[u]
      BY <2>9, Labels, GotoLabel DEF event_connect, HostInService, TypeOK, InConnect
    <3>2. EnetOK'
      BY <2>9 DEF event_connect, HostInService, TypeOK, EnetOK
    <3>3. LoginOK'
      BY <2>9 DEF event_connect, HostInService, TypeOK, LoginOK
    <3>4. OutcomeOK'
      BY <2>9 DEF event_connect, HostInService, TypeOK, OutcomeOK
    <3>5. lock' = lock /\ host' = host /\ hosts' = hosts /\ peer' = peer
      BY <2>9 DEF event_connect, HostInService
    <3>6. /\ link' = link \/ (link # "none" /\ link' # "none")
          /\ svc' = svc \/ svc' = "none" \/ (svc' = "live" /\ host = "live")
          /\ link' = "connected" => link = "connected" \/ svc' # "stale"
      BY <2>9 DEF event_connect, HostInService
    <3>7. QED  BY <3>1, <3>2, <3>3, <3>4, <3>5, <3>6 DEF TypeOK, Outside
  <2>10. ASSUME NEW l \in {"reply", "world", "redirect"}, event_receive(l) PROVE TypeOK' /\ Outside
    <3>1. /\ pc' \in [Thread -> Label]
          /\ \A u \in Thread : pc[u] \in InConnect \/ pc'[u] \in InConnect => pc'[u] = pc[u]
      BY <2>10, Labels, GotoLabel DEF event_receive, HostInService, TypeOK, InConnect
    <3>2. EnetOK'
      BY <2>10 DEF event_receive, HostInService, TypeOK, EnetOK
    <3>3. LoginOK'
      BY <2>10 DEF event_receive, HostInService, TypeOK, LoginOK
    <3>4. OutcomeOK'
      BY <2>10 DEF event_receive, HostInService, TypeOK, OutcomeOK
    <3>5. lock' = lock /\ host' = host /\ hosts' = hosts /\ peer' = peer
      BY <2>10 DEF event_receive, HostInService
    <3>6. /\ link' = link \/ (link # "none" /\ link' # "none")
          /\ svc' = svc \/ svc' = "none" \/ (svc' = "live" /\ host = "live")
          /\ link' = "connected" => link = "connected" \/ svc' # "stale"
      BY <2>10 DEF event_receive, HostInService
    <3>7. QED  BY <3>1, <3>2, <3>3, <3>4, <3>5, <3>6 DEF TypeOK, Outside
  <2>11. ASSUME authentication_error PROVE TypeOK' /\ Outside
    <3>1. /\ pc' \in [Thread -> Label]
          /\ \A u \in Thread : pc[u] \in InConnect \/ pc'[u] \in InConnect => pc'[u] = pc[u]
      BY <2>11, Labels, GotoLabel DEF authentication_error, HostInService, login_info_reset, TypeOK, InConnect
    <3>2. EnetOK'
      BY <2>11 DEF authentication_error, HostInService, login_info_reset, TypeOK, EnetOK
    <3>3. LoginOK'
      BY <2>11 DEF authentication_error, HostInService, login_info_reset, TypeOK, LoginOK
    <3>4. OutcomeOK'
      BY <2>11 DEF authentication_error, HostInService, login_info_reset, TypeOK, OutcomeOK
    <3>5. lock' = lock /\ host' = host /\ hosts' = hosts /\ peer' = peer
      BY <2>11 DEF authentication_error, HostInService, login_info_reset
    <3>6. /\ link' = link \/ (link # "none" /\ link' # "none")
          /\ svc' = svc \/ svc' = "none" \/ (svc' = "live" /\ host = "live")
          /\ link' = "connected" => link = "connected" \/ svc' # "stale"
      BY <2>11 DEF authentication_error, HostInService, login_info_reset
    <3>7. QED  BY <3>1, <3>2, <3>3, <3>4, <3>5, <3>6 DEF TypeOK, Outside
  <2>12. ASSUME handle_reply PROVE TypeOK' /\ Outside
    <3>1. /\ pc' \in [Thread -> Label]
          /\ \A u \in Thread : pc[u] \in InConnect \/ pc'[u] \in InConnect => pc'[u] = pc[u]
      BY <2>12, Labels, GotoLabel DEF handle_reply, send_packet, ReadPeer, TypeOK, InConnect
    <3>2. EnetOK'
      BY <2>12 DEF handle_reply, send_packet, ReadPeer, TypeOK, EnetOK
    <3>3. LoginOK'
      BY <2>12 DEF handle_reply, send_packet, ReadPeer, TypeOK, LoginOK
    <3>4. OutcomeOK'
      BY <2>12 DEF handle_reply, send_packet, ReadPeer, TypeOK, OutcomeOK
    <3>5. lock' = lock /\ host' = host /\ hosts' = hosts /\ peer' = peer
      BY <2>12 DEF handle_reply, send_packet, ReadPeer
    <3>6. /\ link' = link \/ (link # "none" /\ link' # "none")
          /\ svc' = svc \/ svc' = "none" \/ (svc' = "live" /\ host = "live")
          /\ link' = "connected" => link = "connected" \/ svc' # "stale"
      BY <2>12 DEF handle_reply, send_packet, ReadPeer
    <3>7. QED  BY <3>1, <3>2, <3>3, <3>4, <3>5, <3>6 DEF TypeOK, Outside
  <2>13. ASSUME handle_world PROVE TypeOK' /\ Outside
    <3>1. /\ pc' \in [Thread -> Label]
          /\ \A u \in Thread : pc[u] \in InConnect \/ pc'[u] \in InConnect => pc'[u] = pc[u]
      BY <2>13, Labels, GotoLabel DEF handle_world, TypeOK, InConnect
    <3>2. EnetOK'
      BY <2>13 DEF handle_world, TypeOK, EnetOK
    <3>3. LoginOK'
      BY <2>13 DEF handle_world, TypeOK, LoginOK
    <3>4. OutcomeOK'
      BY <2>13 DEF handle_world, TypeOK, OutcomeOK
    <3>5. lock' = lock /\ host' = host /\ hosts' = hosts /\ peer' = peer
      BY <2>13 DEF handle_world
    <3>6. /\ link' = link \/ (link # "none" /\ link' # "none")
          /\ svc' = svc \/ svc' = "none" \/ (svc' = "live" /\ host = "live")
          /\ link' = "connected" => link = "connected" \/ svc' # "stale"
      BY <2>13 DEF handle_world
    <3>7. QED  BY <3>1, <3>2, <3>3, <3>4, <3>5, <3>6 DEF TypeOK, Outside
  <2>14. ASSUME OnSendToServer PROVE TypeOK' /\ Outside
    <3>1. /\ pc' \in [Thread -> Label]
          /\ \A u \in Thread : pc[u] \in InConnect \/ pc'[u] \in InConnect => pc'[u] = pc[u]
      BY <2>14, Labels, GotoLabel DEF OnSendToServer, TypeOK, InConnect
    <3>2. EnetOK'
      BY <2>14 DEF OnSendToServer, TypeOK, EnetOK
    <3>3. LoginOK'
      BY <2>14 DEF OnSendToServer, TypeOK, LoginOK
    <3>4. OutcomeOK'
      BY <2>14 DEF OnSendToServer, TypeOK, OutcomeOK
    <3>5. lock' = lock /\ host' = host /\ hosts' = hosts /\ peer' = peer
      BY <2>14 DEF OnSendToServer
    <3>6. /\ link' = link \/ (link # "none" /\ link' # "none")
          /\ svc' = svc \/ svc' = "none" \/ (svc' = "live" /\ host = "live")
          /\ link' = "connected" => link = "connected" \/ svc' # "stale"
      BY <2>14 DEF OnSendToServer
    <3>7. QED  BY <3>1, <3>2, <3>3, <3>4, <3>5, <3>6 DEF TypeOK, Outside
  <2>15. ASSUME redirect_bye PROVE TypeOK' /\ Outside
    <3>1. /\ pc' \in [Thread -> Label]
          /\ \A u \in Thread : pc[u] \in InConnect \/ pc'[u] \in InConnect => pc'[u] = pc[u]
      BY <2>15, Labels, GotoLabel DEF redirect_bye, send_packet, ReadPeer, TypeOK, InConnect
    <3>2. EnetOK'
      BY <2>15 DEF redirect_bye, send_packet, ReadPeer, TypeOK, EnetOK
    <3>3. LoginOK'
      BY <2>15 DEF redirect_bye, send_packet, ReadPeer, TypeOK, LoginOK
    <3>4. OutcomeOK'
      BY <2>15 DEF redirect_bye, send_packet, ReadPeer, TypeOK, OutcomeOK
    <3>5. lock' = lock /\ host' = host /\ hosts' = hosts /\ peer' = peer
      BY <2>15 DEF redirect_bye, send_packet, ReadPeer
    <3>6. /\ link' = link \/ (link # "none" /\ link' # "none")
          /\ svc' = svc \/ svc' = "none" \/ (svc' = "live" /\ host = "live")
          /\ link' = "connected" => link = "connected" \/ svc' # "stale"
      BY <2>15 DEF redirect_bye, send_packet, ReadPeer
    <3>7. QED  BY <3>1, <3>2, <3>3, <3>4, <3>5, <3>6 DEF TypeOK, Outside
  <2>16. ASSUME NEW r \in Recon, NEW st \in {"DISCONNECTED", status}, link_lost(r, st)
        PROVE  TypeOK' /\ Outside
    <3>1. /\ pc' \in [Thread -> Label]
          /\ \A u \in Thread : pc[u] \in InConnect \/ pc'[u] \in InConnect => pc'[u] = pc[u]
      BY <2>16, Labels, GotoLabel DEF link_lost, HostInService, TypeOK, InConnect
    <3>2. EnetOK'
      BY <2>16 DEF link_lost, HostInService, TypeOK, EnetOK
    <3>3. LoginOK'
      BY <2>16 DEF link_lost, HostInService, TypeOK, LoginOK
    <3>4. OutcomeOK'
      BY <2>16 DEF link_lost, HostInService, TypeOK, OutcomeOK
    <3>5. lock' = lock /\ host' = host /\ hosts' = hosts /\ peer' = peer
      BY <2>16 DEF link_lost, HostInService
    <3>6. /\ link' = link \/ (link # "none" /\ link' # "none")
          /\ svc' = svc \/ svc' = "none" \/ (svc' = "live" /\ host = "live")
          /\ link' = "connected" => link = "connected" \/ svc' # "stale"
      BY <2>16 DEF link_lost, HostInService
    <3>7. QED  BY <3>1, <3>2, <3>3, <3>4, <3>5, <3>6 DEF TypeOK, Outside
  <2>17. ASSUME NEW t \in Http, on_disconnect(t) PROVE ConnInv'
    <3>1. EnetOK'
      BY <2>17 DEF on_disconnect, destroy_host, Destroyed, TypeOK, EnetOK, OneHost
    <3>2. LoginOK'
      BY <2>17 DEF on_disconnect, TypeOK, LoginOK
    <3>3. OutcomeOK'
      BY <2>17 DEF on_disconnect, ReadPeer, TypeOK, OutcomeOK
    <3>4. lock = NoThread /\ UNCHANGED <<lock, pc>>
      BY <2>17 DEF on_disconnect
    <3>5. ConnectExclusive' /\ HostInConnect'
      BY <3>4 DEF ConnectExclusive, HostInConnect, InConnect
    <3>6. OneHost' /\ PeerIsLink' /\ ServicedHost'
      BY <2>17 DEF on_disconnect, destroy_host, Destroyed, OneHost, PeerIsLink, ServicedHost, EnetOK, TypeOK
    <3>7. QED  BY <3>1, <3>2, <3>3, <3>4, <3>5, <3>6 DEF ConnInv, TypeOK
  <2>18. ASSUME NEW t \in Http, on_reconnect(t) PROVE ConnInv'
    BY <2>18, BeginStep DEF on_reconnect, InConnect
  <2>19. ASSUME NEW t \in Thread, ConnectSteps(t) PROVE ConnInv'
    <3>1. CASE connect(t)
      BY <3>1, BeginStep DEF connect, InConnect
    <3>2. CASE ~ connect(t)
      BY <2>19, <3>2, InsideStep
    <3>3. QED  BY <3>1, <3>2
  <2>20. QED
    BY <1>1, OutsideStep, <2>1, <2>2, <2>3, <2>4, <2>5, <2>6, <2>7, <2>8, <2>9, <2>10, <2>11, <2>12, <2>13, <2>14, <2>15, <2>16, <2>17, <2>18, <2>19
    DEF ThreadNext, MainNext, HttpNext, ReconNext, event_disconnect, event_timeout
<1>2. CASE UNCHANGED vars
  <2>1. /\ lock' = lock /\ host' = host /\ hosts' = hosts /\ peer' = peer
        /\ link' = link /\ dialled' = dialled /\ svc' = svc
        /\ pc' = pc /\ status' = status /\ fault' = fault
    BY <1>2 DEF vars, enetVars
  <2>2. EnetOK'
    BY <2>1 DEF ConnInv, TypeOK, EnetOK
  <2>6. LoginOK'
    BY <1>2 DEF ConnInv, TypeOK, LoginOK, vars, loginVars
  <2>3. OutcomeOK' /\ pc' \in [Thread -> Label]
    BY <2>1 DEF ConnInv, TypeOK, OutcomeOK
  <2>4. Outside
    BY <2>1 DEF Outside
  <2>5. QED  BY <2>2, <2>3, <2>4, <2>6, OutsideStep DEF TypeOK
<1>3. QED  BY <1>1, <1>2 DEF Next, Crashed, Hung

\* Every variable stays in its type, whatever the threads, the failures and the
\* order in which they come.
THEOREM TypeCorrect == Spec => []TypeOK
<1>1. Init => ConnInv                    BY ConnInit
<1>2. ConnInv /\ [Next]_vars => ConnInv'  BY ConnInductive
<1>3. ConnInv => TypeOK                  BY DEF ConnInv
<1>4. QED  BY <1>1, <1>2, <1>3, PTL DEF Spec

\* For any number of HTTP handlers and reconnect threads: connect() excludes
\* itself and every sender, no ENet host is leaked, m_peer is the peer of the
\* live host, and no answer goes out on another connection.
THEOREM ConnSafety == Spec => [](ConnectExclusive /\ HostAndPeer /\ ReplyOnSameLink)
<1>1. Init => ConnInv                    BY ConnInit
<1>2. ConnInv /\ [Next]_vars => ConnInv'  BY ConnInductive
<1>3. ConnInv => ConnectExclusive /\ HostAndPeer /\ ReplyOnSameLink
  BY DEF ConnInv, HostAndPeer, ServicedHost, ReplyOnSameLink
<1>4. QED  BY <1>1, <1>2, <1>3, PTL DEF Spec

\* For any number of threads: the answer to a message of the server, and the
\* farewell of a redirect, never go out on another link than the message came
\* from, although the handler waits for m_mutex (client.cpp, send_packet).
THEOREM ReplyStays == Spec => []ReplyOnSameLink
<1>1. ConnectExclusive /\ HostAndPeer /\ ReplyOnSameLink => ReplyOnSameLink
  OBVIOUS
<1>2. QED  BY <1>1, ConnSafety, PTL

-----------------------------------------------------------------------------
(***************************************************************************)
(* Proofs about ConnRequests.  ReqInv adds to ConnInv who may be on the    *)
(* way through connect() as long as no HTTP client has asked for a         *)
(* reconnect, and what cannot have happened yet as long as there is no     *)
(* login token.                                                            *)
(***************************************************************************)
\* On the way to, in, or on the way back to connect().
Connecting(t) ==
  CASE t = Main   -> pc[t] \in {"redirect", "bye", "connect"} \cup InConnect
    [] t \in Http -> pc[t] # "idle"
    [] OTHER      -> pc[t] # "free"

\* There is one at a time, and it is there for want of a link: the first
\* connect(), a redirect, or a lost link.
Solo ==
  asked = "none" =>
    /\ \A t, u \in Thread : Connecting(t) /\ Connecting(u) => t = u
    /\ \A t \in Http : Connecting(t) => link = "none"
    /\ \A r \in Recon : Connecting(r) => link \in {"none", "down"}

\* The address of a game server comes with its session, and goes in every reset.
GameSession == addr = "game" => session = "full"

\* Before the first login token only HTTP handlers have been in connect(), one
\* after the other, and each began without an address.
NoTokenYet ==
  asked # "overlap" /\ ltoken = "" =>
    /\ peer = "null" /\ link = "none" /\ dialled = "none"
    /\ pc[Main] = "idle" /\ \A r \in Recon : pc[r] = "free"
    /\ \A t \in Http :
         /\ pc[t] # "dial"
         /\ pc[t] = "create" => addr = ""
         /\ pc[t] = "connect" => addr = "" /\ \A u \in Http : u # t => pc[u] = "idle"

ReqParts == Solo /\ GameSession /\ LoginHasSession /\ NoTokenYet

ReqInv == ConnInv /\ ReqParts

\* What the history says of a step.
LEMMA AskedStep ==
  ASSUME ReqNext
  PROVE  /\ asked' = "none" => asked = "none" /\ \A t \in Http : ~ Reconnects(t)
         /\ asked' # "overlap" =>
              /\ asked # "overlap"
              /\ \A t, u \in Http : Reconnects(t) /\ u # t => pc[u] # "connect"
BY DEF ReqNext, Recorded, Reconnects

\* A thread on its way through connect() does not become another that seeks a link.
LEMMA InsideConnect ==
  ASSUME pc \in [Thread -> Label], ReqNext, Solo, UNCHANGED link,
         NEW t \in Thread, pc[t] \in InConnect, NEW l, Goto(t, l),
         l \in InConnect \/ l = AfterConnect(t, TRUE) \/ l = AfterConnect(t, FALSE)
  PROVE  Solo'
<1> USE ThreadKinds
<1>1. \A u \in Thread : u # t => pc'[u] = pc[u]
  BY DEF Goto
<1>2. pc'[t] = l
  BY DEF Goto
<1>3. Connecting(t) /\ \A u \in Thread : u # t => (Connecting(u)' <=> Connecting(u))
  BY <1>1 DEF Connecting, InConnect
<1>4. \A u \in Thread : Connecting(u)' => Connecting(u)
  BY <1>3
<1>5. asked' = "none" => asked = "none"
  BY AskedStep
<1>. QED
  BY <1>4, <1>5 DEF Solo

\* What any step of a thread leaves true of the requests.
LEMMA PartsStep == ASSUME ConnInv, ReqParts, fault = "none", ThreadNext, ReqNext PROVE ReqParts'
<1> USE ThreadKinds DEF enetVars, loginVars
<1>0. /\ Solo /\ GameSession /\ LoginHasSession /\ NoTokenYet
      /\ ConnectExclusive /\ HostInConnect /\ pc \in [Thread -> Label]
  BY DEF ReqParts, ConnInv, TypeOK
<1>1. ASSUME NEW t \in Thread, connect(t) PROVE ReqParts'
  <2>1. Solo'
    BY <1>1, <1>0, AskedStep DEF connect, connect_begin, destroy_host, Goto, Solo, Connecting, InConnect
  <2>2. GameSession' /\ LoginHasSession'
    BY <1>1, <1>0, AskedStep DEF connect, connect_begin, destroy_host, Goto, login_info_reset, GameSession, LoginHasSession, Solo, Connecting, InConnect
  <2>3. NoTokenYet'
    BY <1>1, <1>0, AskedStep DEF connect, connect_begin, destroy_host, Goto, login_info_reset, Destroyed, NoTokenYet, ConnectExclusive, InConnect
  <2>4. QED  BY <2>1, <2>2, <2>3 DEF ReqParts
<1>2. ASSUME NEW t \in Thread, host_create(t) PROVE ReqParts'
  <2>1. Solo'
    BY <1>2, <1>0, InsideConnect DEF host_create, InConnect
  <2>2. GameSession' /\ LoginHasSession'
    BY <1>2, <1>0, AskedStep DEF host_create, Goto, login_info_reset, GameSession, LoginHasSession, Solo, Connecting, InConnect
  <2>3. NoTokenYet'
    BY <1>2, <1>0, AskedStep DEF host_create, Goto, login_info_reset, Destroyed, NoTokenYet, ConnectExclusive, InConnect
  <2>4. QED  BY <2>1, <2>2, <2>3 DEF ReqParts
<1>3. ASSUME NEW t \in Thread, host_create_fails(t) PROVE ReqParts'
  <2>1. Solo'
    BY <1>3, <1>0, InsideConnect DEF host_create_fails, Fails, Return, InConnect
  <2>2. GameSession' /\ LoginHasSession'
    BY <1>3, <1>0, AskedStep DEF host_create_fails, Return, AfterConnect, Goto, login_info_reset, GameSession, LoginHasSession, Solo, Connecting, InConnect
  <2>3. NoTokenYet'
    BY <1>3, <1>0, AskedStep DEF host_create_fails, Return, AfterConnect, Goto, login_info_reset, Destroyed, NoTokenYet, ConnectExclusive, InConnect
  <2>4. QED  BY <2>1, <2>2, <2>3 DEF ReqParts
<1>4. ASSUME NEW t \in Thread, request_server_data(t) PROVE ReqParts'
  <2>1. Solo'
    BY <1>4, <1>0, InsideConnect DEF request_server_data, InConnect
  <2>2. GameSession' /\ LoginHasSession'
    BY <1>4, <1>0, AskedStep DEF request_server_data, Goto, login_info_reset, GameSession, LoginHasSession, Solo, Connecting, InConnect
  <2>3. NoTokenYet'
    <3>1. SUFFICES ASSUME asked' # "overlap", ltoken = "" PROVE NoTokenYet'
      BY <1>4 DEF request_server_data, NoTokenYet
    <3>2. /\ peer = "null" /\ link = "none" /\ dialled = "none" /\ pc[Main] = "idle"
          /\ \A r \in Recon : pc[r] = "free"
          /\ \A u \in Http : pc[u] = "connect" => \A v \in Http : v # u => pc[v] = "idle"
      BY <1>0, <3>1, AskedStep DEF NoTokenYet
    <3>3. pc[t] = "server" /\ t \in Http
      BY <1>4, <3>2 DEF request_server_data, Thread
    <3>4. \A u \in Http : pc[u] # "connect" /\ (u # t => pc[u] \notin InConnect)
      BY <1>0, <3>2, <3>3 DEF ConnectExclusive, InConnect
    <3>5. /\ \A u \in Thread : u # t => pc'[u] = pc[u]
          /\ pc'[t] \in {"app", "idle"}
          /\ UNCHANGED <<peer, link, dialled>>
      BY <1>4, <1>0, <3>3 DEF request_server_data, Goto
    <3>6. QED  BY <3>2, <3>3, <3>4, <3>5 DEF NoTokenYet, InConnect
  <2>4. QED  BY <2>1, <2>2, <2>3 DEF ReqParts
<1>5. ASSUME NEW t \in Thread, server_data_fails(t) PROVE ReqParts'
  <2>1. Solo'
    BY <1>5, <1>0, InsideConnect DEF server_data_fails, Fails, Return, InConnect
  <2>2. GameSession' /\ LoginHasSession'
    BY <1>5, <1>0, AskedStep DEF server_data_fails, Fails, Return, AfterConnect, Goto, login_info_reset, GameSession, LoginHasSession, Solo, Connecting, InConnect
  <2>3. NoTokenYet'
    <3>1. SUFFICES ASSUME asked' # "overlap", ltoken = "" PROVE NoTokenYet'
      BY <1>5 DEF server_data_fails, Fails, Return, AfterConnect, NoTokenYet
    <3>2. /\ peer = "null" /\ link = "none" /\ dialled = "none" /\ pc[Main] = "idle"
          /\ \A r \in Recon : pc[r] = "free"
          /\ \A u \in Http : pc[u] = "connect" => \A v \in Http : v # u => pc[v] = "idle"
      BY <1>0, <3>1, AskedStep DEF NoTokenYet
    <3>3. pc[t] = "server" /\ t \in Http
      BY <1>5, <3>2 DEF server_data_fails, Thread
    <3>4. \A u \in Http : pc[u] # "connect" /\ (u # t => pc[u] \notin InConnect)
      BY <1>0, <3>2, <3>3 DEF ConnectExclusive, InConnect
    <3>5. /\ \A u \in Thread : u # t => pc'[u] = pc[u]
          /\ pc'[t] \in {"app", "idle"}
          /\ UNCHANGED <<peer, link, dialled>>
      BY <1>5, <1>0, <3>3 DEF server_data_fails, Fails, Return, AfterConnect, Goto
    <3>6. QED  BY <3>2, <3>3, <3>4, <3>5 DEF NoTokenYet, InConnect
  <2>4. QED  BY <2>1, <2>2, <2>3 DEF ReqParts
<1>6. ASSUME NEW t \in Thread, request_app_data(t) PROVE ReqParts'
  <2>1. Solo'
    BY <1>6, <1>0, InsideConnect DEF request_app_data, InConnect
  <2>2. GameSession' /\ LoginHasSession'
    BY <1>6, <1>0, AskedStep DEF request_app_data, Goto, login_info_reset, GameSession, LoginHasSession, Solo, Connecting, InConnect
  <2>3. NoTokenYet'
    BY <1>6, <1>0, AskedStep DEF request_app_data, Goto, login_info_reset, Destroyed, NoTokenYet, ConnectExclusive, InConnect
  <2>4. QED  BY <2>1, <2>2, <2>3 DEF ReqParts
<1>7. ASSUME NEW t \in Thread, app_data_fails(t) PROVE ReqParts'
  <2>1. Solo'
    BY <1>7, <1>0, InsideConnect DEF app_data_fails, Fails, Return, InConnect
  <2>2. GameSession' /\ LoginHasSession'
    BY <1>7, <1>0, AskedStep DEF app_data_fails, Fails, Return, AfterConnect, Goto, login_info_reset, GameSession, LoginHasSession, Solo, Connecting, InConnect
  <2>3. NoTokenYet'
    <3>1. SUFFICES ASSUME asked' # "overlap", ltoken = "" PROVE NoTokenYet'
      BY <1>7 DEF app_data_fails, Fails, NoTokenYet
    <3>2. /\ peer = "null" /\ link = "none" /\ dialled = "none" /\ pc[Main] = "idle"
          /\ \A r \in Recon : pc[r] = "free"
          /\ \A u \in Http : pc[u] = "connect" => \A v \in Http : v # u => pc[v] = "idle"
      BY <1>0, <3>1, AskedStep DEF NoTokenYet
    <3>3. pc[t] = "app" /\ t \in Http
      BY <1>7, <3>2 DEF app_data_fails, Thread
    <3>4. \A u \in Http : pc[u] # "connect" /\ (u # t => pc[u] \notin InConnect)
      BY <1>0, <3>2, <3>3 DEF ConnectExclusive, InConnect
    <3>5. /\ \A u \in Thread : u # t => pc'[u] = pc[u]
          /\ pc'[t] = "idle"
          /\ UNCHANGED <<peer, link, dialled>>
      BY <1>7, <1>0, <3>3 DEF app_data_fails, Fails, Return, AfterConnect, Goto
    <3>6. QED  BY <3>2, <3>3, <3>4, <3>5 DEF NoTokenYet, InConnect
  <2>4. QED  BY <2>1, <2>2, <2>3 DEF ReqParts
<1>8. ASSUME NEW t \in Thread, growid_login(t) PROVE ReqParts'
  <2>1. Solo'
    BY <1>8, <1>0, InsideConnect DEF growid_login, InConnect
  <2>2. GameSession' /\ LoginHasSession'
    BY <1>8, <1>0, AskedStep DEF growid_login, Goto, login_info_reset, GameSession, LoginHasSession, Solo, Connecting, InConnect
  <2>3. NoTokenYet'
    BY <1>8, <1>0, AskedStep DEF growid_login, Goto, login_info_reset, Destroyed, NoTokenYet, ConnectExclusive, InConnect
  <2>4. QED  BY <2>1, <2>2, <2>3 DEF ReqParts
<1>9. ASSUME NEW t \in Thread, growid_login_fails(t) PROVE ReqParts'
  <2>1. /\ pc[t] = "token" /\ ltoken = ""
        /\ pc' = [pc EXCEPT ![t] = AfterConnect(t, FALSE)]
        /\ lock' = NoThread
        /\ UNCHANGED <<host, hosts, link, dialled, svc, fault, peer, loginVars>>
    BY <1>9 DEF growid_login_fails, Fails, Return, Goto
  <2>2. Solo'
    BY <1>9, <1>0, InsideConnect DEF growid_login_fails, Fails, Return, InConnect
  <2>3. GameSession' /\ LoginHasSession'
    BY <2>1, <1>0, AskedStep
       DEF AfterConnect, loginVars, GameSession, LoginHasSession, Solo, Connecting, InConnect
  <2>4. NoTokenYet'
    BY <2>1, <1>0, AskedStep DEF AfterConnect, loginVars, NoTokenYet, ConnectExclusive, InConnect
  <2>5. QED  BY <2>2, <2>3, <2>4 DEF ReqParts
<1>10. ASSUME NEW t \in Thread, address_invalid(t) PROVE ReqParts'
  <2>1. Solo'
    BY <1>10, <1>0, InsideConnect DEF address_invalid, Fails, Return, InConnect
  <2>2. GameSession' /\ LoginHasSession'
    BY <1>10, <1>0, AskedStep DEF address_invalid, Fails, Return, AfterConnect, Goto, login_info_reset, GameSession, LoginHasSession, Solo, Connecting, InConnect
  <2>3. NoTokenYet'
    BY <1>10, <1>0, AskedStep DEF address_invalid, Fails, Return, AfterConnect, Goto, login_info_reset, Destroyed, NoTokenYet, ConnectExclusive, InConnect
  <2>4. QED  BY <2>1, <2>2, <2>3 DEF ReqParts
<1>11. ASSUME NEW t \in Thread, dial(t) PROVE ReqParts'
  <2>1. Solo'
    BY <1>11, <1>0, AskedStep DEF dial, Return, AfterConnect, Goto, Solo, Connecting, InConnect
  <2>2. GameSession' /\ LoginHasSession'
    BY <1>11, <1>0, AskedStep DEF dial, Return, AfterConnect, Goto, login_info_reset, GameSession, LoginHasSession, Solo, Connecting, InConnect
  <2>3. NoTokenYet'
    <3>1. pc[t] = "dial" /\ ltoken' = ltoken
      BY <1>11 DEF dial
    <3>2. t \in Http \/ t = Main \/ t \in Recon
      BY DEF Thread
    <3>3. asked = "overlap" \/ ltoken # ""
      BY <1>0, <3>1, <3>2 DEF NoTokenYet
    <3>4. QED  BY <3>1, <3>3, AskedStep DEF NoTokenYet
  <2>4. QED  BY <2>1, <2>2, <2>3 DEF ReqParts
<1>12. ASSUME NEW t \in Thread, dial_fails(t) PROVE ReqParts'
  <2>1. Solo'
    BY <1>12, <1>0, InsideConnect DEF dial_fails, Fails, Return, InConnect
  <2>2. GameSession' /\ LoginHasSession'
    BY <1>12, <1>0, AskedStep DEF dial_fails, Fails, Return, AfterConnect, Goto, login_info_reset, GameSession, LoginHasSession, Solo, Connecting, InConnect
  <2>3. NoTokenYet'
    BY <1>12, <1>0, AskedStep DEF dial_fails, Fails, Return, AfterConnect, Goto, login_info_reset, Destroyed, NoTokenYet, ConnectExclusive, InConnect
  <2>4. QED  BY <2>1, <2>2, <2>3 DEF ReqParts
<1>13. ASSUME NEW t \in Http, on_reconnect(t) PROVE ReqParts'
  <2>1. Solo'
    <3>1. Reconnects(t)
      BY <1>13, <1>0 DEF on_reconnect, connect_begin, Goto, Reconnects
    <3>2. QED  BY <3>1, AskedStep DEF Solo
  <2>2. GameSession' /\ LoginHasSession'
    BY <1>13, <1>0, AskedStep DEF on_reconnect, connect_begin, destroy_host, Goto, login_info_reset, GameSession, LoginHasSession, Solo, Connecting, InConnect
  <2>3. NoTokenYet'
    <3>1. SUFFICES ASSUME asked' # "overlap", ltoken = "" PROVE NoTokenYet'
      BY <1>13 DEF on_reconnect, connect_begin, login_info_reset, NoTokenYet
    <3>2. Reconnects(t)
      BY <1>13, <1>0 DEF on_reconnect, connect_begin, Goto, Reconnects
    <3>3. \A u \in Http : pc'[u] # "connect" /\ (pc'[u] \in {"create", "dial"} => u = t)
      <4>1. \A u \in Http : u # t => pc[u] # "connect"
        BY <3>1, <3>2, AskedStep
      <4>2. \A u \in Http : pc[u] \notin InConnect
        BY <1>13, <1>0 DEF on_reconnect, connect_begin, ConnectExclusive
      <4>3. QED  BY <1>13, <1>0, <4>1, <4>2 DEF on_reconnect, connect_begin, Goto, InConnect
    <3>4. /\ peer' = "null" /\ link' = "none" /\ dialled' = "none" /\ addr' = ""
          /\ pc'[t] = "create" /\ \A u \in Thread \ Http : pc'[u] = pc[u]
      BY <1>13, <1>0, <3>1, AskedStep
      DEF on_reconnect, connect_begin, destroy_host, Destroyed, login_info_reset, Goto, NoTokenYet
    <3>5. asked # "overlap"
      BY <3>1, AskedStep
    <3>6. QED  BY <1>0, <3>1, <3>3, <3>4, <3>5 DEF NoTokenYet
  <2>4. QED  BY <2>1, <2>2, <2>3 DEF ReqParts
<1>14. ASSUME NEW t \in Http, on_disconnect(t) PROVE ReqParts'
  <2>1. Solo'
    BY <1>14, <1>0, AskedStep DEF on_disconnect, destroy_host, Goto, Solo, Connecting, InConnect
  <2>2. GameSession' /\ LoginHasSession'
    BY <1>14, <1>0, AskedStep DEF on_disconnect, destroy_host, Goto, login_info_reset, GameSession, LoginHasSession, Solo, Connecting, InConnect
  <2>3. NoTokenYet'
    BY <1>14, <1>0, AskedStep DEF on_disconnect, destroy_host, Goto, login_info_reset, Destroyed, NoTokenYet, ConnectExclusive, InConnect
  <2>4. QED  BY <2>1, <2>2, <2>3 DEF ReqParts
<1>15. ASSUME NEW t \in Http, on_send(t) PROVE ReqParts'
  <2>1. Solo'
    BY <1>15, <1>0, AskedStep DEF on_send, Goto, Solo, Connecting, InConnect
  <2>2. GameSession' /\ LoginHasSession'
    BY <1>15, <1>0, AskedStep DEF on_send, Goto, login_info_reset, GameSession, LoginHasSession, Solo, Connecting, InConnect
  <2>3. NoTokenYet'
    BY <1>15, <1>0, AskedStep DEF on_send, Goto, login_info_reset, Destroyed, NoTokenYet, ConnectExclusive, InConnect
  <2>4. QED  BY <2>1, <2>2, <2>3 DEF ReqParts
<1>16. ASSUME NEW t \in Http, on_ping(t) PROVE ReqParts'
  <2>1. Solo'
    BY <1>16, <1>0, AskedStep DEF on_ping, Goto, Solo, Connecting, InConnect
  <2>2. GameSession' /\ LoginHasSession'
    BY <1>16, <1>0, AskedStep DEF on_ping, Goto, login_info_reset, GameSession, LoginHasSession, Solo, Connecting, InConnect
  <2>3. NoTokenYet'
    BY <1>16, <1>0, AskedStep DEF on_ping, Goto, login_info_reset, Destroyed, NoTokenYet, ConnectExclusive, InConnect
  <2>4. QED  BY <2>1, <2>2, <2>3 DEF ReqParts
<1>17. ASSUME NEW r \in Recon, reconnect_reset(r) PROVE ReqParts'
  <2>1. Solo'
    BY <1>17, <1>0, AskedStep DEF reconnect_reset, Goto, Solo, Connecting, InConnect
  <2>2. GameSession' /\ LoginHasSession'
    BY <1>17, <1>0, AskedStep DEF reconnect_reset, Goto, login_info_reset, GameSession, LoginHasSession, Solo, Connecting, InConnect
  <2>3. NoTokenYet'
    BY <1>17, <1>0, AskedStep DEF reconnect_reset, Goto, login_info_reset, Destroyed, NoTokenYet, ConnectExclusive, InConnect
  <2>4. QED  BY <2>1, <2>2, <2>3 DEF ReqParts
<1>18. ASSUME NEW r \in Recon, reconnect_wake(r) PROVE ReqParts'
  <2>1. Solo'
    BY <1>18, <1>0, AskedStep DEF reconnect_wake, Goto, Solo, Connecting, InConnect
  <2>2. GameSession' /\ LoginHasSession'
    BY <1>18, <1>0, AskedStep DEF reconnect_wake, Goto, login_info_reset, GameSession, LoginHasSession, Solo, Connecting, InConnect
  <2>3. NoTokenYet'
    BY <1>18, <1>0, AskedStep DEF reconnect_wake, Goto, login_info_reset, Destroyed, NoTokenYet, ConnectExclusive, InConnect
  <2>4. QED  BY <2>1, <2>2, <2>3 DEF ReqParts
<1>19. ASSUME poll_begin PROVE ReqParts'
  <2>1. Solo'
    BY <1>19, <1>0, AskedStep DEF poll_begin, Goto, Solo, Connecting, InConnect
  <2>2. GameSession' /\ LoginHasSession'
    BY <1>19, <1>0, AskedStep DEF poll_begin, Goto, login_info_reset, GameSession, LoginHasSession, Solo, Connecting, InConnect
  <2>3. NoTokenYet'
    BY <1>19, <1>0, AskedStep DEF poll_begin, Goto, login_info_reset, Destroyed, NoTokenYet, ConnectExclusive, InConnect
  <2>4. QED  BY <2>1, <2>2, <2>3 DEF ReqParts
<1>20. ASSUME poll_call PROVE ReqParts'
  <2>1. Solo'
    BY <1>20, <1>0, AskedStep DEF poll_call, Goto, Solo, Connecting, InConnect
  <2>2. GameSession' /\ LoginHasSession'
    BY <1>20, <1>0, AskedStep DEF poll_call, Goto, login_info_reset, GameSession, LoginHasSession, Solo, Connecting, InConnect
  <2>3. NoTokenYet'
    BY <1>20, <1>0, AskedStep DEF poll_call, Goto, login_info_reset, Destroyed, NoTokenYet, ConnectExclusive, InConnect
  <2>4. QED  BY <2>1, <2>2, <2>3 DEF ReqParts
<1>21. ASSUME poll_freed PROVE ReqParts'
  <2>1. Solo'
    BY <1>21, <1>0, AskedStep DEF poll_freed, Goto, Solo, Connecting, InConnect
  <2>2. GameSession' /\ LoginHasSession'
    BY <1>21, <1>0, AskedStep DEF poll_freed, Goto, login_info_reset, GameSession, LoginHasSession, Solo, Connecting, InConnect
  <2>3. NoTokenYet'
    BY <1>21, <1>0, AskedStep DEF poll_freed, Goto, login_info_reset, Destroyed, NoTokenYet, ConnectExclusive, InConnect
  <2>4. QED  BY <2>1, <2>2, <2>3 DEF ReqParts
<1>22. ASSUME poll_end PROVE ReqParts'
  <2>1. Solo'
    BY <1>22, <1>0, AskedStep DEF poll_end, HostInService, Goto, Solo, Connecting, InConnect
  <2>2. GameSession' /\ LoginHasSession'
    BY <1>22, <1>0, AskedStep DEF poll_end, HostInService, Goto, login_info_reset, GameSession, LoginHasSession, Solo, Connecting, InConnect
  <2>3. NoTokenYet'
    BY <1>22, <1>0, AskedStep DEF poll_end, HostInService, Goto, login_info_reset, Destroyed, NoTokenYet, ConnectExclusive, InConnect
  <2>4. QED  BY <2>1, <2>2, <2>3 DEF ReqParts
<1>23. ASSUME event_connect PROVE ReqParts'
  <2>1. Solo'
    BY <1>23, <1>0, AskedStep DEF event_connect, HostInService, Goto, Solo, Connecting, InConnect
  <2>2. GameSession' /\ LoginHasSession'
    BY <1>23, <1>0, AskedStep DEF event_connect, HostInService, Goto, login_info_reset, GameSession, LoginHasSession, Solo, Connecting, InConnect
  <2>3. NoTokenYet'
    BY <1>23, <1>0, AskedStep DEF event_connect, HostInService, Goto, login_info_reset, Destroyed, NoTokenYet, ConnectExclusive, InConnect
  <2>4. QED  BY <2>1, <2>2, <2>3 DEF ReqParts
<1>24. ASSUME NEW r \in Recon, NEW st \in {"DISCONNECTED", status}, link_lost(r, st) PROVE ReqParts'
  <2>1. Solo'
    <3>1. asked' = "none" => \A u \in Http \cup Recon : ~ Connecting(u)
      BY <1>24, <1>0, AskedStep DEF link_lost, Solo
    <3>2. /\ \A u \in Thread : u # Main /\ u # r => pc'[u] = pc[u]
          /\ pc'[Main] = "call" /\ link' = "down"
      BY <1>24, <1>0 DEF link_lost
    <3>3. asked' = "none" => \A u \in Thread : Connecting(u)' => u = r
      BY <3>1, <3>2 DEF Connecting, InConnect, Thread
    <3>4. QED  BY <3>2, <3>3 DEF Solo
  <2>2. GameSession' /\ LoginHasSession'
    BY <1>24, <1>0, AskedStep DEF link_lost, HostInService, Goto, login_info_reset, GameSession, LoginHasSession, Solo, Connecting, InConnect
  <2>3. NoTokenYet'
    BY <1>24, <1>0, AskedStep DEF link_lost, HostInService, Goto, login_info_reset, Destroyed, NoTokenYet, ConnectExclusive, InConnect
  <2>4. QED  BY <2>1, <2>2, <2>3 DEF ReqParts
<1>25. ASSUME NEW l \in {"reply", "world", "redirect"}, event_receive(l) PROVE ReqParts'
  <2>1. Solo'
    <3>1. asked' = "none" => \A u \in Http \cup Recon : ~ Connecting(u)
      BY <1>25, <1>0, AskedStep DEF event_receive, Solo
    <3>2. \A u \in Thread : u # Main => pc'[u] = pc[u]
      BY <1>25, <1>0 DEF event_receive, Goto
    <3>3. asked' = "none" => \A u \in Http \cup Recon : ~ Connecting(u)'
      BY <3>1, <3>2 DEF Connecting
    <3>4. QED  BY <3>3 DEF Solo, Thread
  <2>2. GameSession' /\ LoginHasSession'
    BY <1>25, <1>0, AskedStep DEF event_receive, HostInService, Goto, login_info_reset, GameSession, LoginHasSession, Solo, Connecting, InConnect
  <2>3. NoTokenYet'
    BY <1>25, <1>0, AskedStep DEF event_receive, HostInService, Goto, login_info_reset, Destroyed, NoTokenYet, ConnectExclusive, InConnect
  <2>4. QED  BY <2>1, <2>2, <2>3 DEF ReqParts
<1>26. ASSUME authentication_error PROVE ReqParts'
  <2>1. Solo'
    BY <1>26, <1>0, AskedStep DEF authentication_error, HostInService, Goto, Solo, Connecting, InConnect
  <2>2. GameSession' /\ LoginHasSession'
    BY <1>26, <1>0, AskedStep DEF authentication_error, HostInService, Goto, login_info_reset, GameSession, LoginHasSession, Solo, Connecting, InConnect
  <2>3. NoTokenYet'
    BY <1>26, <1>0, AskedStep DEF authentication_error, HostInService, Goto, login_info_reset, Destroyed, NoTokenYet, ConnectExclusive, InConnect
  <2>4. QED  BY <2>1, <2>2, <2>3 DEF ReqParts
<1>27. ASSUME handle_reply PROVE ReqParts'
  <2>1. Solo'
    BY <1>27, <1>0, AskedStep DEF handle_reply, Goto, Solo, Connecting, InConnect
  <2>2. GameSession' /\ LoginHasSession'
    BY <1>27, <1>0, AskedStep DEF handle_reply, Goto, login_info_reset, GameSession, LoginHasSession, Solo, Connecting, InConnect
  <2>3. NoTokenYet'
    BY <1>27, <1>0, AskedStep DEF handle_reply, Goto, login_info_reset, Destroyed, NoTokenYet, ConnectExclusive, InConnect
  <2>4. QED  BY <2>1, <2>2, <2>3 DEF ReqParts
<1>28. ASSUME handle_world PROVE ReqParts'
  <2>1. Solo'
    BY <1>28, <1>0, AskedStep DEF handle_world, Goto, Solo, Connecting, InConnect
  <2>2. GameSession' /\ LoginHasSession'
    BY <1>28, <1>0, AskedStep DEF handle_world, Goto, login_info_reset, GameSession, LoginHasSession, Solo, Connecting, InConnect
  <2>3. NoTokenYet'
    BY <1>28, <1>0, AskedStep DEF handle_world, Goto, login_info_reset, Destroyed, NoTokenYet, ConnectExclusive, InConnect
  <2>4. QED  BY <2>1, <2>2, <2>3 DEF ReqParts
<1>29. ASSUME OnSendToServer PROVE ReqParts'
  <2>1. Solo'
    BY <1>29, <1>0, AskedStep DEF OnSendToServer, Goto, Solo, Connecting, InConnect
  <2>2. GameSession' /\ LoginHasSession'
    BY <1>29, <1>0, AskedStep DEF OnSendToServer, Goto, login_info_reset, GameSession, LoginHasSession, Solo, Connecting, InConnect
  <2>3. NoTokenYet'
    BY <1>29, <1>0, AskedStep DEF OnSendToServer, Goto, login_info_reset, Destroyed, NoTokenYet, ConnectExclusive, InConnect
  <2>4. QED  BY <2>1, <2>2, <2>3 DEF ReqParts
<1>30. ASSUME redirect_bye PROVE ReqParts'
  <2>1. Solo'
    BY <1>30, <1>0, AskedStep DEF redirect_bye, Goto, Solo, Connecting, InConnect
  <2>2. GameSession' /\ LoginHasSession'
    BY <1>30, <1>0, AskedStep DEF redirect_bye, Goto, login_info_reset, GameSession, LoginHasSession, Solo, Connecting, InConnect
  <2>3. NoTokenYet'
    BY <1>30, <1>0, AskedStep DEF redirect_bye, Goto, login_info_reset, Destroyed, NoTokenYet, ConnectExclusive, InConnect
  <2>4. QED  BY <2>1, <2>2, <2>3 DEF ReqParts
<1>31. ASSUME NEW t \in Thread, growid_login_stalls(t) PROVE ReqParts'
  <2>1. Solo'
    BY <1>31, <1>0, AskedStep DEF growid_login_stalls, Goto, Solo, Connecting, InConnect
  <2>2. GameSession' /\ LoginHasSession'
    BY <1>31, <1>0, AskedStep DEF growid_login_stalls, Goto, GameSession, LoginHasSession, Solo, Connecting, InConnect
  <2>3. NoTokenYet'
    BY <1>31, <1>0, AskedStep DEF growid_login_stalls, Goto, NoTokenYet, ConnectExclusive, InConnect
  <2>4. QED  BY <2>1, <2>2, <2>3 DEF ReqParts
<1>32. QED
  BY <1>1, <1>2, <1>3, <1>4, <1>5, <1>6, <1>7, <1>8, <1>9, <1>10, <1>11, <1>12, <1>13, <1>14, <1>15,
     <1>16, <1>17, <1>18, <1>19, <1>20, <1>21, <1>22, <1>23, <1>24, <1>25, <1>26, <1>27, <1>28, <1>29, <1>30, <1>31
  DEF ThreadNext, MainNext, HttpNext, ReconNext, ConnectSteps, event_disconnect, event_timeout

\* The first connect() is the one that ClientPool::add leads to.
LEMMA ReqStart == ReqInit => ReqInv
<1> SUFFICES ASSUME ReqInit PROVE ReqInv
  OBVIOUS
<1>1. ConnInv
  BY ConnInit DEF ReqInit
<1>2. PICK adder \in Http :
        pc = [t \in Thread |-> IF t = adder THEN "connect"
                               ELSE IF t \in Recon THEN "free" ELSE "idle"]
  BY DEF ReqInit, Init
<1>3. \A t \in Thread : Connecting(t) => t = adder
  BY <1>2, ThreadKinds DEF Connecting, InConnect, Thread
<1>4. Solo
  BY <1>3, ThreadKinds DEF Solo, ReqInit, Init
<1>5. GameSession /\ LoginHasSession
  BY DEF ReqInit, Init, GameSession, LoginHasSession
<1>6. NoTokenYet
  BY <1>2, ThreadKinds DEF NoTokenYet, ReqInit, Init
<1>7. QED  BY <1>1, <1>4, <1>5, <1>6 DEF ReqInv, ReqParts

\* Together with ConnInv, the parts are inductive.
LEMMA ReqInductive == ReqInv /\ [ReqNext]_reqVars => ReqInv'
<1> SUFFICES ASSUME ReqInv, [ReqNext]_reqVars PROVE ReqInv'
  OBVIOUS
<1>1. ConnInv'
  BY ConnInductive DEF ReqInv, ReqNext, reqVars
<1>2. ReqParts'
  <2>1. CASE ReqNext /\ fault = "none" /\ ThreadNext
    BY <2>1, PartsStep DEF ReqInv
  <2>2. CASE ReqNext /\ UNCHANGED vars
    <3>1. asked' = "none" => asked = "none"
      BY <2>2, AskedStep
    <3>2. asked' # "overlap" => asked # "overlap"
      BY <2>2, AskedStep
    <3>3. QED
      BY <2>2, <3>1, <3>2 DEF vars, enetVars, loginVars, ReqInv, ReqParts, Solo, Connecting,
         GameSession, LoginHasSession, NoTokenYet
  <2>3. CASE UNCHANGED reqVars
    BY <2>3 DEF reqVars, vars, enetVars, loginVars, ReqInv, ReqParts, Solo, Connecting,
       GameSession, LoginHasSession, NoTokenYet
  <2>4. QED  BY <2>1, <2>2, <2>3 DEF ReqNext, Next, Crashed, Hung
<1>3. QED  BY <1>1, <1>2 DEF ReqInv

\* The invariant behind the theorems.
LEMMA ReqInvariant == ReqSpec => []ReqInv
<1>1. ReqInit => ReqInv                       BY ReqStart
<1>2. ReqInv /\ [ReqNext]_reqVars => ReqInv'  BY ReqInductive
<1>3. QED  BY <1>1, <1>2, PTL DEF ReqSpec

\* For any number of HTTP handlers and reconnect threads: whatever request of
\* connect() fails on the way, no server is dialled before there is a login
\* token, unless two HTTP clients' reconnects overlap (client.cpp, connect).
THEOREM TokenFirst == ReqSpec => []LoginHasToken
<1>1. ReqInv => LoginHasToken
  BY DEF ReqInv, ReqParts, NoTokenYet, LoginHasToken
<1>2. QED  BY <1>1, ReqInvariant, PTL

\* As long as no HTTP client reconnects the bot, the threads that service_poll
\* starts for lost links never pile up.
THEOREM ReconnectorAlone == ReqSpec => []OneReconnector
<1>1. ReqInv => OneReconnector
  BY ThreadKinds DEF ReqInv, ReqParts, Solo, Connecting, OneReconnector
<1>2. QED  BY <1>1, ReqInvariant, PTL

\* ... and the bot logs in on a game server with the session it was given for it.
THEOREM SessionForGame == ReqSpec => []LoginHasSession
<1>1. ReqInv => LoginHasSession
  BY DEF ReqInv, ReqParts
<1>2. QED  BY <1>1, ReqInvariant, PTL

\* The history changes nothing of what the connection does: every behaviour of
\* ConnRequests is one of ClientConn, and what is proved of that holds here.
THEOREM HistoryOnly == ReqSpec => Spec
<1>1. ReqInit => Init
  BY DEF ReqInit
<1>2. [ReqNext]_reqVars => [Next]_vars
  BY DEF ReqNext, reqVars
<1>3. QED  BY <1>1, <1>2, PTL DEF ReqSpec, Spec

=============================================================================
