----------------------------- MODULE ConnRequests -----------------------------
(***************************************************************************)
(* ClientConn with a history: how much the HTTP clients have interfered    *)
(* with the bot's own care for its connection.  Some of what connect(),    *)
(* the redirect and the reconnect threads achieve holds only as long as    *)
(* nobody else reconnects the bot.                                         *)
(***************************************************************************)
EXTENDS ClientConn

VARIABLE asked  \* "none": no HTTP client has asked for a reconnect; "one";
                \* "overlap": one did while another waited in its own connect()

reqVars == <<vars, asked>>

ReqInit == Init /\ asked = "none"

\* on_reconnect has begun on thread t.
Reconnects(t) == pc[t] = "idle" /\ pc'[t] = "create"

Recorded(t) ==
  IF \E u \in Http \ {t} : pc[u] = "connect" THEN "overlap"
  ELSE IF asked = "none" THEN "one" ELSE asked

ReqNext ==
  /\ Next
  /\ \/ \E t \in Http : Reconnects(t) /\ asked' = Recorded(t)
     \/ (\A t \in Http : ~Reconnects(t)) /\ asked' = asked

ReqSpec == ReqInit /\ [][ReqNext]_reqVars

-----------------------------------------------------------------------------
\* Whatever failed on the way, no server is dialled before there is a login
\* token: an address that a failed request_server_data or request_app_data
\* leaves behind, which makes connect() skip the login, is cleared before the
\* next attempt.  (A reconnect that comes between ClientPool::add and the
\* connect() of on_add leaves it for that one.)
LoginHasToken == asked # "overlap" /\ dialled # "none" => ltoken # ""

\* As long as no HTTP client asks for a reconnect: a lost link starts one
\* reconnect thread, and it has dialled before the next link can be lost: they
\* never pile up and tear down each other's links.
OneReconnector ==
  asked = "none" => \A r, s \in Recon : pc[r] # "free" /\ pc[s] # "free" => r = s

\* As long as no HTTP client asks for a reconnect, the login on a game server
\* carries the user and the token of the OnSendToServer that sent the bot
\* there: no reset comes in between, unless the server itself refused the
\* login (authentication_error).
LoginHasSession ==
  asked = "none" /\ dialled = "game" /\ link = "connecting" => session = "full"
=============================================================================
