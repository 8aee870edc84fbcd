------------------------------ MODULE EventQueue ------------------------------
(***************************************************************************)
(* Call functions of the game server on their way to Lua scripts: the main *)
(* thread pushes them into the client's SafeQueue while the client listens *)
(* (call_function.cpp), and the threads of scripts take them out inside    *)
(* l_listen_events (lapi/api.cpp).  All threads of one client share the    *)
(* queue and the flag m_is_listening_events; nothing joins the flag and    *)
(* the queue, which has a mutex of its own.  SafeQueue::empty returns a    *)
(* reference to a temporary, so what its caller reads may be anything.     *)
(***************************************************************************)
EXTENDS Naturals, Sequences, FiniteSets

CONSTANTS
  Listener,   \* the threads that run scripts of this client
  MaxEvents   \* bound: the events the server sends

ASSUME QueueAssumption == MaxEvents \in Nat

VARIABLES
  flag,       \* m_is_listening_events
  queue,      \* m_event_queue; an event is its number
  sent,       \* the number of events the server has sent
  main,       \* "push": the main thread has read the flag and is about to push
  peer,       \* get_peer(): connected or not ("down"), a nullptr after
              \* disconnect(), or into a host that is gone ("stale")
  at,         \* where each thread is in l_listen_events
  cond,       \* the operand of the condition of a loop that it reads next
  over,       \* its time is over (get_current_time() >= last_event)
  heard,      \* history: the events taken out of the queue
  since,      \* history: sent and Len(heard) when each session began
  rival,      \* history: the sessions that overlap with another
  stray,      \* history: the threads to which empty() said FALSE in vain
  fault       \* get_peer() was read through a dead pointer: the process is gone

vars == <<flag, queue, sent, main, peer, at, cond, over, heard, since, rival, stray, fault>>

Event == 1 .. MaxEvents
Stage == {"idle", "outer", "inner", "peek", "pop", "handler", "sleep", "end", "clear"}

TypeOK ==
  /\ flag \in BOOLEAN /\ main \in {"poll", "push"}
  /\ peer \in {"connected", "down", "stale", "null"}
  /\ queue \in Seq(Event) /\ heard \in Seq(Event)
  /\ sent \in 0 .. MaxEvents
  /\ at \in [Listener -> Stage]
  /\ cond \in [Listener -> {"flag", "peer"}]
  /\ over \in [Listener -> BOOLEAN]
  /\ since \in [Listener -> (0 .. MaxEvents) \X Nat]
  /\ rival \subseteq Listener /\ stray \subseteq Listener
  /\ fault \in {"none", "dead_peer"}

Init ==
  /\ flag = FALSE /\ main = "poll" /\ peer = "connected"
  /\ queue = <<>> /\ heard = <<>>
  /\ sent = 0
  /\ at = [t \in Listener |-> "idle"]
  /\ cond = [t \in Listener |-> "flag"]
  /\ over = [t \in Listener |-> FALSE]
  /\ since = [t \in Listener |-> <<0, 0>>]
  /\ rival = {} /\ stray = {}
  /\ fault = "none"

-----------------------------------------------------------------------------
(***************************************************************************)
(* The main thread: an event arrives, the flag is read, then it is pushed. *)
(***************************************************************************)
call_function ==
  /\ peer = "connected" /\ main = "poll" /\ sent < MaxEvents
  /\ sent' = sent + 1
  /\ main' = IF flag THEN "push" ELSE "poll"
  /\ UNCHANGED <<flag, queue, peer, at, cond, over, heard, since, rival, stray, fault>>

\* Mutant: the event before is pushed.
queue_push_previous ==
  /\ main = "push" /\ main' = "poll"
  /\ queue' = Append(queue, sent - 1)
  /\ UNCHANGED <<flag, sent, peer, at, cond, over, heard, since, rival, stray, fault>>

queue_push ==
  /\ main = "push" /\ main' = "poll"
  /\ queue' = Append(queue, sent)
  /\ UNCHANGED <<flag, sent, peer, at, cond, over, heard, since, rival, stray, fault>>

\* connect(), disconnect() and the network.
peer_state ==
  /\ peer' \in {"connected", "down", "stale", "null"} \ {peer}
  /\ peer' = "stale" => peer # "null"
  /\ UNCHANGED <<flag, queue, sent, main, at, cond, over, heard, since, rival, stray, fault>>

-----------------------------------------------------------------------------
(***************************************************************************)
(* l_listen_events, one access to what the threads share at a time.        *)
(***************************************************************************)
listen(t) ==
  /\ at[t] = "idle"
  /\ flag' = TRUE
  /\ at' = [at EXCEPT ![t] = "outer"]
  /\ since' = [since EXCEPT ![t] = <<sent, Len(heard)>>]
  /\ LET others == {u \in Listener \ {t} : at[u] # "idle"} IN
       rival' = rival \cup others \cup {u \in {t} : others # {}}
  /\ UNCHANGED <<queue, sent, main, peer, cond, over, heard, stray, fault>>

\* Both loops have the same condition, the inner one with empty() after it.
Enter(t) == at' = [at EXCEPT ![t] = IF @ = "outer" THEN "inner" ELSE "peek"]
Leave(t) == at' = [at EXCEPT ![t] = IF @ = "outer" THEN "end" ELSE "sleep"]

Reads(t, operand) == at[t] \in {"outer", "inner"} /\ cond[t] = operand

\* Mutant: the loops do not look at the clock.
read_flag_timeless(t) ==
  /\ Reads(t, "flag")
  /\ IF flag THEN cond' = [cond EXCEPT ![t] = "peer"] /\ UNCHANGED at
     ELSE Leave(t) /\ UNCHANGED cond
  /\ UNCHANGED <<flag, queue, sent, main, peer, over, heard, since, rival, stray, fault>>

\* The clock, which no other thread can change, and the flag.
read_flag(t) ==
  /\ Reads(t, "flag")
  /\ IF ~ over[t] /\ flag THEN cond' = [cond EXCEPT ![t] = "peer"] /\ UNCHANGED at
     ELSE Leave(t) /\ UNCHANGED cond
  /\ UNCHANGED <<flag, queue, sent, main, peer, over, heard, since, rival, stray, fault>>

\* get_peer()->state: of a peer that is not there any more it may be anything,
\* and the access may end the process.
read_peer(t) ==
  /\ Reads(t, "peer")
  /\ cond' = [cond EXCEPT ![t] = "flag"]
  /\ \/ peer \in {"connected", "stale"} /\ Enter(t) /\ UNCHANGED fault
     \/ peer \in {"down", "stale"} /\ Leave(t) /\ UNCHANGED fault
     \/ peer \in {"null", "stale"} /\ fault' = "dead_peer" /\ UNCHANGED at
  /\ UNCHANGED <<flag, queue, sent, main, peer, over, heard, since, rival, stray>>

\* The last operand of the inner condition.
queue_empty(t) ==
  /\ at[t] = "peek"
  /\ \/ at' = [at EXCEPT ![t] = "sleep"] /\ UNCHANGED stray
     \/ /\ at' = [at EXCEPT ![t] = "pop"]
        /\ stray' = IF queue = <<>> THEN stray \cup {t} ELSE stray
  /\ UNCHANGED <<flag, queue, sent, main, peer, cond, over, heard, since, rival, fault>>

\* Mutant: the event is read, and not taken out.
queue_pop_reads(t) ==
  /\ at[t] = "pop" /\ queue # <<>>
  /\ heard' = Append(heard, Head(queue))
  /\ at' = [at EXCEPT ![t] = "handler"]
  /\ stray' = stray \ {t}
  /\ UNCHANGED <<flag, queue, sent, main, peer, cond, over, since, rival, fault>>

\* Waits for an event, whatever the clock and the flag say meanwhile.
queue_pop(t) ==
  /\ at[t] = "pop" /\ queue # <<>>
  /\ heard' = Append(heard, Head(queue)) /\ queue' = Tail(queue)
  /\ at' = [at EXCEPT ![t] = "handler"]
  /\ stray' = stray \ {t}
  /\ UNCHANGED <<flag, sent, main, peer, cond, over, since, rival, fault>>

\* The Lua function returns; it may have called unlisten_events.
handler(t) ==
  /\ at[t] = "handler"
  /\ flag' \in {flag, FALSE}
  /\ at' = [at EXCEPT ![t] = "inner"]
  /\ UNCHANGED <<queue, sent, main, peer, cond, over, heard, since, rival, stray, fault>>

sleep(t) ==
  /\ at[t] = "sleep"
  /\ at' = [at EXCEPT ![t] = "outer"]
  /\ UNCHANGED <<flag, queue, sent, main, peer, cond, over, heard, since, rival, stray, fault>>

unset(t) ==
  /\ at[t] = "end"
  /\ flag' = FALSE
  /\ at' = [at EXCEPT ![t] = "clear"]
  /\ UNCHANGED <<queue, sent, main, peer, cond, over, heard, since, rival, stray, fault>>

\* The locals go, and what the history says of the session.
Return(t) ==
  /\ at' = [at EXCEPT ![t] = "idle"]
  /\ over' = [over EXCEPT ![t] = FALSE]
  /\ rival' = rival \ {t}
  /\ since' = [since EXCEPT ![t] = <<0, 0>>]

\* Mutant: a session leaves the queue as it is.
queue_clear_not(t) ==
  /\ at[t] = "clear"
  /\ Return(t)
  /\ UNCHANGED <<flag, queue, sent, main, peer, cond, heard, stray, fault>>

queue_clear(t) ==
  /\ at[t] = "clear"
  /\ queue' = <<>>
  /\ Return(t)
  /\ UNCHANGED <<flag, sent, main, peer, cond, heard, stray, fault>>

time_over(t) ==
  /\ at[t] # "idle" /\ ~ over[t]
  /\ over' = [over EXCEPT ![t] = TRUE]
  /\ UNCHANGED <<flag, queue, sent, main, peer, at, cond, heard, since, rival, stray, fault>>

MainNext == call_function \/ queue_push \/ peer_state

Step(t) ==
  \/ read_flag(t) \/ read_peer(t)
  \/ queue_empty(t) \/ queue_pop(t)
  \/ handler(t) \/ sleep(t) \/ unset(t) \/ queue_clear(t)

ThreadNext ==
  \/ MainNext
  \/ \E t \in Listener : listen(t) \/ Step(t) \/ time_over(t)

\* The process has ended.
Crashed == fault # "none" /\ UNCHANGED vars

Next == (fault = "none" /\ ThreadNext) \/ Crashed

Spec == Init /\ [][Next]_vars

(***************************************************************************)
(* Fairness: the threads run, Lua functions return, time passes.  Nobody   *)
(* has to send events, and no script has to listen.                        *)
(***************************************************************************)
Alive(A) == fault = "none" /\ A

Fairness ==
  /\ WF_vars(Alive(queue_push))
  /\ \A t \in Listener : WF_vars(Alive(Step(t))) /\ WF_vars(Alive(time_over(t)))

FairSpec == Spec /\ Fairness

-----------------------------------------------------------------------------
\* Each event is handled at most once, by one thread, and none before one that
\* was sent earlier, through however many sessions and threads.
Increasing(s) == \A i, j \in 1 .. Len(s) : i < j => s[i] < s[j]
InOrder == Increasing(heard \o queue \o (IF main = "push" THEN <<sent>> ELSE <<>>))

\* When no thread listens, the flag is off and at most one event waits or is
\* about to: the one whose push came between the flag and the clear.  So the
\* queue does not grow while nobody reads it.
ResidueBounded ==
  (\A t \in Listener : at[t] = "idle")
     => ~ flag /\ Len(queue) + (IF main = "push" THEN 1 ELSE 0) <= 1

\* That event is the only one from before its time that a session can hear, as
\* long as it is the only session.
OneStale ==
  \A t \in Listener :
    at[t] # "idle" /\ t \notin rival =>
      Cardinality({i \in since[t][2] + 1 .. Len(heard) : heard[i] <= since[t][1]}) <= 1

\* A thread waits for an event in pop(): another thread has taken the one that
\* it saw, or it saw one where there was none.
Parked(t) == at[t] = "pop" /\ queue = <<>> /\ t \in rival \cup stray

\* listen_events(time) returns, even if no event comes: a session that is alone,
\* and to which empty() does not lie, pops only what is there.  Every other one
\* returns too, unless it is left waiting in pop(), or the process dies of a
\* peer that is not there any more.
SessionEnds ==
  \A t \in Listener : at[t] # "idle" ~> at[t] = "idle" \/ Parked(t) \/ fault # "none"
=============================================================================
