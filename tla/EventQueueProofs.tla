--------------------------- MODULE EventQueueProofs ---------------------------
(***************************************************************************)
(* Proofs about EventQueue, for any number of threads and events, and also *)
(* when SafeQueue::empty answers at random.  QueueInv is inductive: the    *)
(* order of what has been heard, what waits and what is being pushed, and  *)
(* a thread that answers for the flag as long as it is on.                 *)
(***************************************************************************)
EXTENDS EventQueue, SequenceTheorems, FiniteSetTheorems, TLAPS

Ordered ==
  /\ Increasing(heard)
  /\ Increasing(queue)
  /\ \A i \in 1..Len(heard), j \in 1..Len(queue) : heard[i] < queue[j]

\* An event that is about to be pushed is newer than all the others.
Newest == IF main = "push" THEN sent - 1 ELSE sent
Bounded ==
  /\ \A i \in 1..Len(heard) : heard[i] <= Newest
  /\ \A j \in 1..Len(queue) : queue[j] <= Newest
  /\ main = "push" => sent \in Event

\* Some session is before its end: it will put the flag out, and then clear.
FlagOwned == flag = TRUE => \E t \in Listener : at[t] \notin {"idle", "clear"}

Room == (IF main = "push" THEN 1 ELSE 0)
Residue == (\A t \in Listener : at[t] = "idle") => Len(queue) + Room <= 1

QueueInv == TypeOK /\ Ordered /\ Bounded /\ FlagOwned /\ Residue

\* No event and no session at first.
LEMMA QueueInit == Init => QueueInv
<1> SUFFICES ASSUME Init PROVE QueueInv
  OBVIOUS
<1>1. TypeOK
  <2>1. 0 \in 0..MaxEvents /\ <<>> \in Seq(Event) /\ "idle" \in Stage
    BY QueueAssumption DEF Stage
  <2>2. [t \in Listener |-> FALSE] \in [Listener -> BOOLEAN]
    OBVIOUS
  <2>3. QED  BY <2>1, <2>2 DEF Init, TypeOK
<1>2. Ordered /\ Bounded
  BY DEF Init, Ordered, Bounded, Increasing
<1>3. FlagOwned /\ Residue
  BY DEF Init, FlagOwned, Residue, Room
<1>4. QED  BY <1>1, <1>2, <1>3 DEF QueueInv

\* A crashed process does not move.
LEMMA LiveSteps == [Next]_vars => ThreadNext \/ UNCHANGED vars
BY DEF Next, Crashed

\* The types after a step.
LEMMA TypeStep == TypeOK /\ Bounded /\ [Next]_vars => TypeOK'
<1> SUFFICES ASSUME TypeOK, Bounded, [Next]_vars PROVE TypeOK'
  OBVIOUS
<1> USE QueueAssumption DEF TypeOK, Stage
<1>1. CASE call_function
  BY <1>1 DEF call_function
<1>2. CASE queue_push
  <2>1. sent \in Event
    BY <1>2 DEF queue_push, Bounded
  <2>2. Append(queue, sent) \in Seq(Event)
    BY <2>1
  <2>3. QED  BY <1>2, <2>2 DEF queue_push
<1>3. CASE peer_state
  BY <1>3 DEF peer_state
<1>4. ASSUME NEW t \in Listener, listen(t) PROVE TypeOK'
  BY <1>4 DEF listen
<1>5. ASSUME NEW t \in Listener, Step(t) PROVE TypeOK'
  <2>1. CASE read_flag(t)
    BY <2>1 DEF read_flag, Enter, Leave
  <2>2. CASE queue_empty(t)
    BY <2>2 DEF queue_empty
  <2>3. CASE queue_pop(t)
    BY <2>3 DEF queue_pop
  <2>7. CASE read_peer(t)
    BY <2>7 DEF read_peer, Enter, Leave
  <2>4. CASE handler(t) \/ sleep(t) \/ unset(t)
    BY <2>4 DEF handler, sleep, unset
  <2>5. CASE queue_clear(t)
    BY <2>5 DEF queue_clear, Return
  <2>6. QED  BY <1>5, <2>1, <2>2, <2>3, <2>4, <2>5, <2>7 DEF Step
<1>6. ASSUME NEW t \in Listener, time_over(t) PROVE TypeOK'
  BY <1>6 DEF time_over
<1>7. CASE UNCHANGED vars
  BY <1>7 DEF vars
<1>8. QED  BY <1>1, <1>2, <1>3, <1>4, <1>5, <1>6, <1>7, LiveSteps DEF ThreadNext, MainNext

-----------------------------------------------------------------------------
\* What is pushed is newer than all that waits, and that than all that was heard.
LEMMA OrderStep == TypeOK /\ Ordered /\ Bounded /\ [Next]_vars => Ordered' /\ Bounded'
<1> SUFFICES ASSUME TypeOK, Ordered, Bounded, [Next]_vars
             PROVE  Ordered' /\ Bounded'
  OBVIOUS
<1> USE QueueAssumption
<1>0. /\ sent \in 0..MaxEvents /\ MaxEvents \in Nat /\ Event = 1..MaxEvents
      /\ queue \in Seq(Event) /\ heard \in Seq(Event)
  BY DEF TypeOK, Event
<1>1. CASE call_function
  <2>1. /\ queue' = queue /\ heard' = heard /\ main = "poll"
        /\ sent' = sent + 1 /\ sent < MaxEvents /\ main' \in {"poll", "push"}
    BY <1>1 DEF call_function
  <2>2. sent' \in Event
    BY <1>0, <2>1
  <2>3. Newest = sent /\ Newest <= Newest' /\ Newest' \in Int
    BY <1>0, <2>1 DEF Newest
  <2>4. Ordered'
    BY <2>1 DEF Ordered, Increasing
  <2>5. \A i \in 1..Len(heard) : heard[i] \in Int
    BY <1>0
  <2>6. \A i \in 1..Len(queue) : queue[i] \in Int
    BY <1>0
  <2>7. QED  BY <1>0, <2>1, <2>2, <2>3, <2>4, <2>5, <2>6 DEF Bounded
<1>2. CASE queue_push
  <2>1. /\ queue' = Append(queue, sent) /\ heard' = heard
        /\ sent' = sent /\ main = "push" /\ main' = "poll"
    BY <1>2 DEF queue_push
  <2>2. Newest = sent - 1 /\ Newest' = sent /\ sent \in Event
    BY <2>1 DEF Newest, Bounded
  <2>3. /\ Len(queue') = Len(queue) + 1 /\ Len(queue) \in Nat
        /\ \A i \in 1..Len(queue) : queue'[i] = queue[i] /\ queue[i] \in Int
        /\ queue'[Len(queue) + 1] = sent
    BY <1>0, <2>1, <2>2
  <2>4. /\ \A i \in 1..Len(heard) : heard[i] \in Int /\ heard[i] < sent
        /\ \A i \in 1..Len(queue) : queue[i] < sent
    BY <1>0, <2>2, <2>3 DEF Bounded
  <2>5. \A j \in 1..Len(queue') : j \in 1..Len(queue) \/ j = Len(queue) + 1
    BY <2>3
  <2>6. Increasing(queue)'
    <3>1. SUFFICES ASSUME NEW i \in 1..Len(queue'), NEW j \in 1..Len(queue'), i < j
                   PROVE  queue'[i] < queue'[j]
      BY <1>0, <2>1, <2>2 DEF Increasing
    <3>2. i \in 1..Len(queue)
      BY <2>3, <3>1
    <3>3. CASE j \in 1..Len(queue)
      BY <1>0, <2>3, <3>1, <3>2, <3>3 DEF Ordered, Increasing
    <3>4. CASE j = Len(queue) + 1
      BY <2>3, <2>4, <3>2, <3>4
    <3>5. QED  BY <2>5, <3>3, <3>4
  <2>7. \A i \in 1..Len(heard), j \in 1..Len(queue') : heard[i] < queue'[j]
    BY <2>3, <2>4, <2>5 DEF Ordered
  <2>8. \A j \in 1..Len(queue') : queue'[j] <= sent
    <3>1. SUFFICES ASSUME NEW j \in 1..Len(queue') PROVE queue'[j] <= sent
      OBVIOUS
    <3>2. CASE j \in 1..Len(queue)
      <4>1. queue'[j] \in Int /\ queue'[j] < sent
        BY <2>3, <2>4, <3>2
      <4>2. QED  BY <1>0, <4>1
    <3>3. CASE j = Len(queue) + 1
      BY <1>0, <2>3, <3>3
    <3>4. QED  BY <2>5, <3>2, <3>3
  <2>9. Ordered'
    BY <2>1, <2>6, <2>7 DEF Ordered, Increasing
  <2>10. QED  BY <1>0, <2>1, <2>2, <2>4, <2>8, <2>9 DEF Bounded
<1>3. ASSUME NEW t \in Listener, queue_pop(t) PROVE Ordered' /\ Bounded'
  <2>1. /\ heard' = Append(heard, Head(queue)) /\ queue' = Tail(queue) /\ queue # <<>>
        /\ sent' = sent /\ main' = main
    BY <1>3 DEF queue_pop
  <2>2. Newest' = Newest
    BY <2>1 DEF Newest
  <2>3. /\ Len(queue) \in Nat /\ Len(queue) >= 1 /\ Len(queue') = Len(queue) - 1
        /\ \A j \in 1..Len(queue') : queue'[j] = queue[j + 1] /\ j + 1 \in 1..Len(queue)
        /\ Head(queue) = queue[1] /\ queue[1] \in Event
    BY <1>0, <2>1
  <2>4. /\ Len(heard') = Len(heard) + 1 /\ Len(heard) \in Nat
        /\ \A i \in 1..Len(heard) : heard'[i] = heard[i]
        /\ heard'[Len(heard) + 1] = queue[1]
    BY <1>0, <2>1, <2>3
  <2>5. \A i \in 1..Len(heard') : i \in 1..Len(heard) \/ i = Len(heard) + 1
    BY <2>4
  <2>6. Increasing(heard)'
    <3>1. SUFFICES ASSUME NEW i \in 1..Len(heard'), NEW j \in 1..Len(heard'), i < j
                   PROVE  heard'[i] < heard'[j]
      BY <1>0, <2>1, <2>3 DEF Increasing
    <3>2. i \in 1..Len(heard)
      BY <2>4, <3>1
    <3>3. CASE j \in 1..Len(heard)
      BY <1>0, <2>4, <3>1, <3>2, <3>3 DEF Ordered, Increasing
    <3>4. CASE j = Len(heard) + 1
      BY <2>3, <2>4, <3>2, <3>4 DEF Ordered
    <3>5. QED  BY <2>5, <3>3, <3>4
  <2>7. Increasing(queue)'
    BY <1>0, <2>1, <2>3 DEF Ordered, Increasing
  <2>8. \A i \in 1..Len(heard'), j \in 1..Len(queue') : heard'[i] < queue'[j]
    <3>1. SUFFICES ASSUME NEW i \in 1..Len(heard'), NEW j \in 1..Len(queue')
                   PROVE  heard'[i] < queue'[j]
      OBVIOUS
    <3>2. CASE i \in 1..Len(heard)
      BY <2>3, <2>4, <3>2 DEF Ordered
    <3>3. CASE i = Len(heard) + 1
      <4>1. 1 \in 1..Len(queue) /\ j + 1 \in 1..Len(queue) /\ 1 < j + 1
        BY <2>3
      <4>2. queue[1] < queue[j + 1]
        BY <4>1 DEF Ordered, Increasing
      <4>3. QED  BY <2>3, <2>4, <3>3, <4>2
    <3>4. QED  BY <2>5, <3>2, <3>3
  <2>9. Bounded'
    <3>1. \A i \in 1..Len(heard') : heard'[i] <= Newest
      BY <2>3, <2>4, <2>5 DEF Bounded
    <3>2. \A j \in 1..Len(queue') : queue'[j] <= Newest
      BY <2>3 DEF Bounded
    <3>3. QED  BY <2>1, <2>2, <3>1, <3>2 DEF Bounded
  <2>10. QED  BY <2>6, <2>7, <2>8, <2>9 DEF Ordered
<1>4. ASSUME NEW t \in Listener, queue_clear(t) PROVE Ordered' /\ Bounded'
  <2>1. queue' = <<>> /\ heard' = heard /\ sent' = sent /\ main' = main
    BY <1>4 DEF queue_clear
  <2>2. QED  BY <2>1 DEF Ordered, Bounded, Increasing, Newest
<1>5. ASSUME queue' = queue, heard' = heard, sent' = sent, main' = main
      PROVE  Ordered' /\ Bounded'
  BY <1>5 DEF Ordered, Bounded, Increasing, Newest
<1>6. CASE peer_state \/ \E t \in Listener : listen(t) \/ time_over(t)
  BY <1>5, <1>6 DEF peer_state, listen, time_over
<1>7. ASSUME NEW t \in Listener, Step(t) PROVE Ordered' /\ Bounded'
  <2>1. CASE read_flag(t) \/ read_peer(t) \/ queue_empty(t) \/ handler(t) \/ sleep(t) \/ unset(t)
    BY <1>5, <2>1 DEF read_flag, read_peer, queue_empty, handler, sleep, unset
  <2>2. QED  BY <1>3, <1>4, <1>7, <2>1 DEF Step
<1>8. CASE UNCHANGED vars
  BY <1>5, <1>8 DEF vars
<1>9. QED  BY <1>1, <1>2, <1>6, <1>7, <1>8, LiveSteps DEF ThreadNext, MainNext

-----------------------------------------------------------------------------
\* The thread that puts the flag on is in its session; who leaves a session puts
\* the flag off first.
LEMMA FlagStep == TypeOK /\ FlagOwned /\ [Next]_vars => FlagOwned'
<1> SUFFICES ASSUME TypeOK, FlagOwned, [Next]_vars, flag' = TRUE
             PROVE  \E t \in Listener : at'[t] \notin {"idle", "clear"}
  BY DEF FlagOwned
<1>0. at \in [Listener -> Stage]
  BY DEF TypeOK
<1>1. ASSUME flag' = flag, at' = at PROVE \E t \in Listener : at'[t] \notin {"idle", "clear"}
  BY <1>1 DEF FlagOwned
<1>2. CASE MainNext \/ UNCHANGED vars
  BY <1>1, <1>2 DEF MainNext, call_function, queue_push, peer_state, vars
<1>4. ASSUME NEW t \in Listener, listen(t) PROVE at'[t] \notin {"idle", "clear"}
  BY <1>0, <1>4 DEF listen
<1>5. ASSUME NEW t \in Listener, time_over(t)
      PROVE  \E u \in Listener : at'[u] \notin {"idle", "clear"}
  BY <1>1, <1>5 DEF time_over
<1>6. ASSUME NEW t \in Listener, Step(t)
      PROVE  \E u \in Listener : at'[u] \notin {"idle", "clear"}
  <2>1. CASE read_flag(t) \/ read_peer(t)
    <3>1. at'[t] \in {"outer", "inner", "end", "peek", "sleep"}
      BY <1>0, <2>1 DEF read_flag, read_peer, Reads, Enter, Leave
    <3>2. QED  BY <3>1
  <2>2. CASE queue_empty(t)
    <3>1. at'[t] \in {"pop", "sleep"}
      BY <1>0, <2>2 DEF queue_empty
    <3>2. QED  BY <3>1
  <2>3. CASE queue_pop(t) \/ handler(t) \/ sleep(t)
    <3>1. at'[t] \in {"handler", "inner", "outer"}
      BY <1>0, <2>3 DEF queue_pop, handler, sleep
    <3>2. QED  BY <3>1
  <2>4. CASE unset(t)
    BY <2>4 DEF unset
  <2>5. CASE queue_clear(t)
    <3>1. flag' = flag /\ at[t] = "clear" /\ \A u \in Listener \ {t} : at'[u] = at[u]
      BY <1>0, <2>5 DEF queue_clear, Return
    <3>2. PICK u \in Listener : at[u] \notin {"idle", "clear"}
      BY <3>1 DEF FlagOwned
    <3>3. u # t
      BY <3>1, <3>2
    <3>4. QED  BY <3>1, <3>2, <3>3
  <2>6. QED  BY <1>6, <2>1, <2>2, <2>3, <2>4, <2>5 DEF Step
<1>7. QED  BY <1>2, <1>4, <1>5, <1>6, LiveSteps DEF ThreadNext

\* Who clears the queue last leaves at most the push that is under way.
LEMMA ResidueStep == TypeOK /\ FlagOwned /\ Residue /\ [Next]_vars => Residue'
<1> SUFFICES ASSUME TypeOK, FlagOwned, Residue, [Next]_vars,
                    \A t \in Listener : at'[t] = "idle"
             PROVE  Len(queue') + Room' <= 1
  BY DEF Residue
<1>0. at \in [Listener -> Stage] /\ queue \in Seq(Event) /\ main \in {"poll", "push"}
  BY DEF TypeOK
<1>1. ASSUME at' = at, queue' = queue, main' = main PROVE Len(queue') + Room' <= 1
  BY <1>1 DEF Residue, Room
<1>2. CASE call_function
  <2>1. (\A t \in Listener : at[t] = "idle") /\ queue' = queue /\ main = "poll"
    BY <1>2 DEF call_function
  <2>2. flag # TRUE
    BY <2>1 DEF FlagOwned
  <2>3. main' = "poll"
    BY <1>2, <2>2 DEF call_function, TypeOK
  <2>4. QED  BY <2>1, <2>3 DEF Residue, Room
<1>3. CASE queue_push
  <2>1. (\A t \in Listener : at[t] = "idle") /\ main = "push" /\ main' = "poll"
    BY <1>3 DEF queue_push
  <2>2. Len(queue') = Len(queue) + 1 /\ Len(queue) \in Nat
    BY <1>0, <1>3 DEF queue_push
  <2>3. QED  BY <2>1, <2>2 DEF Residue, Room
<1>4. CASE peer_state \/ (\E t \in Listener : time_over(t)) \/ UNCHANGED vars
  BY <1>1, <1>4 DEF peer_state, time_over, vars
<1>5. ASSUME NEW t \in Listener, listen(t) PROVE FALSE
  BY <1>0, <1>5 DEF listen
<1>6. ASSUME NEW t \in Listener, Step(t) PROVE Len(queue') + Room' <= 1
  <2>1. CASE queue_clear(t)
    BY <2>1 DEF queue_clear, Room
  <2>2. CASE ~ queue_clear(t)
    <3>1. at'[t] # "idle"
      <4>1. CASE read_flag(t) \/ read_peer(t)
        BY <1>0, <4>1 DEF read_flag, read_peer, Reads, Enter, Leave
      <4>2. CASE queue_empty(t)
        BY <1>0, <4>2 DEF queue_empty
      <4>3. CASE queue_pop(t) \/ handler(t) \/ sleep(t) \/ unset(t)
        BY <1>0, <4>3 DEF queue_pop, handler, sleep, unset
      <4>4. QED  BY <1>6, <2>2, <4>1, <4>2, <4>3 DEF Step
    <3>2. QED  BY <3>1
  <2>3. QED  BY <2>1, <2>2
<1>7. QED  BY <1>2, <1>3, <1>4, <1>5, <1>6, LiveSteps DEF ThreadNext, MainNext

\* QueueInv holds in every state of every behaviour.
THEOREM QueueInductive == Spec => []QueueInv
<1>1. Init => QueueInv
  BY QueueInit
<1>2. QueueInv /\ [Next]_vars => QueueInv'
  BY TypeStep, OrderStep, FlagStep, ResidueStep DEF QueueInv
<1>3. QED  BY <1>1, <1>2, PTL DEF Spec

-----------------------------------------------------------------------------
\* Events reach the scripts in the order in which the server sent them, each at
\* most once, for any number of threads that listen.
THEOREM EventsInOrder == Spec => []InOrder
<1>1. QueueInv => InOrder
  <2> SUFFICES ASSUME QueueInv PROVE InOrder
    OBVIOUS
  <2> DEFINE tail == IF main = "push" THEN <<sent>> ELSE <<>>
             all == heard \o queue \o tail
  <2>1. /\ heard \in Seq(Event) /\ queue \in Seq(Event)
        /\ Event = 1..MaxEvents /\ sent \in Nat /\ MaxEvents \in Nat
    BY QueueAssumption DEF QueueInv, TypeOK, Event
  <2>2. tail \in Seq(Nat) /\ Len(tail) \in {0, 1} /\ (Len(tail) = 1 => tail[1] = sent /\ main = "push")
    BY <2>1
  <2>3. /\ Len(heard) \in Nat /\ Len(queue) \in Nat
        /\ Len(all) = Len(heard) + Len(queue) + Len(tail)
        /\ \A i \in 1..Len(heard) : all[i] = heard[i]
        /\ \A j \in 1..Len(queue) : all[Len(heard) + j] = queue[j]
        /\ Len(tail) = 1 => all[Len(heard) + Len(queue) + 1] = sent
    BY <2>1, <2>2
  <2>4. Ordered /\ Bounded
    BY DEF QueueInv
  <2>5. main = "push" => \A i \in 1..Len(heard) : heard[i] < sent
    <3>1. \A i \in 1..Len(heard) : heard[i] \in Int
      BY <2>1
    <3>2. QED  BY <2>1, <2>4, <3>1 DEF Bounded, Newest
  <2>6. main = "push" => \A j \in 1..Len(queue) : queue[j] < sent
    <3>1. \A j \in 1..Len(queue) : queue[j] \in Int
      BY <2>1
    <3>2. QED  BY <2>1, <2>4, <3>1 DEF Bounded, Newest
  <2> HIDE DEF all, tail
  <2>7. SUFFICES ASSUME NEW i \in 1..Len(all), NEW j \in 1..Len(all), i < j
                 PROVE  all[i] < all[j]
    BY DEF InOrder, Increasing, all, tail
  <2>8. CASE j \in 1..Len(heard)
    <3>1. i \in 1..Len(heard)
      BY <2>3, <2>7, <2>8
    <3>2. QED  BY <2>3, <2>4, <2>7, <2>8, <3>1 DEF Ordered, Increasing
  <2>9. CASE j > Len(heard) /\ j <= Len(heard) + Len(queue)
    <3>1. /\ j - Len(heard) \in 1..Len(queue)
          /\ all[Len(heard) + (j - Len(heard))] = queue[j - Len(heard)]
          /\ Len(heard) + (j - Len(heard)) = j
      BY <2>3, <2>9
    <3>2. CASE i \in 1..Len(heard)
      BY <2>3, <2>4, <3>1, <3>2 DEF Ordered
    <3>3. CASE i > Len(heard)
      <4>1. /\ i - Len(heard) \in 1..Len(queue) /\ i - Len(heard) < j - Len(heard)
            /\ all[Len(heard) + (i - Len(heard))] = queue[i - Len(heard)]
            /\ Len(heard) + (i - Len(heard)) = i
        BY <2>3, <2>7, <2>9, <3>3
      <4>2. queue[i - Len(heard)] < queue[j - Len(heard)]
        BY <2>4, <3>1, <4>1 DEF Ordered, Increasing
      <4>3. QED  BY <3>1, <4>1, <4>2
    <3>4. QED  BY <2>3, <3>2, <3>3
  <2>10. CASE j > Len(heard) + Len(queue)
    <3>1. Len(tail) = 1 /\ j = Len(heard) + Len(queue) + 1 /\ all[j] = sent /\ main = "push"
      <4>1. Len(tail) = 1 /\ j = Len(heard) + Len(queue) + 1
        <5>1. Len(heard) \in Nat /\ Len(queue) \in Nat /\ Len(all) = Len(heard) + Len(queue) + Len(tail)
          BY <2>3
        <5>2. j \in Nat /\ j <= Len(all) /\ Len(tail) \in {0, 1}
          BY <2>2, <2>7, <5>1
        <5>3. CASE Len(tail) = 0
          BY <2>10, <5>1, <5>2, <5>3
        <5>4. CASE Len(tail) = 1
          <6>1. j <= Len(heard) + Len(queue) + 1
            BY <5>1, <5>2, <5>4
          <6>2. QED  BY <2>10, <5>1, <5>2, <5>4, <6>1
        <5>5. QED  BY <5>2, <5>3, <5>4
      <4>2. QED  BY <2>2, <2>3, <4>1
    <3>2. CASE i \in 1..Len(heard)
      BY <2>3, <2>5, <3>1, <3>2
    <3>3. CASE i > Len(heard)
      <4>1. /\ i - Len(heard) \in 1..Len(queue)
            /\ all[Len(heard) + (i - Len(heard))] = queue[i - Len(heard)]
            /\ Len(heard) + (i - Len(heard)) = i
        BY <2>3, <2>7, <3>1, <3>3
      <4>2. QED  BY <2>6, <3>1, <4>1
    <3>4. QED  BY <2>3, <3>2, <3>3
  <2>11. QED  BY <2>3, <2>7, <2>8, <2>9, <2>10
<1>2. QED  BY <1>1, QueueInductive, PTL

\* For any number of threads: between the sessions the flag is off, and at most
\* one event is left over.
THEOREM ResidueSmall == Spec => []ResidueBounded
<1>1. QueueInv => ResidueBounded
  BY DEF QueueInv, FlagOwned, Residue, Room, ResidueBounded, TypeOK
<1>2. QED  BY <1>1, QueueInductive, PTL

\* Every variable keeps its type: what the scripts hear are events that were sent.
THEOREM TypeCorrect == Spec => []TypeOK
<1>1. QueueInv => TypeOK
  BY DEF QueueInv
<1>2. QED  BY <1>1, QueueInductive, PTL

-----------------------------------------------------------------------------
(***************************************************************************)
(* What is left over from before a session.  StaleInv goes with QueueInv:  *)
(* the events from before the session's time that it has heard, that wait  *)
(* in the queue or are about to be pushed are one at most together.        *)
(***************************************************************************)
Old(t, e) ==
  /\ e <= since[t][1]
  /\ \/ \E i \in 1..Len(heard) : since[t][2] < i /\ heard[i] = e
     \/ \E j \in 1..Len(queue) : queue[j] = e
     \/ main = "push" /\ sent = e

InSession(t) == at[t] # "idle" /\ t \notin rival

StaleInv ==
  /\ \A t \in Listener : since[t][1] <= sent
  /\ \A t \in Listener : InSession(t) => \A e, f \in Event : Old(t, e) /\ Old(t, f) => e = f

\* No step but a listen makes an event old for a session that goes on.
LEMMA OldStep ==
  ASSUME QueueInv, StaleInv, [Next]_vars, NEW t \in Listener, since'[t] = since[t],
         NEW e \in Event, Old(t, e)'
  PROVE  Old(t, e)
<1>0. /\ queue \in Seq(Event) /\ heard \in Seq(Event) /\ sent \in Nat
      /\ since[t] \in (0..MaxEvents) \X Nat /\ since[t][1] <= sent
      /\ Len(queue) \in Nat /\ Len(heard) \in Nat
  BY QueueAssumption DEF QueueInv, TypeOK, StaleInv
<1>1. ASSUME queue' = queue, heard' = heard, sent' = sent, main' = main PROVE Old(t, e)
  BY <1>1 DEF Old
<1>2. CASE call_function
  <2>1. queue' = queue /\ heard' = heard /\ sent' = sent + 1
    BY <1>2 DEF call_function
  <2>2. e <= since[t][1] /\ e \in Int /\ since[t][1] \in Int
    BY <1>0, QueueAssumption DEF Old, Event
  <2>3. sent' # e
    BY <1>0, <2>1, <2>2
  <2>4. QED  BY <2>1, <2>3 DEF Old
<1>3. CASE queue_push
  <2>1. /\ heard' = heard /\ main = "push" /\ sent' = sent /\ main' = "poll"
        /\ queue' = Append(queue, sent)
    BY <1>3 DEF queue_push
  <2>2. /\ Len(queue') = Len(queue) + 1
        /\ \A j \in 1..Len(queue) : queue'[j] = queue[j]
        /\ queue'[Len(queue) + 1] = sent
        /\ \A j \in 1..Len(queue') : j \in 1..Len(queue) \/ j = Len(queue) + 1
    BY <1>0, <2>1 DEF QueueInv, Bounded
  <2>3. QED  BY <2>1, <2>2 DEF Old
<1>4. ASSUME NEW u \in Listener, queue_pop(u) PROVE Old(t, e)
  <2>1. /\ heard' = Append(heard, Head(queue)) /\ queue' = Tail(queue) /\ queue # <<>>
        /\ sent' = sent /\ main' = main
    BY <1>4 DEF queue_pop
  <2>2. /\ Len(queue) >= 1 /\ Len(queue') = Len(queue) - 1 /\ Head(queue) = queue[1]
        /\ \A j \in 1..Len(queue') : queue'[j] = queue[j + 1] /\ j + 1 \in 1..Len(queue)
    BY <1>0, <2>1
  <2>3. /\ Len(heard') = Len(heard) + 1
        /\ \A i \in 1..Len(heard) : heard'[i] = heard[i]
        /\ heard'[Len(heard) + 1] = queue[1]
        /\ \A i \in 1..Len(heard') : i \in 1..Len(heard) \/ i = Len(heard) + 1
    BY <1>0, <2>1, <2>2
  <2>4. 1 \in 1..Len(queue)
    BY <1>0, <2>2
  <2>5. QED  BY <2>1, <2>2, <2>3, <2>4 DEF Old
<1>5. ASSUME NEW u \in Listener, queue_clear(u) PROVE Old(t, e)
  BY <1>0, <1>5 DEF queue_clear, Old
<1>6. ASSUME NEW u \in Listener, Step(u) PROVE Old(t, e)
  <2>1. CASE read_flag(u) \/ read_peer(u) \/ queue_empty(u) \/ handler(u) \/ sleep(u) \/ unset(u)
    BY <1>1, <2>1 DEF read_flag, read_peer, queue_empty, handler, sleep, unset
  <2>2. QED  BY <1>4, <1>5, <1>6, <2>1 DEF Step
<1>7. CASE peer_state \/ (\E u \in Listener : listen(u) \/ time_over(u)) \/ UNCHANGED vars
  BY <1>1, <1>7 DEF peer_state, listen, time_over, vars
<1>8. QED  BY <1>2, <1>3, <1>6, <1>7, LiveSteps DEF ThreadNext, MainNext

\* A session that begins alone finds the residue, and one that goes on alone was
\* there before.
LEMMA StaleStep == ASSUME QueueInv, StaleInv, [Next]_vars PROVE StaleInv'
<1>0. /\ at \in [Listener -> Stage] /\ since \in [Listener -> (0..MaxEvents) \X Nat]
      /\ queue \in Seq(Event) /\ Len(queue) \in Nat /\ Len(heard) \in Nat /\ sent \in Nat
      /\ main \in {"poll", "push"}
  BY QueueAssumption DEF QueueInv, TypeOK
<1>1. ASSUME NEW t \in Listener, listen(t) PROVE StaleInv'
  <2>1. /\ queue' = queue /\ heard' = heard /\ sent' = sent /\ main' = main
        /\ since'[t] = <<sent, Len(heard)>> /\ at[t] = "idle"
        /\ \A u \in Listener : u # t => since'[u] = since[u] /\ at'[u] = at[u]
    BY <1>0, <1>1 DEF listen
  <2>2. \A u \in Listener : since'[u][1] <= sent'
    <3>1. since'[t][1] = sent /\ sent <= sent
      BY <1>0, <2>1
    <3>2. QED  BY <2>1, <3>1 DEF StaleInv
  <2>3. \A u \in Listener : u # t => ~ InSession(u)'
    <3>1. TAKE u \in Listener
    <3>2. HAVE u # t
    <3>3. at[u] # "idle" => u \in rival'
      BY <1>1, <3>2 DEF listen
    <3>4. QED  BY <2>1, <3>2, <3>3 DEF InSession
  <2>4. SUFFICES ASSUME InSession(t)', NEW e \in Event, NEW f \in Event, Old(t, e)', Old(t, f)'
                 PROVE  e = f
    BY <2>2, <2>3 DEF StaleInv
  <2>5. \A u \in Listener : at[u] = "idle"
    <3>1. t \notin rival'
      BY <2>4 DEF InSession
    <3>2. {u \in Listener \ {t} : at[u] # "idle"} = {}
      BY <1>1, <3>1 DEF listen
    <3>3. QED  BY <2>1, <3>2
  <2>6. Len(queue) + Room <= 1
    BY <2>5 DEF QueueInv, Residue
  <2>7. since'[t][2] = Len(heard)
    BY <2>1
  <2>8. \A i \in 1..Len(heard) : ~ (since'[t][2] < i)
    BY <1>0, <2>7
  <2>9. \A d \in {e, f} : (\E j \in 1..Len(queue) : queue[j] = d) \/ (main = "push" /\ sent = d)
    BY <2>1, <2>4, <2>8 DEF Old
  <2>10. CASE main = "push"
    <3>1. Len(queue) = 0
      BY <1>0, <2>6, <2>10 DEF Room
    <3>2. QED  BY <2>9, <3>1
  <2>11. CASE main # "push"
    <3>1. \A j \in 1..Len(queue) : j = 1
      BY <1>0, <2>6, <2>11 DEF Room
    <3>2. QED  BY <2>9, <2>11, <3>1
  <2>12. QED  BY <2>10, <2>11
<1>2. ASSUME sent <= sent', sent' \in Nat,
             \A t \in Listener : since'[t] = since[t] \/ since'[t] = <<0, 0>>,
             \A t \in Listener : InSession(t)' => InSession(t) /\ since'[t] = since[t]
      PROVE  StaleInv'
  <2>1. \A t \in Listener : since'[t][1] <= sent'
    <3>1. TAKE t \in Listener
    <3>2. since[t][1] \in Int /\ since[t][1] <= sent
      BY <1>0 DEF StaleInv
    <3>3. CASE since'[t] = since[t]
      BY <1>0, <1>2, <3>2, <3>3
    <3>4. CASE since'[t] = <<0, 0>>
      BY <1>2, <3>4
    <3>5. QED  BY <1>2, <3>3, <3>4
  <2>2. SUFFICES ASSUME NEW t \in Listener, InSession(t)', NEW e \in Event, NEW f \in Event,
                        Old(t, e)', Old(t, f)'
                 PROVE  e = f
    BY <2>1 DEF StaleInv
  <2>3. Old(t, e) /\ Old(t, f)
    BY <1>2, <2>2, OldStep
  <2>4. QED  BY <1>2, <2>2, <2>3 DEF StaleInv
<1>3. CASE MainNext \/ UNCHANGED vars
  <2>1. at' = at /\ rival' = rival /\ since' = since /\ sent' \in {sent, sent + 1}
    BY <1>3 DEF MainNext, call_function, queue_push, peer_state, vars
  <2>2. sent <= sent' /\ sent' \in Nat
    BY <1>0, <2>1
  <2>3. QED  BY <1>2, <2>1, <2>2 DEF InSession
<1>4. ASSUME NEW t \in Listener, Step(t) \/ time_over(t) PROVE StaleInv'
  <2>0. sent' = sent
    BY <1>4 DEF Step, read_flag, read_peer, queue_empty, queue_pop, handler, sleep, unset,
       queue_clear, time_over
  <2>1. sent <= sent' /\ sent' \in Nat
    BY <1>0, <2>0
  <2>2. CASE queue_clear(t)
    <3>1. /\ at'[t] = "idle" /\ since'[t] = <<0, 0>> /\ rival' = rival \ {t}
          /\ \A u \in Listener : u # t => since'[u] = since[u] /\ at'[u] = at[u]
      BY <1>0, <2>2 DEF queue_clear, Return
    <3>2. QED  BY <1>2, <2>1, <3>1 DEF InSession
  <2>3. CASE ~ queue_clear(t)
    <3>1. rival' = rival /\ since' = since
      BY <1>4, <2>3 DEF Step, read_flag, read_peer, queue_empty, queue_pop, handler, sleep, unset,
         time_over
    <3>2. \A u \in Listener : at[u] = "idle" => at'[u] = "idle"
      <4>1. CASE read_flag(t) \/ read_peer(t) \/ queue_empty(t)
        BY <1>0, <4>1 DEF read_flag, read_peer, Reads, Enter, Leave, queue_empty
      <4>2. CASE queue_pop(t) \/ handler(t) \/ sleep(t)
        BY <1>0, <4>2 DEF queue_pop, handler, sleep
      <4>3. CASE unset(t) \/ time_over(t)
        BY <1>0, <4>3 DEF unset, time_over
      <4>4. QED  BY <1>4, <2>3, <4>1, <4>2, <4>3 DEF Step
    <3>3. QED  BY <1>2, <2>1, <3>1, <3>2 DEF InSession
  <2>4. QED  BY <2>2, <2>3
<1>5. QED  BY <1>1, <1>3, <1>4, LiveSteps DEF ThreadNext

\* However the pushes of the main thread fall between the flag and the clear, a
\* session that is alone hears at most one event from before its time.
THEOREM StaleAtMostOne == Spec => []OneStale
<1>1. Init => QueueInv /\ StaleInv
  <2> SUFFICES ASSUME Init PROVE StaleInv
    BY QueueInit
  <2>1. \A t \in Listener : at[t] = "idle" /\ since[t] = <<0, 0>> /\ sent = 0
    BY DEF Init
  <2>2. QED  BY <2>1 DEF StaleInv, InSession
<1>2. QueueInv /\ StaleInv /\ [Next]_vars => (QueueInv /\ StaleInv)'
  BY TypeStep, OrderStep, FlagStep, ResidueStep, StaleStep DEF QueueInv
<1>3. QueueInv /\ StaleInv => OneStale
  <2> SUFFICES ASSUME QueueInv, StaleInv, NEW t \in Listener, InSession(t)
               PROVE  Cardinality({i \in since[t][2] + 1 .. Len(heard) : heard[i] <= since[t][1]}) <= 1
    BY DEF OneStale, InSession
  <2> DEFINE S == {i \in since[t][2] + 1 .. Len(heard) : heard[i] <= since[t][1]}
  <2>1. /\ heard \in Seq(Event) /\ Len(heard) \in Nat /\ since[t] \in (0..MaxEvents) \X Nat
        /\ Increasing(heard)
    BY DEF QueueInv, TypeOK, Ordered
  <2>2. \A i \in S : i \in 1..Len(heard) /\ since[t][2] < i /\ heard[i] \in Event /\ Old(t, heard[i])
    <3>1. TAKE i \in S
    <3>2. i \in 1..Len(heard) /\ since[t][2] < i
      BY <2>1
    <3>3. QED  BY <2>1, <3>2 DEF Old
  <2>3. \A i, j \in S : i = j
    <3>1. TAKE i, j \in S
    <3>2. heard[i] = heard[j] /\ heard[i] \in Int
      BY <2>2, QueueAssumption DEF StaleInv, Event
    <3>3. ~ (i < j) /\ ~ (j < i)
      BY <2>1, <2>2, <3>2 DEF Increasing
    <3>4. QED  BY <2>2, <3>3
  <2> HIDE DEF S
  <2>4. CASE S = {}
    <3>1. Cardinality(S) = 0
      BY <2>4, FS_EmptySet
    <3>2. QED  BY <3>1 DEF S
  <2>5. CASE S # {}
    <3>1. PICK i \in S : TRUE
      BY <2>5
    <3>2. S = {i}
      BY <2>3, <3>1
    <3>3. Cardinality(S) = 1
      BY <3>2, FS_Singleton
    <3>4. QED  BY <3>3 DEF S
  <2>6. QED  BY <2>4, <2>5
<1>4. QED  BY <1>1, <1>2, <1>3, PTL DEF Spec
=============================================================================
