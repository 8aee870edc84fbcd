------------------------------- MODULE Registry -------------------------------
(***************************************************************************)
(* What ClientPool promises to the HTTP API: a set of bot names on which   *)
(* each request acts once, at one instant between its arrival and its      *)
(* answer.  A request that finds (or adds) its bot may then still be       *)
(* answered "no", when the bot's own part of the work (connect) fails; one  *)
(* that does not find it never gets an "ok".                               *)
(***************************************************************************)
EXTENDS Naturals

CONSTANTS Http, Name, Ops, Nobody

VARIABLES
  names,  \* the names registered
  stage,  \* of each request: "done", "called", or what it found
  op,     \* what it asks for
  arg     \* for which name

rvars == <<names, stage, op, arg>>

RInit ==
  /\ names = {}
  /\ stage = [t \in Http |-> "done"]
  /\ op = [t \in Http |-> Nobody]
  /\ arg = [t \in Http |-> Nobody]

Arrive(t, o, n) ==
  /\ stage[t] = "done"
  /\ stage' = [stage EXCEPT ![t] = "called"]
  /\ op' = [op EXCEPT ![t] = o]
  /\ arg' = [arg EXCEPT ![t] = n]
  /\ UNCHANGED names

\* The instant of the request; list finds every bot, remove succeeds always.
Act(t) ==
  /\ stage[t] = "called"
  /\ names' = CASE op[t] = "add"    -> names \cup {arg[t]}
                [] op[t] = "remove" -> names \ {arg[t]}
                [] OTHER            -> names
  /\ LET refused == CASE op[t] = "add"              -> arg[t] \in names
                      [] op[t] \in {"use", "connect"} -> arg[t] \notin names
                      [] OTHER                      -> FALSE
     IN  stage' = [stage EXCEPT ![t] = IF refused THEN "refused" ELSE "found"]
  /\ UNCHANGED <<op, arg>>

Answer(t) ==
  /\ stage[t] \in {"refused", "found"}
  /\ stage' = [stage EXCEPT ![t] = "done"]
  /\ op' = [op EXCEPT ![t] = Nobody]
  /\ arg' = [arg EXCEPT ![t] = Nobody]
  /\ UNCHANGED names

RNext ==
  \E t \in Http :
    \/ \E o \in Ops, n \in Name : Arrive(t, o, n)
    \/ Act(t)
    \/ Answer(t)

RSpec == RInit /\ [][RNext]_rvars
=============================================================================
