---------------------------- MODULE RunContract ----------------------------
(***************************************************************************)
(* What one run of gm-gather or gm-scatter promises about the hosts it     *)
(* serves, whatever the threads do in between: a host starts only while no *)
(* stop was requested, its outcome is decided once, and the exit status is *)
(* success only if every host ended clean.                                 *)
(***************************************************************************)
CONSTANT Task     \* one task per line of the hosts file that passed the probe

VARIABLES
  outcome,        \* task -> "waiting", "active", "clean" or "bad"
  stopped,        \* has a stop been requested?
  verdict         \* "none" until the run ends, then "ok", "error" or "raised"

vars == <<outcome, stopped, verdict>>

Settled == \A t \in Task : outcome[t] \in {"clean", "bad"}

Init ==
  /\ outcome = [t \in Task |-> "waiting"]
  /\ stopped = FALSE
  /\ verdict = "none"

Stop ==
  /\ stopped' = TRUE
  /\ UNCHANGED <<outcome, verdict>>

Start(t) ==
  /\ outcome[t] = "waiting"
  /\ ~stopped
  /\ outcome' = [outcome EXCEPT ![t] = "active"]
  /\ UNCHANGED <<stopped, verdict>>

Refuse(t) ==
  /\ outcome[t] = "waiting"
  /\ stopped
  /\ outcome' = [outcome EXCEPT ![t] = "bad"]
  /\ UNCHANGED <<stopped, verdict>>

Finish(t) ==
  /\ outcome[t] = "active"
  /\ \E o \in {"clean", "bad"} : outcome' = [outcome EXCEPT ![t] = o]
  /\ UNCHANGED <<stopped, verdict>>

\* "error" needs a bad host or a stop; an exception leaves the run only after a stop.
Decide ==
  /\ verdict = "none"
  /\ \/ /\ Settled
        /\ \A t \in Task : outcome[t] = "clean"
        /\ verdict' = "ok"
     \/ /\ Settled
        /\ stopped \/ \E t \in Task : outcome[t] = "bad"
        /\ verdict' = "error"
     \/ /\ stopped
        /\ \A t \in Task : outcome[t] # "active"
        /\ verdict' = "raised"
  /\ UNCHANGED <<outcome, stopped>>

Next ==
  \/ Stop
  \/ \E t \in Task : Start(t) \/ Refuse(t) \/ Finish(t)
  \/ Decide

Spec == Init /\ [][Next]_vars
=============================================================================
