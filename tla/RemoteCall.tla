------------------------------- MODULE RemoteCall -------------------------------
(***************************************************************************)
(* What a call over the bus means to the process that made it, without     *)
(* queues, authorization or crashes.  The daemon carries a call out at     *)
(* most once.  "OK" and every definite error settle the matter: the call   *)
(* was carried out and ended that way, or it was refused and never will    *)
(* be.  "IO" settles nothing.  Session.tla implements it.                  *)
(***************************************************************************)
CONSTANTS
  Call,     \* the calls, each made once
  Outcome,  \* how carrying out a call can end
  Definite  \* the errors that settle the matter

VARIABLES
  answer,   \* what the caller knows: "unasked", "waiting", "unheard" or a status
  effect    \* what came of the call at the daemon: "none" or an outcome

vars == <<answer, effect>>

Init ==
  /\ answer = [k \in Call |-> "unasked"]
  /\ effect = [k \in Call |-> "none"]

Ask(k) ==
  /\ answer[k] = "unasked"
  /\ answer' = [answer EXCEPT ![k] = "waiting"]
  /\ UNCHANGED effect

(* The caller may have stopped waiting; it may not have been refused.      *)
Perform(k, s) ==
  /\ answer[k] \in {"waiting", "unheard", "IO"}
  /\ effect[k] = "none"
  /\ effect' = [effect EXCEPT ![k] = s]
  /\ UNCHANGED answer

Tell(k, s) ==
  /\ answer[k] \in {"unasked", "waiting"}
  /\ answer' = [answer EXCEPT ![k] = s]
  /\ UNCHANGED effect

Inform(k, s) == effect[k] = s /\ Tell(k, s)
Refuse(k, s) == effect[k] = "none" /\ s \in Definite /\ Tell(k, s)

(* The callers of S get no answer they could rely on.                      *)
Lose(S, s) ==
  /\ \A k \in S : answer[k] \in {"unasked", "waiting"}
  /\ answer' = [k \in Call |-> IF k \in S THEN s ELSE answer[k]]

(* The daemon dies: the call it was carrying out may have had an effect.   *)
Break ==
  /\ \E S \in SUBSET Call : Lose(S, "IO")
  /\ \/ UNCHANGED effect
     \/ \E k \in Call : /\ answer[k] \in {"waiting", "unheard", "IO"}
                        /\ effect[k] = "none"
                        /\ effect' = [effect EXCEPT ![k] = "cut"]

Next ==
  \/ \E k \in Call : Ask(k)
  \/ \E k \in Call, s \in Outcome : Perform(k, s) \/ Inform(k, s)
  \/ \E k \in Call, s \in Definite : Refuse(k, s)
  \/ \E S \in SUBSET Call : Lose(S, "unheard") /\ UNCHANGED effect
  \/ Break

Spec == Init /\ [][Next]_vars

================================================================================
