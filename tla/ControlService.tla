----------------------------- MODULE ControlService -----------------------------
(***************************************************************************)
(* What the daemon promises its clients, without saying how: one command   *)
(* at a time, each answered as rejected (nothing reached the hardware),    *)
(* done (every named setting was programmed, in one backend's register at  *)
(* least) or aborted (anything between may have happened), and no write    *)
(* outside a command.  Transaction.tla implements it.                      *)
(***************************************************************************)
EXTENDS LccTypes

VARIABLES
  mode,     \* "down", "idle" or "busy"
  command,  \* the command being served, or the last one
  outcome,  \* how the last command ended; "none" while one is served
  reached,  \* the registers this command has programmed
  hardware  \* what the machine's registers hold

vars == <<mode, command, outcome, reached, hardware>>

Init ==
  /\ mode = "down"
  /\ command = NoValue
  /\ outcome = "none"
  /\ reached = {}
  /\ hardware \in Device

Start ==
  /\ mode = "down"
  /\ mode' = "idle"
  /\ command' = NoValue
  /\ outcome' = "none"
  /\ reached' = {}
  /\ UNCHANGED hardware

Accept ==
  /\ mode = "idle"
  /\ mode' = "busy"
  /\ command' \in Request
  /\ outcome' = "none"
  /\ reached' = {}
  /\ UNCHANGED hardware

Write(r) ==
  /\ mode = "busy"
  /\ r[2] \in Named(command)
  /\ hardware' \in Programmed(hardware, r, Settings(command)[r[2]])
  /\ reached' = reached \cup {r}
  /\ UNCHANGED <<mode, command, outcome>>

Answer(o) ==
  /\ mode = "busy"
  /\ mode' = "idle"
  /\ outcome' = o
  /\ UNCHANGED <<command, reached, hardware>>

Reject   == Answer("rejected") /\ reached = {}
Complete == Answer("done") /\ \A s \in Named(command) : \E b \in Backend : <<b, s>> \in reached
Abort    == Answer("aborted")

(* Firmware and the other tools of the machine change settings at will.    *)
Drift ==
  /\ hardware' \in Device
  /\ UNCHANGED <<mode, command, outcome, reached>>

Crash ==
  /\ mode' = "down"
  /\ outcome' = "none"
  /\ reached' = {}
  /\ command' = NoValue
  /\ UNCHANGED hardware

Next ==
  \/ Start \/ Accept \/ Reject \/ Complete \/ Abort \/ Crash
  \/ \E r \in Register : Write(r)
  \/ Drift

Spec == Init /\ [][Next]_vars

================================================================================
