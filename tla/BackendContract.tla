---------------------------- MODULE BackendContract ----------------------------
(***************************************************************************)
(* What the executor may rely on when it calls lcc_backend_apply_* and     *)
(* then lcc_backend_read_state, whatever the setting, the route and the    *)
(* number of backends behind the call: which registers may change, what OK *)
(* means, what amw0 may remember and what may be shown.  Amw0Control,      *)
(* ProfileRoute and PowerStack implement it; Transaction takes it for      *)
(* granted of its backend.                                                 *)
(***************************************************************************)
CONSTANTS
  Slot,  \* the settings
  None

Backend == {"standard", "amw0"}

VARIABLES
  dry,       \* the backends that are dry runs; never changes
  shares,    \* per backend and slot: the slots in the same register; given
  phase,     \* "idle", "apply" or "refresh"
  asked,     \* per slot: what the running or last call asks for, or None
  status,    \* of the last call: "OK" or "failed"; "none" while one runs
  executor,  \* per slot: the backend that answers for it
  register,  \* per backend and slot: what the machine has
  memo,      \* per slot: what amw0 retains
  foreign,   \* the <<backend, slot>> firmware changed since the call
  shown      \* per slot: the effective value and where it comes from

vars == <<phase, asked, status, executor, register, memo, foreign, shown, dry>>

Named == {s \in Slot : asked[s] # None}

Init ==
  /\ phase \in {"idle", "refresh"}
  /\ \A s \in Slot : asked[s] = None /\ shown[s].source = "none"
  /\ status = "none"
  /\ foreign = {}

(* The call; without a backend for it, it is over at once.                 *)
Call ==
  /\ phase = "idle"
  /\ \/ phase' = "apply" /\ status' = "none"
     \/ phase' = "refresh" /\ status' = "failed"
  /\ \E s \in Slot : asked'[s] # None
  /\ foreign' = {}
  /\ UNCHANGED <<register, memo, shown, dry>>

(* A write reaches at most one register, of a backend that is no dry run,  *)
(* and one that holds a setting the call names.                            *)
Touched == {r \in Backend \X Slot : register'[r[1]][r[2]] # register[r[1]][r[2]]}

Programming ==
  Touched = {} \/ \E b \in Backend \ dry, s \in Named : Touched \subseteq {b} \X shares[b][s]

Running ==
  /\ foreign' \subseteq foreign
  /\ Programming
  /\ UNCHANGED <<asked, shown, dry>>

Write ==
  /\ phase = "apply" /\ phase' = "apply"
  /\ Running
  /\ UNCHANGED <<status, memo>>

(* OK means that each named setting is in the register of its executor,    *)
(* unless that is a dry run, or firmware came after; and that amw0         *)
(* remembers what it executed, and nothing else but a setting that was     *)
(* rewritten along with it.                                                *)
Programmed(s) ==
  \/ executor'[s] \in dry
  \/ <<executor'[s], s>> \in foreign'
  \/ register'[executor'[s]][s] = asked[s]

Rewritten(t) ==
  /\ t \notin Named
  /\ \E s \in Named : executor'[s] = "amw0" /\ t \in shares["amw0"][s]
  /\ "amw0" \in dry \/ memo'[t] = register'["amw0"][t]

Succeed ==
  /\ phase = "apply" /\ phase' = "refresh"
  /\ Running
  /\ status' = "OK"
  /\ \A s \in Named : executor'[s] \in Backend /\ Programmed(s)
  /\ \A s \in Slot :
       IF s \in Named /\ executor'[s] = "amw0" THEN memo'[s] = asked[s]
       ELSE memo'[s] = memo[s] \/ Rewritten(s)

(* A call that fails may have written anything it was asked to, and leaves *)
(* nothing in memory.                                                      *)
Fail ==
  /\ phase = "apply" /\ phase' = "refresh"
  /\ Running
  /\ status' = "failed"
  /\ UNCHANGED memo

Answer == <<asked, status, executor, register, foreign>>

(* A shown value was just read, or is what amw0 remembers after the read;  *)
(* and amw0 remembers nothing new but what it read.                        *)
Refresh ==
  /\ phase = "refresh" /\ phase' = "idle"
  /\ \A s \in Slot :
       \/ memo'[s] = memo[s]
       \/ "amw0" \notin dry /\ memo'[s] = register["amw0"][s]
  /\ \A s \in Slot :
       \/ /\ shown'[s].source \in Backend \ dry
          /\ shown'[s].value = register[shown'[s].source][s]
       \/ shown'[s].source = "cache" /\ shown'[s].value = memo'[s]
       \/ shown'[s].source = "none" /\ shown'[s].value = None
  /\ UNCHANGED <<Answer, dry>>

RefreshFails ==
  /\ phase = "refresh" /\ phase' = "idle"
  /\ status' = IF status = "OK" THEN "failed" ELSE status
  /\ \A s \in Slot : /\ shown'[s].value = shown[s].value
                     /\ shown'[s].source = IF shown[s].value = None THEN "none" ELSE "cache"
  /\ UNCHANGED <<asked, executor, register, memo, foreign, dry>>

(* Firmware, a hotkey or another tool, at any time.                        *)
Drift ==
  /\ UNCHANGED <<phase, status, asked, executor, memo, shown, dry>>
  /\ foreign \subseteq foreign'
  /\ Touched \subseteq foreign'

Next ==
  \/ Drift
  \/ Call \/ Write \/ Succeed \/ Fail
  \/ Refresh \/ RefreshFails

Spec == Init /\ [][Next]_vars

================================================================================
