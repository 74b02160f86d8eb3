-------------------------------- MODULE LccTypes --------------------------------
(***************************************************************************)
(* The vocabulary of the command path: the control slots of a target       *)
(* (include/lcc/state.h), the registers the machine keeps them in, the     *)
(* mutating operations (daemon/transaction.h), the requests D-Bus clients  *)
(* send, and the rules the daemon applies to a request before it reaches a *)
(* backend.                                                                *)
(***************************************************************************)
EXTENDS FiniteSets

CONSTANTS
  Backend,     \* the backends of this machine: "standard", "amw0" or both
  Ops,         \* the operations clients use in this instance
  PowerField,  \* the power-limit fields in play
  Mode,        \* operating modes; a mode's name is also its profile's name
  FanTable,    \* fan tables the daemon can load
  Byte,        \* power-limit values
  Alien,       \* a safe name that neither backend knows
  Unsafe,      \* a name name_is_safe refuses
  TooLong,     \* a safe name that does not fit a target's buffer
  NoValue      \* an absent optional

AllOps == {"set-profile", "set-mode", "set-power-limits",
           "apply-fan-table", "set-fan-boost"}

Status == {"OK", "INVALID_ARGUMENT", "PARSE", "BUFFER_TOO_SMALL",
           "NOT_SUPPORTED", "NOT_FOUND", "IO", "RANGE", "PERMISSION"}

Failure == Status \ {"OK"}

ASSUME MachineAssumption == Backend \subseteq {"standard", "amw0"}

ASSUME OpsAssumption == Ops \subseteq AllOps

ASSUME NamesAssumption ==
  /\ {Alien, Unsafe, TooLong} \cap (Mode \cup FanTable) = {}
  /\ Alien \notin {Unsafe, TooLong} /\ Unsafe # TooLong
  /\ NoValue \notin Mode \cup FanTable \cup Byte \cup BOOLEAN
  /\ NoValue \notin {Alien, Unsafe, TooLong}

ASSUME PowerFieldAssumption ==
  PowerField \subseteq {"pl1", "pl2", "pl4", "tcc_offset"}

SlotsOf(op) ==
  CASE op \in {"set-profile", "set-mode"} -> {"profile"}
    [] op = "set-power-limits"            -> PowerField
    [] op = "apply-fan-table"             -> {"fan_table"}
    [] op = "set-fan-boost"               -> {"fan_boost"}

Slot == UNION {SlotsOf(op) : op \in Ops}

SettingValue == Mode \cup FanTable \cup Byte \cup BOOLEAN \cup {Alien}

(* The values the machine itself can hold in a slot. *)
DeviceValue(s) ==
  CASE s = "profile"      -> Mode
    [] s = "fan_table"    -> FanTable
    [] s = "fan_boost"    -> BOOLEAN
    [] s \in PowerField   -> Byte

(* The standard backend has a file for the profile and one for each of two *)
(* limits; amw0 has registers of its own for every setting.                *)
StandardSlot == {"profile", "pl1", "pl2"}
Register == {r \in Backend \X Slot : r[1] = "standard" => r[2] \in StandardSlot}

Device ==
  {d \in [Register -> SettingValue] : \A r \in Register : d[r] \in DeviceValue(r[2])}

(* To amw0 a mode and the fan boost are bits of one control byte, 0x751.   *)
Coupled(r) ==
  {q \in Register : /\ r[1] = "amw0" /\ q[1] = "amw0" /\ q # r
                    /\ {r[2], q[2]} \subseteq {"profile", "fan_boost"}}

(* What the machine can hold once v has been written to r: what shares the *)
(* byte is rewritten from what the backend believes it to be.              *)
Programmed(d, r, v) ==
  {e \in Device : e[r] = v /\ \A q \in Register \ (Coupled(r) \cup {r}) : e[q] = d[q]}

Target == [Slot -> SettingValue \cup {NoValue}]

EmptyTarget == [s \in Slot |-> NoValue]

(* The argument a client may pass: a string, four optional bytes, a flag.  *)
ArgumentOf(op) ==
  CASE op = "set-profile"      -> Mode \cup {Alien, Unsafe, TooLong}
    [] op = "set-mode"         -> Mode \cup {Alien, Unsafe}
    [] op = "set-power-limits" -> [PowerField -> Byte \cup {NoValue}]
    [] op = "apply-fan-table"  -> FanTable \cup {Alien, Unsafe, TooLong}
    [] op = "set-fan-boost"    -> BOOLEAN

Request == UNION {{[op |-> op, arg |-> a] : a \in ArgumentOf(op)} : op \in Ops}

(* The part of a target the request names, as a function on those slots.   *)
Settings(r) ==
  IF r.op = "set-power-limits"
  THEN [f \in {g \in PowerField : r.arg[g] # NoValue} |-> r.arg[f]]
  ELSE [s \in SlotsOf(r.op) |-> r.arg]

Named(r) == DOMAIN Settings(r)

(* What the checks before target composition answer. *)
PreflightStatus(r) ==
  CASE r.op = "set-mode" /\ r.arg \notin Mode                -> "PARSE"
    [] r.op \in {"set-profile", "apply-fan-table"}
         /\ r.arg = Unsafe                                   -> "INVALID_ARGUMENT"
    [] r.op \in {"set-profile", "apply-fan-table"}
         /\ r.arg = TooLong                                  -> "BUFFER_TOO_SMALL"
    [] r.op = "set-power-limits" /\ Named(r) = {}            -> "INVALID_ARGUMENT"
    [] OTHER                                                 -> "OK"

(* The target of a request: the current one with the named slots replaced. *)
Overlay(target, r) ==
  [s \in Slot |-> IF s \in Named(r) THEN Settings(r)[s] ELSE target[s]]

================================================================================
