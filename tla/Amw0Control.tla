------------------------------ MODULE Amw0Control -------------------------------
(***************************************************************************)
(* The operating mode and the fan boost of the amw0 backend.  Both live in *)
(* one embedded-controller byte (0x751, the mode control), the mode also   *)
(* in an index byte (0x7AB).  A command reads the control byte, or falls   *)
(* back on what the backend remembers of it, changes its half, and writes  *)
(* the whole byte back; firmware changes the byte whenever it likes.       *)
(***************************************************************************)
CONSTANTS
  DryRuns,   \* whether the transport is a dry run, per behaviour
  Observed,  \* the mode bits firmware sets
  None

Mode == {"office", "gaming", "turbo", "custom"}
Bit  == {"turbo", "himode", "boost", "custom"}
Control == SUBSET Bit
Request == [op : {"mode"}, arg : Mode] \cup [op : {"boost"}, arg : BOOLEAN]

ASSUME Amw0ControlAssumption ==
  /\ DryRuns \subseteq BOOLEAN
  /\ Observed \subseteq SUBSET (Bit \ {"boost"})
  /\ None \notin Mode /\ None \notin BOOLEAN /\ \A c \in Control : None # c
  /\ None \notin Request

(* mode_control_for_mode.                                                  *)
ModeControl(mode) ==
  CASE mode = "office" -> {}
    [] mode = "gaming" -> {"himode"}
    [] mode = "turbo"  -> {"turbo"}
    [] mode = "custom" -> {"custom", "himode"}

(* mode_from_control: custom over turbo over the helper bit.               *)
DecodedMode_HimodeFirst(c) ==
  IF "himode" \in c THEN "gaming"
  ELSE IF "custom" \in c THEN "custom"
  ELSE IF "turbo" \in c THEN "turbo" ELSE "office"
DecodedMode(c) ==
  IF "custom" \in c THEN "custom"
  ELSE IF "turbo" \in c THEN "turbo"
  ELSE IF "himode" \in c THEN "gaming" ELSE "office"

VARIABLES
  dry_run,  \* the transport is a dry run; never changes
  pc,       \* "boot", "idle", "index", "control" or "refresh"
  request,  \* the command being applied, or the last one
  target,   \* the control byte it will write
  index,    \* EC byte 0x7AB
  control,  \* EC byte 0x751
  shadow,   \* shadow_state.effective: profile and fan boost
  shadow_mode_control,
  status,   \* of the last command
  view,     \* what GetState shows of profile and boost, and how fresh it is
  informed, \* ghost: control has not changed since the backend last knew it
  before,   \* ghost: control and informed when this command wrote the byte
  settled   \* ghost: firmware changed nothing since this command came, or wrote

vars == <<dry_run, pc, request, target, index, control, shadow,
          shadow_mode_control, status, view, informed, before, settled>>

Boost(c) == "boost" \in c
WithBoost(c, on) == IF on THEN c \cup {"boost"} ELSE c \ {"boost"}

Init ==
  /\ dry_run \in DryRuns
  /\ pc = "boot"
  /\ request = None
  /\ target = {}
  /\ index \in Mode
  /\ \E c \in Observed, on \in BOOLEAN : control = WithBoost(c, on)
  /\ shadow = [profile |-> "office", boost |-> None]
  /\ shadow_mode_control = None
  /\ status = "OK"
  /\ view = [profile |-> None, boost |-> None, fresh |-> "none"]
  /\ informed = FALSE
  /\ before = None
  /\ settled = TRUE

(* fallback_mode_control: the byte the shadow state amounts to.            *)
FallbackControl ==
  WithBoost(ModeControl(shadow.profile), shadow.boost = TRUE)

(* current_mode_control: the live byte, else the remembered one, else the  *)
(* guess.  A live byte is remembered.                                      *)
CurrentControl(live) ==
  IF live THEN control
  ELSE IF shadow_mode_control # None THEN shadow_mode_control ELSE FallbackControl

Remember(live) ==
  /\ shadow_mode_control' = IF live THEN control ELSE shadow_mode_control
  /\ informed' = (informed \/ live)

(* amw0_apply_mode up to its first write: only the boost bit is kept.      *)
TargetForMode_DropsBoost(current, mode) == ModeControl(mode)
TargetForMode(current, mode) == WithBoost(ModeControl(mode), Boost(current))

SetMode(mode) ==
  /\ pc = "idle"
  /\ pc' = "index"
  /\ request' = [op |-> "mode", arg |-> mode]
  /\ before' = None
  /\ settled' = TRUE
  /\ \E live \in BOOLEAN :
       /\ live => ~dry_run
       /\ target' = TargetForMode(CurrentControl(live), mode)
       /\ Remember(live)
  /\ UNCHANGED <<dry_run, index, control, shadow, status, view>>

(* amw0_apply_fan_boost up to its write: every other bit is kept.          *)
SetFanBoost(enabled) ==
  /\ pc = "idle"
  /\ pc' = "control"
  /\ request' = [op |-> "boost", arg |-> enabled]
  /\ before' = None
  /\ settled' = TRUE
  /\ \E live \in BOOLEAN :
       /\ live => ~dry_run
       /\ target' = WithBoost(CurrentControl(live), enabled)
       /\ Remember(live)
  /\ UNCHANGED <<dry_run, index, control, shadow, status, view>>

WriteIndex ==
  /\ pc = "index"
  /\ pc' = "control"
  /\ index' = IF dry_run THEN index ELSE request.arg
  /\ settled' = TRUE
  /\ UNCHANGED <<dry_run, request, target, control, shadow, shadow_mode_control,
                 status, view, informed, before>>

(* The control byte is written; mode and boost are remembered with it.     *)
WriteControl_KeepsProfile ==
  /\ pc = "control"
  /\ pc' = "refresh"
  /\ control' = IF dry_run THEN control ELSE target
  /\ before' = [control |-> control, informed |-> informed]
  /\ shadow_mode_control' = target
  /\ shadow' = [shadow EXCEPT !.boost = Boost(target)]
  /\ status' = "OK"
  /\ informed' = ~dry_run
  /\ settled' = (request.op = "boost" \/ settled)
  /\ UNCHANGED <<dry_run, request, target, index, view>>
WriteControl ==
  /\ pc = "control"
  /\ pc' = "refresh"
  /\ control' = IF dry_run THEN control ELSE target
  /\ before' = [control |-> control, informed |-> informed]
  /\ shadow_mode_control' = target
  /\ shadow' = [profile |-> DecodedMode(target), boost |-> Boost(target)]
  /\ status' = "OK"
  /\ informed' = ~dry_run
  /\ settled' = (request.op = "boost" \/ settled)
  /\ UNCHANGED <<dry_run, request, target, index, view>>

(* A write that fails, before or after the controller took the byte: what  *)
(* the backend remembers stays as it was.                                  *)
WriteFails ==
  /\ pc \in {"index", "control"}
  /\ ~dry_run
  /\ pc' = "refresh"
  /\ status' = "IO"
  /\ \/ UNCHANGED <<index, control, informed>>
     \/ /\ pc = "index"
        /\ index' = request.arg
        /\ UNCHANGED <<control, informed>>
     \/ /\ pc = "control"
        /\ control' = target
        /\ informed' = (informed /\ target = control)
        /\ UNCHANGED index
  /\ UNCHANGED <<dry_run, request, target, shadow, shadow_mode_control, view,
                 before, settled>>

(* amw0_read_state, as far as this byte goes: it could be read, or only    *)
(* something else could.                                                   *)
ReadState_KeepsControl(live) ==
  LET now == IF live THEN [profile |-> DecodedMode(control), boost |-> Boost(control)]
                     ELSE shadow
  IN  /\ live => ~dry_run
      /\ shadow' = now
      /\ UNCHANGED shadow_mode_control
      /\ informed' = (informed \/ live)
      /\ view' = [profile |-> now.profile, boost |-> now.boost,
                  fresh |-> IF live THEN "live" ELSE "cache"]
ReadState(live) ==
  LET now == IF live THEN [profile |-> DecodedMode(control), boost |-> Boost(control)]
                     ELSE shadow
  IN  /\ live => ~dry_run
      /\ shadow' = now
      /\ Remember(live)
      /\ view' = [profile |-> now.profile, boost |-> now.boost,
                  fresh |-> IF live THEN "live" ELSE "cache"]

Refresh ==
  /\ pc \in {"boot", "refresh"}
  /\ pc' = "idle"
  /\ \E live \in BOOLEAN : ReadState(live)
  /\ before' = None
  /\ UNCHANGED <<dry_run, request, target, index, control, status, settled>>

(* Nothing could be read: the old view is kept, as retained.               *)
RefreshFails ==
  /\ pc = "refresh"
  /\ ~dry_run
  /\ pc' = "idle"
  /\ view' = [view EXCEPT !.fresh = "cache"]
  /\ status' = "IO"
  /\ before' = None
  /\ UNCHANGED <<dry_run, request, target, index, control, shadow,
                 shadow_mode_control, informed, settled>>

(* A hotkey or another tool.                                               *)
Drift ==
  /\ \/ /\ \E c \in Observed, on \in BOOLEAN : control' = WithBoost(c, on)
        /\ control' # control
        /\ informed' = FALSE
        /\ UNCHANGED index
     \/ /\ index' \in Mode \ {index}
        /\ UNCHANGED <<control, informed>>
  /\ settled' = FALSE
  /\ UNCHANGED <<dry_run, pc, request, target, shadow, shadow_mode_control,
                 status, view, before>>

Next ==
  \/ \E mode \in Mode : SetMode(mode)
  \/ \E enabled \in BOOLEAN : SetFanBoost(enabled)
  \/ WriteIndex \/ WriteControl \/ WriteFails
  \/ Refresh \/ RefreshFails
  \/ Drift

Spec == Init /\ [][Next]_vars

--------------------------------------------------------------------------------

TypeOK ==
  /\ dry_run \in BOOLEAN
  /\ pc \in {"boot", "idle", "index", "control", "refresh"}
  /\ request \in Request \cup {None}
  /\ target \in Control /\ control \in Control /\ index \in Mode
  /\ shadow \in [profile : Mode, boost : BOOLEAN \cup {None}]
  /\ shadow_mode_control \in Control \cup {None}
  /\ status \in {"OK", "IO"}
  /\ view \in [profile : Mode \cup {None}, boost : BOOLEAN \cup {None},
               fresh : {"live", "cache", "none"}]
  /\ informed \in BOOLEAN
  /\ before \in {None} \cup [control : Control, informed : BOOLEAN]
  /\ settled \in BOOLEAN

Answered == pc = "idle" /\ request # None /\ status = "OK"

(* A mode change keeps the fan boost, and a boost change keeps every mode  *)
(* bit, whether the byte was read or recalled, as long as firmware had not *)
(* changed it since the backend last read or wrote it.                     *)
OtherHalfKept ==
  before # None /\ before.informed =>
    IF request.op = "mode" THEN Boost(target) = Boost(before.control)
    ELSE target \ {"boost"} = before.control \ {"boost"}

(* After a mode change that is answered OK the index and the control byte  *)
(* name the requested mode, also when an earlier change had failed between *)
(* the two writes.                                                         *)
ModeIsProgrammed ==
  Answered /\ request.op = "mode" /\ settled /\ ~dry_run =>
    index = request.arg /\ DecodedMode(control) = request.arg

(* An OK answer is followed by a GetState that shows the requested mode or *)
(* boost, live or as retained, in a dry run as well.                       *)
SuccessShown ==
  Answered /\ settled =>
    IF request.op = "mode" THEN view.profile = request.arg
                           ELSE view.boost = request.arg

(* The retained profile and boost only ever come from the control byte:    *)
(* a change that failed half way does not show up as "cache".              *)
ShadowFollowsControl ==
  [][\/ shadow' = shadow \/ dry_run
     \/ shadow' = [profile |-> DecodedMode(control'), boost |-> Boost(control')]]_vars

(* What the backend recalls of the byte is what the controller holds,      *)
(* unless firmware changed it since or a failed write reached it.          *)
RecallIsCurrent == informed => shadow_mode_control = control

--------------------------------------------------------------------------------
(* What each stage of a command knows.                                     *)

(* The requested half of a control byte.                                   *)
Reflects(c) ==
  IF request.op = "mode" THEN DecodedMode(c) = request.arg
                         ELSE Boost(c) = request.arg

OtherHalf(c) == IF request.op = "mode" THEN {"boost"} \cap c ELSE c \ {"boost"}

UnderWay ==
  /\ pc = "boot" => request = None
  /\ pc \in {"index", "control"} =>
       /\ request # None
       /\ Reflects(target)
       /\ informed => OtherHalf(target) = OtherHalf(control)
  /\ pc = "index" => request.op = "mode"
  /\ pc = "control" /\ request.op = "mode" /\ settled /\ ~dry_run =>
       index = request.arg

Done ==
  pc \in {"idle", "refresh"} /\ request # None /\ status = "OK" =>
    /\ settled /\ ~dry_run /\ request.op = "mode" => index = request.arg
    /\ settled /\ ~dry_run => Reflects(control)
    /\ pc = "refresh" /\ request.op = "mode" => shadow.profile = request.arg
    /\ pc = "refresh" /\ request.op = "boost" => shadow.boost = request.arg

IInv ==
  /\ TypeOK
  /\ RecallIsCurrent
  /\ UnderWay
  /\ OtherHalfKept
  /\ Done
  /\ SuccessShown

--------------------------------------------------------------------------------
(* The contract of a backend, of the two settings in the control byte.     *)

Half == {"profile", "boost"}
HalvesOf(c) == [profile |-> DecodedMode(c), boost |-> Boost(c)]
Neither == [profile |-> None, boost |-> None]
Sharing == [standard |-> [profile |-> Half, boost |-> Half],
            amw0     |-> [profile |-> Half, boost |-> Half]]
Executors == [profile |-> "amw0", boost |-> "amw0"]
Registers == {"amw0"} \X Half

AbstractPhase ==
  IF pc = "boot" THEN "refresh" ELSE IF pc \in {"index", "control"} THEN "apply" ELSE pc
AbstractAsked ==
  IF request = None THEN Neither
  ELSE IF request.op = "mode" THEN [Neither EXCEPT !.profile = request.arg]
  ELSE [Neither EXCEPT !.boost = request.arg]
AbstractStatus ==
  IF pc \in {"index", "control"} \/ request = None THEN "none"
  ELSE IF status = "OK" THEN "OK" ELSE "failed"
Shown(value) ==
  [value |-> value, source |-> IF value = None THEN "none"
                               ELSE IF view.fresh = "live" THEN "amw0" ELSE "cache"]

Contract == INSTANCE BackendContract WITH
  Slot     <- Half,
  dry      <- IF dry_run THEN {"amw0"} ELSE {},
  shares   <- Sharing,
  phase    <- AbstractPhase,
  asked    <- AbstractAsked,
  status   <- AbstractStatus,
  executor <- Executors,
  register <- [standard |-> Neither, amw0 |-> HalvesOf(control)],
  memo     <- shadow,
  foreign  <- IF settled THEN {} ELSE Registers,
  shown    <- [profile |-> Shown(view.profile), boost |-> Shown(view.boost)]

(* A command writes the control byte only; OK means that it names what was *)
(* asked for; the other half is remembered as it was written; a failure    *)
(* leaves nothing in the shadow, and what is then shown is live, or the    *)
(* shadow: the contract the executor counts on.                            *)
ImplementsContract == Contract!Spec

================================================================================
