------------------------------ MODULE ProfileRoute ------------------------------
(***************************************************************************)
(* SetProfile and SetMode below the capability gate.  The executor calls   *)
(* the converged backend, which routes the call to platform_profile or to  *)
(* the amw0 controller and may fall back from the first to the second; one *)
(* result record is handed down the whole way.  The two backends call the  *)
(* same settings by different names.  Amw0Control has the controller's     *)
(* bytes in detail; here they are the mode they stand for.                 *)
(***************************************************************************)
CONSTANTS
  Machines,   \* the machines of this instance
  Names,      \* the profile names clients use
  None

Mode        == {"office", "gaming", "turbo", "custom"}
KernelName  == {"low-power", "balanced", "performance", "custom", "quiet"}
\* "IO" stands for every failure that is not a refusal
Status      == {"OK", "NOT_SUPPORTED", "IO"}
Stage       == {"", "write-platform-profile", "set-mode-index", "set-mode-control"}

(* A machine: whether there is a platform_profile to read and write, or    *)
(* only other sysfs sources, or none; whether amw0 exists and is a dry run;*)
(* the profiles this kernel driver offers.                                 *)
Machine == [standard : {"absent", "plain", "profile"},
            amw0 : {"absent", "dry", "real"},
            accepts : SUBSET KernelName]

Profiled(m) == m.standard = "profile"

Request == [op : {"profile"}, name : Names] \cup [op : {"mode"}, name : Mode]

ASSUME ProfileRouteAssumption ==
  /\ Machines \subseteq Machine
  /\ \A m \in Machines : (Profiled(m) \/ m.amw0 # "absent") /\ m.accepts # {}
  /\ None \notin Mode \cup KernelName \cup Names \cup Request

--------------------------------------------------------------------------------
(* Names.                                                                  *)

(* profile_from_mode.                                                      *)
KernelProfile_GamingLoud(mode) ==
  IF mode = "office" THEN "low-power"
  ELSE IF mode \in {"turbo", "gaming"} THEN "performance"
  ELSE "custom"
KernelProfile(mode) ==
  IF mode = "office" THEN "low-power"
  ELSE IF mode = "turbo" THEN "performance"
  ELSE IF mode = "gaming" THEN "balanced"
  ELSE "custom"

(* profile_from_alias.                                                     *)
PlatformProfile(name) ==
  IF name \in {"office", "low-power"} THEN "low-power"
  ELSE IF name \in {"turbo", "performance"} THEN "performance"
  ELSE IF name \in {"gaming", "balanced"} THEN "balanced"
  ELSE IF name = "custom" THEN "custom"
  ELSE None

(* alias_from_profile: balanced, and any name without a mode (quiet stands *)
(* for those), keep their kernel name.                                     *)
Alias(profile) ==
  IF profile = "low-power" THEN "office"
  ELSE IF profile = "performance" THEN "turbo"
  ELSE profile

(* profile_name_to_mode.                                                   *)
ModeNamed_NoBalanced(name) ==
  IF name = "gaming" THEN "gaming"
  ELSE IF name \in {"office", "low-power"} THEN "office"
  ELSE IF name \in {"turbo", "performance"} THEN "turbo"
  ELSE IF name = "custom" THEN "custom"
  ELSE None
ModeNamed(name) ==
  IF name \in {"gaming", "balanced"} THEN "gaming"
  ELSE IF name \in {"office", "low-power"} THEN "office"
  ELSE IF name \in {"turbo", "performance"} THEN "turbo"
  ELSE IF name = "custom" THEN "custom"
  ELSE None

VARIABLES
  machine,           \* what detection found; never changes
  pc,                \* "idle", "standard", "named", "index", "control" or "refresh"
  request,           \* the command, or the last one
  as_mode,           \* the call in progress is apply_mode, not apply_profile
  platform_profile,  \* the sysfs file
  index,             \* EC byte 0x7AB
  ec_mode,           \* the mode the bits of EC byte 0x751 stand for
  shadow,            \* amw0's shadow_state.effective.profile
  result,            \* the lcc_backend_result_t and its status
  view,              \* effective.profile with its attribution
  reached,           \* ghost: the backends this request wrote to
  overwritten        \* ghost: the backends firmware changed since

registers == <<platform_profile, index, ec_mode>>
vars == <<machine, pc, request, as_mode, registers, shadow, result, view,
          reached, overwritten>>

Result == [status : Status, executor : {"", "standard", "amw0"}, stage : Stage,
           hardware_write : BOOLEAN]
Blank == [status |-> "OK", executor |-> "", stage |-> "", hardware_write |-> FALSE]

AmwAvailable == machine.amw0 # "absent"

Init ==
  /\ machine \in Machines
  /\ pc = "refresh"
  /\ request = None
  /\ as_mode = FALSE
  /\ platform_profile \in machine.accepts
  /\ index \in Mode
  /\ ec_mode = index
  /\ shadow = "office"
  /\ result = Blank
  /\ view = [name |-> None, source |-> "none"]
  /\ reached = {}
  /\ overwritten = {}

--------------------------------------------------------------------------------
(* Routing.                                                                *)

(* route_primary_backend and the call to it: standard first, amw0 if       *)
(* standard has no platform_profile.                                       *)
Routed(mode_call) ==
  /\ as_mode' = mode_call
  /\ pc' = IF Profiled(machine) THEN "standard"
           ELSE IF mode_call THEN "index" ELSE "named"

(* transaction_apply resets the result and calls the backend.              *)
Receive(r) ==
  /\ pc = "idle"
  /\ request' = r
  /\ result' = Blank
  /\ reached' = {}
  /\ overwritten' = {}
  /\ Routed(r.op = "mode")
  /\ UNCHANGED <<machine, registers, shadow, view>>

(* The mode the running call is about.                                     *)
Wanted == IF as_mode THEN request.name ELSE ModeNamed(request.name)

(* The converged backend is done: the executor is the backend it called    *)
(* last.  A refused profile whose name is a mode's is tried again as that  *)
(* mode by the executor.                                                   *)
Concluded(answer) ==
  /\ result' = answer
  /\ IF answer.status = "NOT_SUPPORTED" /\ ~as_mode /\ request.name \in Mode
     THEN Routed(TRUE)
     ELSE pc' = "refresh" /\ UNCHANGED as_mode

(* The answer of platform_profile; only a refusal is passed on to amw0.    *)
StandardAnswers_AnyFailure(status, hw) ==
  LET answer == [status |-> status, executor |-> "standard",
                 stage |-> "write-platform-profile", hardware_write |-> hw]
  IN  IF status # "OK" /\ AmwAvailable
      THEN /\ result' = answer
           /\ pc' = IF as_mode THEN "index" ELSE "named"
           /\ UNCHANGED as_mode
      ELSE Concluded(answer)
StandardAnswers(status, hw) ==
  LET answer == [status |-> status, executor |-> "standard",
                 stage |-> "write-platform-profile", hardware_write |-> hw]
  IN  IF status = "NOT_SUPPORTED" /\ AmwAvailable
      THEN /\ result' = answer
           /\ pc' = IF as_mode THEN "index" ELSE "named"
           /\ UNCHANGED as_mode
      ELSE Concluded(answer)

untouched == <<machine, request, registers, shadow, view,
               reached, overwritten>>

--------------------------------------------------------------------------------
(* platform_profile.                                                       *)

KernelWants ==
  IF as_mode THEN KernelProfile(request.name) ELSE PlatformProfile(request.name)

StandardRefuses ==
  /\ pc = "standard"
  /\ KernelWants = None
  /\ StandardAnswers("NOT_SUPPORTED", FALSE)
  /\ UNCHANGED untouched

PlatformWritten ==
  /\ KernelWants \in machine.accepts
  /\ platform_profile' = KernelWants
  /\ reached' = reached \cup {"standard"}
  /\ overwritten' = overwritten \ {"standard"}

WriteFlag == TRUE

StandardWrite ==
  /\ pc = "standard"
  /\ KernelWants # None
  /\ PlatformWritten
  /\ StandardAnswers("OK", WriteFlag)
  /\ UNCHANGED <<machine, request, index, ec_mode, shadow, view>>

(* The file cannot be opened, the driver does not offer this profile, or   *)
(* it reports an error after taking it.                                    *)
StandardWriteFails ==
  /\ pc = "standard"
  /\ KernelWants # None
  /\ PlatformWritten \/ UNCHANGED <<platform_profile, reached, overwritten>>
  /\ StandardAnswers("IO", FALSE)
  /\ UNCHANGED <<machine, request, index, ec_mode, shadow, view>>

--------------------------------------------------------------------------------
(* amw0.                                                                   *)

(* amw0_apply_profile: an unknown name is refused before the result is     *)
(* reset, so the stage of an earlier leg stays in it.                      *)
AmwNamed ==
  /\ pc = "named"
  /\ IF Wanted = None
     THEN Concluded([result EXCEPT !.status = "NOT_SUPPORTED", !.executor = "amw0"])
     ELSE pc' = "index" /\ UNCHANGED <<result, as_mode>>
  /\ UNCHANGED untouched

AmwAt(stage) ==
  [status |-> "OK", executor |-> "amw0", stage |-> stage, hardware_write |-> FALSE]

AmwReached ==
  /\ reached' = IF machine.amw0 = "real" THEN reached \cup {"amw0"} ELSE reached
  /\ overwritten' = IF machine.amw0 = "real" /\ pc = "index"
                    THEN overwritten \ {"amw0"} ELSE overwritten

WriteIndex ==
  /\ pc = "index"
  /\ pc' = "control"
  /\ index' = IF machine.amw0 = "real" THEN Wanted ELSE index
  /\ result' = AmwAt("set-mode-control")
  /\ AmwReached
  /\ UNCHANGED <<machine, request, as_mode, platform_profile, ec_mode, shadow,
                 view>>

Remembered_Forgets == shadow
Remembered == Wanted

WriteControl ==
  /\ pc = "control"
  /\ ec_mode' = IF machine.amw0 = "real" THEN Wanted ELSE ec_mode
  /\ shadow' = Remembered
  /\ AmwReached
  /\ Concluded([AmwAt("set-mode-control") EXCEPT !.hardware_write = (machine.amw0 = "real")])
  /\ UNCHANGED <<machine, request, platform_profile, index, view>>

(* A byte that cannot be written, or is reported so after it landed.       *)
AmwWriteFails ==
  /\ pc \in {"index", "control"}
  /\ machine.amw0 = "real"
  /\ \/ UNCHANGED <<index, ec_mode, reached, overwritten>>
     \/ pc = "index" /\ index' = Wanted /\ AmwReached /\ UNCHANGED ec_mode
     \/ pc = "control" /\ ec_mode' = Wanted /\ AmwReached /\ UNCHANGED index
  /\ Concluded([AmwAt(IF pc = "index" THEN "set-mode-index" ELSE "set-mode-control")
                  EXCEPT !.status = "IO"])
  /\ UNCHANGED <<machine, request, platform_profile, shadow, view>>

--------------------------------------------------------------------------------
(* The refresh.                                                            *)

StandardView(readable) ==
  IF readable THEN [name |-> Alias(platform_profile), source |-> "standard"]
              ELSE [name |-> None, source |-> "none"]

AmwView(live) ==
  [name |-> IF live THEN ec_mode ELSE shadow,
   source |-> IF live THEN "amw0" ELSE "cache"]

(* converged_read_state: whether standard could read anything, and the     *)
(* profile; whether amw0 could, and its control byte.  overlay_amw0_state  *)
(* replaces the profile if profiles, modes or fan tables are executed by   *)
(* amw0, and fan tables always are when it exists.                         *)
Refresh ==
  /\ pc = "refresh"
  /\ pc' = "idle"
  /\ \E anyStandard, profile, anyAmw, live \in BOOLEAN :
       /\ anyStandard => machine.standard # "absent"
       /\ profile => anyStandard /\ Profiled(machine)
       /\ anyAmw => AmwAvailable
       /\ live => anyAmw /\ machine.amw0 = "real"
       /\ machine.amw0 = "dry" => anyAmw
       /\ anyStandard \/ anyAmw
       /\ shadow' = IF live THEN ec_mode ELSE shadow
       /\ view' = IF anyAmw THEN AmwView(live) ELSE StandardView(profile)
  /\ UNCHANGED <<machine, request, as_mode, registers, result, reached, overwritten>>

(* Nothing could be read, or a file of standard failed: the old view stays,*)
(* as retained.  At the start of the daemon this ends the process.         *)
RefreshFails ==
  /\ pc = "refresh"
  /\ request # None
  /\ machine.standard # "absent" \/ machine.amw0 = "real"
  /\ pc' = "idle"
  /\ view' = [view EXCEPT !.source = IF view.name = None THEN "none" ELSE "cache"]
  /\ result' = [result EXCEPT !.status = IF @ = "OK" THEN "IO" ELSE @]
  /\ UNCHANGED <<machine, request, as_mode, registers, shadow, reached, overwritten>>

(* Firmware, a hotkey or another tool.                                     *)
Drift ==
  /\ \/ /\ Profiled(machine)
        /\ platform_profile' \in machine.accepts \ {platform_profile}
        /\ overwritten' = overwritten \cup {"standard"}
        /\ UNCHANGED <<index, ec_mode>>
     \/ /\ machine.amw0 = "real"
        /\ \/ index' \in Mode \ {index} /\ UNCHANGED ec_mode
           \/ ec_mode' \in Mode \ {ec_mode} /\ UNCHANGED index
        /\ overwritten' = overwritten \cup {"amw0"}
        /\ UNCHANGED platform_profile
  /\ UNCHANGED <<machine, pc, request, as_mode, shadow, result, view, reached>>

Next ==
  \/ \E r \in Request : Receive(r)
  \/ StandardRefuses \/ StandardWrite \/ StandardWriteFails
  \/ AmwNamed \/ WriteIndex \/ WriteControl \/ AmwWriteFails
  \/ Refresh \/ RefreshFails
  \/ Drift

Spec == Init /\ [][Next]_vars

--------------------------------------------------------------------------------

TypeOK ==
  /\ machine \in Machines
  /\ pc \in {"idle", "standard", "named", "index", "control", "refresh"}
  /\ request \in Request \cup {None}
  /\ as_mode \in BOOLEAN
  /\ platform_profile \in KernelName /\ index \in Mode /\ ec_mode \in Mode
  /\ shadow \in Mode
  /\ result \in Result
  /\ view \in [name : Mode \cup KernelName \cup {None},
               source : {"standard", "amw0", "cache", "none"}]
  /\ reached \subseteq {"standard", "amw0"}
  /\ overwritten \subseteq {"standard", "amw0"}

Answered == pc = "idle" /\ request # None

(* The names of either vocabulary that stand for a mode.                   *)
Known == Mode \cup (KernelName \ {"quiet"})

(* The mode that is asked for, whatever it is called; None for a name      *)
(* nobody knows.                                                           *)
Meant == IF request.op = "mode" THEN request.name ELSE ModeNamed(request.name)

Standing(backend) == backend \notin overwritten

(* An OK answer means the setting is in the register of the backend that   *)
(* is named as executor, under the name that backend has for it, unless    *)
(* firmware changed it since; index and control byte both.                 *)
DoneIsProgrammed ==
  Answered /\ result.status = "OK" =>
    \/ /\ result.executor = "standard"
       /\ Standing("standard") => ModeNamed(platform_profile) = Meant
    \/ /\ result.executor = "amw0" /\ machine.amw0 = "real"
       /\ Standing("amw0") => index = Meant /\ ec_mode = Meant
    \/ result.executor = "amw0" /\ machine.amw0 = "dry" /\ reached = {}

(* No command leaves traces in both backends: a call is only passed on     *)
(* before anything was written, so platform_profile and the controller     *)
(* are never both half programmed.  What was written was written by the    *)
(* backend that last_apply names.                                          *)
OneBackendWritten ==
  /\ reached # {"standard", "amw0"}
  /\ Answered => reached \subseteq {result.executor}

(* hardware_write is true only if a register was written, and an OK answer *)
(* with false wrote nothing.                                               *)
WriteFlagIsTrue ==
  Answered =>
    /\ result.hardware_write => reached # {}
    /\ result.status = "OK" /\ ~result.hardware_write => reached = {}

(* Whether a name is refused does not depend on the machine or on the      *)
(* route: whichever backend a request reaches, what is refused is exactly  *)
(* the names that neither vocabulary has, and after a fallback and a retry *)
(* nothing was written for them.                                           *)
OnlyUnknownRefused ==
  Answered =>
    /\ (result.status = "NOT_SUPPORTED") = (request.name \notin Known)
    /\ result.status = "NOT_SUPPORTED" => reached = {}

(* After an OK answer a profile that is shown from the backend that        *)
(* executed the command, live or as its retained value, is the one asked   *)
(* for, under one of its names.                                            *)
SuccessShown ==
  Answered /\ result.status = "OK" /\ Standing(result.executor)
  /\ view.source \in {result.executor} \cup
       (IF result.executor = "amw0" THEN {"cache"} ELSE {}) =>
    ModeNamed(view.name) = Meant

--------------------------------------------------------------------------------
(* What each stage of a command knows.                                     *)

UnderWay ==
  /\ pc \notin {"idle", "refresh"} =>
       /\ request # None
       /\ as_mode => request.name \in Mode
       /\ request.op = "mode" => as_mode
  /\ pc \in {"standard", "named", "index"} => reached = {}
  /\ pc = "standard" => Profiled(machine)
  /\ pc \in {"named", "index", "control"} => AmwAvailable
  /\ pc = "named" => ~as_mode /\ ~result.hardware_write
  /\ pc \in {"index", "control"} => Wanted \in Mode
  /\ pc = "control" =>
       /\ reached = IF machine.amw0 = "real" THEN {"amw0"} ELSE {}
       /\ machine.amw0 = "real" /\ Standing("amw0") => index = Wanted

Programmed(backend) ==
  IF backend = "standard"
  THEN Standing("standard") => ModeNamed(platform_profile) = Meant
  ELSE machine.amw0 = "real" /\ Standing("amw0") => index = Meant /\ ec_mode = Meant

Done ==
  pc \in {"idle", "refresh"} /\ request # None =>
    /\ reached \subseteq {result.executor}
    /\ (result.status = "NOT_SUPPORTED") = (request.name \notin Known)
    /\ result.status = "NOT_SUPPORTED" => reached = {}
    /\ result.hardware_write => reached # {}
    /\ result.status = "OK" =>
         /\ result.executor \in {"standard", "amw0"}
         /\ ~result.hardware_write => reached = {}
         /\ result.executor = "amw0" =>
              /\ AmwAvailable
              /\ machine.amw0 = "dry" => reached = {}
              /\ pc = "refresh" => shadow = Meant
         /\ Programmed(result.executor)

IInv ==
  /\ TypeOK
  /\ UnderWay
  /\ Done
  /\ OneBackendWritten
  /\ SuccessShown

--------------------------------------------------------------------------------
(* The contract of a backend, of the profile, whatever it is called.       *)

Called(name) == IF ModeNamed(name) # None THEN ModeNamed(name) ELSE name

TheSlot == {"profile"}
Apart   == [standard |-> [profile |-> TheSlot], amw0 |-> [profile |-> TheSlot]]

AbstractPhase == IF pc \in {"idle", "refresh"} THEN pc ELSE "apply"
AbstractAsked == [profile |-> IF request = None THEN None ELSE Called(request.name)]
AbstractStatus ==
  IF pc \notin {"idle", "refresh"} \/ request = None THEN "none"
  ELSE IF result.status = "OK" THEN "OK" ELSE "failed"

Contract == INSTANCE BackendContract WITH
  Slot     <- TheSlot,
  dry      <- IF machine.amw0 = "dry" THEN {"amw0"} ELSE {},
  shares   <- Apart,
  phase    <- AbstractPhase,
  asked    <- AbstractAsked,
  status   <- AbstractStatus,
  executor <- [profile |-> result.executor],
  register <- [standard |-> [profile |-> Called(platform_profile)],
               amw0     |-> [profile |-> ec_mode]],
  memo     <- [profile |-> shadow],
  foreign  <- overwritten \X TheSlot,
  shown    <- [profile |-> [value |-> Called(view.name), source |-> view.source]]

(* Whichever backend a call goes to, is passed on to or is tried again on: *)
(* only a register of the profile is written, OK means that the executor's *)
(* has it, amw0 remembers only what it executed or read, and the profile   *)
(* shown is live, or what it remembers.                                    *)
ImplementsContract == Contract!Spec

================================================================================
