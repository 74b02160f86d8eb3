------------------------------- MODULE PowerStack -------------------------------
(***************************************************************************)
(* SetPowerLimits below lcc_backend_apply_power_limits: the converged      *)
(* backend routes, splits or retries one request over powercap (PL1, PL2)  *)
(* and the amw0 embedded controller (all four limits), then reads both     *)
(* back and overlays one reading on the other.  The two keep limits of     *)
(* their own, the kernel may clamp what it is given and firmware writes    *)
(* both.  Transaction.tla assumes of its backend what is checked here.     *)
(***************************************************************************)
EXTENDS Integers, Sequences

CONSTANTS
  Field,      \* the limits in play, out of the four below
  ByteRange,  \* how many values a byte holds (256 in the code)
  Platforms,  \* the machines of this instance
  Requests(_),      \* the requests the clients of a machine make
  PowercapDrift(_), \* what firmware sets its powercap registers to
  EcDrift,          \* what firmware sets the controller's power bytes to
  None        \* an absent optional

Order == <<"pl1", "pl2", "pl4", "tcc_offset">>
StandardField == Field \cap {"pl1", "pl2"}
AmwField      == Field \cap {"pl4", "tcc_offset"}

Byte  == 0 .. ByteRange - 1
Limits == [Field -> Byte \cup {None}]
NoLimits == [f \in Field |-> None]
Present(l) == {f \in Field : l[f] # None}
Subset(l, fields) == [f \in Field |-> IF f \in fields THEN l[f] ELSE None]

(* A machine: whether the powercap zone and the standard backend exist and *)
(* can be written, whether amw0 exists and is a dry run, the constraints   *)
(* of the zone in index order, the most half-watts the kernel accepts.     *)
Platform ==
  [standard : {"absent", "readonly", "writable"},
   amw0     : {"absent", "dry", "real"},
   layout   : Seq({"long_term", "short_term"}),
   ceiling  : Nat]

ASSUME PowerStackAssumption ==
  /\ Field \subseteq {Order[i] : i \in DOMAIN Order}
  /\ ByteRange \in Nat \ {0}
  /\ \A p \in Platforms : Requests(p) \subseteq Limits /\ PowercapDrift(p) \subseteq Nat
  /\ EcDrift \subseteq Byte
  /\ None \notin Byte
  /\ \A p \in Platforms : p \in Platform /\ (p.standard # "absent" \/ p.amw0 # "absent")

VARIABLES
  platform,    \* what detection found; never changes
  pc,          \* "idle", "standard", "verify", "amw0" or "refresh"
  limits,      \* the request being applied, or the last one
  leg,         \* the limits the running backend still has to write
  mixed,       \* the request was split over both backends
  powercap,    \* constraint_<i>_power_limit_uw, in half-watts
  ec,          \* the controller's power bytes
  shadow,      \* amw0's shadow_state.effective.power_limits
  result,      \* the lcc_backend_result_t and its status
  view,        \* effective.power_limits with its attribution
  reached,     \* ghost: what this request wrote, as <<backend, field>>
  overwritten  \* ghost: the settings firmware changed since, in the same form

registers == <<powercap, ec>>
vars == <<platform, pc, limits, leg, mixed, registers, shadow, result, view,
          reached, overwritten>>

Statuses == {"OK", "NOT_SUPPORTED", "RANGE", "IO"}
Result == [status : Statuses, hardware_write : BOOLEAN,
           executor : {"", "standard", "amw0", "mixed"}]
View == [Field -> [value : Byte \cup {None},
                   source : {"standard", "amw0", "cache", "none"}]]

Answer(status, hw, executor) ==
  [status |-> status, hardware_write |-> hw, executor |-> executor]

--------------------------------------------------------------------------------
(* powercap: half-watts in the register, whole watts in a byte.            *)

(* resolve_constraint_path: the constraint of that name, or else the one   *)
(* with the usual index; 0 when there is none.                             *)
Constraint(f) ==
  LET name == IF f = "pl1" THEN "long_term" ELSE "short_term"
      usual == IF f = "pl1" THEN 1 ELSE 2
      named == {i \in DOMAIN platform.layout : platform.layout[i] = name}
  IN  IF named # {} THEN CHOOSE i \in named : \A j \in named : i <= j
      ELSE IF usual \in DOMAIN platform.layout THEN usual ELSE 0

(* read_constraint_from_zone: rounded, cut to a byte, zero is absent.      *)
ReadWatts(halves) ==
  LET watts == ((halves + 1) \div 2) % ByteRange
  IN  IF watts = 0 THEN None ELSE watts

PowercapValue(f) ==
  IF Constraint(f) = 0 THEN None ELSE ReadWatts(powercap[Constraint(f)])

Clamped(w) == IF 2 * w > platform.ceiling THEN platform.ceiling ELSE 2 * w

(* The first limit, in the order the code writes them.                     *)
NextField(l) ==
  LET i == CHOOSE j \in DOMAIN Order :
             /\ Order[j] \in Present(l)
             /\ \A k \in 1 .. j - 1 : Order[k] \notin Present(l)
  IN  Order[i]

--------------------------------------------------------------------------------

StandardWritable == platform.standard = "writable"
AmwAvailable     == platform.amw0 # "absent"

Init ==
  /\ platform \in Platforms
  /\ pc = "idle"
  /\ limits = NoLimits
  /\ leg = NoLimits
  /\ mixed = FALSE
  /\ powercap = [i \in DOMAIN platform.layout |-> platform.ceiling]
  /\ ec = [f \in Field |-> 0]
  /\ shadow = NoLimits
  /\ result = Answer("OK", FALSE, "")
  /\ view = [f \in Field |-> [value |-> None, source |-> "none"]]
  /\ reached = {}
  /\ overwritten = {}

(* converged_apply_power_limits: split a request both backends are needed  *)
(* and able for, else route it to the preferred one.                       *)
SplitsRequest(l) ==
  /\ Present(l) \cap StandardField # {} /\ Present(l) \cap AmwField # {}
  /\ StandardWritable /\ AmwAvailable

SetPowerLimits(l) ==
  /\ pc = "idle"
  /\ Present(l) # {}
  /\ limits' = l
  /\ mixed' = SplitsRequest(l)
  /\ reached' = {}
  /\ overwritten' = {}
  /\ \/ /\ StandardWritable
        /\ pc' = "standard"
        /\ leg' = IF SplitsRequest(l) THEN Subset(l, StandardField) ELSE l
        /\ result' = Answer("OK", FALSE, "standard")
     \/ /\ ~StandardWritable /\ AmwAvailable
        /\ pc' = "amw0"
        /\ leg' = l
        /\ result' = Answer("OK", FALSE, "amw0")
     \/ /\ ~StandardWritable /\ ~AmwAvailable
        /\ pc' = "refresh"
        /\ leg' = NoLimits
        /\ result' = Answer("NOT_SUPPORTED", FALSE, "")
  /\ UNCHANGED <<platform, registers, shadow, view>>

(* What the converged backend does with the answer of its first leg.       *)
StandardAnswers_AlwaysFallsBack(status, hw) ==
  IF (mixed /\ status = "OK") \/ (status # "OK" /\ AmwAvailable)
  THEN /\ pc' = "amw0"
       /\ leg' = IF mixed THEN Subset(limits, AmwField) ELSE limits
       /\ result' = IF mixed THEN Answer("OK", hw, "mixed")
                             ELSE Answer("OK", FALSE, "amw0")
  ELSE /\ pc' = "refresh"
       /\ leg' = NoLimits
       /\ result' = Answer(status, hw, "standard")
StandardAnswers(status, hw) ==
  IF mixed /\ status = "OK"
  THEN /\ pc' = "amw0"
       /\ leg' = Subset(limits, AmwField)
       /\ result' = Answer("OK", hw, "mixed")
  ELSE IF ~mixed /\ status = "NOT_SUPPORTED" /\ AmwAvailable
  THEN /\ pc' = "amw0"
       /\ leg' = limits
       /\ result' = Answer("OK", FALSE, "amw0")
  ELSE /\ pc' = "refresh"
       /\ leg' = NoLimits
       /\ result' = Answer(status, hw, "standard")

unwritten == <<platform, limits, mixed, registers, shadow, view, reached, overwritten>>

(* lcc_standard_powercap_apply, what it checks before it writes.           *)
StandardRefuses ==
  /\ pc = "standard"
  /\ \/ Present(leg) \cap AmwField # {} /\ StandardAnswers("NOT_SUPPORTED", FALSE)
     \/ /\ Present(leg) \cap AmwField = {}
        /\ \E f \in Present(leg) : leg[f] = 0
        /\ StandardAnswers("RANGE", FALSE)
  /\ UNCHANGED unwritten

Acceptable(l) == Present(l) \cap AmwField = {} /\ \A f \in Present(l) : l[f] # 0

StandardWrite ==
  /\ pc = "standard"
  /\ Acceptable(leg)
  /\ LET f == NextField(leg)
         rest == Subset(leg, Present(leg) \ {f})
     IN  /\ Constraint(f) # 0
         /\ powercap' = [powercap EXCEPT ![Constraint(f)] = Clamped(leg[f])]
         /\ reached' = reached \cup {<<"standard", f>>}
         /\ overwritten' = overwritten \ {<<"standard", f>>}
         /\ leg' = rest
         /\ pc' = IF rest = NoLimits THEN "verify" ELSE "standard"
  /\ UNCHANGED <<platform, limits, mixed, ec, shadow, result, view>>

(* The constraint is missing, or its file cannot be written: whatever was  *)
(* written before stays.                                                   *)
StandardWriteFails ==
  /\ pc = "standard"
  /\ Acceptable(leg)
  /\ \/ Constraint(NextField(leg)) = 0 /\ StandardAnswers("NOT_SUPPORTED", FALSE)
     \/ Constraint(NextField(leg)) # 0 /\ StandardAnswers("IO", FALSE)
  /\ UNCHANGED unwritten

(* The readback that has to agree before the write counts.                 *)
Mismatch(written) == \E f \in written : PowercapValue(f) # limits[f]

StandardVerify ==
  /\ pc = "verify"
  /\ \/ StandardAnswers("IO", FALSE)
     \/ /\ ~Mismatch(Present(limits) \cap StandardField)
        /\ StandardAnswers("OK", TRUE)
  /\ UNCHANGED unwritten

--------------------------------------------------------------------------------
(* amw0: one byte per limit, written through the embedded controller.      *)

(* One byte lands in the controller, or nowhere in a dry run.              *)
AmwLands(f) ==
  IF platform.amw0 = "real"
  THEN /\ ec' = [ec EXCEPT ![f] = leg[f]]
       /\ reached' = reached \cup {<<"amw0", f>>}
       /\ overwritten' = overwritten \ {<<"amw0", f>>}
  ELSE UNCHANGED <<ec, reached, overwritten>>

AmwWrite ==
  /\ pc = "amw0"
  /\ leg # NoLimits
  /\ AmwLands(NextField(leg))
  /\ leg' = Subset(leg, Present(leg) \ {NextField(leg)})
  /\ UNCHANGED <<platform, pc, limits, mixed, powercap, shadow, result, view>>

(* The call fails, before or after the controller took the byte.           *)
AmwWriteFails_Merges ==
  /\ pc = "amw0"
  /\ leg # NoLimits
  /\ platform.amw0 = "real"
  /\ pc' = "refresh"
  /\ leg' = NoLimits
  /\ result' = [result EXCEPT !.status = "IO"]
  /\ shadow' = [f \in Field |-> IF limits[f] # None THEN limits[f] ELSE shadow[f]]
  /\ UNCHANGED <<platform, limits, mixed, registers, view, reached, overwritten>>
AmwWriteFails ==
  /\ pc = "amw0"
  /\ leg # NoLimits
  /\ platform.amw0 = "real"
  /\ AmwLands(NextField(leg)) \/ UNCHANGED <<ec, reached, overwritten>>
  /\ pc' = "refresh"
  /\ leg' = NoLimits
  /\ result' = [result EXCEPT !.status = "IO"]
  /\ UNCHANGED <<platform, limits, mixed, powercap, shadow, view>>

(* All bytes are written: the shadow takes the request over.               *)
MergedShadow_Stale == shadow
MergedShadow ==
  LET given == IF mixed THEN Subset(limits, AmwField) ELSE limits
  IN  [f \in Field |-> IF given[f] # None THEN given[f] ELSE shadow[f]]

WriteFlag_Always == TRUE
WriteFlag == result.hardware_write \/ platform.amw0 = "real"

AmwDone ==
  /\ pc = "amw0"
  /\ leg = NoLimits
  /\ pc' = "refresh"
  /\ shadow' = MergedShadow
  /\ result' = [result EXCEPT !.hardware_write = WriteFlag]
  /\ UNCHANGED <<platform, limits, leg, mixed, registers, view, reached, overwritten>>

--------------------------------------------------------------------------------
(* lcc_state_reader_refresh over converged_read_state.                     *)

(* What powercap shows, when the files of these limits can be read.        *)
StandardView(readable) ==
  [f \in Field |->
     IF /\ platform.standard # "absent"
        /\ f \in readable \cap StandardField /\ PowercapValue(f) # None
     THEN [value |-> PowercapValue(f), source |-> "standard"]
     ELSE [value |-> None, source |-> "none"]]

(* A byte is taken as live when it was read and is plausible.              *)
Plausible(f) == f = "tcc_offset" \/ ec[f] > 0

AmwLive(readable) ==
  {f \in readable : platform.amw0 = "real" /\ Plausible(f)}

(* The powercap limits and EC bytes a refresh could get.                   *)
StandardFound == {f \in StandardField : PowercapValue(f) # None}
AmwFound      == AmwLive(Field)

ShadowAfterRead(readable) ==
  [f \in Field |-> IF f \in AmwLive(readable) THEN ec[f] ELSE shadow[f]]

AmwView(readable) ==
  [f \in Field |->
     LET v == ShadowAfterRead(readable)[f]
     IN  [value |-> v, source |-> IF f \in AmwLive(readable) THEN "amw0"
                                  ELSE IF v = None THEN "none" ELSE "cache"]]

(* overlay_amw0_state: amw0 fills the gaps, and replaces what is there     *)
(* when power limits are executed by amw0.                                 *)
Overlaid(standard, amw) ==
  [f \in Field |->
     IF amw[f].value # None /\ (~StandardWritable \/ standard[f].value = None)
     THEN amw[f] ELSE standard[f]]

Refresh ==
  /\ pc = "refresh"
  /\ pc' = "idle"
  /\ \E s \in SUBSET StandardFound, a \in SUBSET AmwFound, amwReadOk \in BOOLEAN :
       /\ amwReadOk => AmwAvailable
       /\ AmwAvailable /\ platform.amw0 = "dry" => amwReadOk
       /\ AmwLive(a) # {} /\ AmwAvailable => amwReadOk
       /\ platform.standard = "absent" => amwReadOk
       /\ shadow' = IF AmwAvailable THEN ShadowAfterRead(a) ELSE shadow
       /\ view' = IF amwReadOk THEN Overlaid(StandardView(s), AmwView(a))
                               ELSE StandardView(s)
  /\ UNCHANGED <<platform, limits, leg, mixed, registers, result, reached, overwritten>>

(* The read fails as a whole: the old view stays, as retained, and a       *)
(* request that had succeeded is answered as failed.                       *)
RefreshFails ==
  /\ pc = "refresh"
  /\ pc' = "idle"
  /\ view' = [f \in Field |->
                [view[f] EXCEPT !.source = IF view[f].value = None THEN "none" ELSE "cache"]]
  /\ result' = [result EXCEPT !.status = IF @ = "OK" THEN "IO" ELSE @]
  /\ UNCHANGED <<platform, limits, leg, mixed, registers, shadow, reached, overwritten>>

(* Firmware rewrites a register; the bytes of limits nobody sets are left  *)
(* out.                                                                    *)
Asked == UNION {Present(l) : l \in Requests(platform)}

Drift ==
  /\ \/ \E i \in DOMAIN powercap : \E u \in PowercapDrift(platform) \ {powercap[i]} :
          /\ powercap' = [powercap EXCEPT ![i] = u]
          /\ overwritten' = overwritten \cup
               {<<"standard", f>> : f \in {g \in StandardField : Constraint(g) = i}}
          /\ UNCHANGED ec
     \/ \E f \in Asked : \E b \in EcDrift \ {ec[f]} :
          /\ platform.amw0 = "real"
          /\ ec' = [ec EXCEPT ![f] = b]
          /\ overwritten' = overwritten \cup {<<"amw0", f>>}
          /\ UNCHANGED powercap
  /\ UNCHANGED <<platform, pc, limits, leg, mixed, shadow, result, view, reached>>

Step ==
  \/ \E l \in Requests(platform) : SetPowerLimits(l)
  \/ StandardRefuses \/ StandardWrite \/ StandardWriteFails \/ StandardVerify
  \/ AmwWrite \/ AmwWriteFails \/ AmwDone
  \/ Refresh \/ RefreshFails

Next == Step \/ Drift

Spec == Init /\ [][Next]_vars

--------------------------------------------------------------------------------

TypeOK ==
  /\ platform \in Platforms
  /\ pc \in {"idle", "standard", "verify", "amw0", "refresh"}
  /\ limits \in Limits /\ leg \in Limits
  /\ mixed \in BOOLEAN
  /\ DOMAIN powercap = DOMAIN platform.layout
  /\ \A i \in DOMAIN powercap : powercap[i] \in Nat
  /\ ec \in [Field -> Byte]
  /\ shadow \in Limits
  /\ result \in Result
  /\ view \in View
  /\ reached \subseteq {"standard", "amw0"} \X Field
  /\ overwritten \subseteq {"standard", "amw0"} \X Field

Answered == pc = "idle" /\ limits # NoLimits

(* The backend that answers for a field of the last request.               *)
Executor(f) ==
  IF result.executor # "mixed" THEN result.executor
  ELSE IF f \in StandardField THEN "standard" ELSE "amw0"

Standing(f) == <<Executor(f), f>> \notin overwritten

(* An OK answer means every named limit is in the registers of the backend *)
(* that answers for it, whichever route, split or retry led there, unless  *)
(* firmware changed it after the write.  A dry run is the exception.       *)
DoneIsProgrammed ==
  Answered /\ result.status = "OK" =>
    \A f \in Present(limits) :
      \/ Executor(f) = "standard" /\ (Standing(f) => PowercapValue(f) = limits[f])
      \/ Executor(f) = "amw0" /\ platform.amw0 = "real" /\ (Standing(f) => ec[f] = limits[f])
      \/ Executor(f) = "amw0" /\ platform.amw0 = "dry" /\ <<"amw0", f>> \notin reached

(* last_apply_hardware_write "true means the backend reported a real       *)
(* hardware write" (docs/state-contract.md:192): something did reach a     *)
(* register, also when a dry run did half of a split request; and an OK    *)
(* answer with false wrote nothing under the executor it names.            *)
WriteFlagIsTrue ==
  Answered =>
    /\ result.hardware_write => reached # {}
    /\ result.status = "OK" /\ ~result.hardware_write =>
         \A f \in Present(limits) : <<Executor(f), f>> \notin reached

(* "false means the backend reported no hardware write, for example        *)
(* dry-run or a write path that stopped before touching hardware"          *)
(* (docs/state-contract.md:193): a request refused as not supported, and   *)
(* answered with false, left every register alone.                         *)
FalseMeansUntouched ==
  Answered /\ result.status = "NOT_SUPPORTED" /\ ~result.hardware_write =>
    reached = {}

ShownByExecutor(f) ==
  view[f].source = Executor(f) \/ (view[f].source = "cache" /\ Executor(f) = "amw0")

(* After an OK answer, a named limit shown from the backend that executed  *)
(* it is the one asked for: neither the overlay of the two readings nor    *)
(* the shadow brings an old value back.                                    *)
SuccessShown ==
  Answered /\ result.status = "OK" =>
    \A f \in Present(limits) :
      Standing(f) /\ ShownByExecutor(f) => view[f].value = limits[f]

(* A limit shown as live from powercap is within rounding of what the      *)
(* kernel reports: "whether it is live readback" (state-contract.md:107).  *)
ShownLimitIsTheRegister ==
  Answered =>
    \A f \in StandardField :
      view[f].source = "standard" /\ <<"standard", f>> \notin overwritten =>
        powercap[Constraint(f)] - 2 * view[f].value \in {-1, 0}

(* The shadow of a real controller only ever learns a limit from its       *)
(* register or from a request that was written completely: a request that  *)
(* fails half way leaves no trace in what is later shown as "cache".       *)
ShadowFollowsHardware ==
  [][\A f \in Field :
       \/ shadow'[f] = shadow[f] \/ shadow'[f] = ec[f]
       \/ platform.amw0 = "dry" \/ <<"amw0", f>> \in overwritten]_vars

--------------------------------------------------------------------------------
(* The contract of a backend, of the limits.                               *)

AbstractPhase == IF pc \in {"idle", "refresh"} THEN pc ELSE "apply"
AbstractStatus ==
  IF pc \notin {"idle", "refresh"} \/ limits = NoLimits THEN "none"
  ELSE IF result.status = "OK" THEN "OK" ELSE "failed"

(* Two limits are in one register where their constraint is the same.      *)
Neighbours(f) ==
  {f} \cup (IF f \in StandardField
            THEN {g \in StandardField : Constraint(g) = Constraint(f)} ELSE {})

Contract == INSTANCE BackendContract WITH
  Slot     <- Field,
  dry      <- IF platform.amw0 = "dry" THEN {"amw0"} ELSE {},
  shares   <- [standard |-> [f \in Field |-> Neighbours(f)],
               amw0     |-> [f \in Field |-> {f}]],
  phase    <- AbstractPhase,
  asked    <- limits,
  status   <- AbstractStatus,
  executor <- [f \in Field |-> Executor(f)],
  register <- [standard |-> [f \in Field |-> IF f \in StandardField THEN PowercapValue(f)
                                             ELSE None],
               amw0     |-> ec],
  memo     <- shadow,
  foreign  <- overwritten,
  shown    <- view

(* Routed, split, retried or cut short, a request changes no register but  *)
(* those of the limits it names; OK means that the executor of each has    *)
(* it; amw0 remembers only what it executed or read; and a limit shown is  *)
(* live from its register, or what amw0 remembers.                         *)
ImplementsContract == Contract!Spec

================================================================================
