--------------------------- MODULE Amw0ControlProofs ----------------------------
(***************************************************************************)
(* Proofs of the invariants of Amw0Control: IInv is inductive, and the     *)
(* properties of the control byte follow from it.                          *)
(***************************************************************************)
EXTENDS Amw0Control, TLAPS

LEMMA NoneIsNoValue ==
  /\ None \notin Mode
  /\ None \notin BOOLEAN
  /\ \A c \in Control : None # c
  /\ None \notin Request
BY Amw0ControlAssumption

(* Every byte decodes to a mode.                                           *)
LEMMA DecodedModeType ==
  ASSUME NEW c \in Control
  PROVE  DecodedMode(c) \in Mode /\ Boost(c) \in BOOLEAN
BY DEF DecodedMode, Boost, Mode

(* Changing the boost bit of a byte changes nothing else of it.            *)
LEMMA WithBoostKeeps ==
  ASSUME NEW c \in Control, NEW on \in BOOLEAN
  PROVE  /\ WithBoost(c, on) \in Control
         /\ Boost(WithBoost(c, on)) = on
         /\ WithBoost(c, on) \ {"boost"} = c \ {"boost"}
         /\ DecodedMode(WithBoost(c, on)) = DecodedMode(c)
<1>1. CASE on
  BY <1>1 DEF WithBoost, Control, Bit, Boost, DecodedMode
<1>2. CASE ~on
  BY <1>2 DEF WithBoost, Control, Bit, Boost, DecodedMode
<1>. QED BY <1>1, <1>2

(* A mode's byte decodes to that mode.                                     *)
LEMMA ModeControlDecodes ==
  ASSUME NEW mode \in Mode
  PROVE  ModeControl(mode) \in Control /\ DecodedMode(ModeControl(mode)) = mode
<1>1. CASE mode = "office"
  BY <1>1 DEF ModeControl, DecodedMode, Control
<1>2. CASE mode = "gaming"
  BY <1>2 DEF ModeControl, DecodedMode, Control, Bit
<1>3. CASE mode = "turbo"
  BY <1>3 DEF ModeControl, DecodedMode, Control, Bit
<1>4. CASE mode = "custom"
  BY <1>4 DEF ModeControl, DecodedMode, Control, Bit
<1>. QED BY <1>1, <1>2, <1>3, <1>4 DEF Mode

(* The byte a command starts from is a byte; it is the controller's when   *)
(* it was read, and when the backend's recall is current.                  *)
LEMMA CurrentControlIs ==
  ASSUME TypeOK, RecallIsCurrent, NEW live \in BOOLEAN
  PROVE  /\ CurrentControl(live) \in Control
         /\ informed \/ live => CurrentControl(live) = control
<1>1. FallbackControl \in Control
  BY ModeControlDecodes, WithBoostKeeps DEF FallbackControl, TypeOK
<1>. QED
  BY <1>1, NoneIsNoValue DEF CurrentControl, TypeOK, RecallIsCurrent

--------------------------------------------------------------------------------

LEMMA InitIInv == Init => IInv
<1>. SUFFICES ASSUME Init PROVE IInv OBVIOUS
<1>1. control \in Control
  <2>1. PICK c \in Observed, on \in BOOLEAN : control = WithBoost(c, on)
    BY DEF Init
  <2>2. c \in Control
    BY Amw0ControlAssumption DEF Control, Bit
  <2>. QED BY <2>1, <2>2, WithBoostKeeps
<1>2. dry_run \in BOOLEAN
  BY Amw0ControlAssumption DEF Init
<1>3. TypeOK
  BY <1>1, <1>2 DEF TypeOK, Init, Control, Mode
<1>. QED
  BY <1>3 DEF IInv, Init, RecallIsCurrent, UnderWay, OtherHalfKept, Done,
             SuccessShown, Answered

LEMMA SetModeStep ==
  ASSUME IInv, NEW mode \in Mode, SetMode(mode)
  PROVE  IInv'
<1>. USE DEF IInv
<1>1. PICK live \in BOOLEAN :
        /\ live => ~dry_run
        /\ target' = TargetForMode(CurrentControl(live), mode)
        /\ Remember(live)
  BY DEF SetMode
<1>2. /\ CurrentControl(live) \in Control
      /\ informed' => CurrentControl(live) = control
  BY <1>1, CurrentControlIs DEF Remember
<1>3. /\ target' \in Control
      /\ DecodedMode(target') = mode
      /\ Boost(target') = Boost(CurrentControl(live))
  BY <1>1, <1>2, ModeControlDecodes, WithBoostKeeps, DecodedModeType DEF TargetForMode
<1>4. /\ request' \in Request /\ request'.op = "mode" /\ request'.arg = mode
      /\ pc' = "index" /\ before' = None /\ settled' = TRUE
      /\ UNCHANGED <<dry_run, index, control, shadow, status, view>>
  BY DEF SetMode, Request
<1>5. request' # None
  BY <1>4, NoneIsNoValue
<1>6. TypeOK'
  BY <1>1, <1>3, <1>4 DEF TypeOK, Remember
<1>7. RecallIsCurrent'
  BY <1>1, <1>4 DEF RecallIsCurrent, Remember
<1>8. UnderWay'
  <2>1. informed' => OtherHalf(target)' = OtherHalf(control)'
    BY <1>2, <1>3, <1>4 DEF OtherHalf, Boost
  <2>. QED BY <1>3, <1>4, <1>5, <2>1 DEF UnderWay, Reflects
<1>9. OtherHalfKept' /\ Done' /\ SuccessShown'
  BY <1>4 DEF OtherHalfKept, Done, SuccessShown, Answered
<1>. QED BY <1>6, <1>7, <1>8, <1>9

LEMMA SetFanBoostStep ==
  ASSUME IInv, NEW enabled \in BOOLEAN, SetFanBoost(enabled)
  PROVE  IInv'
<1>. USE DEF IInv
<1>1. PICK live \in BOOLEAN :
        /\ live => ~dry_run
        /\ target' = WithBoost(CurrentControl(live), enabled)
        /\ Remember(live)
  BY DEF SetFanBoost
<1>2. /\ CurrentControl(live) \in Control
      /\ informed' => CurrentControl(live) = control
  BY <1>1, CurrentControlIs DEF Remember
<1>3. /\ target' \in Control
      /\ Boost(target') = enabled
      /\ target' \ {"boost"} = CurrentControl(live) \ {"boost"}
  BY <1>1, <1>2, WithBoostKeeps
<1>4. /\ request' \in Request /\ request'.op = "boost" /\ request'.arg = enabled
      /\ pc' = "control" /\ before' = None /\ settled' = TRUE
      /\ UNCHANGED <<dry_run, index, control, shadow, status, view>>
  BY DEF SetFanBoost, Request
<1>5. request' # None
  BY <1>4, NoneIsNoValue
<1>6. TypeOK'
  BY <1>1, <1>3, <1>4 DEF TypeOK, Remember
<1>7. RecallIsCurrent'
  BY <1>1, <1>4 DEF RecallIsCurrent, Remember
<1>8. UnderWay'
  BY <1>2, <1>3, <1>4, <1>5 DEF UnderWay, Reflects, OtherHalf
<1>9. OtherHalfKept' /\ Done' /\ SuccessShown'
  BY <1>4 DEF OtherHalfKept, Done, SuccessShown, Answered
<1>. QED BY <1>6, <1>7, <1>8, <1>9

LEMMA WriteIndexStep == IInv /\ WriteIndex => IInv'
<1>. SUFFICES ASSUME IInv, WriteIndex PROVE IInv'
  OBVIOUS
<1>. USE DEF IInv, WriteIndex
<1>0. request # None /\ request.op = "mode" /\ request.arg \in Mode
  BY DEF UnderWay, TypeOK, Request
<1>1. TypeOK'
  BY <1>0 DEF TypeOK
<1>2. RecallIsCurrent' /\ OtherHalfKept'
  BY DEF RecallIsCurrent, OtherHalfKept, Boost
<1>3. UnderWay'
  BY DEF UnderWay, Reflects, OtherHalf
<1>4. Done' /\ SuccessShown'
  BY DEF Done, SuccessShown, Answered
<1>. QED BY <1>1, <1>2, <1>3, <1>4

LEMMA WriteControlStep == IInv /\ WriteControl => IInv'
<1>. SUFFICES ASSUME IInv, WriteControl PROVE IInv'
  OBVIOUS
<1>. USE DEF IInv, WriteControl
<1>0. /\ request # None /\ request \in Request /\ target \in Control
      /\ Reflects(target)
      /\ informed => OtherHalf(target) = OtherHalf(control)
  BY DEF UnderWay, TypeOK
<1>1. DecodedMode(target) \in Mode /\ Boost(target) \in BOOLEAN
  BY <1>0, DecodedModeType
<1>2. TypeOK'
  BY <1>1 DEF TypeOK
<1>3. RecallIsCurrent'
  BY DEF RecallIsCurrent
<1>4. OtherHalfKept'
  BY <1>0 DEF OtherHalfKept, OtherHalf, Boost
<1>5. UnderWay' /\ SuccessShown'
  BY DEF UnderWay, SuccessShown, Answered
<1>6. Done'
  <2>1. settled' /\ ~dry_run /\ request.op = "mode" => index = request.arg
    BY DEF UnderWay
  <2>2. ~dry_run => Reflects(control)'
    BY <1>0 DEF Reflects
  <2>3. /\ request.op = "mode" => shadow'.profile = request.arg
        /\ request.op = "boost" => shadow'.boost = request.arg
    BY <1>0 DEF Reflects
  <2>. QED BY <2>1, <2>2, <2>3 DEF Done
<1>. QED BY <1>2, <1>3, <1>4, <1>5, <1>6

LEMMA WriteFailsStep == IInv /\ WriteFails => IInv'
<1>. SUFFICES ASSUME IInv, WriteFails PROVE IInv'
  OBVIOUS
<1>. USE DEF IInv, WriteFails
<1>1. TypeOK'
  BY DEF TypeOK, UnderWay, Request
<1>2. OtherHalfKept'
  BY DEF OtherHalfKept, Boost
<1>4. RecallIsCurrent'
  <2>1. informed' => informed /\ control' = control
    BY DEF TypeOK
  <2>. QED BY <2>1 DEF RecallIsCurrent
<1>3. UnderWay' /\ Done' /\ SuccessShown'
  BY DEF UnderWay, Done, SuccessShown, Answered
<1>. QED BY <1>1, <1>2, <1>3, <1>4

LEMMA RefreshStep == IInv /\ Refresh => IInv'
<1>. SUFFICES ASSUME IInv, Refresh PROVE IInv'
  OBVIOUS
<1>. USE DEF IInv, Refresh
<1>1. PICK live \in BOOLEAN : ReadState(live)
  OBVIOUS
<1>2. DecodedMode(control) \in Mode /\ Boost(control) \in BOOLEAN
  BY DecodedModeType DEF TypeOK
<1>3. TypeOK'
  BY <1>1, <1>2 DEF TypeOK, ReadState, Remember
<1>4. RecallIsCurrent'
  BY <1>1 DEF RecallIsCurrent, ReadState, Remember
<1>5. UnderWay' /\ OtherHalfKept'
  BY DEF UnderWay, OtherHalfKept
<1>6. Done' /\ SuccessShown'
  <2>1. CASE pc = "boot"
    <3>1. request = None
      BY <2>1 DEF UnderWay
    <3>. QED BY <3>1 DEF Done, SuccessShown, Answered
  <2>2. CASE pc = "refresh"
    <3>1. Done'
      BY <2>2 DEF Done, Reflects
    <3>2. SuccessShown'
      BY <1>1, <2>2 DEF Done, Reflects, SuccessShown, Answered, ReadState,
                        TypeOK, Request
    <3>. QED BY <3>1, <3>2
  <2>. QED BY <2>1, <2>2
<1>. QED BY <1>3, <1>4, <1>5, <1>6

LEMMA RefreshFailsStep == IInv /\ RefreshFails => IInv'
<1>. SUFFICES ASSUME IInv, RefreshFails PROVE IInv'
  OBVIOUS
<1>. USE DEF IInv, RefreshFails
<1>1. TypeOK'
  BY DEF TypeOK
<1>2. RecallIsCurrent' /\ UnderWay' /\ OtherHalfKept' /\ Done' /\ SuccessShown'
  BY DEF RecallIsCurrent, UnderWay, OtherHalfKept, Done, SuccessShown, Answered
<1>. QED BY <1>1, <1>2

LEMMA DriftStep == IInv /\ Drift => IInv'
<1>. SUFFICES ASSUME IInv, Drift PROVE IInv'
  OBVIOUS
<1>. USE DEF IInv, Drift
<1>1. control' \in Control /\ informed' \in BOOLEAN /\ index' \in Mode
  <2>1. CASE UNCHANGED <<control, informed>> /\ index' \in Mode \ {index}
    BY <2>1 DEF TypeOK
  <2>2. CASE informed' = FALSE /\ UNCHANGED index
             /\ \E c \in Observed, on \in BOOLEAN : control' = WithBoost(c, on)
    <3>1. PICK c \in Observed, on \in BOOLEAN : control' = WithBoost(c, on)
      BY <2>2
    <3>2. c \in Control
      BY Amw0ControlAssumption DEF Control, Bit
    <3>. QED BY <2>2, <3>1, <3>2, WithBoostKeeps DEF TypeOK
  <2>. QED BY <2>1, <2>2
<1>2. TypeOK'
  <2>1. /\ settled' = FALSE
        /\ UNCHANGED <<dry_run, pc, request, target, shadow,
                       shadow_mode_control, status, view, before>>
    OBVIOUS
  <2>2. TypeOK
    OBVIOUS
  <2>. HIDE DEF Drift, IInv
  <2>3. /\ (request \in Request \cup {None})' /\ (target \in Control)'
        /\ (shadow \in [profile : Mode, boost : BOOLEAN \cup {None}])'
        /\ (shadow_mode_control \in Control \cup {None})'
    BY <2>1, <2>2 DEF TypeOK
  <2>4. /\ (view \in [profile : Mode \cup {None}, boost : BOOLEAN \cup {None},
                      fresh : {"live", "cache", "none"}])'
        /\ (before \in {None} \cup [control : Control, informed : BOOLEAN])'
    BY <2>1, <2>2 DEF TypeOK
  <2>. QED BY <1>1, <2>1, <2>2, <2>3, <2>4 DEF TypeOK
<1>3. OtherHalfKept'
  BY DEF OtherHalfKept, Boost
<1>6. RecallIsCurrent'
  <2>1. informed' => informed /\ control' = control
    OBVIOUS
  <2>. QED BY <2>1 DEF RecallIsCurrent
<1>4. UnderWay'
  BY DEF UnderWay, Reflects, OtherHalf
<1>5. Done' /\ SuccessShown'
  BY DEF Done, Reflects, SuccessShown, Answered
<1>. QED BY <1>2, <1>3, <1>4, <1>5, <1>6

LEMMA Stutter == IInv /\ UNCHANGED vars => IInv'
BY DEF vars, IInv, TypeOK, RecallIsCurrent, UnderWay, Reflects, OtherHalf,
       OtherHalfKept, Done, SuccessShown, Answered

(* The strengthened invariant holds of every behaviour.                    *)
THEOREM ControlInvariance == Spec => []IInv
<1>1. IInv /\ [Next]_vars => IInv'
  BY SetModeStep, SetFanBoostStep, WriteIndexStep, WriteControlStep,
     WriteFailsStep, RefreshStep, RefreshFailsStep, DriftStep, Stutter DEF Next
<1>. QED BY InitIInv, <1>1, PTL DEF Spec

(* The variables keep their types, for any mode bits firmware may set.     *)
THEOREM ControlTypeCorrect == Spec => []TypeOK
BY ControlInvariance, PTL DEF IInv

(* A command changes only its half of the control byte, and so on for the  *)
(* properties of the run: recall, programming, what is shown.              *)
THEOREM OtherHalfCorrect == Spec => []OtherHalfKept
BY ControlInvariance, PTL DEF IInv

(* What the backend recalls of the byte is current while it is informed.   *)
THEOREM RecallCorrect == Spec => []RecallIsCurrent
BY ControlInvariance, PTL DEF IInv

(* An OK mode change leaves the index and the control byte on that mode.   *)
THEOREM ModeCorrect == Spec => []ModeIsProgrammed
<1>1. IInv => ModeIsProgrammed
  BY DEF IInv, Done, Reflects, ModeIsProgrammed, Answered
<1>. QED BY ControlInvariance, <1>1, PTL

(* An OK answer is followed by a view that shows the requested setting.    *)
THEOREM ShownCorrect == Spec => []SuccessShown
BY ControlInvariance, PTL DEF IInv

(* Outside a dry run the retained profile and boost change only to what    *)
(* the control byte holds.                                                 *)
THEOREM ShadowCorrect == Spec => ShadowFollowsControl
<1>1. ASSUME IInv, [Next]_vars
      PROVE  [\/ shadow' = shadow \/ dry_run
              \/ shadow' = [profile |-> DecodedMode(control'),
                            boost |-> Boost(control')]]_vars
  <2>1. CASE WriteControl
    BY <2>1 DEF WriteControl
  <2>2. CASE Refresh
    BY <2>2 DEF Refresh, ReadState
  <2>3. CASE ~WriteControl /\ ~Refresh
    BY <1>1, <2>3 DEF Next, SetMode, SetFanBoost, WriteIndex, WriteFails,
                      RefreshFails, Drift, vars
  <2>. QED BY <2>1, <2>2, <2>3
<1>. QED BY ControlInvariance, <1>1, PTL DEF Spec, ShadowFollowsControl

--------------------------------------------------------------------------------
(* The contract of a backend.                                              *)

(* A command asks for one half, and never for nothing.                     *)
LEMMA AskedIs ==
  ASSUME TypeOK
  PROVE  /\ DOMAIN AbstractAsked = Half
         /\ request = None => AbstractAsked = Neither
         /\ request # None /\ request.op = "mode" =>
              AbstractAsked["profile"] = request.arg /\ AbstractAsked["boost"] = None
         /\ request # None /\ request.op = "boost" =>
              AbstractAsked["boost"] = request.arg /\ AbstractAsked["profile"] = None
         /\ request # None => request.op \in {"mode", "boost"} /\ request.arg # None
BY NoneIsNoValue DEF TypeOK, Request, AbstractAsked, Neither, Half

(* Only the control byte holds a half, and it is amw0's.                   *)
LEMMA TouchedIs ==
  /\ Contract!Touched \subseteq Registers
  /\ control' = control => Contract!Touched = {}
<1>1. ASSUME NEW r \in Contract!Touched
      PROVE  r \in Registers /\ control' # control
  <2>1. /\ r \in Contract!Backend \X Half
        /\ [standard |-> Neither, amw0 |-> HalvesOf(control')][r[1]][r[2]]
             # [standard |-> Neither, amw0 |-> HalvesOf(control)][r[1]][r[2]]
    BY DEF Contract!Touched, HalvesOf, Neither, DecodedMode, Boost
  <2>2. r[1] = "amw0"
    BY <2>1 DEF Contract!Backend
  <2>. QED BY <2>1, <2>2 DEF Registers
<1>. QED BY <1>1

LEMMA InitImplements == Init => Contract!Init
<1>. SUFFICES ASSUME Init PROVE Contract!Init
  OBVIOUS
<1>1. /\ AbstractPhase = "refresh" /\ AbstractStatus = "none"
      /\ AbstractAsked = Neither
  BY DEF Init, AbstractPhase, AbstractStatus, AbstractAsked
<1>. QED BY <1>1 DEF Contract!Init, Init, Half, Neither, Shown

LEMMA CallImplements ==
  ASSUME IInv, IInv',
         (\E mode \in Mode : SetMode(mode)) \/ (\E enabled \in BOOLEAN : SetFanBoost(enabled))
  PROVE  Contract!Call
<1>1. /\ pc = "idle" /\ pc' \in {"index", "control"} /\ request' # None /\ settled' = TRUE
      /\ UNCHANGED <<dry_run, control, shadow, view>>
  BY NoneIsNoValue DEF SetMode, SetFanBoost, IInv, UnderWay
<1>2. \E h \in Half : AbstractAsked'[h] # None
  <2>1. /\ TypeOK' /\ request' # None
    BY <1>1 DEF IInv
  <2>2. request'.op \in {"mode", "boost"} /\ request'.arg # None
    BY <2>1, NoneIsNoValue DEF TypeOK, Request
  <2>3. CASE request'.op = "mode"
    <3>1. AbstractAsked' = [Neither EXCEPT !.profile = request'.arg]
      BY <2>1, <2>3 DEF AbstractAsked, Neither
    <3>. QED BY <2>2, <3>1 DEF Half, Neither
  <2>4. CASE request'.op = "boost"
    <3>1. AbstractAsked' = [Neither EXCEPT !.boost = request'.arg]
      BY <2>1, <2>4 DEF AbstractAsked, Neither
    <3>. QED BY <2>2, <3>1 DEF Half, Neither
  <2>. QED BY <2>2, <2>3, <2>4
<1>. QED
  BY <1>1, <1>2 DEF Contract!Call, AbstractPhase, AbstractStatus, HalvesOf,
     DecodedMode, Boost, Neither, Shown

(* The abstract state a step inside a command leaves alone.                *)
LEMMA RequestKept ==
  ASSUME UNCHANGED <<request, dry_run, view>>
  PROVE  UNCHANGED <<AbstractAsked, Shown(view.profile), Shown(view.boost)>>
BY DEF AbstractAsked, Shown, Neither

LEMMA WriteImplements ==
  ASSUME IInv, WriteIndex
  PROVE  Contract!Write
<1>1. Contract!Programming
  BY TouchedIs DEF WriteIndex, Contract!Programming
<1>2. Contract!Running
  BY <1>1, RequestKept DEF WriteIndex, Contract!Running
<1>. QED
  BY <1>2 DEF Contract!Write, WriteIndex, AbstractPhase, AbstractStatus

(* The register a command reaches holds the half it names.                 *)
LEMMA ProgrammingHalves ==
  ASSUME IInv, request # None, ~dry_run \/ control' = control
  PROVE  Contract!Programming
<1>1. CASE control' = control
  BY <1>1, TouchedIs DEF Contract!Programming
<1>2. CASE ~dry_run
  <2>1. PICK h \in Half : AbstractAsked[h] # None
    BY AskedIs DEF IInv, Half
  <2>2. h \in Contract!Named
    BY <2>1 DEF Contract!Named
  <2>3. Contract!Touched \subseteq {"amw0"} \X Sharing["amw0"][h]
    BY TouchedIs DEF Registers, Sharing, Half
  <2>. QED BY <1>2, <2>2, <2>3 DEF Contract!Programming, Contract!Backend
<1>. QED BY <1>1, <1>2

LEMMA SucceedImplements ==
  ASSUME IInv, WriteControl
  PROVE  Contract!Succeed
<1>1. /\ pc = "control" /\ pc' = "refresh" /\ status' = "OK"
      /\ request # None /\ Reflects(target) /\ target \in Control
      /\ control' = IF dry_run THEN control ELSE target
      /\ shadow' = HalvesOf(target)
      /\ settled' = (request.op = "boost" \/ settled)
      /\ UNCHANGED <<request, dry_run, view>>
  BY DEF WriteControl, IInv, UnderWay, HalvesOf, TypeOK
<1>2. Contract!Running
  BY <1>1, ProgrammingHalves, RequestKept DEF Contract!Running
<1>3. AbstractPhase = "apply" /\ AbstractPhase' = "refresh" /\ AbstractStatus' = "OK"
  BY <1>1 DEF AbstractPhase, AbstractStatus
<1>4. ASSUME NEW h \in Contract!Named
      PROVE  /\ Executors'[h] = "amw0" /\ HalvesOf(target)[h] = AbstractAsked[h]
             /\ "amw0" \in Contract!Backend
             /\ Contract!Programmed(h)
  <2>1. h \in Half /\ AbstractAsked[h] # None
    BY <1>4 DEF Contract!Named
  <2>2. HalvesOf(target)[h] = AbstractAsked[h]
    BY <1>1, <2>1, AskedIs DEF IInv, Reflects, HalvesOf, Half
  <2>3. Executors'[h] = "amw0"
    BY <2>1 DEF Executors, Half
  <2>4. ~dry_run => HalvesOf(control')[h] = AbstractAsked[h]
    BY <1>1, <2>2
  <2>. QED BY <1>1, <2>2, <2>3, <2>4 DEF Contract!Programmed, Contract!Backend
<1>5. ASSUME NEW h \in Half, h \notin Contract!Named
      PROVE  Contract!Rewritten(h)
  <2>1. \E s \in Contract!Named : Executors'[s] = "amw0" /\ h \in Sharing["amw0"][s]
    <3>1. PICK s \in Half : AbstractAsked[s] # None
      BY <1>1, AskedIs DEF IInv, Half
    <3>. QED BY <1>4, <1>5, <3>1 DEF Contract!Named, Sharing, Half
  <2>2. dry_run \/ shadow'[h] = HalvesOf(control')[h]
    BY <1>1
  <2>. QED BY <1>1, <1>5, <2>1, <2>2 DEF Contract!Rewritten
<1>6. \A h \in Half :
        IF h \in Contract!Named /\ Executors'[h] = "amw0" THEN shadow'[h] = AbstractAsked[h]
        ELSE shadow'[h] = shadow[h] \/ Contract!Rewritten(h)
  BY <1>1, <1>4, <1>5
<1>. QED BY <1>2, <1>3, <1>4, <1>6 DEF Contract!Succeed

LEMMA FailImplements ==
  ASSUME IInv, WriteFails
  PROVE  Contract!Fail
<1>1. /\ pc \in {"index", "control"} /\ pc' = "refresh" /\ ~dry_run /\ status' = "IO"
      /\ request # None
      /\ UNCHANGED <<request, dry_run, view, shadow, settled>>
  BY DEF WriteFails, IInv, UnderWay
<1>2. Contract!Running
  BY <1>1, ProgrammingHalves, RequestKept DEF Contract!Running
<1>. QED BY <1>1, <1>2 DEF Contract!Fail, AbstractPhase, AbstractStatus

LEMMA RefreshImplements ==
  ASSUME IInv, Refresh
  PROVE  Contract!Refresh
<1>1. PICK live \in BOOLEAN : ReadState(live)
  BY DEF Refresh
<1>2. /\ pc \in {"boot", "refresh"} /\ pc' = "idle" /\ (pc = "boot" => request = None)
      /\ UNCHANGED <<dry_run, request, control, status, settled>>
  BY DEF Refresh, IInv, UnderWay
<1>3. /\ live => ~dry_run /\ shadow' = HalvesOf(control)
      /\ ~live => shadow' = shadow
      /\ view'.profile = shadow'["profile"] /\ view'.boost = shadow'["boost"]
      /\ view'.fresh = IF live THEN "live" ELSE "cache"
  BY <1>1 DEF ReadState, HalvesOf
<1>4. \A h \in Half :
        \/ shadow'[h] = shadow[h]
        \/ ~dry_run /\ shadow'[h] = HalvesOf(control)[h]
  BY <1>3
<1>. DEFINE Now == [profile |-> Shown(view.profile), boost |-> Shown(view.boost)]
<1>5. ASSUME NEW h \in Half
      PROVE  \/ /\ Now'[h].source = "amw0" /\ ~dry_run
                /\ Now'[h].value = HalvesOf(control)[h]
             \/ Now'[h].source = "cache" /\ Now'[h].value = shadow'[h]
             \/ Now'[h].source = "none" /\ Now'[h].value = None
  BY <1>3 DEF Shown, Half
<1>6. UNCHANGED <<AbstractAsked, AbstractStatus, Executors, HalvesOf(control)>>
  BY <1>2 DEF AbstractAsked, AbstractStatus, Neither, Executors, HalvesOf,
              DecodedMode, Boost
<1>7. AbstractPhase = "refresh" /\ AbstractPhase' = "idle"
  BY <1>2 DEF AbstractPhase
<1>. QED
  BY <1>2, <1>4, <1>5, <1>6, <1>7
  DEF Contract!Refresh, Contract!Answer, Contract!Backend, Neither

LEMMA RefreshFailsImplements ==
  ASSUME IInv, RefreshFails
  PROVE  Contract!RefreshFails
<1>1. /\ pc = "refresh" /\ pc' = "idle" /\ status' = "IO"
      /\ view' = [view EXCEPT !.fresh = "cache"]
      /\ UNCHANGED <<dry_run, request, control, shadow, settled>>
  BY DEF RefreshFails
<1>2. \A v : Shown(v)'.value = v' /\ Shown(v).value = v
             /\ Shown(v)'.source = IF v' = None THEN "none" ELSE "cache"
  BY <1>1 DEF Shown, IInv, TypeOK
<1>. QED
  BY <1>1, <1>2 DEF Contract!RefreshFails, AbstractPhase, AbstractStatus, Half,
     AbstractAsked, Neither, HalvesOf, DecodedMode, Boost, Executors

LEMMA DriftImplements ==
  ASSUME IInv, Drift
  PROVE  Contract!Drift
<1>1. /\ settled' = FALSE
      /\ UNCHANGED <<dry_run, pc, request, shadow, status, view>>
  BY DEF Drift
<1>2. Contract!Touched \subseteq Registers
  BY TouchedIs
<1>. QED
  BY <1>1, <1>2, RequestKept
  DEF Contract!Drift, AbstractPhase, AbstractStatus, Executors

LEMMA StutterImplements ==
  ASSUME UNCHANGED vars
  PROVE  UNCHANGED Contract!vars
BY DEF vars, Contract!vars, AbstractPhase, AbstractAsked, AbstractStatus, Neither,
       HalvesOf, DecodedMode, Boost, Shown, Executors

(* amw0 keeps the contract of a backend for its two settings of the        *)
(* control byte, whatever bytes firmware sets, in a dry run as well.       *)
THEOREM ControlKeepsContract == Spec => ImplementsContract
<1>1. ASSUME IInv, IInv', [Next]_vars PROVE [Contract!Next]_(Contract!vars)
  <2>1. CASE \/ \E mode \in Mode : SetMode(mode)
             \/ \E enabled \in BOOLEAN : SetFanBoost(enabled)
    BY <1>1, <2>1, CallImplements DEF Contract!Next
  <2>2. CASE WriteIndex
    BY <1>1, <2>2, WriteImplements DEF Contract!Next
  <2>3. CASE WriteControl
    BY <1>1, <2>3, SucceedImplements DEF Contract!Next
  <2>4. CASE WriteFails
    BY <1>1, <2>4, FailImplements DEF Contract!Next
  <2>5. CASE Refresh
    BY <1>1, <2>5, RefreshImplements DEF Contract!Next
  <2>6. CASE RefreshFails
    BY <1>1, <2>6, RefreshFailsImplements DEF Contract!Next
  <2>7. CASE Drift
    BY <1>1, <2>7, DriftImplements DEF Contract!Next
  <2>8. CASE UNCHANGED vars
    BY <2>8, StutterImplements
  <2>. QED BY <1>1, <2>1, <2>2, <2>3, <2>4, <2>5, <2>6, <2>7, <2>8 DEF Next
<1>. QED
  BY InitImplements, ControlInvariance, <1>1, PTL
  DEF Spec, Contract!Spec, ImplementsContract

================================================================================
