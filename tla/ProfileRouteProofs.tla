--------------------------- MODULE ProfileRouteProofs ---------------------------
(***************************************************************************)
(* Proofs of the invariants of ProfileRoute: the two vocabularies agree,   *)
(* IInv is inductive, and the properties of routed commands follow.        *)
(***************************************************************************)
EXTENDS ProfileRoute, TLAPS

LEMMA NoneIsNoName ==
  /\ None \notin Mode
  /\ None \notin KernelName
  /\ None \notin Request
BY ProfileRouteAssumption

(* The two backends know the same names and mean the same mode by them.    *)
LEMMA VocabulariesAgree ==
  ASSUME NEW name
  PROVE  /\ ModeNamed(name) \in Mode \cup {None}
         /\ PlatformProfile(name) \in KernelName \cup {None}
         /\ ModeNamed(name) # None <=> name \in Known
         /\ PlatformProfile(name) # None <=> name \in Known
         /\ name \in Known => ModeNamed(PlatformProfile(name)) = ModeNamed(name)
<1>. USE NoneIsNoName DEF ModeNamed, PlatformProfile, Mode, KernelName, Known
<1>1. CASE name \in {"office", "low-power"}
  BY <1>1
<1>2. CASE name \in {"turbo", "performance"}
  BY <1>2
<1>3. CASE name \in {"gaming", "balanced"}
  BY <1>3
<1>4. CASE name = "custom"
  BY <1>4
<1>5. CASE name \notin {"office", "low-power", "turbo", "performance", "gaming",
                        "balanced", "custom"}
  BY <1>5
<1>. QED BY <1>1, <1>2, <1>3, <1>4, <1>5

(* A mode is its own name, and has a name in the kernel.                   *)
LEMMA ModesAreNamed ==
  ASSUME NEW mode \in Mode
  PROVE  /\ ModeNamed(mode) = mode
         /\ mode \in Known
         /\ KernelProfile(mode) \in KernelName
         /\ ModeNamed(KernelProfile(mode)) = mode
<1>1. CASE mode = "office"
  BY <1>1 DEF ModeNamed, Mode, KernelProfile, KernelName, Known
<1>2. CASE mode = "turbo"
  BY <1>2 DEF ModeNamed, Mode, KernelProfile, KernelName, Known
<1>3. CASE mode = "gaming"
  BY <1>3 DEF ModeNamed, Mode, KernelProfile, KernelName, Known
<1>4. CASE mode = "custom"
  BY <1>4 DEF ModeNamed, Mode, KernelProfile, KernelName, Known
<1>. QED BY <1>1, <1>2, <1>3, <1>4 DEF Mode

(* What GetState shows of platform_profile means what the file means.      *)
LEMMA AliasKeepsMeaning ==
  ASSUME NEW profile \in KernelName
  PROVE  /\ Alias(profile) \in Mode \cup KernelName
         /\ ModeNamed(Alias(profile)) = ModeNamed(profile)
BY DEF Alias, ModeNamed, Mode, KernelName

LEMMA MachineType ==
  ASSUME TypeOK
  PROVE  /\ machine \in Machine
         /\ Profiled(machine) \/ AmwAvailable
         /\ machine.accepts \subseteq KernelName
BY ProfileRouteAssumption DEF TypeOK, Machine, AmwAvailable

(* While a command is under way: what its name stands for, in the          *)
(* controller and in the kernel.                                           *)
LEMMA WantedIsMeant ==
  ASSUME TypeOK, UnderWay, pc \notin {"idle", "refresh"}
  PROVE  /\ request \in Request /\ request # None
         /\ Wanted = Meant
         /\ Meant \in Mode \cup {None}
         /\ Meant # None <=> request.name \in Known
         /\ KernelWants \in KernelName \cup {None}
         /\ KernelWants # None <=> request.name \in Known
         /\ KernelWants # None => ModeNamed(KernelWants) = Meant
         /\ Wanted = None => ~as_mode
<1>1. request \in Request /\ request # None
  BY DEF TypeOK, UnderWay
<1>2. CASE as_mode
  <2>1. request.name \in Mode
    BY <1>2 DEF UnderWay
  <2>. QED
    BY <1>1, <1>2, <2>1, ModesAreNamed, NoneIsNoName DEF Wanted, Meant, KernelWants
<1>3. CASE ~as_mode
  <2>1. request.op # "mode"
    BY <1>3 DEF UnderWay
  <2>. QED
    BY <1>1, <1>3, <2>1, VocabulariesAgree, NoneIsNoName DEF Wanted, Meant, KernelWants
<1>. QED BY <1>2, <1>3 DEF TypeOK

--------------------------------------------------------------------------------

LEMMA InitIInv == Init => IInv
<1>. SUFFICES ASSUME Init PROVE IInv OBVIOUS
<1>1. machine.accepts \subseteq KernelName
  BY ProfileRouteAssumption DEF Init, Machine
<1>2. TypeOK
  BY <1>1 DEF TypeOK, Init, Result, Blank, Status, Stage, Mode
<1>. QED
  BY <1>2 DEF IInv, Init, UnderWay, Done, OneBackendWritten, SuccessShown, Answered

(* What the start of a call, fresh or as the executor's retry, establishes *)
(* when nothing has been written.                                          *)
LEMMA RoutedUnderWay ==
  ASSUME TypeOK, NEW mode_call \in BOOLEAN, Routed(mode_call),
         request' \in Request, request' # None, reached' = {}, machine' = machine,
         ~result'.hardware_write,
         mode_call => request'.name \in Mode,
         request'.op = "mode" => mode_call
  PROVE  UnderWay' /\ pc' \in {"standard", "named", "index"} /\ as_mode' \in BOOLEAN
<1>1. /\ as_mode' = mode_call
      /\ pc' = IF Profiled(machine) THEN "standard"
               ELSE IF mode_call THEN "index" ELSE "named"
  BY DEF Routed
<1>2. Profiled(machine') = Profiled(machine) /\ AmwAvailable' = AmwAvailable
  BY DEF AmwAvailable
<1>3. pc' # "standard" => AmwAvailable'
  BY <1>1, <1>2, MachineType
<1>4. pc' = "index" => Wanted' \in Mode
  BY <1>1 DEF Wanted
<1>. QED BY <1>1, <1>2, <1>3, <1>4 DEF UnderWay

LEMMA ReceiveStep ==
  ASSUME IInv, NEW r \in Request, Receive(r)
  PROVE  IInv'
<1>. USE DEF IInv
<1>1. /\ request' = r /\ result' = Blank /\ reached' = {} /\ overwritten' = {}
      /\ Routed(r.op = "mode")
      /\ UNCHANGED <<machine, registers, shadow, view>>
  BY DEF Receive
<1>2. /\ r # None
      /\ r.op = "mode" => r.name \in Mode
  BY NoneIsNoName DEF Request
<1>3. UnderWay' /\ pc' \in {"standard", "named", "index"} /\ as_mode' \in BOOLEAN
  BY <1>1, <1>2, RoutedUnderWay DEF Blank
<1>4. TypeOK'
  BY <1>1, <1>3 DEF TypeOK, registers, Result, Blank, Status, Stage
<1>. QED
  BY <1>1, <1>3, <1>4 DEF Done, OneBackendWritten, SuccessShown, Answered

--------------------------------------------------------------------------------
(* The end of a call.  What has to be known of the answer when the         *)
(* converged backend is done: it is a refusal exactly if the name is       *)
(* unknown, which also means that the executor never tries again.          *)
AnswerFits(answer) ==
  /\ answer \in Result
  /\ answer.executor \in {"standard", "amw0"}
  /\ (answer.status = "NOT_SUPPORTED") = (request.name \notin Known)
  /\ reached' \subseteq {answer.executor}
  /\ answer.status = "NOT_SUPPORTED" => reached' = {}
  /\ answer.hardware_write => reached' # {}
  /\ answer.status = "OK" =>
       /\ ~answer.hardware_write => reached' = {}
       /\ answer.executor = "amw0" =>
            /\ AmwAvailable
            /\ machine.amw0 = "dry" => reached' = {}
            /\ shadow' = Meant
            /\ machine.amw0 = "real" /\ Standing("amw0")'
                 => index' = Meant /\ ec_mode' = Meant
       /\ answer.executor = "standard" /\ Standing("standard")' =>
            ModeNamed(platform_profile') = Meant

LEMMA CallEnds ==
  ASSUME IInv, NEW answer, AnswerFits(answer), Concluded(answer),
         pc \notin {"idle", "refresh"},
         UNCHANGED <<machine, request, view>>,
         platform_profile' \in KernelName, index' \in Mode, ec_mode' \in Mode,
         shadow' \in Mode, overwritten' \subseteq {"standard", "amw0"}
  PROVE  IInv'
<1>. USE DEF IInv
<1>1. request.name \notin Mode \/ answer.status # "NOT_SUPPORTED"
  BY DEF AnswerFits, Known
<1>2. pc' = "refresh" /\ as_mode' = as_mode /\ result' = answer
  BY <1>1 DEF Concluded
<1>3. reached' \subseteq {"standard", "amw0"} /\ reached' # {"standard", "amw0"}
  BY DEF AnswerFits
<1>4. TypeOK'
  BY <1>2, <1>3 DEF TypeOK, AnswerFits
<1>5. Meant' = Meant /\ AmwAvailable' = AmwAvailable
  BY DEF Meant, AmwAvailable
<1>6. UnderWay'
  BY <1>2 DEF UnderWay
<1>7. Done'
  BY <1>2, <1>5 DEF Done, AnswerFits, Programmed
<1>8. OneBackendWritten' /\ SuccessShown'
  BY <1>2, <1>3 DEF OneBackendWritten, SuccessShown, Answered
<1>. QED BY <1>4, <1>6, <1>7, <1>8

--------------------------------------------------------------------------------

LEMMA StandardRefusesStep ==
  ASSUME IInv, StandardRefuses
  PROVE  IInv'
<1>. USE DEF IInv
<1>. DEFINE answer == [status |-> "NOT_SUPPORTED", executor |-> "standard",
                       stage |-> "write-platform-profile", hardware_write |-> FALSE]
<1>1. /\ pc = "standard" /\ KernelWants = None
      /\ StandardAnswers("NOT_SUPPORTED", FALSE)
      /\ UNCHANGED untouched
  BY DEF StandardRefuses
<1>2. request.name \notin Known /\ ~as_mode /\ reached = {} /\ Wanted = Meant
  <2>1. KernelWants # None <=> request.name \in Known
    BY <1>1, WantedIsMeant
  <2>2. as_mode => request.name \in Mode
    BY <1>1 DEF UnderWay
  <2>. QED BY <1>1, <2>1, <2>2, WantedIsMeant DEF UnderWay, Known
<1>3. answer \in Result
  BY DEF Result, Status, Stage
<1>4. CASE AmwAvailable
  <2>1. pc' = "named" /\ as_mode' = as_mode /\ result' = answer
    BY <1>1, <1>2, <1>4 DEF StandardAnswers
  <2>2. UNCHANGED untouched
    BY <1>1
  <2>3. TypeOK'
    BY <1>3, <2>1, <2>2 DEF TypeOK, untouched, registers
  <2>4. UnderWay'
    BY <1>1, <1>2, <1>4, <2>1, <2>2 DEF UnderWay, untouched, AmwAvailable
  <2>. QED
    BY <1>2, <2>1, <2>2, <2>3, <2>4
    DEF Done, OneBackendWritten, SuccessShown, Answered, untouched
<1>5. CASE ~AmwAvailable
  <2>1. Concluded(answer)
    BY <1>1, <1>5 DEF StandardAnswers
  <2>2. AnswerFits(answer)
    BY <1>1, <1>2, <1>3 DEF AnswerFits, untouched
  <2>. QED
    BY <1>1, <2>1, <2>2, CallEnds DEF untouched, registers, TypeOK
<1>. QED BY <1>4, <1>5

LEMMA StandardWriteStep ==
  ASSUME IInv, StandardWrite
  PROVE  IInv'
<1>. USE DEF IInv
<1>. DEFINE answer == [status |-> "OK", executor |-> "standard",
                       stage |-> "write-platform-profile", hardware_write |-> TRUE]
<1>1. /\ pc = "standard" /\ KernelWants # None
      /\ KernelWants \in machine.accepts
      /\ platform_profile' = KernelWants
      /\ reached' = reached \cup {"standard"}
      /\ overwritten' = overwritten \ {"standard"}
      /\ StandardAnswers("OK", TRUE)
      /\ UNCHANGED <<machine, request, index, ec_mode, shadow, view>>
  BY DEF StandardWrite, PlatformWritten, WriteFlag
<1>2. /\ request.name \in Known /\ ModeNamed(KernelWants) = Meant
      /\ KernelWants \in KernelName
  BY <1>1, WantedIsMeant
<1>3. Concluded(answer)
  BY <1>1 DEF StandardAnswers
<1>4. reached' = {"standard"}
  BY <1>1 DEF UnderWay
<1>5. answer \in Result
  BY DEF Result, Status, Stage
<1>6. AnswerFits(answer)
  BY <1>1, <1>2, <1>4, <1>5 DEF AnswerFits
<1>. QED BY <1>1, <1>2, <1>3, <1>6, CallEnds DEF TypeOK

LEMMA StandardWriteFailsStep ==
  ASSUME IInv, StandardWriteFails
  PROVE  IInv'
<1>. USE DEF IInv
<1>. DEFINE answer == [status |-> "IO", executor |-> "standard",
                       stage |-> "write-platform-profile", hardware_write |-> FALSE]
<1>1. /\ pc = "standard" /\ KernelWants # None
      /\ PlatformWritten \/ UNCHANGED <<platform_profile, reached, overwritten>>
      /\ StandardAnswers("IO", FALSE)
      /\ UNCHANGED <<machine, request, index, ec_mode, shadow, view>>
  BY DEF StandardWriteFails
<1>2. request.name \in Known /\ KernelWants \in KernelName
  BY <1>1, WantedIsMeant
<1>3. Concluded(answer)
  BY <1>1 DEF StandardAnswers
<1>4. /\ reached' \subseteq {"standard"}
      /\ platform_profile' \in KernelName
      /\ overwritten' \subseteq {"standard", "amw0"}
  BY <1>1, <1>2 DEF UnderWay, PlatformWritten, TypeOK
<1>5. answer \in Result
  BY DEF Result, Status, Stage
<1>6. AnswerFits(answer)
  BY <1>2, <1>4, <1>5 DEF AnswerFits
<1>. QED BY <1>1, <1>3, <1>4, <1>6, CallEnds DEF TypeOK

LEMMA AmwNamedStep ==
  ASSUME IInv, AmwNamed
  PROVE  IInv'
<1>. USE DEF IInv
<1>1. pc = "named" /\ UNCHANGED untouched /\ reached = {} /\ AmwAvailable /\ ~as_mode
  BY DEF AmwNamed, UnderWay
<1>2. /\ Wanted = Meant
      /\ Meant \in Mode \cup {None}
      /\ Meant # None <=> request.name \in Known
  BY <1>1, WantedIsMeant
<1>3. CASE Wanted = None
  <2>. DEFINE answer == [result EXCEPT !.status = "NOT_SUPPORTED", !.executor = "amw0"]
  <2>1. Concluded(answer)
    BY <1>3 DEF AmwNamed
  <2>2. /\ answer \in Result
        /\ answer.status = "NOT_SUPPORTED" /\ answer.executor = "amw0"
        /\ answer.hardware_write = result.hardware_write
    BY DEF TypeOK, Result, Status
  <2>3. ~result.hardware_write
    BY <1>1 DEF UnderWay
  <2>4. AnswerFits(answer)
    BY <1>1, <1>2, <1>3, <2>2, <2>3 DEF AnswerFits, untouched
  <2>. QED BY <1>1, <2>1, <2>4, CallEnds DEF untouched, registers, TypeOK
<1>4. CASE Wanted # None
  <2>1. pc' = "index" /\ UNCHANGED <<result, as_mode>>
    BY <1>4 DEF AmwNamed
  <2>2. Wanted' = Wanted
    BY <1>1, <2>1 DEF Wanted, untouched
  <2>3. TypeOK'
    BY <1>1, <2>1 DEF TypeOK, untouched, registers
  <2>4. UnderWay'
    BY <1>1, <1>2, <1>4, <2>1, <2>2 DEF UnderWay, untouched, AmwAvailable
  <2>. QED
    BY <1>1, <2>1, <2>3, <2>4
    DEF Done, OneBackendWritten, SuccessShown, Answered, untouched
<1>. QED BY <1>3, <1>4

LEMMA WriteIndexStep ==
  ASSUME IInv, WriteIndex
  PROVE  IInv'
<1>. USE DEF IInv
<1>1. /\ pc = "index" /\ pc' = "control"
      /\ index' = IF machine.amw0 = "real" THEN Wanted ELSE index
      /\ result' = AmwAt("set-mode-control")
      /\ reached' = IF machine.amw0 = "real" THEN reached \cup {"amw0"} ELSE reached
      /\ overwritten' = IF machine.amw0 = "real"
                        THEN overwritten \ {"amw0"} ELSE overwritten
      /\ UNCHANGED <<machine, request, as_mode, platform_profile, ec_mode, shadow,
                     view>>
  BY DEF WriteIndex, AmwReached
<1>2. Wanted \in Mode /\ AmwAvailable /\ reached = {} /\ Wanted' = Wanted
  BY <1>1 DEF UnderWay, Wanted
<1>3. result' \in Result
  BY <1>1 DEF AmwAt, Result, Status, Stage
<1>4. TypeOK'
  BY <1>1, <1>2, <1>3 DEF TypeOK
<1>5. UnderWay'
  BY <1>1, <1>2 DEF UnderWay, AmwAvailable, Standing
<1>. QED
  BY <1>1, <1>2, <1>4, <1>5 DEF Done, OneBackendWritten, SuccessShown, Answered

LEMMA WriteControlStep ==
  ASSUME IInv, WriteControl
  PROVE  IInv'
<1>. USE DEF IInv
<1>. DEFINE answer == [AmwAt("set-mode-control")
                         EXCEPT !.hardware_write = (machine.amw0 = "real")]
<1>1. /\ pc = "control"
      /\ ec_mode' = IF machine.amw0 = "real" THEN Wanted ELSE ec_mode
      /\ shadow' = Wanted
      /\ reached' = IF machine.amw0 = "real" THEN reached \cup {"amw0"} ELSE reached
      /\ overwritten' = overwritten
      /\ Concluded(answer)
      /\ UNCHANGED <<machine, request, platform_profile, index, view>>
  BY DEF WriteControl, AmwReached, Remembered
<1>2. /\ Wanted \in Mode /\ AmwAvailable
      /\ reached = IF machine.amw0 = "real" THEN {"amw0"} ELSE {}
      /\ machine.amw0 = "real" /\ Standing("amw0") => index = Wanted
  BY <1>1 DEF UnderWay
<1>3. Wanted = Meant /\ request.name \in Known
  BY <1>1, <1>2, WantedIsMeant, NoneIsNoName
<1>4. /\ answer \in Result
      /\ answer.status = "OK" /\ answer.executor = "amw0"
      /\ answer.hardware_write = (machine.amw0 = "real")
  BY DEF AmwAt, Result, Status, Stage
<1>5. AnswerFits(answer)
  BY <1>1, <1>2, <1>3, <1>4 DEF AnswerFits, Standing
<1>. QED BY <1>1, <1>2, <1>5, CallEnds DEF TypeOK

LEMMA AmwWriteFailsStep ==
  ASSUME IInv, AmwWriteFails
  PROVE  IInv'
<1>. USE DEF IInv
<1>. DEFINE answer == [AmwAt(IF pc = "index" THEN "set-mode-index"
                                             ELSE "set-mode-control")
                         EXCEPT !.status = "IO"]
<1>1. /\ pc \in {"index", "control"} /\ machine.amw0 = "real"
      /\ Concluded(answer)
      /\ UNCHANGED <<machine, request, platform_profile, shadow, view>>
  BY DEF AmwWriteFails
<1>2. Wanted \in Mode /\ reached \subseteq {"amw0"}
  BY <1>1 DEF UnderWay
<1>3. /\ index' \in Mode /\ ec_mode' \in Mode
      /\ reached' \subseteq {"amw0"} /\ overwritten' \subseteq {"standard", "amw0"}
  BY <1>1, <1>2 DEF AmwWriteFails, AmwReached, TypeOK
<1>4. request.name \in Known
  BY <1>1, <1>2, WantedIsMeant, NoneIsNoName
<1>5. /\ answer \in Result
      /\ answer.status = "IO" /\ answer.executor = "amw0" /\ ~answer.hardware_write
  BY DEF AmwAt, Result, Status, Stage
<1>6. AnswerFits(answer)
  BY <1>3, <1>4, <1>5 DEF AnswerFits
<1>. QED BY <1>1, <1>3, <1>6, CallEnds DEF TypeOK

--------------------------------------------------------------------------------
(* The refresh: a view of the executor's profile shows what was asked for. *)

LEMMA RefreshStep ==
  ASSUME IInv, Refresh
  PROVE  IInv'
<1>. USE DEF IInv
<1>1. PICK anyStandard, profile, anyAmw, live \in BOOLEAN :
         /\ profile => anyStandard /\ Profiled(machine)
         /\ anyAmw => AmwAvailable
         /\ live => anyAmw /\ machine.amw0 = "real"
         /\ shadow' = IF live THEN ec_mode ELSE shadow
         /\ view' = IF anyAmw THEN AmwView(live) ELSE StandardView(profile)
  BY DEF Refresh
<1>2. /\ pc = "refresh" /\ pc' = "idle"
      /\ UNCHANGED <<machine, request, as_mode, registers, result, reached, overwritten>>
  BY DEF Refresh
<1>3. view' \in {AmwView(live), StandardView(profile)}
  BY <1>1
<1>4. /\ Alias(platform_profile) \in Mode \cup KernelName
      /\ ModeNamed(Alias(platform_profile)) = ModeNamed(platform_profile)
  BY AliasKeepsMeaning DEF TypeOK
<1>5. TypeOK'
  <2>1. view' \in [name : Mode \cup KernelName \cup {None},
                   source : {"standard", "amw0", "cache", "none"}]
    BY <1>3, <1>4 DEF AmwView, StandardView, TypeOK
  <2>. QED BY <1>1, <1>2, <2>1 DEF TypeOK, registers
<1>6. Meant' = Meant /\ AmwAvailable' = AmwAvailable
      /\ \A b : Standing(b)' = Standing(b) /\ Programmed(b)' = Programmed(b)
  BY <1>2 DEF Meant, AmwAvailable, Standing, Programmed, registers
<1>7. UnderWay' /\ OneBackendWritten'
  BY <1>2 DEF UnderWay, OneBackendWritten, Answered, Done
<1>8. Done'
  BY <1>2, <1>6 DEF Done
<1>9. SuccessShown'
  <2>. SUFFICES ASSUME request # None, result.status = "OK",
                       Standing(result.executor),
                       view'.source \in {result.executor} \cup
                         (IF result.executor = "amw0" THEN {"cache"} ELSE {})
                PROVE  ModeNamed(view'.name) = Meant
    BY <1>2, <1>6 DEF SuccessShown, Answered
  <2>1. result.executor \in {"standard", "amw0"} /\ Programmed(result.executor)
    BY <1>2 DEF Done
  <2>2. CASE result.executor = "standard"
    <3>1. view' = StandardView(profile) /\ profile
      BY <1>3, <2>2 DEF AmwView, StandardView
    <3>2. ModeNamed(platform_profile) = Meant
      BY <2>1, <2>2 DEF Programmed
    <3>. QED BY <1>4, <3>1, <3>2 DEF StandardView
  <2>3. CASE result.executor = "amw0"
    <3>1. view' = AmwView(live)
      BY <1>3, <2>3 DEF AmwView, StandardView
    <3>2. /\ shadow = Meant
          /\ machine.amw0 = "real" => ec_mode = Meant
      BY <1>2, <2>1, <2>3 DEF Done, Programmed
    <3>3. view'.name = Meant
      BY <1>1, <3>1, <3>2 DEF AmwView
    <3>4. Meant \in Mode
      BY <3>2 DEF TypeOK
    <3>. QED BY <3>3, <3>4, ModesAreNamed
  <2>. QED BY <2>1, <2>2, <2>3
<1>. QED BY <1>5, <1>7, <1>8, <1>9

LEMMA RefreshFailsStep ==
  ASSUME IInv, RefreshFails
  PROVE  IInv'
<1>. USE DEF IInv
<1>1. /\ pc = "refresh" /\ pc' = "idle" /\ request # None
      /\ view' = [view EXCEPT !.source = IF view.name = None THEN "none" ELSE "cache"]
      /\ result' = [result EXCEPT !.status = IF @ = "OK" THEN "IO" ELSE @]
      /\ UNCHANGED <<machine, request, as_mode, registers, shadow, reached, overwritten>>
  BY DEF RefreshFails
<1>2. /\ result' \in Result /\ result'.status # "OK"
      /\ result'.executor = result.executor
      /\ result'.hardware_write = result.hardware_write
      /\ (result'.status = "NOT_SUPPORTED") = (result.status = "NOT_SUPPORTED")
  BY <1>1 DEF TypeOK, Result, Status
<1>3. TypeOK'
  BY <1>1, <1>2 DEF TypeOK, registers
<1>4. UnderWay' /\ OneBackendWritten' /\ SuccessShown'
  BY <1>1, <1>2 DEF UnderWay, OneBackendWritten, SuccessShown, Answered, Done
<1>5. Done'
  BY <1>1, <1>2 DEF Done
<1>. QED BY <1>3, <1>4, <1>5

(* Firmware marks what it changes, and what it changed is no longer        *)
(* promised.                                                               *)
LEMMA DriftStep ==
  ASSUME IInv, Drift
  PROVE  IInv'
<1>. USE DEF IInv
<1>1. UNCHANGED <<machine, pc, request, as_mode, shadow, result, view, reached>>
  BY DEF Drift
<1>2. /\ overwritten \subseteq overwritten'
      /\ overwritten' \subseteq {"standard", "amw0"}
      /\ "standard" \in overwritten' \/ platform_profile' = platform_profile
      /\ "amw0" \in overwritten' \/ (index' = index /\ ec_mode' = ec_mode)
  BY DEF Drift, TypeOK
<1>3. TypeOK'
  <2>1. machine.accepts \subseteq KernelName
    BY MachineType
  <2>2. platform_profile' \in KernelName /\ index' \in Mode /\ ec_mode' \in Mode
    BY <2>1 DEF Drift, TypeOK
  <2>. QED BY <1>1, <1>2, <2>2 DEF TypeOK
<1>4. /\ Meant' = Meant /\ Wanted' = Wanted /\ AmwAvailable' = AmwAvailable
      /\ Answered' = Answered
  BY <1>1 DEF Meant, Wanted, AmwAvailable, Answered
<1>5. \A b : Standing(b)' => Standing(b)
  BY <1>2 DEF Standing
<1>6. Programmed("standard") => Programmed("standard")'
  BY <1>1, <1>2, <1>4 DEF Programmed, Standing
<1>7. Programmed("amw0") => Programmed("amw0")'
  BY <1>1, <1>2, <1>4 DEF Programmed, Standing
<1>8. UnderWay'
  BY <1>1, <1>2, <1>4, <1>5 DEF UnderWay, Standing
<1>9. Done'
  BY <1>1, <1>4, <1>6, <1>7 DEF Done
<1>10. OneBackendWritten' /\ SuccessShown'
  BY <1>1, <1>4, <1>5 DEF OneBackendWritten, SuccessShown
<1>. QED BY <1>3, <1>8, <1>9, <1>10

LEMMA StutterStep ==
  ASSUME IInv, UNCHANGED vars
  PROVE  IInv'
BY DEF vars, registers, IInv, TypeOK, UnderWay, Done, OneBackendWritten, SuccessShown,
       Answered, Meant, Wanted, Standing, Programmed, AmwAvailable

--------------------------------------------------------------------------------

(* Every reachable state, between and inside commands, satisfies the       *)
(* inductive invariant, for every set of machines and of profile names.    *)
THEOREM Inductive == Spec => []IInv
<1>1. IInv /\ [Next]_vars => IInv'
  <2>. SUFFICES ASSUME IInv, [Next]_vars PROVE IInv' OBVIOUS
  <2>1. CASE \E r \in Request : Receive(r)
    BY <2>1, ReceiveStep
  <2>2. CASE StandardRefuses
    BY <2>2, StandardRefusesStep
  <2>3. CASE StandardWrite
    BY <2>3, StandardWriteStep
  <2>4. CASE StandardWriteFails
    BY <2>4, StandardWriteFailsStep
  <2>5. CASE AmwNamed
    BY <2>5, AmwNamedStep
  <2>6. CASE WriteIndex
    BY <2>6, WriteIndexStep
  <2>7. CASE WriteControl
    BY <2>7, WriteControlStep
  <2>8. CASE AmwWriteFails
    BY <2>8, AmwWriteFailsStep
  <2>9. CASE Refresh
    BY <2>9, RefreshStep
  <2>10. CASE RefreshFails
    BY <2>10, RefreshFailsStep
  <2>11. CASE Drift
    BY <2>11, DriftStep
  <2>12. CASE UNCHANGED vars
    BY <2>12, StutterStep
  <2>. QED BY <2>1, <2>2, <2>3, <2>4, <2>5, <2>6, <2>7, <2>8, <2>9, <2>10, <2>11,
              <2>12 DEF Next
<1>. QED BY InitIInv, <1>1, PTL DEF Spec

(* The types of the model's variables.                                     *)
THEOREM RoutedTypes == Spec => []TypeOK
<1>1. IInv => TypeOK
  BY DEF IInv
<1>. QED BY Inductive, <1>1, PTL

(* An OK answer to SetProfile or SetMode means that the backend named as   *)
(* executor holds the mode that was asked for, in all its registers,       *)
(* whichever way the command was routed.                                   *)
THEOREM RoutedIsProgrammed == Spec => []DoneIsProgrammed
<1>1. IInv => DoneIsProgrammed
  <2>. SUFFICES ASSUME IInv, Answered, result.status = "OK"
                PROVE  \/ /\ result.executor = "standard"
                          /\ Standing("standard") => ModeNamed(platform_profile) = Meant
                       \/ /\ result.executor = "amw0" /\ machine.amw0 = "real"
                          /\ Standing("amw0") => index = Meant /\ ec_mode = Meant
                       \/ result.executor = "amw0" /\ machine.amw0 = "dry" /\ reached = {}
    BY DEF DoneIsProgrammed
  <2>1. machine.amw0 \in {"absent", "dry", "real"}
    BY MachineType DEF IInv, Machine
  <2>. QED BY <2>1 DEF IInv, Done, Answered, Programmed, AmwAvailable
<1>. QED BY Inductive, <1>1, PTL

(* No command ever writes to both backends, and the one it wrote to is the *)
(* one last_apply names.                                                   *)
THEOREM NeverBothBackends == Spec => []OneBackendWritten
<1>1. IInv => OneBackendWritten
  BY DEF IInv
<1>. QED BY Inductive, <1>1, PTL

(* hardware_write tells whether an answered command touched the hardware.  *)
THEOREM FlagIsTrue == Spec => []WriteFlagIsTrue
<1>1. IInv => WriteFlagIsTrue
  BY DEF IInv, Done, WriteFlagIsTrue, Answered
<1>. QED BY Inductive, <1>1, PTL

(* Which names are refused does not depend on the machine or on the route. *)
THEOREM SameNamesEverywhere == Spec => []OnlyUnknownRefused
<1>1. IInv => OnlyUnknownRefused
  BY DEF IInv, Done, OnlyUnknownRefused, Answered
<1>. QED BY Inductive, <1>1, PTL

(* After an OK answer GetState shows what was asked for, if it shows the   *)
(* executing backend's profile at all.                                     *)
THEOREM ShownAfterSuccess == Spec => []SuccessShown
<1>1. IInv => SuccessShown
  BY DEF IInv
<1>. QED BY Inductive, <1>1, PTL

--------------------------------------------------------------------------------
(* The contract of a backend.                                              *)

(* What a name is called, whichever vocabulary it is from.                 *)
LEMMA CalledIs ==
  ASSUME NEW name
  PROVE  /\ Called(name) = None <=> name = None
         /\ name \in Known => Called(name) = ModeNamed(name)
         /\ name \in Mode => Called(name) = name
         /\ name \in KernelName => Called(Alias(name)) = Called(name)
<1>1. None \notin Known
  BY NoneIsNoName DEF Known
<1>2. ASSUME name \in KernelName PROVE Called(Alias(name)) = Called(name)
  <2>1. CASE ModeNamed(name) # None
    BY <1>2, <2>1, AliasKeepsMeaning DEF Called
  <2>2. CASE ModeNamed(name) = None
    <3>1. name \notin {"low-power", "performance"}
      BY <2>2, NoneIsNoName DEF ModeNamed, Mode
    <3>. QED BY <3>1 DEF Alias
  <2>. QED BY <2>1, <2>2
<1>. QED BY <1>1, <1>2, VocabulariesAgree, ModesAreNamed DEF Called

(* A profile is in one register of each backend.                           *)
LEMMA TouchedIs ==
  /\ platform_profile' = platform_profile => Contract!Touched \subseteq {<<"amw0", "profile">>}
  /\ ec_mode' = ec_mode => Contract!Touched \subseteq {<<"standard", "profile">>}
  /\ Contract!Touched \subseteq {"standard", "amw0"} \X TheSlot
<1>. SUFFICES ASSUME NEW r \in Contract!Touched
     PROVE  /\ r \in {"standard", "amw0"} \X TheSlot
            /\ r = <<"standard", "profile">> => platform_profile' # platform_profile
            /\ r = <<"amw0", "profile">> => ec_mode' # ec_mode
  BY DEF TheSlot
<1>1. /\ r \in {"standard", "amw0"} \X TheSlot
      /\ [standard |-> [profile |-> Called(platform_profile')],
          amw0     |-> [profile |-> ec_mode']][r[1]][r[2]]
           # [standard |-> [profile |-> Called(platform_profile)],
              amw0     |-> [profile |-> ec_mode]][r[1]][r[2]]
  BY DEF Contract!Touched, Contract!Backend, Called, ModeNamed
<1>. QED BY <1>1

(* What a command asks for, as long as it is the command.                  *)
LEMMA AskedIs ==
  ASSUME IInv, request # None
  PROVE  /\ AbstractAsked["profile"] = Called(request.name)
         /\ "profile" \in Contract!Named
         /\ Contract!Named = TheSlot
         /\ request.name \in Known => AbstractAsked["profile"] = Meant
<1>1. request \in Request /\ request.name # None
  BY ProfileRouteAssumption DEF IInv, TypeOK, Request
<1>2. AbstractAsked["profile"] = Called(request.name) /\ Called(request.name) # None
  BY <1>1, CalledIs DEF AbstractAsked
<1>3. "profile" \in Contract!Named /\ Contract!Named = TheSlot
  BY <1>2 DEF Contract!Named, TheSlot
<1>4. request.name \in Known => Called(request.name) = Meant
  BY <1>1, CalledIs, ModesAreNamed DEF Meant, Request
<1>. QED BY <1>2, <1>3, <1>4

(* A step inside a command that writes nowhere but to one backend.         *)
LEMMA RunningIs ==
  ASSUME IInv, request # None,
         UNCHANGED <<machine, request, view>>,
         overwritten' \subseteq overwritten,
         NEW backend \in {"standard", "amw0"},
         Contract!Touched \subseteq {<<backend, "profile">>},
         backend = "amw0" /\ machine.amw0 = "dry" => ec_mode' = ec_mode
  PROVE  Contract!Running
<1>1. Contract!Programming
  <2>1. CASE backend = "amw0" /\ machine.amw0 = "dry"
    BY <2>1, TouchedIs DEF Contract!Programming
  <2>2. CASE ~(backend = "amw0" /\ machine.amw0 = "dry")
    <3>1. backend \in Contract!Backend \ (IF machine.amw0 = "dry" THEN {"amw0"} ELSE {})
      BY <2>2 DEF Contract!Backend
    <3>2. Contract!Touched \subseteq {backend} \X Apart[backend]["profile"]
      BY DEF Apart, TheSlot
    <3>. QED BY <3>1, <3>2, AskedIs DEF Contract!Programming
  <2>. QED BY <2>1, <2>2
<1>2. overwritten' \X TheSlot \subseteq overwritten \X TheSlot
  OBVIOUS
<1>. QED
  BY <1>1, <1>2 DEF Contract!Running, AbstractAsked, Called, ModeNamed

LEMMA InitImplements == Init => Contract!Init
<1>. SUFFICES ASSUME Init PROVE Contract!Init
  OBVIOUS
<1>1. /\ AbstractPhase = "refresh" /\ AbstractStatus = "none"
      /\ AbstractAsked["profile"] = None
  BY DEF Init, AbstractPhase, AbstractStatus, AbstractAsked
<1>. QED BY <1>1 DEF Contract!Init, Init, TheSlot

LEMMA CallImplements ==
  ASSUME IInv, NEW r \in Request, Receive(r)
  PROVE  Contract!Call
<1>1. /\ pc = "idle" /\ pc' \in {"standard", "named", "index"}
      /\ request' = r /\ overwritten' = {}
      /\ UNCHANGED <<machine, registers, shadow, view>>
  BY DEF Receive, Routed
<1>2. r # None /\ r.name # None
  BY ProfileRouteAssumption DEF Request
<1>3. AbstractAsked'["profile"] # None
  BY <1>1, <1>2, CalledIs DEF AbstractAsked, Called, ModeNamed
<1>. QED
  BY <1>1, <1>3 DEF Contract!Call, AbstractPhase, AbstractStatus, TheSlot, Called,
     ModeNamed, registers

(* A step that takes the call on to its next stage.                        *)
LEMMA PassedOn ==
  ASSUME IInv, pc \in {"standard", "named", "index"}, pc' \in {"named", "index", "control"},
         UNCHANGED <<machine, request, view, platform_profile, ec_mode, shadow>>,
         overwritten' \subseteq overwritten
  PROVE  Contract!Write
<1>1. request # None
  BY DEF IInv, UnderWay
<1>2. Contract!Running
  BY <1>1, TouchedIs, RunningIs
<1>. QED BY <1>2 DEF Contract!Write, AbstractPhase, AbstractStatus

(* A call that fails is over: only a name that is no mode's is refused, and *)
(* that is not tried again.                                                *)
LEMMA EndsInFailure ==
  ASSUME IInv, pc \notin {"idle", "refresh"}, Contract!Running,
         NEW answer, Concluded(answer), answer.status # "OK",
         answer.status = "NOT_SUPPORTED" => request.name \notin Known,
         UNCHANGED <<request, shadow>>
  PROVE  Contract!Fail
<1>1. pc' = "refresh" /\ result' = answer
  BY DEF Concluded, Known
<1>2. request # None
  BY DEF IInv, UnderWay
<1>. QED BY <1>1, <1>2 DEF Contract!Fail, AbstractPhase, AbstractStatus

LEMMA StandardRefusesImplements ==
  ASSUME IInv, StandardRefuses
  PROVE  Contract!Write \/ Contract!Fail
<1>. DEFINE answer == [status |-> "NOT_SUPPORTED", executor |-> "standard",
                       stage |-> "write-platform-profile", hardware_write |-> FALSE]
<1>1. /\ pc = "standard" /\ KernelWants = None
      /\ UNCHANGED <<machine, request, platform_profile, ec_mode, shadow, view,
                     overwritten>>
      /\ request # None
  BY DEF StandardRefuses, untouched, registers, IInv, UnderWay
<1>2. request.name \notin Known
  BY <1>1, WantedIsMeant DEF IInv
<1>3. CASE AmwAvailable
  BY <1>1, <1>3, PassedOn DEF StandardRefuses, StandardAnswers
<1>4. CASE ~AmwAvailable
  <2>1. Contract!Running
    BY <1>1, TouchedIs, RunningIs
  <2>2. Concluded(answer)
    BY <1>4 DEF StandardRefuses, StandardAnswers
  <2>. QED BY <1>1, <1>2, <2>1, <2>2, EndsInFailure
<1>. QED BY <1>3, <1>4

LEMMA StandardWriteImplements ==
  ASSUME IInv, StandardWrite
  PROVE  Contract!Succeed
<1>1. /\ pc = "standard" /\ KernelWants # None /\ platform_profile' = KernelWants
      /\ overwritten' = overwritten \ {"standard"}
      /\ pc' = "refresh" /\ result'.status = "OK" /\ result'.executor = "standard"
      /\ UNCHANGED <<machine, request, ec_mode, shadow, view>>
      /\ request # None
  BY DEF StandardWrite, PlatformWritten, StandardAnswers, Concluded, IInv, UnderWay
<1>2. /\ request.name \in Known /\ ModeNamed(KernelWants) = Meant
      /\ KernelWants \in KernelName /\ Meant # None
  BY <1>1, WantedIsMeant DEF IInv
<1>3. Called(platform_profile') = AbstractAsked["profile"]
  BY <1>1, <1>2, AskedIs DEF Called
<1>4. Contract!Running
  BY <1>1, TouchedIs, RunningIs
<1>5. Contract!Programmed("profile")
  BY <1>1, <1>3 DEF Contract!Programmed, Called, ModeNamed
<1>6. Contract!Named \subseteq {"profile"}
  BY DEF Contract!Named, TheSlot
<1>7. \A s \in Contract!Named : "standard" \in Contract!Backend /\ Contract!Programmed(s)
  BY <1>5, <1>6 DEF Contract!Backend
<1>. QED
  BY <1>1, <1>4, <1>6, <1>7 DEF Contract!Succeed, AbstractPhase, AbstractStatus, TheSlot

LEMMA StandardWriteFailsImplements ==
  ASSUME IInv, StandardWriteFails
  PROVE  Contract!Fail
<1>. DEFINE answer == [status |-> "IO", executor |-> "standard",
                       stage |-> "write-platform-profile", hardware_write |-> FALSE]
<1>1. /\ pc = "standard" /\ Concluded(answer)
      /\ overwritten' \subseteq overwritten
      /\ UNCHANGED <<machine, request, ec_mode, shadow, view>>
      /\ request # None
  BY DEF StandardWriteFails, PlatformWritten, StandardAnswers, IInv, UnderWay
<1>2. Contract!Running
  BY <1>1, TouchedIs, RunningIs
<1>. QED BY <1>1, <1>2, EndsInFailure

LEMMA AmwNamedImplements ==
  ASSUME IInv, AmwNamed
  PROVE  Contract!Write \/ Contract!Fail
<1>. DEFINE answer == [result EXCEPT !.status = "NOT_SUPPORTED", !.executor = "amw0"]
<1>1. /\ pc = "named"
      /\ UNCHANGED <<machine, request, platform_profile, ec_mode, shadow, view,
                     overwritten>>
      /\ request # None
  BY DEF AmwNamed, untouched, registers, IInv, UnderWay
<1>2. CASE Wanted = None
  <2>1. request.name \notin Known
    BY <1>1, <1>2, WantedIsMeant DEF IInv
  <2>2. Contract!Running
    BY <1>1, TouchedIs, RunningIs
  <2>3. Concluded(answer) /\ answer.status = "NOT_SUPPORTED"
    BY <1>2 DEF AmwNamed, IInv, TypeOK, Result
  <2>. QED BY <1>1, <2>1, <2>2, <2>3, EndsInFailure
<1>3. CASE Wanted # None
  BY <1>1, <1>3, PassedOn DEF AmwNamed
<1>. QED BY <1>2, <1>3

LEMMA WriteIndexImplements ==
  ASSUME IInv, WriteIndex
  PROVE  Contract!Write
BY PassedOn DEF WriteIndex, AmwReached

LEMMA WriteControlImplements ==
  ASSUME IInv, WriteControl
  PROVE  Contract!Succeed
<1>1. /\ pc = "control" /\ pc' = "refresh"
      /\ ec_mode' = IF machine.amw0 = "real" THEN Wanted ELSE ec_mode
      /\ shadow' = Wanted /\ overwritten' = overwritten
      /\ result'.status = "OK" /\ result'.executor = "amw0"
      /\ UNCHANGED <<machine, request, platform_profile, view>>
  BY DEF WriteControl, AmwReached, Remembered, Concluded, AmwAt
<1>2. Wanted \in Mode /\ AmwAvailable /\ request # None
  BY <1>1 DEF IInv, UnderWay
<1>3. Wanted = Meant /\ request.name \in Known
  BY <1>1, <1>2, WantedIsMeant, NoneIsNoName DEF IInv
<1>4. AbstractAsked["profile"] = Wanted
  BY <1>2, <1>3, AskedIs
<1>5. Contract!Running
  BY <1>1, <1>2, TouchedIs, RunningIs
<1>6. machine.amw0 \in {"dry", "real"}
  BY <1>2, MachineType DEF IInv, AmwAvailable, Machine
<1>7. Contract!Programmed("profile")
  BY <1>1, <1>4, <1>6 DEF Contract!Programmed
<1>8. Contract!Named = {"profile"}
  BY <1>2, AskedIs DEF TheSlot
<1>9. \A s \in Contract!Named : "amw0" \in Contract!Backend /\ Contract!Programmed(s)
  BY <1>7, <1>8 DEF Contract!Backend
<1>10. AbstractPhase = "apply" /\ AbstractPhase' = "refresh" /\ AbstractStatus' = "OK"
  BY <1>1, <1>2 DEF AbstractPhase, AbstractStatus
<1>11. \A s \in TheSlot : [profile |-> shadow'][s] = AbstractAsked[s]
  BY <1>1, <1>4 DEF TheSlot
<1>. QED
  BY <1>1, <1>5, <1>8, <1>9, <1>10, <1>11 DEF Contract!Succeed, TheSlot

LEMMA AmwWriteFailsImplements ==
  ASSUME IInv, AmwWriteFails
  PROVE  Contract!Fail
<1>. DEFINE answer == [AmwAt(IF pc = "index" THEN "set-mode-index" ELSE "set-mode-control")
                         EXCEPT !.status = "IO"]
<1>1. /\ pc \in {"index", "control"} /\ machine.amw0 = "real" /\ Concluded(answer)
      /\ UNCHANGED <<machine, request, platform_profile, shadow, view>>
      /\ overwritten' \subseteq overwritten
      /\ request # None
  BY DEF AmwWriteFails, AmwReached, IInv, UnderWay
<1>2. Contract!Running
  BY <1>1, TouchedIs, RunningIs
<1>3. answer.status = "IO"
  BY DEF AmwAt
<1>. QED BY <1>1, <1>2, <1>3, EndsInFailure

LEMMA RefreshImplements ==
  ASSUME IInv, Refresh
  PROVE  Contract!Refresh
<1>1. PICK anyStandard, profile, anyAmw, live \in BOOLEAN :
         /\ live => anyAmw /\ machine.amw0 = "real"
         /\ shadow' = IF live THEN ec_mode ELSE shadow
         /\ view' = IF anyAmw THEN AmwView(live) ELSE StandardView(profile)
  BY DEF Refresh
<1>2. /\ pc = "refresh" /\ pc' = "idle"
      /\ UNCHANGED <<machine, request, platform_profile, ec_mode, result, overwritten>>
  BY DEF Refresh, registers
<1>3. /\ platform_profile \in KernelName /\ ec_mode \in Mode /\ shadow \in Mode
  BY DEF IInv, TypeOK
<1>4. \/ /\ view'.source = "standard"
         /\ Called(view'.name) = Called(platform_profile)
      \/ /\ view'.source = "amw0" /\ machine.amw0 = "real"
         /\ Called(view'.name) = ec_mode
      \/ view'.source = "cache" /\ Called(view'.name) = shadow'
      \/ view'.source = "none" /\ Called(view'.name) = None
  BY <1>1, <1>3, CalledIs DEF AmwView, StandardView
<1>5. \/ shadow' = shadow
      \/ machine.amw0 = "real" /\ shadow' = ec_mode
  BY <1>1
<1>6. AbstractPhase = "refresh" /\ AbstractPhase' = "idle"
      /\ UNCHANGED <<AbstractAsked, AbstractStatus, Called(platform_profile)>>
  BY <1>2 DEF AbstractPhase, AbstractAsked, AbstractStatus, Called, ModeNamed
<1>7. Called(view.name)' = Called(view'.name)
  BY DEF Called, ModeNamed
<1>. QED
  BY <1>2, <1>4, <1>5, <1>6, <1>7
  DEF Contract!Refresh, Contract!Answer, Contract!Backend, TheSlot

LEMMA RefreshFailsImplements ==
  ASSUME IInv, RefreshFails
  PROVE  Contract!RefreshFails
<1>1. /\ pc = "refresh" /\ pc' = "idle" /\ request # None
      /\ view' = [view EXCEPT !.source = IF view.name = None THEN "none" ELSE "cache"]
      /\ result' = [result EXCEPT !.status = IF @ = "OK" THEN "IO" ELSE @]
      /\ UNCHANGED <<machine, request, platform_profile, ec_mode, shadow, overwritten>>
  BY DEF RefreshFails, registers
<1>2. /\ view'.name = view.name
      /\ view'.source = IF view.name = None THEN "none" ELSE "cache"
      /\ result'.status # "OK" /\ result'.executor = result.executor
  BY <1>1 DEF IInv, TypeOK, Result
<1>3. Called(view.name) = None <=> view.name = None
  BY CalledIs
<1>4. /\ AbstractPhase = "refresh" /\ AbstractPhase' = "idle"
      /\ AbstractStatus \in {"OK", "failed"} /\ AbstractStatus' = "failed"
      /\ UNCHANGED <<AbstractAsked, Called(platform_profile), Called(view.name)>>
  BY <1>1, <1>2 DEF AbstractPhase, AbstractAsked, AbstractStatus, Called, ModeNamed
<1>. QED
  BY <1>1, <1>2, <1>3, <1>4 DEF Contract!RefreshFails, TheSlot

LEMMA DriftImplements ==
  ASSUME IInv, Drift
  PROVE  Contract!Drift
<1>1. /\ UNCHANGED <<machine, pc, request, shadow, result, view>>
      /\ overwritten \subseteq overwritten'
      /\ "standard" \in overwritten' \/ platform_profile' = platform_profile
      /\ "amw0" \in overwritten' \/ ec_mode' = ec_mode
  BY DEF Drift
<1>2. Contract!Touched \subseteq overwritten' \X TheSlot
  BY <1>1, TouchedIs DEF TheSlot
<1>. QED
  BY <1>1, <1>2
  DEF Contract!Drift, AbstractPhase, AbstractAsked, AbstractStatus, Called, ModeNamed

LEMMA StutterImplements ==
  ASSUME UNCHANGED vars
  PROVE  UNCHANGED Contract!vars
BY DEF vars, registers, Contract!vars, AbstractPhase, AbstractAsked, AbstractStatus,
       Called, ModeNamed

(* The converged backend keeps the contract of a backend for the profile,  *)
(* whichever way a call is routed, passed on or tried again, and whatever  *)
(* name its two backends have for it.                                      *)
THEOREM RouteKeepsContract == Spec => ImplementsContract
<1>1. ASSUME IInv, [Next]_vars PROVE [Contract!Next]_(Contract!vars)
  <2>1. CASE \E r \in Request : Receive(r)
    BY <1>1, <2>1, CallImplements DEF Contract!Next
  <2>2. CASE StandardRefuses
    BY <1>1, <2>2, StandardRefusesImplements DEF Contract!Next
  <2>3. CASE StandardWrite
    BY <1>1, <2>3, StandardWriteImplements DEF Contract!Next
  <2>4. CASE StandardWriteFails
    BY <1>1, <2>4, StandardWriteFailsImplements DEF Contract!Next
  <2>5. CASE AmwNamed
    BY <1>1, <2>5, AmwNamedImplements DEF Contract!Next
  <2>6. CASE WriteIndex
    BY <1>1, <2>6, WriteIndexImplements DEF Contract!Next
  <2>7. CASE WriteControl
    BY <1>1, <2>7, WriteControlImplements DEF Contract!Next
  <2>8. CASE AmwWriteFails
    BY <1>1, <2>8, AmwWriteFailsImplements DEF Contract!Next
  <2>9. CASE Refresh
    BY <1>1, <2>9, RefreshImplements DEF Contract!Next
  <2>10. CASE RefreshFails
    BY <1>1, <2>10, RefreshFailsImplements DEF Contract!Next
  <2>11. CASE Drift
    BY <1>1, <2>11, DriftImplements DEF Contract!Next
  <2>12. CASE UNCHANGED vars
    BY <2>12, StutterImplements
  <2>. QED BY <1>1, <2>1, <2>2, <2>3, <2>4, <2>5, <2>6, <2>7, <2>8, <2>9, <2>10, <2>11,
              <2>12 DEF Next
<1>. QED
  BY InitImplements, Inductive, <1>1, PTL
  DEF Spec, Contract!Spec, ImplementsContract

================================================================================
