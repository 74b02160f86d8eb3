---------------------------- MODULE PowerStackProofs ----------------------------
(***************************************************************************)
(* What an answer to SetPowerLimits is worth, for every set of machines,   *)
(* requests, clamps and drifts: the limits are where the executor keeps    *)
(* them, hardware_write is true, and the shadow learns nothing unwritten.  *)
(***************************************************************************)
EXTENDS PowerStack, TLAPS, WellFoundedInduction

(* The limits each leg is asked for.                                       *)
First  == IF mixed THEN Present(limits) \cap StandardField ELSE Present(limits)
Second == IF mixed THEN Present(limits) \cap AmwField ELSE Present(limits)

InPowercap(f) == <<"standard", f>> \in overwritten \/ PowercapValue(f) = limits[f]
InController(f) ==
  platform.amw0 = "real" => <<"amw0", f>> \in overwritten \/ ec[f] = limits[f]
AmwUntouched == \A f \in Field : <<"amw0", f>> \notin reached

(* What each stage of a request knows: the leg is the rest of what it was  *)
(* asked for, all before it has been written, and nothing else has.        *)
Asking ==
  pc \in {"standard", "verify", "amw0"} =>
    /\ Present(limits) # {}
    /\ \A f \in Present(leg) : leg[f] = limits[f]
    /\ mixed => AmwAvailable /\ Present(limits) \cap AmwField # {}
    /\ result.status = "OK"

InStandard ==
  pc \in {"standard", "verify"} =>
    /\ result = Answer("OK", FALSE, "standard")
    /\ Present(leg) \subseteq First
    /\ First \ Present(leg) \subseteq StandardField
    /\ AmwUntouched
    /\ pc = "standard" => Present(leg) # {}
    /\ pc = "verify" => Present(leg) = {} /\ reached # {}

InAmw0 ==
  pc = "amw0" =>
    /\ AmwAvailable
    /\ result = Answer("OK", mixed, IF mixed THEN "mixed" ELSE "amw0")
    /\ Present(leg) \subseteq Second
    /\ mixed => reached # {}
    /\ mixed => \A f \in Present(limits) \cap StandardField : InPowercap(f)
    /\ \A f \in Second \ Present(leg) : InController(f)
    /\ platform.amw0 = "real" /\ Second \ Present(leg) # {} => reached # {}
    /\ platform.amw0 = "dry" => AmwUntouched

(* What an answer promises, through the refresh.                           *)
Promise(f) ==
  /\ Executor(f) \in {"standard", "amw0"}
  /\ Executor(f) = "standard" => f \in StandardField /\ InPowercap(f)
  /\ Executor(f) = "amw0" =>
       /\ AmwAvailable
       /\ InController(f)
       /\ platform.amw0 = "dry" => AmwUntouched
       /\ pc = "refresh" => shadow[f] = limits[f]
  /\ ~result.hardware_write => <<Executor(f), f>> \notin reached

Done ==
  pc \in {"idle", "refresh"} /\ Present(limits) # {} =>
    /\ result.hardware_write => reached # {}
    /\ result.status = "OK" => \A f \in Present(limits) : Promise(f)

Typed == TypeOK /\ powercap \in [DOMAIN platform.layout -> Nat]

IInv == Typed /\ Asking /\ InStandard /\ InAmw0 /\ Done /\ SuccessShown

--------------------------------------------------------------------------------
(* The operators the model is built from.                                  *)

Below == {p \in Nat \X Nat : p[1] < p[2]}

(* Every set of naturals that is not empty has a least element.            *)
LEMMA LeastExists ==
  ASSUME NEW T, T \subseteq Nat, T # {}
  PROVE  \E x \in T : \A y \in T : x <= y
<1>1. IsWellFoundedOn(Below, Nat)
  BY NatLessThanWellFounded DEF Below, OpToRel
<1>2. PICK x \in T : \A y \in T : <<y, x>> \notin Below
  BY <1>1, WFMin
<1>3. ASSUME NEW y \in T PROVE x <= y
  <2>1. <<y, x>> \notin Below /\ x \in Nat /\ y \in Nat
    BY <1>2
  <2>. QED BY <2>1 DEF Below
<1>. QED BY <1>2, <1>3

(* Each limit has one of the two kinds.                                    *)
LEMMA FieldsSplit ==
  /\ StandardField \cup AmwField = Field
  /\ StandardField \cap AmwField = {}
<1>1. Field \subseteq {"pl1", "pl2", "pl4", "tcc_offset"}
  BY PowerStackAssumption DEF Order
<1>. QED BY <1>1 DEF StandardField, AmwField

(* What Present and Subset keep of a set of limits.                        *)
LEMMA SubsetPresent ==
  ASSUME NEW l \in Limits, NEW fields
  PROVE  /\ Present(l) \subseteq Field
         /\ Present(l) = {} <=> l = NoLimits
         /\ \A f \in Present(l) : l[f] \in Byte
         /\ Subset(l, fields) \in Limits
         /\ Present(Subset(l, fields)) = Present(l) \cap fields
         /\ \A f \in Present(l) \cap fields : Subset(l, fields)[f] = l[f]
BY PowerStackAssumption DEF Limits, Present, NoLimits, Subset

LEMMA NoneIsPresent == NoLimits \in Limits /\ Present(NoLimits) = {}
BY DEF Limits, NoLimits, Present

(* The next limit to write is one that is still to be written.             *)
LEMMA NextIsPresent ==
  ASSUME NEW l \in Limits, Present(l) # {}
  PROVE  NextField(l) \in Present(l)
<1> DEFINE Is(j) == /\ Order[j] \in Present(l)
                    /\ \A k \in 1 .. j - 1 : Order[k] \notin Present(l)
<1>1. DOMAIN Order = 1..4
  BY DEF Order
<1>2. Present(l) \subseteq {Order[1], Order[2], Order[3], Order[4]}
  <2>1. Present(l) \subseteq Field
    BY SubsetPresent
  <2>2. Field \subseteq {"pl1", "pl2", "pl4", "tcc_offset"}
    BY PowerStackAssumption DEF Order
  <2>. QED BY <2>1, <2>2 DEF Order
<1>3. \E j \in DOMAIN Order : Is(j)
  <2>1. CASE Order[1] \in Present(l)
    BY <1>1, <2>1
  <2>2. CASE Order[1] \notin Present(l) /\ Order[2] \in Present(l)
    BY <1>1, <2>2
  <2>3. CASE Order[1] \notin Present(l) /\ Order[2] \notin Present(l)
             /\ Order[3] \in Present(l)
    BY <1>1, <2>3
  <2>4. CASE Order[1] \notin Present(l) /\ Order[2] \notin Present(l)
             /\ Order[3] \notin Present(l)
    BY <1>1, <1>2, <2>4
  <2>. QED BY <2>1, <2>2, <2>3, <2>4
<1>4. Is(CHOOSE j \in DOMAIN Order : Is(j))
  BY <1>3
<1>. QED BY <1>4 DEF NextField

(* A constraint that is found is one of the zone's.                        *)
LEMMA ConstraintIsOne ==
  ASSUME platform.layout \in Seq({"long_term", "short_term"}), NEW f
  PROVE  Constraint(f) # 0 => Constraint(f) \in DOMAIN platform.layout
<1> DEFINE name == IF f = "pl1" THEN "long_term" ELSE "short_term"
           named == {i \in DOMAIN platform.layout : platform.layout[i] = name}
<1>1. named \subseteq Nat
  OBVIOUS
<1>2. CASE named # {}
  <2>1. \E i \in named : \A j \in named : i <= j
    BY <1>1, <1>2, LeastExists
  <2>2. (CHOOSE i \in named : \A j \in named : i <= j) \in named
    BY <2>1
  <2>. QED BY <1>2, <2>2 DEF Constraint
<1>3. CASE named = {}
  BY <1>3 DEF Constraint
<1>. QED BY <1>2, <1>3

(* A reading fits a byte or is absent.                                     *)
LEMMA ReadingFits ==
  ASSUME NEW h \in Nat
  PROVE  ReadWatts(h) \in Byte \cup {None}
<1> DEFINE half == (h + 1) \div 2
<1>1. half \in Nat
  OBVIOUS
<1>2. \A n \in Nat : n % ByteRange \in 0 .. ByteRange - 1
  BY PowerStackAssumption
<1>3. half % ByteRange \in Byte
  BY <1>1, <1>2 DEF Byte
<1>. QED BY <1>3 DEF ReadWatts

(* What detection can have found, and what powercap then reads.            *)
LEMMA PlatformTyped ==
  ASSUME Typed
  PROVE  /\ platform.layout \in Seq({"long_term", "short_term"})
         /\ platform.ceiling \in Nat
         /\ platform.amw0 \in {"absent", "dry", "real"}
         /\ platform.standard \in {"absent", "readonly", "writable"}
BY PowerStackAssumption DEF Typed, TypeOK, Platform

LEMMA PowercapTyped ==
  ASSUME Typed, NEW f
  PROVE  PowercapValue(f) \in Byte \cup {None}
<1>1. CASE Constraint(f) = 0
  BY <1>1 DEF PowercapValue
<1>2. CASE Constraint(f) # 0
  <2>1. powercap[Constraint(f)] \in Nat
    BY <1>2, PlatformTyped, ConstraintIsOne DEF Typed
  <2>. QED BY <1>2, <2>1, ReadingFits DEF PowercapValue
<1>. QED BY <1>1, <1>2

LEMMA AnswerTyped ==
  ASSUME NEW status \in Statuses, NEW hw \in BOOLEAN,
         NEW executor \in {"", "standard", "amw0", "mixed"}
  PROVE  Answer(status, hw, executor) \in Result
BY DEF Answer, Result

--------------------------------------------------------------------------------
(* Each action keeps the invariant.                                        *)

LEMMA InitCase == Init => IInv
<1>. SUFFICES ASSUME Init PROVE IInv
  OBVIOUS
<1>1. /\ platform \in Platforms
      /\ platform.layout \in Seq({"long_term", "short_term"})
      /\ platform.ceiling \in Nat
  BY PowerStackAssumption DEF Init, Platform
<1>2. /\ limits \in Limits /\ leg \in Limits /\ shadow \in Limits
      /\ Present(limits) = {}
  BY NoneIsPresent DEF Init
<1>3. ec \in [Field -> Byte]
  <2>1. 0 \in Byte
    BY PowerStackAssumption DEF Byte
  <2>. QED BY <2>1 DEF Init
<1>4. view \in View
  BY DEF Init, View
<1>5. result \in Result
  BY AnswerTyped DEF Init, Statuses
<1>6. powercap \in [DOMAIN platform.layout -> Nat]
  BY <1>1 DEF Init
<1>7. Typed
  BY <1>1, <1>2, <1>3, <1>4, <1>5, <1>6 DEF Typed, TypeOK, Init
<1>8. SuccessShown
  BY DEF Init, SuccessShown, Answered
<1>. QED BY <1>2, <1>7, <1>8 DEF IInv, Init, Asking, InStandard, InAmw0, Done

(* A request is routed or split.                                           *)
LEMMA SetPowerLimitsCase ==
  ASSUME IInv, NEW l \in Requests(platform), SetPowerLimits(l)
  PROVE  IInv'
<1>1. l \in Limits
  BY PowerStackAssumption DEF IInv, Typed, TypeOK
<1>2. /\ Present(l) # {} /\ Present(l) \subseteq Field
      /\ Present(Subset(l, StandardField)) = Present(l) \cap StandardField
      /\ Subset(l, StandardField) \in Limits
      /\ \A f \in Present(l) \cap StandardField : Subset(l, StandardField)[f] = l[f]
  BY <1>1, SubsetPresent DEF SetPowerLimits
<1>3. leg' \in {l, Subset(l, StandardField), NoLimits}
  BY DEF SetPowerLimits
<1>4. SplitsRequest(l) \in BOOLEAN
  BY DEF SplitsRequest
<1>5. result' \in Result
  BY AnswerTyped DEF SetPowerLimits, Statuses
<1>6. Typed'
  BY <1>1, <1>2, <1>3, <1>4, <1>5, NoneIsPresent
  DEF IInv, Typed, TypeOK, SetPowerLimits, registers
<1>7. /\ limits' = l /\ Present(limits)' = Present(l)
      /\ mixed' = SplitsRequest(l) /\ reached' = {}
      /\ platform' = platform
  BY DEF SetPowerLimits, Present
<1>8. Asking'
  <2>1. pc' \in {"standard", "amw0"} => result' = Answer("OK", FALSE, "standard")
                                         \/ result' = Answer("OK", FALSE, "amw0")
    BY DEF SetPowerLimits
  <2>2. pc' \in {"standard", "amw0"} => result'.status = "OK"
    BY <2>1 DEF Answer
  <2>3. pc' \in {"standard", "verify", "amw0"} =>
          /\ pc' \in {"standard", "amw0"}
          /\ leg' \in {l, Subset(l, StandardField)}
    BY DEF SetPowerLimits
  <2>4. leg' \in {l, Subset(l, StandardField)} =>
          \A f \in Present(leg)' : leg'[f] = l[f]
    BY <1>2 DEF Present
  <2>5. mixed' => AmwAvailable' /\ Present(l) \cap AmwField # {}
    BY <1>7 DEF SplitsRequest, AmwAvailable
  <2>. QED BY <1>2, <1>7, <2>2, <2>3, <2>4, <2>5 DEF Asking
<1>9. InStandard'
  <2>1. pc' \in {"standard", "verify"} =>
          /\ pc' = "standard" /\ result' = Answer("OK", FALSE, "standard")
          /\ leg' = IF SplitsRequest(l) THEN Subset(l, StandardField) ELSE l
    BY DEF SetPowerLimits
  <2>2. pc' = "standard" => Present(leg)' = First'
    BY <1>2, <1>7, <2>1 DEF Present, First
  <2>3. First' # {}
    BY <1>2, <1>7 DEF First, SplitsRequest
  <2>4. Answer("OK", FALSE, "standard")' = Answer("OK", FALSE, "standard")
    BY DEF Answer
  <2>. QED BY <1>7, <2>1, <2>2, <2>3, <2>4 DEF InStandard, AmwUntouched
<1>10. InAmw0'
  <2>1. pc' = "amw0" => /\ mixed' = FALSE /\ leg' = l /\ AmwAvailable
                        /\ result' = Answer("OK", FALSE, "amw0")
    BY DEF SetPowerLimits, SplitsRequest
  <2>. QED BY <2>1, <1>1, <1>2, <1>4
  DEF InAmw0, SetPowerLimits, SplitsRequest, Answer, Second, AmwUntouched, Present,
      AmwAvailable
<1>11. Done'
  <2>1. pc' = "refresh" => result' = Answer("NOT_SUPPORTED", FALSE, "")
    BY DEF SetPowerLimits
  <2>2. ASSUME pc' = "refresh"
        PROVE  result'.hardware_write = FALSE /\ result'.status # "OK"
    <3>1. result' = [status |-> "NOT_SUPPORTED", hardware_write |-> FALSE, executor |-> ""]
      BY <2>1, <2>2 DEF Answer
    <3>. QED BY <3>1
  <2>3. pc' # "idle"
    BY DEF SetPowerLimits
  <2>. QED BY <2>2, <2>3 DEF Done
<1>12. SuccessShown'
  BY DEF SuccessShown, SetPowerLimits, Answered
<1>. QED BY <1>6, <1>8, <1>9, <1>10, <1>11, <1>12 DEF IInv

(* Whatever powercap answers, the request ends, is retried or goes on with *)
(* its second half.                                                        *)
LEMMA StandardAnswersCase ==
  ASSUME IInv, pc \in {"standard", "verify"}, UNCHANGED unwritten,
         NEW status \in Statuses, NEW hw \in BOOLEAN, StandardAnswers(status, hw),
         status = "OK" <=> hw = TRUE,
         status = "OK" =>
           /\ pc = "verify"
           /\ \A f \in Present(limits) \cap StandardField : PowercapValue(f) = limits[f]
  PROVE  IInv'
<1>1. /\ limits \in Limits /\ mixed \in BOOLEAN
      /\ UNCHANGED <<platform, limits, mixed, powercap, ec, shadow, view, reached,
                     overwritten>>
  BY DEF IInv, Typed, TypeOK, unwritten, registers
<1>2. /\ Present(limits) \subseteq Field
      /\ Present(Subset(limits, AmwField)) = Present(limits) \cap AmwField
      /\ Subset(limits, AmwField) \in Limits
      /\ \A f \in Present(limits) \cap AmwField : Subset(limits, AmwField)[f] = limits[f]
  BY <1>1, SubsetPresent
<1>3. Present(limits)' = Present(limits)
  BY <1>1 DEF Present
<1>4. \A f : PowercapValue(f)' = PowercapValue(f)
  BY <1>1 DEF PowercapValue, Constraint
<1>5. /\ leg' \in Limits /\ pc' \in {"amw0", "refresh"}
      /\ result' \in Result
  <2>1. leg' \in {limits, Subset(limits, AmwField), NoLimits}
    BY DEF StandardAnswers
  <2>2. result' \in Result
    BY AnswerTyped DEF StandardAnswers, Statuses
  <2>. QED BY <1>1, <1>2, <2>1, <2>2, NoneIsPresent DEF StandardAnswers
<1>6. Typed'
  BY <1>1, <1>5 DEF IInv, Typed, TypeOK
<1>7. /\ SuccessShown' /\ InStandard'
  BY <1>5 DEF SuccessShown, Answered, InStandard
<1>8. /\ Asking /\ InStandard
  BY DEF IInv
<1>9. CASE mixed /\ status = "OK"
  <2>1. /\ pc' = "amw0" /\ leg' = Subset(limits, AmwField)
        /\ result' = Answer("OK", TRUE, "mixed")
    BY <1>9 DEF StandardAnswers
  <2>2. Asking'
    BY <1>1, <1>2, <1>3, <1>8, <1>9, <2>1
    DEF Asking, Answer, AmwAvailable, Present
  <2>3. Present(leg') = Second'
    BY <1>1, <1>2, <1>3, <1>9, <2>1 DEF Second
  <2>4. InAmw0'
    BY <1>1, <1>2, <1>3, <1>4, <1>8, <1>9, <2>1, <2>3
    DEF InAmw0, InStandard, Asking, AmwAvailable, InPowercap, AmwUntouched, Present
  <2>5. Done'
    BY <2>1 DEF Done
  <2>. QED BY <1>6, <1>7, <2>2, <2>4, <2>5 DEF IInv
<1>10. CASE ~mixed /\ status = "NOT_SUPPORTED" /\ AmwAvailable
  <2>1. /\ pc' = "amw0" /\ leg' = limits
        /\ result' = Answer("OK", FALSE, "amw0")
    BY <1>10 DEF StandardAnswers
  <2>2. Asking'
    BY <1>1, <1>3, <1>8, <1>10, <2>1 DEF Asking, Answer, Present
  <2>3. Present(leg') = Second'
    BY <1>1, <1>3, <1>10, <2>1 DEF Second, Present
  <2>4. InAmw0'
    BY <1>1, <1>3, <1>8, <1>10, <2>1, <2>3
    DEF InAmw0, InStandard, AmwAvailable, AmwUntouched, Present
  <2>5. Done'
    BY <2>1 DEF Done
  <2>. QED BY <1>6, <1>7, <2>2, <2>4, <2>5 DEF IInv
<1>11. CASE /\ ~(mixed /\ status = "OK")
            /\ ~(~mixed /\ status = "NOT_SUPPORTED" /\ AmwAvailable)
  <2>1. /\ pc' = "refresh" /\ result' = Answer(status, hw, "standard")
    BY <1>11 DEF StandardAnswers
  <2>2. Asking' /\ InAmw0'
    BY <2>1 DEF Asking, InAmw0
  <2>3. result'.hardware_write = hw /\ result'.status = status
        /\ result'.executor = "standard"
    BY <2>1 DEF Answer
  <2>4. hw => reached' # {}
    BY <1>1, <1>8 DEF InStandard
  <2>5. ASSUME status = "OK", NEW f \in Present(limits)
        PROVE  Promise(f)'
    <3>1. f \in StandardField /\ PowercapValue(f) = limits[f]
      BY <1>1, <1>8, <1>11, <2>5 DEF InStandard, First
    <3>2. Executor(f)' = "standard"
      BY <2>3 DEF Executor
    <3>3. InPowercap(f)'
      BY <1>1, <1>4, <3>1 DEF InPowercap
    <3>. QED BY <2>3, <2>5, <3>1, <3>2, <3>3 DEF Promise
  <2>6. Done'
    BY <1>3, <2>3, <2>4, <2>5 DEF Done
  <2>. QED BY <1>6, <1>7, <2>2, <2>6 DEF IInv
<1>. QED BY <1>1, <1>9, <1>10, <1>11

LEMMA StandardRefusesCase ==
  ASSUME IInv, StandardRefuses
  PROVE  IInv'
<1>1. \E status \in {"NOT_SUPPORTED", "RANGE"} : StandardAnswers(status, FALSE)
  BY DEF StandardRefuses
<1>. QED BY <1>1, StandardAnswersCase DEF StandardRefuses, Statuses

LEMMA StandardWriteFailsCase ==
  ASSUME IInv, StandardWriteFails
  PROVE  IInv'
<1>1. \E status \in {"NOT_SUPPORTED", "IO"} : StandardAnswers(status, FALSE)
  BY DEF StandardWriteFails
<1>. QED BY <1>1, StandardAnswersCase DEF StandardWriteFails, Statuses

LEMMA StandardVerifyCase ==
  ASSUME IInv, StandardVerify
  PROVE  IInv'
<1>1. CASE StandardAnswers("IO", FALSE)
  BY <1>1, StandardAnswersCase DEF StandardVerify, Statuses
<1>2. CASE /\ ~Mismatch(Present(limits) \cap StandardField)
           /\ StandardAnswers("OK", TRUE)
  BY <1>2, StandardAnswersCase DEF StandardVerify, Statuses, Mismatch
<1>. QED BY <1>1, <1>2 DEF StandardVerify

(* One constraint takes its limit.                                         *)
LEMMA StandardWriteCase ==
  ASSUME IInv, StandardWrite
  PROVE  IInv'
<1> DEFINE f    == NextField(leg)
           rest == Subset(leg, Present(leg) \ {f})
<1>1. /\ Typed /\ Asking /\ InStandard
      /\ leg \in Limits /\ limits \in Limits
      /\ Present(leg) # {}
  BY DEF IInv, Typed, TypeOK, InStandard, StandardWrite
<1>2. f \in Present(leg) /\ leg[f] \in Byte /\ f \in Field
  BY <1>1, NextIsPresent, SubsetPresent
<1>3. f \in StandardField
  BY <1>1, <1>2, FieldsSplit, SubsetPresent DEF StandardWrite, Acceptable
<1>4. /\ rest \in Limits /\ Present(rest) = Present(leg) \ {f}
      /\ \A g \in Present(rest) : rest[g] = leg[g]
      /\ Present(rest) = {} <=> rest = NoLimits
  <2>1. /\ rest \in Limits
        /\ Present(rest) = Present(leg) \cap (Present(leg) \ {f})
        /\ \A g \in Present(leg) \cap (Present(leg) \ {f}) : rest[g] = leg[g]
    BY <1>1, SubsetPresent
  <2>2. Present(rest) = {} <=> rest = NoLimits
    BY <2>1, SubsetPresent
  <2>. QED BY <2>1, <2>2
<1>. HIDE DEF rest
<1>5. /\ Constraint(f) # 0
      /\ powercap' = [powercap EXCEPT ![Constraint(f)] = Clamped(leg[f])]
      /\ reached' = reached \cup {<<"standard", f>>}
      /\ overwritten' = overwritten \ {<<"standard", f>>}
      /\ leg' = rest
      /\ pc' = IF rest = NoLimits THEN "verify" ELSE "standard"
      /\ UNCHANGED <<platform, limits, mixed, ec, shadow, result, view>>
  BY DEF StandardWrite, rest
<1>. HIDE DEF f
<1>6. Clamped(leg[f]) \in Nat
  <2>1. leg[f] \in Nat
    BY <1>2, PowerStackAssumption DEF Byte
  <2>2. platform.ceiling \in Nat
    BY <1>1, PlatformTyped
  <2>. QED BY <2>1, <2>2 DEF Clamped
<1>7. powercap' \in [DOMAIN platform.layout -> Nat]
  <2>1. powercap \in [DOMAIN platform.layout -> Nat]
    BY <1>1 DEF Typed
  <2>. QED BY <1>5, <1>6, <2>1
<1>8. Typed'
  BY <1>1, <1>2, <1>4, <1>5, <1>7 DEF Typed, TypeOK
<1>9. Present(leg)' = Present(leg) \ {f} /\ Present(limits)' = Present(limits)
      /\ First' = First
  BY <1>4, <1>5 DEF Present, First
<1>10. Asking'
  BY <1>1, <1>4, <1>5, <1>9 DEF Asking, AmwAvailable, StandardWrite
<1>11. InStandard'
  <2>1. /\ result' = Answer("OK", FALSE, "standard")
        /\ Present(leg) \subseteq First
        /\ First \ Present(leg) \subseteq StandardField
        /\ AmwUntouched
    BY <1>1, <1>5 DEF InStandard, StandardWrite
  <2>2. First' \ Present(leg)' \subseteq StandardField
    BY <1>3, <1>9, <2>1
  <2>3. AmwUntouched'
    BY <1>5, <2>1 DEF AmwUntouched
  <2>4. pc' = "standard" => Present(leg)' # {}
    BY <1>4, <1>5, <1>9
  <2>5. pc' = "verify" => Present(leg)' = {} /\ reached' # {}
    BY <1>4, <1>5, <1>9
  <2>6. Answer("OK", FALSE, "standard")' = Answer("OK", FALSE, "standard")
    BY DEF Answer
  <2>. QED BY <1>9, <2>1, <2>2, <2>3, <2>4, <2>5, <2>6 DEF InStandard
<1>12. InAmw0' /\ Done' /\ SuccessShown'
  BY <1>5 DEF InAmw0, Done, SuccessShown, Answered
<1>. QED BY <1>8, <1>10, <1>11, <1>12 DEF IInv

(* What one byte that lands changes: it holds its limit from now on, and   *)
(* nothing else is touched.                                                *)
LEMMA AmwLandsKeeps ==
  ASSUME IInv, pc = "amw0", leg # NoLimits, AmwLands(NextField(leg)),
         UNCHANGED <<platform, limits, mixed, powercap>>
  PROVE  /\ ec' \in [Field -> Byte]
         /\ reached' \subseteq {"standard", "amw0"} \X Field
         /\ overwritten' \subseteq {"standard", "amw0"} \X Field
         /\ reached \subseteq reached'
         /\ platform.amw0 = "real" => reached' # {}
         /\ platform.amw0 = "dry" => reached' = reached
         /\ \A g \in Field : g = NextField(leg) \/ InController(g) => InController(g)'
         /\ \A g : InPowercap(g) => InPowercap(g)'
<1> DEFINE f == NextField(leg)
<1>1. /\ Typed /\ Asking /\ leg \in Limits
      /\ Present(leg) # {}
  BY SubsetPresent DEF IInv, Typed, TypeOK
<1>2. f \in Present(leg) /\ leg[f] \in Byte /\ f \in Field /\ leg[f] = limits[f]
  BY <1>1, NextIsPresent, SubsetPresent DEF Asking
<1>3. /\ ec \in [Field -> Byte]
      /\ reached \subseteq {"standard", "amw0"} \X Field
      /\ overwritten \subseteq {"standard", "amw0"} \X Field
  BY <1>1 DEF Typed, TypeOK
<1>. HIDE DEF f
<1>4. \A g : PowercapValue(g)' = PowercapValue(g)
  BY DEF PowercapValue, Constraint
<1>5. CASE platform.amw0 = "real"
  <2>1. /\ ec' = [ec EXCEPT ![f] = leg[f]]
        /\ reached' = reached \cup {<<"amw0", f>>}
        /\ overwritten' = overwritten \ {<<"amw0", f>>}
    BY <1>5 DEF AmwLands, f
  <2>2. \A g : InPowercap(g) => InPowercap(g)'
    BY <1>4, <2>1 DEF InPowercap
  <2>3. \A g \in Field : g = f => InController(g)'
    BY <1>2, <1>3, <2>1 DEF InController
  <2>4. \A g \in Field : InController(g) => InController(g)'
    BY <1>2, <1>3, <2>1 DEF InController
  <2>5. ec' \in [Field -> Byte]
    BY <1>2, <1>3, <2>1
  <2>6. /\ reached' \subseteq {"standard", "amw0"} \X Field
        /\ overwritten' \subseteq {"standard", "amw0"} \X Field
    BY <1>2, <1>3, <2>1
  <2>. QED BY <1>5, <2>1, <2>2, <2>3, <2>4, <2>5, <2>6 DEF f
<1>6. CASE platform.amw0 # "real"
  <2>1. UNCHANGED <<ec, reached, overwritten>>
    BY <1>6 DEF AmwLands
  <2>. QED BY <1>3, <1>4, <1>6, <2>1 DEF InController, InPowercap
<1>. QED BY <1>5, <1>6

LEMMA AmwWriteCase ==
  ASSUME IInv, AmwWrite
  PROVE  IInv'
<1> DEFINE f    == NextField(leg)
           rest == Subset(leg, Present(leg) \ {f})
<1>1. /\ Typed /\ Asking /\ InAmw0
      /\ leg \in Limits /\ limits \in Limits
      /\ Present(leg) # {}
  BY SubsetPresent DEF IInv, Typed, TypeOK, AmwWrite
<1>2. f \in Present(leg)
  BY <1>1, NextIsPresent
<1>3. /\ rest \in Limits /\ Present(rest) = Present(leg) \ {f}
      /\ \A g \in Present(rest) : rest[g] = leg[g]
  <2>1. /\ rest \in Limits
        /\ Present(rest) = Present(leg) \cap (Present(leg) \ {f})
        /\ \A g \in Present(leg) \cap (Present(leg) \ {f}) : rest[g] = leg[g]
    BY <1>1, SubsetPresent
  <2>. QED BY <2>1
<1>. HIDE DEF rest
<1>4. /\ leg' = rest /\ pc = "amw0"
      /\ UNCHANGED <<platform, pc, limits, mixed, powercap, shadow, result, view>>
  BY DEF AmwWrite, rest
<1>5. /\ ec' \in [Field -> Byte]
      /\ reached' \subseteq {"standard", "amw0"} \X Field
      /\ overwritten' \subseteq {"standard", "amw0"} \X Field
      /\ reached \subseteq reached'
      /\ platform.amw0 = "real" => reached' # {}
      /\ platform.amw0 = "dry" => reached' = reached
      /\ \A g \in Field : g = f \/ InController(g) => InController(g)'
      /\ \A g : InPowercap(g) => InPowercap(g)'
  BY <1>4, AmwLandsKeeps DEF AmwWrite
<1>. HIDE DEF f
<1>6. Typed'
  BY <1>1, <1>3, <1>4, <1>5 DEF Typed, TypeOK
<1>7. /\ Present(leg)' = Present(leg) \ {f} /\ Present(limits)' = Present(limits)
      /\ Second' = Second
  BY <1>3, <1>4 DEF Present, Second
<1>8. Asking'
  BY <1>1, <1>3, <1>4, <1>7 DEF Asking, AmwAvailable
<1>9. InAmw0'
  <2>1. /\ AmwAvailable
        /\ result = Answer("OK", mixed, IF mixed THEN "mixed" ELSE "amw0")
        /\ Present(leg) \subseteq Second
        /\ mixed => reached # {}
        /\ mixed => \A g \in Present(limits) \cap StandardField : InPowercap(g)
        /\ \A g \in Second \ Present(leg) : InController(g)
        /\ platform.amw0 = "dry" => AmwUntouched
    BY <1>1, <1>4 DEF InAmw0
  <2>2. Second \subseteq Field
    BY <1>1, SubsetPresent DEF Second
  <2>3. \A g \in Second' \ Present(leg)' : InController(g)'
    BY <1>5, <1>7, <2>1, <2>2
  <2>4. AmwAvailable'
    BY <1>4, <2>1 DEF AmwAvailable
  <2>5. result' = Answer("OK", mixed, IF mixed THEN "mixed" ELSE "amw0")'
    BY <1>4, <2>1 DEF Answer
  <2>6. mixed' => \A g \in Present(limits)' \cap StandardField : InPowercap(g)'
    BY <1>4, <1>5, <1>7, <2>1
  <2>7. platform.amw0 = "dry" => AmwUntouched'
    BY <1>5, <2>1 DEF AmwUntouched
  <2>8. mixed' => reached' # {}
    BY <1>4, <1>5, <2>1
  <2>9. Present(leg)' \subseteq Second'
    BY <1>7, <2>1
  <2>. QED BY <1>4, <1>5, <2>3, <2>4, <2>5, <2>6, <2>7, <2>8, <2>9 DEF InAmw0
<1>10. InStandard' /\ Done' /\ SuccessShown'
  BY <1>4 DEF InStandard, Done, SuccessShown, Answered
<1>. QED BY <1>6, <1>8, <1>9, <1>10 DEF IInv

LEMMA AmwWriteFailsCase ==
  ASSUME IInv, AmwWriteFails
  PROVE  IInv'
<1>1. /\ Typed /\ InAmw0 /\ pc = "amw0" /\ leg # NoLimits
      /\ pc' = "refresh" /\ leg' = NoLimits
      /\ result' = [result EXCEPT !.status = "IO"]
      /\ UNCHANGED <<platform, limits, mixed, powercap, shadow, view>>
  BY DEF IInv, AmwWriteFails
<1>2. /\ ec' \in [Field -> Byte]
      /\ reached' \subseteq {"standard", "amw0"} \X Field
      /\ overwritten' \subseteq {"standard", "amw0"} \X Field
      /\ reached \subseteq reached'
  <2>1. CASE AmwLands(NextField(leg))
    BY <1>1, <2>1, AmwLandsKeeps
  <2>2. CASE UNCHANGED <<ec, reached, overwritten>>
    BY <1>1, <2>2 DEF Typed, TypeOK
  <2>. QED BY <2>1, <2>2 DEF AmwWriteFails
<1>3. result' \in Result /\ result'.status = "IO"
      /\ result'.hardware_write = result.hardware_write
  BY <1>1 DEF Typed, TypeOK, Result, Statuses
<1>4. Typed'
  BY <1>1, <1>2, <1>3, NoneIsPresent DEF Typed, TypeOK
<1>5. result.hardware_write = mixed /\ (mixed => reached # {})
  BY <1>1 DEF InAmw0, Answer
<1>6. Done'
  BY <1>2, <1>3, <1>5 DEF Done
<1>7. Asking' /\ InStandard' /\ InAmw0' /\ SuccessShown'
  BY <1>1 DEF Asking, InStandard, InAmw0, SuccessShown, Answered
<1>. QED BY <1>4, <1>6, <1>7 DEF IInv

(* The shadow takes over just what the controller was given.               *)
LEMMA MergedIsGiven ==
  ASSUME NEW f \in Field
  PROVE  /\ f \in Present(limits) \cap Second => MergedShadow[f] = limits[f]
         /\ f \notin Second => MergedShadow[f] = shadow[f]
BY DEF MergedShadow, Subset, Present, Second

LEMMA AmwDoneCase ==
  ASSUME IInv, AmwDone
  PROVE  IInv'
<1>1. /\ Typed /\ Asking /\ InAmw0 /\ pc = "amw0" /\ Present(leg) = {}
      /\ pc' = "refresh" /\ shadow' = MergedShadow
      /\ result' = [result EXCEPT !.hardware_write = WriteFlag]
      /\ UNCHANGED <<platform, limits, leg, mixed, powercap, ec, view, reached,
                     overwritten>>
  BY NoneIsPresent DEF IInv, AmwDone, registers
<1>2. /\ AmwAvailable
      /\ platform.amw0 \in {"dry", "real"}
      /\ result.status = "OK" /\ result.hardware_write = mixed
      /\ result.executor = IF mixed THEN "mixed" ELSE "amw0"
      /\ mixed => reached # {}
      /\ mixed => \A f \in Present(limits) \cap StandardField : InPowercap(f)
      /\ \A f \in Second : InController(f)
      /\ platform.amw0 = "real" /\ Second # {} => reached # {}
      /\ platform.amw0 = "dry" => AmwUntouched
  BY <1>1, PlatformTyped DEF InAmw0, Answer, AmwAvailable
<1>3. /\ Present(limits) # {} /\ Present(limits) \subseteq Field
      /\ Second # {} /\ Second \subseteq Present(limits)
      /\ limits \in Limits /\ shadow \in Limits /\ mixed \in BOOLEAN
  BY <1>1, SubsetPresent DEF Asking, Second, Typed, TypeOK
<1>4. WriteFlag = (mixed \/ platform.amw0 = "real")
  BY <1>2 DEF WriteFlag
<1>5. /\ result' \in Result
      /\ result'.hardware_write = (mixed \/ platform.amw0 = "real")
      /\ result'.status = "OK"
      /\ result'.executor = IF mixed THEN "mixed" ELSE "amw0"
  BY <1>1, <1>2, <1>3, <1>4 DEF Typed, TypeOK, Result
<1>6. MergedShadow \in Limits
  BY <1>3 DEF MergedShadow, Subset, Limits
<1>7. Typed'
  BY <1>1, <1>5, <1>6 DEF Typed, TypeOK
<1>8. \A f : InPowercap(f)' <=> InPowercap(f)
  BY <1>1 DEF InPowercap, PowercapValue, Constraint
<1>9. \A f : InController(f)' <=> InController(f)
  BY <1>1 DEF InController
<1>10. ASSUME NEW f \in Present(limits)
       PROVE  Promise(f)'
  <2>1. Executor(f)' = IF mixed /\ f \in StandardField THEN "standard" ELSE "amw0"
    BY <1>5 DEF Executor
  <2>2. CASE mixed /\ f \in StandardField
    <3>1. InPowercap(f)'
      BY <1>2, <1>8, <2>2
    <3>2. result'.hardware_write = TRUE
      BY <1>5, <2>2
    <3>. QED BY <2>1, <2>2, <3>1, <3>2 DEF Promise
  <2>3. CASE ~(mixed /\ f \in StandardField)
    <3>1. f \in Second /\ f \in Field
      BY <1>3, <2>3, FieldsSplit DEF Second
    <3>2. InController(f)' /\ shadow'[f] = limits'[f]
      BY <1>1, <1>2, <1>9, <3>1, MergedIsGiven
    <3>3. AmwAvailable' /\ (platform'.amw0 = "dry" => AmwUntouched')
      BY <1>1, <1>2 DEF AmwAvailable, AmwUntouched
    <3>4. ~result'.hardware_write => platform'.amw0 = "dry"
      BY <1>1, <1>2, <1>5
    <3>5. ~result'.hardware_write => <<"amw0", f>> \notin reached'
      BY <3>1, <3>3, <3>4 DEF AmwUntouched
    <3>6. Executor(f)' = "amw0"
      BY <2>1, <2>3
    <3>. QED BY <1>1, <3>2, <3>3, <3>5, <3>6 DEF Promise
  <2>. QED BY <2>2, <2>3
<1>11. Done'
  BY <1>1, <1>2, <1>3, <1>5, <1>10 DEF Done, Present
<1>12. Asking' /\ InStandard' /\ InAmw0' /\ SuccessShown'
  BY <1>1 DEF Asking, InStandard, InAmw0, SuccessShown, Answered
<1>. QED BY <1>7, <1>11, <1>12 DEF IInv

(* One value as each of the two readings would show it.                    *)
Entry == [value : Byte \cup {None}, source : {"standard", "amw0", "cache", "none"}]

LEMMA StandardEntry ==
  ASSUME Typed, NEW f \in Field, NEW s
  PROVE  /\ StandardView(s)[f] \in Entry
         /\ StandardView(s)[f].source \in {"standard", "none"}
         /\ StandardView(s)[f].source = "standard" =>
              StandardView(s)[f].value = PowercapValue(f)
<1>1. PowercapValue(f) \in Byte \cup {None}
  BY PowercapTyped
<1>2. \/ StandardView(s)[f] = [value |-> PowercapValue(f), source |-> "standard"]
      \/ StandardView(s)[f] = [value |-> None, source |-> "none"]
  BY DEF StandardView
<1>. QED BY <1>1, <1>2 DEF Entry

LEMMA AmwEntry ==
  ASSUME Typed, NEW f \in Field, NEW a
  PROVE  /\ ShadowAfterRead(a)[f] \in Byte \cup {None}
         /\ f \in AmwLive(a) => platform.amw0 = "real" /\ ShadowAfterRead(a)[f] = ec[f]
         /\ f \notin AmwLive(a) => ShadowAfterRead(a)[f] = shadow[f]
         /\ AmwView(a)[f] \in Entry
         /\ AmwView(a)[f].source \in {"amw0", "cache", "none"}
         /\ AmwView(a)[f].value = ShadowAfterRead(a)[f]
         /\ AmwView(a)[f].source = "amw0" => f \in AmwLive(a)
         /\ AmwView(a)[f].source = "cache" => f \notin AmwLive(a)
<1>1. ec[f] \in Byte /\ shadow[f] \in Byte \cup {None}
  BY DEF Typed, TypeOK, Limits
<1>2. /\ ShadowAfterRead(a)[f] = IF f \in AmwLive(a) THEN ec[f] ELSE shadow[f]
      /\ f \in AmwLive(a) => platform.amw0 = "real"
  BY DEF ShadowAfterRead, AmwLive
<1>3. ShadowAfterRead(a)[f] \in Byte \cup {None}
  BY <1>1, <1>2
<1>4. AmwView(a)[f] = [value  |-> ShadowAfterRead(a)[f],
                       source |-> IF f \in AmwLive(a) THEN "amw0"
                                  ELSE IF ShadowAfterRead(a)[f] = None THEN "none"
                                  ELSE "cache"]
  BY DEF AmwView
<1>. HIDE DEF Entry
<1>5. AmwView(a)[f] \in Entry
  BY <1>3, <1>4 DEF Entry
<1>. QED BY <1>2, <1>3, <1>4, <1>5

LEMMA RefreshCase ==
  ASSUME IInv, Refresh
  PROVE  IInv'
<1>1. /\ Typed /\ Done /\ pc = "refresh" /\ pc' = "idle"
      /\ UNCHANGED <<platform, limits, leg, mixed, powercap, ec, result, reached,
                     overwritten>>
  BY DEF IInv, Refresh, registers
<1>2. PICK s \in SUBSET StandardFound, a \in SUBSET AmwFound, amwReadOk \in BOOLEAN :
        /\ shadow' = IF AmwAvailable THEN ShadowAfterRead(a) ELSE shadow
        /\ view' = IF amwReadOk THEN Overlaid(StandardView(s), AmwView(a))
                                ELSE StandardView(s)
  BY DEF Refresh
<1>3. \A f \in Field : view'[f] \in {StandardView(s)[f], AmwView(a)[f]}
  BY <1>2 DEF Overlaid
<1>4. view' \in View
  <2>1. view' \in [Field -> Entry]
    <3>1. \A f \in Field : view'[f] \in Entry
      BY <1>1, <1>3, StandardEntry, AmwEntry
    <3>2. view' = [f \in Field |-> view'[f]]
      BY <1>2 DEF Overlaid, StandardView
    <3>. QED BY <3>1, <3>2
  <2>. QED BY <2>1 DEF View, Entry
<1>5. shadow' \in Limits
  <2>1. ShadowAfterRead(a) \in Limits
    <3>1. \A f \in Field : ShadowAfterRead(a)[f] \in Byte \cup {None}
      BY <1>1, AmwEntry
    <3>2. ShadowAfterRead(a) = [f \in Field |-> ShadowAfterRead(a)[f]]
      BY DEF ShadowAfterRead
    <3>. QED BY <3>1, <3>2 DEF Limits
  <2>2. shadow \in Limits
    BY <1>1 DEF Typed, TypeOK
  <2>. QED BY <1>2, <2>1, <2>2
<1>6. Typed'
  BY <1>1, <1>4, <1>5 DEF Typed, TypeOK
<1>7. \A f : /\ InPowercap(f)' <=> InPowercap(f)
             /\ InController(f)' <=> InController(f)
             /\ Executor(f)' = Executor(f)
             /\ Standing(f)' <=> Standing(f)
  BY <1>1 DEF InPowercap, InController, PowercapValue, Constraint, Executor, Standing
<1>8. \A f : Promise(f) => Promise(f)'
  BY <1>1, <1>7 DEF Promise, AmwAvailable, AmwUntouched
<1>9. Done'
  BY <1>1, <1>8 DEF Done, Present
<1>10. SuccessShown'
  <2>1. SUFFICES ASSUME result.status = "OK", NEW f \in Present(limits),
                        Standing(f), ShownByExecutor(f)'
                 PROVE  view'[f].value = limits[f]
    BY <1>1, <1>7 DEF SuccessShown, Present
  <2>2. Promise(f) /\ f \in Field
    BY <1>1, <2>1, SubsetPresent DEF Done, Present
  <2>3. CASE Executor(f) = "standard"
    <3>1. view'[f].source = "standard"
      BY <1>7, <2>1, <2>3 DEF ShownByExecutor
    <3>2. view'[f] = StandardView(s)[f]
      BY <1>1, <1>3, <2>2, <3>1, AmwEntry
    <3>3. PowercapValue(f) = limits[f]
      BY <2>1, <2>2, <2>3 DEF Promise, InPowercap, Standing
    <3>. QED BY <1>1, <2>2, <3>1, <3>2, <3>3, StandardEntry
  <2>4. CASE Executor(f) = "amw0"
    <3>1. view'[f].source \in {"amw0", "cache"}
      BY <1>7, <2>1, <2>4 DEF ShownByExecutor
    <3>2. view'[f] = AmwView(a)[f]
      BY <1>1, <1>3, <2>2, <3>1, StandardEntry
    <3>3. shadow[f] = limits[f] /\ InController(f)
      BY <1>1, <2>2, <2>4 DEF Promise
    <3>4. platform.amw0 = "real" => ec[f] = limits[f]
      BY <2>1, <2>4, <3>3 DEF InController, Standing
    <3>. QED BY <1>1, <2>2, <3>1, <3>2, <3>3, <3>4, AmwEntry
  <2>. QED BY <2>2, <2>3, <2>4 DEF Promise
<1>11. Asking' /\ InStandard' /\ InAmw0'
  BY <1>1 DEF Asking, InStandard, InAmw0
<1>. QED BY <1>6, <1>9, <1>10, <1>11 DEF IInv

LEMMA RefreshFailsCase ==
  ASSUME IInv, RefreshFails
  PROVE  IInv'
<1>1. /\ Typed /\ Done /\ pc = "refresh" /\ pc' = "idle"
      /\ result' = [result EXCEPT !.status = IF @ = "OK" THEN "IO" ELSE @]
      /\ UNCHANGED <<platform, limits, leg, mixed, powercap, ec, shadow, reached,
                     overwritten>>
  BY DEF IInv, RefreshFails, registers
<1>2. view' \in View
  <2>1. view \in View
    BY <1>1 DEF Typed, TypeOK
  <2>2. view' = [f \in Field |->
                   [view[f] EXCEPT !.source = IF view[f].value = None THEN "none"
                                                                     ELSE "cache"]]
    BY DEF RefreshFails
  <2>. QED BY <2>1, <2>2 DEF View
<1>3. /\ result' \in Result /\ result'.status # "OK"
      /\ result'.hardware_write = result.hardware_write
  BY <1>1 DEF Typed, TypeOK, Result, Statuses
<1>4. Typed'
  BY <1>1, <1>2, <1>3 DEF Typed, TypeOK
<1>5. Done'
  BY <1>1, <1>3 DEF Done, Present
<1>6. SuccessShown'
  BY <1>3 DEF SuccessShown
<1>7. Asking' /\ InStandard' /\ InAmw0'
  BY <1>1 DEF Asking, InStandard, InAmw0
<1>. QED BY <1>4, <1>5, <1>6, <1>7 DEF IInv

(* Firmware changes a register, and all that was promised of it is off.    *)
LEMMA DriftCase ==
  ASSUME IInv, Drift
  PROVE  IInv'
<1>1. /\ Typed
      /\ UNCHANGED <<platform, pc, limits, leg, mixed, shadow, result, view, reached>>
  BY DEF IInv, Drift
<1> DEFINE Kept ==
      /\ powercap' \in [DOMAIN platform.layout -> Nat]
      /\ ec' \in [Field -> Byte]
      /\ overwritten' \subseteq {"standard", "amw0"} \X Field
      /\ overwritten \subseteq overwritten'
      /\ \A f \in StandardField : InPowercap(f) => InPowercap(f)'
      /\ \A f \in Field : InController(f) => InController(f)'
<1>2. Kept
  <2>0. /\ powercap \in [DOMAIN platform.layout -> Nat] /\ ec \in [Field -> Byte]
        /\ overwritten \subseteq {"standard", "amw0"} \X Field
        /\ platform \in Platforms
    BY <1>1 DEF Typed, TypeOK
  <2>1. ASSUME NEW i \in DOMAIN powercap, NEW u \in PowercapDrift(platform),
               powercap' = [powercap EXCEPT ![i] = u],
               overwritten' = overwritten \cup
                 {<<"standard", f>> : f \in {g \in StandardField : Constraint(g) = i}},
               ec' = ec
        PROVE  Kept
    <3>1. powercap' \in [DOMAIN platform.layout -> Nat]
      BY <2>0, <2>1, PowerStackAssumption
    <3>2. StandardField \subseteq Field
      BY DEF StandardField
    <3>3. overwritten' \subseteq {"standard", "amw0"} \X Field
      BY <2>0, <2>1, <3>2
    <3>4. ASSUME NEW f \in StandardField, InPowercap(f)
          PROVE  InPowercap(f)'
      <4>1. CASE Constraint(f) = i
        BY <2>1, <4>1 DEF InPowercap
      <4>2. CASE Constraint(f) # i
        <5>1. Constraint(f)' = Constraint(f)
          BY <1>1 DEF Constraint
        <5>2. PowercapValue(f)' = PowercapValue(f)
          <6>1. CASE Constraint(f) = 0
            BY <5>1, <6>1 DEF PowercapValue
          <6>2. CASE Constraint(f) # 0
            <7>1. powercap'[Constraint(f)] = powercap[Constraint(f)]
              <8>1. Constraint(f) \in DOMAIN powercap
                BY <1>1, <2>0, <6>2, ConstraintIsOne, PlatformTyped
              <8>. QED BY <2>0, <2>1, <4>2, <8>1
            <7>. QED BY <5>1, <6>2, <7>1 DEF PowercapValue
          <6>. QED BY <6>1, <6>2
        <5>. QED BY <1>1, <2>1, <3>4, <5>2 DEF InPowercap
      <4>. QED BY <4>1, <4>2
    <3>5. \A f \in Field : InController(f) => InController(f)'
      BY <1>1, <2>1 DEF InController
    <3>. QED BY <2>0, <2>1, <3>1, <3>3, <3>4, <3>5
  <2>2. ASSUME NEW f \in Asked, NEW b \in EcDrift,
               ec' = [ec EXCEPT ![f] = b],
               overwritten' = overwritten \cup {<<"amw0", f>>},
               powercap' = powercap
        PROVE  Kept
    <3>1. f \in Field /\ b \in Byte
      <4>1. \A l \in Requests(platform) : Present(l) \subseteq Field
        BY DEF Present
      <4>. QED BY <2>2, <4>1, PowerStackAssumption DEF Asked
    <3>2. ec' \in [Field -> Byte]
      BY <2>0, <2>2, <3>1
    <3>3. \A g \in StandardField : InPowercap(g) => InPowercap(g)'
      BY <1>1, <2>2 DEF InPowercap, PowercapValue, Constraint
    <3>4. \A g \in Field : InController(g) => InController(g)'
      BY <1>1, <2>0, <2>2 DEF InController
    <3>5. overwritten' \subseteq {"standard", "amw0"} \X Field
      BY <2>0, <2>2, <3>1
    <3>. QED BY <2>0, <2>2, <3>2, <3>3, <3>4, <3>5
  <2>. QED BY <2>1, <2>2 DEF Drift
<1>3. Typed'
  BY <1>1, <1>2 DEF Typed, TypeOK
<1>4. /\ Present(limits)' = Present(limits) /\ Present(leg)' = Present(leg)
      /\ First' = First /\ Second' = Second
      /\ AmwUntouched' = AmwUntouched /\ AmwAvailable' = AmwAvailable
      /\ \A f : Executor(f)' = Executor(f)
  BY <1>1 DEF Present, First, Second, AmwUntouched, AmwAvailable, Executor
<1>5. Asking' /\ InStandard'
  BY <1>1, <1>4 DEF IInv, Asking, InStandard, Answer
<1>6. InAmw0'
  <2>1. Second \subseteq Field
    BY <1>1, SubsetPresent DEF Second, Typed, TypeOK
  <2>. QED BY <1>1, <1>2, <1>4, <2>1 DEF IInv, InAmw0, Answer
<1>7. Done'
  <2>1. \A f \in Field : Promise(f) => Promise(f)'
    BY <1>1, <1>2, <1>4 DEF Promise
  <2>. QED BY <1>1, <1>4, <2>1, SubsetPresent DEF IInv, Done, Typed, TypeOK
<1>8. SuccessShown'
  <2>1. \A f : Standing(f)' => Standing(f)
    BY <1>2, <1>4 DEF Standing
  <2>2. \A f : ShownByExecutor(f)' <=> ShownByExecutor(f)
    BY <1>1, <1>4 DEF ShownByExecutor
  <2>. QED BY <1>1, <1>4, <2>1, <2>2 DEF IInv, SuccessShown, Answered
<1>. QED BY <1>3, <1>5, <1>6, <1>7, <1>8 DEF IInv

LEMMA StutterCase ==
  ASSUME IInv, UNCHANGED vars
  PROVE  IInv'
<1>1. UNCHANGED <<platform, pc, limits, leg, mixed, powercap, ec, shadow, result, view,
                  reached, overwritten>>
  BY DEF vars, registers
<1>2. /\ Present(limits)' = Present(limits) /\ Present(leg)' = Present(leg)
      /\ First' = First /\ Second' = Second
      /\ AmwUntouched' = AmwUntouched /\ AmwAvailable' = AmwAvailable
      /\ \A f : /\ Executor(f)' = Executor(f)
                /\ PowercapValue(f)' = PowercapValue(f)
                /\ Standing(f)' <=> Standing(f)
                /\ ShownByExecutor(f)' <=> ShownByExecutor(f)
  BY <1>1
  DEF Present, First, Second, AmwUntouched, AmwAvailable, Executor, PowercapValue,
      Constraint, Standing, ShownByExecutor
<1>3. \A f : /\ InPowercap(f)' <=> InPowercap(f)
             /\ InController(f)' <=> InController(f)
  BY <1>1, <1>2 DEF InPowercap, InController
<1>4. Typed'
  BY <1>1 DEF IInv, Typed, TypeOK
<1>5. Asking' /\ InStandard'
  BY <1>1, <1>2 DEF IInv, Asking, InStandard, Answer
<1>6. InAmw0'
  BY <1>1, <1>2, <1>3 DEF IInv, InAmw0, Answer
<1>7. \A f : Promise(f) => Promise(f)'
  BY <1>1, <1>2, <1>3 DEF Promise
<1>8. Done'
  BY <1>1, <1>2, <1>7 DEF IInv, Done
<1>9. SuccessShown'
  BY <1>1, <1>2 DEF IInv, SuccessShown, Answered
<1>. QED BY <1>4, <1>5, <1>6, <1>8, <1>9 DEF IInv

--------------------------------------------------------------------------------
(* The invariant, and what follows from it.                                *)

(* In every reachable state, between requests and inside them.             *)
THEOREM Inductive == Spec => []IInv
<1>1. IInv /\ [Next]_vars => IInv'
  <2>. SUFFICES ASSUME IInv, [Next]_vars PROVE IInv'
    OBVIOUS
  <2>1. CASE UNCHANGED vars
    BY <2>1, StutterCase
  <2>2. CASE \E l \in Requests(platform) : SetPowerLimits(l)
    BY <2>2, SetPowerLimitsCase
  <2>3. CASE Drift
    BY <2>3, DriftCase
  <2>4. CASE StandardRefuses
    BY <2>4, StandardRefusesCase
  <2>5. CASE StandardWrite
    BY <2>5, StandardWriteCase
  <2>6. CASE StandardWriteFails
    BY <2>6, StandardWriteFailsCase
  <2>7. CASE StandardVerify
    BY <2>7, StandardVerifyCase
  <2>8. CASE AmwWrite
    BY <2>8, AmwWriteCase
  <2>9. CASE AmwWriteFails
    BY <2>9, AmwWriteFailsCase
  <2>10. CASE AmwDone
    BY <2>10, AmwDoneCase
  <2>11. CASE Refresh
    BY <2>11, RefreshCase
  <2>12. CASE RefreshFails
    BY <2>12, RefreshFailsCase
  <2>. QED
    BY <2>1, <2>2, <2>3, <2>4, <2>5, <2>6, <2>7, <2>8, <2>9, <2>10, <2>11, <2>12
    DEF Next, Step
<1>. QED BY <1>1, InitCase, PTL DEF Spec

(* Every machine, request and register keeps its type: no limit that is    *)
(* read back, clamped or merged leaves a byte.                             *)
THEOREM LimitTypes == Spec => []TypeOK
<1>1. IInv => TypeOK
  BY DEF IInv, Typed
<1>. QED BY <1>1, Inductive, PTL

(* Whichever route, split or retry answered OK, every limit it names is in *)
(* the registers of the backend it names for it, unless firmware changed   *)
(* it since: converged_apply_power_limits.                                 *)
THEOREM LimitsProgrammed == Spec => []DoneIsProgrammed
<1>1. ASSUME IInv PROVE DoneIsProgrammed
  <2>. SUFFICES ASSUME Answered, result.status = "OK", NEW f \in Present(limits)
                PROVE  \/ Executor(f) = "standard"
                          /\ (Standing(f) => PowercapValue(f) = limits[f])
                       \/ Executor(f) = "amw0" /\ platform.amw0 = "real"
                          /\ (Standing(f) => ec[f] = limits[f])
                       \/ Executor(f) = "amw0" /\ platform.amw0 = "dry"
                          /\ <<"amw0", f>> \notin reached
    BY DEF DoneIsProgrammed
  <2>1. Typed /\ Promise(f) /\ f \in Field
    BY <1>1 DEF IInv, Done, Answered, Present
  <2>2. CASE Executor(f) = "standard"
    BY <2>1, <2>2 DEF Promise, InPowercap, Standing
  <2>3. CASE Executor(f) = "amw0"
    <3>1. platform.amw0 \in {"dry", "real"}
      BY <2>1, <2>3, PlatformTyped DEF Promise, AmwAvailable
    <3>. QED BY <2>1, <2>3, <3>1 DEF Promise, InController, Standing, AmwUntouched
  <2>. QED BY <2>1, <2>2, <2>3 DEF Promise
<1>. QED BY <1>1, Inductive, PTL

(* hardware_write is true only when a register was written, and an OK      *)
(* answer with false wrote nothing where it says the limits went.          *)
THEOREM LimitFlagTrue == Spec => []WriteFlagIsTrue
<1>1. ASSUME IInv PROVE WriteFlagIsTrue
  <2>1. Answered => Present(limits) # {}
    BY <1>1, SubsetPresent DEF Answered, IInv, Typed, TypeOK
  <2>2. Answered => result.hardware_write \in BOOLEAN
    BY <1>1 DEF IInv, Typed, TypeOK, Result
  <2>. QED BY <1>1, <2>1, <2>2 DEF WriteFlagIsTrue, IInv, Done, Promise, Answered
<1>. QED BY <1>1, Inductive, PTL

(* After an OK answer a limit shown from the backend that executed it is   *)
(* the one asked for: overlay_amw0_state never brings an old one back.     *)
THEOREM LimitsShown == Spec => []SuccessShown
<1>1. IInv => SuccessShown
  BY DEF IInv
<1>. QED BY <1>1, Inductive, PTL

(* amw0's shadow learns a limit only from its register or from a request   *)
(* that was written in full: amw0_apply_power_limits, amw0_read_state.     *)
THEOREM ShadowKept == Spec => ShadowFollowsHardware
<1>1. ASSUME IInv, [Next]_vars
      PROVE  [\A f \in Field :
                \/ shadow'[f] = shadow[f] \/ shadow'[f] = ec[f]
                \/ platform.amw0 = "dry" \/ <<"amw0", f>> \in overwritten]_vars
  <2>. SUFFICES ASSUME shadow' # shadow, NEW f \in Field
                PROVE  \/ shadow'[f] = shadow[f] \/ shadow'[f] = ec[f]
                       \/ platform.amw0 = "dry" \/ <<"amw0", f>> \in overwritten
    OBVIOUS
  <2>1. Typed
    BY <1>1 DEF IInv
  <2>2. CASE AmwDone
    <3>1. /\ pc = "amw0" /\ Present(leg) = {} /\ shadow' = MergedShadow
          /\ InAmw0
      BY <1>1, <2>2, NoneIsPresent DEF AmwDone, IInv
    <3>2. CASE f \in Second
      <4>1. f \in Present(limits) /\ InController(f)
        BY <3>1, <3>2 DEF InAmw0, Second
      <4>2. shadow'[f] = limits[f]
        BY <3>1, <3>2, <4>1, MergedIsGiven
      <4>3. platform.amw0 \in {"dry", "real"}
        BY <2>1, <3>1, PlatformTyped DEF InAmw0, AmwAvailable
      <4>. QED BY <4>1, <4>2, <4>3 DEF InController
    <3>3. CASE f \notin Second
      BY <3>1, <3>3, MergedIsGiven
    <3>. QED BY <3>2, <3>3
  <2>3. CASE Refresh
    <3>1. \E a : shadow' = ShadowAfterRead(a) \/ shadow' = shadow
      BY <2>3 DEF Refresh
    <3>. QED BY <2>1, <3>1, AmwEntry
  <2>4. CASE ~AmwDone /\ ~Refresh
    <3>1. CASE UNCHANGED vars
      BY <3>1 DEF vars
    <3>2. CASE \E l \in Requests(platform) : SetPowerLimits(l)
      BY <3>2 DEF SetPowerLimits
    <3>3. CASE StandardRefuses \/ StandardWriteFails \/ StandardVerify
      BY <3>3 DEF StandardRefuses, StandardWriteFails, StandardVerify, unwritten
    <3>4. CASE StandardWrite
      BY <3>4 DEF StandardWrite
    <3>5. CASE AmwWrite \/ AmwWriteFails \/ RefreshFails \/ Drift
      BY <3>5 DEF AmwWrite, AmwWriteFails, RefreshFails, Drift
    <3>. QED BY <1>1, <2>4, <3>1, <3>2, <3>3, <3>4, <3>5 DEF Next, Step
  <2>. QED BY <2>2, <2>3, <2>4
<1>. QED BY <1>1, Inductive, PTL DEF Spec, ShadowFollowsHardware

--------------------------------------------------------------------------------
(* The contract of a backend.                                              *)

(* A register that changes is a constraint's or a byte of the controller.  *)
LEMMA TouchedIs ==
  ASSUME NEW r \in Contract!Touched
  PROVE  /\ r \in Contract!Backend \X Field
         /\ r[1] = "standard" =>
              r[2] \in StandardField /\ PowercapValue(r[2])' # PowercapValue(r[2])
         /\ r[1] = "amw0" => ec'[r[2]] # ec[r[2]]
<1>. DEFINE Kept == [f \in Field |-> IF f \in StandardField THEN PowercapValue(f) ELSE None]
<1>1. /\ r \in Contract!Backend \X Field
      /\ [standard |-> Kept', amw0 |-> ec'][r[1]][r[2]]
           # [standard |-> Kept, amw0 |-> ec][r[1]][r[2]]
  BY DEF Contract!Touched
<1>2. r[2] \in Field
  BY <1>1
<1>3. CASE r[1] = "standard"
  <2>1. Kept'[r[2]] # Kept[r[2]]
    BY <1>1, <1>3
  <2>. QED BY <1>1, <1>2, <1>3, <2>1
<1>4. CASE r[1] = "amw0"
  BY <1>1, <1>4
<1>. QED BY <1>1, <1>3, <1>4 DEF Contract!Backend

LEMMA UntouchedIs ==
  UNCHANGED <<platform, powercap, ec>> => Contract!Touched = {}
<1>. SUFFICES ASSUME UNCHANGED <<platform, powercap, ec>>, NEW r \in Contract!Touched
              PROVE  FALSE
  OBVIOUS
<1>1. PowercapValue(r[2])' = PowercapValue(r[2])
  BY DEF PowercapValue, Constraint
<1>. QED BY <1>1, TouchedIs DEF Contract!Backend

(* The limits the last request names.                                      *)
LEMMA NamedIs == Contract!Named = Present(limits)
BY DEF Contract!Named, Present

(* A step inside a request that changes no register.                       *)
LEMMA QuietIs ==
  ASSUME UNCHANGED <<platform, limits, powercap, ec, view>>,
         overwritten' \subseteq overwritten
  PROVE  Contract!Running
BY UntouchedIs DEF Contract!Running, Contract!Programming

LEMMA InitImplements == Init => Contract!Init
<1>. SUFFICES ASSUME Init PROVE Contract!Init
  OBVIOUS
<1>1. AbstractPhase = "idle" /\ AbstractStatus = "none"
  BY DEF Init, AbstractPhase, AbstractStatus
<1>. QED BY <1>1 DEF Contract!Init, Init, NoLimits

LEMMA CallImplements ==
  ASSUME IInv, NEW l \in Requests(platform), SetPowerLimits(l)
  PROVE  Contract!Call
<1>1. /\ pc = "idle" /\ Present(l) # {} /\ limits' = l /\ overwritten' = {}
      /\ UNCHANGED <<platform, powercap, ec, shadow, view>>
  BY DEF SetPowerLimits, registers
<1>2. l \in Limits
  BY PowerStackAssumption DEF IInv, Typed, TypeOK
<1>3. limits' # NoLimits
  BY <1>1, <1>2, SubsetPresent
<1>4. \/ AbstractPhase' = "apply" /\ AbstractStatus' = "none"
      \/ AbstractPhase' = "refresh" /\ AbstractStatus' = "failed"
  <2>1. CASE pc' \in {"standard", "amw0"}
    BY <2>1 DEF AbstractPhase, AbstractStatus
  <2>2. CASE pc' = "refresh"
    <3>1. result' = Answer("NOT_SUPPORTED", FALSE, "")
      BY <2>2 DEF SetPowerLimits
    <3>2. result'.status # "OK"
      BY <3>1 DEF Answer
    <3>. QED BY <1>3, <2>2, <3>2 DEF AbstractPhase, AbstractStatus
  <2>. QED BY <2>1, <2>2 DEF SetPowerLimits
<1>5. \E f \in Field : limits'[f] # None
  BY <1>1 DEF Present
<1>6. \A f : PowercapValue(f)' = PowercapValue(f)
  BY <1>1 DEF PowercapValue, Constraint
<1>7. AbstractPhase = "idle"
  BY <1>1 DEF AbstractPhase
<1>. QED BY <1>1, <1>4, <1>5, <1>6, <1>7 DEF Contract!Call

(* What the invariant promises of an OK is what the contract asks of it.   *)
LEMMA PromiseIsProgrammed ==
  ASSUME IInv', pc' = "refresh", result'.status = "OK", UNCHANGED <<platform, limits>>,
         NEW f \in Present(limits)
  PROVE  Executor(f)' \in Contract!Backend /\ Contract!Programmed(f)
<1>1. Promise(f)' /\ f \in Field
  BY DEF IInv, Done, Present
<1>2. CASE Executor(f)' = "standard"
  <2>1. f \in StandardField /\ (<<"standard", f>> \in overwritten' \/ PowercapValue(f)' = limits[f])
    BY <1>1, <1>2 DEF Promise, InPowercap
  <2>. QED BY <1>1, <1>2, <2>1 DEF Contract!Programmed, Contract!Backend
<1>3. CASE Executor(f)' = "amw0"
  <2>1. platform.amw0 \in {"dry", "real"}
    <3>1. platform.amw0 \in {"absent", "dry", "real"}
      BY PowerStackAssumption DEF IInv, Typed, TypeOK, Platform
    <3>. QED BY <1>1, <1>3, <3>1 DEF Promise, AmwAvailable
  <2>2. platform.amw0 = "real" => <<"amw0", f>> \in overwritten' \/ ec'[f] = limits[f]
    BY <1>1, <1>3 DEF Promise, InController
  <2>. QED BY <1>1, <1>3, <2>1, <2>2 DEF Contract!Programmed, Contract!Backend
<1>. QED BY <1>1, <1>2, <1>3 DEF Promise

(* How a request that is under way ends.                                   *)
LEMMA EndsInSuccess ==
  ASSUME IInv, IInv', pc \in {"standard", "verify", "amw0"}, pc' = "refresh",
         result'.status = "OK", Contract!Running, UNCHANGED <<platform, limits>>,
         \A f \in Field : IF f \in Present(limits) /\ Executor(f)' = "amw0"
                          THEN shadow'[f] = limits[f] ELSE shadow'[f] = shadow[f]
  PROVE  Contract!Succeed
<1>1. limits # NoLimits
  BY SubsetPresent DEF IInv, Asking, Typed, TypeOK
<1>2. AbstractPhase = "apply" /\ AbstractPhase' = "refresh" /\ AbstractStatus' = "OK"
  BY <1>1 DEF AbstractPhase, AbstractStatus
<1>3. \A f \in Present(limits) : f \in Field /\ Executor(f)' \in Contract!Backend
                                 /\ Contract!Programmed(f)
  BY PromiseIsProgrammed DEF Present
<1>. QED BY <1>2, <1>3, NamedIs DEF Contract!Succeed

LEMMA EndsInFailure ==
  ASSUME IInv, pc \in {"standard", "verify", "amw0"}, pc' = "refresh",
         result'.status # "OK", Contract!Running, UNCHANGED <<limits, shadow>>
  PROVE  Contract!Fail
<1>1. limits # NoLimits
  BY SubsetPresent DEF IInv, Asking, Typed, TypeOK
<1>. QED BY <1>1 DEF Contract!Fail, AbstractPhase, AbstractStatus

LEMMA StandardAnswersImplements ==
  ASSUME IInv, IInv', pc \in {"standard", "verify"}, UNCHANGED unwritten,
         NEW status \in Statuses, NEW hw \in BOOLEAN, StandardAnswers(status, hw)
  PROVE  Contract!Write \/ Contract!Succeed \/ Contract!Fail
<1>1. UNCHANGED <<platform, limits, powercap, ec, shadow, view, overwritten>>
  BY DEF unwritten, registers
<1>2. Contract!Running
  BY <1>1, QuietIs
<1>3. CASE pc' = "amw0"
  BY <1>1, <1>2, <1>3 DEF Contract!Write, AbstractPhase, AbstractStatus
<1>4. CASE pc' # "amw0"
  <2>1. pc' = "refresh" /\ result' = Answer(status, hw, "standard")
    BY <1>4 DEF StandardAnswers
  <2>2. result'.executor = "standard"
    BY <2>1 DEF Answer
  <2>3. \A f \in Field : Executor(f)' = "standard"
    BY <2>2 DEF Executor
  <2>4. CASE result'.status = "OK"
    BY <1>1, <1>2, <2>1, <2>3, <2>4, EndsInSuccess
  <2>5. CASE result'.status # "OK"
    BY <1>1, <1>2, <2>1, <2>5, EndsInFailure
  <2>. QED BY <2>4, <2>5
<1>. QED BY <1>3, <1>4

(* What powercap answers at any of its steps.                              *)
LEMMA StandardImplements ==
  ASSUME IInv, IInv', StandardRefuses \/ StandardWriteFails \/ StandardVerify
  PROVE  Contract!Write \/ Contract!Succeed \/ Contract!Fail
<1>1. /\ pc \in {"standard", "verify"} /\ UNCHANGED unwritten
      /\ \E status \in Statuses, hw \in BOOLEAN : StandardAnswers(status, hw)
  BY DEF StandardRefuses, StandardWriteFails, StandardVerify, Statuses
<1>. QED BY <1>1, StandardAnswersImplements

LEMMA StandardWriteImplements ==
  ASSUME IInv, StandardWrite
  PROVE  Contract!Write
<1>. DEFINE f == NextField(leg)
<1>1. /\ Typed /\ Asking /\ InStandard /\ leg \in Limits /\ Present(leg) # {}
  BY DEF IInv, Typed, TypeOK, InStandard, StandardWrite
<1>2. f \in Present(leg)
  BY <1>1, NextIsPresent
<1>3. f \in StandardField /\ f \in Present(limits)
  <2>1. f \in StandardField
    BY <1>1, <1>2, FieldsSplit, SubsetPresent DEF StandardWrite, Acceptable
  <2>2. leg[f] = limits[f] /\ leg[f] # None /\ f \in Field
    BY <1>1, <1>2 DEF Asking, StandardWrite, Present
  <2>. QED BY <2>1, <2>2 DEF Present
<1>4. /\ powercap' = [powercap EXCEPT ![Constraint(f)] = Clamped(leg[f])]
      /\ overwritten' \subseteq overwritten
      /\ pc = "standard" /\ pc' \in {"standard", "verify"}
      /\ UNCHANGED <<platform, limits, ec, shadow, view>>
  BY DEF StandardWrite
<1>. HIDE DEF f
<1>5. ASSUME NEW r \in Contract!Touched
      PROVE  r \in {"standard"} \X Neighbours(f)
  <2>1. /\ r \in Contract!Backend \X Field /\ r[1] = "standard"
        /\ r[2] \in StandardField /\ PowercapValue(r[2])' # PowercapValue(r[2])
    BY <1>4, TouchedIs DEF Contract!Backend
  <2>2. Constraint(r[2])' = Constraint(r[2])
    BY <1>4 DEF Constraint
  <2>3. Constraint(r[2]) = Constraint(f)
    <3>1. SUFFICES ASSUME Constraint(r[2]) # Constraint(f)
                   PROVE  PowercapValue(r[2])' = PowercapValue(r[2])
      BY <2>1
    <3>2. CASE Constraint(r[2]) = 0
      BY <2>2, <3>2 DEF PowercapValue
    <3>3. CASE Constraint(r[2]) # 0
      <4>1. Constraint(r[2]) \in DOMAIN powercap
        BY <1>1, <3>3, ConstraintIsOne, PlatformTyped DEF Typed
      <4>2. powercap'[Constraint(r[2])] = powercap[Constraint(r[2])]
        BY <1>1, <1>4, <3>1, <4>1 DEF Typed
      <4>. QED BY <2>2, <3>3, <4>2 DEF PowercapValue
    <3>. QED BY <3>2, <3>3
  <2>. QED BY <1>3, <2>1, <2>3 DEF Neighbours
<1>6. Contract!Programming
  <2>1. f \in Contract!Named /\ f \in Field
    BY <1>3, NamedIs DEF Present
  <2>2. "standard" \in Contract!Backend \ (IF platform.amw0 = "dry" THEN {"amw0"} ELSE {})
    BY DEF Contract!Backend
  <2>. QED BY <1>5, <2>1, <2>2 DEF Contract!Programming
<1>7. Contract!Running
  BY <1>4, <1>6 DEF Contract!Running
<1>. QED BY <1>4, <1>7 DEF Contract!Write, AbstractPhase, AbstractStatus

(* The one byte that lands is that of a limit the request names.           *)
LEMMA AmwLandsImplements ==
  ASSUME IInv, pc = "amw0", leg # NoLimits,
         AmwLands(NextField(leg)) \/ UNCHANGED <<ec, overwritten>>,
         UNCHANGED <<platform, limits, powercap, view>>
  PROVE  Contract!Running
<1>. DEFINE f == NextField(leg)
<1>1. CASE UNCHANGED <<ec, overwritten>>
  BY <1>1, QuietIs
<1>2. CASE platform.amw0 # "real" /\ AmwLands(f)
  BY <1>2, QuietIs DEF AmwLands
<1>3. CASE platform.amw0 = "real" /\ AmwLands(f)
  <2>1. /\ Asking /\ leg \in Limits /\ Present(leg) # {} /\ ec \in [Field -> Byte]
    BY SubsetPresent DEF IInv, Typed, TypeOK
  <2>2. f \in Present(leg)
    BY <2>1, NextIsPresent
  <2>3. f \in Field /\ f \in Contract!Named
    BY <2>1, <2>2, NamedIs DEF Asking, Present
  <2>. HIDE DEF f
  <2>4. ec' = [ec EXCEPT ![f] = leg[f]] /\ overwritten' \subseteq overwritten
    BY <1>3 DEF AmwLands
  <2>5. \A g : PowercapValue(g)' = PowercapValue(g)
    BY DEF PowercapValue, Constraint
  <2>6. \A r \in Contract!Touched : r \in {"amw0"} \X {f}
    BY <2>1, <2>4, <2>5, TouchedIs DEF Contract!Backend
  <2>7. Contract!Programming
    BY <1>3, <2>3, <2>6 DEF Contract!Programming, Contract!Backend
  <2>. QED BY <2>4, <2>7 DEF Contract!Running
<1>. QED BY <1>1, <1>2, <1>3

LEMMA AmwWriteImplements ==
  ASSUME IInv, AmwWrite
  PROVE  Contract!Write
<1>1. Contract!Running
  BY AmwLandsImplements DEF AmwWrite
<1>. QED BY <1>1 DEF AmwWrite, Contract!Write, AbstractPhase, AbstractStatus

LEMMA AmwWriteFailsImplements ==
  ASSUME IInv, AmwWriteFails
  PROVE  Contract!Fail
<1>1. Contract!Running
  BY AmwLandsImplements DEF AmwWriteFails
<1>2. result'.status # "OK"
  BY DEF AmwWriteFails, IInv, Typed, TypeOK, Result
<1>. QED BY <1>1, <1>2, EndsInFailure DEF AmwWriteFails

LEMMA AmwDoneImplements ==
  ASSUME IInv, IInv', AmwDone
  PROVE  Contract!Succeed
<1>1. /\ pc = "amw0" /\ pc' = "refresh" /\ shadow' = MergedShadow
      /\ UNCHANGED <<platform, limits, mixed, powercap, ec, view, overwritten>>
  BY DEF AmwDone, registers
<1>2. /\ result.status = "OK" /\ result.executor = IF mixed THEN "mixed" ELSE "amw0"
      /\ mixed \in BOOLEAN
  BY <1>1 DEF IInv, InAmw0, Answer, Typed, TypeOK
<1>3. result'.status = "OK" /\ result'.executor = result.executor
  BY <1>2 DEF AmwDone, IInv, Typed, TypeOK, Result
<1>4. ASSUME NEW f \in Field
      PROVE  IF f \in Present(limits) /\ Executor(f)' = "amw0"
             THEN shadow'[f] = limits[f] ELSE shadow'[f] = shadow[f]
  <2>1. Executor(f)' = IF mixed /\ f \in StandardField THEN "standard" ELSE "amw0"
    BY <1>2, <1>3 DEF Executor
  <2>2. f \in Second <=> f \in Present(limits) /\ Executor(f)' = "amw0"
    BY <2>1, FieldsSplit DEF Second
  <2>. QED BY <1>1, <2>2, MergedIsGiven
<1>5. Contract!Running
  BY <1>1, QuietIs
<1>. QED BY <1>1, <1>3, <1>4, <1>5, EndsInSuccess

LEMMA RefreshImplements ==
  ASSUME IInv, Refresh
  PROVE  Contract!Refresh
<1>1. /\ Typed /\ pc = "refresh" /\ pc' = "idle"
      /\ UNCHANGED <<platform, limits, powercap, ec, result, overwritten>>
  BY DEF IInv, Refresh, registers
<1>2. PICK s \in SUBSET StandardFound, a \in SUBSET AmwFound, amwReadOk \in BOOLEAN :
        /\ amwReadOk => AmwAvailable
        /\ shadow' = IF AmwAvailable THEN ShadowAfterRead(a) ELSE shadow
        /\ view' = IF amwReadOk THEN Overlaid(StandardView(s), AmwView(a))
                                ELSE StandardView(s)
  BY DEF Refresh
<1>3. ASSUME NEW f \in Field
      PROVE  \/ shadow'[f] = shadow[f]
             \/ platform.amw0 # "dry" /\ shadow'[f] = ec[f]
  BY <1>1, <1>2, AmwEntry
<1>4. ASSUME NEW f \in Field
      PROVE  \/ /\ view'[f].source = "standard" /\ f \in StandardField
                /\ view'[f].value = PowercapValue(f)
             \/ /\ view'[f].source = "amw0" /\ platform.amw0 # "dry"
                /\ view'[f].value = ec[f]
             \/ view'[f].source = "cache" /\ view'[f].value = shadow'[f]
             \/ view'[f].source = "none" /\ view'[f].value = None
  <2>1. CASE view'[f] = StandardView(s)[f]
    BY <2>1 DEF StandardView
  <2>2. CASE amwReadOk /\ view'[f] = AmwView(a)[f]
    <3>1. shadow' = ShadowAfterRead(a)
      BY <1>2, <2>2
    <3>2. AmwView(a)[f].source = "none" => AmwView(a)[f].value = None
      BY DEF AmwView
    <3>. QED BY <1>1, <2>2, <3>1, <3>2, AmwEntry
  <2>. QED BY <1>2, <2>1, <2>2 DEF Overlaid
<1>5. \A f : PowercapValue(f)' = PowercapValue(f) /\ Executor(f)' = Executor(f)
  BY <1>1 DEF PowercapValue, Constraint, Executor
<1>6. AbstractPhase = "refresh" /\ AbstractPhase' = "idle"
      /\ AbstractStatus' = AbstractStatus
  BY <1>1 DEF AbstractPhase, AbstractStatus, NoLimits
<1>. QED
  BY <1>1, <1>3, <1>4, <1>5, <1>6
  DEF Contract!Refresh, Contract!Answer, Contract!Backend

LEMMA RefreshFailsImplements ==
  ASSUME IInv, RefreshFails
  PROVE  Contract!RefreshFails
<1>1. /\ pc = "refresh" /\ pc' = "idle"
      /\ result' = [result EXCEPT !.status = IF @ = "OK" THEN "IO" ELSE @]
      /\ UNCHANGED <<platform, limits, powercap, ec, shadow, overwritten>>
      /\ view \in View /\ result \in Result
  BY DEF RefreshFails, registers, IInv, Typed, TypeOK
<1>2. result'.status # "OK" /\ result'.executor = result.executor
  BY <1>1 DEF Result
<1>3. ASSUME NEW f \in Field
      PROVE  /\ view'[f].value = view[f].value
             /\ view'[f].source = IF view[f].value = None THEN "none" ELSE "cache"
  <2>1. view'[f] = [view[f] EXCEPT !.source = IF view[f].value = None THEN "none"
                                                                       ELSE "cache"]
    BY DEF RefreshFails
  <2>. QED BY <1>1, <2>1 DEF View
<1>4. \A f : PowercapValue(f)' = PowercapValue(f) /\ Executor(f)' = Executor(f)
  BY <1>1, <1>2 DEF PowercapValue, Constraint, Executor
<1>5. /\ AbstractPhase = "refresh" /\ AbstractPhase' = "idle"
      /\ AbstractStatus' = IF AbstractStatus = "OK" THEN "failed" ELSE AbstractStatus
  BY <1>1, <1>2 DEF AbstractPhase, AbstractStatus, NoLimits
<1>. QED BY <1>1, <1>3, <1>4, <1>5 DEF Contract!RefreshFails

LEMMA DriftImplements ==
  ASSUME IInv, Drift
  PROVE  Contract!Drift
<1>1. /\ Typed
      /\ UNCHANGED <<platform, pc, limits, shadow, result, view>>
      /\ overwritten \subseteq overwritten'
  BY DEF IInv, Drift
<1>2. ASSUME NEW r \in Contract!Touched
      PROVE  r \in overwritten'
  <2>1. /\ r \in Contract!Backend \X Field
        /\ r[1] = "standard" =>
             r[2] \in StandardField /\ PowercapValue(r[2])' # PowercapValue(r[2])
        /\ r[1] = "amw0" => ec'[r[2]] # ec[r[2]]
    BY TouchedIs
  <2>2. r = <<r[1], r[2]>> /\ r[1] \in {"standard", "amw0"}
    BY <2>1 DEF Contract!Backend
  <2>3. Constraint(r[2])' = Constraint(r[2])
    BY <1>1 DEF Constraint
  <2>4. ASSUME NEW i \in DOMAIN powercap, NEW u,
               powercap' = [powercap EXCEPT ![i] = u],
               overwritten' = overwritten \cup
                 {<<"standard", f>> : f \in {g \in StandardField : Constraint(g) = i}},
               ec' = ec
        PROVE  r \in overwritten'
    <3>1. r[1] = "standard"
      BY <2>1, <2>2, <2>4
    <3>2. Constraint(r[2]) = i
      <4>1. SUFFICES ASSUME Constraint(r[2]) # i
                     PROVE  PowercapValue(r[2])' = PowercapValue(r[2])
        BY <2>1, <3>1
      <4>2. CASE Constraint(r[2]) = 0
        BY <2>3, <4>2 DEF PowercapValue
      <4>3. CASE Constraint(r[2]) # 0
        <5>1. Constraint(r[2]) \in DOMAIN powercap
          BY <1>1, <4>3, ConstraintIsOne, PlatformTyped DEF Typed
        <5>2. powercap'[Constraint(r[2])] = powercap[Constraint(r[2])]
          BY <1>1, <2>4, <4>1, <5>1 DEF Typed
        <5>. QED BY <2>3, <4>3, <5>2 DEF PowercapValue
      <4>. QED BY <4>2, <4>3
    <3>. QED BY <2>1, <2>2, <2>4, <3>1, <3>2
  <2>5. ASSUME NEW f \in Asked, NEW b,
               ec' = [ec EXCEPT ![f] = b],
               overwritten' = overwritten \cup {<<"amw0", f>>},
               powercap' = powercap
        PROVE  r \in overwritten'
    <3>1. r[1] = "amw0"
      BY <1>1, <2>1, <2>2, <2>3, <2>5 DEF PowercapValue
    <3>2. r[2] = f
      BY <1>1, <2>1, <2>5, <3>1 DEF Typed, TypeOK
    <3>. QED BY <2>2, <2>5, <3>1, <3>2
  <2>. QED BY <2>4, <2>5 DEF Drift
<1>3. \A f : Executor(f)' = Executor(f)
  BY <1>1 DEF Executor
<1>. QED
  BY <1>1, <1>2, <1>3 DEF Contract!Drift, AbstractPhase, AbstractStatus, NoLimits

LEMMA StutterImplements ==
  ASSUME UNCHANGED vars
  PROVE  UNCHANGED Contract!vars
BY DEF vars, registers, Contract!vars, AbstractPhase, AbstractStatus, NoLimits,
       Executor, PowercapValue, Constraint

(* The converged backend keeps the contract of a backend for the four      *)
(* limits, routed, split over two backends, retried or cut short: what the *)
(* executor of Transaction relies on when it calls it.                     *)
THEOREM LimitsKeepContract == Spec => ImplementsContract
<1>1. ASSUME IInv, IInv', [Next]_vars PROVE [Contract!Next]_(Contract!vars)
  <2>1. CASE \E l \in Requests(platform) : SetPowerLimits(l)
    BY <1>1, <2>1, CallImplements DEF Contract!Next
  <2>2. CASE StandardRefuses \/ StandardWriteFails \/ StandardVerify
    BY <1>1, <2>2, StandardImplements DEF Contract!Next
  <2>3. CASE StandardWrite
    BY <1>1, <2>3, StandardWriteImplements DEF Contract!Next
  <2>4. CASE AmwWrite
    BY <1>1, <2>4, AmwWriteImplements DEF Contract!Next
  <2>5. CASE AmwWriteFails
    BY <1>1, <2>5, AmwWriteFailsImplements DEF Contract!Next
  <2>6. CASE AmwDone
    BY <1>1, <2>6, AmwDoneImplements DEF Contract!Next
  <2>7. CASE Refresh
    BY <1>1, <2>7, RefreshImplements DEF Contract!Next
  <2>8. CASE RefreshFails
    BY <1>1, <2>8, RefreshFailsImplements DEF Contract!Next
  <2>9. CASE Drift
    BY <1>1, <2>9, DriftImplements DEF Contract!Next
  <2>10. CASE UNCHANGED vars
    BY <2>10, StutterImplements
  <2>. QED BY <1>1, <2>1, <2>2, <2>3, <2>4, <2>5, <2>6, <2>7, <2>8, <2>9, <2>10
           DEF Next, Step
<1>. QED
  BY InitImplements, Inductive, <1>1, PTL
  DEF Spec, Contract!Spec, ImplementsContract

================================================================================
