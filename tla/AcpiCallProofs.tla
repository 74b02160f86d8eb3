---------------------------- MODULE AcpiCallProofs ----------------------------
(***************************************************************************)
(* What a byte read, a path learnt and a write through /proc/acpi/call are *)
(* worth, for every set of registers, methods and other tools' replies.    *)
(***************************************************************************)
EXTENDS AcpiCall, TLAPS

(* What an access under way knows: while nobody disturbed the file its     *)
(* reply buffer holds the answer to our expression and to no other.        *)
UnderWay ==
  /\ at # "idle" => call \in Access /\ ~dry
  /\ at = "probe" => call.op = "read"
  /\ at = "access" /\ call.op = "read" => path # None
  /\ written => at # "idle"

Answering ==
  written /\ ~disturbed =>
    /\ at = "probe" => buffer = Text \/ Candidate[tried] \in answering
    /\ at = "access" /\ call.op = "read" =>
         buffer = IF path \in answering THEN Number(truth) ELSE Text

Taken == written /\ at = "access" /\ call.op = "write" => landed \/ refused

IInv ==
  /\ TypeOK /\ UnderWay /\ Answering /\ Taken
  /\ ReadIsTrue /\ ParseTellsInterference /\ PathAnswers /\ WriteLands

LEMMA BytesAreNumbers == Text \in Reply /\ \A n \in Nat : Number(n) \in Reply
BY DEF Text, Number, Reply

LEMMA CandidatesArePaths ==
  ASSUME NEW i \in 1..Len(Candidate)
  PROVE  Candidate[i] \in Path /\ Candidate[i] # None
BY PathAssumption DEF Path

LEMMA InitCase == Init => IInv
<1>. SUFFICES ASSUME Init PROVE IInv
  OBVIOUS
<1>1. TypeOK
  <2>1. override \in Path \cup {None}
    BY DEF Init, Path
  <2>2. tried \in 1..Len(Candidate)
    BY PathAssumption DEF Init
  <2>3. result \in Result /\ buffer \in Reply
    BY BytesAreNumbers DEF Init, Result, Failed
  <2>4. answering \subseteq Path /\ register \in [Reg -> Byte]
    BY DEF Init
  <2>5. call \in Access \cup {None} /\ truth \in 0..255
    BY DEF Init
  <2>6. at \in {"idle", "probe", "access"} /\ path \in Path \cup {None}
    BY <2>1 DEF Init
  <2>. QED BY <2>2, <2>3, <2>4, <2>5, <2>6 DEF Init, TypeOK
<1>. QED
  BY <1>1 DEF Init, IInv, UnderWay, Answering, Taken, ReadIsTrue, Ended,
       ParseTellsInterference, PathAnswers, WriteLands

--------------------------------------------------------------------------------
(* One lemma per action.                                                   *)

LEMMA BeginCase ==
  ASSUME IInv, NEW c \in Access, Begin(c)
  PROVE  IInv'
<1>. USE DEF IInv
<1>1. /\ at = "idle" /\ ~written
      /\ call' = c /\ call' # None /\ tried' = 1
      /\ disturbed' = FALSE /\ landed' = FALSE /\ refused' = FALSE
      /\ UNCHANGED <<dry, override, answering, register, buffer, written, path,
                     truth, misled>>
  BY PathAssumption DEF Begin, UnderWay, TypeOK, file
<1>2. c.op \in {"read", "write"}
  BY DEF Access
<1>3. \/ /\ dry /\ at' = "idle"
         /\ result' = IF c.op = "write" THEN Done(0) ELSE Failed("NOT_SUPPORTED")
      \/ /\ ~dry /\ result' = result
         /\ at' = IF c.op = "read" /\ path = None THEN "probe" ELSE "access"
  BY <1>1 DEF Begin, Simulated
<1>4. result' \in Result
  BY <1>3 DEF TypeOK, Result, Done, Failed
<1>5. TypeOK'
  <2>1. tried' \in 1..Len(Candidate)
    BY <1>1, PathAssumption
  <2>2. at' \in {"idle", "probe", "access"}
    BY <1>3
  <2>. QED BY <1>1, <1>4, <2>1, <2>2 DEF TypeOK
<1>. QED
  BY <1>1, <1>2, <1>3, <1>5 DEF UnderWay, Answering, Taken, ReadIsTrue, Ended,
     ParseTellsInterference, PathAnswers, WriteLands, Done, Failed

LEMMA WriteCase ==
  ASSUME IInv, Write
  PROVE  IInv'
<1>. USE DEF IInv
<1>1. /\ at # "idle" /\ ~written /\ written' = TRUE /\ disturbed' = FALSE
      /\ UNCHANGED <<dry, override, answering, path, call, at, tried, result, misled>>
  BY DEF Write
<1>2. CASE /\ at = "probe"
           /\ buffer' = Evaluated(Candidate[tried], ProbeReg)
           /\ UNCHANGED <<register, truth, landed, refused>>
  <2>1. buffer' \in Reply /\ (buffer' = Text \/ Candidate[tried] \in answering)
    <3>1. register[ProbeReg] \in Nat
      <4>1. register[ProbeReg] \in Byte
        BY RegisterAssumption DEF TypeOK
      <4>2. register[ProbeReg] \in 0..255
        BY <4>1, RegisterAssumption
      <4>. QED BY <4>2
    <3>2. Number(register[ProbeReg]) \in Reply
      BY <3>1, BytesAreNumbers
    <3>. QED BY <1>2, <3>2, BytesAreNumbers DEF Evaluated
  <2>2. TypeOK'
    BY <1>1, <1>2, <2>1 DEF TypeOK
  <2>. QED
    BY <1>1, <1>2, <2>1, <2>2 DEF UnderWay, Answering, Taken, ReadIsTrue, Ended,
       ParseTellsInterference, PathAnswers, WriteLands
<1>3. CASE /\ at = "access" /\ call.op = "read"
           /\ buffer' = Evaluated(path, call.reg)
           /\ truth' = register[call.reg]
           /\ UNCHANGED <<register, landed, refused>>
  <2>1. call.reg \in Reg
    BY <1>1 DEF UnderWay, Access
  <2>2. truth' \in Byte /\ truth' \in 0..255
    BY <1>3, <2>1, RegisterAssumption DEF TypeOK
  <2>3. buffer' = IF path \in answering THEN Number(truth') ELSE Text
    BY <1>3 DEF Evaluated
  <2>4. buffer' \in Reply
    BY <2>2, <2>3, BytesAreNumbers
  <2>5. TypeOK'
    BY <1>1, <1>3, <2>2, <2>4 DEF TypeOK
  <2>. QED
    BY <1>1, <1>3, <2>3, <2>5 DEF UnderWay, Answering, Taken, ReadIsTrue, Ended,
       ParseTellsInterference, PathAnswers, WriteLands
<1>4. CASE /\ at = "access" /\ call.op = "write"
           /\ \/ /\ register' = [register EXCEPT ![call.reg] = call.value]
                 /\ buffer' \in {Number(0), Text}
                 /\ landed' = TRUE
                 /\ UNCHANGED refused
              \/ /\ buffer' = Text
                 /\ refused' = TRUE
                 /\ UNCHANGED <<register, landed>>
           /\ UNCHANGED truth
  <2>1. call.value \in Byte
    BY <1>1, <1>4 DEF UnderWay, Access
  <2>2. register' \in [Reg -> Byte] /\ buffer' \in Reply
    BY <1>4, <2>1, BytesAreNumbers DEF TypeOK
  <2>3. landed' \in BOOLEAN /\ refused' \in BOOLEAN /\ (landed' \/ refused')
    BY <1>4 DEF TypeOK
  <2>4. TypeOK'
    BY <1>1, <1>4, <2>2, <2>3 DEF TypeOK
  <2>. QED
    BY <1>1, <1>4, <2>3, <2>4 DEF UnderWay, Answering, Taken, ReadIsTrue, Ended,
       ParseTellsInterference, PathAnswers, WriteLands
<1>. QED BY <1>1, <1>2, <1>3, <1>4 DEF Write

(* What becomes of a candidate that is passed over.                        *)
LEMMA PassedOver ==
  ASSUME TypeOK, at = "probe", NextCandidate
  PROVE  /\ tried' \in 1..Len(Candidate)
         /\ result' \in Result
         /\ \/ at' = "probe"
            \/ at' = "idle" /\ result' = Failed("NOT_FOUND")
<1>1. Len(Candidate) \in Nat
  BY PathAssumption
<1>. QED BY <1>1 DEF NextCandidate, TypeOK, Result, Errno, Failed

LEMMA CallFailsCase ==
  ASSUME IInv, CallFails
  PROVE  IInv'
<1>. USE DEF IInv
<1>1. /\ at # "idle" /\ written' = FALSE
      /\ UNCHANGED <<dry, override, answering, register, buffer, path, call, ghosts>>
  BY DEF CallFails
<1>2. /\ tried' \in 1..Len(Candidate)
      /\ result' \in Result
      /\ \/ at = "probe" /\ at' = "probe"
         \/ at' = "idle" /\ result'.status \in Errno
  <2>1. CASE at = "probe"
    BY <2>1, PassedOver DEF CallFails, Failed, Errno
  <2>2. CASE at # "probe"
    BY <1>1, <2>2 DEF CallFails, End, Failed, Errno, Result, TypeOK
  <2>. QED BY <2>1, <2>2
<1>3. TypeOK'
  BY <1>1, <1>2 DEF TypeOK, ghosts
<1>. QED
  BY <1>1, <1>2, <1>3 DEF UnderWay, Answering, Taken, ReadIsTrue, Ended, Errno,
     ParseTellsInterference, PathAnswers, WriteLands, ghosts

LEMMA ReadCase ==
  ASSUME IInv, Read
  PROVE  IInv'
<1>. USE DEF IInv
<1>1. /\ written /\ written' = FALSE /\ at # "idle" /\ buffer' \in Reply
      /\ UNCHANGED <<dry, override, answering, register, call, truth, disturbed,
                     landed, refused>>
  BY BytesAreNumbers DEF Read, UnderWay, TypeOK
<1>2. CASE at = "probe" /\ buffer.numeric
  <2>1. /\ path' = Candidate[tried] /\ misled' = disturbed /\ at' = "access"
        /\ UNCHANGED <<tried, result>>
    BY <1>2 DEF Read, Accepts
  <2>2. path' \in Path /\ path' # None
    BY <2>1, CandidatesArePaths DEF TypeOK
  <2>3. ~disturbed => path' \in answering
    BY <1>1, <1>2, <2>1 DEF Answering, Text
  <2>4. TypeOK'
    BY <1>1, <2>1, <2>2 DEF TypeOK
  <2>. QED
    BY <1>1, <1>2, <2>1, <2>2, <2>3, <2>4 DEF UnderWay, Answering, Taken,
       ReadIsTrue, Ended, ParseTellsInterference, PathAnswers, WriteLands
<1>3. CASE at = "probe" /\ ~buffer.numeric
  <2>1. NextCandidate /\ UNCHANGED <<path, misled>>
    BY <1>3 DEF Read, Accepts
  <2>2. /\ tried' \in 1..Len(Candidate)
        /\ result' \in Result
        /\ \/ at' = "probe"
           \/ at' = "idle" /\ result'.status = "NOT_FOUND"
    BY <1>3, <2>1, PassedOver DEF Failed
  <2>3. TypeOK'
    BY <1>1, <2>1, <2>2 DEF TypeOK
  <2>. QED
    BY <1>1, <1>3, <2>1, <2>2, <2>3 DEF UnderWay, Answering, Taken,
       ReadIsTrue, Ended, ParseTellsInterference, PathAnswers, WriteLands
<1>4. CASE at # "probe" /\ call.op = "read"
  <2>1. /\ at = "access" /\ at' = "idle" /\ tried' = tried
        /\ result' = Parsed(buffer)
        /\ UNCHANGED <<path, misled>>
    BY <1>1, <1>4 DEF Read, End, TypeOK
  <2>2. result' \in Result
    <3>1. buffer.value \in Nat
      BY DEF TypeOK, Reply
    <3>2. buffer.value % 256 \in 0..255
      BY <3>1
    <3>. QED BY <2>1, <3>2 DEF Parsed, Done, Failed, Result
  <2>3. result'.status = "OK" /\ ~disturbed => result'.value = truth
    <3>1. SUFFICES ASSUME result'.status = "OK", ~disturbed
                   PROVE  result'.value = truth
      OBVIOUS
    <3>2. buffer.numeric
      BY <2>1, <3>1 DEF Parsed, Failed
    <3>3. buffer = Number(truth)
      BY <1>1, <1>4, <2>1, <3>1, <3>2 DEF Answering, Text
    <3>4. result'.value = truth % 256
      BY <2>1, <3>2, <3>3 DEF Parsed, Done, Number
    <3>. QED BY <3>4 DEF TypeOK
  <2>4. result'.status = "PARSE" => disturbed \/ misled \/ path = override
    <3>1. SUFFICES ASSUME result'.status = "PARSE", ~disturbed, path # override
                   PROVE  misled
      OBVIOUS
    <3>2. ~buffer.numeric
      BY <2>1, <3>1 DEF Parsed, Done
    <3>3. path \notin answering
      BY <1>1, <1>4, <2>1, <3>1, <3>2 DEF Answering, Number
    <3>4. path # None
      BY <1>4, <2>1 DEF UnderWay
    <3>. QED BY <3>1, <3>3, <3>4 DEF PathAnswers
  <2>5. TypeOK'
    BY <1>1, <2>1, <2>2 DEF TypeOK
  <2>. QED
    BY <1>1, <1>4, <2>1, <2>3, <2>4, <2>5 DEF UnderWay, Answering, Taken,
       ReadIsTrue, Ended, ParseTellsInterference, PathAnswers, WriteLands
<1>5. CASE at # "probe" /\ call.op # "read"
  <2>1. /\ at = "access" /\ at' = "idle" /\ tried' = tried
        /\ result' = Done(0)
        /\ UNCHANGED <<path, misled>>
    BY <1>1, <1>5 DEF Read, End, TypeOK
  <2>2. call.op = "write"
    BY <1>1, <1>5 DEF UnderWay, Access
  <2>3. result' \in Result
    BY <2>1 DEF Done, Result
  <2>4. TypeOK'
    BY <1>1, <2>1, <2>3 DEF TypeOK
  <2>. QED
    BY <1>1, <1>5, <2>1, <2>2, <2>4 DEF UnderWay, Answering, Taken, Done,
       ReadIsTrue, Ended, ParseTellsInterference, PathAnswers, WriteLands
<1>6. buffer.numeric \in BOOLEAN
  BY DEF TypeOK, Reply
<1>. QED BY <1>2, <1>3, <1>4, <1>5, <1>6

LEMMA RestartCase ==
  ASSUME IInv, Restart
  PROVE  IInv'
<1>. USE DEF IInv
<1>1. path' \in Path \cup {None} /\ result' \in Result
  BY DEF Restart, TypeOK, Path, Result, Failed
<1>2. tried' \in 1..Len(Candidate)
  BY PathAssumption DEF Restart
<1>3. TypeOK'
  BY <1>1, <1>2 DEF Restart, TypeOK
<1>. QED
  BY <1>3 DEF Restart, UnderWay, Answering, Taken, ReadIsTrue, Ended,
     ParseTellsInterference, PathAnswers, WriteLands

LEMMA ForeignCase ==
  ASSUME IInv, Foreign
  PROVE  IInv'
<1>. USE DEF IInv
<1>1. buffer' \in Reply
  BY BytesAreNumbers, RegisterAssumption DEF Foreign
<1>2. disturbed' = (disturbed \/ written) /\ disturbed' \in BOOLEAN
  BY DEF Foreign, TypeOK
<1>3. TypeOK'
  BY <1>1, <1>2 DEF Foreign, TypeOK
<1>4. UnderWay' /\ Answering' /\ Taken'
  BY <1>2 DEF Foreign, UnderWay, Answering, Taken
<1>5. ReadIsTrue' /\ ParseTellsInterference' /\ PathAnswers' /\ WriteLands'
  BY <1>2 DEF Foreign, ReadIsTrue, Ended, ParseTellsInterference, PathAnswers,
     WriteLands
<1>. QED BY <1>3, <1>4, <1>5

LEMMA DriftCase ==
  ASSUME IInv, NEW r \in Reg, Drift(r)
  PROVE  IInv'
<1>. USE DEF IInv
<1>1. register' \in [Reg -> Byte]
  BY DEF Drift, TypeOK
<1>2. UNCHANGED <<dry, override, answering, file, path, call, at, tried, result, ghosts>>
  BY DEF Drift
<1>. QED
  BY <1>1, <1>2 DEF file, ghosts, TypeOK, UnderWay, Answering, Taken, ReadIsTrue,
     Ended, ParseTellsInterference, PathAnswers, WriteLands

LEMMA Inductive == IInv /\ [Next]_vars => IInv'
<1>. SUFFICES ASSUME IInv, [Next]_vars PROVE IInv'
  OBVIOUS
<1>1. CASE UNCHANGED vars
  BY <1>1 DEF vars, file, ghosts, IInv, TypeOK, UnderWay, Answering, Taken, ReadIsTrue,
     Ended, ParseTellsInterference, PathAnswers, WriteLands
<1>2. CASE Next
  BY <1>2, BeginCase, WriteCase, ReadCase, CallFailsCase, RestartCase, ForeignCase,
     DriftCase DEF Next, Daemon
<1>. QED BY <1>1, <1>2

LEMMA Invariance == Spec => []IInv
BY InitCase, Inductive, PTL DEF Spec

--------------------------------------------------------------------------------
(* The theorems.                                                           *)

(* transport.c and amw0/backend.c keep their variables' types, replies     *)
(* beyond a byte included.                                                 *)
THEOREM CallTypes == Spec => []TypeOK
<1>1. IInv => TypeOK
  BY DEF IInv
<1>. QED BY <1>1, Invariance, PTL

(* lcc_amw0_read_ecrr_u8: a byte taken for live is the register's, unless  *)
(* another tool used /proc/acpi/call between the write and the read.       *)
THEOREM ReadsAreTrue == Spec => []ReadIsTrue
<1>1. IInv => ReadIsTrue
  BY DEF IInv
<1>. QED BY <1>1, Invariance, PTL

(* parse_u32_reply fails only after interference or on a path that was     *)
(* never verified.                                                         *)
THEOREM ParseErrorsTell == Spec => []ParseTellsInterference
<1>1. IInv => ParseTellsInterference
  BY DEF IInv
<1>. QED BY <1>1, Invariance, PTL

(* detect_ecrr_path: what an undisturbed probe remembers answers.          *)
THEOREM ProbedPathAnswers == Spec => []PathAnswers
<1>1. IInv => PathAnswers
  BY DEF IInv
<1>. QED BY <1>1, Invariance, PTL

(* lcc_amw0_transport_call: what a write that is reported done can mean.   *)
THEOREM WritesLand == Spec => []WriteLands
<1>1. IInv => WriteLands
  BY DEF IInv
<1>. QED BY <1>1, Invariance, PTL

================================================================================
