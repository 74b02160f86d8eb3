-------------------------------- MODULE AcpiCall --------------------------------
(***************************************************************************)
(* How the amw0 backend reaches the embedded controller: an expression is  *)
(* written to /proc/acpi/call, the kernel evaluates it, and a second open  *)
(* reads the reply.  The file has one reply buffer and no lock, and other  *)
(* tools (lccctl developer raw wmbc, a second lccd that is starting, the   *)
(* scripts) use it too.  Reads go through a method found by probing and    *)
(* remembered; the reply of a write is not looked at.                      *)
(***************************************************************************)
EXTENDS Naturals, Sequences

CONSTANTS
  Reg,           \* registers of the controller
  Byte,          \* what they hold
  ProbeReg,      \* the register the probe reads, LCC_AMW0_ADDR_FFAN
  Candidate,     \* the read methods the probe tries, in order
  Overrides,     \* the values of LCC_AMW0_ECRR_PATH; None when it is not set
  ForeignNumber, \* the numbers the calls of other tools return
  None

ASSUME RegisterAssumption ==
  /\ Byte \subseteq 0..255
  /\ Byte # {}
  /\ ProbeReg \in Reg
  /\ ForeignNumber \subseteq Nat

Path == {Candidate[i] : i \in 1..Len(Candidate)} \cup (Overrides \ {None})

Access == {[op |-> "read", reg |-> r, value |-> 0] : r \in Reg} \cup
          {[op |-> "write", reg |-> r, value |-> v] : r \in Reg, v \in Byte}

ASSUME PathAssumption ==
  /\ Candidate \in Seq(STRING)
  /\ Len(Candidate) > 0
  /\ None \notin Path
  /\ None \notin Access

VARIABLES
  dry,        \* LCC_AMW0_DRY_RUN
  override,   \* LCC_AMW0_ECRR_PATH
  answering,  \* the methods this machine's firmware has
  register,   \* what the controller holds
  buffer,     \* the kernel's reply buffer: a number, or text
  path,       \* ecrr_path, None before it is known
  call,       \* the access being made, or the last one; None at first
  at,         \* "idle", "probe" or "access"
  tried,      \* the candidate being probed
  written,    \* the expression has been written, the reply not yet read
  result,     \* how the last access ended
  truth,      \* ghost: what the register held when the firmware read it
  disturbed,  \* ghost: someone used the file between our write and our read
  misled,     \* ghost: the path was learnt from a disturbed probe
  landed,     \* ghost: the firmware took our write
  refused     \* ghost: the firmware refused our write

file   == <<buffer, written>>
ghosts == <<truth, disturbed, misled, landed, refused>>
vars == <<dry, override, answering, register, file, path, call, at, tried, result, ghosts>>

Number(n) == [numeric |-> TRUE, value |-> n]
Text == [numeric |-> FALSE, value |-> 0]
Reply == [numeric : BOOLEAN, value : Nat]

Errno == {"PERMISSION", "NOT_FOUND", "IO"}
Result == [status : {"OK", "PARSE", "NOT_SUPPORTED"} \cup Errno, value : 0..255]
Failed(s) == [status |-> s, value |-> 0]
Done(v) == [status |-> "OK", value |-> v]

Init ==
  /\ dry \in BOOLEAN
  /\ override \in Overrides
  /\ answering \in SUBSET Path
  /\ register \in [Reg -> Byte]
  /\ buffer = Text
  /\ written = FALSE
  /\ path = override
  /\ call = None
  /\ at = "idle"
  /\ tried = 1
  /\ result = Failed("NOT_SUPPORTED")
  /\ truth = 0
  /\ disturbed = FALSE
  /\ misled = FALSE
  /\ landed = FALSE
  /\ refused = FALSE

--------------------------------------------------------------------------------
(* The daemon.                                                             *)

(* read_live_byte and write_ec_byte: a dry run reads nothing and writes    *)
(* nothing, a read needs a path first.                                     *)
Simulated(c) == dry
Begin(c) ==
  /\ at = "idle"
  /\ call' = c
  /\ disturbed' = FALSE
  /\ landed' = FALSE
  /\ refused' = FALSE
  /\ tried' = 1
  /\ \/ /\ Simulated(c)
        /\ result' = IF c.op = "write" THEN Done(0) ELSE Failed("NOT_SUPPORTED")
        /\ UNCHANGED at
     \/ /\ ~Simulated(c)
        /\ at' = IF c.op = "read" /\ path = None THEN "probe" ELSE "access"
        /\ UNCHANGED result
  /\ UNCHANGED <<dry, override, answering, register, file, path, truth, misled>>

(* The reply to a read through a method: its register, or an error text.   *)
Evaluated(p, r) == IF p \in answering THEN Number(register[r]) ELSE Text

(* The expression is written and the file closed; the firmware evaluates   *)
(* it before the write returns.                                            *)
Write ==
  /\ at # "idle"
  /\ ~written
  /\ written' = TRUE
  /\ disturbed' = FALSE
  /\ \/ /\ at = "probe"
        /\ buffer' = Evaluated(Candidate[tried], ProbeReg)
        /\ UNCHANGED <<register, truth, landed, refused>>
     \/ /\ at = "access" /\ call.op = "read"
        /\ buffer' = Evaluated(path, call.reg)
        /\ truth' = register[call.reg]
        /\ UNCHANGED <<register, landed, refused>>
     \/ /\ at = "access" /\ call.op = "write"
        /\ \/ /\ register' = [register EXCEPT ![call.reg] = call.value]
              /\ buffer' \in {Number(0), Text}
              /\ landed' = TRUE
              /\ UNCHANGED refused
           \/ /\ buffer' = Text
              /\ refused' = TRUE
              /\ UNCHANGED <<register, landed>>
        /\ UNCHANGED truth
  /\ UNCHANGED <<dry, override, answering, path, call, at, tried, result, misled>>

(* A candidate that cannot be asked, or whose reply is no number, is passed *)
(* over; after the last one the read fails.                                *)
NextCandidate ==
  IF tried < Len(Candidate)
  THEN tried' = tried + 1 /\ UNCHANGED <<at, result>>
  ELSE at' = "idle" /\ result' = Failed("NOT_FOUND") /\ UNCHANGED tried

End(r) ==
  /\ at' = "idle"
  /\ result' = r
  /\ UNCHANGED tried

(* Opening, writing or closing fails before the firmware sees anything, or *)
(* opening, reading or closing afterwards.                                 *)
CallFails_GoesOn ==
  /\ at # "idle" /\ ~written
  /\ written' = TRUE
  /\ disturbed' = FALSE
  /\ UNCHANGED <<dry, override, answering, register, buffer, path, call, at,
                 tried, result,
                 truth, misled, landed, refused>>
CallFails ==
  /\ at # "idle"
  /\ written' = FALSE
  /\ IF at = "probe" THEN NextCandidate ELSE \E s \in Errno : End(Failed(s))
  /\ UNCHANGED <<dry, override, answering, register, buffer, path, call, ghosts>>

(* parse_u32_reply and the cut to a byte in lcc_amw0_read_ecrr_u8.         *)
Parsed(reply) ==
  IF reply.numeric THEN Done(reply.value % 256) ELSE Failed("PARSE")

Accepts_Anything(reply) == TRUE
Accepts(reply) == reply.numeric

(* The reply is read; the kernel may forget it then.                       *)
Read ==
  /\ written
  /\ written' = FALSE
  /\ buffer' \in {buffer, Text}
  /\ IF at = "probe"
     THEN IF Accepts(buffer)
          THEN /\ path' = Candidate[tried]
               /\ misled' = disturbed
               /\ at' = "access"
               /\ UNCHANGED <<tried, result>>
          ELSE NextCandidate /\ UNCHANGED <<path, misled>>
     ELSE /\ End(IF call.op = "read" THEN Parsed(buffer) ELSE Done(0))
          /\ UNCHANGED <<path, misled>>
  /\ UNCHANGED <<dry, override, answering, register, call, truth, disturbed,
                 landed, refused>>

Daemon == Write \/ Read

(* The daemon dies and is started again: the path is forgotten.            *)
Restart ==
  /\ at' = "idle"
  /\ written' = FALSE
  /\ path' = override
  /\ call' = None
  /\ tried' = 1
  /\ result' = Failed("NOT_SUPPORTED")
  /\ disturbed' = FALSE
  /\ misled' = FALSE
  /\ landed' = FALSE
  /\ refused' = FALSE
  /\ UNCHANGED <<dry, override, answering, register, buffer, truth>>

--------------------------------------------------------------------------------
(* The others.                                                             *)

(* Another tool makes a call or reads the reply of ours.                   *)
Foreign ==
  /\ buffer' \in {Number(n) : n \in ForeignNumber} \cup {Text}
  /\ disturbed' = (disturbed \/ written)
  /\ UNCHANGED <<dry, override, answering, register, written, path, call, at,
                 tried, result,
                 truth, misled, landed, refused>>

(* Firmware or another tool changes a register.                            *)
Drift(r) ==
  /\ \E v \in Byte : register' = [register EXCEPT ![r] = v]
  /\ UNCHANGED <<dry, override, answering, file, path, call, at, tried, result,
                 ghosts>>

Next ==
  \/ \E c \in Access : Begin(c)
  \/ Daemon \/ CallFails
  \/ Restart \/ Foreign
  \/ \E r \in Reg : Drift(r)

Spec == Init /\ [][Next]_vars

--------------------------------------------------------------------------------
(* Properties.                                                             *)

TypeOK ==
  /\ dry \in BOOLEAN
  /\ override \in Overrides
  /\ answering \subseteq Path
  /\ register \in [Reg -> Byte]
  /\ buffer \in Reply
  /\ path \in Path \cup {None}
  /\ call \in Access \cup {None}
  /\ at \in {"idle", "probe", "access"}
  /\ tried \in 1..Len(Candidate)
  /\ written \in BOOLEAN
  /\ result \in Result
  /\ truth \in 0..255
  /\ disturbed \in BOOLEAN /\ misled \in BOOLEAN
  /\ landed \in BOOLEAN /\ refused \in BOOLEAN

Ended(op) == at = "idle" /\ call # None /\ call.op = op

(* A byte the backend takes for live is what the register held when the    *)
(* firmware read it, unless someone used the file in between: no failed    *)
(* call, old reply or error text is ever decoded.                          *)
ReadIsTrue ==
  Ended("read") /\ result.status = "OK" /\ ~disturbed => result.value = truth

(* A reply that does not parse means interference or a path that was never *)
(* verified: the machine answers on the path the probe chose.              *)
ParseTellsInterference ==
  Ended("read") /\ result.status = "PARSE" =>
    disturbed \/ misled \/ path = override

(* The path that is remembered for the life of the daemon is a method the  *)
(* firmware has, unless the probe itself was disturbed.                    *)
PathAnswers ==
  path \notin {None, override} /\ ~misled => path \in answering

(* What the amw0 models assume of write_ec_byte: OK means the register was *)
(* programmed, unless the firmware refused in a reply nobody looks at, and *)
(* a dry run programs nothing.                                             *)
WriteLands ==
  /\ Ended("write") /\ result.status = "OK" => landed \/ refused \/ dry
  /\ dry => ~landed

================================================================================
