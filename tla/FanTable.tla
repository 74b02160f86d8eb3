-------------------------------- MODULE FanTable --------------------------------
(***************************************************************************)
(* ApplyFanTable below the executor: a named table is looked up in its     *)
(* candidate files, read and validated, laid out as a plan of byte writes  *)
(* (CPU columns, GPU columns, three tail bytes that switch the table on)   *)
(* and written to the embedded controller by the amw0 backend.  Nothing    *)
(* reads a table back: what is shown is what the backend remembers.        *)
(***************************************************************************)
EXTENDS Integers, Sequences

CONSTANTS
  PointCount,     \* LCC_FAN_POINTS
  Names,          \* the names a client may ask for
  Files,          \* per name, what its candidate files hold, in order
  DryRuns,        \* whether the transport is a dry run, per behaviour
  DriftAddr,      \* the registers firmware rewrites
  MaxInterrupted, \* bound: commands cut short since the last complete one
  None

Byte  == 0..255
Point == 1..PointCount
PointValue == [up : Byte, down : Byte, duty : Byte]

(* Registers by their offset from 0x0F00; a column takes PointCount bytes. *)
CpuUpBase   == 0
CpuDownBase == PointCount
CpuDutyBase == 2 * PointCount
GpuUpBase   == 3 * PointCount
GpuDownBase == 4 * PointCount
GpuDutyBase == 5 * PointCount
Status1Addr == 6 * PointCount - 3
Status2Addr == 6 * PointCount - 2
CtrlAddr    == 6 * PointCount - 1
Address == 0..CtrlAddr

ASSUME FanTableAssumption ==
  /\ PointCount \in Nat /\ PointCount > 3
  /\ 6 * PointCount + 4 <= 128  \* LCC_PLAN_MAX_ACTIONS
  /\ DryRuns \subseteq BOOLEAN
  /\ DriftAddr \subseteq Address
  /\ MaxInterrupted \in Nat
  /\ Names \subseteq DOMAIN Files \cup {"demo"}

(* What a table may be called: by its file or by what the file says.       *)
Title ==
  {"demo"} \cup DOMAIN Files \cup
    UNION {{Files[file][i].name : i \in {i \in DOMAIN Files[file] : Files[file][i] # None}}
             : file \in DOMAIN Files}

Table == [name : Title, activated : BOOLEAN, respective : BOOLEAN,
          cpu : [Point -> PointValue], gpu : [Point -> PointValue]]

(* A candidate is None (not there, or no table in it) or a document: its   *)
(* format, the name and flags it gives, and its points by position, which  *)
(* a json list has from 1 on without gaps.                                 *)
Points(format, points) ==
  /\ \A i \in DOMAIN points : points[i] \in PointValue
  /\ format = "json" => points \in Seq(PointValue)
  /\ format = "ini" => DOMAIN points \subseteq Nat

Document(doc) ==
  /\ doc.format \in {"json", "ini"}
  /\ doc.activated \in BOOLEAN /\ doc.respective \in BOOLEAN
  /\ Points(doc.format, doc.cpu) /\ Points(doc.format, doc.gpu)

ASSUME FilesAssumption ==
  /\ \A file \in DOMAIN Files :
       /\ DOMAIN Files[file] = 1..Len(Files[file]) /\ Len(Files[file]) \in Nat
       /\ \A i \in DOMAIN Files[file] : Files[file][i] = None \/ Document(Files[file][i])
  /\ None \notin Names /\ None \notin Table

--------------------------------------------------------------------------------
(* Loading.                                                                *)

Sorted(p, q) == p.up <= q.up /\ p.down <= q.down /\ p.duty <= q.duty

(* lcc_validate_fan_table, for one fan.                                    *)
Valid_Unsorted(points) ==
  \A i \in Point : points[i].down <= points[i].up /\ points[i].duty <= 100
Valid(points) ==
  /\ \A i \in Point : points[i].down <= points[i].up /\ points[i].duty <= 100
  /\ \A i \in 1..(PointCount - 1) : Sorted(points[i], points[i + 1])

(* What the parsers take: a list with at least one point, indices in range.*)
Parsed(format, points) ==
  /\ DOMAIN points \subseteq Point
  /\ format = "json" => points # << >>

(* A short list repeats its last point; what an ini file leaves out is 0.  *)
Filled_Zero(format, points) ==
  [i \in Point |->
     IF i \in DOMAIN points THEN points[i] ELSE [up |-> 0, down |-> 0, duty |-> 0]]
Filled(format, points) ==
  [i \in Point |->
     IF i \in DOMAIN points THEN points[i]
     ELSE IF format = "json" THEN points[Len(points)]
     ELSE [up |-> 0, down |-> 0, duty |-> 0]]

Loads(doc) ==
  /\ doc # None
  /\ Parsed(doc.format, doc.cpu) /\ Parsed(doc.format, doc.gpu)
  /\ Valid(Filled(doc.format, doc.cpu)) /\ Valid(Filled(doc.format, doc.gpu))

(* A document without a name has that of its file.                         *)
TableOf(file, doc) ==
  [name |-> IF doc.name = None THEN file ELSE doc.name,
   activated |-> doc.activated, respective |-> doc.respective,
   cpu |-> Filled(doc.format, doc.cpu), gpu |-> Filled(doc.format, doc.gpu)]

(* lcc_fan_table_build_demo.                                               *)
Ramp(up, duty) ==
  [i \in Point |->
     [up |-> up + 3 * (i - 1), down |-> up + 3 * (i - 1) - 3,
      duty |-> IF duty + 5 * (i - 1) > 100 THEN 100 ELSE duty + 5 * (i - 1)]]
DemoTable ==
  [name |-> "demo", activated |-> TRUE, respective |-> TRUE,
   cpu |-> Ramp(40, 18), gpu |-> Ramp(45, 20)]

(* lcc_fan_table_load_named: the first candidate that loads.               *)
LoadNamed(name) ==
  IF name = "demo" THEN DemoTable
  ELSE LET files == Files[name]
           good  == {i \in 1..Len(files) : Loads(files[i])}
       IN  IF good = {} THEN None
           ELSE TableOf(name, files[CHOOSE i \in good : \A j \in good : i <= j])

--------------------------------------------------------------------------------
(* lcc_build_fan_plan.  Stages are named by the last part of their label.  *)

Column(stage, base, points, field, n) ==
  [i \in 1..n |-> [stage |-> stage, addr |-> base + i - 1, value |-> points[i][field]]]

CpuPlan(t) ==
  Column("SetEcFanTable_Cpu", CpuUpBase, t.cpu, "up", PointCount)
    \o Column("SetEcFanTable_Cpu", CpuDownBase, t.cpu, "down", PointCount)
    \o Column("SetEcFanTable_Cpu", CpuDutyBase, t.cpu, "duty", PointCount)

(* The duties of the last three points would lie in the tail: left out.    *)
GpuPlan_AllDuties(t) ==
  Column("SetEcFanTable_Gpu", GpuUpBase, t.gpu, "up", PointCount)
    \o Column("SetEcFanTable_Gpu", GpuDownBase, t.gpu, "down", PointCount)
    \o Column("SetEcFanTable_Gpu", GpuDutyBase, t.gpu, "duty", PointCount)
GpuPlan_SwappedColumns(t) ==
  Column("SetEcFanTable_Gpu", GpuUpBase, t.gpu, "down", PointCount)
    \o Column("SetEcFanTable_Gpu", GpuDownBase, t.gpu, "up", PointCount)
    \o Column("SetEcFanTable_Gpu", GpuDutyBase, t.gpu, "duty", PointCount - 3)
GpuPlan(t) ==
  Column("SetEcFanTable_Gpu", GpuUpBase, t.gpu, "up", PointCount)
    \o Column("SetEcFanTable_Gpu", GpuDownBase, t.gpu, "down", PointCount)
    \o Column("SetEcFanTable_Gpu", GpuDutyBase, t.gpu, "duty", PointCount - 3)

Flag(on) == IF on THEN 1 ELSE 0
TailControl(t) == IF ~t.activated THEN 0 ELSE IF t.respective THEN 3 ELSE 1

TailPlan(t) ==
  <<[stage |-> "FinalizeTailBytes", addr |-> Status1Addr, value |-> Flag(t.activated)],
    [stage |-> "FinalizeTailBytes", addr |-> Status2Addr, value |-> Flag(t.respective)],
    [stage |-> "FinalizeTailBytes", addr |-> CtrlAddr, value |-> TailControl(t)]>>

Plan_TailFirst(t) == TailPlan(t) \o CpuPlan(t) \o GpuPlan(t)
Plan_GpuFirst(t) == GpuPlan(t) \o CpuPlan(t) \o TailPlan(t)
Plan(t) == CpuPlan(t) \o GpuPlan(t) \o TailPlan(t)

--------------------------------------------------------------------------------

VARIABLES
  dry_run,     \* the transport is a dry run; never changes
  pc,          \* "idle" or "write"
  table,       \* the table being programmed, or the last one
  next,        \* the position in its plan
  ec,          \* the fan-table registers
  shadow,      \* shadow_state.effective.fan_table
  result,      \* of the last command
  requested,   \* ghost: the name it asked for
  retained,    \* ghost: the last table programmed as a whole since the start
  written,     \* ghost: registers this command wrote, or may have
  disturbed,   \* ghost: the same for those cut short since retained
  overwritten, \* ghost: registers firmware changed since they were written
  interrupted  \* how many were cut short

vars == <<dry_run, pc, table, next, ec, shadow, result, requested, retained,
          written, disturbed, overwritten, interrupted>>

NoResult == [status |-> "none", stage |-> "none", hardware_write |-> FALSE]

(* seed_shadow_state: no table of ours is known to be active.              *)
Seeded == "system-default"

Init ==
  /\ dry_run \in DryRuns
  /\ pc = "idle"
  /\ table = None
  /\ next = 1
  /\ ec = [a \in Address |-> 0]
  /\ shadow = Seeded
  /\ result = NoResult
  /\ requested = None
  /\ retained = None
  /\ written = {} /\ disturbed = {} /\ overwritten = {}
  /\ interrupted = 0

(* amw0_apply_fan_table up to its first write, and its return when no      *)
(* candidate loads.  The plan of a table that loads is always built.       *)
ApplyFanTable_RemembersEarly(name) ==
  /\ pc = "idle"
  /\ requested' = name
  /\ IF LoadNamed(name) = None
     THEN /\ result' = [NoResult EXCEPT !.status = "NOT_FOUND"]
          /\ UNCHANGED <<pc, table, next, written, shadow>>
     ELSE /\ pc' = "write"
          /\ table' = LoadNamed(name)
          /\ next' = 1
          /\ written' = {}
          /\ shadow' = LoadNamed(name).name
          /\ result' = NoResult
  /\ UNCHANGED <<dry_run, ec, retained, disturbed, overwritten, interrupted>>
ApplyFanTable(name) ==
  /\ pc = "idle"
  /\ requested' = name
  /\ IF LoadNamed(name) = None
     THEN /\ result' = [NoResult EXCEPT !.status = "NOT_FOUND"]
          /\ UNCHANGED <<pc, table, next, written>>
     ELSE /\ pc' = "write"
          /\ table' = LoadNamed(name)
          /\ next' = 1
          /\ written' = {}
          /\ result' = NoResult
  /\ UNCHANGED <<dry_run, ec, shadow, retained, disturbed, overwritten, interrupted>>

(* One action of the plan, apply_plan_ec_write.  The table's name is       *)
(* remembered after the last one.                                          *)
WriteByte ==
  LET write == Plan(table)[next]
  IN  /\ pc = "write"
      /\ ec' = IF dry_run THEN ec ELSE [ec EXCEPT ![write.addr] = write.value]
      /\ overwritten' = IF dry_run THEN overwritten ELSE overwritten \ {write.addr}
      /\ next' = next + 1
      /\ IF next < Len(Plan(table))
         THEN /\ result' = [result EXCEPT !.stage = write.stage]
              /\ written' = written \cup {write.addr}
              /\ UNCHANGED <<pc, shadow, retained, disturbed, interrupted>>
         ELSE /\ pc' = "idle"
              /\ result' = [status |-> "OK", stage |-> write.stage,
                            hardware_write |-> ~dry_run]
              /\ shadow' = table.name
              /\ retained' = table
              /\ written' = written \cup {write.addr}
              /\ disturbed' = {}
              /\ interrupted' = 0
      /\ UNCHANGED <<dry_run, table, requested>>

(* A write fails, before or after the controller took the byte.            *)
WriteFails ==
  LET write == Plan(table)[next]
  IN  /\ pc = "write"
      /\ ~dry_run
      /\ interrupted < MaxInterrupted
      /\ pc' = "idle"
      /\ result' = [result EXCEPT !.status = "IO", !.stage = write.stage]
      /\ \/ UNCHANGED <<ec, written>>
         \/ /\ ec' = [ec EXCEPT ![write.addr] = write.value]
            /\ written' = written \cup {write.addr}
      /\ disturbed' = disturbed \cup written'
      /\ interrupted' = interrupted + 1
      /\ UNCHANGED <<dry_run, table, next, shadow, requested, retained, overwritten>>

(* The daemon ends and starts again; the controller keeps what it has.     *)
Crash ==
  /\ pc = "write" => interrupted < MaxInterrupted
  /\ pc' = "idle"
  /\ table' = None /\ next' = 1
  /\ shadow' = Seeded
  /\ result' = NoResult
  /\ requested' = None /\ retained' = None
  /\ written' = {} /\ disturbed' = {}
  /\ interrupted' = IF pc = "write" THEN interrupted + 1 ELSE interrupted
  /\ UNCHANGED <<dry_run, ec, overwritten>>

(* Firmware or another tool rewrites a register; one value is enough to    *)
(* tell it from what was written.                                          *)
Foreign == 255
Drift(a) ==
  /\ a \notin overwritten
  /\ ec' = [ec EXCEPT ![a] = Foreign]
  /\ overwritten' = overwritten \cup {a}
  /\ UNCHANGED <<dry_run, pc, table, next, shadow, result, requested, retained,
                 written, disturbed, interrupted>>

Next ==
  \/ \E name \in Names : ApplyFanTable(name)
  \/ WriteByte \/ WriteFails
  \/ Crash
  \/ \E a \in DriftAddr : Drift(a)

Spec == Init /\ [][Next]_vars

--------------------------------------------------------------------------------
(* The register map, read the other way: what a register holds for a table.*)

CpuRegisters  == 0..(GpuUpBase - 1)
GpuRegisters  == GpuUpBase..(Status1Addr - 1)
TailRegisters == Status1Addr..CtrlAddr

Field(a) == <<"up", "down", "duty">>[((a \div PointCount) % 3) + 1]
Image(t, a) ==
  IF a \in CpuRegisters THEN t.cpu[(a % PointCount) + 1][Field(a)]
  ELSE IF a \in GpuRegisters THEN t.gpu[(a % PointCount) + 1][Field(a)]
  ELSE IF a = Status1Addr THEN (IF t.activated THEN 1 ELSE 0)
  ELSE IF a = Status2Addr THEN (IF t.respective THEN 1 ELSE 0)
  ELSE IF t.activated /\ t.respective THEN 3 ELSE IF t.activated THEN 1 ELSE 0

(* Those of these registers that firmware left alone hold the table.       *)
Hold(registers, t) == \A a \in registers \ overwritten : ec[a] = Image(t, a)

--------------------------------------------------------------------------------

TypeOK ==
  /\ dry_run \in BOOLEAN
  /\ pc \in {"idle", "write"}
  /\ table \in Table \cup {None} /\ retained \in Table \cup {None}
  /\ pc = "write" => table # None /\ next \in 1..Len(Plan(table))
  /\ ec \in [Address -> Byte]
  /\ shadow \in Title \cup {Seeded}
  /\ result \in [status : {"none", "OK", "IO", "NOT_FOUND"},
                 stage : {"none", "SetEcFanTable_Cpu", "SetEcFanTable_Gpu",
                          "FinalizeTailBytes"},
                 hardware_write : BOOLEAN]
  /\ requested \in Names \cup {None}
  /\ written \subseteq Address /\ disturbed \subseteq Address
  /\ overwritten \subseteq Address
  /\ interrupted \in 0..MaxInterrupted

(* An OK answer with hardware_write means that every register holds the    *)
(* table's byte at its place, whatever an earlier command left there.      *)
TableIsProgrammed ==
  result.status = "OK" /\ result.hardware_write =>
    Hold(CpuRegisters \cup GpuRegisters \cup TailRegisters, table)

(* The table the daemon believes to be active is the last one programmed   *)
(* as a whole since it started, and every register still holds it, except  *)
(* those a command cut short has reached since.                            *)
RetainedIsProgrammed ==
  /\ shadow = IF retained = None THEN Seeded ELSE retained.name
  /\ retained # None /\ ~dry_run /\ pc = "idle" =>
       Hold(Address \ disturbed, retained)

(* The reserved bytes only ever hold what a tail byte can be: no duty ends *)
(* up in the status and control bytes, not even for a moment.              *)
ReservedBytesKeepTail ==
  \A a \in TailRegisters \ overwritten :
    ec[a] \in (IF a = CtrlAddr THEN {0, 1, 3} ELSE {0, 1})

(* The daemon only changes the tail when all temperatures and duties of the*)
(* table are in place: what is switched on is complete.  (While the columns*)
(* are rewritten, the tail of the table before stays in force.)            *)
ActivatedWhenComplete ==
  [][\A a \in TailRegisters :
       ec'[a] # ec[a] /\ overwritten' \subseteq overwritten =>
         Hold(CpuRegisters \cup GpuRegisters, table)]_vars

(* The stage of a failed command tells how far the controller got: the     *)
(* parts before it hold the new table, the parts after it were not reached *)
(* (docs/fan-roadmap.md, "failure stages continue to pinpoint").           *)
StageTellsProgress ==
  result.status = "IO" =>
    CASE result.stage = "SetEcFanTable_Cpu" ->
           written \subseteq CpuRegisters
      [] result.stage = "SetEcFanTable_Gpu" ->
           /\ written \subseteq CpuRegisters \cup GpuRegisters
           /\ Hold(CpuRegisters, table)
      [] result.stage = "FinalizeTailBytes" ->
           Hold(CpuRegisters \cup GpuRegisters, table)

(* What an OK command leaves in the controller is a curve it can follow:   *)
(* fans never slow down as the temperature rises, and no point is left     *)
(* above the temperature it is entered at.                                 *)
CurvesRise ==
  result.status = "OK" /\ result.hardware_write /\ overwritten = {} =>
    /\ \A base \in {CpuUpBase, CpuDownBase, CpuDutyBase, GpuUpBase, GpuDownBase} :
         \A i \in 1..(PointCount - 1) : ec[base + i - 1] <= ec[base + i]
    /\ \A i \in 1..(PointCount - 4) : ec[GpuDutyBase + i - 1] <= ec[GpuDutyBase + i]
    /\ \A i \in 0..(PointCount - 1) : /\ ec[CpuDownBase + i] <= ec[CpuUpBase + i]
                                      /\ ec[GpuDownBase + i] <= ec[GpuUpBase + i]

(* A table is refused only if none of its files has one: a list that rises *)
(* as far as it goes is accepted however short it is, and an unusable file *)
(* does not hide a usable one behind it.                                   *)
Rises(points) ==
  /\ points # << >> /\ Len(points) <= PointCount
  /\ \A i \in DOMAIN points : points[i].down <= points[i].up /\ points[i].duty <= 100
  /\ \A i, j \in DOMAIN points : i < j => Sorted(points[i], points[j])
OnlyUnusableRefused ==
  result.status = "NOT_FOUND" =>
    \A i \in DOMAIN Files[requested] :
      LET doc == Files[requested][i]
      IN  ~(doc # None /\ doc.format = "json" /\ Rises(doc.cpu) /\ Rises(doc.gpu))
================================================================================
