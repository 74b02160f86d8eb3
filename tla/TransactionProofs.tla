--------------------------- MODULE TransactionProofs ---------------------------
(***************************************************************************)
(* Proofs about Transaction, for every set of slots, requests, backends    *)
(* and failure codes.                                                      *)
(***************************************************************************)
EXTENDS Transaction, TLAPS

USE DEF vars, service, ghosts

(***************************************************************************)
(* Helper operators                                                        *)
(***************************************************************************)

(* Composing a target out of a request that passed the preflight checks    *)
(* gives a target.                                                         *)
LEMMA OverlayType ==
  ASSUME NEW t \in Target, NEW r \in Request, PreflightStatus(r) = "OK"
  PROVE  Overlay(t, r) \in Target
<1> SUFFICES ASSUME NEW s \in Slot, s \in Named(r)
             PROVE  Settings(r)[s] \in SettingValue
  BY DEF Overlay, Target
<1>1. PICK op \in Ops : r \in {[op |-> op, arg |-> a] : a \in ArgumentOf(op)}
  BY DEF Request
<1>2. PICK a \in ArgumentOf(op) : r = [op |-> op, arg |-> a]
  BY <1>1
<1>3. r.op = op /\ r.arg = a /\ op \in AllOps
  BY <1>2, OpsAssumption
<1>4. CASE op = "set-power-limits"
  BY <1>3, <1>4 DEF ArgumentOf, Settings, Named, SettingValue
<1>5. CASE op = "set-mode"
  BY <1>3, <1>5 DEF ArgumentOf, Settings, Named, SettingValue, PreflightStatus
<1>6. CASE op = "set-profile"
  BY <1>3, <1>6 DEF ArgumentOf, Settings, Named, SettingValue, PreflightStatus
<1>7. CASE op = "apply-fan-table"
  BY <1>3, <1>7 DEF ArgumentOf, Settings, Named, SettingValue, PreflightStatus
<1>8. CASE op = "set-fan-boost"
  BY <1>3, <1>8 DEF ArgumentOf, Settings, Named, SettingValue
<1> QED BY <1>3, <1>4, <1>5, <1>6, <1>7, <1>8 DEF AllOps

(* The slots in play, and what the machine can hold in them.               *)
LEMMA SlotNames ==
  ASSUME NEW s \in Slot
  PROVE  s \in {"profile", "fan_table", "fan_boost"} \cup PowerField
<1>1. PICK op \in Ops : s \in SlotsOf(op)
  BY DEF Slot
<1>2. op \in AllOps
  BY OpsAssumption
<1> QED BY <1>1, <1>2 DEF AllOps, SlotsOf

LEMMA DeviceValueType ==
  ASSUME NEW s \in Slot, NEW v \in DeviceValue(s) PROVE v \in SettingValue
BY SlotNames, PowerFieldAssumption DEF DeviceValue, SettingValue

(* A refused request is refused with an error.                             *)
LEMMA PreflightType ==
  ASSUME NEW r PROVE PreflightStatus(r) \in Status
BY DEF PreflightStatus, Status

(* A request is made of an operation in use.                               *)
LEMMA RequestOp ==
  ASSUME NEW r \in Request PROVE r.op \in Ops /\ r.op \in AllOps
BY OpsAssumption DEF Request

(* A register is of a backend and a slot, and what it holds is a value.    *)
LEMMA RegisterType ==
  ASSUME NEW r \in Register
  PROVE  r[1] \in Backend /\ r[2] \in Slot /\ r = <<r[1], r[2]>>
BY DEF Register

LEMMA HeldType ==
  ASSUME device \in Device, NEW r \in Register
  PROVE  device[r] \in DeviceValue(r[2]) /\ device[r] \in SettingValue
BY DEF Device

(* A source names a backend only where that backend has a register to read *)
(* the setting from, and none is mistaken for the daemon's own memory.     *)
LEMMA SourceType ==
  ASSUME NEW m \in ReadSources, NEW s \in Slot
  PROVE  /\ m \in Sources
         /\ m[s] \in Backend \cup {"shadow", "nowhere"}
         /\ m[s] \in Backend => <<m[s], s>> \in Register
         /\ {"shadow", "nowhere", "cache", "none"} \cap Backend = {}
BY MachineAssumption DEF ReadSources, Sources, Readable

(* A snapshot is well formed, and so is the shadow the read leaves.        *)
LEMMA ReadType ==
  ASSUME device \in Device, memo \in Memo, NEW m \in ReadSources,
         NEW hidden \in SUBSET {s \in Slot : m[s] = "standard" /\ <<"amw0", s>> \in Readable}
  PROVE  Snapshot(m) \in Cache /\ ReadMemo(m, hidden) \in Memo
<1>1. ASSUME NEW s \in Slot PROVE ReadValues(m)[s] \in SettingValue \cup {NoValue}
  <2>1. CASE m[s] \in Backend
    <3>1. <<m[s], s>> \in Register
      BY <2>1, SourceType
    <3> QED BY <2>1, <3>1, HeldType, SourceType DEF ReadValues
  <2>2. CASE m[s] = "shadow"
    BY <2>2, SourceType DEF ReadValues, Memo, Target
  <2>3. CASE m[s] = "nowhere"
    BY <2>3, SourceType, ShadowAssumption DEF ReadValues, Target
  <2> QED BY <2>1, <2>2, <2>3, SourceType
<1>2. ReadValues(m) \in Target
  BY <1>1 DEF ReadValues, Target
<1>3. Snapshot(m) \in Cache
  BY <1>2 DEF Snapshot, ReadMeta, Cache, Source
<1>4. ASSUME NEW s \in Slot, m[s] = "amw0" \/ s \in hidden
      PROVE  /\ s \in Shadowed
             /\ device[<<"amw0", s>>] \in DeviceValue(s)
             /\ device[<<"amw0", s>>] \in SettingValue
  <2>1. <<"amw0", s>> \in Register
    BY <1>4, SourceType DEF Readable
  <2>2. "amw0" \in Backend
    BY <2>1 DEF Register
  <2> QED BY <2>1, <2>2, HeldType DEF Shadowed
<1>5. ReadMemo(m, hidden) \in Memo
  BY <1>4 DEF ReadMemo, Memo, Target
<1> QED BY <1>3, <1>5

(* A refresh, successful or not, leaves the cache, the shadow and the      *)
(* stale set well formed.                                                  *)
LEMMA RefreshType ==
  ASSUME TypeOK, Refresh \/ KeepCached
  PROVE  cache' \in Cache /\ memo' \in Memo /\ stale' \subseteq Register
<1>1. CASE Refresh
  BY <1>1, ReadType DEF Refresh, TypeOK
<1>2. CASE KeepCached
  BY <1>2 DEF KeepCached, TypeOK, Cache, Source
<1> QED BY <1>1, <1>2

(***************************************************************************)
(* Type correctness                                                        *)
(***************************************************************************)

LEMMA EmptyTypes ==
  /\ IdleTransaction \in Transaction
  /\ EmptyLastApply \in LastApply
  /\ EmptyTarget \in Memo
  /\ [requested |-> EmptyTarget, effective |-> EmptyTarget,
      meta |-> [s \in Slot |-> "none"]] \in Cache
<1>1. EmptyTarget \in Target
  BY DEF EmptyTarget, Target
<1>2. EmptyTarget \in Memo
  BY <1>1 DEF EmptyTarget, Memo
<1> QED
  BY <1>1, <1>2 DEF IdleTransaction, EmptyLastApply, Transaction, LastApply,
     PublicStage, Status, Cache, Source

LEMMA InitType == ASSUME Init PROVE TypeOK
BY EmptyTypes DEF Init, TypeOK

(* Every step of the daemon, its clients, the firmware and a crash keeps   *)
(* the state well formed.                                                  *)
LEMMA NextType ==
  ASSUME TypeOK, [Next]_vars PROVE TypeOK'
<1> USE DEF TypeOK
<1>1. CASE Seeding
  <2>1. [s \in Slot |-> IF s \in Shadowed THEN Seed[s] ELSE NoValue] \in Memo
    BY DeviceValueType, ShadowAssumption DEF Memo, Target, Shadowed
  <2> QED BY <1>1, <2>1 DEF Seeding
<1>2. CASE Boot
  BY <1>2, RefreshType, StagesAssumption DEF Boot
<1>3. CASE Crash
  BY <1>3, EmptyTypes DEF Crash
<1>4. ASSUME NEW r \in Register, Drift(r) PROVE TypeOK'
  <2>1. PICK v \in DeviceValue(r[2]) : device' = [device EXCEPT ![r] = v]
    BY <1>4 DEF Drift
  <2>2. v \in SettingValue
    BY <2>1, DeviceValueType, RegisterType
  <2>3. device' \in Device
    BY <2>1, <2>2 DEF Device
  <2> QED BY <1>4, <2>3 DEF Drift
<1>5. ASSUME NEW r \in Request, Receive(r) PROVE TypeOK'
  <2>1. transaction' \in Transaction
    BY <1>5, RequestOp DEF Receive, BegunTransaction, Transaction, PublicStage, Status
  <2>2. last_apply' \in LastApply
    BY <1>5 DEF Receive, BegunLastApply, EmptyLastApply, LastApply, PublicStage, Status
  <2> QED BY <1>5, <2>1, <2>2 DEF Receive
<1>6. CASE RejectPreflight
  BY <1>6, PreflightType DEF RejectPreflight, FailedTransaction, FailedLastApply,
     Transaction, LastApply, PublicStage
<1>7. CASE StageTarget
  <2>1. Overlay(cache.requested, request) \in Target
    BY <1>7, OverlayType DEF StageTarget, Cache
  <2> QED BY <1>7, <2>1 DEF StageTarget, Transaction, LastApply, PublicStage
<1>8. CASE RejectAtGate
  BY <1>8 DEF RejectAtGate, FailedTransaction, FailedLastApply, Transaction,
     LastApply, PublicStage, Status
<1>9. CASE PassGate
  BY <1>9 DEF PassGate, Transaction, PublicStage
<1>10. ASSUME NEW r \in Register, BackendWrite(r) PROVE TypeOK'
  BY <1>10 DEF BackendWrite, Programmed
<1>11. CASE RetryAsMode
  BY <1>11 DEF RetryAsMode
<1>12. ASSUME NEW b \in Backend \cup {"mixed"}, NEW g \in BackendStage \cup {""}, BackendOk(b, g)
       PROVE  TypeOK'
  BY <1>12 DEF BackendOk, MemosAfterApply, Recorded, Transaction, LastApply, PublicStage
<1>13. ASSUME NEW b \in Backend \cup {"", "mixed"}, NEW g \in BackendStage \cup {""},
              NEW e \in BackendFailure, NEW hw \in BOOLEAN, BackendFail(b, g, e, hw)
       PROVE  TypeOK'
  <2>1. e \in Status /\ FailureStage(g, e) \in PublicStage
    BY StagesAssumption DEF Failure, FailureStage, PublicStage
  <2>2. transaction' \in Transaction
    BY <1>13, <2>1 DEF BackendFail, FailedTransaction, Transaction
  <2>3. last_apply' \in LastApply
    BY <1>13, <2>1 DEF BackendFail, FailedLastApply, Recorded, Transaction, LastApply
  <2> QED BY <1>13, <2>2, <2>3 DEF BackendFail
<1>14. CASE Complete
  BY <1>14, RefreshType, EmptyTypes DEF Complete
<1>15. ASSUME NEW e \in ReadFailure, FailAtRefresh(e) PROVE TypeOK'
  BY <1>15, RefreshType, StagesAssumption DEF FailAtRefresh, FailedTransaction,
     FailedLastApply, Transaction, LastApply, PublicStage, Failure
<1>16. CASE RefreshAfterFailure
  BY <1>16, RefreshType DEF RefreshAfterFailure
<1>17. CASE UNCHANGED vars
  BY <1>17
<1> HIDE DEF TypeOK
<1>18. CASE Daemon
  BY <1>18, <1>1, <1>2, <1>6, <1>7, <1>8, <1>9, <1>10, <1>11, <1>12, <1>13, <1>14,
     <1>15, <1>16 DEF Daemon
<1> QED BY <1>3, <1>4, <1>5, <1>17, <1>18 DEF Next

(* Every state the daemon reaches is well formed.                          *)
THEOREM TypeCorrect == Spec => []TypeOK
<1>1. Init => TypeOK
  BY InitType
<1>2. TypeOK /\ [Next]_vars => TypeOK'
  BY NextType
<1> QED BY <1>1, <1>2, PTL DEF Spec

(***************************************************************************)
(* Diagnostics                                                             *)
(***************************************************************************)

(* A request that passes the preflight checks names at least one slot.     *)
LEMMA SomethingNamed ==
  ASSUME NEW r \in Request, PreflightStatus(r) = "OK" PROVE Named(r) # {}
<1>1. r.op \in AllOps
  BY RequestOp
<1>2. CASE r.op = "set-power-limits"
  BY <1>2 DEF PreflightStatus
<1>3. CASE r.op # "set-power-limits"
  <2>1. SlotsOf(r.op) # {}
    BY <1>1, <1>3 DEF AllOps, SlotsOf
  <2> QED BY <1>3, <2>1 DEF Named, Settings
<1> QED BY <1>2, <1>3

Diagnostics == Bookkeeping /\ ViewsAgree /\ NullsTellHowFar

LEMMA DiagnosticsStep ==
  ASSUME TypeOK, Diagnostics, [Next]_vars PROVE Diagnostics'
<1> USE DEF Diagnostics, Bookkeeping, ViewsAgree, NullsTellHowFar
<1>1. CASE Seeding
  BY <1>1 DEF Seeding
<1>2. CASE Boot
  <2>1. /\ request = NoValue /\ transaction = IdleTransaction
        /\ last_apply = EmptyLastApply
    BY <1>2 DEF Boot
  <2>2. /\ pc' = "loop" /\ request' = request /\ transaction' = transaction
        /\ last_apply' = last_apply
    BY <1>2 DEF Boot
  <2>3. EmptyLastApply.error = "OK"
    BY DEF EmptyLastApply
  <2> QED BY <2>1, <2>2, <2>3
<1>3. CASE Crash
  BY <1>3 DEF Crash
<1>4. ASSUME NEW r \in Register, Drift(r) PROVE Diagnostics'
  BY <1>4 DEF Drift
<1>5. ASSUME NEW r \in Request, Receive(r) PROVE Diagnostics'
  BY <1>5, NullAssumption DEF Receive, BegunTransaction, BegunLastApply, EmptyLastApply
<1>6. CASE RejectPreflight
  <2>1. /\ pc' = "loop" /\ request' = request /\ caps' = caps /\ written' = {}
        /\ transaction'.state = "FAILED"
        /\ transaction'.operation = request.op
        /\ transaction'.error = PreflightStatus(request)
        /\ transaction'.stage = "preflight" /\ transaction'.target = NoValue
    BY <1>6 DEF RejectPreflight, FailedTransaction, TypeOK, Transaction
  <2>2. /\ last_apply'.stage = "preflight" /\ last_apply'.target = NoValue
        /\ last_apply'.error = PreflightStatus(request)
        /\ last_apply'.backend = "" /\ last_apply'.hardware_write = NoValue
    BY <1>6 DEF RejectPreflight, FailedLastApply, TypeOK, LastApply
  <2>3. PreflightStatus(request) # "OK"
    BY <1>6 DEF RejectPreflight
  <2> QED BY <2>1, <2>2, <2>3, NamesAssumption
<1>7. CASE StageTarget
  <2>1. request \in Request /\ Overlay(cache.requested, request) # NoValue
    BY <1>7, OverlayType, NullAssumption DEF StageTarget, TypeOK, Cache
  <2> QED BY <1>7, <2>1 DEF StageTarget, TypeOK, Transaction, LastApply
<1>8. CASE RejectAtGate
  <2>1. /\ pc' = "loop" /\ request' = request /\ caps' = caps /\ written' = {}
        /\ transaction'.state = "FAILED"
        /\ transaction'.operation = request.op
        /\ transaction'.error = "NOT_SUPPORTED"
        /\ transaction'.stage = "capability-gate"
        /\ transaction'.target = transaction.target
    BY <1>8 DEF RejectAtGate, FailedTransaction, TypeOK, Transaction
  <2>2. /\ last_apply'.stage = "capability-gate"
        /\ last_apply'.target = transaction.target
        /\ last_apply'.error = "NOT_SUPPORTED"
        /\ last_apply'.backend = "" /\ last_apply'.hardware_write = NoValue
    BY <1>8 DEF RejectAtGate, FailedLastApply, TypeOK, LastApply
  <2>3. transaction.target # NoValue
    BY <1>8 DEF RejectAtGate
  <2> QED BY <2>1, <2>2, <2>3, NamesAssumption
<1>9. CASE PassGate
  BY <1>9 DEF PassGate, TypeOK, Transaction
<1>10. ASSUME NEW r \in Register, BackendWrite(r) PROVE Diagnostics'
  BY <1>10 DEF BackendWrite
<1>11. CASE RetryAsMode
  BY <1>11 DEF RetryAsMode
<1>12. ASSUME NEW b \in Backend \cup {"mixed"}, NEW g \in BackendStage \cup {""}, BackendOk(b, g)
       PROVE  Diagnostics'
  <2>1. written # {}
    BY <1>12, SomethingNamed DEF BackendOk, TypeOK
  <2> QED BY <1>12, <2>1, StagesAssumption, NamesAssumption
          DEF BackendOk, Recorded, TypeOK, Transaction, LastApply
<1>13. ASSUME NEW b \in Backend \cup {"", "mixed"}, NEW g \in BackendStage \cup {""},
              NEW e \in BackendFailure, NEW hw \in BOOLEAN, BackendFail(b, g, e, hw)
       PROVE  Diagnostics'
  <2>1. e # "OK" /\ hw # NoValue
    BY StagesAssumption, NamesAssumption DEF Failure
  <2>2. FailureStage(g, e) \notin {"preflight", "capability-gate", "state-refresh"}
    BY StagesAssumption DEF FailureStage
  <2> QED BY <1>13, <2>1, <2>2 DEF BackendFail, FailedTransaction, FailedLastApply,
          Recorded, TypeOK, Transaction, LastApply
<1>14. CASE Complete
  BY <1>14 DEF Complete
<1>15. ASSUME NEW e \in ReadFailure, FailAtRefresh(e) PROVE Diagnostics'
  BY <1>15, StagesAssumption DEF FailAtRefresh, FailedTransaction, FailedLastApply,
     TypeOK, Transaction, LastApply, Failure
<1>16. CASE RefreshAfterFailure
  BY <1>16 DEF RefreshAfterFailure
<1>17. CASE UNCHANGED vars
  BY <1>17
<1> HIDE DEF Diagnostics
<1>18. CASE Daemon
  BY <1>18, <1>1, <1>2, <1>6, <1>7, <1>8, <1>9, <1>10, <1>11, <1>12, <1>13, <1>14,
     <1>15, <1>16 DEF Daemon
<1> QED BY <1>3, <1>4, <1>5, <1>17, <1>18 DEF Next

(***************************************************************************)
(* The cache                                                               *)
(***************************************************************************)

(* After a refresh, successful or not, what is shown as a backend's live   *)
(* value is in that backend's register.                                    *)
LEMMA RefreshIsCurrent ==
  ASSUME TypeOK, Refresh \/ KeepCached, NEW r \in Register, cache'.meta[r[2]] = r[1]
  PROVE  cache'.effective[r[2]] = device[r]
<1> DEFINE s == r[2]
<1>0. r[1] \in Backend /\ s \in Slot /\ r = <<r[1], s>> /\ r[1] \notin {"cache", "none"}
  BY RegisterType, MachineAssumption
<1>1. CASE Refresh
  <2>1. PICK m \in ReadSources : cache' = Snapshot(m)
    BY <1>1 DEF Refresh
  <2>2. cache'.meta[s] = ReadMeta(m)[s] /\ cache'.effective[s] = ReadValues(m)[s]
    BY <2>1 DEF Snapshot
  <2>3. m[s] = r[1]
    BY <1>0, <2>2 DEF ReadMeta
  <2>4. ReadValues(m)[s] = device[<<m[s], s>>]
    BY <1>0, <2>3, SourceType DEF ReadValues
  <2> QED BY <1>0, <2>2, <2>3, <2>4
<1>2. CASE KeepCached
  BY <1>0, <1>2 DEF KeepCached, TypeOK, Cache
<1> QED BY <1>1, <1>2

(* A register that holds v, and whose setting amw0's shadow holds as v if  *)
(* the register is amw0's, is shown as v by a successful refresh that      *)
(* shows the setting as that backend has it.                               *)
LEMMA RefreshShows ==
  ASSUME TypeOK, Refresh, NEW r \in Register, NEW v, device[r] = v,
         r[1] = "amw0" => memo[r[2]] = v,
         ShownAsAnswered(r)'
  PROVE  cache'.effective[r[2]] = v
<1> DEFINE s == r[2]
<1>1. PICK m \in ReadSources : cache' = Snapshot(m)
  BY DEF Refresh
<1>2. cache'.effective[s] = ReadValues(m)[s] /\ cache'.meta[s] = ReadMeta(m)[s] /\ s \in Slot
  BY <1>1, RegisterType DEF Snapshot
<1>3. CASE cache'.meta[s] = r[1]
  BY <1>3, RefreshIsCurrent
<1>4. CASE r[1] = "amw0" /\ cache'.meta[s] = "cache" /\ s \notin Defaulted
  <2>1. m[s] \in {"shadow", "nowhere"} /\ m[s] \notin Backend
    BY <1>2, <1>4, SourceType DEF ReadMeta
  <2>2. CASE m[s] = "shadow"
    BY <1>2, <1>4, <2>1, <2>2 DEF ReadValues
  <2>3. CASE m[s] = "nowhere"
    <3>1. ReadValues(m)[s] = NoValue \/ s \in Defaulted
      BY <1>2, <2>1, <2>3 DEF ReadValues, Defaulted
    <3> QED BY <1>2, <1>4, <2>1, <3>1 DEF ReadMeta
  <2> QED BY <2>1, <2>2, <2>3
<1> QED BY <1>3, <1>4 DEF ShownAsAnswered, Defaulted

LEMMA CacheStep ==
  ASSUME TypeOK, CacheCurrent, [Next]_vars PROVE CacheCurrent'
<1> USE DEF CacheCurrent
<1>1. CASE Boot \/ Complete \/ RefreshAfterFailure \/ \E e \in ReadFailure : FailAtRefresh(e)
  <2>1. (Refresh \/ KeepCached) /\ device' = device
    BY <1>1 DEF Boot, Complete, RefreshAfterFailure, FailAtRefresh
  <2> QED BY <2>1, RefreshIsCurrent
<1>2. ASSUME NEW r \in Register, Drift(r) PROVE CacheCurrent'
  <2>1. PICK v \in DeviceValue(r[2]) : device' = [device EXCEPT ![r] = v]
    BY <1>2 DEF Drift
  <2>2. \A q \in Register \ {r} : device'[q] = device[q]
    BY <2>1 DEF TypeOK, Device
  <2> QED BY <1>2, <2>2 DEF Drift
<1>3. ASSUME NEW r \in Request, Receive(r) PROVE CacheCurrent'
  BY <1>3 DEF Receive
<1>4. CASE RejectPreflight \/ StageTarget \/ RejectAtGate \/ PassGate
  BY <1>4 DEF RejectPreflight, StageTarget, RejectAtGate, PassGate
<1>5. CASE Seeding \/ Crash \/ RetryAsMode \/ \E r \in Register : BackendWrite(r)
  BY <1>5 DEF Seeding, Crash, RetryAsMode, BackendWrite
<1>6. ASSUME NEW b, NEW g, NEW e, NEW hw, BackendOk(b, g) \/ BackendFail(b, g, e, hw)
      PROVE  CacheCurrent'
  BY <1>6 DEF BackendOk, BackendFail
<1>7. CASE UNCHANGED vars
  BY <1>7
<1> HIDE DEF CacheCurrent
<1>8. CASE Daemon
  BY <1>8, <1>1, <1>4, <1>5, <1>6 DEF Daemon
<1> QED BY <1>2, <1>3, <1>5, <1>7, <1>8 DEF Next

(***************************************************************************)
(* Writes and what a completed command shows                               *)
(***************************************************************************)

(* No command names two halves of one register.                            *)
LEMMA NamedApart ==
  ASSUME NEW r \in Request, NEW p \in Register, p[2] \in Named(r), NEW q \in Coupled(p)
  PROVE  q[2] \notin Named(r)
<1>0. /\ q \in Register /\ p[1] = q[1] /\ p # q
      /\ {p[2], q[2]} \subseteq {"profile", "fan_boost"} /\ p[2] # q[2]
  BY RegisterType DEF Coupled
<1>1. r.op \in AllOps
  BY RequestOp
<1>2. CASE r.op = "set-power-limits"
  BY <1>0, <1>2, PowerFieldAssumption DEF Named, Settings
<1>3. CASE r.op # "set-power-limits"
  BY <1>0, <1>1, <1>3 DEF AllOps, Named, Settings, SlotsOf
<1> QED BY <1>2, <1>3

LEMMA WritesStep ==
  ASSUME TypeOK, Diagnostics, WritesStick, SuccessReflectsRequest, [Next]_vars
  PROVE  (WritesStick /\ SuccessReflectsRequest)'
<1> DEFINE Goal == (WritesStick /\ SuccessReflectsRequest)'
<1> USE DEF WritesStick, SuccessReflectsRequest
<1>1. CASE Seeding \/ Boot \/ Crash \/ StageTarget \/ RefreshAfterFailure
           \/ RejectAtGate \/ RejectPreflight
  BY <1>1 DEF Seeding, Boot, Crash, StageTarget, RefreshAfterFailure, RejectAtGate,
     RejectPreflight, FailedTransaction, Diagnostics, Bookkeeping, TypeOK, Transaction
<1>2. ASSUME NEW r \in Register, Drift(r) PROVE Goal
  <2>1. PICK v \in DeviceValue(r[2]) : device' = [device EXCEPT ![r] = v]
    BY <1>2 DEF Drift
  <2>2. \A q \in Register \ {r} : device'[q] = device[q]
    BY <2>1 DEF TypeOK, Device
  <2>3. /\ UNCHANGED <<pc, request, transaction, last_apply, cache, memo, written>>
        /\ overwritten \subseteq overwritten' /\ (r \in written => r \in overwritten')
    BY <1>2 DEF Drift, service
  <2>4. WritesStick'
    BY <2>2, <2>3 DEF TypeOK
  <2>5. SuccessReflectsRequest'
    BY <2>3 DEF ShownAsAnswered
  <2> QED BY <2>4, <2>5
<1>3. ASSUME NEW r \in Request, Receive(r) PROVE Goal
  BY <1>3 DEF Receive
<1>4. CASE PassGate
  BY <1>4 DEF PassGate, Diagnostics, Bookkeeping
<1>5. ASSUME NEW r \in Register, BackendWrite(r) PROVE Goal
  <2>1. /\ pc = "apply" /\ pc' = pc /\ request' = request /\ request \in Request
        /\ r[2] \in Named(request) /\ written' = written \cup {r}
        /\ overwritten' = overwritten
    BY <1>5 DEF BackendWrite, TypeOK
  <2>2. device'[r] = Settings(request)[r[2]]
    BY <1>5 DEF BackendWrite, Programmed
  <2>3. ASSUME NEW q \in written \ overwritten, q # r
        PROVE  device'[q] = Settings(request)[q[2]]
    <3>1. q \in Register /\ q[2] \in Named(request)
      BY <2>1 DEF TypeOK
    <3>2. q \notin Coupled(r)
      BY <2>1, <3>1, NamedApart
    <3> QED BY <1>5, <2>3, <3>1, <3>2, <2>1 DEF BackendWrite, Programmed
  <2> QED BY <2>1, <2>2, <2>3
<1>6. CASE RetryAsMode
  BY <1>6 DEF RetryAsMode
<1>7. ASSUME NEW b \in Backend \cup {"mixed"}, NEW g, BackendOk(b, g) PROVE Goal
  <2>1. /\ pc = "apply" /\ pc' = "refresh" /\ UNCHANGED <<request, written, overwritten, device>>
        /\ last_apply'.backend = b
        /\ \A s \in Named(request) : Answering(b, s) \in written
        /\ \A s \in ByAmw0(b) : memo'[s] = Settings(request)[s]
    BY <1>7 DEF BackendOk, MemosAfterApply, Recorded, TypeOK, LastApply
  <2>2. \A s \in Named(request) : Answering(b, s)' = Answering(b, s)
    BY DEF Answering
  <2> QED BY <2>1, <2>2 DEF ByAmw0
<1>8. ASSUME NEW b, NEW g, NEW e, NEW hw, BackendFail(b, g, e, hw) PROVE Goal
  BY <1>8 DEF BackendFail
<1>9. CASE Complete
  <2>1. /\ pc = "refresh" /\ pc' = "loop" /\ Refresh
        /\ UNCHANGED <<request, last_apply, device, written, overwritten>>
    BY <1>9 DEF Complete
  <2>2. ASSUME NEW s \in Named(request),
               Answering(last_apply.backend, s) \notin overwritten,
               ShownAsAnswered(Answering(last_apply.backend, s))'
        PROVE  cache'.effective[s] = Settings(request)[s]
    <3>0. PICK r : r = Answering(last_apply.backend, s)
      OBVIOUS
    <3>1. r \in written /\ r \in Register /\ r[2] = s
      BY <2>1, <3>0 DEF TypeOK, Answering
    <3>2. device[r] = Settings(request)[s] /\ (r[1] = "amw0" => memo[s] = Settings(request)[s])
      BY <2>1, <2>2, <3>0, <3>1
    <3>3. ShownAsAnswered(r)'
      BY <2>1, <2>2, <3>0 DEF ShownAsAnswered, Answering, Defaulted
    <3> QED BY <2>1, <3>1, <3>2, <3>3, RefreshShows
  <2>3. ASSUME NEW s \in Named(request)
        PROVE  Answering(last_apply.backend, s)' = Answering(last_apply.backend, s)
    BY <2>1 DEF Answering
  <2>4. Named(request)' = Named(request) /\ Settings(request)' = Settings(request)
    BY <2>1
  <2>5. WritesStick'
    BY <2>1
  <2>6. SuccessReflectsRequest'
    BY <2>1, <2>2, <2>3, <2>4 DEF ShownAsAnswered, Defaulted
  <2> QED BY <2>5, <2>6
<1>10. ASSUME NEW e, FailAtRefresh(e) PROVE Goal
  BY <1>10 DEF FailAtRefresh, FailedTransaction, TypeOK, Transaction
<1>11. CASE UNCHANGED vars
  <2>1. WritesStick'
    BY <1>11
  <2>2. SuccessReflectsRequest'
    BY <1>11 DEF ShownAsAnswered, Defaulted
  <2> QED BY <2>1, <2>2
<1> HIDE DEF WritesStick, SuccessReflectsRequest
<1>12. CASE Daemon
  BY <1>12, <1>1, <1>4, <1>5, <1>6, <1>7, <1>8, <1>9, <1>10 DEF Daemon
<1> QED BY <1>1, <1>2, <1>3, <1>11, <1>12 DEF Next

(***************************************************************************)
(* The invariant                                                           *)
(***************************************************************************)

LEMMA InitInv == ASSUME Init PROVE IInv
BY InitType DEF Init, IInv, Bookkeeping, ViewsAgree, NullsTellHowFar, CacheCurrent,
   WritesStick, SuccessReflectsRequest

(* No step of the daemon, of a client, of firmware or of a crash breaks    *)
(* the inductive invariant.                                                *)
LEMMA NextInv == ASSUME IInv, [Next]_vars PROVE IInv'
BY NextType, DiagnosticsStep, CacheStep, WritesStep DEF IInv, Diagnostics

THEOREM Invariance == Spec => []IInv
BY InitInv, NextInv, PTL DEF Spec

(* What a client reads as live while no command runs is what the machine   *)
(* holds, or what it held when firmware last changed it.                   *)
THEOREM LiveCorrect == Spec => []LiveIsCurrent
<1>1. IInv => LiveIsCurrent
  BY DEF IInv, CacheCurrent, LiveIsCurrent
<1> QED BY <1>1, Invariance, PTL

(* After a command that ends without error, what is shown from the backend *)
(* that executed it is what was asked for.                                 *)
THEOREM SuccessCorrect == Spec => []SuccessReflectsRequest
<1>1. IInv => SuccessReflectsRequest
  BY DEF IInv
<1> QED BY <1>1, Invariance, PTL

(* The transaction object and the last_apply fields tell one story.        *)
THEOREM ViewsCorrect == Spec => []ViewsAgree
<1>1. IInv => ViewsAgree
  BY DEF IInv
<1> QED BY <1>1, Invariance, PTL

(* The null fields of the diagnostics say how far the command got.         *)
THEOREM NullsCorrect == Spec => []NullsTellHowFar
<1>1. IInv => NullsTellHowFar
  BY DEF IInv
<1> QED BY <1>1, Invariance, PTL

(* A refresh that succeeds leaves the name of another stage behind, one    *)
(* that fails marks every slot as retained.                                *)
LEMMA NothingLiveStep ==
  ASSUME IInv, NothingLiveAfterFailedRefresh, [Next]_vars
  PROVE  NothingLiveAfterFailedRefresh'
<1>. SUFFICES ASSUME pc' = "loop", last_apply'.stage = "state-refresh"
              PROVE  \A s \in Slot : cache'.meta[s] \notin Backend
  BY DEF NothingLiveAfterFailedRefresh
<1>1. CASE pc = "loop" /\ UNCHANGED <<last_apply, cache>>
  BY <1>1 DEF NothingLiveAfterFailedRefresh
<1>2. ASSUME NEW e, FailAtRefresh(e)
      PROVE  \A s \in Slot : cache'.meta[s] \notin Backend
  BY <1>2, MachineAssumption DEF FailAtRefresh, KeepCached, IInv, TypeOK, Cache
<1>3. CASE Boot
  <2>1. pc = "boot" /\ last_apply' = last_apply
    BY <1>3 DEF Boot
  <2>2. last_apply = EmptyLastApply
    BY <2>1 DEF IInv, Bookkeeping
  <2>. QED BY <2>1, <2>2 DEF EmptyLastApply
<1>4. CASE RejectPreflight \/ RejectAtGate
  <2>1. last_apply \in LastApply
    BY DEF IInv, TypeOK
  <2>2. last_apply'.stage \in {"preflight", "capability-gate"}
    BY <1>4, <2>1 DEF RejectPreflight, RejectAtGate, FailedLastApply, LastApply
  <2>. QED BY <2>2
<1>5. CASE Complete \/ RefreshAfterFailure
  BY <1>5 DEF Complete, RefreshAfterFailure, IInv, Bookkeeping
<1>. QED
  BY <1>1, <1>2, <1>3, <1>4, <1>5
  DEF Next, Daemon, Seeding, Crash, Drift, Receive, StageTarget, PassGate,
      BackendWrite, RetryAsMode, BackendOk, BackendFail, vars, service

(* When the last command ended at a failed refresh nothing is shown as     *)
(* live.                                                                   *)
THEOREM NothingLiveCorrect == Spec => []NothingLiveAfterFailedRefresh
<1>1. Init => NothingLiveAfterFailedRefresh
  BY DEF Init, NothingLiveAfterFailedRefresh
<1> QED BY <1>1, NothingLiveStep, Invariance, PTL DEF Spec

(***************************************************************************)
(* Refinement                                                              *)
(***************************************************************************)

(* ControlService speaks of the same slots, settings and requests.         *)
LEMMA SameVocabulary ==
  /\ Service!Slot = Slot
  /\ Service!Register = Register
  /\ Service!Device = Device
  /\ Service!Request = Request
  /\ \A s : Service!DeviceValue(s) = DeviceValue(s)
  /\ \A r : Service!Named(r) = Named(r) /\ Service!Settings(r) = Settings(r)
  /\ \A d, r, v : Service!Programmed(d, r, v) = Programmed(d, r, v)
<1>1. Service!Slot = Slot
  BY DEF Service!Slot, Slot, Service!SlotsOf, SlotsOf
<1>2. \A s : Service!DeviceValue(s) = DeviceValue(s)
  BY DEF Service!DeviceValue, DeviceValue
<1>3. Service!SettingValue = SettingValue
  BY DEF Service!SettingValue, SettingValue
<1>0. Service!Register = Register
  BY <1>1 DEF Service!Register, Register, Service!StandardSlot, StandardSlot
<1>4. Service!Device = Device
  BY <1>0, <1>2, <1>3 DEF Service!Device, Device
<1>5. Service!Request = Request
  BY DEF Service!Request, Request, Service!ArgumentOf, ArgumentOf
<1>6. \A r : Service!Settings(r) = Settings(r)
  BY DEF Service!Settings, Settings, Service!SlotsOf, SlotsOf
<1>7. \A r : Service!Named(r) = Named(r)
  BY <1>6 DEF Service!Named, Named
<1>8. \A r : Service!Coupled(r) = Coupled(r)
  BY <1>0 DEF Service!Coupled, Coupled
<1>9. \A d, r, v : Service!Programmed(d, r, v) = Programmed(d, r, v)
  BY <1>0, <1>4, <1>8 DEF Service!Programmed, Programmed
<1> QED BY <1>0, <1>1, <1>2, <1>4, <1>5, <1>6, <1>7, <1>9

(* The daemon's place, as its clients see it, before and after a step.     *)
LEMMA Modes ==
  /\ pc \in {"down", "boot"} => AbstractMode = "down" /\ AbstractOutcome = "none"
  /\ pc = "loop" => AbstractMode = "idle"
  /\ pc \notin {"down", "boot", "loop"} =>
       AbstractMode = "busy" /\ AbstractOutcome = "none"
  /\ pc' \in {"down", "boot"} => AbstractMode' = "down" /\ AbstractOutcome' = "none"
  /\ pc' = "loop" => AbstractMode' = "idle"
  /\ pc' \notin {"down", "boot", "loop"} =>
       AbstractMode' = "busy" /\ AbstractOutcome' = "none"
BY DEF AbstractMode, AbstractOutcome

LEMMA InitRefines == ASSUME Init PROVE Service!Init
BY Modes, SameVocabulary DEF Init, Service!Init

(* A command that stays under way and touches no register is invisible.    *)
LEMMA InternalStep ==
  ASSUME TypeOK, TypeOK', UNCHANGED <<request, written, device>>,
         \/ pc \in {"down", "boot"} /\ pc' \in {"down", "boot"}
         \/ pc \notin {"down", "boot", "loop"} /\ pc' \notin {"down", "boot", "loop"}
  PROVE  UNCHANGED Service!vars
<1>1. AbstractMode' = AbstractMode /\ AbstractOutcome' = AbstractOutcome
  BY DEF AbstractMode, AbstractOutcome
<1> QED BY <1>1 DEF Service!vars

(* Every step of the daemon is a step of the service, or invisible in it.  *)
LEMMA NextRefines ==
  ASSUME IInv, IInv', [Next]_vars PROVE [Service!Next]_Service!vars
<1> USE Modes, SameVocabulary
<1>0. TypeOK /\ TypeOK' /\ Diagnostics /\ Diagnostics'
  BY DEF IInv, Diagnostics
<1>1. CASE Seeding \/ StageTarget \/ PassGate \/ RetryAsMode
  BY <1>0, <1>1, InternalStep DEF Seeding, StageTarget, PassGate, RetryAsMode
<1>2. CASE Boot
  <2>1. request = NoValue /\ written = {}
    BY <1>0, <1>2 DEF Boot, Diagnostics, Bookkeeping
  <2> QED BY <1>2, <2>1 DEF Boot, Service!Start, Service!Next, AbstractOutcome
<1>3. CASE Crash
  BY <1>3 DEF Crash, Service!Crash, Service!Next
<1>4. ASSUME NEW r \in Register, Drift(r) PROVE Service!Drift
  BY <1>0, <1>4 DEF Drift, Service!Drift, TypeOK, AbstractOutcome, AbstractMode
<1>5. ASSUME NEW r \in Request, Receive(r) PROVE Service!Accept
  BY <1>0, <1>5 DEF Receive, Service!Accept
<1>6. CASE RejectPreflight \/ RejectAtGate
  <2>1. /\ pc' = "loop" /\ written' = {} /\ written = {}
        /\ UNCHANGED <<request, device>>
        /\ last_apply'.hardware_write = NoValue
        /\ request' # NoValue /\ AbstractMode = "busy"
    <3>1. /\ pc \in {"preflight", "gate"} /\ pc' = "loop"
          /\ UNCHANGED <<request, device, written>>
      BY <1>6 DEF RejectPreflight, RejectAtGate
    <3>2. last_apply'.hardware_write = last_apply.hardware_write
      BY <1>0, <1>6 DEF RejectPreflight, RejectAtGate, FailedLastApply, TypeOK, LastApply
    <3>3. request # NoValue
      BY <1>0, <3>1, NullAssumption DEF TypeOK
    <3> QED BY <1>0, <3>1, <3>2, <3>3 DEF Diagnostics, Bookkeeping
  <2> QED BY <2>1 DEF Service!Next, Service!Reject, Service!Answer, AbstractOutcome
<1>7. ASSUME NEW r \in Register, BackendWrite(r) PROVE Service!Write(r)
  <2>1. device' \in Service!Programmed(device, r, Settings(request)[r[2]])
    BY <1>7 DEF BackendWrite
  <2> QED BY <1>0, <1>7, <2>1 DEF BackendWrite, Service!Write
<1>8. ASSUME NEW b, NEW g, NEW e, NEW hw, BackendOk(b, g) \/ BackendFail(b, g, e, hw)
      PROVE  UNCHANGED Service!vars
  BY <1>0, <1>8, InternalStep DEF BackendOk, BackendFail
<1>9. CASE Complete
  <2>1. /\ AbstractMode = "busy" /\ request' # NoValue
        /\ last_apply'.hardware_write # NoValue
        /\ \A s \in Named(request) : Answering(last_apply.backend, s) \in written
    BY <1>0, <1>9, NullAssumption, NamesAssumption
       DEF Complete, Diagnostics, Bookkeeping, TypeOK, IInv, WritesStick
  <2>3. ASSUME NEW s \in Named(request) PROVE \E b \in Backend : <<b, s>> \in written
    <3>1. PICK b : Answering(last_apply.backend, s) = <<b, s>>
      BY DEF Answering
    <3>2. <<b, s>> \in written /\ <<b, s>> \in Register
      BY <1>0, <2>1, <3>1 DEF TypeOK
    <3> QED BY <3>2 DEF Register
  <2>2. AbstractOutcome' = "done"
    BY <1>9, <2>1 DEF Complete, AbstractOutcome, IdleTransaction
  <2> QED BY <1>9, <2>1, <2>2, <2>3 DEF Complete, Service!Next, Service!Complete, Service!Answer
<1>10. ASSUME NEW e, FailAtRefresh(e) \/ RefreshAfterFailure PROVE Service!Abort
  <2>1. /\ AbstractMode = "busy" /\ request' # NoValue /\ pc' = "loop"
        /\ last_apply'.hardware_write # NoValue /\ transaction'.state = "FAILED"
        /\ UNCHANGED <<request, written, device>>
    <3>1. /\ pc \in {"refresh", "failrefresh"} /\ pc' = "loop"
          /\ UNCHANGED <<request, written, device>>
      BY <1>10 DEF FailAtRefresh, RefreshAfterFailure
    <3>2. last_apply'.hardware_write = last_apply.hardware_write
      BY <1>0, <1>10 DEF FailAtRefresh, RefreshAfterFailure, FailedLastApply, TypeOK,
         LastApply
    <3>3. transaction'.state = "FAILED"
      BY <1>0, <1>10 DEF FailAtRefresh, RefreshAfterFailure, FailedTransaction, TypeOK,
         Transaction, Diagnostics, Bookkeeping
    <3>4. request # NoValue
      BY <1>0, <3>1, NullAssumption DEF TypeOK
    <3> QED BY <1>0, <3>1, <3>2, <3>3, <3>4 DEF Diagnostics, Bookkeeping
  <2>2. AbstractOutcome' = "aborted"
    BY <2>1 DEF AbstractOutcome
  <2> QED BY <2>1, <2>2 DEF Service!Abort, Service!Answer
<1>11. CASE UNCHANGED vars
  BY <1>11 DEF Service!vars, AbstractMode, AbstractOutcome
<1>12. CASE Daemon
  BY <1>12, <1>1, <1>2, <1>6, <1>7, <1>8, <1>9, <1>10 DEF Daemon, Service!Next
<1> QED BY <1>3, <1>4, <1>5, <1>11, <1>12 DEF Next, Service!Next

(* The daemon implements the service it promises: at most one command at a *)
(* time, nothing programmed outside a command or by a rejected one, and    *)
(* every named setting programmed by a command reported as done.           *)
THEOREM Refinement == Spec => ImplementsService
<1>1. Init => Service!Init
  BY InitRefines
<1>2. IInv /\ IInv' /\ [Next]_vars => [Service!Next]_Service!vars
  BY NextRefines
<1> QED BY <1>1, <1>2, Invariance, PTL DEF Spec, ImplementsService, Service!Spec

================================================================================
