------------------------------ MODULE Transaction ------------------------------
(***************************************************************************)
(* The daemon's command path: lcc_transaction_execute and what surrounds   *)
(* it (manager construction, the state reader's refresh, the one-command-  *)
(* at-a-time D-Bus loop), over the backends of the machine reduced to      *)
(* their contract.  A setting may have a register in each of two backends, *)
(* only one of which a command programs and only one of which a read       *)
(* shows.  A command is cut where the code calls a backend, because that   *)
(* is where firmware, other tools and a crash of the daemon get in         *)
(* between.                                                                *)
(***************************************************************************)
EXTENDS LccTypes, Naturals

CONSTANTS
  BackendStage,    \* the stages a backend reports from inside an apply
  BackendFailure,  \* the ways an apply can fail
  ReadFailure,     \* the ways a state read can fail
  Probed,          \* the sets of operations probe can report as supported
  Seed,            \* what amw0's shadow starts from
  StandardDefault, \* what the standard backend reports without reading it
  DriftBound       \* bound: registers firmware changes between two refreshes

ASSUME StagesAssumption ==
  /\ Probed \subseteq SUBSET Ops
  /\ BackendFailure \subseteq Failure
  /\ ReadFailure \subseteq Failure
  /\ "" \notin BackendStage
  /\ BackendStage \cap {"preflight", "capability-gate", "backend-route",
                        "apply", "state-refresh"} = {}

(* amw0 keeps a shadow of every setting it has; nobody reads a fan table   *)
(* back.                                                                   *)
Shadowed == IF "amw0" \in Backend THEN Slot ELSE {}
Readable == {r \in Register : r[2] # "fan_table"}

(* The standard backend is read first, and amw0's reading overlaid.        *)
Layered == "standard" \in Backend

ASSUME ShadowAssumption ==
  /\ \A s \in Shadowed : Seed[s] \in DeviceValue(s) \cup {NoValue}
  /\ StandardDefault \in Target

ASSUME NullAssumption ==
  /\ NoValue \notin Target
  /\ NoValue \notin Request

VARIABLES
  pc,           \* where the daemon stands; "down" when it does not run
  caps,         \* the operations probe found supported
  request,      \* the command being executed, or the last one
  retried,      \* transaction_apply fell back from profile to mode
  transaction,  \* state_cache.transaction
  last_apply,   \* state_cache.last_apply
  cache,        \* state_cache.requested, .effective and .effective_meta
  memo,         \* amw0's shadow state
  device,       \* what the machine's registers hold
  written,      \* ghost: the registers this command has programmed
  overwritten,  \* ghost: those of them firmware changed again
  stale         \* ghost: registers firmware changed since the last refresh

service == <<transaction, last_apply, cache>>
ghosts  == <<written, overwritten, stale>>
vars == <<pc, caps, request, retried, service, memo, device, ghosts>>

PublicStage == {"", "preflight", "capability-gate", "backend-route", "apply",
                "state-refresh"} \cup BackendStage

Transaction ==
  [state     : {"IDLE", "PENDING", "FAILED"},
   operation : AllOps \cup {""},
   stage     : PublicStage,
   target    : Target \cup {NoValue},
   error     : Status]

LastApply ==
  [stage          : PublicStage,
   backend        : Backend \cup {"", "mixed"},
   target         : Target \cup {NoValue},
   error          : Status,
   hardware_write : BOOLEAN \cup {NoValue}]

(* Where a value is said to come from: a register just read, the daemon's  *)
(* memory, or nowhere.                                                     *)
Source == Backend \cup {"cache", "none"}

Cache == [requested : Target, effective : Target, meta : [Slot -> Source]]

Memo == {m \in Target : \A s \in Slot :
           m[s] \in IF s \in Shadowed THEN DeviceValue(s) \cup {NoValue} ELSE {NoValue}}

--------------------------------------------------------------------------------

IdleTransaction ==
  [state |-> "IDLE", operation |-> "", stage |-> "", target |-> NoValue,
   error |-> "OK"]

EmptyLastApply ==
  [stage |-> "", backend |-> "", target |-> NoValue, error |-> "OK",
   hardware_write |-> NoValue]

(* transaction_begin, last_apply_begin and the preflight stage mark.       *)
BegunTransaction(r) ==
  [state |-> "PENDING", operation |-> r.op, stage |-> "preflight",
   target |-> NoValue, error |-> "OK"]

BegunLastApply_KeepsOld == [last_apply EXCEPT !.stage = "preflight"]
BegunLastApply == [EmptyLastApply EXCEPT !.stage = "preflight"]

(* transaction_fail: both views get the failure, each in its own fields.   *)
FailedTransaction(stage, target, status) ==
  [transaction EXCEPT !.state = "FAILED", !.stage = stage, !.target = target,
                      !.error = status]

FailedLastApply_NoError(la, stage, backend, target, status) ==
  [la EXCEPT !.stage = stage, !.backend = backend, !.target = target]
FailedLastApply(la, stage, backend, target, status) ==
  [la EXCEPT !.stage = stage, !.backend = backend, !.target = target,
             !.error = status]

(* Where a read can find each setting: in the register of a backend, in    *)
(* amw0's shadow, or nowhere.  An amw0 that answers shows all its shadow   *)
(* holds, and its own profile in place of platform_profile's; one that     *)
(* does not is left out.                                                   *)
Sources == [Slot -> Backend \cup {"shadow", "nowhere"}]
Amw0Answers(m) == ~Layered \/ \E s \in Slot : m[s] \in {"amw0", "shadow"}
ReadSources ==
  {m \in Sources :
     \A s \in Slot :
       /\ m[s] \in Backend => <<m[s], s>> \in Readable
       /\ m[s] = "shadow" => memo[s] # NoValue
       /\ Amw0Answers(m) => /\ m[s] = "nowhere" => memo[s] = NoValue
                            /\ s = "profile" => m[s] # "standard"}

ReadValues(m) ==
  [s \in Slot |-> CASE m[s] \in Backend -> device[<<m[s], s>>]
                    [] m[s] = "shadow"  -> memo[s]
                    [] m[s] = "nowhere" -> IF Layered THEN StandardDefault[s]
                                                      ELSE NoValue]

ReadMeta(m) ==
  [s \in Slot |-> IF m[s] \in Backend THEN m[s]
                  ELSE IF ReadValues(m)[s] = NoValue THEN "none" ELSE "cache"]

Snapshot(m) ==
  [requested |-> ReadValues(m), effective |-> ReadValues(m), meta |-> ReadMeta(m)]

(* amw0's shadow follows amw0's own registers, as far as they were read:   *)
(* those of the settings shown from them, and those of hidden, settings    *)
(* that are shown from the other backend.                                  *)
ReadMemo(m, hidden) ==
  [s \in Slot |-> IF m[s] = "amw0" \/ s \in hidden THEN device[<<"amw0", s>>] ELSE memo[s]]

(* lcc_state_reader_refresh, success: the snapshot replaces the cache.     *)
Refresh ==
  \E m \in ReadSources :
    \E hidden \in SUBSET {s \in Slot : m[s] = "standard" /\ <<"amw0", s>> \in Readable} :
      /\ cache' = Snapshot(m)
      /\ memo' = ReadMemo(m, hidden)
      /\ stale' = {}

(* lcc_state_reader_refresh, failure: the old snapshot stays, and what it  *)
(* shows as effective is marked as retained.                               *)
KeepCached_Unmarked == UNCHANGED <<cache, memo, stale>>
KeepCached ==
  /\ cache' = [cache EXCEPT !.meta =
                 [s \in Slot |-> IF cache.effective[s] = NoValue THEN "none"
                                                                  ELSE "cache"]]
  /\ UNCHANGED <<memo, stale>>

--------------------------------------------------------------------------------

Init ==
  /\ pc = "down"
  /\ caps = {}
  /\ request = NoValue
  /\ retried = FALSE
  /\ transaction = IdleTransaction
  /\ last_apply = EmptyLastApply
  /\ cache = [requested |-> EmptyTarget, effective |-> EmptyTarget,
              meta |-> [s \in Slot |-> "none"]]
  /\ memo = EmptyTarget
  /\ device \in Device
  /\ written = {}
  /\ overwritten = {}
  /\ stale = {}

(* The backend seeds its shadow while the daemon is being built.           *)
Seeding ==
  /\ pc = "down"
  /\ pc' = "boot"
  /\ memo' = [s \in Slot |-> IF s \in Shadowed THEN Seed[s] ELSE NoValue]
  /\ UNCHANGED <<caps, request, retried, service, device, ghosts>>

(* lcc_manager_init: probe, then the first refresh.  When either fails the *)
(* daemon exits, which is Crash.                                           *)
Boot ==
  /\ pc = "boot"
  /\ caps' \in Probed
  /\ Refresh
  /\ pc' = "loop"
  /\ UNCHANGED <<request, retried, transaction, last_apply, device, written, overwritten>>

(* The process ends, wherever it stands: all it knew is lost, the machine  *)
(* keeps what was programmed.                                              *)
Crash ==
  /\ pc # "down"
  /\ pc' = "down"
  /\ caps' = {}
  /\ request' = NoValue
  /\ retried' = FALSE
  /\ transaction' = IdleTransaction
  /\ last_apply' = EmptyLastApply
  /\ cache' = [requested |-> EmptyTarget, effective |-> EmptyTarget,
               meta |-> [s \in Slot |-> "none"]]
  /\ memo' = EmptyTarget
  /\ written' = {}
  /\ overwritten' = {}
  /\ stale' = {}
  /\ UNCHANGED device

(* Firmware, a hotkey or another tool changes a setting.                   *)
Drift(r) ==
  /\ Cardinality(stale \cup {r}) <= DriftBound
  /\ \E v \in DeviceValue(r[2]) \ {device[r]} : device' = [device EXCEPT ![r] = v]
  /\ stale' = IF pc = "down" THEN {} ELSE stale \cup {r}
  /\ overwritten' = overwritten \cup ({r} \cap written)
  /\ UNCHANGED <<pc, caps, request, retried, service, memo, written>>

(* A mutating D-Bus method reaches lcc_transaction_execute.                *)
Receive(r) ==
  /\ pc = "loop"
  /\ pc' = "preflight"
  /\ request' = r
  /\ transaction' = BegunTransaction(r)
  /\ last_apply' = BegunLastApply
  /\ written' = {}
  /\ overwritten' = {}
  /\ UNCHANGED <<caps, retried, cache, memo, device, stale>>

(* Target composition refuses the request: no target is published.         *)
RejectPreflight_NoReply ==
  /\ pc = "preflight"
  /\ PreflightStatus(request) # "OK"
  /\ transaction' = [transaction EXCEPT !.state = "PENDING"]
  /\ UNCHANGED <<pc, caps, request, retried, last_apply, cache, memo, device, ghosts>>
RejectPreflight ==
  /\ pc = "preflight"
  /\ PreflightStatus(request) # "OK"
  /\ pc' = "loop"
  /\ transaction' = FailedTransaction("preflight", NoValue, PreflightStatus(request))
  /\ last_apply' = FailedLastApply(last_apply, "preflight", "", NoValue,
                                   PreflightStatus(request))
  /\ UNCHANGED <<caps, request, retried, cache, memo, device, ghosts>>

(* The pending target is the requested state overlaid with the request.    *)
StageTarget ==
  LET target == Overlay(cache.requested, request)
  IN  /\ pc = "preflight"
      /\ PreflightStatus(request) = "OK"
      /\ pc' = "gate"
      /\ transaction' = [transaction EXCEPT !.stage = "capability-gate",
                                            !.target = target]
      /\ last_apply' = [last_apply EXCEPT !.stage = "capability-gate",
                                          !.target = target]
      /\ UNCHANGED <<caps, request, retried, cache, memo, device, ghosts>>

RejectAtGate ==
  /\ pc = "gate"
  /\ request.op \notin caps
  /\ pc' = "loop"
  /\ transaction' = FailedTransaction("capability-gate", transaction.target,
                                      "NOT_SUPPORTED")
  /\ last_apply' = FailedLastApply(last_apply, "capability-gate", "",
                                   transaction.target, "NOT_SUPPORTED")
  /\ UNCHANGED <<caps, request, retried, cache, memo, device, ghosts>>

PassGate ==
  /\ pc = "gate"
  /\ request.op \in caps
  /\ pc' = "apply"
  /\ transaction' = [transaction EXCEPT !.stage = "backend-route"]
  /\ UNCHANGED <<caps, request, retried, last_apply, cache, memo, device, ghosts>>

--------------------------------------------------------------------------------
(* Inside lcc_backend_apply_*.                                             *)

(* One write.  Only limits reach both backends in one command, split or    *)
(* passed on after powercap took the first of them: any other call is      *)
(* passed on before anything was written.                                  *)
BackendWrite(r) ==
  /\ pc = "apply"
  /\ r[2] \in Named(request)
  /\ r \notin written
  /\ request.op # "set-power-limits" => \A q \in written : q[1] = r[1]
  /\ Settings(request)[r[2]] \in DeviceValue(r[2])
  /\ device' \in Programmed(device, r, Settings(request)[r[2]])
  /\ written' = written \cup {r}
  /\ UNCHANGED <<pc, caps, request, retried, service, memo, overwritten, stale>>

(* SetProfile with a name the backend does not know, when it is a mode's   *)
(* name: the same call goes on as a mode change.                           *)
RetryAsMode ==
  /\ pc = "apply"
  /\ request.op = "set-profile"
  /\ request.arg \in Mode
  /\ ~retried
  /\ written = {}
  /\ "NOT_SUPPORTED" \in BackendFailure
  /\ retried' = TRUE
  /\ UNCHANGED <<pc, caps, request, service, memo, device, ghosts>>

(* What transaction_execute copies from the backend's result, whatever the *)
(* status; an absent stage counts as "apply".                              *)
Recorded(executor, stage, hw) ==
  [last_apply EXCEPT !.hardware_write = hw, !.backend = executor,
                     !.stage = IF stage = "" THEN "apply" ELSE stage]

(* A request for limits of both kinds is split where both backends can     *)
(* apply limits, and "mixed" is then the name of its executor.             *)
Split ==
  /\ request.op = "set-power-limits" /\ Backend = {"standard", "amw0"}
  /\ Named(request) \cap StandardSlot # {} /\ Named(request) \ StandardSlot # {}
Executors == Backend \cup {e \in {"mixed"} : Split}

(* The register that stands for a setting the executor answered OK for.    *)
Answering(executor, s) ==
  <<IF executor # "mixed" THEN executor
    ELSE IF s \in StandardSlot THEN "standard" ELSE "amw0", s>>

(* The settings that amw0 carried out.                                     *)
ByAmw0(executor) == {s \in Named(request) : Answering(executor, s)[1] = "amw0"}

(* The shadows a successful apply can leave: what amw0 carried out as      *)
(* asked, the other half of a rewritten control byte as it was written;    *)
(* what the standard backend carried out is none of amw0's business.       *)
MemosAfterApply_Forgets(executor) == {memo}
MemosAfterApply(executor) ==
  {m \in Memo :
     /\ \A s \in ByAmw0(executor) : m[s] = Settings(request)[s]
     /\ \A s \in Slot \ ByAmw0(executor) :
          (\A t \in ByAmw0(executor) : <<"amw0", s>> \notin Coupled(<<"amw0", t>>)) =>
            m[s] = memo[s]}

BackendOk_Early(executor, stage) ==
  /\ pc = "apply"
  /\ executor \in Executors
  /\ written # {}
  /\ pc' = "refresh"
  /\ last_apply' = Recorded(executor, stage, TRUE)
  /\ transaction' = [transaction EXCEPT !.stage = "state-refresh"]
  /\ memo' \in MemosAfterApply(executor)
  /\ retried' = FALSE
  /\ UNCHANGED <<caps, request, cache, device, ghosts>>
BackendOk(executor, stage) ==
  /\ pc = "apply"
  /\ executor \in Executors
  /\ \A s \in Named(request) : Answering(executor, s) \in written
  /\ pc' = "refresh"
  /\ last_apply' = Recorded(executor, stage, TRUE)
  /\ transaction' = [transaction EXCEPT !.stage = "state-refresh"]
  /\ memo' \in MemosAfterApply(executor)
  /\ retried' = FALSE
  /\ UNCHANGED <<caps, request, cache, device, ghosts>>

(* The stage a failed apply is published under.                            *)
FailureStage(stage, status) ==
  IF stage # "" THEN stage
  ELSE IF status = "NOT_SUPPORTED" THEN "backend-route" ELSE "apply"

BackendFail(executor, stage, status, hw) ==
  /\ pc = "apply"
  /\ executor \in Executors \cup {""}
  /\ executor = "" => written = {}
  /\ hw => \E r \in written : executor \in {r[1], "mixed"}
  /\ ~ (/\ status = "NOT_SUPPORTED" /\ request.op = "set-profile"
        /\ request.arg \in Mode /\ ~retried)
  /\ pc' = "failrefresh"
  /\ transaction' = FailedTransaction(FailureStage(stage, status),
                                      transaction.target, status)
  /\ last_apply' = FailedLastApply(Recorded(executor, stage, hw),
                                   FailureStage(stage, status), executor,
                                   transaction.target, status)
  /\ retried' = FALSE
  /\ UNCHANGED <<caps, request, cache, memo, device, ghosts>>

--------------------------------------------------------------------------------

(* The apply succeeded and so does the refresh: the command is complete.   *)
Complete ==
  /\ pc = "refresh"
  /\ Refresh
  /\ pc' = "loop"
  /\ transaction' = IdleTransaction
  /\ UNCHANGED <<caps, request, retried, last_apply, device, written, overwritten>>

(* The apply succeeded, the refresh did not: the command is reported as    *)
(* failed although its settings are programmed.                            *)
FailAtRefresh(status) ==
  /\ pc = "refresh"
  /\ KeepCached
  /\ pc' = "loop"
  /\ transaction' = FailedTransaction("state-refresh", transaction.target, status)
  /\ last_apply' = FailedLastApply(last_apply, "state-refresh", last_apply.backend,
                                   transaction.target, status)
  /\ UNCHANGED <<caps, request, retried, device, written, overwritten>>

(* After a failed apply the state is read back too; that result is not     *)
(* looked at.                                                              *)
RefreshAfterFailure ==
  /\ pc = "failrefresh"
  /\ Refresh \/ (ReadFailure # {} /\ KeepCached)
  /\ pc' = "loop"
  /\ UNCHANGED <<caps, request, retried, transaction, last_apply, device,
                 written, overwritten>>

--------------------------------------------------------------------------------

Daemon ==
  \/ Seeding \/ Boot
  \/ RejectPreflight \/ StageTarget \/ RejectAtGate \/ PassGate
  \/ \E r \in Register : BackendWrite(r)
  \/ RetryAsMode
  \/ \E b \in Backend \cup {"mixed"}, g \in BackendStage \cup {""} : BackendOk(b, g)
  \/ \E b \in Backend \cup {"", "mixed"}, g \in BackendStage \cup {""},
        status \in BackendFailure, hw \in BOOLEAN : BackendFail(b, g, status, hw)
  \/ Complete
  \/ \E status \in ReadFailure : FailAtRefresh(status)
  \/ RefreshAfterFailure

Next ==
  \/ Daemon
  \/ \E r \in Request : Receive(r)
  \/ \E r \in Register : Drift(r)
  \/ Crash

Spec == Init /\ [][Next]_vars

(* The daemon's single thread keeps running while a command is under way.  *)
FairSpec == Spec /\ WF_vars(Daemon)

--------------------------------------------------------------------------------

TypeOK ==
  /\ pc \in {"down", "boot", "loop", "preflight", "gate", "apply", "refresh",
             "failrefresh"}
  /\ caps \subseteq Ops
  /\ request \in Request \cup {NoValue}
  /\ pc \notin {"down", "boot", "loop"} => request \in Request
  /\ retried \in BOOLEAN
  /\ transaction \in Transaction
  /\ last_apply \in LastApply
  /\ cache \in Cache
  /\ memo \in Memo
  /\ device \in Device
  /\ written \subseteq Register
  /\ overwritten \subseteq written
  /\ stale \subseteq Register

(* What GetState shows while no command runs as a backend's live value is  *)
(* what that backend's register holds, unless firmware changed it after    *)
(* that refresh: a command never leaves behind an outdated value that      *)
(* claims to be live, whether it succeeded, failed half way or could not   *)
(* read back.                                                              *)
LiveIsCurrent ==
  pc = "loop" =>
    \A r \in Register \ stale :
      cache.meta[r[2]] = r[1] => cache.effective[r[2]] = device[r]

(* The slots a layered read answers by itself, with a fixed value.         *)
Defaulted == {s \in Slot : Layered /\ StandardDefault[s] # NoValue}

(* The setting is shown as its executor has it, read or remembered.        *)
ShownAsAnswered(r) ==
  \/ cache.meta[r[2]] = r[1]
  \/ r[1] = "amw0" /\ cache.meta[r[2]] = "cache" /\ r[2] \notin Defaulted

(* After a command that ends in IDLE, GetState shows each setting it named *)
(* as asked wherever it shows the setting from the backend that executed   *)
(* it (last_apply_backend), read from the register or from amw0's memory,  *)
(* unless firmware undid it meanwhile.  A setting the other backend shows  *)
(* (platform_profile executes, amw0's profile is on view) is not promised. *)
SuccessReflectsRequest ==
  pc = "loop" /\ request # NoValue /\ transaction.state = "IDLE" =>
    \A s \in Named(request) :
      LET r == Answering(last_apply.backend, s)
      IN  r \notin overwritten /\ ShownAsAnswered(r) =>
            cache.effective[s] = Settings(request)[s]

(* Between commands the transaction object and the last_apply fields tell  *)
(* one story: never PENDING, clean and error-free when IDLE, and when      *)
(* FAILED the same stage, target and error in both                         *)
(* (docs/state-contract.md, "Transaction Object").                         *)
ViewsAgree ==
  pc = "loop" =>
    \/ transaction = IdleTransaction /\ last_apply.error = "OK"
    \/ /\ transaction.state = "FAILED"
       /\ transaction.operation = request.op
       /\ transaction.error # "OK"
       /\ transaction.stage = last_apply.stage
       /\ transaction.target = last_apply.target
       /\ transaction.error = last_apply.error

(* The null fields of the diagnostics say how far the command got          *)
(* (docs/observability.md): no target when it failed before composition,   *)
(* no backend and no hardware_write exactly when it failed before the      *)
(* backend, which an operation the probe did not find never reaches, and a *)
(* reported hardware write only when a setting was really programmed.      *)
NullsTellHowFar ==
  pc = "loop" /\ request # NoValue =>
    /\ last_apply.target = NoValue <=> last_apply.stage = "preflight"
    /\ last_apply.hardware_write = NoValue <=>
         last_apply.stage \in {"preflight", "capability-gate"}
    /\ last_apply.hardware_write = NoValue => last_apply.backend = "" /\ written = {}
    /\ last_apply.hardware_write # NoValue => request.op \in caps
    /\ last_apply.hardware_write = TRUE => written # {}

(* When the refresh of the last command failed nothing is shown as live:   *)
(* "cache means daemon-retained and not confirmed by the current refresh"  *)
(* (docs/state-contract.md:149).                                           *)
NothingLiveAfterFailedRefresh ==
  pc = "loop" /\ last_apply.stage = "state-refresh" =>
    \A s \in Slot : cache.meta[s] \notin Backend

--------------------------------------------------------------------------------
(* The strengthenings that make these invariants inductive.                *)

(* What each stage of a command knows about its own bookkeeping.           *)
Bookkeeping ==
  /\ pc \in {"down", "boot"} =>
       /\ request = NoValue /\ written = {}
       /\ transaction = IdleTransaction /\ last_apply = EmptyLastApply
  /\ pc \notin {"down", "boot", "loop"} =>
       /\ transaction.operation = request.op
       /\ transaction.target = last_apply.target
       /\ transaction.error = last_apply.error
  /\ pc \in {"preflight", "gate", "apply"} =>
       /\ last_apply.backend = ""
       /\ last_apply.hardware_write = NoValue
       /\ last_apply.error = "OK"
  /\ pc = "preflight" => last_apply.target = NoValue
  /\ pc \in {"preflight", "gate"} => written = {}
  /\ pc \in {"gate", "apply", "refresh", "failrefresh"} =>
       PreflightStatus(request) = "OK" /\ last_apply.target # NoValue
  /\ pc \in {"apply", "refresh", "failrefresh"} => request.op \in caps
  /\ pc \in {"refresh", "failrefresh"} =>
       /\ last_apply.hardware_write # NoValue
       /\ last_apply.hardware_write = TRUE => written # {}
       /\ last_apply.stage \notin {"preflight", "capability-gate", "state-refresh"}
  /\ pc = "refresh" =>
       last_apply.hardware_write = TRUE /\ last_apply.error = "OK"
  /\ pc = "failrefresh" =>
       /\ transaction.state = "FAILED"
       /\ transaction.error # "OK"
       /\ transaction.stage = last_apply.stage

(* Between the last refresh and the next write the cache is as current as  *)
(* at rest.                                                                *)
CacheCurrent ==
  pc \in {"loop", "preflight", "gate"} =>
    \A r \in Register \ stale :
      cache.meta[r[2]] = r[1] => cache.effective[r[2]] = device[r]

(* What was programmed stays, in the registers and in the shadow, until    *)
(* firmware takes it back.                                                 *)
WritesStick ==
  /\ pc \in {"apply", "refresh"} =>
       \A r \in written : /\ r[2] \in Named(request)
                          /\ r \notin overwritten => device[r] = Settings(request)[r[2]]
  /\ pc = "refresh" =>
       \A s \in Named(request) :
         LET r == Answering(last_apply.backend, s)
         IN  /\ r \in written
             /\ r[1] = "amw0" => memo[s] = Settings(request)[s]

IInv ==
  /\ TypeOK
  /\ Bookkeeping /\ ViewsAgree /\ NullsTellHowFar
  /\ CacheCurrent
  /\ WritesStick /\ SuccessReflectsRequest

--------------------------------------------------------------------------------

(* Every accepted command is answered, or the daemon ends.                 *)
Answered == pc = "preflight" ~> pc \in {"loop", "down"}

(* The promise of ControlService, with the daemon's answer read off its    *)
(* diagnostics.                                                            *)
AbstractOutcome ==
  IF pc # "loop" \/ request = NoValue THEN "none"
  ELSE IF last_apply.hardware_write = NoValue THEN "rejected"
  ELSE IF transaction.state = "IDLE" THEN "done"
  ELSE "aborted"

AbstractMode ==
  IF pc \in {"down", "boot"} THEN "down" ELSE IF pc = "loop" THEN "idle" ELSE "busy"

Service == INSTANCE ControlService WITH
  mode     <- AbstractMode,
  command  <- request,
  outcome  <- AbstractOutcome,
  reached  <- written,
  hardware <- device

ImplementsService == Service!Spec

================================================================================
