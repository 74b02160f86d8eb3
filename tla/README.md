# A TLA+ model of lccd

`lccd` (`kuangshi16pro-lcc/src`) is a D-Bus daemon that sets the operating
mode, power limits, fan table and fan boost of a laptop. It talks to the
machine through two backends: `standard` (sysfs: platform_profile, powercap,
hwmon) and `amw0` (embedded-controller bytes through `/proc/acpi/call`). The
`converged` backend combines both. This directory holds TLA+ models of the
daemon, the TLC runs that check them and TLAPS proofs about them. Paths below
are relative to `kuangshi16pro-lcc/src`.

## Inventory

| Component | State it keeps | Operations |
| --- | --- | --- |
| D-Bus server, `dbus/server.c` | its queue; one thread, one message at a time | `GetState`, `GetCapabilities`, `GetThermal`, five mutating methods |
| Authorization, `dbus/policy.c` | none | identify the sender, ask polkit |
| Command line client, `cli` | none; several processes | one call after the other, stop at the first error |
| Manager, `daemon/manager.c` | the capabilities found by probe, `state_cache` | init (probe and first refresh), setters |
| Transaction executor, `daemon/transaction.c` | `state_cache.transaction`, `state_cache.last_apply` | preflight, capability gate, apply, refresh |
| State reader, `core/state/reader.c` | `requested`, `effective`, `effective_meta` | refresh; on failure keep the old values and mark them `cache` |
| Converged backend, `backends/converged` | availability and capabilities of both backends | route, split, fall back, overlay one reading on the other |
| `standard`, `backends/standard` | none, sysfs is the state | platform_profile, powercap, hwmon |
| `amw0`, `backends/amw0` | `shadow_state`, `shadow_mode_control` | EC writes, EC reads, readback into the shadow |
| Transport, `backends/amw0/transport.c` | the ECRR path | write an expression, read the reply |
| Selection, `daemon/app.c`, `core/capabilities` | none after start | probe, choose a backend |
| Profiles, plans, rendering | none | parse, validate, print |

A mutating method goes server → manager → executor → backend → machine and
back through a refresh. `GetState` only reads `state_cache`; it never touches
the machine.

The daemon has one thread, so the behaviours that are hard here come from the
machine, from the processes around the daemon, and from failure:

- firmware, hotkeys and other tools change registers between any two steps;
- a command is several writes and can stop after any of them;
- a read can fail partly or as a whole, and the daemon then shows what it
  retained, which must be told apart from what it read;
- the operating mode and the fan boost share one EC byte (0x751), so each
  command rewrites the other's half from what the daemon last knew;
- two backends hold limits of the same name and one request may be split over
  them or retried on the other;
- the daemon can die anywhere, losing shadow and cache but not the registers;
- a client can give up or die while its message waits, for instance behind
  someone else's password prompt, and the message is carried out nevertheless;
- `profile apply` makes three calls with nothing around them;
- all tools that call the firmware share the one reply buffer of
  `/proc/acpi/call`;
- a shown state is put together from two backends, half of it read now and half
  retained, and each part says where it comes from.

What makes each part correct:

- executor and reader: nothing outdated is shown as live; a command that ends
  well shows what it asked for, where it shows the value of the backend that
  executed it; the two diagnostic views agree and tell how far
  a command got; the machine is only written inside an accepted command; every
  command is answered;
- power limits: an OK answer means each limit is in a register of the backend
  that answers for it; `hardware_write` is true only when something was written;
  a request that fails half way teaches the shadow nothing;
- profiles: a name means the same mode on every machine and route; a command
  leaves its trace in one backend only;
- fan tables: an OK answer means every register holds its byte; nothing is
  switched on before it is complete; the stage of a failure and the retained
  name tell the truth about what the controller has;
- mode and boost: a command keeps the half of the byte it was not asked to
  change; what is remembered of the byte is current; a half-failed mode change
  neither shows up as retained nor spoils the next one;
- server, authorization and clients: what a client is told is what happened;
  nothing is carried out twice, unauthorized or out of order; the queue empties;
- transport: a byte taken for live is the register's, the read method that is
  remembered exists;
- shown state: the attribution of a value is that of the value, whatever path
  it took; what the standard backend read is hidden by amw0 only where amw0
  executes the limit, and for the profile (which it always hides, see Findings);
  a sensor shown is the best the machine has, and one is missing only where the
  machine has none left for it.

`PROJECT.json` lists the hazards at their lines.

## Modules

| Module | Models | State |
| --- | --- | --- |
| `LccTypes` | slots, requests, preflight checks, target composition | — |
| `ControlService` | the promise to clients: one command at a time, rejected, done or aborted | `mode`, `command`, `outcome`, `reached`, `hardware` |
| `BackendContract` | what the executor may rely on when it applies a setting and reads the state back | `phase`, `asked`, `executor`, `register`, `memo` (amw0's shadow), `shown` |
| `Transaction` | manager, executor, reader, server loop, over the backends reduced to their contract | `pc`, `caps`, `request`, `transaction`, `last_apply`, `cache`, `memo` (amw0's shadow), `device` (per backend and slot) |
| `PowerStack` | `SetPowerLimits` below the executor: converged, powercap and amw0 | `powercap`, `ec`, `shadow`, `result`, `view` |
| `Amw0Control` | mode and fan boost of amw0 | `index` (0x7AB), `control` (0x751), `shadow`, `shadow_mode_control`, `view` |
| `ProfileRoute` | `SetProfile` and `SetMode` below the capability gate: executor's retry, converged, platform_profile, amw0 | `pc`, `platform_profile`, `index`, `ec_mode`, `shadow`, `result`, `view` |
| `FanTable` | `ApplyFanTable` below the executor: files, validation, plan, byte writes | `pc`, `table`, `next` (position in the plan), `ec` (0xF00-0xF5F), `shadow`, `result` |
| `RemoteCall` | what a call over the bus means to the process that made it | `answer`, `effect` |
| `Session` | lccctl processes, the bus, the server loop and polkit, over a manager reduced to the status it ends with | `answer`, `gone`, `inbox`, `daemon`, `reply`, `shown`, `machine` |
| `AcpiCall` | one access of amw0 through `/proc/acpi/call`, probing included | `register`, `buffer`, `path` (`ecrr_path`), `at`, `written`, `result` |
| `Sensors` | the choice of temperatures and fan speeds among hwmon channels and thermal zones | — |
| `StateView` | selection at start, the reads of both backends, overlay, attributions, summaries, retention | `backend`, `can`, `shadow`, `shown`, `meta`, `status` |
| `MC*` | instances for TLC | — |
| `*Proofs` | proofs about `Transaction`, `Amw0Control`, `ProfileRoute`, `FanTable`, `PowerStack`, `Session`, `AcpiCall`, `StateView` | — |

How they fit together: `Session` has a setter of the manager as one step with a
status; `Transaction` is that step in detail, over a backend with a contract;
`PowerStack`, `Amw0Control`, `ProfileRoute` and `FanTable` are what the backends
do for each setting, and the first three implement `BackendContract`; `AcpiCall` is what one EC byte read or written in them
takes; `StateView` is the refresh at the end of the step, for all settings at
once.

### Transaction

One action per stage of `lcc_transaction_execute`: `Receive` (begin),
`RejectPreflight` or `StageTarget`, `RejectAtGate` or `PassGate`, then
`BackendWrite`, one per setting, `RetryAsMode`, `BackendOk` or `BackendFail`,
and `Complete`, `FailAtRefresh` or `RefreshAfterFailure`. A command is cut where
the code calls into the backend, since that is where firmware (`Drift`) and the
end of the process (`Crash`) get in between. `Seeding` and `Boot` are the
construction of backend and manager; when probe or first refresh fails the
process exits, which is `Crash`.

The backends are reduced to what their calls promise. `Backend` says which of
the two the machine has; a register is a pair of a backend and a slot, and the
standard backend has those of the profile, PL1 and PL2. OK means every named
setting was written in the register of the backend that answers for it, which
the executor named in the answer decides (`Answering`; "mixed" is a split
request for limits); amw0 then remembers what it executed itself, and nothing of
what the standard backend executed (`MemosAfterApply`). `hardware_write = TRUE`
means something was written; a failed apply may have written any subset, in both
backends when limits are split or passed on; a write of amw0's mode may disturb
amw0's boost and the other way round. A read finds each slot in the register of
one backend, in the shadow, or not at all, and an amw0 that answers always shows
its own profile (`ReadSources`). So a profile that platform_profile executed may
be on view from amw0, and `SuccessReflectsRequest` promises a setting only where
it is shown from its executor.

`BackendContract` states the promise of the backends, and the modules below
implement it. `Transaction` itself takes a coarser form of it: dry runs, where
OK writes nothing, are left out.

Profile aliases are left out as well (`ProfileRoute` has them): a mode's name is
its profile's name.

`Layered` says that there is a standard backend, which is read first, and the
amw0 reading overlaid when it succeeds; `StandardDefault` is what standard
reports without reading it (the fan table "system-default").

Ghosts: `written` and `overwritten` (registers this command programmed, and those
firmware changed again), `stale` (registers firmware changed since the last
refresh).

### BackendContract

A call is `Call`, any number of `Write`s, then `Succeed` or `Fail`, then
`Refresh` or `RefreshFails`, with `Drift` anywhere. Every step programs at most one register, of
a backend that is no dry run, and one that holds a setting the call names
(`shares` says which settings are in the same register). OK means each named
setting is in the register of the backend that answers for it, unless that is a
dry run or firmware came after, and amw0 remembers what it executed. A failure
may have written anything it was asked to and leaves the memory alone. A refresh
shows what it read, or what amw0 remembers; when it fails it shows what was shown
before and calls nothing of it live.

The mappings: `Amw0Control` has the two settings profile and boost in one
register, the control byte, and its index byte is below the contract.
`ProfileRoute` has the one setting profile in a register of each backend.
`PowerStack` has the four limits; two of powercap share a register when the zone
gives both the same constraint, and a powercap register holds the watts it reads
as. `FanTable` has no mapping: its crash loses the
memory, and it has no refresh, because tables have no readback.

### PowerStack

A request goes `SetPowerLimits` → `StandardWrite` per limit → `StandardVerify`
→ (`AmwWrite` per limit → `AmwDone`) → `Refresh`, with `StandardRefuses`,
`StandardWriteFails`, `AmwWriteFails` and `RefreshFails` on the way.
`StandardAnswers` is what converged does with the first answer: go on with the
other half of a split, retry on NOT_SUPPORTED, or return. powercap keeps
half-watts so that rounding shows; `Clamped` is the kernel cutting a value to
its ceiling. `Overlaid` is `overlay_amw0_state`.

### Amw0Control

The control byte is a set of bits. A command reads it, or recalls it, or guesses
it from the shadow (`CurrentControl`), and writes it back with its half changed;
a mode change writes the index byte first. Bits of 0x751 other than the four
named ones are left out. `fan apply` writes neither byte: no plan contains the
custom-mode action, so `apply_custom_enable` is not reached. Ghosts: `informed`
(no one changed the byte since the backend last knew it), `before` (what the
byte was at the write), `settled` (no drift since this command came or last wrote).

A write that fails may have landed or not; a write whose call succeeds has
landed. The reply of the call is not examined by the code, so the second half is
an assumption about the firmware.

### ProfileRoute

`Receive` routes a call to platform_profile if there is one, else to amw0.
`StandardRefuses`, `StandardWrite` and `StandardWriteFails` answer it, and
`StandardAnswers` passes a refusal on; `AmwNamed`, `WriteIndex`, `WriteControl`
and `AmwWriteFails` are the amw0 leg; `Concluded` is the executor, which tries a
refused mode name once more as a mode. (With these two backends that branch is
dead: `CallEnds` proves that neither refuses a mode's name.) `Refresh` chooses
the shown profile as `converged_read_state` does.

`PlatformProfile`, `KernelProfile` and `ModeNamed` are the three translation
tables of the code; "quiet" stands for the kernel profiles without a mode. The
bits of 0x751 and the fan boost are in `Amw0Control`; here `ec_mode` is the mode
they stand for. Ghosts: `reached` (backends this command wrote to), `overwritten`
(backends firmware changed since).

### FanTable

`ApplyFanTable` looks the name up (`LoadNamed`) and either answers NOT_FOUND or
starts on the table's `Plan`; `WriteByte` is one register, the last one answers
OK and retains the name; `WriteFails` ends the command with the byte landed or
not; `Crash` ends the daemon between two bytes. A file is what its parser makes
of it: a json list (its last point is repeated) or numbered ini points (the
others are zero), with or without a name; `Document` says what a parser can make.
Registers are numbered from 0xF00, so
that a column with one entry too many runs into the next one, as it would.
`Image` reads the register map the other way, from register to value, and is
what the properties compare with.

Ghosts: `retained` (the last table programmed as a whole), `written`,
`disturbed` (registers this command, or those cut short since `retained`,
may have written), `overwritten` (registers firmware changed).

### Session and RemoteCall

`Send`, `NotSent`, `Timeout` and `Leave` are a process; `TakeUp`, `Credentials`,
`StartTime`, `Check`, `Perform` and `Reply` are the server loop with one message,
in the order of `method_set_*` and `authorize_write`; `Crash`, `Start` and `NotActivated` are
the end of the daemon and systemd or the bus starting it. A message stays in
`inbox` until it is answered, so a caller that timed out may still be served. On
the user bus nothing is asked and nothing is activated.

`Due` is the client's rule that a part is sent only when the ones before it
succeeded. `ErrorName` and `StatusNamed` are the two translations of errors;
they are no inverse of each other, IO being where everything unknown ends.
`RemoteCall` therefore treats IO as an error that settles nothing, and every
other answer as definite. That is the promise `Session` is shown to keep.

A value is abstracted to the call that set it; `Readback` are the settings a
refresh reads. Not modelled: firmware changing settings (see `Transaction`) and
the error texts.

The daemon asks the bus for the sender's pid (`Credentials`), looks that pid up in
/proc (`StartTime`) and has polkit answer about the two (`Check`); the sender may
leave between any of them. The bus knows a sender for as long as it is connected,
and notices at once when it leaves. /proc has a process that left until it is
reaped; then it has nothing, or a stranger who was given the number, and
`subject` says whom the daemon found. What `OnlyGranted` promises is therefore
bounded: a process that had left when its pid was asked for gets nothing carried
out, but one that leaves in the window between pid and /proc may get its message
carried out on a stranger's authority. Connecting to polkit (policy.c:176) is
part of `Check`: it needs neither process and nothing is read between the two.
polkit is external: it answers yes, no, an error, or never.

Ghosts: `effect`, `granted` (whom polkit allowed a message to), `orphaned` and
`lapsed` (messages whose process left before its pid was asked for, or right
after), `older` and `turn` (order of sending and of carrying out).

### AcpiCall

`Begin` starts an access, `Write` is open-write-close with the evaluation by the
firmware, `Read` the second open. Between them `Foreign` may use the same file.
The first read probes the candidates one by one (`at = "probe"`) and remembers
the first whose reply is a number. `CallFails` is every error of the three
system calls; `Restart` forgets the path. The kernel module is external: one
buffer, no lock, a reply that may or may not survive being read. What ECRR
replies is a number or text; a number beyond a byte is cut (`% 256`).

Ghosts: `truth` (what the register held), `disturbed`, `misled` (the path comes
from a disturbed probe), `landed`, `refused`.

### Sensors and StateView

`Sensors` scores a channel by the processors its node and label name and by its
index, and takes the best of a listing, the first among equals; thermal zones
fill what is left. Names count only as far as the processors they name: which
substrings name a processor is left out.

In `StateView` a value is abstracted to its origin: read by `standard`, by
`amw0`, invented by the mock backend, kept, a placeholder, or none. `Start` is
the selection by environment and probes, `Refresh` one whole
`lcc_state_reader_refresh`, `Crash` the end. `StandardRead` is
`standard_read_state` with its rule that a missing source is passed over and a
broken one ends the read; `Amw0View` and `Amw0Meta` are `amw0_read_state`;
`Base` and `WithOverlay` are `converged_read_state`, which asks amw0 once as a
fallback and once for the overlay; `Retained` and `RetainedMeta` are the failure
path. A refresh is one action, since its reads are the only way the machine gets
into it: `StandardReading` and `Amw0Reading` are all that can be found.

amw0's shadow starts with a profile ("office") and a fan table
("system-default") that nobody read or wrote, and the code shows them as it shows
what it retained: source `cache`. `SeededShadow` has them as items of the shadow,
so their origin is "kept", where standard's placeholder has the origin "default".

Ghosts: what the last refresh was given (`given`, `heard`, `listing`, `sensed`).

## Runs

| Run | Shows | Instance |
| --- | --- | --- |
| `mode` | `SuccessReflectsRequest`, `ViewsAgree` and `Answered` (every command is answered), for SetProfile and SetFanBoost | both backends, each with a profile register; two modes, the boost, which shares amw0's byte with them |
| `power` | `LiveIsCurrent`, `NullsTellHowFar`, refinement of `ControlService`, for a request that names several slots | both backends: a limit both have and one only amw0 has, two values |
| `power_limits` | the registers, the flag and the view after a request for limits that may be split, retried, clamped or cut short, and refinement of `BackendContract` | nine machines: both backends, amw0 real or dry, one only, a read-only zone, zones of one constraint; zero watts |
| `power_flag` | violation: false although PL1 was written before PL2 was found impossible | requests for both |
| `power_truncate` | violation: a limit beyond a byte shown as live | |
| `control` | five properties of the control byte, real and dry | all modes, the bytes `docs/profiles.md` saw |
| `profile` | three properties of routed profile and mode commands, and refinement of `BackendContract` | seven machines, both vocabularies |
| `fan` | six properties of table programming, and that a file with a rising list is never refused | four points per fan, five names |
| `session` | order, authorization, recency, liveness on the user bus, refinement of `RemoteCall` | a process with two parts, one with one, a reader |
| `acpi` | `ReadIsTrue`, `PathAnswers`, `WriteLands`: what an answer says of the register, and the remembered path | two registers, two candidates, an override |
| `view` | attributions, summaries, which live values are hidden, sensors that fit | five hwmon trees, all ways a source can fail |
| `profile_hidden` | violation: a profile in amw0's memory hides the one platform_profile has | amw0 unread |

Bounds. `ProfileRoute` has a driver before each kind of amw0, which offers two
profiles, or all of them when there is no amw0 to pass a refusal to, and amw0
without a driver; and every name either table knows plus one that none does. `Transaction` needs two values per slot to tell old from new, two slots
for partial writes and coupling, two registers of one slot for a setting shown
from the backend that did not execute it, and one backend stage and two
failures (NOT_SUPPORTED is treated apart, the others alike). Between two
refreshes firmware changes at most `DriftBound` registers, one in the runs, as
often as it likes; the proofs hold for every bound. In `power` the two values are
symmetric: no definition tells them apart. SetMode is SetProfile without the
retry and without aliases here, and a fan table is one slot without readback;
both are in the proofs and not in a run of `Transaction` (`ProfileRoute` and
`FanTable` have runs of theirs). There is no bound
on the number of commands, failures, refreshes or crashes: the state spaces are
finite as they stand (`FanTable` and `Session` excepted, see below). A byte of watts holds `ByteRange` values (256 in the
code, 3 in the runs), so that a powercap limit can exceed it; one drift value
per register is enough to overwrite what was written.

`FanTable` has four points instead of sixteen, the least that leaves a GPU duty
beside the three reserved bytes; its files are a short list, a list behind an
unsorted one, an ini file without points, and files that do not load (too many
points, temperatures inverted, gaps). One command may be cut short before the
next complete one (`MaxInterrupted`): its remains are what the next one has to
overwrite. Two registers drift, one column entry and the control byte.

In `PowerStack`, `Requests(p)` are the requests made of machine `p`: for paired
backends PL1 and PL4, the smallest that needs both, and elsewhere PL1 and PL2
with zero. Each subset of the two, with each value, occurs;
zones of one constraint are asked for 2 W or zero. A ceiling below a
request makes the kernel clamp it, one half-watt below makes the clamped value
round back to the request.

`Session` has as many messages as its processes make calls (`Commands`), four in
the run: a document of two parts to be cut in the middle, a write of the same
setting to race it, and a read in between. `Outcome` needs one failure that
settles the matter. Crashes and starts are not bounded.

`AcpiCall` has `ForeignNumber` 1, a value of a register, and 258, which is cut to
2: the two ways another tool's reply can look like ours. `StateView` lists for
`StandardReading` five trees (two processors apart, with fans, one node with
both labels, neither named, an APU), each source missing, one broken, and zones
that fill gaps; for `Amw0Reading` nothing, part and other parts of the bytes, so
that the fallback and the overlay of one refresh can differ.

Deadlock is checked in every run.

Fairness. `Answered` is checked under `WF_vars(Daemon)`: the loop is one thread
that runs a handler to its end, and every call it makes returns. Nothing is
assumed of clients, firmware or crashes. `UserBusServed` is checked under
`WF_vars(Thread)`, the same thread, seen from the bus. polkit's `Check` and
`Start` are not fair: a prompt may stay open for ever, which is why the property
speaks of the user bus, where none is opened.

Type invariants. Each module has one. They are proved, and were checked with TLC
before, as were the inductive invariants of the proofs; no run repeats them.

### Findings

The three violation runs each check a statement of the documents that the code
does not keep. `power_flag`: `false` as "stopped before touching hardware"
(`docs/state-contract.md` 193-194). `power_truncate`: effective values as "live
readback" (106-107). `profile_hidden`: effective as "the best state the daemon
can currently explain" (43-44) and amw0 as the "fallback for capabilities that
are not available through standard ABI" (`docs/architecture.md` 18-19), while
`overlay_amw0_state` puts amw0's profile, which may never have been anywhere but
in memory, over the one just read from platform_profile. `PROJECT.json` quotes the
lines. Two more disagreements have no run:

- The standard backend reports its placeholder "system-default" as a fan table
  with source `cache` (`backends/standard/backend.c:116-120`), and that is shown
  whenever the amw0 overlay is skipped (`backends/converged/backend.c:565`);
  `docs/state-contract.md` (149) reserves `cache` for what the daemon retained.
  `StateView` has the placeholder as the origin "default", and `Attribution`
  gives it what the code gives it.
- A profile name both backends refuse is answered with executor amw0 and the
  standard backend's stage (`backends/amw0/backend.c:699`,
  `backends/converged/backend.c:600`), where `docs/observability.md` (78-84)
  lists the stages of each backend. `ProfileRoute` leaves the stage out.

## Proofs

`TransactionProofs` proves, for all values of the constants that satisfy the
named assumptions: `TypeCorrect`, `LiveCorrect`, `SuccessCorrect`,
`ViewsCorrect`, `NullsCorrect`, `NothingLiveCorrect` and `Refinement`.
`Amw0ControlProofs`, `ProfileRouteProofs`, `FanTableProofs`, `PowerStackProofs`,
`AcpiCallProofs` and `StateViewProofs` prove all properties of their runs (those
of the passing run of `PowerStack`), `SessionProofs` all but the liveness. Each
proves its module's type invariant as well, and these properties, which no run
repeats, though TLC checked them before: `NothingLiveAfterFailedRefresh`,
`ParseTellsInterference`, `KnownIsShown`, `FailureKeepsShown`, the
`WriteFlagIsTrue` and `SuccessShown` of `ProfileRoute`, `PowerStack`'s
`ShadowFollowsHardware` (`ImplementsContract` has it in another form), and
`Amw0Control`'s `ImplementsContract`, for which TLC needs a controller with three
observed bytes instead of the five of the run.

The assumptions say that names are distinct, that the power fields are among the
four, that an absent optional is no value, that a backend's failures are
failures and its stages differ from the executor's, that a shadow starts from
values of its slots, and that files are what the parsers can make of them
(`FilesAssumption`).

Argument for `Transaction`. The properties speak of the daemon at rest
(`pc = "loop"`), so none is inductive. `IInv` adds what each stage knows:
`Bookkeeping`, the relation of the two diagnostic views while a command is under
way; `CacheCurrent`, that the cache is as current as at rest until the first
write; `WritesStick`, that what was programmed stays in registers and shadow
until firmware takes it back. `NamedApart`, that no request names both halves
of a register, is why one write of a command does not undo another.
`NothingLiveCorrect` has a small induction of its own on top of `IInv`. The
refinement maps `pc` and the diagnostics to the service's mode and outcome;
`InternalStep` covers the steps a client cannot see.

Argument for `Amw0Control`. `UnderWay` says that from the first write on, the
target reflects the request and, if the backend is informed, keeps the other
half; `Done` carries this to the answer. `WithBoostKeeps` and
`ModeControlDecodes` say that the two halves of the byte do not interfere.

Argument for `ProfileRoute`. `VocabulariesAgree` and `ModesAreNamed` say that the
translation tables agree. `UnderWay` knows at each stage which backends exist,
that nothing is written before the last leg, and between the two EC writes that
the index byte is right; `Done` is what an answer promises, through the refresh.
`AnswerFits` collects what an answer must satisfy, and `CallEnds` shows once for
all final steps that such an answer restores the invariant. The assumptions are
that each machine has a backend for the route and that `None` is no name.

Argument for `FanTable`. `PlanLays`: a plan writes every register once, in
ascending order, with the byte `Image` has for it. So the position in the plan
says which registers hold the new table (`Writing`), and a command cut short
leaves the part before its position (`Broken`) and in `disturbed` what may be
mixed (`Retained`). For `CurvesRise`, a loaded table is valid (`Loaded`) and
`Image` carries the order of its points to the registers; for
`OnlyUnusableRefused`, repeating the last point of a rising list keeps it valid
(`RisingIsValid`). All of this is for any number of points a plan has room for,
sixteen included.

Argument for `PowerStack`. What is done is what was asked without what is left:
`leg` is the rest of the backend's part, and `InStandard` and `InAmw0` say that
all of the part outside `leg` is in the registers already, that the second
backend is untouched during the first leg, and that a split reaches the second
leg only when the first was verified. `Promise` is what an answer owes for one
limit; `Done` carries it through the refresh, where powercap may show what the
kernel made of the request and amw0 what it was told.

Argument for `Session`. `Queue` says that a message in the inbox is waited for or
was given up, once; `Carried`, that only what left the inbox or is being answered
has an effect; `Truthful`, that an answer agrees with the effect; `Stepwise`,
that a process is never ahead of its last success. `Authorized` follows the
message being served from the bus to polkit: what the daemon found is the sender,
or a stranger whose number the sender lost in the window; since only the served
message can begin to have an effect, `OnlyGranted` follows step by step. `Ordered` and `Recent`
strengthen the two properties about order: what waits was sent after all that
was carried out, and the cache is never behind the machine after a success. The
refinement of `RemoteCall` maps reads away, and is a case per action.

Argument for `AcpiCall`. `Answering`: from our write to our read, if nobody used
the file, the buffer holds the answer to our expression. `UnderWay` and `Taken`
tie the stage to the access.

Argument for `StateView`. `Good` relates a view to attributions: per setting, for
the sensors together (`Heat`), for the summaries. Every reading makes a good
pair, overlaying two good pairs gives a good pair, and so does retaining one.
The summaries rest on `CommonUnion`: `merge_text` is a join, what it makes of
two parts is what their union has in common. `Displays` says of a reading what
`LiveIsShown` and `KnownIsShown` say of the state.

Argument for `SensorsFit`. The best channel of a listing is found by a recursive
scan, and the prover has no induction. The proof takes the least position at
which the scan would go wrong, which exists because the naturals are well founded
(`Least`), and unfolds the scan once there (`CapturedFits`); that the scan is a
function at all is shown the same way (`ScanExists`). `ScoreIs` has the scores
as an ordered list of cases, `SensedFits` adds the thermal zones.

Argument for `BackendContract`. `ControlKeepsContract`, `RouteKeepsContract` and
`LimitsKeepContract` say that the three modules implement it, for all machines,
requests, bytes and names. Each proof rests on the invariant of its module: it
gives `Succeed` what OK means, and each other action maps to one action of the
contract or to a stutter. The steps between registers need that a register is
written only for a setting that was named. What the
proof brought out of the model: `settled` must start with the command, since
a drift before it has nothing to do with its answer.

Only model-checked: `Answered` and `UserBusServed` (liveness under fairness is
out of the prover's reach).

## Not modelled

- The rendering of states and capabilities (`core/state/model.c`,
  `daemon/manager.c`), logging, texts: they read the state and change nothing.
- Profile documents beyond the fan table they name, and the plans the command
  line prints for them: no daemon code uses them.
- Argument parsing and output of the command line client.
- The formatting of WMBC packets and ECRR expressions, and the trace file.
- The names in the selection metadata (`backend_selected` and its like) and the
  model detection behind the capability document: they decide nothing.
- powercap's choice of a zone by score, made before `PowerStack` starts.
- The failure switches of the mock backend, which serve the unit tests.
- Scripts and reverse-engineering material.

That `Transaction`'s backends keep within `BackendContract` is read off, not
proved. `FanTable` is not mapped either, for the reasons given above.

## Plan

What is left: the promises that follow from `BackendContract` alone (what a
failed call can have changed, what a shown value says), as theorems about it, so
that they hold of all three modules at once; and the contract without a refresh,
which `FanTable` would implement.
