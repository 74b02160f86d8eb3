------------------------------- MODULE StateView -------------------------------
(***************************************************************************)
(* What GetState shows and what it says of where each value comes from:    *)
(* the backends a starting daemon selects, the reads of the standard and   *)
(* the amw0 backend, the overlay of one over the other, the attribution of *)
(* every component and its summaries, and what a failed refresh leaves.    *)
(* A value is abstracted to its origin: "none", "default" (a placeholder), *)
(* "kept" (retained), or the backend that read it in the last refresh.     *)
(***************************************************************************)
EXTENDS Sensors

CONSTANTS
  StandardReading,  \* what sysfs can hold when the standard backend reads it
  Amw0Reading,      \* the EC bytes the two amw0 reads of a refresh can get
  Limits            \* the sets of power limits clients set

Power   == {"pl1", "pl2", "pl4", "tcc_offset"}
Setting == {"profile", "fan_table", "fan_boost"} \cup Power
Thermal == Sensor \cup {"vendor_fan"}
Item    == Setting \cup Thermal

EcByte == {"mode_control", "cput", "pcht", "ffan"} \cup Power

ASSUME ReadingAssumption ==
  /\ \A r \in StandardReading :
       /\ {r.profile, r.hwmon, r.thermal, r.powercap} \subseteq {"OK", "NOT_FOUND", "IO"}
       /\ r.channels \in Seq(Channel) /\ r.zones \in Nat
       /\ r.limits \subseteq {"pl1", "pl2"}
       /\ r.hwmon # "OK" => r.channels = <<>>
       /\ r.thermal # "OK" => r.zones = 0
       /\ r.powercap # "OK" => r.limits = {}
  /\ Amw0Reading \subseteq (SUBSET EcByte) \X (SUBSET EcByte)
  /\ Limits \subseteq SUBSET Power

VARIABLES
  setup,    \* the environment: LCC_BACKEND, LCC_AMW0_DRY_RUN
  backend,  \* the daemon's backend; "down" while no daemon runs
  can,      \* what the probes found
  shadow,   \* the items amw0's shadow state holds
  shown,    \* per item: its origin
  meta,     \* per component: its attribution
  status,   \* how the last refresh ended
  given,    \* ghost: the items the standard backend gave in it
  heard,    \* ghost: amw0 answered in it
  listing,  \* ghost: the hwmon channels and thermal zones it found
  sensed    \* ghost: per sensor, the channel or zone it took

ghosts == <<given, heard, listing, sensed>>
vars == <<setup, backend, can, shadow, shown, meta, status, ghosts>>

--------------------------------------------------------------------------------
(* Attributions.                                                           *)

Component == Setting \cup {"power", "thermal", "overall"}

Blank == [source |-> "", freshness |-> ""]
Live(b) == [source |-> b, freshness |-> "live"]
Cached == [source |-> "cache", freshness |-> "cache"]
Mixed == [source |-> "mixed", freshness |-> "mixed"]

(* merge_text: what two parts say, where they differ, is "mixed".          *)
MergeText_Last(text, value) == IF value = "" THEN text ELSE value
MergeText(text, value) ==
  IF value = "" THEN text
  ELSE IF text \in {"", value} THEN value ELSE "mixed"

Merged(a, b) == [source    |-> MergeText(a.source, b.source),
                 freshness |-> MergeText(a.freshness, b.freshness)]

(* lcc_backend_effective_meta_finalize: the power fields summed up as one  *)
(* component, then all of them as one.                                     *)
Finalized(m) ==
  LET power == IF \A f \in Power : m[f] = Blank THEN m["power"]
               ELSE Merged(Merged(Merged(m["pl1"], m["pl2"]), m["pl4"]), m["tcc_offset"])
      overall == Merged(Merged(Merged(Merged(m["profile"], m["fan_table"]),
                                      m["fan_boost"]), power), m["thermal"])
  IN  [m EXCEPT !["power"] = power, !["overall"] = overall]

(* set_component_from_readback *)
FromReadback(live, cached, b) ==
  IF live /\ cached THEN Mixed
  ELSE IF live THEN Live(b)
  ELSE IF cached THEN Cached ELSE Blank

Nothing == [i \in Item |-> "none"]
NoMeta  == [c \in Component |-> Blank]
Unsensed == [s \in Sensor |-> NoChannel]
Unlisted == [channels |-> <<>>, zones |-> 0]

--------------------------------------------------------------------------------
(* The standard backend.                                                   *)

HwmonStatus(r) ==
  IF r.hwmon = "OK" /\ (\A s \in Sensor : Captured(s, r.channels) = NoChannel)
  THEN "NOT_FOUND" ELSE r.hwmon
ThermalStatus(r) ==
  IF r.thermal = "OK" /\ r.zones = 0 THEN "NOT_FOUND" ELSE r.thermal

(* A source that is missing is passed over, one that is broken ends the    *)
(* read.                                                                   *)
StandardStatus(r) ==
  LET parts == {r.profile, HwmonStatus(r), ThermalStatus(r), r.powercap}
  IN  IF "IO" \in parts THEN "IO" ELSE IF "OK" \in parts THEN "OK" ELSE "NOT_FOUND"

StandardItems(r) ==
  (IF r.profile = "OK" THEN {"profile"} ELSE {}) \cup r.limits \cup
    {s \in Sensor : Sensed(r.channels, r.zones)[s] # NoChannel}

StandardMeta(r) ==
  Finalized([c \in Component |->
    IF \/ c = "profile" /\ r.profile = "OK"
       \/ c \in r.limits
       \/ c = "thermal" /\ "OK" \in {HwmonStatus(r), ThermalStatus(r)}
    THEN Live("standard")
    ELSE IF c = "fan_table" THEN Cached ELSE Blank])

(* standard_read_state, of every reading there is.                         *)
StandardRead ==
  [r \in StandardReading |->
     LET items == StandardItems(r) IN
     [status |-> StandardStatus(r),
      view   |-> [i \in Item |-> IF i \in items THEN "standard"
                                 ELSE IF i = "fan_table" THEN "default" ELSE "none"],
      meta   |-> StandardMeta(r),
      items  |-> items,
      sensed |-> Sensed(r.channels, r.zones)]]

--------------------------------------------------------------------------------
(* The amw0 backend.  Its shadow starts from a profile and a fan table that *)
(* seed_shadow_state makes up, and holds besides whatever was ever read or *)
(* written; what it holds is retained alike, made up or not.               *)

SeededShadow == {"profile", "fan_table"}

ByteOf(i) ==
  CASE i \in Power                      -> i
    [] i \in {"profile", "fan_boost"}   -> "mode_control"
    [] i = "cpu_temp"                   -> "cput"
    [] i = "gpu_temp"                   -> "pcht"
    [] i = "vendor_fan"                 -> "ffan"
    [] OTHER                            -> "none"

LiveItems(bytes) == {i \in Item : ByteOf(i) \in bytes}

(* Nothing is read in a dry run.                                           *)
Got(bytes) == IF setup.dry THEN {} ELSE LiveItems(bytes)

Amw0Status(bytes) == IF setup.dry \/ Got(bytes) # {} THEN "OK" ELSE "NOT_FOUND"

Amw0View(held, bytes) ==
  LET live == Got(bytes)
  IN  [i \in Item |-> IF i \in live THEN "amw0"
                      ELSE IF i \in held THEN "kept" ELSE "none"]

Amw0Meta(held, bytes) ==
  LET live   == Got(bytes)
      cached == held \ live
  IN  Finalized([c \in Component |->
        IF c \in Setting THEN FromReadback(c \in live, c \in cached, "amw0")
        ELSE IF c = "thermal"
        THEN FromReadback(live \cap Thermal # {}, cached \cap Thermal # {}, "amw0")
        ELSE Blank])

--------------------------------------------------------------------------------
(* The converged backend.                                                  *)

(* route_primary_backend, as build_selection_metadata records it.          *)
Executor(operation) ==
  IF \/ can.profile /\ operation \in {"apply_profile", "apply_mode"}
     \/ can.powercap /\ operation = "apply_power_limits"
  THEN "standard"
  ELSE IF can.amw0 THEN "amw0" ELSE "none"

(* overlay_amw0_state: the items that are amw0's to show.  The fan boost,  *)
(* which no other backend has, and missing values are filled in; a profile *)
(* is replaced when amw0 executes anything that sets one.                  *)
Taken_AllPower(view, over) ==
  {i \in Setting : over[i] # "none"} \cup {s \in Thermal : view[s] = "none"}
Taken(view, over) ==
  {i \in {"profile"} : \E o \in {"apply_profile", "apply_mode", "apply_fan_table"} :
                         Executor(o) = "amw0"}
    \cup {i \in {"fan_table"} : Executor("apply_fan_table") = "amw0"}
    \cup {i \in {"fan_boost"} : over[i] # "none"}
    \cup {f \in Power : /\ over[f] # "none"
                        /\ Executor("apply_power_limits") = "amw0" \/ view[f] = "none"}
    \cup {s \in Thermal : view[s] = "none"}

OverlaidView(view, over, taken) ==
  [i \in Item |-> IF i \in taken THEN over[i] ELSE view[i]]

OverlaidMeta_ThermalKept(m, om, taken) ==
  Finalized([c \in Component |-> IF c \in taken THEN om[c] ELSE m[c]])
OverlaidMeta(m, om, taken) ==
  Finalized([c \in Component |->
    IF c \in taken THEN om[c]
    ELSE IF c = "thermal" THEN Merged(m[c], om[c]) ELSE m[c]])

FromStandard(read, held) ==
  [status |-> read.status, view |-> read.view, meta |-> read.meta, held |-> held]
FromAmw0(held, bytes) ==
  [status |-> Amw0Status(bytes), view |-> Amw0View(held, bytes),
   meta |-> Amw0Meta(held, bytes), held |-> held \cup Got(bytes)]

(* What is shown of the base reading and of amw0's, where both are there.  *)
Overlaid(base, over) ==
  IF ~(base.status = "OK" /\ can.standard /\ can.amw0) THEN base
  ELSE IF over.status # "OK" THEN [base EXCEPT !.held = over.held]
  ELSE LET taken == Taken(base.view, over.view)
       IN  [status |-> "OK", held |-> over.held,
            view   |-> OverlaidView(base.view, over.view, taken),
            meta   |-> OverlaidMeta(base.meta, over.meta, taken)]

(* converged_read_state.  Where the standard backend finds nothing, amw0   *)
(* answers, and answers a second time for the overlay.                     *)
Base(read, held, bytes) ==
  IF can.standard /\ (read.status # "NOT_FOUND" \/ ~can.amw0)
  THEN FromStandard(read, held) ELSE FromAmw0(held, bytes)

WithOverlay(base, bytes) == Overlaid(base, FromAmw0(base.held, bytes))

ConvergedRead(read, held, bytes) == WithOverlay(Base(read, held, bytes[1]), bytes[2])

--------------------------------------------------------------------------------
(* The daemon.                                                             *)

(* Every item of the mock backend is its own invention, shown as live.     *)
MockRead == [status |-> "OK", view |-> [i \in Item |-> "mock"], held |-> {},
             meta |-> Finalized([c \in Component |-> IF c = "overall" THEN Blank
                                                     ELSE Live("mock")])]

ReadState(standard, held, bytes) ==
  IF backend = "standard" THEN FromStandard(standard, held)
  ELSE IF backend = "amw0" THEN FromAmw0(held, bytes[1])
  ELSE IF backend = "mock" THEN MockRead
  ELSE ConvergedRead(standard, held, bytes)

(* lcc_backend_state_mark_effective_cached *)
Retained(view) == [i \in Item |-> IF view[i] \in {"none", "default"} THEN view[i] ELSE "kept"]
RetainedMeta_AsItWas(view) == meta
RetainedMeta(view) ==
  Finalized([c \in Component |->
    IF \/ c \in Setting /\ view[c] # "none"
       \/ c = "thermal" /\ (\E s \in Thermal : view[s] # "none")
    THEN Cached ELSE Blank])

Off ==
  /\ backend' = "down"
  /\ can' = [standard |-> FALSE, profile |-> FALSE, powercap |-> FALSE, amw0 |-> FALSE]
  /\ shadow' = SeededShadow
  /\ shown' = Nothing
  /\ meta' = NoMeta
  /\ status' = "unread"
  /\ given' = {} /\ heard' = FALSE /\ listing' = Unlisted /\ sensed' = Unsensed

Init ==
  /\ setup \in [forced: {"nothing", "standard", "amw0", "mock"}, dry: BOOLEAN]
  /\ backend = "down"
  /\ can = [standard |-> FALSE, profile |-> FALSE, powercap |-> FALSE, amw0 |-> FALSE]
  /\ shadow = SeededShadow
  /\ shown = Nothing
  /\ meta = NoMeta
  /\ status = "unread"
  /\ given = {} /\ heard = FALSE /\ listing = Unlisted /\ sensed = Unsensed

(* What the probes of the backends the environment leaves can find.        *)
Probes ==
  {p \in [standard: BOOLEAN, profile: BOOLEAN, powercap: BOOLEAN, amw0: BOOLEAN] :
     /\ p.profile \/ p.powercap => p.standard
     /\ setup.forced \in {"amw0", "mock"} => ~p.standard
     /\ setup.forced \in {"standard", "mock"} => ~p.amw0
     /\ setup.dry /\ setup.forced \in {"nothing", "amw0"} => p.amw0}

(* lcc_daemon_main: a forced backend is used alone or the daemon exits;    *)
(* without any backend the daemon pretends.                                *)
Selected(p) ==
  IF setup.forced # "nothing" THEN setup.forced
  ELSE IF p.standard \/ p.amw0 THEN "converged" ELSE "mock"

Start ==
  /\ backend = "down"
  /\ \E p \in Probes :
       /\ setup.forced = "standard" => p.standard
       /\ setup.forced = "amw0" => p.amw0
       /\ can' = p
       /\ backend' = Selected(p)
  /\ UNCHANGED <<setup, shadow, shown, meta, status, ghosts>>

(* A transaction that amw0 carried out left its settings in the shadow.    *)
Remembered ==
  {{}} \cup (IF status # "unread" /\ can.amw0
             THEN {{"profile", "fan_boost"}} \cup Limits ELSE {})

(* lcc_state_reader_refresh, at the start and at the end of a transaction: *)
(* a daemon whose first read fails exits, a later failure keeps what is    *)
(* shown.                                                                  *)
Took(read, standard, tree, amw0Answers) ==
  IF read.status # "OK" /\ status = "unread"
  THEN Off
  ELSE /\ shadow' = read.held
       /\ status' = read.status
       /\ IF read.status = "OK"
          THEN shown' = read.view /\ meta' = read.meta
          ELSE shown' = Retained(shown) /\ meta' = RetainedMeta(shown)
       /\ given' = IF can.standard THEN standard.items ELSE {}
       /\ heard' = (can.amw0 /\ amw0Answers)
       /\ listing' = IF can.standard THEN tree ELSE Unlisted
       /\ sensed' = IF can.standard THEN standard.sensed ELSE Unsensed
       /\ UNCHANGED <<backend, can>>

Refresh ==
  /\ backend # "down"
  /\ \E r \in StandardReading, bytes \in Amw0Reading, new \in Remembered :
       Took(ReadState(StandardRead[r], shadow \cup new, bytes), StandardRead[r],
            [channels |-> r.channels, zones |-> r.zones],
            Amw0Status(bytes[IF can.standard THEN 2 ELSE 1]) = "OK")
  /\ UNCHANGED setup

Crash ==
  /\ backend # "down"
  /\ Off
  /\ UNCHANGED setup

Next == Start \/ Refresh \/ Crash

Spec == Init /\ [][Next]_vars

--------------------------------------------------------------------------------
(* Properties.                                                             *)

Origin == {"none", "default", "kept", "standard", "amw0", "mock"}
Text == {"", "cache", "mixed", "standard", "amw0", "mock", "live"}

TypeOK ==
  /\ setup \in [forced: {"nothing", "standard", "amw0", "mock"}, dry: BOOLEAN]
  /\ backend \in {"down", "standard", "amw0", "converged", "mock"}
  /\ can \in [standard: BOOLEAN, profile: BOOLEAN, powercap: BOOLEAN, amw0: BOOLEAN]
  /\ shadow \subseteq Item
  /\ shown \in [Item -> Origin]
  /\ meta \in [Component -> [source: Text, freshness: Text]]
  /\ status \in {"unread", "OK", "NOT_FOUND", "IO"}
  /\ given \subseteq Item /\ heard \in BOOLEAN
  /\ DOMAIN sensed = Sensor

Attribution(origin) ==
  IF origin = "none" THEN Blank
  ELSE IF origin \in {"default", "kept"} THEN Cached ELSE Live(origin)

(* Overlaying, falling back, failing: whatever path the value of a setting *)
(* took, its attribution is that of the value shown, never of the one it   *)
(* replaced or of the backend that should have read it.                    *)
AttributionIsTrue == \A i \in Setting : meta[i] = Attribution(shown[i])

(* The attribution of the sensors, merged across backends, may say "mixed" *)
(* too often, but never credits one backend, or the present, with a value  *)
(* that is not its.                                                        *)
ThermalIsHonest ==
  LET origins == {shown[s] : s \in Thermal} \ {"none"}
      said    == meta["thermal"]
  IN  /\ said = Blank <=> origins = {}
      /\ \A o \in {"kept", "standard", "amw0", "mock"} :
           said.source = Attribution(o).source => origins = {o}
      /\ said.freshness = "live" => "kept" \notin origins
      /\ said.freshness = "cache" => origins = {"kept"}

(* The summaries are those of the components as they are now: the one      *)
(* source or freshness all attributed ones share, otherwise "mixed".       *)
Common(texts) ==
  IF texts \subseteq {""} THEN ""
  ELSE IF \E t \in texts : texts \subseteq {"", t}
  THEN CHOOSE t \in texts : t # "" /\ texts \subseteq {"", t}
  ELSE "mixed"
Summary(components) == [source    |-> Common({meta[c].source : c \in components}),
                        freshness |-> Common({meta[c].freshness : c \in components})]
SummariesAreTrue ==
  /\ meta["power"] = Summary(Power)
  /\ meta["overall"] = Summary(Setting \cup {"thermal"})

(* A live value of the standard backend is hidden only in a refresh in     *)
(* which amw0 answered, and only two kinds are: a limit, where amw0        *)
(* executes limits, and the profile, which such an amw0 always replaces,   *)
(* also where platform_profile is what executes profiles.  A sensor, or a  *)
(* limit that powercap executes, is never hidden.                          *)
LiveIsShown ==
  status = "OK" /\ can.standard => \A i \in given :
    \/ shown[i] = "standard"
    \/ /\ heard /\ shown[i] \in {"amw0", "kept"}
       /\ \/ i = "profile"
          \/ i \in Power /\ Executor("apply_power_limits") = "amw0"

(* effective is "the best state the daemon can currently explain"          *)
(* (docs/state-contract.md:44), and amw0 the "fallback for capabilities    *)
(* that are not available through standard ABI" (docs/architecture.md:19): *)
(* a setting that the standard backend executes, and has just read, is not *)
(* shown from amw0's memory.                                               *)
OperationOf(i) == IF i = "profile" THEN "apply_profile" ELSE "apply_power_limits"
BestIsShown ==
  status = "OK" => \A i \in given \cap Setting :
    Executor(OperationOf(i)) = "standard" => shown[i] # "kept"

(* What amw0 was seeded with, ever read or wrote stays in view for as long *)
(* as amw0 answers, and nothing outlives the refresh it was shown in but   *)
(* through amw0.                                                           *)
KnownIsShown ==
  status = "OK" /\ backend # "mock" =>
    /\ heard => \A i \in shadow : shown[i] \notin {"none", "default"}
    /\ \A i \in Item : shown[i] = "kept" => can.amw0 /\ i \in shadow

(* The channel taken for a sensor is never one that names the other        *)
(* processor only, one reading never stands for both unless it names both, *)
(* and no channel of the listing, whatever its order, fits better.  Where  *)
(* no channel was taken, none fits; a zone is taken for temperatures only, *)
(* and a temperature stays without a reading only when no zone is left.    *)
Fits(tree, found) ==
  /\ \A s \in Sensor : found[s].unit \in {"temp", "fan"} =>
       /\ \/ Subject(s) \in found[s].label
          \/ found[s].label \cup found[s].node \subseteq {Subject(s)}
       /\ \A n \in DOMAIN tree.channels :
            Score(s, tree.channels[n]) <= Score(s, found[s])
  /\ \A s \in Sensor : found[s].unit \notin {"temp", "fan"} =>
       \A n \in DOMAIN tree.channels : Score(s, tree.channels[n]) = 0
  /\ \A s \in Sensor : found[s].unit = "zone" => Unit(s) = "temp"
  /\ \A s \in Sensor : found[s] = NoChannel /\ Unit(s) = "temp" =>
       \A n \in 1..tree.zones : \E t \in Sensor : found[t] = Zone(n)
  /\ \A s, t \in Sensor : s # t /\ found[s] = found[t] /\ found[s] # NoChannel =>
       found[s].label = Processor
SensorsFit == Fits(listing, sensed)

(* A refresh that fails part of the way leaves the values as they were:    *)
(* what it had read already does not leak into the snapshot.               *)
FailureKeepsShown ==
  [][status' \in {"NOT_FOUND", "IO"} =>
       /\ \A i \in Item : shown'[i] # "none" <=> shown[i] # "none"
       /\ \A i \in Item : shown'[i] \in {"none", "default", "kept"}]_vars

================================================================================
