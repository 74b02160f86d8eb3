----------------------------- MODULE MCStateView -----------------------------
(* Instances of StateView: a few machines' hwmon trees, in either listing    *)
(* order, and the ways the other sources of one read can go.                 *)
EXTENDS StateView

Node(unit, names, labels) ==
  [i \in 1..Len(labels) |-> [unit |-> unit, node |-> names, label |-> labels[i],
                             index |-> i]]

CoreTemp == Node("temp", {"cpu"}, <<{"cpu"}, {}>>)
AmdGpu   == Node("temp", {"gpu"}, <<{"gpu"}, {}>>)
Combined == Node("temp", {"cpu"}, <<{"gpu"}, {}>>)
Acpi     == Node("temp", {}, <<{}, {}>>)
Apu      == Node("temp", {"gpu"}, <<{"cpu", "gpu"}>>)
Fans     == Node("fan", {}, <<{}, {}>>)
GpuFan   == Node("fan", {"gpu"}, <<{}>>)

Trees == {<<>>, CoreTemp \o AmdGpu \o Fans, Acpi \o CoreTemp, Combined \o GpuFan \o Fans,
          Apu}

Reading(p, h, c, t, z, w, l) ==
  [profile |-> p, hwmon |-> h, channels |-> c, thermal |-> t, zones |-> z,
   powercap |-> w, limits |-> l]

MCStandardReading ==
  {Reading("OK", "OK", c, "OK", 0, "OK", {"pl1", "pl2"}) : c \in Trees}
    \cup {Reading(p, "NOT_FOUND", <<>>, "NOT_FOUND", 0, "NOT_FOUND", {})
            : p \in {"OK", "NOT_FOUND", "IO"}}
    \cup {Reading("NOT_FOUND", "OK", AmdGpu, "OK", 2, "OK", {"pl1"}),
          Reading("OK", "OK", CoreTemp \o AmdGpu, "OK", 0, "IO", {})}

Control == {"mode_control", "pl1", "ffan"}
Heat    == {"pl1", "cput"}

MCAmw0Reading ==
  {<<{}, {}>>, <<Control, {}>>, <<Control, Heat>>, <<Heat, Control>>}

(* No EC byte can be read: amw0 has its memory only.                       *)
NothingRead == {<<{}, {}>>}

==============================================================================
