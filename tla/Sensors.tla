-------------------------------- MODULE Sensors --------------------------------
(***************************************************************************)
(* How the standard backend picks the temperatures and fan speeds it shows *)
(* out of the channels of hwmon and the zones of thermal: by what a        *)
(* channel's node and label name, by its index, by the order the           *)
(* directories are listed in.                                              *)
(***************************************************************************)
EXTENDS Naturals, Sequences

Processor == {"cpu", "gpu"}
Sensor == {"cpu_temp", "gpu_temp", "cpu_fan", "gpu_fan"}

(* node, label: the processors a channel's node and label name.            *)
Channel == [unit: {"temp", "fan"}, node: SUBSET Processor, label: SUBSET Processor,
            index: Nat \ {0}]

NoChannel == [unit |-> "none", node |-> {}, label |-> {}, index |-> 0]
Zone(n)   == [unit |-> "zone", node |-> {}, label |-> {}, index |-> n]

Subject(s) == IF s \in {"cpu_temp", "cpu_fan"} THEN "cpu" ELSE "gpu"
Unit(s)    == IF s \in {"cpu_temp", "gpu_temp"} THEN "temp" ELSE "fan"
Usual(s)   == IF Subject(s) = "cpu" THEN 1 ELSE 2

(* score_cpu_temp_channel and its siblings: a label of its own beats a node *)
(* of its own beats the index.                                             *)
Score_NodeOnly(s, c) ==
  IF c.unit # Unit(s) THEN 0
  ELSE IF Subject(s) \in c.label THEN 120
  ELSE IF Processor \ {Subject(s)} \subseteq c.node THEN 0
  ELSE IF Subject(s) \in c.node
  THEN (IF Unit(s) = "temp" THEN 80 ELSE 70) + (IF c.index = 1 THEN 1 ELSE 0)
  ELSE IF c.index = Usual(s) THEN 20 ELSE 0
Score(s, c) ==
  IF c.unit # Unit(s) THEN 0
  ELSE IF Subject(s) \in c.label THEN 120
  ELSE IF Processor \ {Subject(s)} \subseteq c.label \cup c.node THEN 0
  ELSE IF Subject(s) \in c.node
  THEN (IF Unit(s) = "temp" THEN 80 ELSE 70) + (IF c.index = 1 THEN 1 ELSE 0)
  ELSE IF c.index = Usual(s) THEN 20 ELSE 0

(* capture_candidate, over the first n channels of a listing.              *)
Captured(s, channels) ==
  LET candidate[n \in 0..Len(channels)] ==
        IF n = 0 THEN NoChannel
        ELSE LET best == candidate[n - 1] IN
             IF Score(s, channels[n]) > Score(s, best) THEN channels[n] ELSE best
  IN  candidate[Len(channels)]

(* The first zone fills the first temperature hwmon left open, a second    *)
(* zone the other.                                                         *)
Sensed(channels, zones) ==
  LET found == [s \in Sensor |-> Captured(s, channels)]
      open(s, n) == IF found[s] = NoChannel /\ n <= zones THEN Zone(n) ELSE found[s]
  IN  [found EXCEPT !["cpu_temp"] = open("cpu_temp", 1),
                    !["gpu_temp"] =
                      open("gpu_temp", IF found["cpu_temp"] = NoChannel THEN 2 ELSE 1)]

================================================================================
