----------------------------- MODULE StateViewProofs -----------------------------
(***************************************************************************)
(* That GetState tells the truth about where its values come from, for     *)
(* every hwmon tree, every reading and every set of limits: attributions,  *)
(* summaries, what is hidden, what is kept, what a failure leaves.         *)
(***************************************************************************)
EXTENDS StateView, WellFoundedInduction, TLAPS

Attr == [source : Text, freshness : Text]

(* What the attribution of the sensors may say of the origins they have.   *)
Heat(said, origins) ==
  /\ origins \subseteq {"kept", "standard", "amw0", "mock"}
  /\ said.source = "" <=> origins = {}
  /\ said.freshness = "" <=> origins = {}
  /\ said.source = "cache" => origins = {"kept"}
  /\ \A o \in {"standard", "amw0", "mock"} : said.source = o => origins = {o}
  /\ said.freshness = "live" => "kept" \notin origins
  /\ said.freshness = "cache" => origins = {"kept"}

Origins(view) == {view[s] : s \in Thermal} \ {"none"}

SummaryOf(m, components) == [source    |-> Common({m[c].source : c \in components}),
                             freshness |-> Common({m[c].freshness : c \in components})]

(* A view and the attributions that go with it.                            *)
Good(view, m) ==
  /\ view \in [Item -> Origin]
  /\ m \in [Component -> Attr]
  /\ \A i \in Setting : m[i] = Attribution(view[i])
  /\ \A i \in Item : view[i] = "default" => i = "fan_table"
  /\ Heat(m["thermal"], Origins(view))
  /\ m["power"] = SummaryOf(m, Power)
  /\ m["overall"] = SummaryOf(m, Setting \cup {"thermal"})

(* What the environment and the probes leave the daemon with.              *)
Equipped ==
  /\ can.standard => backend \in {"standard", "converged"}
  /\ backend = "standard" => ~can.amw0
  /\ backend = "amw0" => can.amw0 /\ ~can.standard
  /\ backend = "mock" => ~can.amw0
  /\ backend = "converged" => can.standard \/ can.amw0
  /\ backend = "down" => status = "unread"
  /\ backend # "mock" => SeededShadow \subseteq shadow

(* What a read that succeeds makes of the items the standard backend gave  *)
(* and of those amw0 holds.                                                *)
Displays(read, items, answers) ==
  read.status = "OK" =>
    /\ can.standard => \A i \in items :
         \/ read.view[i] = "standard"
         \/ /\ can.amw0 /\ answers /\ read.view[i] \in {"amw0", "kept"}
            /\ \/ i = "profile"
               \/ i \in Power /\ Executor("apply_power_limits") = "amw0"
    /\ can.amw0 /\ answers => \A i \in read.held : read.view[i] \notin {"none", "default"}
    /\ \A i \in Item : read.view[i] = "kept" => can.amw0 /\ i \in read.held

IInv == TypeOK /\ Good(shown, meta) /\ Equipped /\ LiveIsShown /\ KnownIsShown

--------------------------------------------------------------------------------
(* Texts, merged and summed up.                                            *)

LEMMA MergeTextTyped ==
  ASSUME NEW a \in Text, NEW b \in Text
  PROVE  MergeText(a, b) \in Text
BY DEF MergeText, Text

LEMMA MergedTyped ==
  ASSUME NEW a \in Attr, NEW b \in Attr
  PROVE  /\ Merged(a, b) \in Attr
         /\ Merged(a, b).source = MergeText(a.source, b.source)
         /\ Merged(a, b).freshness = MergeText(a.freshness, b.freshness)
<1>1. /\ MergeText(a.source, b.source) \in Text
      /\ MergeText(a.freshness, b.freshness) \in Text
  BY MergeTextTyped DEF Attr
<1>. QED BY <1>1 DEF Merged, Attr

LEMMA AttrTyped ==
  /\ Blank \in Attr /\ Cached \in Attr /\ Mixed \in Attr
  /\ \A b \in {"standard", "amw0", "mock"} : Live(b) \in Attr
  /\ \A o \in Origin : Attribution(o) \in Attr
BY DEF Blank, Cached, Mixed, Live, Attr, Text, Origin, Attribution

(* What Common finds: nothing, the one text, or several.                   *)
LEMMA CommonIs ==
  ASSUME NEW S
  PROVE  /\ S \subseteq {""} => Common(S) = ""
         /\ \A t \in S : t # "" /\ S \subseteq {"", t} => Common(S) = t
         /\ \A x, y \in S : x # "" /\ y # "" /\ x # y => Common(S) = "mixed"
<1>1. ASSUME NEW t \in S, t # "", S \subseteq {"", t}
      PROVE  Common(S) = t
  <2>1. ~(S \subseteq {""}) /\ \E u \in S : S \subseteq {"", u}
    BY <1>1
  <2>2. \A u \in S : u # "" /\ S \subseteq {"", u} => u = t
    BY <1>1
  <2>3. (CHOOSE u \in S : u # "" /\ S \subseteq {"", u}) = t
    BY <1>1, <2>2
  <2>. QED BY <2>1, <2>3 DEF Common
<1>2. ASSUME NEW x \in S, NEW y \in S, x # "", y # "", x # y
      PROVE  Common(S) = "mixed"
  BY <1>2 DEF Common
<1>3. S \subseteq {""} => Common(S) = ""
  BY DEF Common
<1>. QED BY <1>1, <1>2, <1>3

(* Merging what two groups have in common gives what they share.           *)
LEMMA CommonUnion ==
  ASSUME NEW S, NEW T
  PROVE  MergeText(Common(S), Common(T)) = Common(S \cup T)
<1>1. CASE S \subseteq {""}
  <2>1. Common(S) = "" /\ MergeText("", Common(T)) = Common(T)
    BY <1>1, CommonIs DEF MergeText
  <2>2. Common(S \cup T) = Common(T)
    <3>1. CASE T \subseteq {""}
      BY <1>1, <3>1, CommonIs
    <3>2. CASE \E t \in T : t # "" /\ T \subseteq {"", t}
      <4>1. PICK t \in T : t # "" /\ T \subseteq {"", t}
        BY <3>2
      <4>2. S \cup T \subseteq {"", t} /\ t \in S \cup T
        BY <1>1, <4>1
      <4>3. Common(T) = t
        BY <4>1, CommonIs
      <4>4. Common(S \cup T) = t
        BY <4>1, <4>2, CommonIs
      <4>. QED BY <4>3, <4>4
    <3>3. CASE \E x, y \in T : x # "" /\ y # "" /\ x # y
      <4>1. PICK x \in T, y \in T : x # "" /\ y # "" /\ x # y
        BY <3>3
      <4>2. x \in S \cup T /\ y \in S \cup T
        OBVIOUS
      <4>3. Common(T) = "mixed"
        BY <4>1, CommonIs
      <4>4. Common(S \cup T) = "mixed"
        BY <4>1, <4>2, CommonIs
      <4>. QED BY <4>3, <4>4
    <3>. QED BY <3>1, <3>2, <3>3
  <2>. QED BY <2>1, <2>2
<1>2. CASE \E s \in S : s # "" /\ S \subseteq {"", s}
  <2>1. PICK s \in S : s # "" /\ S \subseteq {"", s}
    BY <1>2
  <2>2. Common(S) = s /\ s \in S \cup T
    BY <2>1, CommonIs
  <2>3. CASE T \subseteq {"", s}
    <3>1. Common(T) \in {"", s}
      <4>1. CASE s \in T
        BY <2>1, <2>3, <4>1, CommonIs
      <4>2. CASE s \notin T
        BY <2>3, <4>2, CommonIs
      <4>. QED BY <4>1, <4>2
    <3>2. S \cup T \subseteq {"", s}
      BY <2>1, <2>3
    <3>3. Common(S \cup T) = s
      BY <2>1, <2>2, <3>2, CommonIs
    <3>. QED BY <2>1, <2>2, <3>1, <3>3 DEF MergeText
  <2>4. CASE ~(T \subseteq {"", s})
    <3>1. PICK t \in T : t # "" /\ t # s
      BY <2>4
    <3>2. Common(S \cup T) = "mixed"
      <4>1. t \in S \cup T
        BY <3>1
      <4>. QED BY <2>1, <2>2, <3>1, <4>1, CommonIs
    <3>3. Common(T) \in {t, "mixed"}
      <4>1. CASE T \subseteq {"", t}
        BY <3>1, <4>1, CommonIs
      <4>2. CASE ~(T \subseteq {"", t})
        <5>1. PICK u \in T : u # "" /\ u # t
          BY <4>2
        <5>. QED BY <3>1, <5>1, CommonIs
      <4>. QED BY <4>1, <4>2
    <3>. QED BY <2>1, <2>2, <3>1, <3>2, <3>3 DEF MergeText
  <2>. QED BY <2>3, <2>4
<1>3. CASE \E x, y \in S : x # "" /\ y # "" /\ x # y
  <2>1. PICK x \in S, y \in S : x # "" /\ y # "" /\ x # y
    BY <1>3
  <2>2. Common(S) = "mixed" /\ Common(S \cup T) = "mixed"
    <3>1. x \in S \cup T /\ y \in S \cup T
      OBVIOUS
    <3>. QED BY <2>1, <3>1, CommonIs
  <2>. QED BY <2>2 DEF MergeText
<1>. QED BY <1>1, <1>2, <1>3

LEMMA CommonOne ==
  ASSUME NEW t
  PROVE  Common({t}) = t
<1>1. CASE t = ""
  BY <1>1, CommonIs
<1>2. CASE t # ""
  <2>1. t \in {t} /\ {t} \subseteq {"", t}
    OBVIOUS
  <2>. QED BY <1>2, <2>1, CommonIs
<1>. QED BY <1>1, <1>2

(* Four attributions merged one after the other say what they share.       *)
LEMMA CommonFour ==
  ASSUME NEW a, NEW b, NEW c, NEW d
  PROVE  MergeText(MergeText(MergeText(a, b), c), d) = Common({a, b, c, d})
<1>1. MergeText(a, b) = Common({a, b})
  <2>1. MergeText(Common({a}), Common({b})) = Common({a} \cup {b})
    BY CommonUnion
  <2>2. {a} \cup {b} = {a, b}
    OBVIOUS
  <2>. QED BY <2>1, <2>2, CommonOne
<1>2. MergeText(MergeText(a, b), c) = Common({a, b, c})
  <2>1. MergeText(Common({a, b}), Common({c})) = Common({a, b} \cup {c})
    BY CommonUnion
  <2>2. {a, b} \cup {c} = {a, b, c}
    OBVIOUS
  <2>. QED BY <1>1, <2>1, <2>2, CommonOne
<1>3. MergeText(Common({a, b, c}), Common({d})) = Common({a, b, c} \cup {d})
  BY CommonUnion
<1>4. {a, b, c} \cup {d} = {a, b, c, d}
  OBVIOUS
<1>. QED BY <1>2, <1>3, <1>4, CommonOne

(* With a summed up group in the fourth place and one more text.           *)
LEMMA CommonAll ==
  ASSUME NEW a, NEW b, NEW c, NEW S, NEW d
  PROVE  MergeText(MergeText(MergeText(MergeText(a, b), c), Common(S)), d)
           = Common({a, b, c, d} \cup S)
<1>1. MergeText(MergeText(a, b), c) = Common({a, b, c})
  <2>1. MergeText(MergeText(a, b), c) = Common({a, b} \cup {c})
    <3>1. MergeText(a, b) = Common({a} \cup {b})
      BY CommonUnion, CommonOne
    <3>2. {a} \cup {b} = {a, b}
      OBVIOUS
    <3>3. MergeText(Common({a, b}), Common({c})) = Common({a, b} \cup {c})
      BY CommonUnion
    <3>. QED BY <3>1, <3>2, <3>3, CommonOne
  <2>2. {a, b} \cup {c} = {a, b, c}
    OBVIOUS
  <2>. QED BY <2>1, <2>2
<1>2. MergeText(Common({a, b, c}), Common(S)) = Common({a, b, c} \cup S)
  BY CommonUnion
<1>3. MergeText(Common({a, b, c} \cup S), Common({d})) = Common(({a, b, c} \cup S) \cup {d})
  BY CommonUnion
<1>4. ({a, b, c} \cup S) \cup {d} = {a, b, c, d} \cup S
  OBVIOUS
<1>. QED BY <1>1, <1>2, <1>3, <1>4, CommonOne

LEMMA ComponentsAre ==
  /\ Setting = {"profile", "fan_table", "fan_boost", "pl1", "pl2", "pl4", "tcc_offset"}
  /\ Component = {"profile", "fan_table", "fan_boost", "pl1", "pl2", "pl4", "tcc_offset",
                  "power", "thermal", "overall"}
BY DEF Setting, Component, Power

(* Finalized leaves each component as it was and sums them up.             *)
LEMMA FinalizedSums ==
  ASSUME NEW m \in [Component -> Attr],
         (\A f \in Power : m[f] = Blank) => m["power"] = Blank
  PROVE  /\ Finalized(m) \in [Component -> Attr]
         /\ \A c \in Setting \cup {"thermal"} : Finalized(m)[c] = m[c]
         /\ Finalized(m)["power"] = SummaryOf(Finalized(m), Power)
         /\ Finalized(m)["overall"] = SummaryOf(Finalized(m), Setting \cup {"thermal"})
<1> DEFINE four  == Merged(Merged(Merged(m["pl1"], m["pl2"]), m["pl4"]), m["tcc_offset"])
           power == IF \A f \in Power : m[f] = Blank THEN m["power"] ELSE four
           all   == Merged(Merged(Merged(Merged(m["profile"], m["fan_table"]),
                                         m["fan_boost"]), power), m["thermal"])
           n     == Finalized(m)
<1>1. n = [m EXCEPT !["power"] = power, !["overall"] = all]
  BY DEF Finalized
<1>2. \A c \in Component : m[c] \in Attr
  OBVIOUS
<1>3. four \in Attr
  <2>1. m["pl1"] \in Attr /\ m["pl2"] \in Attr /\ m["pl4"] \in Attr
        /\ m["tcc_offset"] \in Attr
    BY <1>2, ComponentsAre
  <2>2. Merged(m["pl1"], m["pl2"]) \in Attr
    BY <2>1, MergedTyped
  <2>3. Merged(Merged(m["pl1"], m["pl2"]), m["pl4"]) \in Attr
    BY <2>1, <2>2, MergedTyped
  <2>. QED BY <2>1, <2>3, MergedTyped
<1>4. /\ four.source = Common({m[c].source : c \in Power})
      /\ four.freshness = Common({m[c].freshness : c \in Power})
  <2>1. /\ four.source = MergeText(MergeText(MergeText(m["pl1"].source, m["pl2"].source),
                                              m["pl4"].source), m["tcc_offset"].source)
        /\ four.freshness = MergeText(MergeText(MergeText(m["pl1"].freshness,
             m["pl2"].freshness), m["pl4"].freshness), m["tcc_offset"].freshness)
    BY DEF Merged
  <2>2. /\ {m[c].source : c \in Power} = {m["pl1"].source, m["pl2"].source,
                                          m["pl4"].source, m["tcc_offset"].source}
        /\ {m[c].freshness : c \in Power} = {m["pl1"].freshness, m["pl2"].freshness,
                                             m["pl4"].freshness, m["tcc_offset"].freshness}
    BY DEF Power
  <2>. HIDE DEF four
  <2>3. /\ four.source = Common({m["pl1"].source, m["pl2"].source,
                                  m["pl4"].source, m["tcc_offset"].source})
        /\ four.freshness = Common({m["pl1"].freshness, m["pl2"].freshness,
                                     m["pl4"].freshness, m["tcc_offset"].freshness})
    BY <2>1, CommonFour
  <2>. QED BY <2>2, <2>3, Zenon
<1>. HIDE DEF four, all, n
<1>5. /\ power \in Attr
      /\ power.source = Common({m[c].source : c \in Power})
      /\ power.freshness = Common({m[c].freshness : c \in Power})
  <2>1. CASE \A f \in Power : m[f] = Blank
    <3>0. Blank.source = "" /\ Blank.freshness = ""
      BY DEF Blank
    <3>1. \A c \in Power : m[c].source = "" /\ m[c].freshness = ""
      BY <2>1, <3>0, Zenon
    <3>2. /\ {m[c].source : c \in Power} \subseteq {""}
          /\ {m[c].freshness : c \in Power} \subseteq {""}
      BY <3>1
    <3>3. /\ Common({m[c].source : c \in Power}) = ""
          /\ Common({m[c].freshness : c \in Power}) = ""
      BY <3>2, CommonIs
    <3>4. power = Blank
      BY <2>1
    <3>. QED BY <3>0, <3>3, <3>4, AttrTyped, Zenon
  <2>2. CASE ~(\A f \in Power : m[f] = Blank)
    BY <1>3, <1>4, <2>2
  <2>. QED BY <2>1, <2>2
<1>. HIDE DEF power
<1>. USE DEF all
<1>6. all \in Attr
  <2>1. m["profile"] \in Attr /\ m["fan_table"] \in Attr /\ m["fan_boost"] \in Attr
        /\ m["thermal"] \in Attr
    BY <1>2, ComponentsAre
  <2>2. Merged(m["profile"], m["fan_table"]) \in Attr
    BY <2>1, MergedTyped
  <2>3. Merged(Merged(m["profile"], m["fan_table"]), m["fan_boost"]) \in Attr
    BY <2>1, <2>2, MergedTyped
  <2>4. Merged(Merged(Merged(m["profile"], m["fan_table"]), m["fan_boost"]), power) \in Attr
    BY <1>5, <2>3, MergedTyped
  <2>. QED BY <2>1, <2>4, MergedTyped
<1>7. /\ all.source = Common({m[c].source : c \in Setting \cup {"thermal"}})
      /\ all.freshness = Common({m[c].freshness : c \in Setting \cup {"thermal"}})
  <2>1. /\ all.source = MergeText(MergeText(MergeText(MergeText(m["profile"].source,
             m["fan_table"].source), m["fan_boost"].source), power.source),
             m["thermal"].source)
        /\ all.freshness = MergeText(MergeText(MergeText(MergeText(m["profile"].freshness,
             m["fan_table"].freshness), m["fan_boost"].freshness), power.freshness),
             m["thermal"].freshness)
    BY DEF Merged
  <2>2. /\ {m[c].source : c \in Setting \cup {"thermal"}}
             = {m["profile"].source, m["fan_table"].source, m["fan_boost"].source,
                m["thermal"].source} \cup {m[c].source : c \in Power}
        /\ {m[c].freshness : c \in Setting \cup {"thermal"}}
             = {m["profile"].freshness, m["fan_table"].freshness, m["fan_boost"].freshness,
                m["thermal"].freshness} \cup {m[c].freshness : c \in Power}
    BY DEF Setting
  <2>. HIDE DEF all
  <2>3. /\ all.source = Common({m["profile"].source, m["fan_table"].source,
             m["fan_boost"].source, m["thermal"].source} \cup {m[c].source : c \in Power})
        /\ all.freshness = Common({m["profile"].freshness, m["fan_table"].freshness,
             m["fan_boost"].freshness, m["thermal"].freshness}
             \cup {m[c].freshness : c \in Power})
    <3>1. all.source = Common({m["profile"].source, m["fan_table"].source,
             m["fan_boost"].source, m["thermal"].source} \cup {m[c].source : c \in Power})
      <4> DEFINE P == {m[c].source : c \in Power}
      <4>1. all.source = MergeText(MergeText(MergeText(MergeText(m["profile"].source,
             m["fan_table"].source), m["fan_boost"].source),
             Common(P)), m["thermal"].source)
        BY <1>5, <2>1, Zenon
      <4>. HIDE DEF P
      <4>2. all.source = Common({m["profile"].source, m["fan_table"].source,
                         m["fan_boost"].source, m["thermal"].source} \cup P)
        BY <4>1, CommonAll
      <4>. QED BY <4>2 DEF P
    <3>2. all.freshness = Common({m["profile"].freshness, m["fan_table"].freshness,
             m["fan_boost"].freshness, m["thermal"].freshness}
             \cup {m[c].freshness : c \in Power})
      <4> DEFINE P == {m[c].freshness : c \in Power}
      <4>1. all.freshness = MergeText(MergeText(MergeText(MergeText(m["profile"].freshness,
             m["fan_table"].freshness), m["fan_boost"].freshness),
             Common(P)), m["thermal"].freshness)
        BY <1>5, <2>1, Zenon
      <4>. HIDE DEF P
      <4>2. all.freshness = Common({m["profile"].freshness, m["fan_table"].freshness,
                         m["fan_boost"].freshness, m["thermal"].freshness} \cup P)
        BY <4>1, CommonAll
      <4>. QED BY <4>2 DEF P
    <3>. QED BY <3>1, <3>2
  <2>. QED BY <2>2, <2>3, Zenon
<1>. HIDE DEF all, n
<1>8. /\ n \in [Component -> Attr] /\ n["power"] = power /\ n["overall"] = all
      /\ \A c \in Setting \cup {"thermal"} : n[c] = m[c]
  BY <1>1, <1>5, <1>6, ComponentsAre
<1>9. /\ {n[c].source : c \in Power} = {m[c].source : c \in Power}
      /\ {n[c].freshness : c \in Power} = {m[c].freshness : c \in Power}
      /\ {n[c].source : c \in Setting \cup {"thermal"}}
           = {m[c].source : c \in Setting \cup {"thermal"}}
      /\ {n[c].freshness : c \in Setting \cup {"thermal"}}
           = {m[c].freshness : c \in Setting \cup {"thermal"}}
  <2>1. \A c \in Power : n[c] = m[c]
    BY <1>8 DEF Setting
  <2>. QED BY <1>8, <2>1
<1>10. n["power"] = SummaryOf(n, Power)
  BY <1>5, <1>8, <1>9 DEF SummaryOf, Attr
<1>11. n["overall"] = SummaryOf(n, Setting \cup {"thermal"})
  BY <1>6, <1>7, <1>8, <1>9 DEF SummaryOf, Attr
<1>. QED BY <1>8, <1>10, <1>11 DEF n

--------------------------------------------------------------------------------
(* The readings of the backends.                                           *)

(* Of no channels none is captured.                                        *)
LEMMA NothingCaptured ==
  ASSUME NEW s
  PROVE  Captured(s, <<>>) = NoChannel
<1> DEFINE F == [n \in 0..0 |-> NoChannel]
           Next0(f) == [n \in 0..Len(<<>>) |->
                          IF n = 0 THEN NoChannel
                          ELSE LET best == f[n - 1] IN
                               IF Score(s, <<>>[n]) > Score(s, best) THEN <<>>[n] ELSE best]
<1>1. Len(<<>>) = 0 /\ 0..0 = {0}
  OBVIOUS
<1>2. \A f : Next0(f) = F
  BY <1>1
<1>3. \E f : f = Next0(f)
  BY <1>2
<1>4. (CHOOSE f : f = Next0(f)) = F
  BY <1>2, <1>3
<1>5. F[0] = NoChannel
  BY <1>1
<1>. QED BY <1>1, <1>4, <1>5 DEF Captured

(* Every inhabited set of naturals has a least member.                     *)
LEMMA Least ==
  ASSUME NEW S, S \subseteq Nat, S # {}
  PROVE  \E n \in S : \A m \in S : n <= m
<1> DEFINE below == OpToRel(<, Nat)
<1>1. IsWellFoundedOn(below, Nat)
  BY NatLessThanWellFounded
<1>2. \A m, n \in Nat : <<m, n>> \in below <=> m < n
  BY DEF OpToRel
<1>. HIDE DEF below
<1>3. PICK n \in S : \A m \in S : <<m, n>> \notin below
  BY <1>1, WFMin
<1>4. ASSUME NEW m \in S PROVE n <= m
  <2>1. m \in Nat /\ n \in Nat
    OBVIOUS
  <2>2. ~(m < n)
    BY <1>2, <1>3, <2>1
  <2>. QED BY <2>1, <2>2
<1>. QED BY <1>4

(* A channel scores for the processor it names, or by its index when it    *)
(* names none.                                                             *)
LEMMA ScoreIs ==
  ASSUME NEW s \in Sensor, NEW c \in Channel \cup {NoChannel}
  PROVE  /\ Score(s, c) \in Nat
         /\ Score(s, NoChannel) = 0
         /\ Score(s, c) > 0 =>
              /\ c.unit = Unit(s)
              /\ \/ Subject(s) \in c.label
                 \/ c.label \cup c.node \subseteq {Subject(s)}
              /\ c.label \cup c.node = {} => c.index = Usual(s)
<1>1. Unit(s) \in {"temp", "fan"} /\ Subject(s) \in Processor
  BY DEF Unit, Subject, Processor
<1>2. NoChannel.unit # Unit(s)
  BY <1>1 DEF NoChannel
<1>3. c.label \subseteq Processor /\ c.node \subseteq Processor
  BY DEF Channel, NoChannel
<1>4. Score(s, c) \in Nat /\ (c.unit # Unit(s) => Score(s, c) = 0)
  BY DEF Score
<1>5. ASSUME Score(s, c) > 0, Subject(s) \notin c.label
      PROVE  /\ c.label \cup c.node \subseteq {Subject(s)}
             /\ c.label \cup c.node = {} => c.index = Usual(s)
  <2>1. ~(Processor \ {Subject(s)} \subseteq c.label \cup c.node)
    BY <1>5 DEF Score
  <2>2. c.label \cup c.node \subseteq {Subject(s)}
    BY <1>1, <1>3, <2>1 DEF Processor
  <2>3. c.label \cup c.node = {} => c.index = Usual(s)
    BY <1>5, <2>1 DEF Score
  <2>. QED BY <2>2, <2>3
<1>6. Score(s, NoChannel) = 0
  BY <1>2 DEF Score
<1>. QED BY <1>4, <1>5, <1>6

(* The pass over the first n channels of a listing that capture_candidate  *)
(* makes: what it holds after each of them.                                *)
Better(s, c, best) == IF Score(s, c) > Score(s, best) THEN c ELSE best
Scan(s, channels, n, f) ==
  [k \in 0..n |-> IF k = 0 THEN NoChannel ELSE Better(s, channels[k], f[k - 1])]

LEMMA ScanExists ==
  ASSUME NEW s, NEW channels, NEW n \in Nat
  PROVE  \E f : f = Scan(s, channels, n, f)
<1> DEFINE Stuck == {k \in Nat : \A f : f # Scan(s, channels, k, f)}
<1>1. SUFFICES ASSUME Stuck # {} PROVE FALSE
  OBVIOUS
<1>2. PICK k \in Stuck : \A m \in Stuck : k <= m
  BY <1>1, Least
<1>3. k # 0
  <2> DEFINE f == [m \in 0..0 |-> NoChannel]
  <2>1. f = Scan(s, channels, 0, f)
    BY DEF Scan
  <2>. HIDE DEF f
  <2>. QED BY <1>2, <2>1
<1>4. k \in Nat /\ k - 1 \in Nat /\ k - 1 \notin Stuck
  BY <1>2, <1>3
<1>5. PICK f : f = Scan(s, channels, k - 1, f)
  BY <1>4
<1> DEFINE g == [m \in 0..k |-> IF m = k THEN Better(s, channels[k], f[k - 1]) ELSE f[m]]
<1>6. \A m \in 0..k :
        g[m] = IF m = 0 THEN NoChannel ELSE Better(s, channels[m], g[m - 1])
  <2>1. \A m \in 0..(k - 1) :
          f[m] = IF m = 0 THEN NoChannel ELSE Better(s, channels[m], f[m - 1])
    BY <1>5 DEF Scan
  <2>2. g[k] = Better(s, channels[k], f[k - 1]) /\ \A m \in 0..(k - 1) : g[m] = f[m]
    BY <1>4
  <2>. HIDE DEF g
  <2>3. TAKE m \in 0..k
  <2>4. CASE m = k
    BY <1>3, <1>4, <2>2, <2>4
  <2>5. CASE m # k
    BY <1>4, <2>1, <2>2, <2>5
  <2>. QED BY <2>4, <2>5
<1>7. g = Scan(s, channels, k, g)
  <2>1. g = [m \in 0..k |-> g[m]]
    OBVIOUS
  <2>. HIDE DEF g
  <2>. QED BY <1>6, <2>1 DEF Scan
<1>. QED BY <1>2, <1>7

(* What capture_candidate captures is nothing, or a channel of the listing *)
(* that scores, and no channel scores more.                                *)
LEMMA CapturedFits ==
  ASSUME NEW s \in Sensor, NEW channels \in Seq(Channel)
  PROVE  /\ \/ Captured(s, channels) = NoChannel
            \/ Captured(s, channels) \in Channel /\ Score(s, Captured(s, channels)) > 0
         /\ \A i \in DOMAIN channels :
              Score(s, channels[i]) <= Score(s, Captured(s, channels))
<1> DEFINE last == Len(channels)
           f == CHOOSE h : h = Scan(s, channels, last, h)
<1>0. last \in Nat
  OBVIOUS
<1>1. f = Scan(s, channels, last, f)
  BY <1>0, ScanExists
<1>2. Captured(s, channels) = f[last]
  BY DEF Captured, Scan, Better
<1>. HIDE DEF f
<1>3. \A k \in 0..last :
        f[k] = IF k = 0 THEN NoChannel ELSE Better(s, channels[k], f[k - 1])
  BY <1>1 DEF Scan
<1> DEFINE Held(k) == /\ f[k] = NoChannel \/ (f[k] \in Channel /\ Score(s, f[k]) > 0)
                      /\ \A i \in 1..k : Score(s, channels[i]) <= Score(s, f[k])
           Wrong == {k \in 0..last : ~Held(k)}
<1>4. ASSUME Wrong # {} PROVE FALSE
  <2>0. Wrong \subseteq Nat
    BY <1>0
  <2>1. PICK k \in Wrong : \A m \in Wrong : k <= m
    <3>. HIDE DEF Wrong
    <3>. QED BY <1>4, <2>0, Least
  <2>2. k # 0
    <3>1. f[0] = NoChannel
      BY <1>0, <1>3
    <3>. QED BY <2>1, <3>1
  <2>3. k \in 1..last /\ k - 1 \in 0..last /\ k - 1 \notin Wrong /\ ~Held(k)
    BY <1>0, <2>1, <2>2
  <2>4. Held(k - 1)
    BY <2>3
  <2>5. /\ f[k] = Better(s, channels[k], f[k - 1])
        /\ channels[k] \in Channel
    BY <1>3, <2>3
  <2>6. Score(s, channels[k]) \in Nat /\ Score(s, f[k - 1]) \in Nat
    BY <2>4, <2>5, ScoreIs
  <2>7. \A i \in 1..k : i = k \/ i \in 1..(k - 1)
    BY <2>3
  <2>8. \A i \in 1..(k - 1) : Score(s, channels[i]) \in Nat
    <3>1. \A i \in 1..(k - 1) : channels[i] \in Channel
      BY <1>0, <2>3
    <3>. QED BY <3>1, ScoreIs
  <2>9. CASE Score(s, channels[k]) > Score(s, f[k - 1])
    <3>1. f[k] = channels[k]
      BY <2>5, <2>9 DEF Better
    <3>. QED BY <2>3, <2>4, <2>5, <2>6, <2>7, <2>8, <2>9, <3>1
  <2>10. CASE ~(Score(s, channels[k]) > Score(s, f[k - 1]))
    <3>1. f[k] = f[k - 1]
      BY <2>5, <2>10 DEF Better
    <3>. QED BY <2>3, <2>4, <2>6, <2>7, <2>10, <3>1
  <2>. QED BY <2>9, <2>10
<1>5. Held(last)
  BY <1>0, <1>4
<1>. QED BY <1>2, <1>5

(* Nor do the zones that fill what hwmon left open get it wrong.           *)
LEMMA SensedFits ==
  ASSUME NEW channels \in Seq(Channel), NEW zones \in Nat
  PROVE  Fits([channels |-> channels, zones |-> zones], Sensed(channels, zones))
<1> DEFINE found == [s \in Sensor |-> Captured(s, channels)]
           second == IF found["cpu_temp"] = NoChannel THEN 2 ELSE 1
           open(s, n) == IF found[s] = NoChannel /\ n <= zones THEN Zone(n) ELSE found[s]
           taken == Sensed(channels, zones)
<1>1. taken = [found EXCEPT !["cpu_temp"] = open("cpu_temp", 1),
                            !["gpu_temp"] = open("gpu_temp", second)]
  BY DEF Sensed
<1>2. \A s \in Sensor : found[s] = Captured(s, channels)
  OBVIOUS
<1>3. \A n : Zone(n).unit = "zone" /\ Zone(n).index = n
  BY DEF Zone
<1>4. \A s \in Sensor :
        \/ taken[s] = Captured(s, channels)
        \/ s = "cpu_temp" /\ Captured(s, channels) = NoChannel /\ taken[s] = Zone(1)
        \/ s = "gpu_temp" /\ Captured(s, channels) = NoChannel /\ taken[s] = Zone(second)
  BY <1>1 DEF Sensor
<1>5. second = IF Captured("cpu_temp", channels) = NoChannel THEN 2 ELSE 1
  BY <1>2 DEF Sensor
<1>. HIDE DEF found, second, open, taken
<1>6. \A s \in Sensor : /\ Captured(s, channels) \in Channel \cup {NoChannel}
                        /\ Captured(s, channels) # NoChannel =>
                             Score(s, Captured(s, channels)) > 0
  BY CapturedFits
<1>7. ASSUME NEW s \in Sensor, taken[s].unit \in {"temp", "fan"}
      PROVE  /\ taken[s] = Captured(s, channels)
             /\ taken[s] \in Channel /\ Score(s, taken[s]) > 0
  <2>1. taken[s] = Captured(s, channels)
    BY <1>3, <1>4, <1>7
  <2>2. NoChannel.unit = "none"
    BY DEF NoChannel
  <2>. QED BY <1>6, <1>7, <2>1, <2>2
<1>8. ASSUME NEW s \in Sensor, taken[s].unit \in {"temp", "fan"}
      PROVE  /\ \/ Subject(s) \in taken[s].label
                \/ taken[s].label \cup taken[s].node \subseteq {Subject(s)}
             /\ \A n \in DOMAIN channels : Score(s, channels[n]) <= Score(s, taken[s])
  BY <1>7, <1>8, ScoreIs, CapturedFits
<1>9. ASSUME NEW s \in Sensor, NEW t \in Sensor, s # t, taken[s] = taken[t],
             taken[s] # NoChannel
      PROVE  taken[s].label = Processor
  <2>1. CASE taken[s].unit \in {"temp", "fan"}
    <3> DEFINE c == taken[s]
    <3>1. /\ c \in Channel /\ Score(s, c) > 0 /\ Score(t, c) > 0
      BY <1>7, <1>9, <2>1
    <3>2. /\ c.unit = Unit(s) /\ c.unit = Unit(t)
          /\ Subject(s) \in c.label \/ c.label \cup c.node \subseteq {Subject(s)}
          /\ Subject(t) \in c.label \/ c.label \cup c.node \subseteq {Subject(t)}
          /\ c.label \cup c.node = {} => c.index = Usual(s) /\ c.index = Usual(t)
      BY <3>1, ScoreIs
    <3>3. c.label \subseteq Processor
      BY <3>1 DEF Channel
    <3>. HIDE DEF c
    <3>4. Subject(s) # Subject(t) /\ {Subject(s), Subject(t)} = Processor
          /\ Usual(s) # Usual(t)
      BY <1>9, <3>2 DEF Sensor, Subject, Unit, Processor, Usual
    <3>5. c.label = Processor
      BY <3>2, <3>3, <3>4
    <3>. QED BY <3>5 DEF c
  <2>2. CASE taken[s].unit \notin {"temp", "fan"}
    <3>1. \A u \in Sensor : taken[u] = Captured(u, channels) =>
            taken[u] = NoChannel \/ taken[u].unit \in {"temp", "fan"}
      BY <1>6 DEF Channel
    <3>2. taken["cpu_temp"] = Zone(1) /\ taken["gpu_temp"] = Zone(second)
          /\ Captured("cpu_temp", channels) = NoChannel
          /\ taken["cpu_temp"] = taken["gpu_temp"]
      BY <1>4, <1>9, <2>2, <3>1
    <3>. QED BY <1>3, <1>5, <3>2
  <2>. QED BY <2>1, <2>2
<1>10. ASSUME NEW s \in Sensor, taken[s].unit \notin {"temp", "fan"}
       PROVE  Captured(s, channels) = NoChannel
  BY <1>4, <1>6, <1>10 DEF Channel
<1>11. ASSUME NEW s \in Sensor, taken[s].unit \notin {"temp", "fan"}, NEW n \in DOMAIN channels
       PROVE  Score(s, channels[n]) = 0
  <2>1. Score(s, channels[n]) <= Score(s, NoChannel)
    BY <1>10, <1>11, CapturedFits
  <2>2. Score(s, NoChannel) = 0
    BY DEF Score, NoChannel, Unit
  <2>3. Score(s, channels[n]) \in Nat
    BY ScoreIs
  <2>. QED BY <2>1, <2>2, <2>3
<1>12. ASSUME NEW s \in Sensor, taken[s].unit = "zone" PROVE Unit(s) = "temp"
  <2>1. taken[s] # Captured(s, channels)
    BY <1>6, <1>12 DEF Channel, NoChannel
  <2>. QED BY <1>4, <2>1 DEF Unit
<1>13. ASSUME NEW s \in Sensor, taken[s] = NoChannel, Unit(s) = "temp", NEW n \in 1..zones
       PROVE  \E t \in Sensor : taken[t] = Zone(n)
  <2>1. s \in {"cpu_temp", "gpu_temp"}
    BY <1>13 DEF Sensor, Unit
  <2>2. Zone(1) # NoChannel /\ Zone(second) # NoChannel
    BY <1>3 DEF NoChannel
  <2>3. Captured(s, channels) = NoChannel
    BY <1>4, <1>13, <2>1, <2>2
  <2>4. /\ taken["cpu_temp"] = open("cpu_temp", 1)
        /\ taken["gpu_temp"] = open("gpu_temp", second)
    BY <1>1 DEF Sensor, found
  <2>5. found[s] = NoChannel
    BY <1>2, <2>3
  <2>6. CASE s = "cpu_temp"
    BY <1>13, <2>2, <2>4, <2>5, <2>6 DEF open
  <2>7. CASE s = "gpu_temp"
    <3>1. ~(second <= zones)
      BY <1>13, <2>2, <2>4, <2>5, <2>7 DEF open
    <3>2. n = 1 /\ second = 2
      BY <1>5, <3>1
    <3>3. taken["cpu_temp"] = Zone(1)
      BY <1>5, <2>4, <3>2, <1>2 DEF open, Sensor
    <3>. QED BY <3>2, <3>3 DEF Sensor
  <2>. QED BY <2>1, <2>6, <2>7
<1>. HIDE DEF taken
<1>14. /\ \A s \in Sensor : taken[s].unit \in {"temp", "fan"} =>
            /\ \/ Subject(s) \in taken[s].label
               \/ taken[s].label \cup taken[s].node \subseteq {Subject(s)}
            /\ \A n \in DOMAIN channels : Score(s, channels[n]) <= Score(s, taken[s])
       /\ \A s \in Sensor : taken[s].unit \notin {"temp", "fan"} =>
            \A n \in DOMAIN channels : Score(s, channels[n]) = 0
  BY <1>8, <1>11
<1>. QED BY <1>9, <1>12, <1>13, <1>14 DEF Fits, taken

(* A sensor that hwmon has stays hwmon's; a zone fills an open one.        *)
LEMMA SensedIs ==
  ASSUME NEW channels, NEW zones \in Nat
  PROVE  /\ DOMAIN Sensed(channels, zones) = Sensor
         /\ \A s \in Sensor : Captured(s, channels) # NoChannel =>
              Sensed(channels, zones)[s] # NoChannel
         /\ \A s \in Sensor : Sensed(channels, zones)[s] # NoChannel =>
              Captured(s, channels) # NoChannel \/ zones # 0
         /\ zones # 0 => Sensed(channels, zones)["cpu_temp"] # NoChannel
<1> DEFINE found == [s \in Sensor |-> Captured(s, channels)]
           open(s, n) == IF found[s] = NoChannel /\ n <= zones THEN Zone(n) ELSE found[s]
           second == IF found["cpu_temp"] = NoChannel THEN 2 ELSE 1
<1>1. Sensed(channels, zones) =
        [found EXCEPT !["cpu_temp"] = open("cpu_temp", 1),
                      !["gpu_temp"] = open("gpu_temp", second)]
  BY DEF Sensed
<1>2. second \in Nat /\ second # 0
  OBVIOUS
<1>3. \A n : Zone(n) # NoChannel
  BY DEF Zone, NoChannel
<1>4. "cpu_temp" \in Sensor /\ "gpu_temp" \in Sensor
  BY DEF Sensor
<1>. HIDE DEF second
<1>5. /\ DOMAIN Sensed(channels, zones) = Sensor
      /\ Sensed(channels, zones)["cpu_temp"] = open("cpu_temp", 1)
      /\ Sensed(channels, zones)["gpu_temp"] = open("gpu_temp", second)
      /\ \A s \in Sensor \ {"cpu_temp", "gpu_temp"} :
           Sensed(channels, zones)[s] = Captured(s, channels)
  BY <1>1, <1>4
<1>6. \A s \in Sensor : found[s] = Captured(s, channels)
  OBVIOUS
<1>7. \A s, n : /\ found[s] # NoChannel => open(s, n) # NoChannel
                /\ n \in Nat \ {0} /\ open(s, n) # NoChannel =>
                     found[s] # NoChannel \/ zones # 0
                /\ zones # 0 => open(s, 1) # NoChannel
  BY <1>3
<1>. HIDE DEF found, open
<1>. QED BY <1>2, <1>4, <1>5, <1>6, <1>7

LEMMA StandardReadIs ==
  ASSUME NEW r \in StandardReading
  PROVE  /\ StandardRead[r].status = StandardStatus(r)
         /\ StandardRead[r].view =
              [i \in Item |-> IF i \in StandardItems(r) THEN "standard"
                              ELSE IF i = "fan_table" THEN "default" ELSE "none"]
         /\ StandardRead[r].meta = StandardMeta(r)
         /\ StandardRead[r].items = StandardItems(r)
         /\ StandardRead[r].sensed = Sensed(r.channels, r.zones)
BY DEF StandardRead

LEMMA ReadingIs ==
  ASSUME NEW r \in StandardReading
  PROVE  /\ r.profile \in {"OK", "NOT_FOUND", "IO"}
         /\ r.hwmon \in {"OK", "NOT_FOUND", "IO"}
         /\ r.thermal \in {"OK", "NOT_FOUND", "IO"}
         /\ r.powercap \in {"OK", "NOT_FOUND", "IO"}
         /\ r.zones \in Nat
         /\ r.limits \subseteq {"pl1", "pl2"}
         /\ r.hwmon # "OK" => r.channels = <<>>
         /\ r.thermal # "OK" => r.zones = 0
         /\ r.powercap # "OK" => r.limits = {}
BY ReadingAssumption

(* What the standard backend shows, and that it finds nothing only where   *)
(* there is nothing.                                                       *)
LEMMA StandardItemsAre ==
  ASSUME NEW r \in StandardReading
  PROVE  /\ StandardItems(r) \subseteq {"profile", "pl1", "pl2"} \cup Sensor
         /\ "profile" \in StandardItems(r) <=> r.profile = "OK"
         /\ \A f \in Power : f \in StandardItems(r) <=> f \in r.limits
         /\ StandardItems(r) \cap Sensor # {} <=>
              "OK" \in {HwmonStatus(r), ThermalStatus(r)}
         /\ StandardStatus(r) \in {"OK", "NOT_FOUND", "IO"}
         /\ StandardStatus(r) = "NOT_FOUND" => StandardItems(r) = {}
<1> DEFINE S == {s \in Sensor : Sensed(r.channels, r.zones)[s] # NoChannel}
<1>1. /\ StandardItems(r) = (IF r.profile = "OK" THEN {"profile"} ELSE {}) \cup r.limits \cup S
      /\ S \subseteq Sensor
  BY DEF StandardItems
<1>2. S # {} <=> "OK" \in {HwmonStatus(r), ThermalStatus(r)}
  <2>1. /\ \A s \in Sensor : Captured(s, r.channels) # NoChannel => s \in S
        /\ \A s \in S : Captured(s, r.channels) # NoChannel \/ r.zones # 0
        /\ r.zones # 0 => "cpu_temp" \in S
    BY ReadingIs, SensedIs DEF Sensor
  <2>2. r.hwmon # "OK" => \A s \in Sensor : Captured(s, r.channels) = NoChannel
    BY ReadingIs, NothingCaptured
  <2>3. HwmonStatus(r) = "OK" <=> \E s \in Sensor : Captured(s, r.channels) # NoChannel
    BY <2>2 DEF HwmonStatus
  <2>4. ThermalStatus(r) = "OK" <=> r.zones # 0
    BY ReadingIs DEF ThermalStatus
  <2>5. S \subseteq Sensor
    OBVIOUS
  <2>. HIDE DEF S
  <2>. QED BY <2>1, <2>3, <2>4, <2>5
<1>. HIDE DEF S
<1>3. StandardItems(r) \subseteq {"profile", "pl1", "pl2"} \cup Sensor
  BY <1>1, ReadingIs
<1>4. /\ "profile" \in StandardItems(r) <=> r.profile = "OK"
      /\ \A f \in Power : f \in StandardItems(r) <=> f \in r.limits
      /\ StandardItems(r) \cap Sensor = S
  BY <1>1, ReadingIs DEF Sensor, Power
<1>5. StandardStatus(r) \in {"OK", "NOT_FOUND", "IO"}
  BY DEF StandardStatus
<1>6. StandardStatus(r) = "NOT_FOUND" => StandardItems(r) = {}
  <2>1. StandardStatus(r) = "NOT_FOUND" =>
          /\ r.profile # "OK" /\ r.powercap # "OK"
          /\ "OK" \notin {HwmonStatus(r), ThermalStatus(r)}
    BY DEF StandardStatus
  <2>. QED BY <1>1, <1>2, <2>1, ReadingIs
<1>. QED BY <1>2, <1>3, <1>4, <1>5, <1>6

LEMMA ItemsAre ==
  /\ Setting \subseteq Item /\ Thermal \subseteq Item
  /\ Sensor \subseteq Thermal
  /\ Item = Setting \cup Thermal /\ Setting \cap Thermal = {}
  /\ Setting \cup {"thermal"} \subseteq Component
  /\ "thermal" \notin Setting /\ "power" \notin Setting \cup {"thermal"}
  /\ Power \subseteq Setting /\ "fan_table" \notin Thermal
BY DEF Setting, Thermal, Item, Sensor, Component, Power

(* The origins of the sensors of a view decide what Heat asks.             *)
LEMMA OriginsAre ==
  ASSUME NEW view
  PROVE  \A o : o \in Origins(view) <=> o # "none" /\ \E s \in Thermal : view[s] = o
BY DEF Origins

LEMMA HeatOfOne ==
  /\ Heat(Blank, {}) /\ Heat(Cached, {"kept"})
  /\ \A b \in {"standard", "amw0", "mock"} : Heat(Live(b), {b})
  /\ Heat(Mixed, {"kept", "amw0"})
BY DEF Heat, Blank, Cached, Live, Mixed

LEMMA StandardGood ==
  ASSUME NEW r \in StandardReading
  PROVE  Good(StandardRead[r].view, StandardRead[r].meta)
<1> DEFINE view == StandardRead[r].view
           items == StandardItems(r)
           heat == "OK" \in {HwmonStatus(r), ThermalStatus(r)}
           m == [c \in Component |->
                   IF \/ c = "profile" /\ r.profile = "OK"
                      \/ c \in r.limits
                      \/ c = "thermal" /\ heat
                   THEN Live("standard")
                   ELSE IF c = "fan_table" THEN Cached ELSE Blank]
<1>1. view = [i \in Item |-> IF i \in items THEN "standard"
                             ELSE IF i = "fan_table" THEN "default" ELSE "none"]
  BY StandardReadIs
<1>2. StandardRead[r].meta = Finalized(m)
  BY StandardReadIs DEF StandardMeta
<1>3. m \in [Component -> Attr]
  BY AttrTyped
<1>4. \A f \in Power : m[f] = IF f \in items THEN Live("standard") ELSE Blank
  <2>1. \A f \in Power : f \in items <=> f \in r.limits
    BY StandardItemsAre
  <2>2. \A f \in Power : /\ f \in Component
                          /\ f # "profile" /\ f # "thermal" /\ f # "fan_table"
    BY DEF Power, Component, Setting
  <2>. HIDE DEF items, heat
  <2>. QED BY <2>1, <2>2
<1>5. m["power"] = Blank
  BY ReadingIs DEF Component
<1>6. /\ StandardRead[r].meta \in [Component -> Attr]
      /\ \A c \in Setting \cup {"thermal"} : StandardRead[r].meta[c] = m[c]
      /\ StandardRead[r].meta["power"] = SummaryOf(StandardRead[r].meta, Power)
      /\ StandardRead[r].meta["overall"] =
           SummaryOf(StandardRead[r].meta, Setting \cup {"thermal"})
  BY <1>2, <1>3, <1>5, FinalizedSums
<1>7. view \in [Item -> Origin]
  BY <1>1 DEF Origin
<1>8. \A i \in Setting : m[i] = Attribution(view[i])
  <2>1. m["profile"] = Attribution(view["profile"])
    BY <1>1, StandardItemsAre, ReadingIs, ItemsAre DEF Setting, Component, Attribution
  <2>2. m["fan_table"] = Attribution(view["fan_table"])
    <3>1. "fan_table" \notin items /\ "fan_table" \notin r.limits
      BY StandardItemsAre, ReadingIs DEF Sensor
    <3>. QED BY <1>1, <3>1, ItemsAre DEF Setting, Component, Attribution
  <2>3. m["fan_boost"] = Attribution(view["fan_boost"])
    <3>1. "fan_boost" \notin items /\ "fan_boost" \notin r.limits
      BY StandardItemsAre, ReadingIs DEF Sensor
    <3>. QED BY <1>1, <3>1, ItemsAre DEF Setting, Component, Attribution
  <2>4. \A f \in Power : m[f] = Attribution(view[f])
    BY <1>1, <1>4, ItemsAre DEF Power, Attribution
  <2>. QED BY <2>1, <2>2, <2>3, <2>4 DEF Setting
<1>9. \A i \in Item : view[i] = "default" => i = "fan_table"
  BY <1>1
<1>10. Heat(m["thermal"], Origins(view))
  <2>1. \A s \in Thermal : view[s] = IF s \in items THEN "standard" ELSE "none"
    BY <1>1, ItemsAre
  <2>2. items \cap Thermal = items \cap Sensor
    BY StandardItemsAre DEF Thermal, Sensor
  <2>3. Origins(view) = IF heat THEN {"standard"} ELSE {}
    <3>1. CASE heat
      <4>1. PICK s \in Thermal : s \in items
        BY <2>2, <3>1, StandardItemsAre, ItemsAre
      <4>2. "standard" \in Origins(view)
        BY <2>1, <4>1, OriginsAre
      <4>3. \A o \in Origins(view) : o = "standard"
        BY <2>1, OriginsAre
      <4>. QED BY <3>1, <4>2, <4>3
    <3>2. CASE ~heat
      <4>1. \A s \in Thermal : s \notin items
        BY <2>2, <3>2, StandardItemsAre
      <4>2. \A o : o \notin Origins(view)
        BY <2>1, <4>1, OriginsAre
      <4>. QED BY <3>2, <4>2
    <3>. QED BY <3>1, <3>2
  <2>4. m["thermal"] = IF heat THEN Live("standard") ELSE Blank
    BY ReadingIs DEF Component
  <2>. HIDE DEF m, heat, view
  <2>. QED BY <2>3, <2>4, HeatOfOne
<1>. HIDE DEF m, items, heat
<1>. QED BY <1>6, <1>7, <1>8, <1>9, <1>10, ItemsAre DEF Good

(* amw0: what was read now is live, what it held is retained.              *)
LEMMA Amw0Good ==
  ASSUME NEW held \in SUBSET Item, NEW bytes
  PROVE  Good(Amw0View(held, bytes), Amw0Meta(held, bytes))
<1> DEFINE view == Amw0View(held, bytes)
           live == Got(bytes)
           cached == held \ live
           m == [c \in Component |->
                   IF c \in Setting THEN FromReadback(c \in live, c \in cached, "amw0")
                   ELSE IF c = "thermal"
                   THEN FromReadback(live \cap Thermal # {}, cached \cap Thermal # {}, "amw0")
                   ELSE Blank]
<1>1. view = [i \in Item |-> IF i \in live THEN "amw0"
                             ELSE IF i \in held THEN "kept" ELSE "none"]
  BY DEF Amw0View
<1>2. Amw0Meta(held, bytes) = Finalized(m)
  BY DEF Amw0Meta
<1>3. m \in [Component -> Attr]
  BY AttrTyped DEF FromReadback
<1>4. m["power"] = Blank /\ m["thermal"] =
        FromReadback(live \cap Thermal # {}, cached \cap Thermal # {}, "amw0")
  BY ItemsAre DEF Component
<1>5. /\ Amw0Meta(held, bytes) \in [Component -> Attr]
      /\ \A c \in Setting \cup {"thermal"} : Amw0Meta(held, bytes)[c] = m[c]
      /\ Amw0Meta(held, bytes)["power"] = SummaryOf(Amw0Meta(held, bytes), Power)
      /\ Amw0Meta(held, bytes)["overall"] =
           SummaryOf(Amw0Meta(held, bytes), Setting \cup {"thermal"})
  BY <1>2, <1>3, <1>4, FinalizedSums
<1>6. view \in [Item -> Origin] /\ \A i \in Item : view[i] # "default"
  BY <1>1 DEF Origin
<1>7. \A i \in Setting : m[i] = Attribution(view[i])
  <2>1. \A i \in Setting : m[i] = FromReadback(i \in live, i \in cached, "amw0")
    BY ItemsAre
  <2>2. \A i \in Setting : FromReadback(i \in live, i \in cached, "amw0") = Attribution(view[i])
    BY <1>1, ItemsAre DEF FromReadback, Attribution
  <2>. QED BY <2>1, <2>2
<1>8. Heat(m["thermal"], Origins(view))
  <2>1. live \subseteq Item
    BY DEF Got, LiveItems
  <2>2. \A s \in Thermal : view[s] = IF s \in live THEN "amw0"
                                     ELSE IF s \in held THEN "kept" ELSE "none"
    BY <1>1, ItemsAre
  <2>3. /\ "amw0" \in Origins(view) <=> live \cap Thermal # {}
        /\ "kept" \in Origins(view) <=> cached \cap Thermal # {}
        /\ Origins(view) \subseteq {"amw0", "kept"}
    BY <2>2, OriginsAre
  <2>. HIDE DEF view, live, cached, m
  <2>4. CASE live \cap Thermal # {} /\ cached \cap Thermal # {}
    <3>1. m["thermal"] = Mixed /\ Origins(view) = {"kept", "amw0"}
      BY <1>4, <2>3, <2>4 DEF FromReadback
    <3>. QED BY <3>1, HeatOfOne
  <2>5. CASE live \cap Thermal # {} /\ cached \cap Thermal = {}
    <3>1. m["thermal"] = Live("amw0") /\ Origins(view) = {"amw0"}
      BY <1>4, <2>3, <2>5 DEF FromReadback
    <3>. QED BY <3>1, HeatOfOne
  <2>6. CASE live \cap Thermal = {} /\ cached \cap Thermal # {}
    <3>1. m["thermal"] = Cached /\ Origins(view) = {"kept"}
      BY <1>4, <2>3, <2>6 DEF FromReadback
    <3>. QED BY <3>1, HeatOfOne
  <2>7. CASE live \cap Thermal = {} /\ cached \cap Thermal = {}
    <3>1. m["thermal"] = Blank /\ Origins(view) = {}
      BY <1>4, <2>3, <2>7 DEF FromReadback
    <3>. QED BY <3>1, HeatOfOne
  <2>. QED BY <2>4, <2>5, <2>6, <2>7
<1>. HIDE DEF m, live, cached
<1>. QED BY <1>5, <1>6, <1>7, <1>8 DEF Good

LEMMA MockGood == Good(MockRead.view, MockRead.meta)
<1> DEFINE m == [c \in Component |-> IF c = "overall" THEN Blank ELSE Live("mock")]
<1>1. MockRead.view = [i \in Item |-> "mock"] /\ MockRead.meta = Finalized(m)
  BY DEF MockRead
<1>2. m \in [Component -> Attr]
  BY AttrTyped
<1>3. m["pl1"] # Blank /\ "pl1" \in Power
  BY DEF Power, Live, Blank, Component, Setting
<1>4. \A c \in Setting \cup {"thermal"} : m[c] = Live("mock")
  BY ItemsAre DEF Component, Setting, Power
<1>. HIDE DEF m
<1>5. /\ MockRead.meta \in [Component -> Attr]
      /\ \A c \in Setting \cup {"thermal"} : MockRead.meta[c] = Live("mock")
      /\ MockRead.meta["power"] = SummaryOf(MockRead.meta, Power)
      /\ MockRead.meta["overall"] = SummaryOf(MockRead.meta, Setting \cup {"thermal"})
  BY <1>1, <1>2, <1>3, <1>4, FinalizedSums
<1>6. /\ MockRead.view \in [Item -> Origin]
      /\ \A i \in Item : MockRead.view[i] = "mock"
  BY <1>1 DEF Origin
<1>7. Origins(MockRead.view) = {"mock"}
  <2>1. "vendor_fan" \in Thermal
    BY DEF Thermal
  <2>. QED BY <1>6, <2>1, OriginsAre, ItemsAre
<1>8. Attribution("mock") = Live("mock")
  BY DEF Attribution
<1>. QED BY <1>5, <1>6, <1>7, <1>8, ItemsAre, HeatOfOne DEF Good

(* A daemon that has read nothing shows nothing.                           *)
LEMMA NothingGood == Good(Nothing, NoMeta)
<1>1. /\ Nothing \in [Item -> Origin] /\ NoMeta \in [Component -> Attr]
      /\ \A i \in Item : Nothing[i] = "none"
      /\ \A c \in Component : NoMeta[c] = Blank
  BY AttrTyped DEF Nothing, NoMeta, Origin
<1>2. Origins(Nothing) = {}
  BY <1>1, OriginsAre, ItemsAre
<1>3. SummaryOf(NoMeta, Power) = Blank /\ SummaryOf(NoMeta, Setting \cup {"thermal"}) = Blank
  <2>1. ASSUME NEW C \in SUBSET Component
        PROVE  SummaryOf(NoMeta, C) = Blank
    <3>1. /\ {NoMeta[c].source : c \in C} \subseteq {""}
          /\ {NoMeta[c].freshness : c \in C} \subseteq {""}
      <4>1. Blank.source = "" /\ Blank.freshness = ""
        BY DEF Blank
      <4>. QED BY <1>1, <4>1
    <3>2. /\ Common({NoMeta[c].source : c \in C}) = ""
          /\ Common({NoMeta[c].freshness : c \in C}) = ""
      BY <3>1, CommonIs
    <3>. QED BY <3>2 DEF SummaryOf, Blank
  <2>2. Power \subseteq Component /\ Setting \cup {"thermal"} \subseteq Component
    BY DEF Component, Setting
  <2>. QED BY <2>1, <2>2
<1>4. "power" \in Component /\ "overall" \in Component /\ Attribution("none") = Blank
  BY DEF Component, Attribution
<1>. QED BY <1>1, <1>2, <1>3, <1>4, ItemsAre, HeatOfOne DEF Good

(* After a failed read all that is shown is retained.                      *)
LEMMA RetainedGood ==
  ASSUME NEW view, Good(view, meta)
  PROVE  Good(Retained(view), RetainedMeta(view))
<1> DEFINE kept == Retained(view)
           some == \E s \in Thermal : view[s] # "none"
           m == [c \in Component |->
                   IF \/ c \in Setting /\ view[c] # "none"
                      \/ c = "thermal" /\ some
                   THEN Cached ELSE Blank]
<1>1. /\ view \in [Item -> Origin]
      /\ \A i \in Item : view[i] = "default" => i = "fan_table"
  BY DEF Good
<1>2. \A i \in Item : kept[i] = IF view[i] \in {"none", "default"} THEN view[i] ELSE "kept"
  BY DEF Retained
<1>3. kept \in [Item -> Origin] /\ \A i \in Item : kept[i] = "default" => i = "fan_table"
  BY <1>1 DEF Retained, Origin
<1>4. RetainedMeta(view) = Finalized(m) /\ m \in [Component -> Attr]
  BY AttrTyped DEF RetainedMeta
<1>5. /\ m["power"] = Blank
      /\ m["thermal"] = IF some THEN Cached ELSE Blank
      /\ \A i \in Setting : m[i] = IF view[i] # "none" THEN Cached ELSE Blank
  <2>1. /\ "power" \in Component /\ "thermal" \in Component
        /\ \A i \in Setting : i \in Component
    BY DEF Component
  <2>. HIDE DEF some
  <2>. QED BY <2>1, ItemsAre
<1>. HIDE DEF kept, m
<1>6. /\ RetainedMeta(view) \in [Component -> Attr]
      /\ \A c \in Setting \cup {"thermal"} : RetainedMeta(view)[c] = m[c]
      /\ RetainedMeta(view)["power"] = SummaryOf(RetainedMeta(view), Power)
      /\ RetainedMeta(view)["overall"] =
           SummaryOf(RetainedMeta(view), Setting \cup {"thermal"})
  BY <1>4, <1>5, FinalizedSums
<1>7. \A i \in Setting : m[i] = Attribution(kept[i])
  BY <1>2, <1>5, ItemsAre DEF Attribution
<1>8. Heat(m["thermal"], Origins(kept))
  <2>1. \A s \in Thermal : kept[s] = IF view[s] = "none" THEN "none" ELSE "kept"
    BY <1>1, <1>2, ItemsAre
  <2>2. CASE some
    <3>1. Origins(kept) = {"kept"}
      BY <2>1, <2>2, OriginsAre
    <3>. QED BY <1>5, <2>2, <3>1, HeatOfOne
  <2>3. CASE ~some
    <3>1. Origins(kept) = {}
      BY <2>1, <2>3, OriginsAre
    <3>. QED BY <1>5, <2>3, <3>1, HeatOfOne
  <2>. QED BY <2>2, <2>3
<1>. QED BY <1>3, <1>6, <1>7, <1>8 DEF Good, kept

--------------------------------------------------------------------------------
(* One reading over the other.                                             *)

(* The merged attribution of the sensors holds for any mixture of values.  *)
LEMMA HeatMerges ==
  ASSUME NEW a \in Attr, NEW b \in Attr, NEW A, NEW B, NEW O,
         Heat(a, A), Heat(b, B),
         A \subseteq O, O \subseteq A \cup B, A = {} => O = B
  PROVE  Heat(Merged(a, b), O)
<1> DEFINE n == Merged(a, b)
<1>1. n.source = MergeText(a.source, b.source) /\ n.freshness = MergeText(a.freshness, b.freshness)
  BY MergedTyped
<1>. HIDE DEF n
<1>2. CASE B = {}
  <2>1. n.source = a.source /\ n.freshness = a.freshness /\ O = A
    BY <1>1, <1>2 DEF Heat, MergeText
  <2>. QED BY <2>1 DEF Heat, n
<1>3. CASE A = {} /\ B # {}
  <2>1. n.source = b.source /\ n.freshness = b.freshness /\ O = B
    BY <1>1, <1>3 DEF Heat, MergeText
  <2>. QED BY <2>1 DEF Heat, n
<1>4. CASE A # {} /\ B # {}
  <2>1. a.source # "" /\ b.source # "" /\ a.freshness # "" /\ b.freshness # ""
    BY <1>4 DEF Heat
  <2>2. /\ n.source = IF a.source = b.source THEN a.source ELSE "mixed"
        /\ n.freshness = IF a.freshness = b.freshness THEN a.freshness ELSE "mixed"
    BY <1>1, <2>1 DEF MergeText
  <2>3. O # {} /\ O \subseteq {"kept", "standard", "amw0", "mock"}
    BY <1>4 DEF Heat
  <2>4. \A t \in {"cache", "standard", "amw0", "mock"} :
          n.source = t => a.source = t /\ b.source = t
    BY <2>2
  <2>5. n.source = "cache" => O = {"kept"}
    BY <1>4, <2>3, <2>4 DEF Heat
  <2>6. \A o \in {"standard", "amw0", "mock"} : n.source = o => O = {o}
    <3>1. ASSUME NEW o \in {"standard", "amw0", "mock"}, n.source = o
          PROVE  O = {o}
      <4>1. A = {o} /\ B = {o}
        BY <2>4, <3>1 DEF Heat
      <4>. QED BY <2>3, <4>1
    <3>. QED BY <3>1
  <2>7. n.freshness = "live" => "kept" \notin O
    BY <2>2 DEF Heat
  <2>8. n.freshness = "cache" => O = {"kept"}
    <3>1. n.freshness = "cache" => A = {"kept"} /\ B = {"kept"}
      BY <2>2 DEF Heat
    <3>. QED BY <2>3, <3>1
  <2>9. n.source # "" /\ n.freshness # ""
    BY <2>1, <2>2
  <2>. QED BY <2>3, <2>5, <2>6, <2>7, <2>8, <2>9 DEF Heat, n
<1>. QED BY <1>2, <1>3, <1>4

(* What amw0 takes over, and what it must.                                 *)
LEMMA TakenIs ==
  ASSUME NEW view, NEW over
  PROVE  /\ Taken(view, over) \subseteq Item
         /\ \A s \in Thermal : s \in Taken(view, over) <=> view[s] = "none"
         /\ \A f \in Power : f \in Taken(view, over) <=>
              over[f] # "none" /\ (Executor("apply_power_limits") = "amw0" \/ view[f] = "none")
         /\ "fan_boost" \in Taken(view, over) <=> over["fan_boost"] # "none"
         /\ can.amw0 => {"profile", "fan_table"} \subseteq Taken(view, over)
         /\ "profile" \in Taken(view, over) \/ "fan_table" \in Taken(view, over) => can.amw0
<1> DEFINE P == {i \in {"profile"} :
                   \E o \in {"apply_profile", "apply_mode", "apply_fan_table"} :
                     Executor(o) = "amw0"}
           F == {i \in {"fan_table"} : Executor("apply_fan_table") = "amw0"}
           B == {i \in {"fan_boost"} : over[i] # "none"}
           W == {f \in Power : /\ over[f] # "none"
                               /\ Executor("apply_power_limits") = "amw0" \/ view[f] = "none"}
           S == {s \in Thermal : view[s] = "none"}
<1>1. Taken(view, over) = P \cup F \cup B \cup W \cup S
  BY DEF Taken
<1>2. /\ P \subseteq {"profile"} /\ F \subseteq {"fan_table"} /\ B \subseteq {"fan_boost"}
      /\ W \subseteq Power /\ S \subseteq Thermal
  OBVIOUS
<1>3. /\ can.amw0 => "profile" \in P /\ "fan_table" \in F
      /\ "profile" \in P \/ "fan_table" \in F => can.amw0
  BY DEF Executor
<1>4. "fan_boost" \in B <=> over["fan_boost"] # "none"
  OBVIOUS
<1>5. \A f \in Power : f \in W <=>
        over[f] # "none" /\ (Executor("apply_power_limits") = "amw0" \/ view[f] = "none")
  OBVIOUS
<1>6. \A s \in Thermal : s \in S <=> view[s] = "none"
  OBVIOUS
<1>. HIDE DEF P, F, B, W, S
<1>7. /\ {"profile", "fan_table", "fan_boost"} \cap (Power \cup Thermal) = {}
      /\ Power \cap Thermal = {}
      /\ {"profile", "fan_table", "fan_boost"} \cup Power \cup Thermal \subseteq Item
  BY DEF Item, Setting, Power, Thermal, Sensor
<1>8. Taken(view, over) \subseteq Item
  BY <1>1, <1>2, <1>7
<1>9. \A s \in Thermal : s \in Taken(view, over) <=> s \in S
  BY <1>1, <1>2, <1>7
<1>10. \A f \in Power : f \in Taken(view, over) <=> f \in W
  BY <1>1, <1>2, <1>7
<1>11. /\ "fan_boost" \in Taken(view, over) <=> "fan_boost" \in B
       /\ "profile" \in Taken(view, over) <=> "profile" \in P
       /\ "fan_table" \in Taken(view, over) <=> "fan_table" \in F
  BY <1>1, <1>2, <1>7
<1>. QED BY <1>3, <1>4, <1>5, <1>6, <1>8, <1>9, <1>10, <1>11

LEMMA OverlayGood ==
  ASSUME NEW v, NEW m, Good(v, m), NEW w, NEW om, Good(w, om)
  PROVE  Good(OverlaidView(v, w, Taken(v, w)), OverlaidMeta(m, om, Taken(v, w)))
<1> DEFINE taken == Taken(v, w)
           view == OverlaidView(v, w, taken)
           n == [c \in Component |-> IF c \in taken THEN om[c]
                                     ELSE IF c = "thermal" THEN Merged(m[c], om[c]) ELSE m[c]]
<1>1. /\ v \in [Item -> Origin] /\ w \in [Item -> Origin]
      /\ m \in [Component -> Attr] /\ om \in [Component -> Attr]
      /\ \A i \in Setting : m[i] = Attribution(v[i]) /\ om[i] = Attribution(w[i])
      /\ \A i \in Item : v[i] = "default" \/ w[i] = "default" => i = "fan_table"
      /\ Heat(m["thermal"], Origins(v)) /\ Heat(om["thermal"], Origins(w))
      /\ m["power"] = SummaryOf(m, Power)
  BY DEF Good
<1>2. \A i \in Item : view[i] = IF i \in taken THEN w[i] ELSE v[i]
  BY DEF OverlaidView
<1>3. view \in [Item -> Origin] /\ \A i \in Item : view[i] = "default" => i = "fan_table"
  <2>1. view = [i \in Item |-> IF i \in taken THEN w[i] ELSE v[i]]
    BY DEF OverlaidView
  <2>. HIDE DEF taken, view
  <2>. QED BY <1>1, <1>2, <2>1
<1>4. OverlaidMeta(m, om, taken) = Finalized(n)
  BY DEF OverlaidMeta
<1>. HIDE DEF view
<1>5. n \in [Component -> Attr]
  <2>1. Merged(m["thermal"], om["thermal"]) \in Attr
    BY <1>1, MergedTyped DEF Component
  <2>. HIDE DEF taken
  <2>. QED BY <1>1, <2>1
<1>6. "thermal" \notin taken /\ "power" \notin taken
  BY TakenIs DEF Item, Setting, Thermal, Power, Sensor
<1>7. /\ n["thermal"] = Merged(m["thermal"], om["thermal"])
      /\ n["power"] = m["power"]
      /\ \A i \in Setting : n[i] = IF i \in taken THEN om[i] ELSE m[i]
  BY <1>6, ItemsAre DEF Component
<1>. HIDE DEF n
<1>8. (\A f \in Power : n[f] = Blank) => n["power"] = Blank
  <2>. SUFFICES ASSUME \A f \in Power : n[f] = Blank PROVE m["power"] = Blank
    BY <1>7
  <2>1. ASSUME NEW f \in Power PROVE m[f] = Blank
    <3>1. CASE f \in taken
      <4>1. w[f] # "none" /\ om[f] = Attribution(w[f])
        BY <1>1, <3>1, TakenIs, ItemsAre
      <4>2. Attribution(w[f]) # Blank
        BY <1>1, <4>1, ItemsAre DEF Attribution, Blank, Cached, Live, Origin
      <4>3. n[f] = om[f]
        BY <1>7, <3>1, ItemsAre
      <4>. QED BY <4>1, <4>2, <4>3
    <3>2. CASE f \notin taken
      BY <1>7, <3>2, ItemsAre
    <3>. QED BY <3>1, <3>2
  <2>2. Blank.source = "" /\ Blank.freshness = ""
    BY DEF Blank
  <2>3. /\ {m[c].source : c \in Power} \subseteq {""}
        /\ {m[c].freshness : c \in Power} \subseteq {""}
    BY <2>1, <2>2
  <2>4. /\ Common({m[c].source : c \in Power}) = ""
        /\ Common({m[c].freshness : c \in Power}) = ""
    BY <2>3, CommonIs
  <2>. QED BY <1>1, <2>4 DEF SummaryOf, Blank
<1>9. /\ OverlaidMeta(m, om, taken) \in [Component -> Attr]
      /\ \A c \in Setting \cup {"thermal"} : OverlaidMeta(m, om, taken)[c] = n[c]
      /\ OverlaidMeta(m, om, taken)["power"] = SummaryOf(OverlaidMeta(m, om, taken), Power)
      /\ OverlaidMeta(m, om, taken)["overall"] =
           SummaryOf(OverlaidMeta(m, om, taken), Setting \cup {"thermal"})
  BY <1>4, <1>5, <1>8, FinalizedSums
<1>10. \A i \in Setting : n[i] = Attribution(view[i])
  BY <1>1, <1>2, <1>7, ItemsAre
<1>11. Heat(n["thermal"], Origins(view))
  <2>1. \A s \in Thermal : view[s] = IF v[s] = "none" THEN w[s] ELSE v[s]
    BY <1>2, TakenIs, ItemsAre
  <2>2. Origins(v) \subseteq Origins(view)
    BY <2>1, OriginsAre
  <2>3. Origins(view) \subseteq Origins(v) \cup Origins(w)
    <3>. SUFFICES ASSUME NEW o \in Origins(view) PROVE o \in Origins(v) \cup Origins(w)
      OBVIOUS
    <3>1. PICK s \in Thermal : view[s] = o
      BY OriginsAre
    <3>. QED BY <2>1, <3>1, OriginsAre
  <2>4. ASSUME Origins(v) = {} PROVE Origins(view) = Origins(w)
    <3>1. \A s \in Thermal : v[s] = "none"
      BY <2>4, OriginsAre
    <3>2. \A s \in Thermal : view[s] = w[s]
      BY <2>1, <3>1
    <3>3. \A o : o \in Origins(view) <=> o \in Origins(w)
      BY <3>2, OriginsAre
    <3>4. Origins(view) \subseteq Origins(w) /\ Origins(w) \subseteq Origins(view)
      BY <3>3
    <3>. QED BY <3>4
  <2>5. m["thermal"] \in Attr /\ om["thermal"] \in Attr
    BY <1>1 DEF Component
  <2>. QED BY <1>1, <1>7, <2>2, <2>3, <2>4, <2>5, HeatMerges
<1>. HIDE DEF taken
<1>12. \A i \in Setting : OverlaidMeta(m, om, taken)[i] = Attribution(view[i])
  BY <1>9, <1>10
<1>13. Heat(OverlaidMeta(m, om, taken)["thermal"], Origins(view))
  BY <1>9, <1>11
<1>. QED BY <1>3, <1>9, <1>12, <1>13 DEF Good, view, taken

--------------------------------------------------------------------------------
(* What one refresh shows.                                                 *)

LEMMA FromStandardIs ==
  ASSUME NEW r \in StandardReading, NEW held \in SUBSET Item,
         NEW read, read = FromStandard(StandardRead[r], held)
  PROVE  /\ read.status = StandardStatus(r) /\ read.held = held
         /\ Good(read.view, read.meta)
         /\ \A i \in Item : /\ read.view[i] # "kept"
                            /\ i \in StandardItems(r) => read.view[i] = "standard"
<1>1. /\ read.status = StandardRead[r].status /\ read.held = held
      /\ read.view = StandardRead[r].view /\ read.meta = StandardRead[r].meta
  BY DEF FromStandard
<1>2. \A i \in Item : StandardRead[r].view[i] = IF i \in StandardItems(r) THEN "standard"
                                        ELSE IF i = "fan_table" THEN "default" ELSE "none"
  BY StandardReadIs
<1>3. Good(StandardRead[r].view, StandardRead[r].meta)
  BY StandardGood
<1>4. read.status = StandardStatus(r)
  BY <1>1, StandardReadIs
<1>. QED BY <1>1, <1>2, <1>3, <1>4

FromAmw0Shows(read, held, bytes) ==
  /\ read.status = Amw0Status(bytes) /\ read.status \in {"OK", "NOT_FOUND"}
  /\ read.held \in SUBSET Item /\ held \subseteq read.held
  /\ Good(read.view, read.meta)
  /\ \A i \in read.held : read.view[i] \in {"amw0", "kept"}
  /\ \A i \in Item \ read.held : read.view[i] = "none"

LEMMA FromAmw0Is ==
  ASSUME NEW held \in SUBSET Item, NEW bytes
  PROVE  FromAmw0Shows(FromAmw0(held, bytes), held, bytes)
<1> DEFINE read == FromAmw0(held, bytes)
<1>1. /\ read.status = Amw0Status(bytes) /\ read.held = held \cup Got(bytes)
      /\ read.view = Amw0View(held, bytes) /\ read.meta = Amw0Meta(held, bytes)
  BY DEF FromAmw0
<1>. HIDE DEF read
<1>2. Got(bytes) \subseteq Item
  BY DEF Got, LiveItems
<1>3. \A i \in Item : Amw0View(held, bytes)[i] = IF i \in Got(bytes) THEN "amw0"
                                               ELSE IF i \in held THEN "kept" ELSE "none"
  BY DEF Amw0View
<1>4. Good(Amw0View(held, bytes), Amw0Meta(held, bytes))
  BY Amw0Good
<1>5. Amw0Status(bytes) \in {"OK", "NOT_FOUND"}
  BY DEF Amw0Status
<1>6. FromAmw0Shows(read, held, bytes)
  BY <1>1, <1>2, <1>3, <1>4, <1>5 DEF FromAmw0Shows
<1>. QED BY <1>6 DEF read

(* The converged backend's base reading is one or the other.               *)
LEMMA BaseIs ==
  ASSUME can.standard \/ can.amw0,
         NEW r \in StandardReading, NEW held \in SUBSET Item, NEW bytes
  PROVE  LET base == Base(StandardRead[r], held, bytes)
         IN  \/ base = FromStandard(StandardRead[r], held) /\ can.standard
             \/ base = FromAmw0(held, bytes) /\ can.amw0
                /\ (can.standard => StandardItems(r) = {})
<1>1. StandardRead[r].status = StandardStatus(r)
  BY StandardReadIs
<1>. QED BY <1>1, StandardItemsAre DEF Base

LEMMA ConvergedShows ==
  ASSUME can.standard \/ can.amw0,
         NEW r \in StandardReading, NEW held \in SUBSET Item, SeededShadow \subseteq held,
         NEW bytes, NEW read, read = ConvergedRead(StandardRead[r], held, bytes)
  PROVE  /\ Good(read.view, read.meta)
         /\ read.status \in {"OK", "NOT_FOUND", "IO"}
         /\ read.held \in SUBSET Item /\ held \subseteq read.held
         /\ Displays(read, StandardItems(r),
                     Amw0Status(bytes[IF can.standard THEN 2 ELSE 1]) = "OK")
<1> DEFINE base == Base(StandardRead[r], held, bytes[1])
           over == FromAmw0(base.held, bytes[2])
           items == StandardItems(r)
<1>1. read = Overlaid(base, over)
  BY DEF ConvergedRead, WithOverlay
<1>2. \/ base = FromStandard(StandardRead[r], held) /\ can.standard
      \/ base = FromAmw0(held, bytes[1]) /\ can.amw0 /\ (can.standard => items = {})
  BY BaseIs
<1>. HIDE DEF base
<1>3. /\ Good(base.view, base.meta)
      /\ base.status \in {"OK", "NOT_FOUND", "IO"}
      /\ base.held \in SUBSET Item /\ held \subseteq base.held
      /\ can.standard => \A i \in items : base.view[i] = "standard"
      /\ \A i \in Item : base.view[i] = "kept" => can.amw0 /\ i \in base.held
      /\ ~can.standard => /\ base.status = Amw0Status(bytes[1])
                          /\ \A i \in base.held : base.view[i] \in {"amw0", "kept"}
  <2>1. items \subseteq Item
    BY StandardItemsAre DEF Item, Setting, Power, Thermal, Sensor
  <2>2. CASE base = FromStandard(StandardRead[r], held) /\ can.standard
    <3>1. /\ base.status = StandardStatus(r) /\ base.held = held
          /\ Good(base.view, base.meta)
          /\ \A i \in Item : /\ base.view[i] # "kept"
                             /\ i \in items => base.view[i] = "standard"
      BY <2>2, FromStandardIs
    <3>. QED BY <2>1, <2>2, <3>1, StandardItemsAre
  <2>3. CASE base = FromAmw0(held, bytes[1]) /\ can.amw0 /\ (can.standard => items = {})
    <3>1. /\ base.status = Amw0Status(bytes[1]) /\ base.status \in {"OK", "NOT_FOUND"}
          /\ base.held \in SUBSET Item /\ held \subseteq base.held
          /\ Good(base.view, base.meta)
          /\ \A i \in base.held : base.view[i] \in {"amw0", "kept"}
          /\ \A i \in Item \ base.held : base.view[i] = "none"
      <4>1. FromAmw0Shows(base, held, bytes[1])
        BY <2>3, FromAmw0Is
      <4>. QED BY <4>1 DEF FromAmw0Shows
    <3>. QED BY <2>3, <3>1
  <2>. QED BY <1>2, <2>2, <2>3
<1>4. /\ over.status = Amw0Status(bytes[2])
      /\ over.held \in SUBSET Item /\ base.held \subseteq over.held
      /\ Good(over.view, over.meta)
      /\ \A i \in over.held : over.view[i] \in {"amw0", "kept"}
      /\ \A i \in Item \ over.held : over.view[i] = "none"
  <2>1. FromAmw0Shows(over, base.held, bytes[2])
    BY <1>3, FromAmw0Is
  <2>. HIDE DEF over
  <2>. QED BY <2>1 DEF FromAmw0Shows
<1>. HIDE DEF over, items
<1>5. CASE ~(base.status = "OK" /\ can.standard /\ can.amw0)
  <2>1. read = base
    BY <1>1, <1>5 DEF Overlaid
  <2>2. Displays(read, items, Amw0Status(bytes[IF can.standard THEN 2 ELSE 1]) = "OK")
    <3>1. CASE ~can.standard
      BY <1>3, <2>1, <3>1 DEF Displays
    <3>2. CASE can.standard
      BY <1>3, <1>5, <2>1, <3>2 DEF Displays
    <3>. QED BY <3>1, <3>2
  <2>. QED BY <1>3, <2>1, <2>2 DEF items
<1>6. CASE base.status = "OK" /\ can.standard /\ can.amw0 /\ over.status # "OK"
  <2>1. read = [base EXCEPT !.held = over.held]
    BY <1>1, <1>6 DEF Overlaid
  <2>2. /\ read.status = base.status /\ read.view = base.view /\ read.meta = base.meta
        /\ read.held = over.held
    BY <2>1, <1>2 DEF FromStandard, FromAmw0
  <2>3. Displays(read, items, Amw0Status(bytes[IF can.standard THEN 2 ELSE 1]) = "OK")
    BY <1>3, <1>4, <1>6, <2>2 DEF Displays
  <2>. QED BY <1>3, <1>4, <2>2, <2>3 DEF items
<1>7. CASE base.status = "OK" /\ can.standard /\ can.amw0 /\ over.status = "OK"
  <2> DEFINE taken == Taken(base.view, over.view)
  <2>1. /\ read.status = "OK" /\ read.held = over.held
        /\ read.view = OverlaidView(base.view, over.view, taken)
        /\ read.meta = OverlaidMeta(base.meta, over.meta, taken)
    BY <1>1, <1>7 DEF Overlaid
  <2>2. Good(read.view, read.meta)
    BY <1>3, <1>4, <2>1, OverlayGood
  <2>3. \A i \in Item : read.view[i] = IF i \in taken THEN over.view[i] ELSE base.view[i]
    BY <2>1 DEF OverlaidView
  <2>4. "profile" \in taken /\ "fan_table" \in taken
    BY <1>7, TakenIs
  <2>5. ASSUME NEW i \in items
        PROVE  \/ read.view[i] = "standard"
               \/ /\ read.view[i] \in {"amw0", "kept"}
                  /\ \/ i = "profile"
                     \/ i \in Power /\ Executor("apply_power_limits") = "amw0"
    <3>1. /\ i \in {"profile", "pl1", "pl2"} \cup Sensor /\ i \in Item
          /\ base.view[i] = "standard"
      BY <1>3, <1>7, StandardItemsAre DEF items, Item, Setting, Power, Thermal, Sensor
    <3>2. CASE i \notin taken
      BY <2>3, <3>1, <3>2
    <3>3. CASE i = "profile"
      <4>1. i \in over.held
        BY <1>3, <1>4, <3>3 DEF SeededShadow
      <4>. QED BY <1>4, <1>7, <2>3, <2>4, <3>1, <3>3, <4>1
    <3>4. CASE i \in Power /\ i \in taken
      <4>1. over.view[i] # "none" /\ Executor("apply_power_limits") = "amw0"
        BY <3>1, <3>4, TakenIs
      <4>2. over.view[i] \in {"amw0", "kept"}
        BY <1>4, <3>1, <4>1
      <4>. QED BY <2>3, <3>1, <3>4, <4>1, <4>2
    <3>5. CASE i \in Sensor /\ i \in taken
      BY <3>1, <3>5, TakenIs, ItemsAre
    <3>. QED BY <3>1, <3>2, <3>3, <3>4, <3>5 DEF Power
  <2>6. ASSUME NEW i \in over.held
        PROVE  read.view[i] \notin {"none", "default"}
    <3>1. i \in Item /\ over.view[i] \in {"amw0", "kept"}
      BY <1>4
    <3>2. CASE i \in taken
      BY <2>3, <3>1, <3>2
    <3>3. CASE i \notin taken
      <4>1. i # "fan_table" /\ i # "profile"
        BY <2>4, <3>3
      <4>2. i # "fan_boost"
        BY <3>1, <3>3, TakenIs
      <4>3. base.view[i] # "none"
        <5>1. CASE i \in Power
          BY <3>1, <3>3, <5>1, TakenIs
        <5>2. CASE i \in Thermal
          BY <3>3, <5>2, TakenIs
        <5>. QED BY <3>1, <4>1, <4>2, <5>1, <5>2 DEF Item, Setting
      <4>4. base.view[i] # "default"
        BY <1>3, <3>1, <4>1 DEF Good
      <4>. QED BY <2>3, <3>1, <3>3, <4>3, <4>4
    <3>. QED BY <3>2, <3>3
  <2>7. ASSUME NEW i \in Item, read.view[i] = "kept"
        PROVE  can.amw0 /\ i \in over.held
    BY <1>3, <1>4, <1>7, <2>3, <2>7
  <2>8. Displays(read, items, Amw0Status(bytes[IF can.standard THEN 2 ELSE 1]) = "OK")
    <3>1. can.standard /\ can.amw0 /\ Amw0Status(bytes[2]) = "OK"
      BY <1>4, <1>7
    <3>. QED BY <2>1, <2>5, <2>6, <2>7, <3>1 DEF Displays
  <2>. QED BY <1>3, <1>4, <2>1, <2>2, <2>8 DEF items
<1>. QED BY <1>5, <1>6, <1>7

--------------------------------------------------------------------------------
(* Each action keeps the invariant.                                        *)

LEMMA OffCase ==
  ASSUME setup' = setup, TypeOK, Off
  PROVE  IInv'
<1>1. TypeOK'
  <2>1. NoMeta \in [Component -> [source: Text, freshness: Text]]
    BY AttrTyped DEF NoMeta, Attr
  <2>2. Nothing \in [Item -> Origin] /\ SeededShadow \subseteq Item
    BY DEF Nothing, Origin, SeededShadow, Item, Setting
  <2>3. DOMAIN Unsensed = Sensor
    BY DEF Unsensed
  <2>. QED BY <2>1, <2>2, <2>3 DEF TypeOK, Off
<1>2. Good(shown, meta)'
  <2>1. shown' = Nothing /\ meta' = NoMeta
    BY DEF Off
  <2>. QED BY <2>1, NothingGood DEF Good
<1>3. Equipped' /\ LiveIsShown' /\ KnownIsShown'
  BY DEF Off, Equipped, LiveIsShown, KnownIsShown
<1>. QED BY <1>1, <1>2, <1>3 DEF IInv

LEMMA InitCase == Init => IInv
<1>. SUFFICES ASSUME Init PROVE IInv
  OBVIOUS
<1>1. TypeOK
  <2>1. NoMeta \in [Component -> [source: Text, freshness: Text]]
    BY AttrTyped DEF NoMeta, Attr
  <2>2. Nothing \in [Item -> Origin] /\ SeededShadow \subseteq Item
    BY DEF Nothing, Origin, SeededShadow, Item, Setting
  <2>3. DOMAIN Unsensed = Sensor
    BY DEF Unsensed
  <2>. QED BY <2>1, <2>2, <2>3 DEF TypeOK, Init
<1>2. Good(shown, meta)
  BY NothingGood DEF Init
<1>3. Equipped /\ LiveIsShown /\ KnownIsShown
  BY DEF Init, Equipped, LiveIsShown, KnownIsShown
<1>. QED BY <1>1, <1>2, <1>3 DEF IInv

(* A backend forced by the environment is used alone; otherwise what the   *)
(* probes found decides.                                                   *)
LEMMA StartCase ==
  ASSUME IInv, Start
  PROVE  IInv'
<1>1. /\ TypeOK /\ Good(shown, meta) /\ Equipped
      /\ backend = "down" /\ status = "unread"
      /\ UNCHANGED <<setup, shadow, shown, meta, status, given, heard, listing, sensed>>
  BY DEF IInv, Start, Equipped, ghosts
<1>2. PICK p \in Probes :
        /\ setup.forced = "standard" => p.standard
        /\ setup.forced = "amw0" => p.amw0
        /\ can' = p
        /\ backend' = Selected(p)
  BY DEF Start
<1>3. /\ setup.forced \in {"nothing", "standard", "amw0", "mock"}
      /\ p \in [standard: BOOLEAN, profile: BOOLEAN, powercap: BOOLEAN, amw0: BOOLEAN]
      /\ setup.forced \in {"amw0", "mock"} => ~p.standard
      /\ setup.forced \in {"standard", "mock"} => ~p.amw0
  BY <1>1 DEF TypeOK, Probes
<1>4. backend' = IF setup.forced # "nothing" THEN setup.forced
                 ELSE IF p.standard \/ p.amw0 THEN "converged" ELSE "mock"
  BY <1>2 DEF Selected
<1>5. TypeOK'
  BY <1>1, <1>2, <1>3, <1>4 DEF TypeOK
<1>6. Equipped'
  BY <1>1, <1>2, <1>3, <1>4 DEF Equipped
<1>7. Good(shown, meta)' /\ LiveIsShown' /\ KnownIsShown'
  BY <1>1 DEF Good, LiveIsShown, KnownIsShown
<1>. QED BY <1>5, <1>6, <1>7 DEF IInv

(* Whatever backend is read.                                               *)
LEMMA ReadShows ==
  ASSUME TypeOK, Equipped, backend # "down",
         NEW r \in StandardReading, NEW held \in SUBSET Item, shadow \subseteq held,
         NEW bytes, NEW read, read = ReadState(StandardRead[r], held, bytes)
  PROVE  /\ Good(read.view, read.meta)
         /\ read.status \in {"OK", "NOT_FOUND", "IO"}
         /\ read.held \in SUBSET Item
         /\ backend # "mock" => SeededShadow \subseteq read.held
         /\ Displays(read, StandardItems(r),
                     Amw0Status(bytes[IF can.standard THEN 2 ELSE 1]) = "OK")
<1>1. CASE backend = "standard"
  <2>1. read = FromStandard(StandardRead[r], held)
    BY <1>1 DEF ReadState
  <2>2. /\ read.status = StandardStatus(r) /\ read.held = held
        /\ Good(read.view, read.meta)
        /\ \A i \in Item : /\ read.view[i] # "kept"
                           /\ i \in StandardItems(r) => read.view[i] = "standard"
    BY <2>1, FromStandardIs
  <2>3. StandardItems(r) \subseteq Item
    BY StandardItemsAre DEF Item, Setting, Power, Thermal, Sensor
  <2>4. ~can.amw0 /\ SeededShadow \subseteq held
    BY <1>1 DEF Equipped
  <2>. QED BY <2>2, <2>3, <2>4, StandardItemsAre DEF Displays
<1>2. CASE backend = "amw0"
  <2>1. read = FromAmw0(held, bytes[1])
    BY <1>2 DEF ReadState
  <2>2. FromAmw0Shows(read, held, bytes[1])
    BY <2>1, FromAmw0Is
  <2>3. can.amw0 /\ ~can.standard /\ SeededShadow \subseteq held
    BY <1>2 DEF Equipped
  <2>4. \A i \in Item : read.view[i] = "kept" => i \in read.held
    BY <2>2 DEF FromAmw0Shows
  <2>5. Displays(read, StandardItems(r),
                 Amw0Status(bytes[IF can.standard THEN 2 ELSE 1]) = "OK")
    BY <2>2, <2>3, <2>4 DEF FromAmw0Shows, Displays
  <2>. QED BY <2>2, <2>3, <2>5 DEF FromAmw0Shows
<1>3. CASE backend = "mock"
  <2>1. read = MockRead
    BY <1>3 DEF ReadState
  <2>2. /\ read.status = "OK" /\ read.held = {}
        /\ \A i \in Item : read.view[i] = "mock"
    BY <2>1 DEF MockRead
  <2>3. ~can.standard /\ ~can.amw0
    BY <1>3 DEF Equipped
  <2>. QED BY <1>3, <2>1, <2>2, <2>3, MockGood DEF Displays
<1>4. CASE backend = "converged"
  <2>1. read = ConvergedRead(StandardRead[r], held, bytes)
    BY <1>4 DEF ReadState
  <2>2. (can.standard \/ can.amw0) /\ SeededShadow \subseteq held
    BY <1>4 DEF Equipped
  <2>3. /\ Good(read.view, read.meta)
        /\ read.status \in {"OK", "NOT_FOUND", "IO"}
        /\ read.held \in SUBSET Item /\ held \subseteq read.held
        /\ Displays(read, StandardItems(r),
                    Amw0Status(bytes[IF can.standard THEN 2 ELSE 1]) = "OK")
    BY <2>1, <2>2, ConvergedShows
  <2>. QED BY <2>2, <2>3
<1>. QED BY <1>1, <1>2, <1>3, <1>4 DEF TypeOK

LEMMA RefreshCase ==
  ASSUME IInv, Refresh
  PROVE  IInv'
<1>1. /\ TypeOK /\ Good(shown, meta) /\ Equipped /\ backend # "down" /\ setup' = setup
  BY DEF IInv, Refresh
<1>2. PICK r \in StandardReading, bytes \in Amw0Reading, new \in Remembered :
        Took(ReadState(StandardRead[r], shadow \cup new, bytes), StandardRead[r],
             [channels |-> r.channels, zones |-> r.zones],
             Amw0Status(bytes[IF can.standard THEN 2 ELSE 1]) = "OK")
  BY DEF Refresh
<1> DEFINE held == shadow \cup new
           read == ReadState(StandardRead[r], held, bytes)
           answers == Amw0Status(bytes[IF can.standard THEN 2 ELSE 1]) = "OK"
<1>3. held \in SUBSET Item /\ shadow \subseteq held
  <2>1. new \subseteq Item
    <3>1. {"profile", "fan_boost"} \subseteq Item /\ Power \subseteq Item
      BY DEF Item, Setting
    <3>. QED BY <3>1, ReadingAssumption DEF Remembered
  <2>. QED BY <1>1, <2>1 DEF TypeOK
<1>. HIDE DEF held
<1>4. /\ Good(read.view, read.meta)
      /\ read.status \in {"OK", "NOT_FOUND", "IO"}
      /\ read.held \in SUBSET Item
      /\ backend # "mock" => SeededShadow \subseteq read.held
      /\ Displays(read, StandardItems(r), answers)
  BY <1>1, <1>3, ReadShows
<1>5. Took(read, StandardRead[r], [channels |-> r.channels, zones |-> r.zones], answers)
  BY <1>2 DEF held
<1>6. answers \in BOOLEAN
  OBVIOUS
<1>. HIDE DEF read, answers
<1>7. CASE read.status # "OK" /\ status = "unread"
  BY <1>1, <1>5, <1>7, OffCase DEF Took
<1>8. CASE ~(read.status # "OK" /\ status = "unread")
  <2>1. /\ shadow' = read.held /\ status' = read.status
        /\ IF read.status = "OK"
           THEN shown' = read.view /\ meta' = read.meta
           ELSE shown' = Retained(shown) /\ meta' = RetainedMeta(shown)
        /\ given' = IF can.standard THEN StandardItems(r) ELSE {}
        /\ heard' = (can.amw0 /\ answers)
        /\ sensed' = IF can.standard THEN Sensed(r.channels, r.zones) ELSE Unsensed
        /\ UNCHANGED <<backend, can>>
    BY <1>5, <1>8, StandardReadIs DEF Took
  <2>2. Good(shown, meta)'
    <3>1. CASE read.status = "OK"
      <4>1. shown' = read.view /\ meta' = read.meta
        BY <2>1, <3>1
      <4>. QED BY <1>4, <4>1 DEF Good
    <3>2. CASE read.status # "OK"
      <4>1. shown' = Retained(shown) /\ meta' = RetainedMeta(shown)
        BY <2>1, <3>2
      <4>2. Good(Retained(shown), RetainedMeta(shown))
        BY <1>1, RetainedGood
      <4>. QED BY <4>1, <4>2 DEF Good
    <3>. QED BY <3>1, <3>2
  <2>3. DOMAIN sensed' = Sensor
    <3>1. DOMAIN Unsensed = Sensor
      BY DEF Unsensed
    <3>2. DOMAIN Sensed(r.channels, r.zones) = Sensor
      BY ReadingIs, SensedIs
    <3>. QED BY <2>1, <3>1, <3>2
  <2>4. given' \subseteq Item
    <3>1. StandardItems(r) \subseteq Item
      BY StandardItemsAre DEF Item, Setting, Power, Thermal, Sensor
    <3>. QED BY <2>1, <3>1
  <2>5. TypeOK'
    <3>1. shown' \in [Item -> Origin] /\ meta' \in [Component -> [source: Text, freshness: Text]]
      BY <2>2 DEF Good, Attr
    <3>. QED BY <1>1, <1>4, <1>6, <2>1, <2>3, <2>4, <3>1 DEF TypeOK
  <2>6. Equipped'
    BY <1>1, <1>4, <2>1 DEF Equipped
  <2>7. LiveIsShown'
    <3>1. Executor("apply_power_limits")' = Executor("apply_power_limits")
      BY <2>1 DEF Executor
    <3>. QED BY <1>4, <2>1, <3>1 DEF LiveIsShown, Displays
  <2>8. KnownIsShown'
    BY <1>4, <2>1 DEF KnownIsShown, Displays
  <2>. QED BY <2>2, <2>5, <2>6, <2>7, <2>8 DEF IInv
<1>. QED BY <1>7, <1>8

--------------------------------------------------------------------------------
(* The invariant, and what follows from it.                                *)

(* In every reachable state, whatever was read, failed or was forced.      *)
THEOREM Inductive == Spec => []IInv
<1>1. IInv /\ [Next]_vars => IInv'
  <2>. SUFFICES ASSUME IInv, [Next]_vars PROVE IInv'
    OBVIOUS
  <2>1. CASE Start
    BY <2>1, StartCase
  <2>2. CASE Refresh
    BY <2>2, RefreshCase
  <2>3. CASE Crash
    BY <2>3, OffCase DEF Crash, IInv
  <2>4. CASE UNCHANGED vars
    <3>1. UNCHANGED <<setup, backend, can, shadow, shown, meta, status, given, heard,
                      listing, sensed>>
      BY <2>4 DEF vars, ghosts
    <3>2. TypeOK' /\ Good(shown, meta)' /\ Equipped'
      BY <3>1 DEF IInv, TypeOK, Good, Equipped
    <3>3. LiveIsShown' /\ KnownIsShown'
      BY <3>1 DEF IInv, LiveIsShown, KnownIsShown, Executor
    <3>. QED BY <3>2, <3>3 DEF IInv
  <2>. QED BY <2>1, <2>2, <2>3, <2>4 DEF Next
<1>. QED BY <1>1, InitCase, PTL DEF Spec

(* The types of the model's variables: no origin or text but the known.    *)
THEOREM ViewTypes == Spec => []TypeOK
<1>1. IInv => TypeOK
  BY DEF IInv
<1>. QED BY <1>1, Inductive, PTL

(* The attribution of a setting in the state is that of the value shown,   *)
(* whichever path of converged_read_state or of the reader it took.        *)
THEOREM SettingsAttributed == Spec => []AttributionIsTrue
<1>1. IInv => AttributionIsTrue
  BY DEF IInv, Good, AttributionIsTrue
<1>. QED BY <1>1, Inductive, PTL

(* The sensors' merged attribution credits no backend, and no present,     *)
(* with a value that is not its.                                           *)
THEOREM SensorsAttributed == Spec => []ThermalIsHonest
<1>1. ASSUME IInv PROVE ThermalIsHonest
  <2> DEFINE said == meta["thermal"]
             origins == Origins(shown)
  <2>1. said \in Attr /\ Heat(said, origins)
    BY <1>1, ItemsAre DEF IInv, Good
  <2>2. ThermalIsHonest <=>
          /\ said = Blank <=> origins = {}
          /\ \A o \in {"kept", "standard", "amw0", "mock"} :
               said.source = Attribution(o).source => origins = {o}
          /\ said.freshness = "live" => "kept" \notin origins
          /\ said.freshness = "cache" => origins = {"kept"}
    BY DEF ThermalIsHonest, Origins
  <2>. HIDE DEF said, origins
  <2>3. said = Blank <=> origins = {}
    <3>1. said.source = "" /\ said.freshness = "" => said = Blank
      BY <2>1 DEF Attr, Blank
    <3>2. Blank.source = ""
      BY DEF Blank
    <3>. QED BY <2>1, <3>1, <3>2 DEF Heat
  <2>4. \A o \in {"kept", "standard", "amw0", "mock"} :
          said.source = Attribution(o).source => origins = {o}
    <3>1. /\ Attribution("kept").source = "cache"
          /\ Attribution("standard").source = "standard"
          /\ Attribution("amw0").source = "amw0"
          /\ Attribution("mock").source = "mock"
      BY DEF Attribution, Cached, Live
    <3>. QED BY <2>1, <3>1 DEF Heat
  <2>. QED BY <2>1, <2>2, <2>3, <2>4 DEF Heat
<1>. QED BY <1>1, Inductive, PTL

(* The power and overall attributions sum up the present components:       *)
(* lcc_backend_effective_meta_finalize after every overlay and failure.    *)
THEOREM SummariesHold == Spec => []SummariesAreTrue
<1>1. IInv => SummariesAreTrue
  BY DEF IInv, Good, SummariesAreTrue, Summary, SummaryOf
<1>. QED BY <1>1, Inductive, PTL

(* What the standard backend read live is hidden only in a refresh amw0    *)
(* answered, and only if it is the profile or a limit that amw0 executes:  *)
(* overlay_amw0_state.                                                     *)
THEOREM LiveShown == Spec => []LiveIsShown
<1>1. IInv => LiveIsShown
  BY DEF IInv
<1>. QED BY <1>1, Inductive, PTL

(* What amw0 was seeded with, read or wrote stays in view while amw0       *)
(* answers, and nothing is retained but what amw0 holds.                   *)
THEOREM KnownShown == Spec => []KnownIsShown
<1>1. IInv => KnownIsShown
  BY DEF IInv
<1>. QED BY <1>1, Inductive, PTL

(* Every channel taken fits its processor, none stands for both that does  *)
(* not name both, no channel of the listing fits better, however many      *)
(* there are and in whatever order, and a sensor has no channel only where *)
(* none fits: capture_candidate and the zones.                             *)
THEOREM SensorsShownFit == Spec => []SensorsFit
<1>1. Fits(Unlisted, Unsensed)
  <2>1. \A s \in Sensor : Unsensed[s] = NoChannel
    BY DEF Unsensed
  <2>2. NoChannel.unit = "none"
    BY DEF NoChannel
  <2>. QED BY <2>1, <2>2 DEF Fits, Unlisted
<1>2. Init => SensorsFit
  BY <1>1 DEF Init, SensorsFit
<1>3. SensorsFit /\ [Next]_vars => SensorsFit'
  <2>. SUFFICES ASSUME SensorsFit, [Next]_vars PROVE Fits(listing', sensed')
    BY DEF SensorsFit
  <2>1. CASE Start
    BY <2>1 DEF Start, ghosts, SensorsFit
  <2>2. ASSUME Off PROVE Fits(listing', sensed')
    BY <1>1, <2>2 DEF Off
  <2>3. CASE Refresh
    <3>1. PICK r \in StandardReading, bytes \in Amw0Reading, new \in Remembered :
            Took(ReadState(StandardRead[r], shadow \cup new, bytes), StandardRead[r],
                 [channels |-> r.channels, zones |-> r.zones],
                 Amw0Status(bytes[IF can.standard THEN 2 ELSE 1]) = "OK")
      BY <2>3 DEF Refresh
    <3>2. CASE Off
      BY <2>2, <3>2
    <3>3. CASE ~Off
      <4>1. /\ listing' = IF can.standard THEN [channels |-> r.channels, zones |-> r.zones]
                                          ELSE Unlisted
            /\ sensed' = IF can.standard THEN Sensed(r.channels, r.zones) ELSE Unsensed
        BY <3>1, <3>3, StandardReadIs DEF Took
      <4>2. Fits([channels |-> r.channels, zones |-> r.zones], Sensed(r.channels, r.zones))
        <5>1. r.channels \in Seq(Channel) /\ r.zones \in Nat
          BY ReadingAssumption
        <5>. QED BY <5>1, SensedFits
      <4>. QED BY <1>1, <4>1, <4>2
    <3>. QED BY <3>2, <3>3
  <2>4. CASE Crash
    BY <2>2, <2>4 DEF Crash
  <2>5. CASE UNCHANGED vars
    BY <2>5 DEF vars, ghosts, SensorsFit
  <2>. QED BY <2>1, <2>3, <2>4, <2>5 DEF Next
<1>. QED BY <1>2, <1>3, PTL DEF Spec

(* A refresh that fails neither adds nor drops a value, and leaves none    *)
(* shown as read: lcc_state_reader_refresh.                                *)
THEOREM FailureRetains == Spec => FailureKeepsShown
<1>1. ASSUME IInv, [Next]_vars
      PROVE  [status' \in {"NOT_FOUND", "IO"} =>
                /\ \A i \in Item : shown'[i] # "none" <=> shown[i] # "none"
                /\ \A i \in Item : shown'[i] \in {"none", "default", "kept"}]_vars
  <2>1. CASE Refresh
    <3>1. PICK r \in StandardReading, bytes \in Amw0Reading, new \in Remembered :
            Took(ReadState(StandardRead[r], shadow \cup new, bytes), StandardRead[r],
                 [channels |-> r.channels, zones |-> r.zones],
                 Amw0Status(bytes[IF can.standard THEN 2 ELSE 1]) = "OK")
      BY <2>1 DEF Refresh
    <3>2. status' \in {"NOT_FOUND", "IO"} => shown' = Retained(shown)
      BY <3>1 DEF Took, Off
    <3>. QED BY <3>2 DEF Retained
  <2>2. CASE Start
    <3>1. status' = "unread"
      BY <1>1, <2>2 DEF IInv, Equipped, Start
    <3>. QED BY <3>1
  <2>3. CASE Crash
    BY <2>3 DEF Crash, Off
  <2>4. CASE UNCHANGED vars
    BY <2>4
  <2>. QED BY <1>1, <2>1, <2>2, <2>3, <2>4 DEF Next
<1>. QED BY <1>1, Inductive, PTL DEF Spec, FailureKeepsShown

================================================================================
