------------------------------- MODULE MCFanTable -------------------------------
(***************************************************************************)
(* Files for FanTable: the built-in table, a short list, a list behind an  *)
(* unusable one, an ini file without points, and files that do not load.   *)
(***************************************************************************)
EXTENDS FanTable

P(up, down, duty) == [up |-> up, down |-> down, duty |-> duty]
Json(name, on, both, cpu, gpu) ==
  [format |-> "json", name |-> name, activated |-> on, respective |-> both,
   cpu |-> cpu, gpu |-> gpu]
Ini(name, on, both, cpu, gpu) ==
  [Json(name, on, both, cpu, gpu) EXCEPT !.format = "ini"]

Quiet    == <<P(47, 44, 8), P(51, 48, 12)>>
FallsOff == <<P(47, 44, 50), P(51, 48, 12)>>
Inverted == <<P(44, 47, 8)>>
TooMany  == [i \in 1..(PointCount + 1) |-> P(50 + i, 49, 30)]
Full     == [i \in Point |-> P(60 + i, 60, 20 * i)]
Sparse   == [i \in {2} |-> P(60, 55, 30)]
Nothing  == [i \in {} |-> P(0, 0, 0)]

SomeFiles ==
  [quiet  |-> <<Json("quiet", TRUE, TRUE, Quiet, <<P(49, 46, 10)>>)>>,
   mixed  |-> <<Json(None, TRUE, TRUE, FallsOff, Quiet), None,
                Json("office-fans", TRUE, FALSE, Full, Full)>>,
   bare   |-> <<Json(None, TRUE, TRUE, TooMany, TooMany),
                Ini(None, FALSE, TRUE, Nothing, Nothing)>>,
   broken |-> <<Json(None, TRUE, TRUE, Inverted, Quiet),
                Ini(None, TRUE, TRUE, Sparse, Full), None>>]

SomeNames == DOMAIN SomeFiles \cup {"demo"}

(* One register of the payload, one of the tail.                           *)
SomeAddr == {GpuUpBase + 1, CtrlAddr}
================================================================================
