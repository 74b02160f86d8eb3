----------------------------- MODULE MCTransaction -----------------------------
(***************************************************************************)
(* Instances of Transaction for TLC.                                       *)
(***************************************************************************)
EXTENDS Transaction, TLC

CONSTANTS office, turbo, table1, watt1, watt2

(* The shadow amw0 starts from (seed_shadow_state).                        *)
AmwSeed ==
  [s \in Slot |-> CASE s = "profile"   -> office
                    [] s = "fan_table" -> table1
                    [] OTHER           -> NoValue]

(* What the probes found: every operation, or none that writes.            *)
AllFound     == {Ops}
AllOrNothing == {Ops, {}}

NoDefault == EmptyTarget

(* The watts are interchangeable: no limit is seeded.                      *)
AnyWatt == Permutations({watt1, watt2})
================================================================================
