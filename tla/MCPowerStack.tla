------------------------------ MODULE MCPowerStack ------------------------------
(***************************************************************************)
(* Machines for PowerStack.                                                *)
(***************************************************************************)
EXTENDS PowerStack

Machine(standard, amw0, layout, ceiling) ==
  [standard |-> standard, amw0 |-> amw0, layout |-> layout, ceiling |-> ceiling]

Both == <<"long_term", "short_term">>

(* Both backends, and requests that need both: a kernel that clamps 2 W to *)
(* 1.5 W, which reads as 2 W, or to 1 W, which its readback refuses.       *)
Paired ==
  {Machine("writable", "real", <<"long_term">>, 3),
   Machine("writable", "dry", <<"long_term">>, 2),
   Machine("readonly", "real", <<"long_term">>, 4)}

(* A zone without short_term, or whose only constraint is short_term.      *)
Partial ==
  {Machine("writable", "real", layout, 4) :
     layout \in {<<"long_term">>, <<"short_term">>}}

(* One backend only.                                                       *)
Single ==
  {Machine("writable", "absent", Both, 2), Machine("readonly", "absent", Both, 4),
   Machine("absent", "real", <<>>, 0), Machine("absent", "dry", <<>>, 0)}

Every == Paired \cup Partial \cup Single

Asks(fields, watts) ==
  {l \in [Field -> watts \cup {None}] : \A f \in Field \ fields : l[f] = None}

(* The limits of both backends; or both of powercap, or a PL1 of zero,     *)
(* which it refuses.                                                       *)
MCRequests(p) ==
  IF p \in Paired THEN Asks({"pl1", "pl4"}, {1, 2})
  ELSE Asks({"pl1", "pl2"}, IF p \in Partial THEN {2} ELSE {1, 2})
         \cup Asks({"pl1"}, {0})

MCPowercapDrift(p) == IF p \in Paired THEN {8} ELSE {2}

(* powercap alone, and with the short_term constraint missing.             *)
Alone == {Machine("writable", "absent", <<"long_term">>, 4)}

(* Firmware that starts powercap beyond what a byte of watts holds.        *)
Unlimited == {Machine("writable", "absent", Both, 8)}

OneOrTwo(p) == Asks({"pl1", "pl2"}, {1, 2})

(* Requests that always name both of powercap's limits.                    *)
BothNamed(p) == {l \in OneOrTwo(p) : l["pl1"] # None /\ l["pl2"] # None}
NoDrift(p) == {}
================================================================================
