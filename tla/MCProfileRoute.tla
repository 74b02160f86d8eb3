----------------------------- MODULE MCProfileRoute -----------------------------
(***************************************************************************)
(* Machines and names for ProfileRoute.                                    *)
(***************************************************************************)
EXTENDS ProfileRoute

On(standard, amw0, accepts) ==
  [standard |-> standard, amw0 |-> amw0, accepts |-> accepts]

(* A driver that offers everything, and one that offers only two.          *)
All  == KernelName
Some == {"low-power", "balanced"}

(* A driver before each kind of amw0, and amw0 without a driver.           *)
Paired ==
  {On("profile", a, Some) : a \in {"absent", "dry", "real"}}
    \cup {On("profile", "absent", All)}
Single == {On("absent", "dry", All), On("plain", "dry", All), On("plain", "real", All)}
Every == Paired \cup Single

(* Both vocabularies; "quiet" is a name that no backend takes.             *)
AllNames == Mode \cup KernelName
================================================================================
