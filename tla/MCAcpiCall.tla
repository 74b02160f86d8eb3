------------------------------- MODULE MCAcpiCall -------------------------------
(***************************************************************************)
(* Two registers, the two candidates of the probe and other tools' replies *)
(* within and beyond a byte.                                               *)
(***************************************************************************)
EXTENDS AcpiCall

Both == <<"_SB.INOU", "_SB_.INOU">>
================================================================================
