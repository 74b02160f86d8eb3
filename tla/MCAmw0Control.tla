----------------------------- MODULE MCAmw0Control ------------------------------
(***************************************************************************)
(* Amw0Control with the mode bytes docs/profiles.md saw on the machine:    *)
(* 0x00, 0x10, 0x20, 0x30 and 0xA0.                                        *)
(***************************************************************************)
EXTENDS Amw0Control

ObservedBytes ==
  {{}, {"turbo"}, {"himode"}, {"himode", "turbo"}, {"custom", "himode"}}
================================================================================
