-------------------------------- MODULE MCSession --------------------------------
(***************************************************************************)
(* Processes for Session: one applies a document of two parts, one sets a  *)
(* single setting, one reads the state.                                    *)
(***************************************************************************)
EXTENDS Session

CONSTANTS applier, setter, reader

TwoPartsAndOne ==
  [c \in Client |->
     CASE c = applier -> <<"set-mode", "set-power-limits">>
       [] c = setter  -> <<"set-mode">>
       [] c = reader  -> <<"get-state">>]
================================================================================
