------------------------------- MODULE MCDisplay -------------------------------
(***************************************************************************)
(* A console whose governor thread looks at the focus every second round   *)
(* and tries the highest rate every second one, with a 60 Hz and a 120 Hz  *)
(* screen.                                                                 *)
(***************************************************************************)
EXTENDS Display

MCSinks == {[v |-> 1080, rates |-> {60}], [v |-> 720, rates |-> {60, 120}]}
=============================================================================
