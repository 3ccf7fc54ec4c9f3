------------------------------ MODULE MCOverlay -------------------------------
(* A plain toggle, a button of the kip and a bar of the kip on a page and its *)
(* submenu; the CPU and the display; two bytes of the governor word.          *)
EXTENDS Overlay
MCHome    == [enable |-> "General", hpMode |-> "Ram", tRCD |-> "Timings"]
MCControl == [enable |-> "toggle", hpMode |-> "button", tRCD |-> "bar"]
==============================================================================
