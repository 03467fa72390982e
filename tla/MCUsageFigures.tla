--------------------------- MODULE MCUsageFigures ---------------------------
(* UsageFigures has one constant, which the configuration file gives. *)
EXTENDS UsageFigures
=============================================================================
