--------------------------- MODULE MCDesiredConfig ---------------------------
(* Model-checking instance of DesiredConfig; the bound is in the .cfg files. *)
EXTENDS DesiredConfig
===============================================================================
