---------------------------- MODULE MCCloudSession ----------------------------
(* Model-checking instance of CloudSession; the bounds are in the .cfg files. *)
EXTENDS CloudSession
===============================================================================
