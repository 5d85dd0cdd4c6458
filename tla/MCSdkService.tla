---------------------------- MODULE MCSdkService ----------------------------
(* Model-checking instance of SdkService: commands are given one at a time. *)
EXTENDS SdkService

CONSTANT boot
==============================================================================
