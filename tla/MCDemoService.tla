---------------------------- MODULE MCDemoService ----------------------------
(* Small instance of DemoService for TLC: one invocation at a time, three     *)
(* commands and three wrappers, so that a restart meets a Demo that is still   *)
(* stopping and another command follows.                                       *)
EXTENDS DemoService

CONSTANT s1
==============================================================================
