---------------------------- MODULE MCEventConsumer ----------------------------
(* TLC instance of EventConsumer: the smallest windows at which ranges are  *)
(* both kept and skipped.                                                   *)
EXTENDS EventConsumer
================================================================================
