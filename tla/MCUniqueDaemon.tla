---------------------------- MODULE MCUniqueDaemon ----------------------------
(* TLC instance of UniqueDaemon: two nodes, no symmetry because liveness is *)
(* checked too.                                                             *)
EXTENDS UniqueDaemon
================================================================================
