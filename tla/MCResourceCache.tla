---------------------------- MODULE MCResourceCache ----------------------------
(* TLC instance of ResourceCache: keys share nothing but the mutex, so one *)
(* key that is loaded again and again is the interesting case.             *)
EXTENDS ResourceCache
================================================================================
