------------------------- MODULE MCRequestLifecycle --------------------------
(* Small instances of RequestLifecycle.                                     *)
EXTENDS RequestLifecycle

CONSTANTS s, t, p, u
==============================================================================
