----------------------------- MODULE MCAbWorker -----------------------------
(* One decode_ab through ab_submit.py, and one command through biglock.sh,  *)
(* which may be of any kind, in the same environment or in another.         *)
EXTENDS AbWorker

CONSTANTS worker, direct, wrapped

Job(kind, env) == [kind |-> kind, env |-> env]
MCBrings ==
  [u \in Users |-> IF u \in Direct THEN {Job("decode", 0)}
                   ELSE {Job("decode", 0), Job("decode", 1), Job("exec", 0), Job("own", 0)}]
MCPrio == [u \in Users |-> 1]
=============================================================================
