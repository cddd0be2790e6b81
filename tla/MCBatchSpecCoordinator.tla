---------------------- MODULE MCBatchSpecCoordinator ------------------------
(* Small instances of BatchSpecCoordinator.                                *)
EXTENDS BatchSpecCoordinator

CONSTANTS a, b, c, greedy, warm

(* a and b may share a batch, c has other settings. *)
MCKey == [r \in Requests |-> IF r = c THEN warm ELSE greedy]
MCPromptLen == [r \in Requests |-> 2]
MCMaxTokens == [r \in Requests |-> IF r = a THEN 3 ELSE IF r = b THEN 2 ELSE 1]
=============================================================================
