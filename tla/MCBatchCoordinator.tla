------------------------ MODULE MCBatchCoordinator ------------------------
(* Small instances of BatchCoordinator.                                    *)
EXTENDS BatchCoordinator, TLC

CONSTANTS a, b, c, d, s1, j1

(* Against a budget of 4: a and b are pool requests that may not share a    *)
(* batch, d may join either of them, c is a solo request.                   *)
Lengths == (a :> 3) @@ (b :> 1) @@ (c :> 3) @@ (d :> 2)
Tokens  == (a :> 1) @@ (b :> 2) @@ (c :> 2) @@ (d :> 1)

MCPromptLen == [r \in Requests |-> Lengths[r]]
MCMaxTokens == [r \in Requests |-> Tokens[r]]
===========================================================================
