----------------------------- MODULE MCTufCache -----------------------------
(* Instances of TufCache for TLC. *)
EXTENDS TufCache, TLC

\* Root 1 comes with state 1 and keeps the keys of the embedded root; root 2 comes
\* with state 2 and replaces them.
Roots == (0 :> 0) @@ (1 :> 1) @@ (2 :> 2) @@ (3 :> 2)
Keys  == (0 :> "a") @@ (1 :> "a") @@ (2 :> "b")
=============================================================================
