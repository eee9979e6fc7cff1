-------------------------- MODULE MCTrustProvider --------------------------
(* Instances of TrustProvider for TLC. *)
EXTENDS TrustProvider, TLC

CONSTANTS p1, p2, c1, c2, root0, root1, root2

\* One process with two calls, or a single call.
HomeTogether == (c1 :> p1) @@ (c2 :> p1)
HomeSingle   == (c1 :> p1)

\* Every version has a trusted root of its own, or the last two share one.
Distinct1 == (0 :> root0) @@ (1 :> root1)
Distinct2 == (0 :> root0) @@ (1 :> root1) @@ (2 :> root2)
Shared2   == (0 :> root0) @@ (1 :> root1) @@ (2 :> root1)

\* All versions are signed with the same keys, or the last one with new keys.
Same1 == (0 :> "a") @@ (1 :> "a")
Same2 == (0 :> "a") @@ (1 :> "a") @@ (2 :> "a")
Keys1 == (0 :> "a") @@ (1 :> "b")
Keys2 == (0 :> "a") @@ (1 :> "a") @@ (2 :> "b")

\* In one process the calls are alike.
CallSymmetry == Permutations(Calls)
=============================================================================
