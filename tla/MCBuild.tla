------------------------------ MODULE MCBuild ------------------------------
(***************************************************************************)
(* Instances of BuildSomewhere for TLC.                                    *)
(***************************************************************************)
EXTENDS BuildSomewhere, TLC

CONSTANTS a, b, d, h1, h2, here

MCSlots == (h1 :> 1) @@ (h2 :> 1) @@ (here :> 1)
MCSlotsOneHost == (h1 :> 1) @@ (here :> 1)
ClientSymmetry == Permutations(Clients)
=============================================================================
