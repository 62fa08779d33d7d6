------------------------------ MODULE MCBridge ------------------------------
(* Model-checking instance of the bridges.  The one on A sends to and hears  *)
(* from three chains, one of them with a bridge and its redeployment.        *)
EXTENDS CrossChainVaultBridge, TLC

CONSTANTS a1, b1, b2, c1, d1, A, B, C, D

HomeOf == (a1 :> A) @@ (b1 :> B) @@ (b2 :> B) @@ (c1 :> C) @@ (d1 :> D)
LanesOf == {<<a1, b1>>, <<a1, b2>>, <<a1, c1>>, <<a1, d1>>, <<b1, a1>>, <<b2, a1>>}
=============================================================================
