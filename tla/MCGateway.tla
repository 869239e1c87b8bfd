------------------------------ MODULE MCGateway ------------------------------
(* Small instances of LoggedGateway for TLC: d1 and d2 share a name, d2    *)
(* and d3 an address, and the server of d3 is not where its record says.   *)
EXTENDS LoggedGateway, TLC

CONSTANTS d1, d2, d3

MCNameOf == (d1 :> "a") @@ (d2 :> "a") @@ (d3 :> "b")
MCAddressOf == (d1 :> "x") @@ (d2 :> "y") @@ (d3 :> "x")
MCBindsAt == (d1 :> "x") @@ (d2 :> "y") @@ (d3 :> "y")
MCRank == (d1 :> 1) @@ (d2 :> 2) @@ (d3 :> 3)
=============================================================================
