------------------------------- MODULE MCBoard -------------------------------
(* Model values for Board: a vendor that posts offers and a client, who    *)
(* also keeps track records and reads the board two posts at a time.       *)
EXTENDS Board, TLC

CONSTANTS vendor, client, h1, h2, h3

MCDid == {vendor, client}
MCPostId == 1..3
MCHoldId == {h1, h2, h3}
MCMayPost == (vendor :> {"OFFER"}) @@ (client :> {"WORK_RECORD"})
MCTrust == (vendor :> 80) @@ (client :> 20)
MCPrice == (vendor :> 10) @@ (client :> 60)
MCCreated == (vendor :> {3, 7}) @@ (client :> {7})
MCAbuse == {"abuse"}
MCAsk == client :> [type |-> None, author |-> None, since |-> 0, min_trust |-> 10,
                    max_price |-> None, limit |-> 2]
MCClient == {client}
=============================================================================
