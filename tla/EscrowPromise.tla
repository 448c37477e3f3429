---------------------------- MODULE EscrowPromise ---------------------------
(***************************************************************************)
(* What an escrow promises about money, without requests, rulings or       *)
(* clocks: all milestones are funded at once, each is then paid or         *)
(* returned exactly once, and the provider's collateral goes back only     *)
(* when nothing is locked any more, or is forfeited once.                  *)
(***************************************************************************)
CONSTANT Milestone

VARIABLES
  funds,      \* [Milestone -> {"none", "locked", "paid", "returned"}]
  collateral  \* the provider stake

promiseVars == <<funds, collateral>>

Init ==
  /\ funds = [m \in Milestone |-> "none"]
  /\ collateral = "none"

Fund ==
  /\ funds = [m \in Milestone |-> "none"]
  /\ funds' = [m \in Milestone |-> "locked"]
  /\ collateral' \in {"none", "locked"}

Settle(m) ==
  /\ funds[m] = "locked"
  /\ \E outcome \in {"paid", "returned"} : funds' = [funds EXCEPT ![m] = outcome]
  /\ UNCHANGED collateral

ReturnCollateral ==
  /\ collateral = "locked"
  /\ \A m \in Milestone : funds[m] \in {"paid", "returned"}
  /\ collateral' = "returned"
  /\ UNCHANGED funds

Forfeit ==
  /\ collateral = "locked"
  /\ collateral' = "forfeited"
  /\ UNCHANGED funds

Next ==
  \/ Fund
  \/ \E m \in Milestone : Settle(m)
  \/ ReturnCollateral
  \/ Forfeit

Spec == Init /\ [][Next]_promiseVars
=============================================================================
