------------------------------- MODULE Wallet -------------------------------
(***************************************************************************)
(* What the wallet (features/settlement/wallet/service.ts) promises the    *)
(* services that move value over it: every operation is one atomic step on *)
(* the {available, held} split of a DID and on the hold rows carved out of *)
(* `held`.  WalletLock models the same operations await by await and is    *)
(* shown to implement this module; Escrow composes these actions.          *)
(*                                                                         *)
(* One settlement currency.  Amounts are naturals: the code computes with  *)
(* exact decimals, so only order, sum and difference matter.               *)
(***************************************************************************)
EXTENDS Integers, FiniteSets, Functions

CONSTANTS
  Did,      \* wallet owners
  HoldId,   \* ids newHoldId() can return
  Amount,   \* amounts a caller asks to move, naturals
  Seed      \* bound: the most a DID is credited before the first operation

VARIABLES
  available,  \* [Did -> Int], the spendable part of a wallet row
  held,       \* [Did -> Int], the part earmarked by active holds
  hold,       \* [HoldId -> Hold], the hold rows
  external    \* history: net value that left the wallets (debits, burns, less credits)

walletVars == <<available, held, hold, external>>

Settled == {"released", "captured", "forfeited"}
HoldState == {"active"} \cup Settled
NoHold == [state |-> "none"]
Hold == [state : HoldState, did : Did, amount : Nat]

Fresh(h) == hold[h] = NoHold
Active(h) == hold[h].state = "active"

-----------------------------------------------------------------------------
(* Operations.  A call that throws (non-positive amount, insufficient      *)
(* funds, a hold that is unknown or not active) changes nothing, so its    *)
(* failure is the absence of a step here.                                  *)

Credit(d, a) ==
  /\ a > 0
  /\ available' = [available EXCEPT ![d] = @ + a]
  /\ external' = external - a
  /\ UNCHANGED <<held, hold>>

Debit(d, a) ==
  /\ a > 0
  /\ available[d] >= a
  /\ available' = [available EXCEPT ![d] = @ - a]
  /\ external' = external + a
  /\ UNCHANGED <<held, hold>>

(* available -> held, under a new hold row.                                *)
CanHold(d, a) == a > 0 /\ available[d] >= a

PlaceHold(h, d, a) ==
  /\ Fresh(h)
  /\ CanHold(d, a)
  /\ available' = [available EXCEPT ![d] = @ - a]
  /\ held' = [held EXCEPT ![d] = @ + a]
  /\ hold' = [hold EXCEPT ![h] = [state |-> "active", did |-> d, amount |-> a]]
  /\ UNCHANGED external

(* The held amount goes back to its owner.                                 *)
Release(h) ==
  LET d == hold[h].did
      a == hold[h].amount
  IN  /\ Active(h)
      /\ available' = [available EXCEPT ![d] = @ + a]
      /\ held' = [held EXCEPT ![d] = @ - a]
      /\ hold' = [hold EXCEPT ![h].state = "released"]
      /\ UNCHANGED external

(* Mutant: capture looks the hold up but does not require it active.       *)
CaptureUnchecked(h, to) ==
  LET d == hold[h].did
      a == hold[h].amount
  IN  /\ ~Fresh(h)
      /\ available' = [available EXCEPT ![to] = @ + a]
      /\ held' = [held EXCEPT ![d] = @ - a]
      /\ hold' = [hold EXCEPT ![h].state = "captured"]
      /\ UNCHANGED external

(* The settlement transfer: held at the owner -> available at `to`.        *)
Capture(h, to) ==
  LET d == hold[h].did
      a == hold[h].amount
  IN  /\ Active(h)
      /\ available' = [available EXCEPT ![to] = @ + a]
      /\ held' = [held EXCEPT ![d] = @ - a]
      /\ hold' = [hold EXCEPT ![h].state = "captured"]
      /\ UNCHANGED external

(* Mutant: the recipient is credited the whole hold and the burn is lost.  *)
ForfeitWhole(h, to, burned) ==
  LET d == hold[h].did
      a == hold[h].amount
  IN  /\ Active(h)
      /\ burned \in 0..a
      /\ available' = [available EXCEPT ![to] = @ + a]
      /\ held' = [held EXCEPT ![d] = @ - a]
      /\ hold' = [hold EXCEPT ![h].state = "forfeited"]
      /\ external' = external + burned

(* Slashing: `burned` of the held amount leaves the system and the rest is *)
(* credited to `to`.                                                       *)
Forfeit(h, to, burned) ==
  LET d == hold[h].did
      a == hold[h].amount
  IN  /\ Active(h)
      /\ burned \in 0..a
      /\ available' = [available EXCEPT ![to] = @ + (a - burned)]
      /\ held' = [held EXCEPT ![d] = @ - a]
      /\ hold' = [hold EXCEPT ![h].state = "forfeited"]
      /\ external' = external + burned

-----------------------------------------------------------------------------
Init ==
  /\ available \in [Did -> 0..Seed]
  /\ held = [d \in Did |-> 0]
  /\ hold = [h \in HoldId |-> NoHold]
  /\ external = -SumFunction(available)

Next ==
  \/ \E d \in Did, a \in Amount : Credit(d, a)
  \/ \E d \in Did, a \in Amount : Debit(d, a)
  \/ \E h \in HoldId, d \in Did, a \in Amount : PlaceHold(h, d, a)
  \/ \E h \in HoldId : Release(h)
  \/ \E h \in HoldId, to \in Did : Capture(h, to)
  \/ \E h \in HoldId, to \in Did :
       Active(h) /\ \E burned \in 0..hold[h].amount : Forfeit(h, to, burned)

Spec == Init /\ [][Next]_walletVars

-----------------------------------------------------------------------------
(* Properties.                                                             *)

(* Shapes of the rows; `available` never goes below zero (no overdraft).   *)
TypeOK ==
  /\ available \in [Did -> Nat]
  /\ held \in [Did -> Int]
  /\ hold \in [HoldId -> Hold \cup {NoHold}]

(* `held` is exactly what the active holds earmark: no operation settles   *)
(* part of a hold, settles one twice or forgets to take it out of `held`   *)
(* (service.ts:101-193 keep the row and the hold row in step).             *)
HeldIsBacked ==
  \A d \in Did :
    held[d] = SumFunctionOnSet(
                [h \in HoldId |-> IF Fresh(h) THEN 0 ELSE hold[h].amount],
                {h \in HoldId : Active(h) /\ hold[h].did = d})

(* Value is conserved: the wallets together hold what was credited, less   *)
(* what was debited or burned (service.ts:161-193).                        *)
Conservation == SumFunction(available) + SumFunction(held) + external = 0

(* A settled hold is final (service.ts:133,148,167): it is never settled   *)
(* again, re-activated or re-priced.                                       *)
SettledIsFinal ==
  [][\A h \in HoldId : hold[h].state \in Settled => hold'[h] = hold[h]]_walletVars
=============================================================================
