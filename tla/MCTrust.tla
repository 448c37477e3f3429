------------------------------- MODULE MCTrust -------------------------------
(* Model values for Trust: a provider paid by two clients, also in another *)
(* currency and with a refund.                                             *)
EXTENDS Trust

CONSTANTS provider, client, other, usdc, eur, h1, h2

MCDid == {provider, client, other}
MCCurrency == {usdc, eur}
Paid(id, payer, outcome, amount, currency, latency) ==
  [id |-> id, payer |-> payer, payee |-> provider, outcome |-> outcome, amount |-> amount,
   currency |-> currency, latency |-> latency, day |-> id]
MCPayment == {Paid(1, client, "delivered", 3, usdc, 20), Paid(2, client, "refunded", 3, usdc, 50),
              Paid(3, other, "partial", 2, eur, 10)}
MCStaker == {provider}
MCStakeAmount == {2}
MCSignalKind == {"message_spam", "frivolous_dispute"}
MCHoldId == {h1, h2}
=============================================================================
