----------------------------- MODULE MCIdentity -----------------------------
(* Model values for Identity: an org that registers itself and its agent,  *)
(* rotates keys and revokes, with a second version of its own key; and a   *)
(* supervisor who switches between two policies.                           *)
EXTENDS Identity

CONSTANTS o1, o2, a1, id1, id2, n1, n2, n3, r1, p1, p2, doc, acme, usdc, eur

MCPub == {o1, o2, a1}
MCKeyId == {id1, id2}
MCNonce == {n1, n2, n3}
MCProc == {p1, p2}
MCApprovalId == {r1}
MCSegment == {doc, acme}
MCCurrency == {usdc, eur}
MCKeyHeld == {o1}

org == <<"org", o1>>
agent == <<"agent", a1>>
K(id, pub) == [id |-> id, pub |-> pub]

MCObject ==
  {[kind |-> "register", did |-> org, controller |-> org, keys |-> <<K(id1, o1)>>,
    by |-> o1, nonce |-> n1, iat |-> 0, exp |-> 1],
   [kind |-> "register", did |-> agent, controller |-> org, keys |-> <<K(id1, a1)>>,
    by |-> o1, nonce |-> n2, iat |-> 0, exp |-> 2],
   [kind |-> "rotate", did |-> org, new |-> K(id2, o2), deprecate |-> id1,
    by |-> o1, nonce |-> n3, iat |-> 0, exp |-> 2],
   [kind |-> "revoke", did |-> agent, by |-> o1, nonce |-> n1, iat |-> 1, exp |-> 3],
   [kind |-> "revoke", did |-> agent, by |-> o2, nonce |-> n3, iat |-> 1, exp |-> 3]}

USDC(n) == [amount |-> n, currency |-> usdc]
EUR(n) == [amount |-> n, currency |-> eur]
Anyone == [allow |-> {[glob |-> "any", path |-> <<>>]}, deny |-> {}]
Docs == [allow |-> {[glob |-> "below", path |-> <<doc>>]},
         deny |-> {[glob |-> "exact", path |-> <<doc, acme>>]}]

Wide == [perTx |-> USDC(3), daily |-> USDC(4), total |-> USDC(4), threshold |-> USDC(1),
         maxEscrow |-> USDC(3), categories |-> Docs, counterparties |-> Anyone,
         send |-> TRUE, offers |-> TRUE, rfps |-> FALSE, commit |-> TRUE, stake |-> TRUE]
Narrow == [Wide EXCEPT !.perTx = USDC(1), !.total = EUR(4), !.counterparties = Docs,
                       !.send = FALSE, !.offers = FALSE, !.commit = FALSE, !.stake = FALSE]
MCPolicies == {Wide, Narrow}

Spending == [kind |-> "spend", category |-> <<doc, doc>>, counterparty |-> <<doc>>,
          amount |-> USDC(2), subKind |-> None]
MCAction ==
  {[Spending EXCEPT !.amount = m] : m \in {USDC(1), USDC(2), USDC(3), EUR(1), None}}
  \cup {[Spending EXCEPT !.kind = "escrow", !.amount = m] : m \in {USDC(1), USDC(2)}}
  \cup {[Spending EXCEPT !.category = c] : c \in {<<doc, acme>>, None}}
  \cup {[Spending EXCEPT !.kind = k, !.amount = None, !.counterparty = <<acme>>] :
          k \in {"message", "stake"}}
  \cup {[Spending EXCEPT !.kind = "post", !.amount = None, !.counterparty = None, !.subKind = s] :
          s \in {"offer", "rfp", None}}
MCAsked == {[Spending EXCEPT !.amount = USDC(2)]}
MCUsage == {[daily |-> USDC(n), total |-> m] : n \in {0, 2}, m \in {USDC(0), USDC(2), EUR(4)}}

MCDelegation == {<<agent, [issuer |-> org, policy |-> Wide, issued |-> 0, expires |-> 2,
                           signed |-> TRUE]>>}
=============================================================================
