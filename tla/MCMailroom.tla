----------------------------- MODULE MCMailroom -----------------------------
(* Model values for Mailroom: a buyer and a seller.                        *)
EXTENDS Mailroom, TLC

CONSTANTS buyer, seller, t1, t2, q1, q2, p1, p2, h1, h2, h3, h4

MCDid == {buyer, seller}
MCMsgId == 1..3
MCThread == {t1, t2}
MCQuote == {q1, q2}
MCTerms == {p1, p2}
OneQuote == {q1}
OneOffer == {p1}
MCHoldId == {h1, h2, h3, h4}
MCCap == [d \in MCDid |-> 4]
MCReader == {buyer}
MCSends == (buyer :> {"QUOTE_REQUEST", "ACCEPT", "REJECT"})
        @@ (seller :> {"QUOTE", "COUNTER", "STATUS"})

(* Two agents that both quote and accept, and neither poll nor flag.       *)
MCNegotiators == (buyer :> {"QUOTE_REQUEST", "QUOTE", "ACCEPT", "REJECT"})
              @@ (seller :> {"QUOTE", "COUNTER", "ACCEPT", "STATUS"})
LargeCap == [d \in MCDid |-> 8]
EachOther == (buyer :> {seller}) @@ (seller :> {buyer})
Anyone == [d \in MCDid |-> MCDid]
Nobody == {}

Symmetry == Permutations(MCQuote) \cup Permutations(MCTerms)
=============================================================================
