----------------------------- MODULE MCPayment -----------------------------
(* Model values for Payment: a cheap quote and one that needs an approval,  *)
(* or not, as the policy says.                                             *)
EXTENDS Payment

CONSTANTS k1, k2, q1, q2, n1, n2, n3, a1, a2, p1, p2

Keys == {k1, k2}
Quotes == {q1, q2}
Nonces == {n1, n2, n3}
Approvals == {a1, a2}
TwoProcs == {p1, p2}

Over == {1, 2}
Prices == [q \in Quotes |-> IF q = q1 THEN 1 ELSE 2]
=============================================================================
