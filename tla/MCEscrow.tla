------------------------------ MODULE MCEscrow ------------------------------
(* Model values for Escrow: contracts of two milestones.                   *)
EXTENDS Escrow, TLC

CONSTANTS h1, h2, h3, h4, h5, h6, a1, a2, p1, p2

Holds6 == {h1, h2, h3, h4, h5, h6}
Approvals2 == {a1, a2}
OneProc == {p1}
TwoProcs == {p1, p2}
Bonds == {0, 1}

Two == <<1, 1>>
CheckedJudged == <<"checked", "judged">>
ChecksumChecked == <<"checksum", "checked">>
=============================================================================
