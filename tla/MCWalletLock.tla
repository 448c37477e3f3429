---------------------------- MODULE MCWalletLock ----------------------------
(* Model values for WalletLock: two wallets, three calls.                  *)
EXTENDS WalletLock

CONSTANTS d1, d2, c1, c2, c3

MCDid == {d1, d2}
MCCall == {c1, c2, c3}
MCAmount == {1}
=============================================================================
