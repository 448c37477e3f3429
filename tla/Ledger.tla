------------------------------- MODULE Ledger -------------------------------
(***************************************************************************)
(* The ledger (core/ledger) and the Merkle tree it is anchored with        *)
(* (shared/crypto/merkle.ts): a hash chain of entries, the audit filter,   *)
(* the check of the chain, and inclusion proofs.                           *)
(*                                                                         *)
(* A hash is the tuple of what is hashed: it is as free of collisions as   *)
(* the code takes SHA-256 to be.  Entries have no time stamp.              *)
(***************************************************************************)
EXTENDS Integers, Sequences, FiniteSetsExt

CONSTANT None  \* no subject, and the hash before the first entry

VARIABLE entries

Content(e) == <<e.seq, e.kind, e.subject, e.payload>>
HashChain(prev, content) == <<prev, content>>

Last(s) == s[Len(s)]
HeadHash == IF entries = <<>> THEN None ELSE Last(entries).hash

Entry(kind, subject, payload) ==
  LET e == [seq |-> Len(entries) + 1, kind |-> kind, subject |-> subject, payload |-> payload]
  IN  [seq |-> e.seq, kind |-> kind, subject |-> subject, payload |-> payload,
       prevHash |-> HeadHash, hash |-> HashChain(HeadHash, Content(e))]

(* append: the head is read twice and written in one turn of the event     *)
(* loop, so the second reading finds what the first did.                   *)
Appended(kind, subject, payload) == Append(entries, Entry(kind, subject, payload))

(* list: the entries a filter on kind and subject keeps.                   *)
Listed(kind, subject) ==
  {i \in DOMAIN entries : kind \in {None, entries[i].kind} /\ subject \in {None, entries[i].subject}}

VerifyChain ==
  \A i \in DOMAIN entries :
    /\ entries[i].seq = i
    /\ entries[i].prevHash = IF i = 1 THEN None ELSE entries[i - 1].hash
    /\ entries[i].hash = HashChain(entries[i].prevHash, Content(entries[i]))

-----------------------------------------------------------------------------
(* The Merkle tree.  The last node of an odd level is its own sibling.     *)
HashPair(a, b) == <<a, b>>

Right(level, i) == IF i < Len(level) THEN level[i + 1] ELSE level[i]

NextLevel(level) ==
  IF Len(level) <= 1 THEN level
  ELSE [i \in 1..((Len(level) + 1) \div 2) |-> HashPair(level[2*i - 1], Right(level, 2*i - 1))]

Leaves == [i \in DOMAIN entries |-> entries[i].hash]

(* The levels of the tree, from the leaves.                                *)
Level[n \in 0..Len(entries)] == IF n = 0 THEN Leaves ELSE NextLevel(Level[n - 1])

(* Rounds of the loops over the levels: they stop at a single node.        *)
Height == Min({n \in 0..Len(entries) : Len(Level[n]) <= 1})

(* The root, in a sequence of its own; without entries there is none.      *)
MerkleRoot == Level[Height]

(* Where the ancestors of leaf i are.                                      *)
Ancestor(i) ==
  LET at[n \in 0..Len(entries)] == IF n = 0 THEN i ELSE (at[n - 1] + 1) \div 2 IN at

(* Mutant: the last node of an odd level has no sibling.                   *)
ProofStepSkip(level, at) ==
  IF at % 2 = 0 THEN [position |-> "left", sibling |-> level[at - 1]]
  ELSE [position |-> "right", sibling |-> level[IF at < Len(level) THEN at + 1 ELSE 1]]

(* Its sibling there.                                                      *)
ProofStep(level, at) ==
  IF at % 2 = 0 THEN [position |-> "left", sibling |-> level[at - 1]]
  ELSE [position |-> "right", sibling |-> Right(level, at)]

(* The proofs of all leaves.                                               *)
MerkleProofs ==
  LET height == Height
      at == [i \in DOMAIN entries |-> Ancestor(i)]
  IN  [i \in DOMAIN entries |->
         [n \in 1..height |-> ProofStep(Level[n - 1], at[i][n - 1])]]

VerifyProof(leaf, proof, root) ==
  LET computed[n \in 0..Len(proof)] ==
        IF n = 0 THEN leaf
        ELSE IF proof[n].position = "left"
        THEN HashPair(proof[n].sibling, computed[n - 1])
        ELSE HashPair(computed[n - 1], proof[n].sibling)
  IN  <<computed[Len(proof)]>> = root
=============================================================================
