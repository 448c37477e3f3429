------------------------------- MODULE Policy -------------------------------
(***************************************************************************)
(* What a delegation lets its agent do: PolicyEvaluator (core/policy/      *)
(* evaluator.ts) over the policy of a DelegationCredential, with the glob  *)
(* patterns of domain/taxonomy.ts.  The evaluator has no state.            *)
(*                                                                         *)
(* A category or a counterparty is the sequence of its dotted segments.    *)
(***************************************************************************)
EXTENDS Integers, Sequences, SequencesExt

CONSTANTS Segment, Currency,
          None  \* a field an action does not have

Path == Seq(Segment)
Pattern == [glob : {"any", "exact", "below"}, path : Path]
Money == [amount : Nat, currency : Currency]

DelegationPolicy ==
  [perTx : Money, daily : Money, total : Money, threshold : Money, maxEscrow : Money,
   categories : [allow : SUBSET Pattern, deny : SUBSET Pattern],
   counterparties : [allow : SUBSET Pattern, deny : SUBSET Pattern],
   send : BOOLEAN, offers : BOOLEAN, rfps : BOOLEAN, commit : BOOLEAN, stake : BOOLEAN]

PolicyAction ==
  [kind : {"spend", "tip", "message", "post", "escrow", "stake"}, category : Path \cup {None},
   counterparty : Path \cup {None}, amount : Money \cup {None}, subKind : {"offer", "rfp", None}]

(* What usage() has counted: today and ever, in one currency each.         *)
SpendUsage == [daily : Money, total : Money]

(* "*" matches all, "p.*" matches p and what is below it.                  *)
Matches(pattern, id) ==
  \/ pattern.glob = "any"
  \/ pattern.glob = "exact" /\ pattern.path = id
  \/ pattern.glob = "below" /\ IsPrefix(pattern.path, id)

(* A pattern that denies wins over one that allows.                        *)
Allowed(id, lists) ==
  /\ ~\E pattern \in lists.deny : Matches(pattern, id)
  /\ \E pattern \in lists.allow : Matches(pattern, id)

(* What was spent in another currency counts as nothing.                   *)
UsageIn(spent, currency) == IF spent.currency = currency THEN spent.amount ELSE 0

(* Amounts of two currencies are not compared: mGt throws.                 *)
Against(cap, spent, money) ==
  IF money.currency # cap.currency THEN "throw"
  ELSE IF UsageIn(spent, money.currency) + money.amount > cap.amount THEN "deny"
  ELSE "allow"

(* A threshold in another currency asks nobody.                            *)
ApprovalTail(money, threshold) ==
  IF money.currency = threshold.currency /\ money.amount > threshold.amount
  THEN "needs_approval" ELSE "allow"

(* The first answer that is not `allow`.                                   *)
FirstOf(answers) ==
  LET others == {i \in DOMAIN answers : answers[i] # "allow"}
  IN  IF others = {} THEN "allow" ELSE answers[Min(others)]

Nothing(currency) == [amount |-> 0, currency |-> currency]

(* Mutant: the threshold is looked at before the caps on what was spent.   *)
EvaluateSpendAsksFirst(policy, a, usage) ==
  IF a.category = None \/ a.amount = None THEN "deny"
  ELSE IF ~Allowed(a.category, policy.categories)
          \/ a.amount.currency # policy.perTx.currency THEN "deny"
  ELSE FirstOf(<<Against(policy.perTx, Nothing(a.amount.currency), a.amount),
                 ApprovalTail(a.amount, policy.threshold),
                 Against(policy.daily, usage.daily, a.amount),
                 Against(policy.total, usage.total, a.amount)>>)

EvaluateSpend(policy, a, usage) ==
  IF a.category = None \/ a.amount = None THEN "deny"
  ELSE IF ~Allowed(a.category, policy.categories)
          \/ a.amount.currency # policy.perTx.currency THEN "deny"
  ELSE FirstOf(<<Against(policy.perTx, Nothing(a.amount.currency), a.amount),
                 Against(policy.daily, usage.daily, a.amount),
                 Against(policy.total, usage.total, a.amount),
                 ApprovalTail(a.amount, policy.threshold)>>)

EvaluateMessage(policy) == IF policy.send THEN "allow" ELSE "deny"

EvaluatePost(policy, a) ==
  IF \/ ~policy.offers /\ ~policy.rfps
     \/ a.subKind = "offer" /\ ~policy.offers
     \/ a.subKind = "rfp" /\ ~policy.rfps
  THEN "deny" ELSE "allow"

EvaluateEscrow(policy, a) ==
  IF ~policy.commit \/ a.amount = None THEN "deny"
  ELSE IF a.amount.currency # policy.maxEscrow.currency THEN "deny"
  ELSE FirstOf(<<Against(policy.maxEscrow, Nothing(a.amount.currency), a.amount),
                 ApprovalTail(a.amount, policy.threshold)>>)

EvaluateStake(policy) == IF policy.stake THEN "allow" ELSE "deny"

Evaluate(policy, a, usage) ==
  IF a.counterparty # None /\ ~Allowed(a.counterparty, policy.counterparties) THEN "deny"
  ELSE CASE a.kind \in {"spend", "tip"} -> EvaluateSpend(policy, a, usage)
         [] a.kind = "message" -> EvaluateMessage(policy)
         [] a.kind = "post" -> EvaluatePost(policy, a)
         [] a.kind = "escrow" -> EvaluateEscrow(policy, a)
         [] a.kind = "stake" -> EvaluateStake(policy)
         [] OTHER -> "deny"
=============================================================================
