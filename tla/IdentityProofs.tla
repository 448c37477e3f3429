---------------------------- MODULE IdentityProofs ---------------------------
(***************************************************************************)
(* Identity and governance, for any passports, objects, policies and calls:*)
(* a signed object takes effect once, a kill holds and the audit trail     *)
(* tells what is in force, and every policy is a sound mandate.            *)
(***************************************************************************)
EXTENDS Identity, SetLemmas

(* A passport names a key, and the passport a rotation goes on with is one.*)
KeysFit ==
  /\ \A d \in Did : Known(d) => passports[d] \in Passport /\ passports[d].keys # <<>>
  /\ \A p \in Proc : In(p, "verify") /\ job[p].object.kind = "rotate" => job[p].passport # None

VerifiedBy(p, o) == In(p, "verify") /\ job[p].object = o

(* The nonce of an object that is being verified or has taken effect is    *)
(* kept until the object has expired, and one call at a time verifies it.  *)
NonceKept(o) ==
  taken[o] > 0 \/ (\E p \in Proc : VerifiedBy(p, o)) => o.exp <= now \/ seen[o.nonce] = o.exp

TakenOnce(o) ==
  /\ taken[o] \in Nat /\ taken[o] <= 1
  /\ \A p \in Proc : VerifiedBy(p, o) => taken[o] = 0
  /\ \A p, q \in Proc : VerifiedBy(p, o) /\ VerifiedBy(q, o) => p = q

OnceInv ==
  /\ TypeOK /\ now \in Nat
  /\ taken = [o \in Object |-> taken[o]]
  /\ KeysFit
  /\ \A o \in Object : NonceKept(o) /\ TakenOnce(o)

-----------------------------------------------------------------------------
(* An approval's status and decision go together.                          *)
Ruled(id) ==
  /\ approval[id].status \in A!Decision => approval[id].decision = approval[id].status
  /\ approval[id].status = "pending" => approval[id].decision = "none"

(* The entries of a ruling are about parked approvals, and the first is    *)
(* made with it.                                                           *)
RulingsTell ==
  /\ \A i \in DOMAIN entries : entries[i].kind = "gov_approval" =>
       LET payload == entries[i].payload
       IN  /\ payload.id \in ApprovalId /\ A!Parked(payload.id)
           /\ payload.decision = approval[payload.id].decision
           /\ payload.decision # "none"
  /\ \A id \in ApprovalId : A!Parked(id) =>
       /\ Ruled(id)
       /\ approval[id].decision # "none" =>
            \E i \in DOMAIN entries :
              entries[i].kind = "gov_approval" /\ entries[i].payload.id = id

AuditInv ==
  /\ entries \in Seq({entries[i] : i \in DOMAIN entries})
  /\ \A d \in Did : L!Listed("gov_kill", d) # {} => d \in revoked
  /\ \A d \in Delegated : L!Listed("gov_policy_change", d) # {} =>
       delegations[d].policy = LastEntry(d, "gov_policy_change").payload.after
  /\ RulingsTell

IdentityInv == OnceInv /\ AuditInv

-----------------------------------------------------------------------------
(* The keys that are left are keys.                                        *)
LEMMA KeysWithoutType ==
  ASSUME NEW keys \in Seq(Key), NEW id
  PROVE  KeysWithout(keys, id) \in Seq(Key)
  <1> DEFINE n == Len(keys)
             F == [m \in 1..n |-> [s \in Seq(Key) |->
                     IF keys[m].id = id THEN s ELSE Append(s, keys[m])]]
             Is(g) == g = [m \in 0..n |->
                             IF m = 0 THEN <<>>
                             ELSE IF keys[m].id = id THEN g[m - 1] ELSE Append(g[m - 1], keys[m])]
             kept == CHOOSE g : Is(g)
  <1>1. n \in Nat /\ F \in [1..n -> [Seq(Key) -> Seq(Key)]] /\ <<>> \in Seq(Key)
    OBVIOUS
  <1>2. PICK g \in [0..n -> Seq(Key)] : g[0] = <<>> /\ \A i \in 1..n : g[i] = F[i][g[i - 1]]
    <2> HIDE DEF F, n
    <2>1. \E g : Recursion(g, n, Seq(Key), <<>>, F)
      BY <1>1, RecursionDefines
    <2> QED
      BY <2>1 DEF Recursion
  <1>3. \A m \in 0..n : g[m] = IF m = 0 THEN <<>>
                               ELSE IF keys[m].id = id THEN g[m - 1] ELSE Append(g[m - 1], keys[m])
    <2> SUFFICES ASSUME NEW m \in 1..n
                 PROVE  g[m] = IF keys[m].id = id THEN g[m - 1] ELSE Append(g[m - 1], keys[m])
      <3>1. \A m \in 0..n : m # 0 => m \in 1..n
        BY <1>1
      <3> QED
        BY <1>2, <3>1
    <2>1. g[m - 1] \in Seq(Key)
      <3>1. m - 1 \in 0..n
        BY <1>1
      <3> QED
        BY <1>2, <3>1
    <2>2. F[m][g[m - 1]] =
            IF keys[m].id = id THEN g[m - 1] ELSE Append(g[m - 1], keys[m])
      BY <2>1
    <2> QED
      BY <1>2, <2>2
  <1>4. Is(g)
    BY <1>2, <1>3
  <1>5. Is(kept)
    BY <1>4
  <1> HIDE DEF kept
  <1>6. \A m \in 0..n : kept[m] = g[m]
    <2> DEFINE T == {m \in 0..n : kept[m] # g[m]}
    <2>1. SUFFICES ASSUME T # {} PROVE FALSE
      OBVIOUS
    <2>2. PICK m \in T : \A u \in T : m <= u
      <3>1. T \in SUBSET Nat
        BY <1>1
      <3> HIDE DEF T
      <3> QED
        BY <2>1, <3>1, LeastNat
    <2>3. m \in 0..n /\ kept[m] # g[m] /\ n \in Nat
      BY <1>1
    <2>4. m # 0
      BY <1>4, <1>5, <2>3
    <2>5. kept[m - 1] = g[m - 1]
      BY <2>2, <2>3, <2>4
    <2> QED
      BY <1>4, <1>5, <2>3, <2>4, <2>5
  <1>7. KeysWithout(keys, id) = kept[n]
    BY DEF KeysWithout, kept
  <1> QED
    BY <1>1, <1>2, <1>6, <1>7

-----------------------------------------------------------------------------
(* The mandate.                                                            *)

(* The first answer that is not `allow`.                                   *)
LEMMA FirstOfTwo ==
  ASSUME NEW a, NEW b
  PROVE  FirstOf(<<a, b>>) = IF a # "allow" THEN a ELSE b
  <1> DEFINE answers == <<a, b>>
             others == {i \in DOMAIN answers : answers[i] # "allow"}
  <1>1. others \in SUBSET Nat /\ others \subseteq {1, 2}
    OBVIOUS
  <1>2. others # {} => Min(others) \in others /\ \A m \in others : Min(others) <= m
    <2> HIDE DEF others
    <2> QED
      BY <1>1, MinNat
  <1>3. FirstOf(answers) = IF others = {} THEN "allow" ELSE answers[Min(others)]
    BY DEF FirstOf
  <1> QED
    BY <1>1, <1>2, <1>3

(* The first rule of a list of four that applies, or the default.          *)
LEMMA FirstOfFour ==
  ASSUME NEW a, NEW b, NEW c, NEW d
  PROVE  FirstOf(<<a, b, c, d>>) =
           IF a # "allow" THEN a ELSE IF b # "allow" THEN b ELSE IF c # "allow" THEN c ELSE d
  <1> DEFINE answers == <<a, b, c, d>>
             others == {i \in DOMAIN answers : answers[i] # "allow"}
  <1>1. others \in SUBSET Nat /\ others \subseteq {1, 2, 3, 4}
    OBVIOUS
  <1>2. others # {} => Min(others) \in others /\ \A m \in others : Min(others) <= m
    <2> HIDE DEF others
    <2> QED
      BY <1>1, MinNat
  <1>3. FirstOf(answers) = IF others = {} THEN "allow" ELSE answers[Min(others)]
    BY DEF FirstOf
  <1>4. /\ 1 \in others <=> a # "allow"
        /\ 2 \in others <=> b # "allow"
        /\ 3 \in others <=> c # "allow"
        /\ 4 \in others <=> d # "allow"
        /\ answers[1] = a /\ answers[2] = b /\ answers[3] = c /\ answers[4] = d
    OBVIOUS
  <1> HIDE DEF others, answers
  <1>5. CASE others = {}
    BY <1>3, <1>4, <1>5 DEF answers
  <1>6. CASE others # {}
    <2> DEFINE m == Min(others)
    <2>1. m \in {1, 2, 3, 4} /\ m \in others /\ \A i \in others : m <= i
      BY <1>1, <1>2, <1>6
    <2>2. FirstOf(<<a, b, c, d>>) = answers[m]
      BY <1>3, <1>6 DEF answers
    <2> HIDE DEF m
    <2>3. CASE m = 1
      BY <1>4, <2>1, <2>2, <2>3
    <2>4. CASE m = 2
      <3>1. 1 \notin others
        BY <2>1, <2>4
      <3> QED
        BY <1>4, <2>1, <2>2, <2>4, <3>1
    <2>5. CASE m = 3
      <3>1. 1 \notin others /\ 2 \notin others
        BY <2>1, <2>5
      <3> QED
        BY <1>4, <2>1, <2>2, <2>5, <3>1
    <2>6. CASE m = 4
      <3>1. 1 \notin others /\ 2 \notin others /\ 3 \notin others
        BY <2>1, <2>6
      <3> QED
        BY <1>4, <2>1, <2>2, <2>6, <3>1
    <2> QED
      BY <2>1, <2>3, <2>4, <2>5, <2>6
  <1> QED
    BY <1>5, <1>6

(* The answers to a spend and to an escrow, written out.                   *)
LEMMA SpendAnswers ==
  ASSUME NEW policy, NEW a, NEW u
  PROVE  EvaluateSpend(policy, a, u) =
           IF \/ a.category = None \/ a.amount = None \/ ~Allowed(a.category, policy.categories)
              \/ a.amount.currency # policy.perTx.currency THEN "deny"
           ELSE IF Against(policy.perTx, Nothing(a.amount.currency), a.amount) # "allow"
           THEN Against(policy.perTx, Nothing(a.amount.currency), a.amount)
           ELSE IF Against(policy.daily, u.daily, a.amount) # "allow"
           THEN Against(policy.daily, u.daily, a.amount)
           ELSE IF Against(policy.total, u.total, a.amount) # "allow"
           THEN Against(policy.total, u.total, a.amount)
           ELSE ApprovalTail(a.amount, policy.threshold)
  BY FirstOfFour DEF EvaluateSpend

(* What the evaluation of an escrow funding answers, rule by rule.         *)
LEMMA EscrowAnswers ==
  ASSUME NEW policy, NEW a
  PROVE  EvaluateEscrow(policy, a) =
           IF \/ ~policy.commit \/ a.amount = None
              \/ a.amount.currency # policy.maxEscrow.currency THEN "deny"
           ELSE IF Against(policy.maxEscrow, Nothing(a.amount.currency), a.amount) # "allow"
           THEN Against(policy.maxEscrow, Nothing(a.amount.currency), a.amount)
           ELSE ApprovalTail(a.amount, policy.threshold)
  BY FirstOfTwo DEF EvaluateEscrow

(* A spend is allowed when no rule objects,                                *)
LEMMA SpendAllowed ==
  ASSUME NEW policy, NEW a, NEW u
  PROVE  EvaluateSpend(policy, a, u) = "allow" <=>
           /\ a.category # None /\ a.amount # None /\ Allowed(a.category, policy.categories)
           /\ a.amount.currency = policy.perTx.currency
           /\ Against(policy.perTx, Nothing(a.amount.currency), a.amount) = "allow"
           /\ Against(policy.daily, u.daily, a.amount) = "allow"
           /\ Against(policy.total, u.total, a.amount) = "allow"
           /\ ApprovalTail(a.amount, policy.threshold) = "allow"
  BY SpendAnswers

(* and so is an escrow.                                                    *)
LEMMA EscrowAllowed ==
  ASSUME NEW policy, NEW a
  PROVE  EvaluateEscrow(policy, a) = "allow" <=>
           /\ policy.commit /\ a.amount # None
           /\ a.amount.currency = policy.maxEscrow.currency
           /\ Against(policy.maxEscrow, Nothing(a.amount.currency), a.amount) = "allow"
           /\ ApprovalTail(a.amount, policy.threshold) = "allow"
  BY EscrowAnswers

(* A cap that admits an amount admits a smaller one of the same currency,  *)
(* after less was spent.                                                   *)
LEMMA AgainstLess ==
  ASSUME NEW cap \in Money, NEW m \in Money, NEW n \in Money, NEW s \in Money, NEW t \in Money,
         n.currency = m.currency, n.amount <= m.amount,
         t.currency = s.currency, t.amount <= s.amount,
         Against(cap, s, m) = "allow"
  PROVE  Against(cap, t, n) = "allow"
  BY DEF Against, UsageIn, Money

(* Nothing spent is an amount of the currency, and none above zero.        *)
LEMMA NothingIsMoney ==
  ASSUME NEW m \in Money
  PROVE  Nothing(m.currency) \in Money /\ Nothing(m.currency).amount <= 0
  BY DEF Nothing, Money

(* What needs no approval needs none for less of the same currency.        *)
LEMMA TailLess ==
  ASSUME NEW threshold \in Money, NEW m \in Money, NEW n \in Money,
         n.currency = m.currency, n.amount <= m.amount, ApprovalTail(m, threshold) = "allow"
  PROVE  ApprovalTail(n, threshold) = "allow"
  BY DEF ApprovalTail, Money

(* What differs between an action and one that asks for no more.           *)
LEMMA NoMoreFields ==
  ASSUME NEW a \in PolicyAction, NEW b \in PolicyAction, NoMore(b, a)
  PROVE  /\ b.kind = a.kind /\ b.category = a.category
         /\ b.counterparty = a.counterparty /\ b.subKind = a.subKind
         /\ b.amount = None <=> a.amount = None
         /\ a.amount # None => /\ a.amount \in Money /\ b.amount \in Money
                               /\ b.amount.currency = a.amount.currency
                               /\ b.amount.amount <= a.amount.amount
  <1> DEFINE x == [a EXCEPT !.amount = None]
             y == [b EXCEPT !.amount = None]
  <1>1. y = x
    BY DEF NoMore
  <1>2. /\ x.kind = a.kind /\ x.category = a.category
        /\ x.counterparty = a.counterparty /\ x.subKind = a.subKind
    BY DEF PolicyAction
  <1>3. /\ y.kind = b.kind /\ y.category = b.category
        /\ y.counterparty = b.counterparty /\ y.subKind = b.subKind
    BY DEF PolicyAction
  <1>4. a.amount \in Money \cup {None} /\ b.amount \in Money \cup {None}
    BY DEF PolicyAction
  <1> HIDE DEF x, y
  <1>5. \A m \in Money : m.amount <= m.amount
    BY DEF Money
  <1> QED
    BY <1>1, <1>2, <1>3, <1>4, <1>5 DEF NoMore

(* A ruling lifts the threshold and nothing else.                          *)
LEMMA RulingLiftsThreshold ==
  ASSUME NEW policy \in DelegationPolicy, NEW a \in PolicyAction, NEW u \in SpendUsage,
         Evaluate(policy, a, u) = "needs_approval"
  PROVE  Evaluate(Unbounded(policy, a), a, u) = "allow"
  <1> DEFINE free == Unbounded(policy, a)
  <1>1. /\ free.perTx = policy.perTx /\ free.daily = policy.daily /\ free.total = policy.total
        /\ free.maxEscrow = policy.maxEscrow /\ free.categories = policy.categories
        /\ free.counterparties = policy.counterparties /\ free.commit = policy.commit
        /\ free.threshold = [policy.threshold EXCEPT !.amount = a.amount.amount]
    BY DEF Unbounded, DelegationPolicy
  <1>2. free.threshold.amount = a.amount.amount
    BY <1>1 DEF DelegationPolicy, Money
  <1> HIDE DEF free
  <1>3. a.amount \in Money => ApprovalTail(a.amount, free.threshold) = "allow"
    BY <1>2 DEF ApprovalTail, Money
  <1>4. a.amount \in Money \cup {None}
    BY DEF PolicyAction
  <1>5. \A c, s, m : Against(c, s, m) # "needs_approval"
    BY DEF Against
  <1>6. ~(a.counterparty # None /\ ~Allowed(a.counterparty, policy.counterparties))
    BY DEF Evaluate
  <1>7. CASE a.kind \in {"spend", "tip"}
    <2>1. EvaluateSpend(policy, a, u) = "needs_approval"
      BY <1>6, <1>7 DEF Evaluate
    <2>2. EvaluateSpend(free, a, u) = "allow"
      BY <1>1, <1>3, <1>4, <1>5, <2>1, SpendAnswers
    <2>3. Evaluate(free, a, u) = "allow"
      BY <1>1, <1>6, <1>7, <2>2 DEF Evaluate
    <2> QED
      BY <2>3 DEF free
  <1>8. CASE a.kind = "escrow"
    <2>1. EvaluateEscrow(policy, a) = "needs_approval"
      BY <1>6, <1>8 DEF Evaluate
    <2>2. EvaluateEscrow(free, a) = "allow"
      BY <1>1, <1>3, <1>4, <1>5, <2>1, EscrowAnswers
    <2>3. Evaluate(free, a, u) = "allow"
      BY <1>1, <1>6, <1>8, <2>2 DEF Evaluate
    <2> QED
      BY <2>3 DEF free
  <1>9. CASE a.kind \notin {"spend", "tip", "escrow"}
    BY <1>6, <1>9 DEF Evaluate, EvaluateMessage, EvaluatePost, EvaluateStake
  <1> QED
    BY <1>7, <1>8, <1>9

(* Who asks for less, or has spent less, is not worse off.                 *)
LEMMA LessIsAllowed ==
  ASSUME NEW policy \in DelegationPolicy, NEW a \in PolicyAction, NEW b \in PolicyAction,
         NEW u \in SpendUsage, NEW v \in SpendUsage,
         NoMore(b, a), LessSpent(v, u), Evaluate(policy, a, u) = "allow"
  PROVE  Evaluate(policy, b, v) = "allow"
  <1>1. /\ b.kind = a.kind /\ b.category = a.category
        /\ b.counterparty = a.counterparty /\ b.subKind = a.subKind
        /\ b.amount = None <=> a.amount = None
        /\ a.amount # None => /\ a.amount \in Money /\ b.amount \in Money
                              /\ b.amount.currency = a.amount.currency
                              /\ b.amount.amount <= a.amount.amount
    BY NoMoreFields
  <1>2. /\ u.daily \in Money /\ u.total \in Money /\ v.daily \in Money /\ v.total \in Money
        /\ v.daily.currency = u.daily.currency /\ v.daily.amount <= u.daily.amount
        /\ v.total.currency = u.total.currency /\ v.total.amount <= u.total.amount
    BY DEF LessSpent, SpendUsage
  <1>3. /\ policy.perTx \in Money /\ policy.daily \in Money /\ policy.total \in Money
        /\ policy.threshold \in Money /\ policy.maxEscrow \in Money
    BY DEF DelegationPolicy
  <1>4. ~(a.counterparty # None /\ ~Allowed(a.counterparty, policy.counterparties))
    BY DEF Evaluate
  <1>5. ASSUME a.amount # None
        PROVE  /\ Nothing(b.amount.currency) = Nothing(a.amount.currency)
               /\ Nothing(a.amount.currency) \in Money
               /\ \A m \in Money : m.amount <= m.amount
    BY <1>1, <1>5, NothingIsMoney DEF Money
  <1>6. CASE a.kind \in {"spend", "tip"}
    <2>1. EvaluateSpend(policy, a, u) = "allow"
      BY <1>4, <1>6 DEF Evaluate
    <2>2. /\ a.category # None /\ a.amount # None /\ Allowed(a.category, policy.categories)
          /\ a.amount.currency = policy.perTx.currency
          /\ Against(policy.perTx, Nothing(a.amount.currency), a.amount) = "allow"
          /\ Against(policy.daily, u.daily, a.amount) = "allow"
          /\ Against(policy.total, u.total, a.amount) = "allow"
          /\ ApprovalTail(a.amount, policy.threshold) = "allow"
      BY <2>1, SpendAllowed
    <2>3. Against(policy.perTx, Nothing(b.amount.currency), b.amount) = "allow"
      <3>1. /\ policy.perTx \in Money /\ a.amount \in Money /\ b.amount \in Money
            /\ b.amount.currency = a.amount.currency /\ b.amount.amount <= a.amount.amount
        BY <1>1, <1>3, <2>2
      <3>2. /\ Nothing(b.amount.currency) = Nothing(a.amount.currency)
            /\ Nothing(a.amount.currency) \in Money
            /\ Nothing(a.amount.currency).amount <= Nothing(a.amount.currency).amount
        BY <1>5, <2>2
      <3>3. Against(policy.perTx, Nothing(a.amount.currency), b.amount) = "allow"
        BY <2>2, <3>1, <3>2, AgainstLess
      <3> QED
        BY <3>2, <3>3
    <2>4. Against(policy.daily, v.daily, b.amount) = "allow"
      <3>1. /\ policy.daily \in Money /\ a.amount \in Money /\ b.amount \in Money
            /\ u.daily \in Money /\ v.daily \in Money
            /\ b.amount.currency = a.amount.currency /\ b.amount.amount <= a.amount.amount
            /\ v.daily.currency = u.daily.currency /\ v.daily.amount <= u.daily.amount
            /\ Against(policy.daily, u.daily, a.amount) = "allow"
        BY <1>1, <1>2, <1>3, <2>2
      <3> DEFINE cap == policy.daily
                 m == a.amount
                 n == b.amount
                 s == u.daily
                 t == v.daily
      <3>2. /\ cap \in Money /\ m \in Money /\ n \in Money /\ s \in Money /\ t \in Money
            /\ n.currency = m.currency /\ n.amount <= m.amount
            /\ t.currency = s.currency /\ t.amount <= s.amount
            /\ Against(cap, s, m) = "allow"
        BY <3>1
      <3> HIDE DEF cap, m, n, s, t
      <3>3. Against(cap, t, n) = "allow"
        BY <3>2, AgainstLess
      <3> QED
        BY <3>3 DEF cap, n, t
    <2>5. Against(policy.total, v.total, b.amount) = "allow"
      <3>1. /\ policy.total \in Money /\ a.amount \in Money /\ b.amount \in Money
            /\ u.total \in Money /\ v.total \in Money
            /\ b.amount.currency = a.amount.currency /\ b.amount.amount <= a.amount.amount
            /\ v.total.currency = u.total.currency /\ v.total.amount <= u.total.amount
            /\ Against(policy.total, u.total, a.amount) = "allow"
        BY <1>1, <1>2, <1>3, <2>2
      <3> DEFINE cap == policy.total
                 m == a.amount
                 n == b.amount
                 s == u.total
                 t == v.total
      <3>2. /\ cap \in Money /\ m \in Money /\ n \in Money /\ s \in Money /\ t \in Money
            /\ n.currency = m.currency /\ n.amount <= m.amount
            /\ t.currency = s.currency /\ t.amount <= s.amount
            /\ Against(cap, s, m) = "allow"
        BY <3>1
      <3> HIDE DEF cap, m, n, s, t
      <3>3. Against(cap, t, n) = "allow"
        BY <3>2, AgainstLess
      <3> QED
        BY <3>3 DEF cap, n, t
    <2>6. ApprovalTail(b.amount, policy.threshold) = "allow"
      BY <1>1, <1>3, <2>2, TailLess
    <2>7. EvaluateSpend(policy, b, v) = "allow"
      BY <1>1, <2>2, <2>3, <2>4, <2>5, <2>6, SpendAllowed
    <2> QED
      BY <1>1, <1>4, <1>6, <2>7 DEF Evaluate
  <1>7. CASE a.kind = "escrow"
    <2>1. EvaluateEscrow(policy, a) = "allow"
      BY <1>4, <1>7 DEF Evaluate
    <2>2. /\ policy.commit /\ a.amount # None
          /\ a.amount.currency = policy.maxEscrow.currency
          /\ Against(policy.maxEscrow, Nothing(a.amount.currency), a.amount) = "allow"
          /\ ApprovalTail(a.amount, policy.threshold) = "allow"
      BY <2>1, EscrowAllowed
    <2>3. Against(policy.maxEscrow, Nothing(b.amount.currency), b.amount) = "allow"
      <3>1. /\ policy.maxEscrow \in Money /\ a.amount \in Money /\ b.amount \in Money
            /\ b.amount.currency = a.amount.currency /\ b.amount.amount <= a.amount.amount
        BY <1>1, <1>3, <2>2
      <3>2. /\ Nothing(b.amount.currency) = Nothing(a.amount.currency)
            /\ Nothing(a.amount.currency) \in Money
            /\ Nothing(a.amount.currency).amount <= Nothing(a.amount.currency).amount
        BY <1>5, <2>2
      <3>3. Against(policy.maxEscrow, Nothing(a.amount.currency), b.amount) = "allow"
        BY <2>2, <3>1, <3>2, AgainstLess
      <3> QED
        BY <3>2, <3>3
    <2>4. ApprovalTail(b.amount, policy.threshold) = "allow"
      BY <1>1, <1>3, <2>2, TailLess
    <2>5. EvaluateEscrow(policy, b) = "allow"
      BY <1>1, <2>2, <2>3, <2>4, EscrowAllowed
    <2> QED
      BY <1>1, <1>4, <1>7, <2>5 DEF Evaluate
  <1>8. CASE a.kind \notin {"spend", "tip", "escrow"}
    BY <1>1, <1>4, <1>8 DEF Evaluate, EvaluatePost
  <1> QED
    BY <1>6, <1>7, <1>8

(* One more pattern that denies changes an answer to a denial or not.      *)
LEMMA DenialOnlyDenies ==
  ASSUME NEW policy \in DelegationPolicy, NEW a \in PolicyAction, NEW u \in SpendUsage, NEW pattern
  PROVE  Evaluate([policy EXCEPT !.counterparties.deny = @ \cup {pattern}], a, u)
           \in {Evaluate(policy, a, u), "deny"}
  <1> DEFINE strict == [policy EXCEPT !.counterparties.deny = @ \cup {pattern}]
  <1>1. /\ strict.perTx = policy.perTx /\ strict.daily = policy.daily /\ strict.total = policy.total
        /\ strict.maxEscrow = policy.maxEscrow /\ strict.categories = policy.categories
        /\ strict.commit = policy.commit /\ strict.threshold = policy.threshold
        /\ strict.send = policy.send /\ strict.offers = policy.offers /\ strict.rfps = policy.rfps
        /\ strict.stake = policy.stake
    BY DEF DelegationPolicy
  <1>2. /\ strict.counterparties.allow = policy.counterparties.allow
        /\ strict.counterparties.deny = policy.counterparties.deny \cup {pattern}
    BY DEF DelegationPolicy
  <1> HIDE DEF strict
  <1>3. \A id : Allowed(id, strict.counterparties) => Allowed(id, policy.counterparties)
    BY <1>2 DEF Allowed
  <1>4. EvaluateSpend(strict, a, u) = EvaluateSpend(policy, a, u)
    BY <1>1 DEF EvaluateSpend
  <1>5. EvaluateEscrow(strict, a) = EvaluateEscrow(policy, a)
    BY <1>1 DEF EvaluateEscrow
  <1>6. /\ EvaluateMessage(strict) = EvaluateMessage(policy)
        /\ EvaluatePost(strict, a) = EvaluatePost(policy, a)
        /\ EvaluateStake(strict) = EvaluateStake(policy)
    BY <1>1 DEF EvaluateMessage, EvaluatePost, EvaluateStake
  <1>7. Evaluate(strict, a, u) \in {Evaluate(policy, a, u), "deny"}
    BY <1>3, <1>4, <1>5, <1>6 DEF Evaluate
  <1> QED
    BY <1>7 DEF strict

(* The policies of the code are sound.                                     *)
LEMMA PoliciesAreSound == Policies \subseteq SoundPolicies
  <1> SUFFICES ASSUME NEW policy \in Policies, NEW a \in Action, NEW u \in Usage
               PROVE  /\ Evaluate(policy, a, u) = "needs_approval" =>
                           Evaluate(Unbounded(policy, a), a, u) = "allow"
                      /\ Evaluate(policy, a, u) = "allow" => \A b \in Action, v \in Usage :
                           NoMore(b, a) /\ LessSpent(v, u) => Evaluate(policy, b, v) = "allow"
                      /\ \A pattern \in Patterns :
                           Evaluate([policy EXCEPT !.counterparties.deny = @ \cup {pattern}], a, u)
                             \in {Evaluate(policy, a, u), "deny"}
    BY DEF SoundPolicies
  <1>1. policy \in DelegationPolicy /\ a \in PolicyAction /\ u \in SpendUsage
    BY IdentityAssumption
  <1>2. Action \subseteq PolicyAction /\ Usage \subseteq SpendUsage
    BY IdentityAssumption
  <1>3. Evaluate(policy, a, u) = "needs_approval" => Evaluate(Unbounded(policy, a), a, u) = "allow"
    BY <1>1, RulingLiftsThreshold
  <1>4. ASSUME Evaluate(policy, a, u) = "allow", NEW b \in Action, NEW v \in Usage,
               NoMore(b, a), LessSpent(v, u)
        PROVE  Evaluate(policy, b, v) = "allow"
    BY <1>1, <1>2, <1>4, LessIsAllowed
  <1>5. \A pattern \in Patterns :
          Evaluate([policy EXCEPT !.counterparties.deny = @ \cup {pattern}], a, u)
            \in {Evaluate(policy, a, u), "deny"}
    BY <1>1, DenialOnlyDenies
  <1> QED
    BY <1>3, <1>4, <1>5

-----------------------------------------------------------------------------
(* Signed objects.                                                         *)

(* An object is one of the three bodies, told apart by its kind.           *)
LEMMA ObjectFits ==
  ASSUME NEW o \in Object
  PROVE  /\ o.did \in Did /\ o.by \in Pub /\ o.nonce \in Nonce /\ o.iat \in Nat /\ o.exp \in Nat
         /\ o.kind \in {"register", "rotate", "revoke"}
         /\ o.kind = "register" => /\ o.controller \in Did /\ o.keys \in Seq(Key) /\ o.keys # <<>>
         /\ o.kind = "rotate" => o.new \in Key /\ o.deprecate \in KeyId
  <1>1. o \in Registration \cup Rotation \cup Revocation
    BY IdentityAssumption
  <1>2. CASE o \in Registration
    BY <1>2 DEF Registration
  <1>3. CASE o \in Rotation
    BY <1>3 DEF Rotation
  <1>4. CASE o \in Revocation
    BY <1>4 DEF Revocation
  <1> QED
    BY <1>1, <1>2, <1>3, <1>4

(* What a call in progress carries.                                        *)
LEMMA JobFits ==
  ASSUME TypeOK, NEW p \in Proc
  PROVE  /\ In(p, "verify") => job[p] \in Verifying /\ Busy(p)
         /\ In(p, "sign") => job[p] \in Signing /\ Busy(p)
  <1>1. job[p] \in {Idle} \cup Verifying \cup Signing
    BY DEF TypeOK
  <1> QED
    BY <1>1 DEF In, Busy, Idle, Verifying, Signing

(* What a key of a passport is.                                            *)
LEMMA KeyForType ==
  ASSUME OnceInv, NEW d \in Did
  PROVE  KeyFor(d) \in Pub \cup {None}
  <1>1. CASE Known(d)
    <2>1. passports[d].keys \in Seq(Key) /\ passports[d].keys # <<>>
      BY <1>1 DEF OnceInv, KeysFit, Passport
    <2>2. passports[d].keys[1] \in Key
      BY <2>1
    <2> QED
      BY <1>1, <2>2 DEF KeyFor, Key
  <1>2. CASE ~Known(d)
    BY <1>2 DEF KeyFor
  <1> QED
    BY <1>1, <1>2

(* An object is verified with a public key, or none is known.              *)
LEMMA VerifyingKeyType ==
  ASSUME OnceInv, NEW o \in Object, Registrable(o) \/ Rotatable(o) \/ Revocable(o)
  PROVE  VerifyingKey(o) \in Pub \cup {None}
  <1>1. CASE SelfSigned(o)
    <2>1. o.keys \in Seq(Key) /\ o.keys # <<>>
      BY <1>1, ObjectFits DEF SelfSigned
    <2>2. o.keys[1] \in Key
      BY <2>1
    <2> QED
      BY <1>1, <2>2 DEF VerifyingKey, Key
  <1>2. CASE ~SelfSigned(o)
    <2>1. Signer(o) \in Did
      <3>1. CASE o.kind = "register"
        BY <3>1, ObjectFits DEF Signer
      <3>2. CASE o.kind # "register"
        <4>1. Known(o.did)
          BY <3>2 DEF Registrable, Rotatable, Revocable
        <4>2. passports[o.did] \in Passport
          BY <4>1, ObjectFits DEF OnceInv, KeysFit
        <4> QED
          BY <3>2, <4>2 DEF Signer, Passport
      <3> QED
        BY <3>1, <3>2
    <2> QED
      BY <1>2, <2>1, KeyForType DEF VerifyingKey
  <1> QED
    BY <1>1, <1>2

(* Steps that leave the passports, the nonces, the jobs and what was taken.*)
LEMMA OnceSame ==
  ASSUME OnceInv, TypeOK', UNCHANGED <<passports, seen, job, now, taken>>
  PROVE  OnceInv'
  <1>1. KeysFit'
    BY DEF OnceInv, KeysFit, Known, In
  <1>2. \A o \in Object : NonceKept(o)' /\ TakenOnce(o)'
    BY DEF OnceInv, NonceKept, TakenOnce, VerifiedBy, In
  <1> QED
    BY <1>1, <1>2 DEF OnceInv

(* A step of one call that verifies nothing new and lets no object take    *)
(* effect.                                                                 *)
LEMMA OnceQuiet ==
  ASSUME OnceInv, TypeOK', UNCHANGED <<passports, seen, now, taken>>, NEW p \in Proc,
         \A q \in Proc \ {p} : job'[q] = job[q], job'[p].phase # "verify"
  PROVE  OnceInv'
  <1>1. \A q \in Proc, o \in Object : VerifiedBy(q, o)' => VerifiedBy(q, o)
    BY DEF VerifiedBy, In
  <1>2. KeysFit'
    BY DEF OnceInv, KeysFit, Known, In
  <1>3. \A o \in Object : NonceKept(o)' /\ TakenOnce(o)'
    BY <1>1 DEF OnceInv, NonceKept, TakenOnce
  <1> QED
    BY <1>2, <1>3 DEF OnceInv

(* A call that starts to verify an object accepts nothing yet.             *)
LEMMA ReceiveOnce ==
  ASSUME OnceInv, NEW p \in Proc, NEW o \in Object, Receive(p, o)
  PROVE  OnceInv'
  <1>1. /\ ~Busy(p) /\ (Registrable(o) \/ Rotatable(o) \/ Revocable(o))
        /\ UNCHANGED <<idVars, entries, approval, now, taken>> /\ Verify(p, o)
    BY DEF Receive
  <1>2. o.nonce \in Nonce /\ o.exp \in Nat /\ o.did \in Did /\ now \in Nat /\ TypeOK
    BY ObjectFits DEF OnceInv
  <1>3. Pruned \in [Nonce -> Nat]
    BY DEF Pruned, OnceInv, TypeOK
  <1>4. ASSUME NEW x \in Object, taken[x] > 0 \/ \E q \in Proc : VerifiedBy(q, x)
        PROVE  x.exp <= now \/ Pruned[x.nonce] = x.exp
    <2>1. x.exp <= now \/ seen[x.nonce] = x.exp
      BY <1>4 DEF OnceInv, NonceKept
    <2>2. x.exp \in Nat /\ x.nonce \in Nonce
      BY ObjectFits
    <2> QED
      BY <1>2, <2>1, <2>2 DEF Pruned
  <1>5. /\ passports' = passports /\ delegations' = delegations /\ revoked' = revoked
        /\ approval' = approval /\ now' = now /\ taken' = taken
    BY <1>1 DEF idVars
  <1>6. CASE ~FreshNonce(o)
    <2>1. seen' = Pruned /\ job' = job
      BY <1>1, <1>6 DEF Verify
    <2>2. TypeOK'
      BY <1>2, <1>3, <1>5, <2>1 DEF TypeOK, A!TypeOK
    <2>3. \A q \in Proc, x \in Object : VerifiedBy(q, x)' <=> VerifiedBy(q, x)
      BY <2>1 DEF VerifiedBy, In
    <2>4. KeysFit'
      BY <1>5, <2>1 DEF OnceInv, KeysFit, Known, In
    <2>5. \A x \in Object : NonceKept(x)'
      BY <1>4, <1>5, <2>1, <2>3 DEF NonceKept
    <2>6. \A x \in Object : TakenOnce(x)'
      BY <1>5, <2>3 DEF OnceInv, TakenOnce
    <2> QED
      BY <1>5, <2>2, <2>4, <2>5, <2>6 DEF OnceInv
  <1>7. CASE FreshNonce(o)
    <2>1. o.exp > now /\ Pruned[o.nonce] = 0 /\ seen' = [Pruned EXCEPT ![o.nonce] = o.exp]
      BY <1>1, <1>7 DEF Verify, FreshNonce
    <2> DEFINE row == [phase |-> "verify", object |-> o, key |-> VerifyingKey(o),
                       passport |-> passports[o.did]]
    <2>2. \/ job' = job
          \/ job' = [job EXCEPT ![p] = row] /\ VerifyingKey(o) # None
      BY <1>1, <1>7 DEF Verify
    <2>3. VerifyingKey(o) # None => row \in Verifying
      <3>1. VerifyingKey(o) \in Pub \cup {None} /\ passports[o.did] \in Passport \cup {None}
        BY <1>1, <1>2, VerifyingKeyType DEF TypeOK
      <3> QED
        BY <3>1 DEF Verifying
    <2>4. seen' \in [Nonce -> Nat]
      BY <1>2, <1>3, <2>1
    <2>5. job' \in [Proc -> {Idle} \cup Verifying \cup Signing]
      BY <1>2, <2>2, <2>3 DEF TypeOK
    <2>6. TypeOK'
      BY <1>2, <1>5, <2>4, <2>5 DEF TypeOK, A!TypeOK
    <2>7. \A q \in Proc, x \in Object : VerifiedBy(q, x)' => VerifiedBy(q, x) \/ (q = p /\ x = o)
      BY <1>2, <2>2 DEF VerifiedBy, In, TypeOK
    <2>8. ~(taken[o] > 0) /\ \A q \in Proc : ~VerifiedBy(q, o)
      <3> SUFFICES ASSUME taken[o] > 0 \/ \E q \in Proc : VerifiedBy(q, o) PROVE FALSE
        OBVIOUS
      <3>1. o.exp <= now \/ Pruned[o.nonce] = o.exp
        BY <1>4
      <3> QED
        BY <1>2, <2>1, <3>1
    <2>9. KeysFit'
      <3>1. \A d \in Did : (Known(d) => passports[d] \in Passport /\ passports[d].keys # <<>>)'
        BY <1>5 DEF OnceInv, KeysFit, Known
      <3>2. ASSUME NEW q \in Proc, In(q, "verify")', (job[q].object.kind = "rotate")'
            PROVE  job'[q].passport # None
        <4>1. CASE job'[q] = job[q]
          BY <3>2, <4>1 DEF OnceInv, KeysFit, In
        <4>2. CASE job'[q] # job[q]
          <5>1. job'[q] = row
            BY <1>2, <2>2, <4>2 DEF TypeOK
          <5>2. o.kind = "rotate"
            BY <3>2, <5>1
          <5>3. Known(o.did)
            BY <1>1, <5>2 DEF Registrable, Rotatable, Revocable
          <5> QED
            BY <5>1, <5>3 DEF Known
        <4> QED
          BY <4>1, <4>2
      <3> QED
        BY <3>1, <3>2 DEF KeysFit
    <2>10. ASSUME NEW x \in Object PROVE NonceKept(x)'
      <3>1. CASE x = o
        BY <1>2, <1>3, <2>1, <3>1 DEF NonceKept
      <3>2. CASE x # o
        <4> SUFFICES ASSUME taken[x] > 0 \/ \E q \in Proc : VerifiedBy(q, x)
                     PROVE  x.exp <= now \/ seen'[x.nonce] = x.exp
          BY <1>5, <2>7, <3>2 DEF NonceKept
        <4>1. x.exp <= now \/ Pruned[x.nonce] = x.exp
          BY <1>4
        <4>2. x.exp \in Nat /\ x.nonce \in Nonce
          BY ObjectFits
        <4>3. x.exp <= now \/ x.nonce # o.nonce
          BY <1>2, <2>1, <4>1, <4>2
        <4> QED
          BY <1>3, <2>1, <4>1, <4>2, <4>3
      <3> QED
        BY <3>1, <3>2
    <2>11. ASSUME NEW x \in Object PROVE TakenOnce(x)'
      <3>1. TakenOnce(x)
        BY DEF OnceInv
      <3>2. CASE x = o
        BY <1>5, <2>7, <2>8, <3>1, <3>2 DEF TakenOnce
      <3>3. CASE x # o
        BY <1>5, <2>7, <3>1, <3>3 DEF TakenOnce
      <3> QED
        BY <3>2, <3>3
    <2> QED
      BY <1>5, <2>6, <2>9, <2>10, <2>11 DEF OnceInv
  <1> QED
    BY <1>6, <1>7

(* A call that refuses its object accepts nothing.                         *)
LEMMA RejectOnce ==
  ASSUME OnceInv, NEW p \in Proc, Reject(p)
  PROVE  OnceInv'
  <1>1. /\ UNCHANGED <<passports, delegations, revoked, approval, seen, now, taken>>
        /\ job' = [job EXCEPT ![p] = Idle]
    BY DEF Reject, Finish, idVars
  <1>2. TypeOK /\ job'[p] = Idle /\ \A q \in Proc \ {p} : job'[q] = job[q]
    BY <1>1 DEF OnceInv, TypeOK
  <1>3. TypeOK'
    BY <1>1, <1>2 DEF TypeOK, A!TypeOK
  <1>4. Idle.phase # "verify"
    BY DEF Idle
  <1> QED
    BY <1>1, <1>2, <1>3, <1>4, OnceQuiet

(* What a body that is accepted makes of the passports.                    *)
LEMMA RotatedType ==
  ASSUME NEW passport \in Passport, NEW o \in Object, o.kind = "rotate"
  PROVE  Rotated(passport, o) \in Passport /\ Rotated(passport, o).keys # <<>>
  <1>1. o.new \in Key /\ passport.keys \in Seq(Key)
    BY ObjectFits DEF Passport
  <1>2. KeysWithout(passport.keys, o.deprecate) \in Seq(Key)
    BY <1>1, KeysWithoutType
  <1> DEFINE kept == KeysWithout(passport.keys, o.deprecate)
  <1>3. Append(kept, o.new) \in Seq(Key) /\ Append(kept, o.new) # <<>>
    <2> HIDE DEF kept
    <2>1. kept \in Seq(Key)
      BY <1>2 DEF kept
    <2>2. Len(Append(kept, o.new)) = Len(kept) + 1 /\ Append(kept, o.new) \in Seq(Key)
      BY <1>1, <2>1
    <2> QED
      BY <2>1, <2>2
  <1>4. Rotated(passport, o) = [passport EXCEPT !.keys = Append(kept, o.new)]
    BY DEF Rotated
  <1> HIDE DEF kept
  <1> QED
    BY <1>3, <1>4 DEF Passport

(* A call that accepts its object is the first to.                         *)
LEMMA AcceptOnce ==
  ASSUME OnceInv, NEW p \in Proc, Accept(p)
  PROVE  OnceInv'
  <1> DEFINE o == job[p].object
  <1>1. /\ In(p, "verify") /\ UNCHANGED <<seen, approval, now>>
        /\ job' = [job EXCEPT ![p] = Idle] /\ taken' = [taken EXCEPT ![o] = @ + 1]
        /\ CASE o.kind = "register" -> Put(o.did, [controller |-> o.controller, keys |-> o.keys])
             [] o.kind = "rotate" -> Put(o.did, Rotated(job[p].passport, o))
             [] o.kind = "revoke" -> Revoke(o.did)
    BY DEF Accept, Finish
  <1>2. TypeOK /\ o \in Object /\ job[p].passport \in Passport \cup {None}
    BY <1>1, JobFits DEF OnceInv, Verifying
  <1>3. /\ o.did \in Did /\ o.kind \in {"register", "rotate", "revoke"}
        /\ o.kind = "register" => o.controller \in Did /\ o.keys \in Seq(Key) /\ o.keys # <<>>
    BY <1>2, ObjectFits
  <1>4. o.kind = "rotate" => job[p].passport \in Passport
    BY <1>1, <1>2 DEF OnceInv, KeysFit
  <1>5. VerifiedBy(p, o)
    BY <1>1 DEF VerifiedBy
  <1>6. job'[p] = Idle /\ \A q \in Proc \ {p} : job'[q] = job[q]
    BY <1>1, <1>2 DEF TypeOK
  <1>7. \A q \in Proc, x \in Object : VerifiedBy(q, x)' => VerifiedBy(q, x) /\ q # p
    BY <1>6 DEF VerifiedBy, In, Idle
  <1>8. /\ \A d \in Did : \/ passports'[d] = passports[d]
                          \/ passports'[d] \in Passport /\ passports'[d].keys # <<>>
        /\ passports' \in [Did -> Passport \cup {None}]
        /\ delegations' = delegations /\ revoked' \subseteq Did
    <2>1. CASE o.kind = "register"
      <3> DEFINE row == [controller |-> o.controller, keys |-> o.keys]
      <3>1. row \in Passport /\ row.keys # <<>>
        BY <1>3, <2>1 DEF Passport
      <3>2. passports' = [passports EXCEPT ![o.did] = row] /\ UNCHANGED <<delegations, revoked>>
        BY <1>1, <2>1 DEF Put
      <3> HIDE DEF row, o
      <3> QED
        BY <1>2, <1>3, <3>1, <3>2 DEF TypeOK
    <2>2. CASE o.kind = "rotate"
      <3> DEFINE row == Rotated(job[p].passport, o)
      <3>1. row \in Passport /\ row.keys # <<>>
        BY <1>2, <1>4, <2>2, RotatedType
      <3>2. passports' = [passports EXCEPT ![o.did] = row] /\ UNCHANGED <<delegations, revoked>>
        BY <1>1, <2>2 DEF Put
      <3> HIDE DEF row, o
      <3> QED
        BY <1>2, <1>3, <3>1, <3>2 DEF TypeOK
    <2>3. CASE o.kind = "revoke"
      <3>1. revoked' = revoked \cup {o.did} /\ UNCHANGED <<passports, delegations>>
        BY <1>1, <2>3 DEF Revoke
      <3> QED
        BY <1>2, <1>3, <3>1 DEF TypeOK
    <2> QED
      BY <1>3, <2>1, <2>2, <2>3
  <1> HIDE DEF o
  <1>9. TypeOK'
    <2>1. job' \in [Proc -> {Idle} \cup Verifying \cup Signing]
      BY <1>1, <1>2 DEF TypeOK
    <2> QED
      BY <1>1, <1>2, <1>8, <2>1 DEF TypeOK, A!TypeOK
  <1>10. KeysFit'
    <2>1. ASSUME NEW d \in Did, Known(d)' PROVE passports'[d] \in Passport /\ passports'[d].keys # <<>>
      <3>1. CASE passports'[d] = passports[d]
        BY <2>1, <3>1 DEF OnceInv, KeysFit, Known
      <3> QED
        BY <1>8, <3>1
    <2>2. ASSUME NEW q \in Proc, In(q, "verify")', (job[q].object.kind = "rotate")'
          PROVE  job'[q].passport # None
      <3>1. q # p
        BY <1>6, <2>2 DEF In, Idle
      <3> QED
        BY <1>6, <2>2, <3>1 DEF OnceInv, KeysFit, In
    <2> QED
      BY <2>1, <2>2 DEF KeysFit
  <1>11. ASSUME NEW x \in Object PROVE NonceKept(x)' /\ TakenOnce(x)'
    <2>1. NonceKept(x) /\ TakenOnce(x) /\ TakenOnce(o) /\ taken = [y \in Object |-> taken[y]]
      BY <1>2 DEF OnceInv
    <2>2. taken'[o] = taken[o] + 1 /\ (x # o => taken'[x] = taken[x])
      BY <1>1, <1>2, <2>1
    <2>3. taken[o] = 0
      BY <1>5, <2>1 DEF TakenOnce
    <2>4. CASE x = o
      <3>1. \A q \in Proc : ~VerifiedBy(q, x)'
        BY <1>5, <1>7, <2>1, <2>4 DEF TakenOnce
      <3>2. o.exp <= now \/ seen[o.nonce] = o.exp
        BY <1>5, <2>1, <2>4 DEF NonceKept
      <3>3. TakenOnce(x)'
        BY <2>2, <2>3, <2>4, <3>1 DEF TakenOnce
      <3>4. NonceKept(x)'
        BY <1>1, <2>4, <3>2 DEF NonceKept
      <3> QED
        BY <3>3, <3>4
    <2>5. CASE x # o
      <3>1. TakenOnce(x)'
        BY <1>7, <2>1, <2>2, <2>5 DEF TakenOnce
      <3>2. NonceKept(x)'
        BY <1>1, <1>7, <2>1, <2>2, <2>5 DEF NonceKept
      <3> QED
        BY <3>1, <3>2
    <2> QED
      BY <2>4, <2>5
  <1>12. taken' = [x \in Object |-> taken'[x]] /\ now' \in Nat
    BY <1>1 DEF OnceInv
  <1> QED
    BY <1>9, <1>10, <1>11, <1>12 DEF OnceInv

(* The governance plane touches no object.                                 *)
LEMMA CredentialStays ==
  ASSUME OnceInv, NEW d \in Did, delegations[d] # None, NEW policy \in Policies
  PROVE  Reissued(d, policy) \in Credential /\ PolicyBefore(d) \in Policies \cup {None}
  <1>1. delegations[d] \in Credential /\ now \in Nat
    BY DEF OnceInv, TypeOK
  <1>2. IssuerSigns(d) \in BOOLEAN
    BY DEF IssuerSigns
  <1>3. Reissued(d, policy) \in Credential
    BY <1>1, <1>2 DEF Reissued, Credential
  <1> QED
    BY <1>1, <1>3 DEF PolicyBefore, Credential

(* An owner's change of policy accepts no object.                          *)
LEMMA UpdateOnce ==
  ASSUME OnceInv, NEW p \in Proc, NEW d \in Delegated, NEW policy \in Policies,
         UpdatePolicy(p, d, policy)
  PROVE  OnceInv'
  <1>1. d \in Did /\ delegations[d] # None /\ TypeOK
    BY DEF Delegated, OnceInv
  <1>2. Reissued(d, policy) \in Credential /\ PolicyBefore(d) \in Policies \cup {None}
    BY <1>1, CredentialStays
  <1>3. UNCHANGED <<passports, revoked, seen, approval, now, taken>>
    BY DEF UpdatePolicy, Reissue, idVars
  <1>4. CASE IssuerSigns(d)
    <2> DEFINE row == [phase |-> "sign", did |-> d, before |-> PolicyBefore(d),
                       credential |-> Reissued(d, policy)]
    <2>1. job' = [job EXCEPT ![p] = row] /\ UNCHANGED delegations
      BY <1>4 DEF UpdatePolicy, idVars
    <2>2. row \in Signing /\ row.phase # "verify"
      BY <1>1, <1>2 DEF Signing
    <2> HIDE DEF row
    <2>3. TypeOK' /\ job'[p] = row /\ \A q \in Proc \ {p} : job'[q] = job[q]
      BY <1>1, <1>3, <2>1, <2>2 DEF TypeOK, A!TypeOK
    <2> QED
      BY <1>3, <2>2, <2>3, OnceQuiet
  <1>5. CASE ~IssuerSigns(d)
    <2>1. job' = job /\ delegations' = [delegations EXCEPT ![d] = Reissued(d, policy)]
      BY <1>5 DEF UpdatePolicy, Reissue
    <2>2. TypeOK'
      BY <1>1, <1>2, <1>3, <2>1 DEF TypeOK, A!TypeOK
    <2> QED
      BY <1>3, <2>1, <2>2, OnceSame
  <1> QED
    BY <1>4, <1>5

(* Nor does the end of an update whose signature was awaited.              *)
LEMMA FinishUpdateOnce ==
  ASSUME OnceInv, NEW p \in Proc, FinishUpdate(p)
  PROVE  OnceInv'
  <1>1. /\ UNCHANGED <<passports, revoked, seen, approval, now, taken>>
        /\ In(p, "sign") /\ job' = [job EXCEPT ![p] = Idle]
        /\ delegations' = [delegations EXCEPT ![job[p].did] = job[p].credential]
    BY DEF FinishUpdate, Reissue, Finish
  <1>2. TypeOK /\ job[p].did \in Did /\ job[p].credential \in Credential
    BY <1>1, JobFits DEF OnceInv, Signing
  <1>3. TypeOK' /\ job'[p] = Idle /\ \A q \in Proc \ {p} : job'[q] = job[q]
    BY <1>1, <1>2 DEF TypeOK, A!TypeOK
  <1>4. Idle.phase # "verify"
    BY DEF Idle
  <1> QED
    BY <1>1, <1>3, <1>4, OnceQuiet

(* Nor does the kill switch.                                               *)
LEMMA KillOnce ==
  ASSUME OnceInv, NEW d \in Did, Kill(d)
  PROVE  OnceInv'
  <1>1. /\ UNCHANGED <<passports, delegations, seen, approval, job, now, taken>>
        /\ revoked' = revoked \cup {d}
    BY DEF Kill, Revoke
  <1>2. TypeOK'
    BY <1>1 DEF OnceInv, TypeOK, A!TypeOK
  <1> QED
    BY <1>1, <1>2, OnceSame

(* Nor does a decision on an approval.                                     *)
LEMMA ApprovalOnce ==
  ASSUME OnceInv, A!TypeOK', UNCHANGED <<idVars, seen, job, now, taken>>
  PROVE  OnceInv'
  <1>1. TypeOK'
    BY DEF OnceInv, TypeOK, idVars
  <1> QED
    BY <1>1, OnceSame DEF idVars

(* Nor does the passing of time.                                           *)
LEMMA TickOnce ==
  ASSUME OnceInv, Tick
  PROVE  OnceInv'
  <1>1. /\ UNCHANGED <<passports, delegations, revoked, seen, entries, approval, job, taken>>
        /\ now' = now + 1 /\ now \in Nat /\ TypeOK
    BY DEF Tick, idVars, OnceInv
  <1>2. TypeOK'
    BY <1>1 DEF TypeOK, A!TypeOK
  <1>3. KeysFit'
    BY <1>1 DEF OnceInv, KeysFit, Known, In
  <1>4. ASSUME NEW o \in Object PROVE NonceKept(o)' /\ TakenOnce(o)'
    <2>1. o.exp \in Nat /\ o.nonce \in Nonce
      BY ObjectFits
    <2>2. NonceKept(o)'
      BY <1>1, <2>1 DEF OnceInv, NonceKept, VerifiedBy, In
    <2>3. TakenOnce(o)'
      BY <1>1 DEF OnceInv, TakenOnce, VerifiedBy, In
    <2> QED
      BY <2>2, <2>3
  <1> QED
    BY <1>1, <1>2, <1>3, <1>4 DEF OnceInv

-----------------------------------------------------------------------------
(* The audit trail.                                                        *)

(* What one more entry is, and which lists it joins.                       *)
IsLogged(kind, d, payload) ==
  LET n == Len(entries)
  IN  /\ n \in Nat /\ DOMAIN entries = 1..n /\ DOMAIN entries' = 1..(n + 1)
      /\ \A i \in 1..n : entries'[i] = entries[i]
      /\ entries'[n + 1].kind = kind /\ entries'[n + 1].subject = d
      /\ entries'[n + 1].payload = payload
      /\ entries' \in Seq({entries'[i] : i \in DOMAIN entries'})

(* What has been appended is in the log.                                   *)
LEMMA Logged ==
  ASSUME AuditInv, NEW kind \in AuditKind, NEW d \in Did, NEW payload,
         entries' = L!Appended(kind, d, payload)
  PROVE  IsLogged(kind, d, payload)
  <1> DEFINE X == {entries[i] : i \in DOMAIN entries}
             e == L!Entry(kind, d, payload)
             n == Len(entries)
  <1>1. entries \in Seq(X) /\ entries' = Append(entries, e)
    BY DEF AuditInv, L!Appended
  <1>2. e.kind = kind /\ e.subject = d /\ e.payload = payload
    BY DEF L!Entry
  <1> HIDE DEF X, e
  <1>3. /\ n \in Nat /\ DOMAIN entries = 1..n /\ DOMAIN entries' = 1..(n + 1)
        /\ \A i \in 1..n : entries'[i] = entries[i]
        /\ entries'[n + 1] = e /\ Len(entries') = n + 1
    BY <1>1
  <1>4. entries' \in Seq({entries'[i] : i \in DOMAIN entries'})
    <2> DEFINE Y == {entries'[i] : i \in DOMAIN entries'}
    <2>1. \A i \in 1..(n + 1) : entries'[i] \in Y
      BY <1>3
    <2>2. \E Z : entries' \in Seq(Z)
      <3>1. entries \in Seq(X \cup {e})
        <4>1. \A i \in 1..Len(entries) : entries[i] \in X \cup {e}
          BY <1>1
        <4> QED
          BY <1>1, <4>1
      <3>2. entries' \in Seq(X \cup {e})
        BY <1>1, <3>1
      <3> QED
        BY <3>2
    <2> HIDE DEF Y
    <2>3. entries' \in Seq(Y)
      BY <1>3, <2>1, <2>2
    <2> QED
      BY <2>3 DEF Y
  <1> QED
    BY <1>2, <1>3, <1>4 DEF IsLogged

(* An entry becomes the last of its kind and subject, and of no other.     *)
LEMMA ListsGrow ==
  ASSUME AuditInv, NEW kind \in AuditKind, NEW d \in Did, NEW payload,
         entries' = L!Appended(kind, d, payload),
         NEW k \in AuditKind, NEW x \in Did
  PROVE  /\ k = kind /\ x = d => LastEntry(x, k)'.payload = payload
         /\ ~(k = kind /\ x = d) => /\ L!Listed(k, x)' = L!Listed(k, x)
                                    /\ L!Listed(k, x) # {} => LastEntry(x, k)' = LastEntry(x, k)
  <1> DEFINE n == Len(entries)
             found == L!Listed(k, x)
  <1>1. /\ n \in Nat /\ DOMAIN entries = 1..n /\ DOMAIN entries' = 1..(n + 1)
        /\ \A i \in 1..n : entries'[i] = entries[i]
        /\ entries'[n + 1].kind = kind /\ entries'[n + 1].subject = d
        /\ entries'[n + 1].payload = payload
    <2>1. IsLogged(kind, d, payload)
      BY Logged
    <2> QED
      BY <2>1 DEF IsLogged
  <1>2. None \notin AuditKind /\ None \notin Did
    BY IdentityAssumption
  <1>3. /\ L!Listed(k, x) = {i \in DOMAIN entries : entries[i].kind = k /\ entries[i].subject = x}
        /\ L!Listed(k, x)' =
             {i \in DOMAIN entries' : entries'[i].kind = k /\ entries'[i].subject = x}
    BY <1>2 DEF L!Listed
  <1> HIDE DEF n, found
  <1>4. CASE k = kind /\ x = d
    <2>1. n + 1 \in L!Listed(k, x)' /\ \A j \in L!Listed(k, x)' : j <= n + 1
      BY <1>1, <1>3, <1>4
    <2>2. L!Listed(k, x)' \subseteq Nat
      BY <1>1, <1>3
    <2>3. (CHOOSE i \in L!Listed(k, x) : \A j \in L!Listed(k, x) : j <= i)' = n + 1
      BY <1>1, <2>1, <2>2
    <2>4. LastEntry(x, k)' = entries'[n + 1]
      BY <2>3 DEF LastEntry
    <2> QED
      BY <1>1, <1>4, <2>4
  <1>5. CASE ~(k = kind /\ x = d)
    <2>1. L!Listed(k, x)' = L!Listed(k, x)
      BY <1>1, <1>3, <1>5
    <2>2. ASSUME L!Listed(k, x) # {} PROVE LastEntry(x, k)' = LastEntry(x, k)
      <3> DEFINE at == CHOOSE i \in L!Listed(k, x) : \A j \in L!Listed(k, x) : j <= i
      <3>1. L!Listed(k, x) \subseteq 1..n
        BY <1>1, <1>3
      <3>2. \E i \in L!Listed(k, x) : \A j \in L!Listed(k, x) : j <= i
        BY <1>1, <2>2, <3>1, GreatestNat
      <3>3. at \in 1..n
        BY <3>1, <3>2
      <3>4. at' = at
        BY <2>1
      <3>5. LastEntry(x, k) = entries[at] /\ LastEntry(x, k)' = entries'[at']
        BY DEF LastEntry
      <3> HIDE DEF at
      <3> QED
        BY <1>1, <3>3, <3>4, <3>5
    <2> QED
      BY <1>5, <2>1, <2>2
  <1> QED
    BY <1>4, <1>5

(* Steps that record nothing, change no delegation and rule on nothing.    *)
LEMMA AuditSame ==
  ASSUME AuditInv, UNCHANGED <<entries, delegations, approval>>, revoked \subseteq revoked'
  PROVE  AuditInv'
  <1>1. /\ \A k, x : L!Listed(k, x)' = L!Listed(k, x)
        /\ \A k, x : LastEntry(x, k)' = LastEntry(x, k)
        /\ Delegated' = Delegated
    BY DEF L!Listed, LastEntry, Delegated
  <1>2. RulingsTell'
    BY DEF AuditInv, RulingsTell, Ruled, A!Parked
  <1> QED
    BY <1>1, <1>2 DEF AuditInv

(* Entries of another kind say nothing of rulings.                         *)
LEMMA RulingsSame ==
  ASSUME AuditInv, NEW kind \in AuditKind \ {"gov_approval"}, NEW d \in Did, NEW payload,
         entries' = L!Appended(kind, d, payload), UNCHANGED approval
  PROVE  RulingsTell'
  <1> DEFINE n == Len(entries)
  <1>1. /\ n \in Nat /\ DOMAIN entries = 1..n /\ DOMAIN entries' = 1..(n + 1)
        /\ \A i \in 1..n : entries'[i] = entries[i]
        /\ entries'[n + 1].kind = kind
    <2>1. IsLogged(kind, d, payload)
      BY Logged
    <2> QED
      BY <2>1 DEF IsLogged
  <1> HIDE DEF n
  <1>2. RulingsTell
    BY DEF AuditInv
  <1>3. \A i \in DOMAIN entries' : entries'[i].kind = "gov_approval" =>
          i \in DOMAIN entries /\ entries'[i] = entries[i]
    BY <1>1
  <1>4. \A i \in DOMAIN entries : i \in DOMAIN entries' /\ entries'[i] = entries[i]
    BY <1>1
  <1>5. \A id \in ApprovalId : (A!Parked(id)' <=> A!Parked(id)) /\ (Ruled(id)' <=> Ruled(id))
    BY DEF A!Parked, Ruled
  <1>6. ASSUME NEW i \in DOMAIN entries', (entries[i].kind = "gov_approval")'
        PROVE  (/\ entries[i].payload.id \in ApprovalId /\ A!Parked(entries[i].payload.id)
                /\ entries[i].payload.decision = approval[entries[i].payload.id].decision
                /\ entries[i].payload.decision # "none")'
    <2>1. entries'[i] = entries[i] /\ i \in DOMAIN entries /\ entries[i].kind = "gov_approval"
      BY <1>3, <1>6
    <2> QED
      BY <1>2, <2>1 DEF RulingsTell, A!Parked
  <1>7. ASSUME NEW id \in ApprovalId, A!Parked(id)'
        PROVE  /\ Ruled(id)'
               /\ approval'[id].decision # "none" =>
                    \E i \in DOMAIN entries' :
                      entries'[i].kind = "gov_approval" /\ entries'[i].payload.id = id
    BY <1>2, <1>4, <1>5, <1>7 DEF RulingsTell
  <1> QED
    BY <1>6, <1>7 DEF RulingsTell

(* A policy is stored with its entry.                                      *)
LEMMA ReissueAudit ==
  ASSUME OnceInv, AuditInv, NEW d \in Did, NEW credential, NEW before,
         Reissue(d, credential, before), UNCHANGED approval
  PROVE  AuditInv'
  <1> DEFINE kind == "gov_policy_change"
             payload == [before |-> before, after |-> credential.policy]
  <1>1. /\ delegations' = [delegations EXCEPT ![d] = credential] /\ revoked' = revoked
        /\ entries' = L!Appended(kind, d, payload) /\ kind \in AuditKind \ {"gov_approval"}
    BY DEF Reissue, Audit, AuditKind
  <1>2. payload.after = credential.policy /\ kind = "gov_policy_change"
    OBVIOUS
  <1> HIDE DEF kind, payload
  <1>3. RulingsTell'
    BY <1>1, RulingsSame
  <1>4. entries' \in Seq({entries'[i] : i \in DOMAIN entries'})
    BY <1>1, Logged DEF IsLogged
  <1>5. \A x \in Did : L!Listed("gov_kill", x)' = L!Listed("gov_kill", x)
    BY <1>1, <1>2, ListsGrow DEF AuditKind
  <1>6. ASSUME NEW x \in Delegated', L!Listed("gov_policy_change", x)' # {}
        PROVE  delegations'[x].policy = LastEntry(x, "gov_policy_change")'.payload.after
    <2>1. x \in Did /\ delegations \in [Did -> Credential \cup {None}]
      BY DEF Delegated, OnceInv, TypeOK
    <2>2. CASE x = d
      <3>1. LastEntry(x, "gov_policy_change")'.payload = payload
        BY <1>1, <1>2, <2>1, <2>2, ListsGrow
      <3> QED
        BY <1>1, <1>2, <2>1, <2>2, <3>1
    <2>3. CASE x # d
      <3>1. /\ L!Listed("gov_policy_change", x)' = L!Listed("gov_policy_change", x)
            /\ L!Listed("gov_policy_change", x) # {} =>
                 LastEntry(x, "gov_policy_change")' = LastEntry(x, "gov_policy_change")
        BY <1>1, <1>2, <2>1, <2>3, ListsGrow
      <3>2. delegations'[x] = delegations[x] /\ x \in Delegated
        BY <1>1, <2>1, <2>3 DEF Delegated
      <3> QED
        BY <1>6, <3>1, <3>2 DEF AuditInv
    <2> QED
      BY <2>2, <2>3
  <1> QED
    BY <1>1, <1>3, <1>4, <1>5, <1>6 DEF AuditInv

(* A kill is recorded with the revocation.                                 *)
LEMMA KillAudit ==
  ASSUME OnceInv, AuditInv, NEW d \in Did, Kill(d)
  PROVE  AuditInv'
  <1>1. /\ revoked' = revoked \cup {d} /\ UNCHANGED <<delegations, approval>>
        /\ entries' = L!Appended("gov_kill", d, None)
        /\ "gov_kill" \in AuditKind \ {"gov_approval"}
    BY DEF Kill, Revoke, Audit, AuditKind
  <1>2. RulingsTell'
    BY <1>1, RulingsSame
  <1>3. entries' \in Seq({entries'[i] : i \in DOMAIN entries'})
    BY <1>1, Logged DEF IsLogged
  <1>4. ASSUME NEW x \in Did, L!Listed("gov_kill", x)' # {} PROVE x \in revoked'
    <2>1. CASE x = d
      BY <1>1, <2>1
    <2>2. CASE x # d
      <3>1. L!Listed("gov_kill", x)' = L!Listed("gov_kill", x)
        BY <1>1, <2>2, ListsGrow
      <3> QED
        BY <1>1, <1>4, <3>1 DEF AuditInv
    <2> QED
      BY <2>1, <2>2
  <1>5. ASSUME NEW x \in Delegated', L!Listed("gov_policy_change", x)' # {}
        PROVE  delegations'[x].policy = LastEntry(x, "gov_policy_change")'.payload.after
    <2>1. x \in Did /\ x \in Delegated
      BY <1>1 DEF Delegated
    <2>2. /\ L!Listed("gov_policy_change", x)' = L!Listed("gov_policy_change", x)
          /\ L!Listed("gov_policy_change", x) # {} =>
               LastEntry(x, "gov_policy_change")' = LastEntry(x, "gov_policy_change")
      BY <1>1, <2>1, ListsGrow DEF AuditKind
    <2> QED
      BY <1>1, <1>5, <2>1, <2>2 DEF AuditInv
  <1> QED
    BY <1>2, <1>3, <1>4, <1>5 DEF AuditInv

(* What has been parked stays parked, with its decision, unless the step   *)
(* rules on it.                                                            *)
LEMMA RulingsKept ==
  ASSUME AuditInv, UNCHANGED <<entries, delegations, revoked>>, NEW id \in ApprovalId,
         \A x \in ApprovalId \ {id} : approval'[x] = approval[x],
         A!Parked(id) => approval'[id].decision = approval[id].decision,
         ~A!Parked(id) => approval'[id].decision = "none",
         A!Parked(id)', Ruled(id)'
  PROVE  AuditInv'
  <1>1. /\ \A k, x : L!Listed(k, x)' = L!Listed(k, x)
        /\ \A k, x : LastEntry(x, k)' = LastEntry(x, k)
        /\ Delegated' = Delegated
    BY DEF L!Listed, LastEntry, Delegated
  <1>2. RulingsTell
    BY DEF AuditInv
  <1>3. \A x \in ApprovalId : A!Parked(x) => A!Parked(x)' /\ approval'[x].decision = approval[x].decision
    BY DEF A!Parked
  <1>4. ASSUME NEW i \in DOMAIN entries, entries[i].kind = "gov_approval"
        PROVE  /\ entries[i].payload.id \in ApprovalId /\ A!Parked(entries[i].payload.id)
               /\ entries[i].payload.decision = approval[entries[i].payload.id].decision
               /\ entries[i].payload.decision # "none"
    BY <1>2, <1>4 DEF RulingsTell
  <1>5. ASSUME NEW i \in DOMAIN entries, entries[i].kind = "gov_approval"
        PROVE  (/\ entries[i].payload.id \in ApprovalId /\ A!Parked(entries[i].payload.id)
                /\ entries[i].payload.decision = approval[entries[i].payload.id].decision
                /\ entries[i].payload.decision # "none")'
    <2> DEFINE x == entries[i].payload.id
    <2>1. x \in ApprovalId /\ A!Parked(x) /\ x' = x
      BY <1>4, <1>5
    <2>2. approval'[x] # A!NoRow /\ approval'[x].decision = approval[x].decision
      BY <1>3, <2>1 DEF A!Parked
    <2> QED
      BY <1>4, <1>5, <2>2 DEF A!Parked
  <1>6. ASSUME NEW x \in ApprovalId, A!Parked(x)'
        PROVE  /\ Ruled(x)'
               /\ approval'[x].decision # "none" =>
                    \E i \in DOMAIN entries :
                      entries[i].kind = "gov_approval" /\ entries[i].payload.id = x
    <2>1. CASE x = id
      <3>1. approval'[x].decision # "none" => A!Parked(x) /\ approval[x].decision # "none"
        BY <2>1
      <3> QED
        BY <1>2, <2>1, <3>1 DEF RulingsTell
    <2>2. CASE x # id
      <3>1. A!Parked(x) /\ Ruled(x) /\ (Ruled(x)' <=> Ruled(x)) /\ approval'[x] = approval[x]
        BY <1>2, <1>6, <2>2 DEF RulingsTell, A!Parked, Ruled
      <3> QED
        BY <1>2, <3>1 DEF RulingsTell
    <2> QED
      BY <2>1, <2>2
  <1>7. RulingsTell'
    BY <1>5, <1>6 DEF RulingsTell
  <1> QED
    BY <1>1, <1>7 DEF AuditInv

(* Parking an action for approval keeps the audit trail.                   *)
LEMMA ParkAudit ==
  ASSUME OnceInv, AuditInv, NEW d \in Delegated, NEW a \in Asked, NEW id \in ApprovalId,
         Park(d, a, id)
  PROVE  AuditInv' /\ A!TypeOK'
  <1> DEFINE row == [status |-> "pending", decision |-> "none", subject |-> <<d, a>>]
  <1>1. /\ ~A!Parked(id) /\ approval' = [approval EXCEPT ![id] = row]
        /\ UNCHANGED <<entries, delegations, revoked>>
    BY DEF Park, A!Enqueue, idVars
  <1>2. A!TypeOK /\ d \in Did
    BY DEF OnceInv, TypeOK, Delegated
  <1>3. row \in A!Row /\ row # A!NoRow
    BY <1>2 DEF A!Row, A!NoRow
  <1>4. approval'[id] = row /\ \A x \in ApprovalId \ {id} : approval'[x] = approval[x]
    BY <1>1, <1>2 DEF A!TypeOK
  <1>5. A!TypeOK'
    BY <1>1, <1>2, <1>3 DEF A!TypeOK
  <1>6. A!Parked(id)' /\ Ruled(id)'
    BY <1>3, <1>4 DEF A!Parked, Ruled, A!Decision
  <1> QED
    BY <1>1, <1>4, <1>5, <1>6, RulingsKept

(* So does redeeming an approval.                                          *)
LEMMA RedeemAudit ==
  ASSUME OnceInv, AuditInv, NEW d \in Delegated, NEW a \in Asked, NEW id \in ApprovalId,
         Redeem(d, a, id)
  PROVE  AuditInv' /\ A!TypeOK'
  <1>1. /\ approval[id].status \in A!Decision
        /\ approval' = [approval EXCEPT ![id].status = "consumed"]
        /\ UNCHANGED <<entries, delegations, revoked>>
    BY DEF Redeem, A!Consume, A!Redeemable, idVars
  <1>2. A!TypeOK /\ approval[id] \in A!Row
    BY <1>1 DEF OnceInv, TypeOK, A!TypeOK, A!NoRow, A!Decision
  <1>3. /\ approval'[id] = [approval[id] EXCEPT !.status = "consumed"]
        /\ \A x \in ApprovalId \ {id} : approval'[x] = approval[x]
    BY <1>1, <1>2 DEF A!TypeOK
  <1>4. approval'[id] \in A!Row
    BY <1>2, <1>3 DEF A!Row
  <1>5. A!TypeOK'
    BY <1>1, <1>2, <1>4 DEF A!TypeOK
  <1>6. approval'[id].status = "consumed" /\ approval'[id].decision = approval[id].decision
    BY <1>2, <1>3 DEF A!Row
  <1>7. A!Parked(id) /\ A!Parked(id)' /\ Ruled(id)'
    BY <1>1, <1>6 DEF A!Parked, A!NoRow, Ruled, A!Decision
  <1> QED
    BY <1>1, <1>3, <1>5, <1>6, <1>7, RulingsKept

(* A ruling, or the same one again, is recorded with its decision.         *)
LEMMA ResolveAudit ==
  ASSUME OnceInv, AuditInv, NEW id \in ApprovalId, NEW decision \in A!Decision,
         A!Parked(id), ResolveApproval(id, decision)
  PROVE  AuditInv' /\ A!TypeOK'
  <1> DEFINE kind == "gov_approval"
             payload == [id |-> id, decision |-> decision]
             d == approval[id].subject[1]
             n == Len(entries)
  <1>1. /\ entries' = L!Appended(kind, d, payload) /\ UNCHANGED <<delegations, revoked>>
        /\ \/ A!Pending(id) /\ approval' = [approval EXCEPT ![id].status = decision, ![id].decision = decision]
           \/ approval[id].status = decision /\ UNCHANGED approval
    BY DEF ResolveApproval, A!Resolve, Audit, idVars
  <1>2. A!TypeOK /\ approval[id] \in A!Row /\ RulingsTell
    BY DEF OnceInv, TypeOK, A!TypeOK, A!Parked, AuditInv
  <1>3. d \in Did /\ kind \in AuditKind
    BY <1>2 DEF A!Row, AuditKind
  <1>4. Ruled(id)
    BY <1>2 DEF RulingsTell
  <1>5. \A x \in ApprovalId \ {id} : approval'[x] = approval[x]
    BY <1>1, <1>2 DEF A!TypeOK
  <1>6. approval'[id].status = decision /\ approval'[id].decision = decision /\ approval'[id] \in A!Row
    <2>1. CASE A!Pending(id) /\ approval' = [approval EXCEPT ![id].status = decision, ![id].decision = decision]
      <3>1. approval'[id] = [approval[id] EXCEPT !.status = decision, !.decision = decision]
        BY <1>2, <2>1 DEF A!TypeOK
      <3> QED
        BY <1>2, <3>1 DEF A!Row
    <2>2. CASE approval[id].status = decision /\ UNCHANGED approval
      BY <1>2, <1>4, <2>2 DEF Ruled
    <2> QED
      BY <1>1, <2>1, <2>2
  <1>7. A!TypeOK'
    BY <1>1, <1>2, <1>6 DEF A!TypeOK
  <1>8. decision # "none" /\ decision # "pending" /\ approval'[id] # A!NoRow
    BY <1>6 DEF A!Decision, A!Row, A!NoRow
  <1>9. ~A!Pending(id) => approval[id].decision = decision
    BY <1>1, <1>4 DEF Ruled
  <1>10. A!Pending(id) => approval[id].decision = "none"
    BY <1>4 DEF Ruled, A!Pending
  <1>11. payload.id = id /\ payload.decision = decision
    OBVIOUS
  <1>12. IsLogged(kind, d, payload)
    BY <1>1, <1>3, Logged
  <1> HIDE DEF payload, d
  <1>13. /\ n \in Nat /\ DOMAIN entries = 1..n /\ DOMAIN entries' = 1..(n + 1)
         /\ \A i \in 1..n : entries'[i] = entries[i]
         /\ entries'[n + 1].kind = kind /\ entries'[n + 1].payload = payload
         /\ entries' \in Seq({entries'[i] : i \in DOMAIN entries'})
    BY <1>12 DEF IsLogged
  <1> HIDE DEF n
  <1>14. \A x \in Did : /\ L!Listed("gov_kill", x)' = L!Listed("gov_kill", x)
                        /\ L!Listed("gov_policy_change", x)' = L!Listed("gov_policy_change", x)
                        /\ L!Listed("gov_policy_change", x) # {} =>
                             LastEntry(x, "gov_policy_change")' = LastEntry(x, "gov_policy_change")
    BY <1>1, <1>3, ListsGrow DEF AuditKind
  <1>15. ASSUME NEW i \in DOMAIN entries', (entries[i].kind = "gov_approval")'
         PROVE  (/\ entries[i].payload.id \in ApprovalId /\ A!Parked(entries[i].payload.id)
                 /\ entries[i].payload.decision = approval[entries[i].payload.id].decision
                 /\ entries[i].payload.decision # "none")'
    <2>1. CASE i = n + 1
      <3>1. entries'[i].payload.id = id /\ entries'[i].payload.decision = decision
        BY <1>11, <1>13, <2>1
      <3> QED
        BY <1>6, <1>8, <3>1 DEF A!Parked
    <2>2. CASE i # n + 1
      <3>1. i \in DOMAIN entries /\ entries'[i] = entries[i]
        BY <1>13, <2>2
      <3> DEFINE x == entries[i].payload.id
      <3>2. /\ x \in ApprovalId /\ approval[x] # A!NoRow
            /\ entries[i].payload.decision = approval[x].decision
            /\ entries[i].payload.decision # "none"
        BY <1>2, <1>15, <3>1 DEF RulingsTell, A!Parked
      <3>3. approval'[x] # A!NoRow /\ approval'[x].decision = approval[x].decision
        <4>1. CASE x = id
          BY <1>6, <1>8, <1>9, <1>10, <3>2, <4>1
        <4>2. CASE x # id
          BY <1>5, <3>2, <4>2
        <4> QED
          BY <4>1, <4>2
      <3> QED
        BY <3>1, <3>2, <3>3 DEF A!Parked
    <2> QED
      BY <2>1, <2>2
  <1>16. ASSUME NEW x \in ApprovalId, A!Parked(x)'
         PROVE  /\ Ruled(x)'
                /\ approval'[x].decision # "none" =>
                     \E i \in DOMAIN entries' :
                       entries'[i].kind = "gov_approval" /\ entries'[i].payload.id = x
    <2>1. CASE x = id
      <3>1. Ruled(x)'
        BY <1>6, <1>8, <2>1 DEF Ruled
      <3>2. n + 1 \in DOMAIN entries'
        BY <1>13
      <3> QED
        BY <1>11, <1>13, <2>1, <3>1, <3>2
    <2>2. CASE x # id
      <3>1. approval'[x] = approval[x]
        BY <1>5, <2>2
      <3>2. A!Parked(x) /\ (Ruled(x)' <=> Ruled(x))
        BY <1>16, <3>1 DEF A!Parked, Ruled
      <3>3. \A i \in DOMAIN entries : i \in DOMAIN entries' /\ entries'[i] = entries[i]
        BY <1>13
      <3> QED
        BY <1>2, <3>1, <3>2, <3>3 DEF RulingsTell
    <2> QED
      BY <2>1, <2>2
  <1>17. RulingsTell'
    BY <1>15, <1>16 DEF RulingsTell
  <1>18. ASSUME NEW x \in Delegated', L!Listed("gov_policy_change", x)' # {}
         PROVE  delegations'[x].policy = LastEntry(x, "gov_policy_change")'.payload.after
    <2>1. x \in Did /\ x \in Delegated
      BY <1>1 DEF Delegated
    <2> QED
      BY <1>1, <1>14, <1>18, <2>1 DEF AuditInv
  <1>19. AuditInv'
    BY <1>1, <1>13, <1>14, <1>17, <1>18 DEF AuditInv
  <1> QED
    BY <1>7, <1>19

-----------------------------------------------------------------------------
(* Every step keeps the invariant.                                         *)
LEMMA StepIdentityInv == IdentityInv /\ [Next]_vars => IdentityInv'
  <1> SUFFICES ASSUME OnceInv, AuditInv, [Next]_vars PROVE IdentityInv'
    BY DEF IdentityInv
  <1>1. CASE UNCHANGED vars
    <2>1. TypeOK'
      BY <1>1 DEF vars, idVars, OnceInv, TypeOK, A!TypeOK
    <2> QED
      BY <1>1, <2>1, OnceSame, AuditSame DEF vars, idVars, IdentityInv
  <1>2. ASSUME NEW p \in Proc, NEW o \in Object, Receive(p, o) PROVE IdentityInv'
    BY <1>2, ReceiveOnce, AuditSame DEF Receive, idVars, IdentityInv
  <1>3. ASSUME NEW p \in Proc, Reject(p) PROVE IdentityInv'
    BY <1>3, RejectOnce, AuditSame DEF Reject, idVars, IdentityInv
  <1>4. ASSUME NEW p \in Proc, Accept(p) PROVE IdentityInv'
    <2>1. OnceInv'
      BY <1>4, AcceptOnce
    <2>2. job[p].object.kind \in {"register", "rotate", "revoke"}
      BY <1>4, JobFits, ObjectFits DEF Accept, OnceInv, Verifying
    <2>3. UNCHANGED <<entries, approval>>
      BY <1>4 DEF Accept
    <2>4. UNCHANGED delegations /\ revoked \subseteq revoked'
      BY <1>4, <2>2 DEF Accept, Put, Revoke
    <2> QED
      BY <2>1, <2>3, <2>4, AuditSame DEF IdentityInv
  <1>5. ASSUME NEW p \in Proc, FinishUpdate(p) PROVE IdentityInv'
    <2>1. OnceInv'
      BY <1>5, FinishUpdateOnce
    <2>2. job[p].did \in Did
      BY <1>5, JobFits DEF FinishUpdate, OnceInv, Signing
    <2>3. AuditInv'
      BY <1>5, <2>2, ReissueAudit DEF FinishUpdate
    <2> QED
      BY <2>1, <2>3 DEF IdentityInv
  <1>6. ASSUME NEW p \in Proc, NEW d \in Delegated, NEW policy \in Policies, UpdatePolicy(p, d, policy)
        PROVE  IdentityInv'
    <2>1. OnceInv'
      BY <1>6, UpdateOnce
    <2>2. d \in Did /\ UNCHANGED approval
      BY <1>6 DEF Delegated, UpdatePolicy
    <2>3. CASE IssuerSigns(d)
      BY <1>6, <2>1, <2>3, AuditSame DEF UpdatePolicy, idVars, IdentityInv
    <2>4. CASE ~IssuerSigns(d)
      <3>1. Reissue(d, Reissued(d, policy), PolicyBefore(d))
        BY <1>6, <2>4 DEF UpdatePolicy
      <3>2. AuditInv'
        BY <2>2, <3>1, ReissueAudit
      <3> QED
        BY <2>1, <3>2 DEF IdentityInv
    <2> QED
      BY <2>3, <2>4
  <1>7. ASSUME NEW d \in Did, Kill(d) PROVE IdentityInv'
    BY <1>7, KillOnce, KillAudit DEF IdentityInv
  <1>8. ASSUME NEW id \in ApprovalId, NEW decision \in A!Decision, A!Parked(id),
               ResolveApproval(id, decision)
        PROVE  IdentityInv'
    <2>1. AuditInv' /\ A!TypeOK'
      BY <1>8, ResolveAudit
    <2>2. OnceInv'
      BY <1>8, <2>1, ApprovalOnce DEF ResolveApproval
    <2> QED
      BY <2>1, <2>2 DEF IdentityInv
  <1>9. ASSUME NEW d \in Delegated, NEW a \in Asked, NEW id \in ApprovalId,
               Park(d, a, id) \/ Redeem(d, a, id)
        PROVE  IdentityInv'
    <2>1. AuditInv' /\ A!TypeOK'
      BY <1>9, ParkAudit, RedeemAudit
    <2>2. OnceInv'
      BY <1>9, <2>1, ApprovalOnce DEF Park, Redeem
    <2> QED
      BY <2>1, <2>2 DEF IdentityInv
  <1>10. CASE Tick
    BY <1>10, TickOnce, AuditSame DEF Tick, idVars, IdentityInv
  <1>11. CASE Governing
    <2>1. Delegated \subseteq Did
      BY DEF Delegated
    <2> QED
      BY <1>6, <1>7, <1>8, <1>11, <2>1 DEF Governing
  <1>12. CASE Acting
    BY <1>9, <1>12 DEF Acting
  <1> QED
    BY <1>1, <1>2, <1>3, <1>4, <1>5, <1>10, <1>11, <1>12 DEF Next

(* The invariant holds at first.                                           *)
LEMMA InitIdentityInv == Init => IdentityInv
  <1> SUFFICES ASSUME Init PROVE IdentityInv
    OBVIOUS
  <1>1. /\ passports = [d \in Did |-> None] /\ revoked = {} /\ seen = [n \in Nonce |-> 0]
        /\ entries = <<>> /\ approval = [id \in ApprovalId |-> A!NoRow]
        /\ job = [p \in Proc |-> Idle] /\ now = 0 /\ taken = [o \in Object |-> 0]
    BY DEF Init, A!Init
  <1>2. delegations \in [Did -> Credential \cup {None}]
    <2>1. ASSUME NEW d \in Did, \E c \in Delegation : c[1] = d
          PROVE  (CHOOSE c \in Delegation : c[1] = d)[2] \in Credential
      <3>1. (CHOOSE c \in Delegation : c[1] = d) \in Did \X Credential
        BY <2>1, IdentityAssumption
      <3> QED
        BY <3>1
    <2> QED
      BY <2>1 DEF Init
  <1>3. TypeOK
    BY <1>1, <1>2 DEF TypeOK, A!TypeOK
  <1>4. KeysFit
    BY <1>1 DEF KeysFit, Known, In, Idle
  <1>5. \A p \in Proc, o \in Object : ~VerifiedBy(p, o)
    BY <1>1 DEF VerifiedBy, In, Idle
  <1>6. \A o \in Object : NonceKept(o) /\ TakenOnce(o)
    BY <1>1, <1>5 DEF NonceKept, TakenOnce
  <1>7. OnceInv
    BY <1>1, <1>3, <1>4, <1>6 DEF OnceInv
  <1>8. DOMAIN entries = {} /\ entries \in Seq({entries[i] : i \in DOMAIN entries})
    BY <1>1
  <1>9. \A k, x : L!Listed(k, x) = {}
    BY <1>8 DEF L!Listed
  <1>10. RulingsTell
    BY <1>1, <1>8 DEF RulingsTell, A!Parked
  <1>11. AuditInv
    BY <1>8, <1>9, <1>10 DEF AuditInv
  <1> QED
    BY <1>7, <1>11 DEF IdentityInv

(* So it always holds.                                                     *)
LEMMA IdentityInvariant == Spec => []IdentityInv
  BY InitIdentityInv, StepIdentityInv, PTL DEF Spec

(* However often and however late an object is sent again, and however     *)
(* many calls verify it at once, it changes the registry once at most.     *)
THEOREM ObjectsTakeEffectOnce == Spec => []AcceptedOnce
  <1>1. IdentityInv => AcceptedOnce
    BY DEF IdentityInv, OnceInv, TakenOnce, AcceptedOnce
  <1> QED
    BY <1>1, IdentityInvariant, PTL

(* Whatever updates of a policy are being signed, an agent that was killed *)
(* has no delegation, and the ledger's last word on a policy and on an     *)
(* approval is what is in force.                                           *)
THEOREM GovernanceHolds == Spec => []Governed
  <1>1. IdentityInv => KilledForGood
    BY DEF IdentityInv, AuditInv, KilledForGood, ActiveDelegation
  <1>2. ASSUME IdentityInv PROVE AuditTells
    <2>1. RulingsTell /\ AuditInv
      BY <1>2 DEF IdentityInv, AuditInv
    <2>2. L!Listed("gov_approval", None) = {i \in DOMAIN entries : entries[i].kind = "gov_approval"}
      <3>1. None # "gov_approval"
        BY IdentityAssumption DEF AuditKind
      <3> QED
        BY <3>1 DEF L!Listed
    <2>3. ASSUME NEW id \in ApprovalId, A!Parked(id)
          PROVE  {entries[i].payload.decision :
                    i \in {j \in L!Listed("gov_approval", None) : entries[j].payload.id = id}}
                   = {approval[id].decision} \ {"none"}
      <3> DEFINE about == {j \in L!Listed("gov_approval", None) : entries[j].payload.id = id}
      <3>1. \A i \in about : /\ entries[i].payload.decision = approval[id].decision
                             /\ entries[i].payload.decision # "none"
        BY <2>1, <2>2 DEF RulingsTell
      <3>2. approval[id].decision # "none" => about # {}
        BY <2>1, <2>2, <2>3 DEF RulingsTell
      <3> HIDE DEF about
      <3>3. {entries[i].payload.decision : i \in about} = {approval[id].decision} \ {"none"}
        BY <3>1, <3>2
      <3> QED
        BY <3>3 DEF about
    <2> QED
      BY <2>1, <2>3 DEF AuditTells, AuditInv
  <1>3. IdentityInv => Governed
    BY <1>1, <1>2 DEF Governed
  <1> QED
    BY <1>3, IdentityInvariant, PTL

(* Every delegation that is ever in force is a sound mandate, for any      *)
(* policies a supervisor may set and any actions an agent may ask for.     *)
THEOREM MandatesAreSound == Spec => []MandateHolds
  <1>1. ASSUME IdentityInv PROVE MandateHolds
    <2> SUFFICES ASSUME NEW d \in Delegated PROVE delegations[d].policy \in SoundPolicies
      BY DEF MandateHolds
    <2>1. delegations[d] \in Credential
      BY <1>1 DEF IdentityInv, OnceInv, TypeOK, Delegated
    <2>2. delegations[d].policy \in Policies
      BY <2>1 DEF Credential
    <2> QED
      BY <2>2, PoliciesAreSound
  <1> QED
    BY <1>1, IdentityInvariant, PTL
=============================================================================
