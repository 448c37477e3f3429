--------------------------- MODULE PaymentProofs ---------------------------
(***************************************************************************)
(* What holds of any number of overlapping payments, keys, quotes and      *)
(* approvals: types, one charge per signed payment, one charge per         *)
(* approval, the kill switch, spend within the caps up to what overlaps,   *)
(* and, as long as no receipt is refused after the money moved, one charge *)
(* per Idempotency-Key and quote and books that agree.                     *)
(***************************************************************************)
EXTENDS Payment, SetLemmas, TLAPS

-----------------------------------------------------------------------------
(* The inductive invariant.                                                *)

(* A call that executes: it neither waits for another nor has ended.       *)
Runs(p) == In(p, Phase)

(* The calls that execute have scopes and nonces of their own.             *)
RunsInv ==
  \A p \in Proc : Runs(p) =>
    /\ job[p].scope \in running
    /\ job[p].nonce \in nonces
    /\ \A q \in Proc : Runs(q) /\ (\/ job[q].scope = job[p].scope
                                   \/ job[q].nonce = job[p].nonce) => q = p

(* A nonce that has paid is consumed, by no call yet to pay.               *)
NonceInv ==
  /\ \A i \in 1..Len(transfers) :
       /\ transfers[i].nonce \in nonces
       /\ \A p \in Proc : In(p, {"payload", "sign"}) => job[p].nonce # transfers[i].nonce
  /\ PaymentOnce

(* An approval redeemed for a spend of the quote.                          *)
Spent(id, q) == approval[id] = [status |-> "consumed", decision |-> "approved", subject |-> q]

(* A cleared call over the threshold has redeemed an approval, which no    *)
(* other call and no payment made has.                                     *)
ClearedInv ==
  \A p \in Proc : In(p, Cleared) =>
    /\ Amount(p) > threshold => job[p].approval # None
    /\ job[p].approval # None =>
         /\ Spent(job[p].approval, QuoteOf(p))
         /\ \A q \in Proc : In(q, Cleared) /\ job[q].approval = job[p].approval => q = p
         /\ job[p].phase = "sign" =>
              \A i \in 1..Len(transfers) : transfers[i].approval # job[p].approval

(* The same of the payments made.                                          *)
PaidInv ==
  \A i \in 1..Len(transfers) :
    /\ Price[transfers[i].scope[2]] > threshold => transfers[i].approval # None
    /\ transfers[i].approval # None =>
         /\ Spent(transfers[i].approval, transfers[i].scope[2])
         /\ \A j \in 1..Len(transfers) : transfers[j].approval = transfers[i].approval => j = i

IInv == TypeOK /\ RunsInv /\ NonceInv /\ ClearedInv /\ PaidInv

(* A scope is either running or done; it has paid when it is done with a   *)
(* receipt, or soon will be.                                               *)
ScopeInv ==
  /\ \A s \in running : done[s] = "none"
  /\ \A i \in 1..Len(transfers) :
       /\ \/ done[transfers[i].scope] = "receipt"
          \/ \E p \in Proc : In(p, Charged) /\ job[p].scope = transfers[i].scope
       /\ \A p \in Proc : In(p, {"payload", "sign"}) => job[p].scope # transfers[i].scope
  /\ ChargedOnce

-----------------------------------------------------------------------------
(* What the steps do to the calls.                                         *)

(* A call that executes has the fields of one.                             *)
LEMMA CallTypes ==
  ASSUME TypeOK, NEW p \in Proc
  PROVE  /\ Runs(p) => job[p] \in Call
         /\ Busy(p) => job[p].scope \in Scope
         /\ Busy(p) => QuoteOf(p) \in Quote /\ Amount(p) \in Nat \ {0}
<1>1. job[p] \in {Idle} \cup Call \cup Waiting
  BY DEF TypeOK
<1>2. Runs(p) => job[p] \in Call
  BY <1>1 DEF Runs, In, Busy, Phase, Cleared, Charged, Waiting
<1>3. Busy(p) => job[p].scope \in Scope
  BY <1>1 DEF Busy, Call, Waiting
<1> QED
  BY <1>2, <1>3, PaymentAssumption DEF Scope, QuoteOf, Amount

(* A call that ends is idle, and the others are as they were or idle.      *)
LEMMA EndEffect ==
  ASSUME TypeOK, NEW p \in Proc, Runs(p), End(p)
  PROVE  /\ job' \in [Proc -> {Idle} \cup Call \cup Waiting]
         /\ running' = running \ {job[p].scope}
         /\ ~Busy(p)'
         /\ \A q \in Proc : Busy(q)' => job'[q] = job[q] /\ Busy(q)
BY DEF TypeOK, End, Busy

(* A call that goes on keeps its scope and its nonce.                      *)
LEMMA GotoEffect ==
  ASSUME TypeOK, NEW p \in Proc, Runs(p), NEW phase \in Phase, Goto(p, phase)
  PROVE  /\ job' \in [Proc -> {Idle} \cup Call \cup Waiting]
         /\ Busy(p)'
         /\ job'[p] \in Call
         /\ job'[p] = [job[p] EXCEPT !.phase = phase]
         /\ \A q \in Proc \ {p} : job'[q] = job[q]
<1>1. job[p] \in Call
  BY CallTypes
<1> QED
  BY <1>1 DEF TypeOK, Goto, Busy, Idle, Call, Phase, Cleared, Charged

-----------------------------------------------------------------------------
(* Types.                                                                  *)

(* The queue keeps its shape.                                              *)
LEMMA QueueTypes ==
  ASSUME A!TypeOK, NEW id \in ApprovalId, NEW s \in Quote
  PROVE  /\ A!Enqueue(id, s) => A!TypeOK'
         /\ A!Consume(id, s) => A!TypeOK'
<1>1. A!Enqueue(id, s) => A!TypeOK'
  BY DEF A!TypeOK, A!Enqueue, A!Row, A!Decision
<1>2. A!Consume(id, s) => A!TypeOK'
  <2> SUFFICES ASSUME A!Consume(id, s) PROVE A!TypeOK'
    OBVIOUS
  <2>1. approval[id] \in A!Row
    BY DEF A!TypeOK, A!Consume, A!Redeemable, A!Decision, A!NoRow
  <2> QED
    BY <2>1 DEF A!TypeOK, A!Consume, A!Row
<1> QED
  BY <1>1, <1>2

(* Every step keeps the types.                                             *)
LEMMA TypeStep ==
  ASSUME TypeOK, [Next]_vars
  PROVE  TypeOK'
<1> USE DEF storeVars, moneyVars, envVars
<1>1. ASSUME NEW p \in Proc, NEW s \in Scope, NEW n \in Nonce, NEW id \in MaybeApproval,
             Start(p, s, n, id)
      PROVE  TypeOK'
  <2>1. [phase |-> "payload", scope |-> s, nonce |-> n, approval |-> id] \in Call
    BY DEF Call, Phase
  <2> QED
    BY <1>1, <2>1 DEF TypeOK, Start, ConsumeNonce, A!TypeOK
<1>2. ASSUME NEW p \in Proc, NEW s \in Scope, Join(p, s) PROVE TypeOK'
  <2>1. [phase |-> "join", scope |-> s] \in Waiting
    BY DEF Waiting
  <2> QED
    BY <1>2, <2>1 DEF TypeOK, Join, A!TypeOK
<1>3. ASSUME NEW p \in Proc, Reject(p) \/ Deny(p) \/ RailRefuses(p) PROVE TypeOK'
  <2>1. Runs(p) /\ End(p)
    BY <1>3 DEF Reject, Deny, RailRefuses, Runs, In, Phase, Cleared
  <2> QED
    BY <1>3, <2>1, EndEffect DEF TypeOK, Reject, Deny, RailRefuses, A!TypeOK
<1>4. ASSUME NEW p \in Proc, Sign(p) PROVE TypeOK'
  <2>1. job[p] \in Call
    BY <1>4, CallTypes DEF Sign, Runs, In, Phase
  <2>2. [job[p] EXCEPT !.phase = "sign", !.approval = None] \in Call
    BY <2>1 DEF Call, Phase, Cleared, MaybeApproval
  <2>3. job' = [job EXCEPT ![p] = [job[p] EXCEPT !.phase = "sign", !.approval = None]]
    BY <1>4 DEF Sign
  <2> QED
    BY <1>4, <2>2, <2>3 DEF TypeOK, Sign, A!TypeOK
<1>5. ASSUME NEW p \in Proc, Redeem(p) PROVE TypeOK'
  <2>1. Runs(p) /\ job[p] \in Call /\ QuoteOf(p) \in Quote
    BY <1>5, CallTypes DEF Redeem, Runs, In, Phase
  <2>2. job[p].approval \in ApprovalId
    BY <1>5, <2>1 DEF Redeem, Call, MaybeApproval
  <2>3. A!TypeOK'
    BY <1>5, <2>1, <2>2, QueueTypes DEF TypeOK, Redeem, Consume
  <2>4. "sign" \in Phase
    BY DEF Phase, Cleared
  <2>5. /\ job' \in [Proc -> {Idle} \cup Call \cup Waiting]
        /\ running' \subseteq Scope
    BY <1>5, <2>1, <2>4, EndEffect, GotoEffect DEF TypeOK, Redeem
  <2> QED
    BY <1>5, <2>3, <2>5 DEF TypeOK, Redeem
<1>6. ASSUME NEW p \in Proc, Park(p) PROVE TypeOK'
  <2>1. Runs(p) /\ End(p) /\ job[p] \in Call /\ QuoteOf(p) \in Quote
    BY <1>6, CallTypes DEF Park, Runs, In, Phase
  <2>2. A!TypeOK'
    BY <1>6, <2>1, QueueTypes DEF TypeOK, Park
  <2> QED
    BY <1>6, <2>1, <2>2, EndEffect DEF TypeOK, Park, Call, Cached
<1>7. ASSUME NEW p \in Proc, Settle(p) PROVE TypeOK'
  <2>1. Runs(p) /\ job[p] \in Call /\ Amount(p) \in Nat
    BY <1>7, CallTypes DEF Settle, Runs, In, Phase, Cleared
  <2>2. job' \in [Proc -> {Idle} \cup Call \cup Waiting]
    BY <1>7, <2>1, GotoEffect DEF Settle, Phase, Cleared, Charged
  <2>3. transfers' \in Seq(Transfer)
    BY <1>7, <2>1 DEF TypeOK, Settle, Call, Transfer
  <2>4. balance' \in [{"payer", "payee"} -> Nat]
    BY <1>7, <2>1 DEF TypeOK, Settle, Funded
  <2> QED
    BY <1>7, <2>2, <2>3, <2>4 DEF TypeOK, Settle, A!TypeOK
<1>8. ASSUME NEW p \in Proc, Record(p) PROVE TypeOK'
  <2>1. Runs(p) /\ job[p] \in Call
    BY <1>8, CallTypes DEF Record, Runs, In, Phase, Cleared, Charged
  <2>2. "rate" \in Phase
    BY DEF Phase, Cleared, Charged
  <2>3. /\ job' \in [Proc -> {Idle} \cup Call \cup Waiting]
        /\ running' \subseteq Scope
    BY <1>8, <2>1, <2>2, EndEffect, GotoEffect DEF TypeOK, Record
  <2>4. ledger' \in Seq(Nonce)
    BY <1>8, <2>1 DEF TypeOK, Record, Call
  <2> QED
    BY <1>8, <2>3, <2>4 DEF TypeOK, Record, A!TypeOK
<1>9. ASSUME NEW p \in Proc, RecordSpend(p) PROVE TypeOK'
  <2>1. Runs(p) /\ End(p) /\ job[p] \in Call /\ Amount(p) \in Nat
    BY <1>9, CallTypes DEF RecordSpend, Runs, In, Phase, Cleared, Charged
  <2>2. spend' \in [total : Nat, bucket : Nat, daily : Nat]
    BY <1>9, <2>1, PaymentAssumption DEF TypeOK, RecordSpend, SpendRow, SpentToday
  <2>3. done' \in [Scope -> Cached]
    BY <1>9, <2>1 DEF TypeOK, RecordSpend, Call, Cached
  <2> QED
    BY <1>9, <2>1, <2>2, <2>3, EndEffect DEF TypeOK, RecordSpend, A!TypeOK
<1>10. ASSUME NEW id \in ApprovalId, NEW decision \in A!Decision, Rule(id, decision)
       PROVE  TypeOK'
  <2>1. A!TypeOK'
    <3>1. A!TypeOK /\ A!Resolve(id, decision)
      BY <1>10 DEF TypeOK, Rule
    <3>2. approval[id] \in A!Row
      BY <3>1 DEF A!TypeOK, A!Resolve, A!Pending, A!NoRow
    <3> QED
      BY <3>1, <3>2 DEF A!TypeOK, A!Resolve, A!Row
  <2> QED
    BY <1>10, <2>1 DEF TypeOK, Rule
<1>11. ASSUME Revoke \/ Expire \/ NextDay PROVE TypeOK'
  <2>1. day' \in 0..LastDay
    <3>1. LastDay \in Nat /\ day \in 0..LastDay
      BY PaymentAssumption DEF TypeOK
    <3>2. day' = day \/ (day < LastDay /\ day' = day + 1)
      BY <1>11 DEF Revoke, Expire, NextDay
    <3> QED
      BY <3>1, <3>2
  <2>2. delegation' \in {"live", "expired", "revoked"}
    BY <1>11 DEF TypeOK, Revoke, Expire, NextDay
  <2>3. UNCHANGED <<approval, nonces, running, done, job, moneyVars, threshold>>
    BY <1>11 DEF Revoke, Expire, NextDay
  <2> QED
    BY <2>1, <2>2, <2>3 DEF TypeOK, A!TypeOK
<1>12. CASE UNCHANGED vars
  BY <1>12 DEF vars, TypeOK, A!TypeOK
<1> QED
  BY <1>1, <1>2, <1>3, <1>4, <1>5, <1>6, <1>7, <1>8, <1>9, <1>10, <1>11, <1>12
  DEF Next, Receive, Continue

-----------------------------------------------------------------------------
(* Scopes and nonces.                                                      *)

Unpaid(p) == In(p, {"payload", "sign"})

(* A call keeps its scope and its nonce until it ends, its scope runs      *)
(* until then, and it pays once.                                           *)
LEMMA ContinueEffect ==
  ASSUME TypeOK, RunsInv, NEW p \in Proc, Continue(p)
  PROVE  /\ nonces' = nonces
         /\ \A q \in Proc : Runs(q)' =>
              /\ Runs(q) /\ job'[q].scope = job[q].scope /\ job'[q].nonce = job[q].nonce
              /\ job[q].scope \in running'
              /\ Unpaid(q)' => Unpaid(q)
              /\ In(q, Charged) => In(q, Charged)' /\ job'[q].approval = job[q].approval
<1>1. Runs(p) /\ job[p] \in Call
  BY CallTypes DEF Continue, Reject, Sign, Deny, Redeem, Park, Settle, RailRefuses, Record,
                   RecordSpend, Runs, In, Phase, Cleared, Charged
<1>2. nonces' = nonces
  BY DEF Continue, Reject, Sign, Deny, Redeem, Park, Settle, RailRefuses, Record, RecordSpend
<1>3. CASE End(p)
  BY <1>1, <1>2, <1>3, EndEffect DEF RunsInv, Runs, In, Unpaid
<1>4. CASE Goto(p, "sign") /\ In(p, {"payload"}) /\ UNCHANGED running
  BY <1>1, <1>2, <1>4 DEF Goto, RunsInv, Runs, In, Unpaid, Busy, Call, TypeOK, Charged
<1>5. CASE Goto(p, "receipt") /\ In(p, {"sign"}) /\ UNCHANGED running
  BY <1>1, <1>2, <1>5 DEF Goto, RunsInv, Runs, In, Unpaid, Busy, Call, TypeOK, Charged
<1>6. CASE Goto(p, "rate") /\ In(p, {"receipt"}) /\ UNCHANGED running
  BY <1>1, <1>2, <1>6 DEF Goto, RunsInv, Runs, In, Unpaid, Busy, Call, TypeOK, Charged
<1>7. CASE Sign(p)
  BY <1>1, <1>2, <1>7 DEF Sign, RunsInv, Runs, In, Unpaid, Busy, Call, TypeOK, Charged
<1> QED
  BY <1>3, <1>4, <1>5, <1>6, <1>7
  DEF Continue, Reject, Deny, Redeem, Park, Settle, RailRefuses, Record, RecordSpend

(* A new call comes with a nonce nobody had and a scope that is free.      *)
LEMMA StartEffect ==
  ASSUME TypeOK, NEW p \in Proc, NEW s \in Scope, NEW n \in Nonce,
         NEW id \in MaybeApproval, Start(p, s, n, id)
  PROVE  /\ n \notin nonces /\ nonces' = nonces \cup {n}
         /\ s \notin running /\ running \subseteq running'
         /\ \A q \in Proc \ {p} : job'[q] = job[q]
         /\ ~Busy(p)
         /\ Busy(p)' => /\ s \in running'
                        /\ job'[p].phase = "payload"
                        /\ job'[p].scope = s /\ job'[p].nonce = n
BY DEF TypeOK, Start, Free, ConsumeNonce, Busy

(* Who only waits for a call executes nothing.                             *)
LEMMA JoinEffect ==
  ASSUME TypeOK, NEW p \in Proc, NEW s \in Scope, Join(p, s)
  PROVE  /\ ~Runs(p)' /\ ~Runs(p)
         /\ \A q \in Proc \ {p} : job'[q] = job[q]
BY DEF TypeOK, Join, Runs, In, Busy, Phase, Cleared, Charged

(* Every step keeps the scopes and nonces of the calls apart.              *)
LEMMA RunsStep ==
  ASSUME TypeOK, RunsInv, [Next]_vars
  PROVE  RunsInv'
<1>1. ASSUME NEW p \in Proc, NEW s \in Scope, NEW n \in Nonce, NEW id \in MaybeApproval,
             Start(p, s, n, id)
      PROVE  RunsInv'
  BY <1>1, StartEffect DEF RunsInv, Runs, In, Busy
<1>2. ASSUME NEW p \in Proc, NEW s \in Scope, Join(p, s) PROVE RunsInv'
  <2>1. UNCHANGED <<running, nonces>>
    BY <1>2 DEF Join
  <2> QED
    BY <1>2, <2>1, JoinEffect DEF RunsInv, Runs, In, Busy
<1>3. ASSUME NEW p \in Proc, Continue(p) PROVE RunsInv'
  BY <1>3, ContinueEffect DEF RunsInv
<1>4. CASE UNCHANGED storeVars
  BY <1>4 DEF storeVars, RunsInv, Runs, In, Busy
<1> QED
  BY <1>1, <1>2, <1>3, <1>4 DEF Next, Receive, Rule, Revoke, Expire, NextDay, vars

(* Only the rail's settlement adds to the transfers, at the end.           *)
LEMMA SettleEffect ==
  ASSUME TypeOK, NEW p \in Proc, Settle(p)
  PROVE  /\ job[p] \in Call /\ job[p].phase = "sign" /\ Runs(p) /\ Unpaid(p)
         /\ In(p, Charged)' /\ ~In(p, {"payload", "sign"})'
         /\ job'[p].scope = job[p].scope /\ job'[p].nonce = job[p].nonce
         /\ job'[p].approval = job[p].approval
         /\ \A q \in Proc \ {p} : job'[q] = job[q]
         /\ Len(transfers) \in Nat /\ Len(transfers') = Len(transfers) + 1
         /\ \A i \in 1..Len(transfers) : transfers'[i] = transfers[i]
         /\ LET t == transfers'[Len(transfers) + 1]
            IN  /\ t.scope = job[p].scope /\ t.nonce = job[p].nonce
                /\ t.approval = job[p].approval
<1>1. Runs(p) /\ job[p] \in Call /\ job[p].phase = "sign" /\ Unpaid(p)
  BY CallTypes DEF Settle, Runs, In, Phase, Cleared, Unpaid
<1>2. /\ Busy(p)'
      /\ job'[p] = [job[p] EXCEPT !.phase = "receipt"]
      /\ \A q \in Proc \ {p} : job'[q] = job[q]
  BY <1>1, GotoEffect DEF Settle, Phase, Cleared, Charged
<1>3. In(p, Charged)' /\ ~In(p, {"payload", "sign"})'
  BY <1>1, <1>2 DEF In, Charged, Call
<1>4. transfers \in Seq(Transfer)
  BY DEF TypeOK
<1>5. transfers' = Append(transfers, [scope |-> job[p].scope, nonce |-> job[p].nonce,
                                      approval |-> job[p].approval])
  BY DEF Settle
<1>6. [scope |-> job[p].scope, nonce |-> job[p].nonce, approval |-> job[p].approval]
        \in Transfer
  BY <1>1 DEF Call, Transfer
<1> QED
  BY <1>1, <1>2, <1>3, <1>4, <1>5, <1>6 DEF Call

(* Only settling appends a transfer.                                       *)
LEMMA NoTransfer ==
  ASSUME [Next]_vars
  PROVE  UNCHANGED transfers \/ \E p \in Proc : Settle(p)
BY DEF Next, vars, storeVars, moneyVars, envVars, Receive, Continue, Start, Join, Reject, Sign,
       Deny, Redeem, Park, RailRefuses, Record, RecordSpend, Rule, Revoke, Expire, NextDay

(* A call with its payment still to make had it to make before, unless it  *)
(* is new.                                                                 *)
LEMMA UnpaidStep ==
  ASSUME TypeOK, RunsInv, [Next]_vars, NEW q \in Proc, Unpaid(q)'
  PROVE  \/ Unpaid(q) /\ job'[q].scope = job[q].scope /\ job'[q].nonce = job[q].nonce
         \/ /\ job'[q].scope \notin running /\ done[job'[q].scope] = "none"
            /\ job'[q].nonce \notin nonces
<1>1. ASSUME NEW p \in Proc, NEW s \in Scope, NEW n \in Nonce, NEW id \in MaybeApproval,
             Start(p, s, n, id)
      PROVE  \/ Unpaid(q) /\ UNCHANGED job[q]
             \/ /\ job'[q].scope \notin running /\ done[job'[q].scope] = "none"
                /\ job'[q].nonce \notin nonces
  <2>1. done[s] = "none"
    BY <1>1 DEF Start, Free
  <2> QED
    BY <1>1, <2>1, StartEffect DEF Unpaid, In, Busy
<1>2. ASSUME NEW p \in Proc, NEW s \in Scope, Join(p, s) PROVE Unpaid(q) /\ UNCHANGED job[q]
  BY <1>2, JoinEffect DEF Unpaid, In, Busy, Runs, Phase, Cleared
<1>3. ASSUME NEW p \in Proc, Continue(p)
      PROVE  Unpaid(q) /\ job'[q].scope = job[q].scope /\ job'[q].nonce = job[q].nonce
  <2>1. Runs(q)'
    BY DEF Unpaid, Runs, In, Phase, Cleared
  <2> QED
    BY <1>3, <2>1, ContinueEffect
<1>4. CASE UNCHANGED storeVars
  BY <1>4 DEF storeVars, Unpaid, In, Busy
<1> QED
  BY <1>1, <1>2, <1>3, <1>4 DEF Next, Receive, Rule, Revoke, Expire, NextDay, vars

(* Every step keeps one payment to a nonce.                                *)
LEMMA NonceStep ==
  ASSUME TypeOK, RunsInv, NonceInv, [Next]_vars
  PROVE  NonceInv'
<1>1. nonces \subseteq nonces'
  BY DEF Next, vars, storeVars, moneyVars, envVars, Receive, Continue, Start, Join, Reject, Sign,
         Deny, Redeem, Park, RailRefuses, Record, RecordSpend, Rule, Revoke, Expire, NextDay,
         Settle, ConsumeNonce
<1>2. CASE UNCHANGED transfers
  BY <1>1, <1>2, UnpaidStep DEF NonceInv, PaymentOnce, Unpaid
<1>3. ASSUME NEW p \in Proc, Settle(p) PROVE NonceInv'
  <2>1. \A i \in 1..Len(transfers) : transfers[i].nonce # job[p].nonce
    BY <1>3, SettleEffect DEF NonceInv, Unpaid
  <2>2. \A q \in Proc : Unpaid(q)' => q # p /\ Unpaid(q) /\ job'[q].nonce = job[q].nonce
    BY <1>3, SettleEffect DEF Unpaid, In, Busy
  <2>3. \A q \in Proc : Unpaid(q)' => job'[q].nonce # job[p].nonce
    BY <1>3, <2>2, SettleEffect DEF RunsInv, Runs, Unpaid, In, Phase, Cleared
  <2>4. job[p].nonce \in nonces
    BY <1>3, SettleEffect DEF RunsInv
  <2>5. \A i \in 1..Len(transfers') :
          \/ i \in 1..Len(transfers) /\ transfers'[i] = transfers[i]
          \/ i = Len(transfers) + 1 /\ transfers'[i].nonce = job[p].nonce
    BY <1>3, SettleEffect
  <2>6. \A i \in 1..Len(transfers') :
          /\ transfers'[i].nonce \in nonces'
          /\ \A q \in Proc : Unpaid(q)' => job'[q].nonce # transfers'[i].nonce
    BY <1>1, <2>2, <2>3, <2>4, <2>5 DEF NonceInv, Unpaid
  <2>7. PaymentOnce'
    BY <2>1, <2>5 DEF NonceInv, PaymentOnce
  <2> QED
    BY <2>6, <2>7 DEF NonceInv, Unpaid
<1> QED
  BY <1>2, <1>3, NoTransfer

-----------------------------------------------------------------------------
(* Approvals.                                                              *)

(* A redeemed approval stays as it is.                                     *)
LEMMA SpentStays ==
  ASSUME TypeOK, [Next]_vars, NEW id \in ApprovalId, NEW s \in Quote, Spent(id, s)
  PROVE  Spent(id, s)'
<1> USE DEF storeVars, moneyVars, envVars
<1>1. ASSUME NEW p \in Proc, Redeem(p) PROVE Spent(id, s)'
  BY <1>1 DEF Redeem, Consume, A!Consume, A!Redeemable, A!Decision, Spent, TypeOK, A!TypeOK
<1>2. ASSUME NEW p \in Proc, Park(p) PROVE Spent(id, s)'
  BY <1>2 DEF Park, A!Enqueue, A!Parked, A!NoRow, Spent, TypeOK, A!TypeOK
<1>3. ASSUME NEW other \in ApprovalId, NEW decision \in A!Decision, Rule(other, decision)
      PROVE  Spent(id, s)'
  BY <1>3 DEF Rule, A!Resolve, A!Pending, Spent, TypeOK, A!TypeOK
<1>4. CASE UNCHANGED approval
  BY <1>4 DEF Spent
<1> QED
  BY <1>1, <1>2, <1>3, <1>4
  DEF Next, vars, Receive, Continue, Start, Join, Reject, Sign, Deny, Settle, RailRefuses,
      Record, RecordSpend, Revoke, Expire, NextDay

(* A call becomes cleared by signing within the threshold or by redeeming  *)
(* an approval that was not redeemed before.                               *)
LEMMA ClearedStep ==
  ASSUME TypeOK, RunsInv, [Next]_vars, NEW q \in Proc, In(q, Cleared)'
  PROVE  \/ /\ In(q, Cleared)
            /\ job'[q].scope = job[q].scope /\ job'[q].approval = job[q].approval
            /\ job'[q].phase = "sign" => job[q].phase = "sign"
         \/ /\ ~In(q, Cleared) /\ job'[q].scope = job[q].scope
            /\ job'[q].approval = None /\ ~(Amount(q) > threshold)
            /\ UNCHANGED approval
         \/ /\ ~In(q, Cleared) /\ job'[q].scope = job[q].scope
            /\ job'[q].approval \in ApprovalId
            /\ \A s \in Quote : ~Spent(job'[q].approval, s)
            /\ Spent(job[q].approval, QuoteOf(q))'
            /\ \A p \in Proc \ {q} : job'[p] = job[p]
<1> DEFINE Kept == /\ In(q, Cleared)
                   /\ job'[q].scope = job[q].scope /\ job'[q].approval = job[q].approval
                   /\ job'[q].phase = "sign" => job[q].phase = "sign"
<1>1. ASSUME NEW p \in Proc, NEW s \in Scope, NEW n \in Nonce, NEW id \in MaybeApproval,
             Start(p, s, n, id)
      PROVE  Kept
  BY <1>1, StartEffect DEF In, Busy, Cleared, Charged
<1>2. ASSUME NEW p \in Proc, NEW s \in Scope, Join(p, s) PROVE Kept
  BY <1>2, JoinEffect DEF In, Busy, Runs, Phase
<1>3. ASSUME NEW p \in Proc, End(p), Runs(p) PROVE Kept
  BY <1>3, EndEffect DEF In, Busy
<1>4. ASSUME NEW p \in Proc, Sign(p)
      PROVE  \/ Kept
             \/ /\ ~In(q, Cleared) /\ job'[q].scope = job[q].scope
                /\ job'[q].approval = None /\ ~(Amount(q) > threshold)
                /\ UNCHANGED approval
  <2>1. job[p] \in Call
    BY <1>4, CallTypes DEF Sign, Runs, In, Phase
  <2>2. CASE q # p
    BY <1>4, <2>2 DEF Sign, TypeOK, In, Busy
  <2>3. CASE q = p
    <3>1. job'[q] = [job[q] EXCEPT !.phase = "sign", !.approval = None]
      BY <1>4, <2>3 DEF Sign, TypeOK
    <3>2. ~(Amount(q) > threshold) /\ ~In(q, Cleared) /\ UNCHANGED approval
      BY <1>4, <2>3 DEF Sign, Decision, In, Cleared, Charged
    <3> QED
      BY <2>1, <2>3, <3>1, <3>2 DEF Call
  <2> QED
    BY <2>2, <2>3
<1>5. ASSUME NEW p \in Proc, Redeem(p), Goto(p, "sign"),
             approval[job[p].approval].decision = "approved"
      PROVE  \/ Kept
             \/ /\ ~In(q, Cleared) /\ job'[q].scope = job[q].scope
                /\ job'[q].approval \in ApprovalId
                /\ \A s \in Quote : ~Spent(job'[q].approval, s)
                /\ Spent(job[q].approval, QuoteOf(q))'
                /\ \A r \in Proc \ {q} : job'[r] = job[r]
  <2>1. job[p] \in Call /\ Runs(p) /\ QuoteOf(p) \in Quote
    BY <1>5, CallTypes DEF Redeem, Runs, In, Phase
  <2>2. \A r \in Proc \ {p} : job'[r] = job[r]
    BY <1>5, <2>1, GotoEffect DEF Phase, Cleared
  <2>3. CASE q # p
    BY <2>2, <2>3 DEF In, Busy
  <2>4. CASE q = p
    <3>1. job'[q] = [job[q] EXCEPT !.phase = "sign"]
      BY <1>5, <2>1, <2>4, GotoEffect DEF Phase, Cleared
    <3>2. job'[q].scope = job[q].scope /\ job'[q].approval = job[q].approval
      BY <2>1, <2>4, <3>1 DEF Call
    <3> DEFINE id == job[q].approval
    <3>3. id \in ApprovalId
      BY <1>5, <2>1, <2>4 DEF Redeem, Call, MaybeApproval
    <3>4. /\ approval[id].status \in A!Decision /\ approval[id].subject = QuoteOf(q)
          /\ approval[id].decision = "approved"
          /\ approval' = [approval EXCEPT ![id].status = "consumed"]
      BY <1>5, <2>4 DEF Redeem, Consume, A!Consume, A!Redeemable
    <3>5. approval[id] \in A!Row
      BY <3>3, <3>4 DEF TypeOK, A!TypeOK, A!Decision, A!NoRow
    <3>6. \A s \in Quote : ~Spent(id, s)
      BY <3>4 DEF Spent, A!Decision
    <3>7. approval'[id] = [status |-> "consumed", decision |-> "approved",
                           subject |-> QuoteOf(q)]
      BY <3>3, <3>4, <3>5 DEF TypeOK, A!TypeOK, A!Row
    <3>8. ~In(q, Cleared)
      BY <1>5, <2>4 DEF Redeem, In, Cleared, Charged
    <3> QED
      BY <2>2, <2>4, <3>2, <3>3, <3>6, <3>7, <3>8 DEF Spent, QuoteOf
  <2> QED
    BY <2>3, <2>4
<1>6. ASSUME NEW p \in Proc, Settle(p) PROVE Kept
  <2>1. In(p, Cleared)
    BY <1>6 DEF Settle, In, Cleared
  <2> QED
    BY <1>6, <2>1, SettleEffect DEF In, Busy
<1>7. ASSUME NEW p \in Proc, Record(p), Goto(p, "rate") PROVE Kept
  <2>1. Runs(p) /\ job[p] \in Call /\ In(p, Cleared)
    BY <1>7, CallTypes DEF Record, Runs, In, Phase, Cleared, Charged
  <2>2. /\ job'[p] = [job[p] EXCEPT !.phase = "rate"]
        /\ \A r \in Proc \ {p} : job'[r] = job[r]
    BY <1>7, <2>1, GotoEffect DEF Phase, Cleared, Charged
  <2> QED
    BY <2>1, <2>2 DEF In, Busy, Call
<1>8. CASE UNCHANGED storeVars
  BY <1>8 DEF storeVars, In, Busy
<1>9. ASSUME NEW p \in Proc, Continue(p)
      PROVE  \/ Sign(p) \/ Settle(p)
             \/ /\ Redeem(p) /\ Goto(p, "sign")
                /\ approval[job[p].approval].decision = "approved"
             \/ Record(p) /\ Goto(p, "rate")
             \/ End(p) /\ Runs(p)
  BY <1>9 DEF Continue, Reject, Deny, Redeem, Park, RailRefuses, Record, RecordSpend,
              Runs, In, Phase, Cleared, Charged
<1> QED
  BY <1>1, <1>2, <1>3, <1>4, <1>5, <1>6, <1>7, <1>8, <1>9
  DEF Next, Receive, Rule, Revoke, Expire, NextDay, vars

(* The parts of a call that has been cleared.                              *)
LEMMA ClearedTypes ==
  ASSUME TypeOK, NEW p \in Proc, In(p, Cleared)
  PROVE  /\ job[p].approval \in MaybeApproval /\ QuoteOf(p) \in Quote /\ Amount(p) \in Nat
         /\ Runs(p)
<1>1. Runs(p)
  BY DEF In, Runs, Phase
<1> QED
  BY <1>1, CallTypes DEF Call, Runs, In

(* The parts of a transfer.                                                *)
LEMMA TransferTypes ==
  ASSUME TypeOK, NEW i \in 1..Len(transfers)
  PROVE  /\ transfers[i] \in Transfer
         /\ transfers[i].approval \in MaybeApproval
         /\ transfers[i].scope \in Scope /\ transfers[i].scope[2] \in Quote
<1>1. transfers[i] \in Transfer
  BY DEF TypeOK
<1>2. transfers[i].scope \in Scope /\ transfers[i].approval \in MaybeApproval
  BY <1>1 DEF Transfer
<1> QED
  BY <1>1, <1>2 DEF Scope

(* The approval threshold never changes.                                   *)
LEMMA ThresholdStays ==
  ASSUME [Next]_vars
  PROVE  UNCHANGED threshold
BY DEF Next, vars, storeVars, moneyVars, envVars, Receive, Continue, Start, Join, Reject, Sign,
       Deny, Redeem, Park, Settle, RailRefuses, Record, RecordSpend, Rule, Revoke, Expire, NextDay

(* What a payment carries was the clearance of its call.                   *)
LEMMA PaidStep ==
  ASSUME TypeOK, ClearedInv, PaidInv, [Next]_vars
  PROVE  PaidInv'
<1>1. CASE UNCHANGED transfers
  BY <1>1, TransferTypes, ThresholdStays, SpentStays DEF PaidInv, MaybeApproval
<1>2. ASSUME NEW p \in Proc, Settle(p) PROVE PaidInv'
  <2> DEFINE new == Len(transfers) + 1
  <2>1. In(p, Cleared)
    BY <1>2 DEF Settle, In, Cleared
  <2>2. /\ job[p].approval \in MaybeApproval /\ QuoteOf(p) \in Quote
        /\ Amount(p) = Price[QuoteOf(p)] /\ job[p].phase = "sign"
    BY <1>2, <2>1, ClearedTypes, SettleEffect DEF Amount
  <2>3. \A i \in 1..Len(transfers') :
          \/ i \in 1..Len(transfers) /\ transfers'[i] = transfers[i]
          \/ i = new /\ transfers'[i].scope = job[p].scope
                     /\ transfers'[i].approval = job[p].approval
    BY <1>2, SettleEffect
  <2>4. \A i \in 1..Len(transfers) :
          job[p].approval # None => transfers[i].approval # job[p].approval
    BY <2>1, <2>2 DEF ClearedInv
  <2>5. ASSUME NEW i \in 1..Len(transfers')
        PROVE  /\ Price[transfers'[i].scope[2]] > threshold => transfers'[i].approval # None
               /\ transfers'[i].approval # None =>
                     Spent(transfers[i].approval, transfers[i].scope[2])'
    <3>1. CASE i \in 1..Len(transfers) /\ transfers'[i] = transfers[i]
      BY <3>1, TransferTypes, SpentStays DEF PaidInv, MaybeApproval, Spent
    <3>2. CASE i = new /\ transfers'[i].scope = job[p].scope
                       /\ transfers'[i].approval = job[p].approval
      <4>1. QuoteOf(p) = transfers'[i].scope[2]
        BY <3>2 DEF QuoteOf
      <4>2. job[p].approval # None => Spent(job[p].approval, QuoteOf(p))
        BY <2>1 DEF ClearedInv
      <4>3. UNCHANGED approval
        BY <1>2 DEF Settle
      <4> QED
        BY <2>1, <2>2, <3>2, <4>1, <4>2, <4>3 DEF ClearedInv, Spent
    <3> QED
      BY <2>3, <3>1, <3>2
  <2>6. ASSUME NEW i \in 1..Len(transfers'), NEW j \in 1..Len(transfers'),
               transfers'[i].approval # None, transfers'[j].approval = transfers'[i].approval
        PROVE  j = i
    BY <2>3, <2>4, <2>6 DEF PaidInv
  <2> QED
    BY <2>5, <2>6, ThresholdStays DEF PaidInv
<1> QED
  BY <1>1, <1>2, NoTransfer

(* The calls that are cleared keep their clearance.                        *)
LEMMA ClearedInvStep ==
  ASSUME TypeOK, RunsInv, ClearedInv, PaidInv, [Next]_vars
  PROVE  ClearedInv'
<1> SUFFICES ASSUME NEW p \in Proc, In(p, Cleared)'
             PROVE  /\ Amount(p)' > threshold => job'[p].approval # None
                    /\ job'[p].approval # None =>
                       /\ Spent(job[p].approval, QuoteOf(p))'
                       /\ \A q \in Proc : In(q, Cleared)' /\ job'[q].approval = job'[p].approval
                                          => q = p
                       /\ job'[p].phase = "sign" => \A i \in 1..Len(transfers') :
                            transfers'[i].approval # job'[p].approval
  BY ThresholdStays DEF ClearedInv
<1>1. ASSUME NEW q \in Proc, In(q, Cleared), job'[q].approval = job[q].approval,
             job[q].approval # None
      PROVE  job[q].approval \in ApprovalId /\ Spent(job[q].approval, QuoteOf(q))
  BY <1>1, ClearedTypes DEF ClearedInv, MaybeApproval
<1>2. CASE /\ In(p, Cleared)
           /\ job'[p].scope = job[p].scope /\ job'[p].approval = job[p].approval
           /\ job'[p].phase = "sign" => job[p].phase = "sign"
  <2>1. QuoteOf(p)' = QuoteOf(p) /\ Amount(p)' = Amount(p) /\ QuoteOf(p) \in Quote
    BY <1>2, ClearedTypes DEF QuoteOf, Amount
  <2>2. Amount(p)' > threshold => job'[p].approval # None
    BY <1>2, <2>1 DEF ClearedInv
  <2> SUFFICES ASSUME job[p].approval # None
               PROVE  /\ Spent(job[p].approval, QuoteOf(p))'
                      /\ \A q \in Proc : In(q, Cleared)' /\ job'[q].approval = job'[p].approval
                                         => q = p
                      /\ job'[p].phase = "sign" => \A i \in 1..Len(transfers') :
                           transfers'[i].approval # job'[p].approval
    BY <1>2, <2>2
  <2>3. Spent(job[p].approval, QuoteOf(p))' /\ job[p].approval \in ApprovalId
    <3>1. approval'[job[p].approval]
            = [status |-> "consumed", decision |-> "approved", subject |-> QuoteOf(p)]
      BY <1>1, <1>2, <2>1, SpentStays DEF Spent
    <3> QED
      BY <1>1, <1>2, <2>1, <3>1 DEF Spent
  <2>4. ASSUME NEW q \in Proc, In(q, Cleared)', job'[q].approval = job'[p].approval
        PROVE  q = p
    <3>1. In(q, Cleared) /\ job'[q].approval = job[q].approval
      BY <1>1, <1>2, <2>1, <2>3, <2>4, ClearedStep, PaymentAssumption
    <3> QED
      BY <1>2, <2>4, <3>1 DEF ClearedInv
  <2>5. ASSUME job'[p].phase = "sign", NEW i \in 1..Len(transfers')
        PROVE  transfers'[i].approval # job'[p].approval
    <3>1. \A k \in 1..Len(transfers) : transfers[k].approval # job[p].approval
      BY <1>2, <2>5 DEF ClearedInv
    <3>2. CASE UNCHANGED transfers
      BY <1>2, <3>1, <3>2
    <3>3. ASSUME NEW q \in Proc, Settle(q) PROVE transfers'[i].approval # job'[p].approval
      <4>1. q # p /\ In(q, Cleared)
        BY <2>5, <3>3, SettleEffect DEF Settle, In, Cleared
      <4>2. job[q].approval # job[p].approval
        BY <1>2, <4>1 DEF ClearedInv
      <4>3. \/ i \in 1..Len(transfers) /\ transfers'[i] = transfers[i]
            \/ transfers'[i].approval = job[q].approval
        BY <3>3, SettleEffect
      <4> QED
        BY <1>2, <3>1, <4>2, <4>3
    <3> QED
      BY <3>2, <3>3, NoTransfer
  <2> QED
    BY <2>3, <2>4, <2>5
<1>3. CASE /\ ~In(p, Cleared) /\ job'[p].scope = job[p].scope
           /\ job'[p].approval = None /\ ~(Amount(p) > threshold)
  BY <1>3 DEF QuoteOf, Amount
<1>4. CASE /\ ~In(p, Cleared) /\ job'[p].scope = job[p].scope
           /\ job'[p].approval \in ApprovalId
           /\ \A s \in Quote : ~Spent(job'[p].approval, s)
           /\ Spent(job[p].approval, QuoteOf(p))'
           /\ \A q \in Proc \ {p} : job'[q] = job[q]
  <2>1. job'[p].approval # None
    BY <1>4, PaymentAssumption
  <2>2. ASSUME NEW q \in Proc \ {p}, In(q, Cleared)' PROVE job'[q].approval # job'[p].approval
    <3>1. In(q, Cleared) /\ job'[q].approval = job[q].approval
      BY <1>4, <2>2 DEF In, Busy
    <3> QED
      BY <1>4, <2>1, <3>1, ClearedTypes DEF ClearedInv
  <2>3. ASSUME NEW i \in 1..Len(transfers') PROVE transfers'[i].approval # job'[p].approval
    <3>1. UNCHANGED transfers
      <4>1. ASSUME NEW q \in Proc, Settle(q) PROVE FALSE
        <5>1. In(q, Cleared) /\ job'[q] # job[q]
          BY <4>1, SettleEffect DEF Settle, In, Cleared, Charged, Unpaid
        <5> QED
          BY <1>4, <5>1
      <4> QED
        BY <4>1, NoTransfer
    <3> QED
      BY <1>4, <2>1, <2>3, <3>1, TransferTypes DEF PaidInv
  <2> QED
    BY <1>4, <2>1, <2>2, <2>3
<1> QED
  BY <1>2, <1>3, <1>4, ClearedStep

-----------------------------------------------------------------------------
(* Scopes, when every receipt is taken.                                    *)

(* A scope that has paid stays so, and one that runs is not done.          *)
LEMMA DoneStep ==
  ASSUME TypeOK, RunsInv, ScopeInv, [Next]_vars
  PROVE  /\ \A s \in running' : done'[s] = "none"
         /\ \A s \in Scope : done[s] = "receipt" => done'[s] = "receipt"
<1>1. ASSUME NEW p \in Proc, NEW s \in Scope, NEW n \in Nonce, NEW id \in MaybeApproval,
             Start(p, s, n, id)
      PROVE  done' = done /\ \A t \in running' : done[t] = "none"
  BY <1>1 DEF Start, Free, ScopeInv
<1>2. ASSUME NEW p \in Proc, NEW value, job[p].scope \in Scope, Runs(p), End(p),
             done' = [done EXCEPT ![job[p].scope] = value]
      PROVE  /\ \A s \in running' : done'[s] = "none"
             /\ \A s \in Scope : done[s] = "receipt" => done'[s] = "receipt"
  <2>1. done[job[p].scope] = "none"
    BY <1>2 DEF RunsInv, ScopeInv
  <2> QED
    BY <1>2, <2>1, EndEffect DEF ScopeInv, TypeOK
<1>3. ASSUME NEW p \in Proc, Continue(p)
      PROVE  \/ done' = done /\ running' \subseteq running
             \/ /\ job[p].scope \in Scope /\ Runs(p) /\ End(p)
                /\ \E value : done' = [done EXCEPT ![job[p].scope] = value]
  <2>1. Runs(p) /\ job[p].scope \in Scope
    BY <1>3, CallTypes DEF Continue, Reject, Sign, Deny, Redeem, Park, Settle, RailRefuses,
                          Record, RecordSpend, Runs, In, Phase, Cleared, Charged
  <2> QED
    BY <1>3, <2>1 DEF Continue, Reject, Sign, Deny, Redeem, Park, Settle, RailRefuses,
                      Record, RecordSpend, End
<1>4. CASE UNCHANGED storeVars
  BY <1>4 DEF storeVars, ScopeInv
<1>5. ASSUME NEW p \in Proc, NEW s \in Scope, Join(p, s)
      PROVE  done' = done /\ running' = running
  BY <1>5 DEF Join
<1> QED
  BY <1>1, <1>2, <1>3, <1>4, <1>5
  DEF ScopeInv, Next, Receive, Rule, Revoke, Expire, NextDay, vars

(* A call that has charged goes on until its receipt is what a replay      *)
(* answers.                                                                *)
LEMMA ChargedStep ==
  ASSUME ~Clash, TypeOK, RunsInv, [Next]_vars, NEW p \in Proc, In(p, Charged)
  PROVE  \/ In(p, Charged)' /\ job'[p].scope = job[p].scope
         \/ done'[job[p].scope] = "receipt"
<1>1. Runs(p) /\ job[p] \in Call /\ job[p].scope \in Scope
  BY CallTypes DEF Runs, In, Phase, Cleared, Call
<1>2. ASSUME NEW q \in Proc, q # p, Continue(q)
      PROVE  In(p, Charged)' /\ job'[p].scope = job[p].scope
  <2>1. Runs(q) /\ (\/ End(q) \/ Sign(q) \/ \E phase \in Phase : Goto(q, phase))
    BY <1>2 DEF Continue, Reject, Sign, Deny, Redeem, Park, Settle, RailRefuses, Record,
                RecordSpend, Runs, In, Phase, Cleared, Charged
  <2>2. CASE End(q)
    BY <1>1, <1>2, <2>2 DEF End, Joined, TypeOK, In, Busy, Charged
  <2>3. CASE Sign(q)
    BY <1>2, <2>3 DEF Sign, TypeOK, In, Busy
  <2>4. ASSUME NEW phase \in Phase, Goto(q, phase) PROVE job'[p] = job[p]
    BY <1>2, <2>4 DEF Goto, TypeOK
  <2> QED
    BY <2>1, <2>2, <2>3, <2>4 DEF In, Busy
<1>3. CASE Record(p)
  <2>1. Goto(p, "rate")
    BY <1>3 DEF Record
  <2>2. job'[p] = [job[p] EXCEPT !.phase = "rate"]
    BY <2>1 DEF Goto, TypeOK
  <2> QED
    BY <1>1, <2>2 DEF In, Busy, Idle, Call, Charged
<1>4. CASE RecordSpend(p)
  BY <1>1, <1>4 DEF RecordSpend, TypeOK
<1>5. ASSUME NEW q \in Proc, NEW s \in Scope, NEW n \in Nonce, NEW id \in MaybeApproval,
             Start(q, s, n, id)
      PROVE  job'[p] = job[p]
  BY <1>5, StartEffect DEF In
<1>6. ASSUME NEW q \in Proc, NEW s \in Scope, Join(q, s) PROVE job'[p] = job[p]
  BY <1>1, <1>6, JoinEffect
<1>7. CASE UNCHANGED storeVars
  BY <1>7 DEF storeVars, In, Busy
<1>8. Continue(p) => Record(p) \/ RecordSpend(p)
  BY DEF Continue, Reject, Sign, Deny, Redeem, Park, Settle, RailRefuses, In, Charged
<1> QED
  BY <1>2, <1>3, <1>4, <1>5, <1>6, <1>7, <1>8
  DEF Next, Receive, Rule, Revoke, Expire, NextDay, vars, In, Busy

(* Every step keeps a scope that has paid running or done.                 *)
LEMMA ScopeStep ==
  ASSUME ~Clash, TypeOK, RunsInv, ScopeInv, [Next]_vars
  PROVE  ScopeInv'
<1> DEFINE Has(s) == \/ done[s] = "receipt"
                     \/ \E p \in Proc : In(p, Charged) /\ job[p].scope = s
<1>1. ASSUME NEW i \in 1..Len(transfers) PROVE Has(transfers[i].scope)'
  <2> DEFINE s == transfers[i].scope
  <2>1. s \in Scope /\ Has(s)
    BY TransferTypes DEF ScopeInv
  <2>2. CASE done[s] = "receipt"
    <3>1. done'[s] = "receipt"
      BY <2>1, <2>2, DoneStep
    <3>2. CASE UNCHANGED transfers
      BY <3>1, <3>2
    <3>3. ASSUME NEW p \in Proc, Settle(p) PROVE transfers'[i].scope = s
      BY <3>3, SettleEffect
    <3> QED
      BY <3>1, <3>2, <3>3, NoTransfer
  <2>3. ASSUME NEW p \in Proc, In(p, Charged), job[p].scope = s PROVE Has(s)'
    <3>1. transfers'[i] = transfers[i]
      BY SettleEffect, NoTransfer
    <3>2. \/ In(p, Charged)' /\ job'[p].scope = s
          \/ done'[s] = "receipt"
      BY <2>3, ChargedStep
    <3> QED
      BY <3>1, <3>2
  <2> QED
    BY <2>1, <2>2, <2>3
<1>2. ASSUME NEW i \in 1..Len(transfers), NEW q \in Proc, Unpaid(q)'
      PROVE  job'[q].scope # transfers[i].scope
  <2>1. CASE Unpaid(q) /\ job'[q].scope = job[q].scope
    BY <2>1 DEF ScopeInv, Unpaid
  <2>2. CASE job'[q].scope \notin running /\ done[job'[q].scope] = "none"
    BY <2>2 DEF ScopeInv, RunsInv, In, Runs, Phase, Cleared
  <2> QED
    BY <1>2, <2>1, <2>2, UnpaidStep
<1>3. CASE UNCHANGED transfers
  BY <1>1, <1>2, <1>3, DoneStep DEF ScopeInv, ChargedOnce, Unpaid
<1>4. ASSUME NEW p \in Proc, Settle(p) PROVE ScopeInv'
  <2>1. \A i \in 1..Len(transfers) : transfers[i].scope # job[p].scope
    BY <1>4, SettleEffect DEF ScopeInv, Unpaid
  <2>2. \A i \in 1..Len(transfers') :
          \/ i \in 1..Len(transfers) /\ transfers'[i] = transfers[i]
          \/ i = Len(transfers) + 1 /\ transfers'[i].scope = job[p].scope
    BY <1>4, SettleEffect
  <2>3. Has(job[p].scope)'
    BY <1>4, SettleEffect
  <2>4. \A q \in Proc : Unpaid(q)' => job'[q].scope # job[p].scope
    <3>1. \A q \in Proc : Unpaid(q)' => q # p /\ Runs(q) /\ job'[q].scope = job[q].scope
      BY <1>4, SettleEffect DEF Unpaid, In, Busy, Runs, Phase, Cleared
    <3> QED
      BY <1>4, <3>1, SettleEffect DEF RunsInv
  <2>5. ChargedOnce'
    BY <2>1, <2>2 DEF ScopeInv, ChargedOnce
  <2>6. \A i \in 1..Len(transfers') :
          /\ \/ done'[transfers'[i].scope] = "receipt"
             \/ \E q \in Proc : In(q, Charged)' /\ job'[q].scope = transfers'[i].scope
          /\ \A q \in Proc : Unpaid(q)' => job'[q].scope # transfers'[i].scope
    <3> SUFFICES ASSUME NEW i \in 1..Len(transfers')
                 PROVE  /\ Has(transfers[i].scope)'
                        /\ \A q \in Proc : Unpaid(q)' => job'[q].scope # transfers'[i].scope
      OBVIOUS
    <3>1. CASE i \in 1..Len(transfers) /\ transfers'[i] = transfers[i]
      BY <1>1, <1>2, <3>1
    <3>2. CASE transfers'[i].scope = job[p].scope
      BY <2>3, <2>4, <3>2, <1>4, SettleEffect
    <3> QED
      BY <2>2, <3>1, <3>2
  <2> QED
    BY <2>5, <2>6, DoneStep DEF ScopeInv, Unpaid
<1> QED
  BY <1>3, <1>4, NoTransfer
-----------------------------------------------------------------------------
(* Money: what the calls have committed, and what the books say.           *)

Part(p, phases) == IF In(p, phases) THEN Amount(p) ELSE 0

Receipts == {p \in Proc : In(p, {"receipt"})}

(* What a call has committed is an amount of money.                        *)
LEMMA PartTypes ==
  TypeOK => \A p \in Proc : Part(p, Charged) \in Nat /\ Part(p, Cleared) \in Nat
BY CallTypes DEF Part, In

(* And so it is after a step.                                              *)
LEMMA PartTypesNext ==
  (TypeOK => \A p \in Proc : Part(p, Charged) \in Nat /\ Part(p, Cleared) \in Nat)'
BY PartTypes, PTL

(* What the calls have committed is an amount, and changes by what the one *)
(* that moves commits.                                                     *)
LEMMA CommittedChanges ==
  ASSUME NEW phases, NEW p \in Proc,
         \A q \in Proc : Part(q, phases) \in Nat /\ Part(q, phases)' \in Nat,
         \A q \in Proc \ {p} : Part(q, phases)' = Part(q, phases)
  PROVE  /\ CommittedBy(phases) \in Int
         /\ CommittedBy(phases)' = CommittedBy(phases) - Part(p, phases) + Part(p, phases)'
<1>1. PICK f : f = [q \in Proc |-> Part(q, phases)]
  OBVIOUS
<1>2. PICK g : g = [q \in Proc |-> Part(q, phases)']
  OBVIOUS
<1>3. IsFiniteSet(Proc)
  BY PaymentAssumption
<1>4. /\ \A q \in Proc : f[q] \in Int /\ g[q] \in Int
      /\ \A q \in Proc \ {p} : g[q] = f[q]
      /\ f[p] = Part(p, phases) /\ g[p] = Part(p, phases)'
  BY <1>1, <1>2
<1>5. /\ CommittedBy(phases) = SumFunctionOnSet(f, Proc)
      /\ CommittedBy(phases)' = SumFunctionOnSet(g, Proc)
  BY <1>1, <1>2 DEF CommittedBy, Part
<1>6. SumFunctionOnSet(f, Proc) \in Int
  BY <1>3, <1>4, SumInt
<1>7. SumFunctionOnSet(g, Proc) = SumFunctionOnSet(f, Proc) - f[p] + g[p]
  BY <1>3, <1>4, SumUpdate
<1> QED
  BY <1>4, <1>5, <1>6, <1>7

(* The commitments and the receipts due as they are after a step of p that *)
(* leaves what it commits itself at a and b.                               *)
Commits(p, a, b) ==
  /\ CommittedBy(Charged)' = CommittedBy(Charged) - Part(p, Charged) + a
  /\ CommittedBy(Cleared)' = CommittedBy(Cleared) - Part(p, Cleared) + b

(* A step of one call changes what that call commits, and nothing of the   *)
(* others.                                                                 *)
LEMMA OnlyOneMoves ==
  ASSUME TypeOK, TypeOK', NEW p \in Proc,
         \A q \in Proc \ {p} : \/ job'[q] = job[q]
                               \/ job[q].phase = "join" /\ job'[q] = Idle
  PROVE  /\ CommittedBy(Charged) \in Int /\ CommittedBy(Cleared) \in Int
         /\ Commits(p, Part(p, Charged)', Part(p, Cleared)')
         /\ Receipts' \ {p} = Receipts \ {p}
<1>1. \A q \in Proc \ {p} : /\ Part(q, Charged)' = Part(q, Charged)
                            /\ Part(q, Cleared)' = Part(q, Cleared)
                            /\ In(q, {"receipt"})' <=> In(q, {"receipt"})
  BY DEF Part, In, Busy, Charged, Cleared, Amount, QuoteOf, Idle
<1>2. \A q \in Proc : Part(q, Charged)' \in Nat /\ Part(q, Cleared)' \in Nat
  BY PartTypesNext
<1>3. \A q \in Proc : /\ Part(q, Charged) \in Nat /\ Part(q, Charged)' \in Nat
                      /\ Part(q, Cleared) \in Nat /\ Part(q, Cleared)' \in Nat
  BY <1>2, PartTypes
<1>4. Receipts' \ {p} = Receipts \ {p}
  BY <1>1 DEF Receipts
<1>5. /\ CommittedBy(Charged) \in Int
      /\ CommittedBy(Charged)' = CommittedBy(Charged) - Part(p, Charged) + Part(p, Charged)'
  BY <1>1, <1>3, CommittedChanges
<1>6. /\ CommittedBy(Cleared) \in Int
      /\ CommittedBy(Cleared)' = CommittedBy(Cleared) - Part(p, Cleared) + Part(p, Cleared)'
  BY <1>1, <1>3, CommittedChanges
<1> QED
  BY <1>4, <1>5, <1>6 DEF Commits

(* A run that ends gives up what it committed.                             *)
LEMMA EndCommits ==
  ASSUME TypeOK, TypeOK', NEW p \in Proc, Runs(p), End(p)
  PROVE  Commits(p, 0, 0) /\ Receipts' = Receipts \ {p}
<1>1. \A q \in Proc \ {p} : \/ job'[q] = job[q]
                            \/ job[q].phase = "join" /\ job'[q] = Idle
  BY DEF TypeOK, End, Joined
<1>2. ~Busy(p)'
  BY EndEffect
<1>3. Part(p, Charged)' = 0 /\ Part(p, Cleared)' = 0 /\ p \notin Receipts'
  BY <1>2 DEF Part, In, Receipts
<1>4. Commits(p, Part(p, Charged)', Part(p, Cleared)') /\ Receipts' \ {p} = Receipts \ {p}
  BY <1>1, OnlyOneMoves
<1> QED
  BY <1>3, <1>4 DEF Commits

(* A run that goes on commits its amount from the time it is cleared.      *)
LEMMA MoveCommits ==
  ASSUME TypeOK, TypeOK', NEW p \in Proc, Runs(p), job'[p].phase \in Cleared,
         job'[p].scope = job[p].scope, Busy(p)',
         \A q \in Proc \ {p} : job'[q] = job[q]
  PROVE  /\ Commits(p, IF job'[p].phase = "sign" THEN 0 ELSE Amount(p), Amount(p))
         /\ Receipts' = IF job'[p].phase = "receipt" THEN Receipts \cup {p} ELSE Receipts \ {p}
<1>1. Commits(p, Part(p, Charged)', Part(p, Cleared)') /\ Receipts' \ {p} = Receipts \ {p}
  BY OnlyOneMoves
<1>2. Amount(p)' = Amount(p)
  BY DEF Amount, QuoteOf
<1>3. /\ Part(p, Charged)' = IF job'[p].phase = "sign" THEN 0 ELSE Amount(p)
      /\ Part(p, Cleared)' = Amount(p)
      /\ p \in Receipts' <=> job'[p].phase = "receipt"
  BY <1>2 DEF Part, In, Receipts, Charged, Cleared
<1> QED
  BY <1>1, <1>3 DEF Commits

(* What a step of a call does to the commitments, the receipts due and the *)
(* books: nothing, ...                                                     *)
Moved(a, b) == /\ CommittedBy(Charged)' = CommittedBy(Charged) + a
               /\ CommittedBy(Cleared)' = CommittedBy(Cleared) + b

Keeps == Moved(0, 0) /\ Receipts' = Receipts /\ UNCHANGED moneyVars

(* ... clear a payment within the caps, ...                                *)
Clears(p) ==
  /\ Part(p, Cleared) = 0 /\ WithinCaps(Amount(p))
  /\ Moved(0, Amount(p)) /\ Receipts' = Receipts /\ UNCHANGED moneyVars

(* ... make it, or be refused, ...                                         *)
Pays(p) == /\ Settle(p) /\ Moved(Amount(p), 0)
           /\ p \notin Receipts /\ Receipts' = Receipts \cup {p}

Refuses(p) == /\ Moved(0, -Amount(p))
              /\ Receipts' = Receipts /\ UNCHANGED moneyVars

(* ... append its receipt, with which the run may throw, or count it.      *)
Books(p) == /\ Record(p) /\ Moved(0, 0)
            /\ p \in Receipts /\ Receipts' = Receipts \ {p}

Throws(p) == Clash /\ Record(p) /\ Moved(-Amount(p), -Amount(p))

Counts(p) == /\ RecordSpend(p) /\ Moved(-Amount(p), -Amount(p))
             /\ Receipts' = Receipts

(* What a call commits in its phase.                                       *)
LEMMA PhaseParts ==
  ASSUME TypeOK, NEW p \in Proc, Runs(p)
  PROVE  /\ Amount(p) \in Nat /\ Amount(p) \in Int
         /\ In(p, {"payload"}) => Part(p, Charged) = 0 /\ Part(p, Cleared) = 0
         /\ In(p, {"sign"}) => Part(p, Charged) = 0 /\ Part(p, Cleared) = Amount(p)
         /\ In(p, Charged) => Part(p, Charged) = Amount(p) /\ Part(p, Cleared) = Amount(p)
         /\ p \in Receipts <=> In(p, {"receipt"})
<1>1. Amount(p) \in Nat
  BY CallTypes DEF Runs, In
<1> QED
  BY <1>1 DEF Part, In, Charged, Cleared, Receipts

(* Every step of a call has one of these outcomes.                         *)
LEMMA Outcomes ==
  ASSUME TypeOK, TypeOK', NEW p \in Proc, Continue(p)
  PROVE  /\ Amount(p) \in Nat /\ CommittedBy(Charged) \in Int /\ CommittedBy(Cleared) \in Int
         /\ UNCHANGED <<day, threshold, delegation>>
         /\ \/ Keeps \/ Clears(p) \/ Pays(p) \/ Refuses(p) \/ Books(p) \/ Throws(p) \/ Counts(p)
<1> USE DEF moneyVars, envVars
<1>1. Runs(p) /\ UNCHANGED <<day, threshold, delegation>>
  BY DEF Continue, Reject, Sign, Deny, Redeem, Park, Settle, RailRefuses, Record, RecordSpend,
         Runs, In, Phase, Cleared, Charged
<1>2. job[p] \in Call /\ Amount(p) \in Nat
  BY <1>1, CallTypes, PhaseParts
<1>3. CommittedBy(Charged) \in Int /\ CommittedBy(Cleared) \in Int
  <2>1. \A q \in Proc : Part(q, Charged) \in Nat /\ Part(q, Cleared) \in Nat
    BY PartTypes
  <2>2. IsFiniteSet(Proc)
    BY PaymentAssumption
  <2>3. PICK f : f = [q \in Proc |-> Part(q, Charged)]
    OBVIOUS
  <2>4. PICK g : g = [q \in Proc |-> Part(q, Cleared)]
    OBVIOUS
  <2>5. (\A q \in Proc : f[q] \in Int) /\ \A q \in Proc : g[q] \in Int
    BY <2>1, <2>3, <2>4
  <2>6. SumFunctionOnSet(f, Proc) \in Int /\ SumFunctionOnSet(g, Proc) \in Int
    BY <2>2, <2>5, SumInt
  <2> QED
    BY <2>3, <2>4, <2>6 DEF CommittedBy, Part
<1>4. CASE End(p) /\ In(p, {"payload"}) /\ UNCHANGED moneyVars
  BY <1>1, <1>2, <1>3, <1>4, EndCommits, PhaseParts DEF Commits, Keeps, Moved, Receipts, In
<1>5. CASE RailRefuses(p)
  <2>1. End(p) /\ In(p, {"sign"}) /\ UNCHANGED moneyVars
    BY <1>5 DEF RailRefuses
  <2> QED
    BY <1>1, <1>2, <1>3, <2>1, EndCommits, PhaseParts
    DEF Commits, Refuses, Moved, Receipts, In
<1>6. CASE RecordSpend(p)
  <2>1. End(p) /\ In(p, {"rate"}) /\ In(p, Charged)
    BY <1>6 DEF RecordSpend, In, Charged
  <2> QED
    BY <1>1, <1>2, <1>3, <1>6, <2>1, EndCommits, PhaseParts
    DEF Commits, Counts, Moved, Receipts, In
<1>7. CASE Record(p) /\ Clash
  <2>1. End(p) /\ In(p, Charged)
    BY <1>7 DEF Record, In, Charged
  <2> QED
    BY <1>1, <1>2, <1>3, <1>7, <2>1, EndCommits, PhaseParts DEF Commits, Throws, Moved
<1>8. ASSUME NEW phase \in Cleared, Goto(p, phase)
      PROVE  /\ Commits(p, IF phase = "sign" THEN 0 ELSE Amount(p), Amount(p))
             /\ Receipts' = IF phase = "receipt" THEN Receipts \cup {p} ELSE Receipts \ {p}
  <2>1. phase \in Phase
    BY DEF Phase
  <2>2. /\ Busy(p)' /\ job'[p] = [job[p] EXCEPT !.phase = phase]
        /\ \A q \in Proc \ {p} : job'[q] = job[q]
    BY <1>1, <1>8, <2>1, GotoEffect
  <2>3. job'[p].phase = phase /\ job'[p].scope = job[p].scope
    BY <1>2, <2>2 DEF Call
  <2> QED
    BY <1>1, <2>2, <2>3, MoveCommits
<1>9. CASE Record(p) /\ ~Clash
  <2>1. Goto(p, "rate") /\ In(p, {"receipt"}) /\ In(p, Charged) /\ "rate" \in Cleared
    BY <1>9 DEF Record, In, Charged, Cleared
  <2>2. Commits(p, Amount(p), Amount(p)) /\ Receipts' = Receipts \ {p}
    BY <1>8, <2>1
  <2> QED
    BY <1>1, <1>2, <1>3, <1>9, <2>1, <2>2, PhaseParts DEF Commits, Books, Moved
<1>10. CASE Settle(p)
  <2>1. Goto(p, "receipt") /\ In(p, {"sign"}) /\ "receipt" \in Cleared /\ ~In(p, {"receipt"})
    BY <1>10 DEF Settle, In, Charged, Cleared
  <2>2. Commits(p, Amount(p), Amount(p)) /\ Receipts' = Receipts \cup {p}
    BY <1>8, <2>1
  <2> QED
    BY <1>1, <1>2, <1>3, <1>10, <2>1, <2>2, PhaseParts DEF Commits, Pays, Moved
<1>11. CASE Redeem(p) /\ Goto(p, "sign")
  <2>1. In(p, {"payload"}) /\ "sign" \in Cleared /\ ~In(p, {"receipt"})
        /\ WithinCaps(Amount(p)) /\ UNCHANGED moneyVars
    BY <1>11 DEF Redeem, Decision, In, Cleared
  <2>2. Commits(p, 0, Amount(p)) /\ Receipts' = Receipts \ {p}
    BY <1>8, <1>11, <2>1
  <2> QED
    BY <1>1, <1>2, <1>3, <2>1, <2>2, PhaseParts DEF Commits, Clears, Moved
<1>12. CASE Sign(p)
  <2>1. In(p, {"payload"}) /\ "sign" \in Cleared /\ ~In(p, {"receipt"})
        /\ WithinCaps(Amount(p)) /\ UNCHANGED moneyVars
    BY <1>12 DEF Sign, Decision, In, Cleared
  <2>2. /\ job'[p] = [job[p] EXCEPT !.phase = "sign", !.approval = None]
        /\ \A q \in Proc \ {p} : job'[q] = job[q]
    BY <1>12 DEF Sign, TypeOK
  <2>3. job'[p].phase = "sign" /\ job'[p].scope = job[p].scope /\ Busy(p)'
    BY <1>2, <2>2 DEF Call, Busy, Idle
  <2>4. Commits(p, 0, Amount(p)) /\ Receipts' = Receipts \ {p}
    BY <1>1, <2>1, <2>2, <2>3, MoveCommits
  <2> QED
    BY <1>1, <1>2, <1>3, <2>1, <2>4, PhaseParts DEF Commits, Clears, Moved
<1>13. \/ End(p) /\ In(p, {"payload"}) /\ UNCHANGED moneyVars
       \/ RailRefuses(p) \/ RecordSpend(p) \/ Record(p) \/ Settle(p) \/ Sign(p)
       \/ Redeem(p) /\ Goto(p, "sign")
  BY DEF Continue, Reject, Deny, Redeem, Park
<1> QED
  BY <1>1, <1>2, <1>3, <1>4, <1>5, <1>6, <1>7, <1>9, <1>10, <1>11, <1>12, <1>13

(* Whatever else happens commits nothing and leaves the books alone.       *)
LEMMA OthersKeep ==
  ASSUME TypeOK, TypeOK', [Next]_vars, ~\E p \in Proc : Continue(p)
  PROVE  Keeps /\ CommittedBy(Charged) \in Int /\ CommittedBy(Cleared) \in Int
<1>1. UNCHANGED moneyVars
  BY DEF Next, Receive, Start, Join, Rule, Revoke, Expire, NextDay, vars
<1>2. \A q \in Proc : /\ Part(q, Charged)' = Part(q, Charged)
                      /\ Part(q, Cleared)' = Part(q, Cleared)
                      /\ In(q, {"receipt"})' <=> In(q, {"receipt"})
  <2>1. ASSUME NEW p \in Proc, NEW q \in Proc,
               \/ job'[q] = job[q]
               \/ ~In(q, Cleared) /\ ~In(q, Cleared)'
        PROVE  /\ Part(q, Charged)' = Part(q, Charged)
               /\ Part(q, Cleared)' = Part(q, Cleared)
               /\ In(q, {"receipt"})' <=> In(q, {"receipt"})
    BY <2>1 DEF Part, In, Busy, Amount, QuoteOf, Charged, Cleared
  <2>2. ASSUME NEW p \in Proc, NEW s \in Scope, NEW n \in Nonce, NEW id \in MaybeApproval,
               Start(p, s, n, id), NEW q \in Proc
        PROVE  job'[q] = job[q] \/ (~In(q, Cleared) /\ ~In(q, Cleared)')
    BY <2>2, StartEffect DEF In, Busy, Cleared, Charged
  <2>3. ASSUME NEW p \in Proc, NEW s \in Scope, Join(p, s), NEW q \in Proc
        PROVE  job'[q] = job[q] \/ (~In(q, Cleared) /\ ~In(q, Cleared)')
    BY <2>3, JoinEffect DEF Runs, In, Busy, Phase
  <2>4. CASE UNCHANGED storeVars
    BY <2>1, <2>4 DEF storeVars
  <2> QED
    BY <2>1, <2>2, <2>3, <2>4
    DEF Next, Receive, Rule, Revoke, Expire, NextDay, vars
<1>3. PICK p \in Proc : TRUE
  BY PaymentAssumption
<1>4. \A q \in Proc : /\ Part(q, Charged) \in Nat /\ Part(q, Charged)' \in Nat
                      /\ Part(q, Cleared) \in Nat /\ Part(q, Cleared)' \in Nat
  BY PartTypes, PartTypesNext
<1>5. /\ CommittedBy(Charged) \in Int
      /\ CommittedBy(Charged)' = CommittedBy(Charged) - Part(p, Charged) + Part(p, Charged)'
  BY <1>2, <1>4, CommittedChanges
<1>6. /\ CommittedBy(Cleared) \in Int
      /\ CommittedBy(Cleared)' = CommittedBy(Cleared) - Part(p, Cleared) + Part(p, Cleared)'
  BY <1>2, <1>4, CommittedChanges
<1>7. Receipts' = Receipts
  BY <1>2 DEF Receipts
<1> QED
  BY <1>1, <1>2, <1>4, <1>5, <1>6, <1>7 DEF Keeps, Moved

-----------------------------------------------------------------------------
(* The caps.                                                               *)

(* A cleared payment is within the cap of one transaction, and the day     *)
(* the spend was counted on is not to come.                                *)
CapsInv ==
  /\ \A p \in Proc : In(p, Cleared) => Amount(p) <= PerTx
  /\ spend.bucket <= day

(* Every step keeps the cleared payments within it.                        *)
LEMMA CapsStep ==
  ASSUME TypeOK, RunsInv, CapsInv, [Next]_vars
  PROVE  CapsInv'
<1>1. ASSUME NEW q \in Proc, In(q, Cleared)' PROVE Amount(q)' <= PerTx
  <2>1. job'[q].scope = job[q].scope
    BY <1>1, ClearedStep
  <2>2. Amount(q)' = Amount(q)
    BY <2>1 DEF Amount, QuoteOf
  <2>3. ASSUME ~In(q, Cleared) PROVE WithinCaps(Amount(q))
    <3>1. ASSUME NEW p \in Proc, Continue(p) PROVE WithinCaps(Amount(q))
      <4>1. Runs(p)
        BY <3>1 DEF Continue, Reject, Sign, Deny, Redeem, Park, Settle, RailRefuses, Record,
                    RecordSpend, Runs, In, Phase, Cleared, Charged
      <4>2. ~End(p)
        BY <1>1, <2>3, <4>1, EndEffect DEF In, Busy
      <4>3. CASE Settle(p)
        BY <1>1, <2>3, <4>3, SettleEffect DEF Settle, In, Busy, Cleared
      <4>4. CASE Record(p)
        <5>1. In(p, Cleared) /\ Goto(p, "rate")
          BY <4>2, <4>4 DEF Record, In, Cleared, Charged
        <5> QED
          BY <1>1, <2>3, <5>1 DEF Goto, TypeOK, In, Busy
      <4>5. CASE Sign(p) \/ (Redeem(p) /\ Goto(p, "sign"))
        <5>1. WithinCaps(Amount(p))
          BY <4>5 DEF Sign, Redeem, Decision
        <5>2. q # p => job'[q] = job[q]
          BY <4>5 DEF Sign, Goto, TypeOK
        <5> QED
          BY <1>1, <2>3, <5>1, <5>2 DEF In, Busy
      <4> QED
        BY <3>1, <4>2, <4>3, <4>4, <4>5
        DEF Continue, Reject, Deny, Redeem, Park, RailRefuses, RecordSpend
    <3>2. ASSUME NEW p \in Proc, NEW s \in Scope, NEW n \in Nonce, NEW id \in MaybeApproval,
                 Start(p, s, n, id)
          PROVE  FALSE
      BY <1>1, <2>3, <3>2, StartEffect DEF In, Busy, Cleared, Charged
    <3>3. ASSUME NEW p \in Proc, NEW s \in Scope, Join(p, s) PROVE FALSE
      BY <1>1, <2>3, <3>3, JoinEffect DEF In, Busy, Runs, Phase
    <3>4. CASE UNCHANGED storeVars
      BY <1>1, <2>3, <3>4 DEF storeVars, In, Busy
    <3> QED
      BY <3>1, <3>2, <3>3, <3>4 DEF Next, Receive, Rule, Revoke, Expire, NextDay, vars
  <2> QED
    BY <2>2, <2>3 DEF CapsInv, WithinCaps
<1>2. (spend.bucket <= day)'
  <2>1. day \in Nat /\ spend.bucket \in Nat /\ spend.bucket <= day
    BY PaymentAssumption DEF TypeOK, CapsInv
  <2>2. day' = day \/ day' = day + 1
    BY DEF Next, vars, envVars, Receive, Continue, Start, Join, Reject, Sign, Deny, Redeem, Park,
           Settle, RailRefuses, Record, RecordSpend, Rule, Revoke, Expire, NextDay
  <2>3. spend' = spend \/ spend'.bucket = day
    <3>1. spend' = spend \/ \E p \in Proc : RecordSpend(p)
      BY DEF Next, vars, moneyVars, Receive, Continue, Start, Join, Reject, Sign, Deny, Redeem,
             Park, Settle, RailRefuses, Record, Rule, Revoke, Expire, NextDay
    <3> QED
      BY <3>1 DEF RecordSpend, SpendRow
  <2> QED
    BY <2>1, <2>2, <2>3
<1> QED
  BY <1>1, <1>2 DEF CapsInv

(* What the other calls may have committed beside a call that is cleared.  *)
Slack == (Cardinality(Proc) - 1) * PerTx

(* It is an amount of money.                                               *)
LEMMA SlackIsNat == Slack \in Nat
<1>1. IsFiniteSet(Proc) /\ Proc # {} /\ PerTx \in Nat
  BY PaymentAssumption
<1>2. PICK n \in Nat : n = Cardinality(Proc) - 1
  BY <1>1, FS_EmptySet, FS_CardinalityType
<1>3. n * PerTx \in Nat
  BY <1>1
<1> QED
  BY <1>2, <1>3 DEF Slack

(* Beside a call that has committed nothing, the others are within the     *)
(* slack.                                                                  *)
LEMMA OthersWithinSlack ==
  ASSUME TypeOK, CapsInv, NEW p \in Proc, Part(p, Cleared) = 0
  PROVE  CommittedBy(Cleared) <= Slack
<1>1. PICK f : f = [q \in Proc |-> Part(q, Cleared)]
  OBVIOUS
<1>2. IsFiniteSet(Proc) /\ PerTx \in Nat
  BY PaymentAssumption
<1>3. \A q \in Proc : f[q] \in Int /\ f[q] <= PerTx
  BY <1>1, <1>2, PartTypes DEF CapsInv, Part
<1>4. SumFunctionOnSet(f, Proc) = f[p] + SumFunctionOnSet(f, Proc \ {p})
  BY <1>2, <1>3, SumRemove
<1>5. IsFiniteSet(Proc \ {p}) /\ Cardinality(Proc \ {p}) = Cardinality(Proc) - 1
  BY <1>2, FS_RemoveElement
<1>6. SumFunctionOnSet(f, Proc \ {p}) <= Cardinality(Proc \ {p}) * PerTx
  BY <1>2, <1>3, <1>5, SumBounded
<1>7. SumFunctionOnSet(f, Proc \ {p}) \in Int
  BY <1>3, <1>5, SumInt
<1>8. f[p] = 0 /\ CommittedBy(Cleared) = SumFunctionOnSet(f, Proc)
  BY <1>1 DEF CommittedBy, Part
<1> QED
  BY <1>4, <1>5, <1>6, <1>7, <1>8 DEF Slack

(* The bound on the overshoot, with the slack under a name.                *)
OvershootInv ==
  /\ spend.total + CommittedBy(Cleared) <= Total + Slack
  /\ SpentToday + CommittedBy(Cleared) <= Daily + Slack

(* Every step keeps the overshoot within the slack.                        *)
LEMMA OvershootStep ==
  ASSUME TypeOK, TypeOK', CapsInv, OvershootInv, [Next]_vars
  PROVE  OvershootInv'
<1>1. /\ spend \in [total : Nat, bucket : Nat, daily : Nat] /\ day \in Nat
      /\ SpentToday \in Nat /\ Slack \in Nat /\ Total \in Nat /\ Daily \in Nat
  BY PaymentAssumption, SlackIsNat DEF TypeOK, SpentToday
<1>2. Slack' = Slack
  BY DEF Slack
<1>3. CASE \E p \in Proc : Continue(p)
  <2>1. PICK p \in Proc : Continue(p)
    BY <1>3
  <2>2. /\ Amount(p) \in Nat /\ CommittedBy(Cleared) \in Int /\ day' = day
        /\ \/ Keeps \/ Clears(p) \/ Pays(p) \/ Refuses(p) \/ Books(p) \/ Throws(p) \/ Counts(p)
    BY <2>1, Outcomes
  <2>3. CASE Clears(p)
    <3>1. CommittedBy(Cleared) <= Slack
      BY <2>3, OthersWithinSlack DEF Clears
    <3>2. /\ SpentToday + Amount(p) <= Daily /\ spend.total + Amount(p) <= Total
          /\ CommittedBy(Cleared)' = CommittedBy(Cleared) + Amount(p)
          /\ spend' = spend /\ SpentToday' = SpentToday
      BY <2>2, <2>3 DEF Clears, WithinCaps, Moved, moneyVars, SpentToday
    <3> QED
      BY <1>1, <1>2, <2>2, <3>1, <3>2 DEF OvershootInv
  <2>4. CASE Counts(p)
    <3>1. /\ spend' = [total |-> spend.total + Amount(p), bucket |-> day,
                       daily |-> SpentToday + Amount(p)]
          /\ CommittedBy(Cleared)' = CommittedBy(Cleared) + (-Amount(p))
      BY <2>4 DEF Counts, Moved, RecordSpend, SpendRow
    <3>2. spend'.total = spend.total + Amount(p) /\ SpentToday' = SpentToday + Amount(p)
      BY <2>2, <3>1 DEF SpentToday
    <3> QED
      BY <1>1, <1>2, <2>2, <3>1, <3>2 DEF OvershootInv
  <2>5. CASE Keeps \/ Pays(p) \/ Refuses(p) \/ Books(p) \/ Throws(p)
    <3>1. spend' = spend /\ SpentToday' = SpentToday
      BY <2>2, <2>5 DEF Keeps, Pays, Refuses, Books, Throws, moneyVars, Settle, Record, SpentToday
    <3>2. \/ CommittedBy(Cleared)' = CommittedBy(Cleared) + 0
          \/ CommittedBy(Cleared)' = CommittedBy(Cleared) + (-Amount(p))
      BY <2>5 DEF Keeps, Pays, Refuses, Books, Throws, Moved
    <3>3. CommittedBy(Cleared)' <= CommittedBy(Cleared) /\ CommittedBy(Cleared)' \in Int
      BY <2>2, <3>2
    <3> QED
      BY <1>1, <1>2, <2>2, <3>1, <3>3 DEF OvershootInv
  <2> QED
    BY <2>2, <2>3, <2>4, <2>5
<1>4. CASE ~\E p \in Proc : Continue(p)
  <2>1. Keeps /\ CommittedBy(Cleared) \in Int
    BY <1>4, OthersKeep
  <2>2. CommittedBy(Cleared)' = CommittedBy(Cleared) /\ spend' = spend
    BY <2>1 DEF Keeps, Moved, moneyVars
  <2>3. day' = day \/ day' = day + 1
    BY <1>4 DEF Next, vars, envVars, Receive, Start, Join, Rule, Revoke, Expire, NextDay
  <2>4. SpentToday' <= SpentToday /\ SpentToday' \in Nat
    BY <1>1, <2>2, <2>3 DEF SpentToday, CapsInv
  <2> QED
    BY <1>1, <1>2, <2>1, <2>2, <2>4 DEF OvershootInv
<1> QED
  BY <1>3, <1>4

-----------------------------------------------------------------------------
(* The books.                                                              *)

(* As long as no receipt is refused, every step keeps them in agreement.   *)
LEMMA BooksStep ==
  ASSUME ~Clash, TypeOK, TypeOK', BooksAgree, [Next]_vars
  PROVE  BooksAgree'
<1>1. /\ spend \in [total : Nat, bucket : Nat, daily : Nat] /\ Funds \in Nat
      /\ balance["payer"] \in Nat /\ balance \in [{"payer", "payee"} -> Nat]
      /\ transfers \in Seq(Transfer) /\ ledger \in Seq(Nonce)
      /\ Len(transfers) \in Nat /\ Len(ledger) \in Nat
  BY PaymentAssumption DEF TypeOK
<1>2. IsFiniteSet(Receipts) /\ Cardinality(Receipts) \in Nat
  BY PaymentAssumption, FS_Subset, FS_CardinalityType DEF Receipts
<1>3. BooksAgree <=> /\ Len(transfers) = Len(ledger) + Cardinality(Receipts)
                     /\ Funds - balance["payer"] = spend.total + CommittedBy(Charged)
  BY DEF BooksAgree, Receipts
<1>4. BooksAgree' <=> /\ Len(transfers') = Len(ledger') + Cardinality(Receipts')
                      /\ Funds - balance'["payer"] = spend'.total + CommittedBy(Charged)'
  BY DEF BooksAgree, Receipts
<1>5. ASSUME Keeps, CommittedBy(Charged) \in Int PROVE BooksAgree'
  BY <1>1, <1>3, <1>4, <1>5 DEF Keeps, Moved, moneyVars
<1>6. ASSUME NEW p \in Proc, Continue(p) PROVE BooksAgree'
  <2>1. /\ Amount(p) \in Nat /\ CommittedBy(Charged) \in Int
        /\ \/ Keeps \/ Clears(p) \/ Pays(p) \/ Refuses(p) \/ Books(p) \/ Counts(p)
    BY <1>6, Outcomes DEF Throws
  <2>2. CASE Pays(p)
    <3>1. /\ CommittedBy(Charged)' = CommittedBy(Charged) + Amount(p)
          /\ balance'["payer"] = balance["payer"] - Amount(p)
          /\ ledger' = ledger /\ spend' = spend
      BY <1>1, <2>2 DEF Pays, Moved, Settle
    <3>2. Len(transfers') = Len(transfers) + 1
      BY <2>2, SettleEffect DEF Pays
    <3>3. Cardinality(Receipts') = Cardinality(Receipts) + 1
      BY <1>2, <2>2, FS_AddElement DEF Pays
    <3>4. /\ Len(transfers) = Len(ledger) + Cardinality(Receipts)
          /\ Funds - balance["payer"] = spend.total + CommittedBy(Charged)
      BY <1>3
    <3>5. Len(transfers') = Len(ledger') + Cardinality(Receipts')
      BY <1>1, <1>2, <3>1, <3>2, <3>3, <3>4
    <3>6. Funds - balance'["payer"] = spend'.total + CommittedBy(Charged)'
      <4>1. /\ spend.total \in Nat /\ Funds \in Nat /\ balance["payer"] \in Nat
            /\ Amount(p) \in Nat /\ CommittedBy(Charged) \in Int
        BY <1>1, <2>1
      <4>2. PICK b \in Nat, c \in Int, n \in Nat :
              b = balance["payer"] /\ c = CommittedBy(Charged) /\ n = Amount(p)
        BY <4>1
      <4>3. Funds - b = spend.total + c => Funds - (b - n) = spend.total + (c + n)
        BY <4>1
      <4>4. Funds - b = spend.total + c
        BY <3>4, <4>2
      <4> QED
        BY <3>1, <4>2, <4>3, <4>4
    <3> QED
      BY <1>4, <3>5, <3>6
  <2>3. CASE Books(p)
    <3>1. /\ CommittedBy(Charged)' = CommittedBy(Charged) + 0
          /\ balance' = balance /\ transfers' = transfers /\ spend' = spend
      BY <2>3 DEF Books, Moved, Record
    <3>2. Len(ledger') = Len(ledger) + 1
      <4>1. ledger' = Append(ledger, job[p].nonce)
        BY <2>3 DEF Books, Record
      <4> QED
        BY <1>1, <4>1
    <3>3. Cardinality(Receipts') = Cardinality(Receipts) - 1
      BY <1>2, <2>3, FS_RemoveElement DEF Books
    <3> QED
      BY <1>1, <1>2, <1>3, <1>4, <2>1, <3>1, <3>2, <3>3
  <2>4. CASE Counts(p)
    <3>1. /\ CommittedBy(Charged)' = CommittedBy(Charged) + (-Amount(p))
          /\ spend'.total = spend.total + Amount(p)
          /\ balance' = balance /\ transfers' = transfers /\ ledger' = ledger
          /\ Receipts' = Receipts
      BY <2>4 DEF Counts, Moved, RecordSpend, SpendRow
    <3> QED
      BY <1>1, <1>2, <1>3, <1>4, <2>1, <3>1
  <2>5. CASE Clears(p) \/ Refuses(p)
    <3>1. /\ CommittedBy(Charged)' = CommittedBy(Charged) + 0
          /\ UNCHANGED moneyVars /\ Receipts' = Receipts
      BY <2>5 DEF Clears, Refuses, Moved
    <3> QED
      BY <1>1, <1>3, <1>4, <2>1, <3>1 DEF moneyVars
  <2> QED
    BY <1>5, <2>1, <2>2, <2>3, <2>4, <2>5
<1> QED
  BY <1>5, <1>6, OthersKeep

-----------------------------------------------------------------------------
(* The theorems.                                                           *)

(* Nothing has been paid at first.                                         *)
LEMMA InitInv ==
  ASSUME Init
  PROVE  IInv /\ ScopeInv
<1>1. A!TypeOK
  BY DEF Init, A!Init, A!TypeOK
<1>2. /\ transfers = <<>> /\ ledger = <<>> /\ Len(transfers) = 0
      /\ transfers \in Seq(Transfer) /\ ledger \in Seq(Nonce)
  BY DEF Init
<1>3. balance \in [{"payer", "payee"} -> Nat]
  BY PaymentAssumption DEF Init
<1>4. /\ spend \in [total : Nat, bucket : Nat, daily : Nat]
      /\ day \in 0..LastDay
  BY PaymentAssumption DEF Init
<1>5. TypeOK
  BY <1>1, <1>2, <1>3, <1>4 DEF Init, TypeOK, Cached
<1>6. \A p \in Proc : ~Busy(p)
  BY DEF Init, Busy
<1> QED
  BY <1>2, <1>5, <1>6
  DEF Init, IInv, RunsInv, Runs, In, NonceInv, ClearedInv, PaidInv, PaymentOnce, ScopeInv,
      ChargedOnce

(* The invariant of the payments, whatever overlaps.                       *)
THEOREM Invariant == Spec => []IInv
<1>1. Init => IInv
  BY InitInv
<1>2. IInv /\ [Next]_vars => IInv'
  BY TypeStep, RunsStep, NonceStep, PaidStep, ClearedInvStep DEF IInv
<1> QED
  BY <1>1, <1>2, PTL DEF Spec

(* Every reachable state has the shapes the code's types declare.          *)
THEOREM TypesCorrect == Spec => []TypeOK
<1>1. IInv => TypeOK
  BY DEF IInv
<1> QED
  BY <1>1, Invariant, PTL

(* A signed payment moves money at most once, under however many keys and  *)
(* in however many calls at once it is submitted: its nonce is consumed    *)
(* before anything is awaited (envelope.ts:76-81).                         *)
THEOREM PaymentPaysOnce == Spec => []PaymentOnce
<1>1. IInv => PaymentOnce
  BY DEF IInv, NonceInv
<1> QED
  BY <1>1, Invariant, PTL

(* A payment over the threshold has redeemed an approval that was granted  *)
(* for its quote, and no other payment has it (signer.ts:68-81,            *)
(* approvals.ts:90-109).                                                   *)
THEOREM ApprovalClearsOnePayment == Spec => []ApprovalBuysOnce
<1>1. IInv => ApprovalBuysOnce
  <2> SUFFICES ASSUME IInv, NEW i \in 1..Len(transfers),
                      Price[transfers[i].scope[2]] > threshold
               PROVE  /\ transfers[i].approval \in ApprovalId
                      /\ Spent(transfers[i].approval, transfers[i].scope[2])
                      /\ \A j \in 1..Len(transfers) :
                           transfers[j].approval = transfers[i].approval => j = i
    BY DEF ApprovalBuysOnce, Spent
  <2>1. transfers[i].approval # None
    BY DEF IInv, PaidInv
  <2>2. transfers[i].approval \in MaybeApproval
    BY TransferTypes DEF IInv
  <2> QED
    BY <2>1, <2>2 DEF IInv, PaidInv, MaybeApproval
<1> QED
  BY <1>1, Invariant, PTL

(* From the moment the agent is revoked no call becomes cleared to pay     *)
(* (signer.ts:58-59).                                                      *)
THEOREM NothingClearedAfterKill == Spec => KillStops
<1> DEFINE Step == delegation = "revoked" =>
             {p \in Proc : In(p, Cleared)'} \subseteq {p \in Proc : In(p, Cleared)}
<1>1. IInv /\ [Next]_vars => [Step]_vars
  <2> SUFFICES ASSUME IInv, [Next]_vars, delegation = "revoked",
                      NEW p \in Proc, In(p, Cleared)', ~In(p, Cleared)
               PROVE  FALSE
    OBVIOUS
  <2>1. TypeOK /\ RunsInv
    BY DEF IInv
  <2>2. ASSUME NEW q \in Proc, Sign(q) \/ (Redeem(q) /\ Goto(q, "sign")) PROVE FALSE
    BY <2>2 DEF Sign, Redeem, Decision
  <2>3. ASSUME NEW q \in Proc, Continue(q)
        PROVE  \/ Settle(q)
               \/ Record(q) /\ Goto(q, "rate")
               \/ End(q) /\ Runs(q)
    BY <2>2, <2>3 DEF Continue, Reject, Deny, Redeem, Park, RailRefuses, Record, RecordSpend,
                      Runs, In, Phase, Cleared, Charged
  <2>4. ASSUME NEW q \in Proc, Settle(q) \/ Record(q) PROVE In(q, Cleared)
    BY <2>4 DEF Settle, Record, In, Cleared, Charged
  <2>5. ASSUME NEW q \in Proc, Settle(q) PROVE FALSE
    BY <2>1, <2>4, <2>5, SettleEffect DEF In, Busy
  <2>6. ASSUME NEW q \in Proc, Goto(q, "rate"), Record(q) PROVE FALSE
    BY <2>1, <2>4, <2>6 DEF Goto, TypeOK, In, Busy
  <2>7. ASSUME NEW q \in Proc, End(q), Runs(q) PROVE FALSE
    BY <2>1, <2>7, EndEffect DEF In, Busy
  <2>8. ASSUME NEW q \in Proc, NEW s \in Scope, NEW n \in Nonce, NEW id \in MaybeApproval,
               Start(q, s, n, id)
        PROVE  FALSE
    BY <2>1, <2>8, StartEffect DEF In, Busy, Cleared, Charged
  <2>9. ASSUME NEW q \in Proc, NEW s \in Scope, Join(q, s) PROVE FALSE
    BY <2>1, <2>9, JoinEffect DEF In, Busy, Runs, Phase
  <2>10. CASE UNCHANGED storeVars
    BY <2>10 DEF storeVars, In, Busy
  <2> QED
    BY <2>3, <2>5, <2>6, <2>7, <2>8, <2>9, <2>10
    DEF Next, Receive, Rule, Revoke, Expire, NextDay, vars
<1> QED
  BY <1>1, Invariant, PTL DEF Spec, KillStops

(* An (Idempotency-Key, quote) is charged at most once, as long as the     *)
(* payee's settled value is in the currency of the payment: otherwise the  *)
(* run throws after the transfer and the key is free again                 *)
(* (service.ts:94-96, idempotency-store.ts:36-49).                         *)
THEOREM KeyChargesOnce ==
  ASSUME ~Clash
  PROVE  Spec => []ChargedOnce
<1>1. Init => ScopeInv
  BY InitInv
<1>2. IInv /\ ScopeInv /\ [Next]_vars => ScopeInv'
  BY ScopeStep DEF IInv
<1>3. ScopeInv => ChargedOnce
  BY DEF ScopeInv
<1> QED
  BY <1>1, <1>2, <1>3, Invariant, PTL DEF Spec

(* The caps bound what is spent, up to one transaction maximum for each    *)
(* other call that may be in progress: whoever is cleared is checked       *)
(* against the spend recorded so far, and not against what is cleared but  *)
(* not yet counted (evaluator.ts:110-120, wallet/service.ts:238-254).      *)
THEOREM OvershootIsBounded == Spec => []OvershootBounded
<1>1. Init => CapsInv /\ OvershootInv
  <2> SUFFICES ASSUME Init PROVE CapsInv /\ OvershootInv
    OBVIOUS
  <2>1. /\ \A p \in Proc : ~Busy(p)
        /\ spend.total = 0 /\ SpentToday = 0 /\ spend.bucket = 0 /\ day = 0
    BY DEF Init, Busy, SpentToday
  <2>2. CommittedBy(Cleared) = 0
    <3>1. PICK f : f = [q \in Proc |-> Part(q, Cleared)]
      OBVIOUS
    <3>2. IsFiniteSet(Proc) /\ \A q \in Proc : f[q] = 0
      BY <2>1, <3>1, PaymentAssumption DEF Part, In
    <3> QED
      BY <3>1, <3>2, SumZero DEF CommittedBy, Part
  <2>3. Slack \in Nat /\ Total \in Nat /\ Daily \in Nat
    BY PaymentAssumption, SlackIsNat
  <2> QED
    BY <2>1, <2>2, <2>3 DEF CapsInv, OvershootInv, In
<1>2. IInv /\ IInv' /\ CapsInv /\ OvershootInv /\ [Next]_vars => CapsInv' /\ OvershootInv'
  BY CapsStep, OvershootStep DEF IInv
<1>3. OvershootInv => OvershootBounded
  BY DEF OvershootInv, OvershootBounded, Slack
<1> QED
  BY <1>1, <1>2, <1>3, Invariant, PTL DEF Spec

(* What the payer lost is what was counted or is about to be, and every    *)
(* transfer has its receipt or is about to, as long as the payee's settled *)
(* value is in the currency of the payment (service.ts:245-249).           *)
THEOREM BooksAlwaysAgree ==
  ASSUME ~Clash
  PROVE  Spec => []BooksAgree
<1>1. Init => BooksAgree
  <2> SUFFICES ASSUME Init PROVE BooksAgree
    OBVIOUS
  <2>1. /\ \A p \in Proc : ~Busy(p)
        /\ spend.total = 0 /\ balance["payer"] = Funds
        /\ Len(transfers) = 0 /\ Len(ledger) = 0
    BY DEF Init, Busy
  <2>2. CommittedBy(Charged) = 0
    <3>1. PICK f : f = [q \in Proc |-> Part(q, Charged)]
      OBVIOUS
    <3>2. IsFiniteSet(Proc) /\ \A q \in Proc : f[q] = 0
      BY <2>1, <3>1, PaymentAssumption DEF Part, In
    <3> QED
      BY <3>1, <3>2, SumZero DEF CommittedBy, Part
  <2>3. Receipts = {} /\ Cardinality({}) = 0
    BY <2>1, FS_EmptySet DEF In, Receipts
  <2>4. Funds \in Nat
    BY PaymentAssumption
  <2>5. BooksAgree <=> /\ Len(transfers) = Len(ledger) + Cardinality(Receipts)
                       /\ Funds - balance["payer"] = spend.total + CommittedBy(Charged)
    BY DEF BooksAgree, Receipts
  <2> QED
    BY <2>1, <2>2, <2>3, <2>4, <2>5
<1>2. IInv /\ IInv' /\ BooksAgree /\ [Next]_vars => BooksAgree'
  BY BooksStep DEF IInv
<1> QED
  BY <1>1, <1>2, Invariant, PTL DEF Spec
=============================================================================
