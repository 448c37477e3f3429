------------------------------ MODULE Payment ------------------------------
(***************************************************************************)
(* Atomic payment: FacilitatorService.pay and settle, with the signer's    *)
(* policy, the single-flight idempotency store, the nonce store, the       *)
(* approval queue and the payer's spend accumulator                        *)
(* (features/settlement/facilitator, core/policy, infrastructure).         *)
(*                                                                         *)
(* One agent pays one payee.  A call is cut at the signatures it awaits;   *)
(* between two of them the in-memory stores answer in the same turn of the *)
(* event loop.  The signature of the quote is awaited before any state is  *)
(* read, so a call begins after it; a call without a payment changes       *)
(* nothing, nor does the replay of a scope that is done.                   *)
(***************************************************************************)
EXTENDS Naturals, Sequences, FiniteSets, FiniteSetsExt

CONSTANTS
  Key,         \* Idempotency-Key headers
  Quote,       \* quotes signed by the registry
  Price,       \* [Quote -> Nat], what a payment of the quote must carry
  Nonce,       \* nonces of signed payments; bounds the payments ever tried
  ApprovalId,  \* ids of parked spends
  Proc,        \* calls that may overlap
  PerTx, Daily, Total,  \* the spend policy of the delegation
  Thresholds,  \* what its require_human_approval_over may be
  Funds,       \* what the payer has at first
  LastDay,     \* bound: days go from 0 to LastDay
  Clash,       \* the payee's settled value is in another currency
  None         \* null

ASSUME PaymentAssumption ==
  /\ Price \in [Quote -> Nat \ {0}]
  /\ {PerTx, Daily, Total, Funds, LastDay} \cup Thresholds \subseteq Nat
  /\ Clash \in BOOLEAN
  /\ None \notin ApprovalId
  /\ IsFiniteSet(Proc) /\ Proc # {}

VARIABLES
  approval,    \* the approval queue
  nonces,      \* MemoryNonceStore.seen
  running,     \* MemoryIdempotencyStore.inFlight, by scope
  done,        \* MemoryIdempotencyStore.done: what a replay answers
  job,         \* the calls in progress
  balance,     \* available, of the payer and of the payee
  transfers,   \* what the rail moved, in order
  ledger,      \* the receipts appended, by the nonce they settle
  spend,       \* SpendRow of the payer
  delegation,  \* of the payer: live, expired or revoked
  threshold,   \* its require_human_approval_over
  day

storeVars == <<nonces, running, done, job>>
moneyVars == <<balance, transfers, ledger, spend>>
envVars == <<delegation, threshold, day>>
vars == <<approval, storeVars, moneyVars, envVars>>

Scope == Key \X Quote
MaybeApproval == ApprovalId \cup {None}
Cached == {"none", "parked", "receipt"}
Charged == {"receipt", "rate"}
Cleared == Charged \cup {"sign"}
Phase == Cleared \cup {"payload"}

Idle == [phase |-> "idle"]
Call == [phase : Phase, scope : Scope, nonce : Nonce, approval : MaybeApproval]
Waiting == [phase : {"join"}, scope : Scope]
Transfer == [scope : Scope, nonce : Nonce, approval : MaybeApproval]

(* An approval is bound to the spend it was parked for: listing and amount *)
(* are those of the quote.                                                 *)
A == INSTANCE ApprovalQueue WITH Subject <- Quote

TypeOK ==
  /\ A!TypeOK
  /\ nonces \subseteq Nonce
  /\ running \subseteq Scope
  /\ done \in [Scope -> Cached]
  /\ job \in [Proc -> {Idle} \cup Call \cup Waiting]
  /\ balance \in [{"payer", "payee"} -> Nat]
  /\ transfers \in Seq(Transfer)
  /\ ledger \in Seq(Nonce)
  /\ spend \in [total : Nat, bucket : Nat, daily : Nat]
  /\ delegation \in {"live", "expired", "revoked"}
  /\ threshold \in Thresholds
  /\ day \in 0..LastDay

Busy(p) == job[p] # Idle
In(p, phases) == Busy(p) /\ job[p].phase \in phases
QuoteOf(p) == job[p].scope[2]
Amount(p) == Price[QuoteOf(p)]

Goto(p, phase) == job' = [job EXCEPT ![p].phase = phase]

(* The run of p settles: the key is released, and the calls that joined it *)
(* answer as it does.                                                      *)
Joined(p, q) == Busy(q) /\ job[q].phase = "join" /\ job[q].scope = job[p].scope

(* Mutant: the key is not released.                                        *)
EndKeepsKey(p) ==
  /\ job' = [q \in Proc |-> IF q = p \/ Joined(p, q) THEN Idle ELSE job[q]]
  /\ UNCHANGED running

End(p) ==
  /\ job' = [q \in Proc |-> IF q = p \/ Joined(p, q) THEN Idle ELSE job[q]]
  /\ running' = running \ {job[p].scope}

-----------------------------------------------------------------------------
(* The idempotency store, then verifySignedObject up to the signature.     *)

(* Mutant: only the finished runs are looked at.                           *)
FreeDone(s) == done[s] = "none"

Free(s) == done[s] = "none" /\ s \notin running

(* Mutant: the nonce is looked up, not consumed.                           *)
ConsumeNonceNot(n) == n \notin nonces /\ UNCHANGED nonces

ConsumeNonce(n) == n \notin nonces /\ nonces' = nonces \cup {n}

(* A payment of a revoked agent throws, after its nonce was consumed.      *)
Start(p, s, n, id) ==
  /\ ~Busy(p) /\ Free(s)
  /\ ConsumeNonce(n)
  /\ \/ /\ delegation # "revoked"
        /\ job' = [job EXCEPT ![p] = [phase |-> "payload", scope |-> s,
                                          nonce |-> n, approval |-> id]]
        /\ running' = running \cup {s}
     \/ /\ delegation = "revoked"
        /\ UNCHANGED <<job, running>>
  /\ UNCHANGED <<approval, done, moneyVars, envVars>>

(* The payment of a call that joins is never looked at.                    *)
Join(p, s) ==
  /\ ~Busy(p) /\ done[s] = "none" /\ s \in running
  /\ job' = [job EXCEPT ![p] = [phase |-> "join", scope |-> s]]
  /\ UNCHANGED <<approval, nonces, running, done, moneyVars, envVars>>

(* The signature is not the payer's.                                       *)
Reject(p) ==
  /\ In(p, {"payload"})
  /\ End(p)
  /\ UNCHANGED <<approval, nonces, done, moneyVars, envVars>>

-----------------------------------------------------------------------------
(* signWithinPolicy, up to its signature.                                  *)

SpentToday == IF spend.bucket = day THEN spend.daily ELSE 0

(* Mutant: what is spent already is not added.                             *)
WithinCapsAlone(a) == a <= PerTx /\ a <= Daily /\ a <= Total

WithinCaps(a) ==
  /\ a <= PerTx
  /\ SpentToday + a <= Daily
  /\ spend.total + a <= Total

(* Mutant: the delegation is not looked at again.                          *)
DecisionStale(p) ==
  IF ~WithinCaps(Amount(p)) THEN "deny"
  ELSE IF Amount(p) > threshold THEN "needs_approval" ELSE "allow"

Decision(p) ==
  IF delegation # "live" \/ ~WithinCaps(Amount(p)) THEN "deny"
  ELSE IF Amount(p) > threshold THEN "needs_approval" ELSE "allow"

Sign(p) ==
  /\ In(p, {"payload"}) /\ Decision(p) = "allow"
  /\ job' = [job EXCEPT ![p].phase = "sign", ![p].approval = None]
  /\ UNCHANGED <<approval, nonces, running, done, moneyVars, envVars>>

(* An approval that is missing, pending, consumed or for another spend     *)
(* throws.                                                                 *)
Deny(p) ==
  /\ In(p, {"payload"})
  /\ \/ Decision(p) = "deny"
     \/ /\ Decision(p) = "needs_approval" /\ job[p].approval # None
        /\ ~A!Redeemable(job[p].approval, QuoteOf(p))
  /\ End(p)
  /\ UNCHANGED <<approval, nonces, done, moneyVars, envVars>>

(* Mutant: the ruling is redeemed and stays as it was.                     *)
ConsumeNot(p) == A!Redeemable(job[p].approval, QuoteOf(p)) /\ UNCHANGED approval

Consume(p) == A!Consume(job[p].approval, QuoteOf(p))

(* The ruling is redeemed, whatever it says, before anything is signed.    *)
Redeem(p) ==
  /\ In(p, {"payload"}) /\ Decision(p) = "needs_approval" /\ job[p].approval # None
  /\ Consume(p)
  /\ IF approval[job[p].approval].decision = "approved"
     THEN Goto(p, "sign") /\ UNCHANGED running
     ELSE End(p)
  /\ UNCHANGED <<nonces, done, moneyVars, envVars>>

(* The spend waits for a ruling; the key answers `parked` from now on.     *)
Park(p) ==
  /\ In(p, {"payload"}) /\ Decision(p) = "needs_approval" /\ job[p].approval = None
  /\ \E id \in ApprovalId : A!Enqueue(id, QuoteOf(p))
  /\ done' = [done EXCEPT ![job[p].scope] = "parked"]
  /\ End(p)
  /\ UNCHANGED <<nonces, moneyVars, envVars>>

-----------------------------------------------------------------------------
(* The rail, the receipt, the accumulators.                                *)

Funded(p) == balance["payer"] >= Amount(p)

Settle(p) ==
  /\ In(p, {"sign"}) /\ Funded(p)
  /\ balance' = [balance EXCEPT !["payer"] = @ - Amount(p), !["payee"] = @ + Amount(p)]
  /\ transfers' = Append(transfers, [scope |-> job[p].scope, nonce |-> job[p].nonce,
                                     approval |-> job[p].approval])
  /\ Goto(p, "receipt")
  /\ UNCHANGED <<approval, nonces, running, done, ledger, spend, envVars>>

(* A short balance, or an x402 authorization outside its time window.      *)
RailRefuses(p) ==
  /\ In(p, {"sign"})
  /\ End(p)
  /\ UNCHANGED <<approval, nonces, done, moneyVars, envVars>>

(* The receipt is signed and appended; ingestReceipt throws when the payee *)
(* settles in another currency.                                            *)
Record(p) ==
  /\ In(p, {"receipt"})
  /\ ledger' = Append(ledger, job[p].nonce)
  /\ IF Clash THEN End(p) ELSE Goto(p, "rate") /\ UNCHANGED running
  /\ UNCHANGED <<approval, nonces, done, balance, transfers, spend, envVars>>

SpendRow(a) == [total |-> spend.total + a, bucket |-> day, daily |-> SpentToday + a]

(* Mutant: the spend is recorded for the call that waited, too.            *)
RecordSpendTwice(p) ==
  /\ In(p, {"rate"})
  /\ spend' = SpendRow(Amount(p) * (1 + Cardinality({q \in Proc : Joined(p, q)})))
  /\ done' = [done EXCEPT ![job[p].scope] = "receipt"]
  /\ End(p)
  /\ UNCHANGED <<approval, nonces, balance, transfers, ledger, envVars>>

RecordSpend(p) ==
  /\ In(p, {"rate"})
  /\ spend' = SpendRow(Amount(p))
  /\ done' = [done EXCEPT ![job[p].scope] = "receipt"]
  /\ End(p)
  /\ UNCHANGED <<approval, nonces, balance, transfers, ledger, envVars>>

-----------------------------------------------------------------------------
(* Around the service: the supervisor, the kill switch and the clock.      *)

Rule(id, decision) ==
  /\ A!Resolve(id, decision)
  /\ UNCHANGED <<storeVars, moneyVars, envVars>>

Revoke ==
  /\ delegation # "revoked" /\ delegation' = "revoked"
  /\ UNCHANGED <<approval, storeVars, moneyVars, threshold, day>>

Expire ==
  /\ delegation = "live" /\ delegation' = "expired"
  /\ UNCHANGED <<approval, storeVars, moneyVars, threshold, day>>

NextDay ==
  /\ day < LastDay /\ day' = day + 1
  /\ UNCHANGED <<approval, storeVars, moneyVars, delegation, threshold>>

Init ==
  /\ A!Init
  /\ nonces = {} /\ running = {}
  /\ done = [s \in Scope |-> "none"]
  /\ job = [p \in Proc |-> Idle]
  /\ balance = [w \in {"payer", "payee"} |-> IF w = "payer" THEN Funds ELSE 0]
  /\ transfers = <<>> /\ ledger = <<>>
  /\ spend = [total |-> 0, bucket |-> 0, daily |-> 0]
  /\ delegation = "live" /\ threshold \in Thresholds
  /\ day = 0

Receive(p) ==
  \E s \in Scope : \/ \E n \in Nonce, id \in MaybeApproval : Start(p, s, n, id)
                  \/ Join(p, s)

Continue(p) ==
  \/ Reject(p) \/ Sign(p) \/ Deny(p) \/ Redeem(p) \/ Park(p)
  \/ Settle(p) \/ RailRefuses(p) \/ Record(p) \/ RecordSpend(p)

Next ==
  \/ \E p \in Proc : Receive(p) \/ Continue(p)
  \/ \E id \in ApprovalId, decision \in A!Decision : Rule(id, decision)
  \/ Revoke \/ Expire \/ NextDay

(* The event loop resolves every promise a call awaits.                    *)
Fairness == \A p \in Proc : WF_vars(Continue(p))

Spec == Init /\ [][Next]_vars /\ Fairness

-----------------------------------------------------------------------------
(* Properties.                                                             *)

(* However a payment is retried, replayed or submitted twice at once, an   *)
(* (Idempotency-Key, quote) is charged at most once (service.ts:94-96).    *)
ChargedOnce ==
  \A i, j \in 1..Len(transfers) : transfers[i].scope = transfers[j].scope => i = j

(* A signed payment moves money at most once, whatever keys it is sent     *)
(* under (idempotency-store.ts:4-6, envelope.ts:76-81).                    *)
PaymentOnce ==
  \A i, j \in 1..Len(transfers) : transfers[i].nonce = transfers[j].nonce => i = j

(* Every charge over the threshold has an approval of its own: granted for *)
(* that spend, redeemed, and never redeemed for another                    *)
(* (signer.ts:68-81, approvals.ts:81-90).                                  *)
ApprovalBuysOnce ==
  \A i \in 1..Len(transfers) : Price[transfers[i].scope[2]] > threshold =>
    /\ transfers[i].approval \in ApprovalId
    /\ approval[transfers[i].approval] =
         [status |-> "consumed", decision |-> "approved", subject |-> transfers[i].scope[2]]
    /\ \A j \in 1..Len(transfers) : transfers[j].approval = transfers[i].approval => j = i

CommittedBy(phases) ==
  SumFunctionOnSet([p \in Proc |-> IF In(p, phases) THEN Amount(p) ELSE 0], Proc)

(* The caps bound the spend, up to the payments that overlap: each of the  *)
(* other calls may add one transaction maximum to what the cap allows, and *)
(* nothing more (evaluator.ts:110-120, wallet/service.ts:238-254).         *)
OvershootBounded ==
  LET slack == (Cardinality(Proc) - 1) * PerTx
  IN  /\ spend.total + CommittedBy(Cleared) <= Total + slack
      /\ SpentToday + CommittedBy(Cleared) <= Daily + slack

(* What the payer lost is what the receipts and the accumulator say, once  *)
(* the charges in progress are added (service.ts:245-249).                 *)
BooksAgree ==
  /\ Len(transfers) = Len(ledger) + Cardinality({p \in Proc : In(p, {"receipt"})})
  /\ Funds - balance["payer"] = spend.total + CommittedBy(Charged)

(* After the kill switch no payment is cleared any more: those the signer  *)
(* had cleared go on, and no other (signer.ts:58-59).                      *)
KillStops ==
  [][delegation = "revoked" =>
       {p \in Proc : In(p, Cleared)'} \subseteq {p \in Proc : In(p, Cleared)}]_vars

(* Every call answers: a run that fails releases the calls that joined it  *)
(* (idempotency-store.ts:28-49).                                           *)
EveryCallAnswers == \A p \in Proc : Busy(p) ~> ~Busy(p)

(* The caps hold exactly (signer.ts:16-18, wallet/service.ts:206-207).     *)
WithinMandate == spend.total <= Total /\ SpentToday <= Daily
=============================================================================
