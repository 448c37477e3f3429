------------------------------- MODULE Escrow -------------------------------
(***************************************************************************)
(* One escrow contract, from its opening to its last receipt               *)
(* (features/settlement/escrow/service.ts), over the wallet and the queue  *)
(* of approvals.                                                           *)
(*                                                                         *)
(* A request runs to completion except where its handler awaits a          *)
(* signature: `verify` before a party's request takes effect, `sign` after *)
(* each settlement, for its receipt, `rate` for the reputation snapshot    *)
(* that a receipt or a signal causes.  Other requests run there, and only  *)
(* there: the awaits between them are on in-memory maps and resume before  *)
(* the event loop takes the next request.  `turn` is the request that is   *)
(* running.  The escrow record is one live object: a request that resumes  *)
(* sees what the others wrote to it meanwhile.                             *)
(***************************************************************************)
EXTENDS Integers, Sequences, FiniteSets, Functions

CONSTANTS
  N,           \* milestones 1..N, in contract order
  Price,       \* [1..N -> Nat], milestone amounts
  Acceptance,  \* [1..N -> AcceptanceType]
  OnTimeout,   \* on_timeout of the contract
  Stake,       \* slashable provider stake, 0 for none
  Bond,        \* bonds a disputer may post, 0 for none
  DeliverBy, Window,  \* deliver_by and dispute_window_ms, in ticks
  Horizon,     \* bound: the last tick
  Seed,        \* bound: the most a party has in its wallet at the start
  HoldId,      \* bound: hold rows
  ApprovalId,  \* bound: approval rows
  Proc,        \* requests that can be in progress at the same time
  Opener,      \* SUBSET Proc: those that may be the opening of the contract
  Redelivery,  \* does the provider deliver a milestone again after a refund?
  None         \* null

Milestone == 1..N
AcceptanceType == {"checksum", "checked", "judged"}
Party == {"payer", "payee"}

ASSUME EscrowAssumption ==
  /\ N \in Nat \ {0}
  /\ Price \in [Milestone -> Nat \ {0}]
  /\ Acceptance \in [Milestone -> AcceptanceType]
  /\ OnTimeout \in {"refund", "release", "arbitrate"}
  /\ Stake \in Nat /\ Bond \subseteq Nat
  /\ DeliverBy \in Nat /\ Window \in Nat /\ Horizon \in Nat /\ Seed \in Nat
  /\ Opener \subseteq Proc /\ IsFiniteSet(Proc)
  /\ Redelivery \in BOOLEAN
  /\ None \notin HoldId \cup Proc

VARIABLES
  available, held, hold, external,  \* the wallets
  approval,   \* the queue of approvals
  state,      \* record.state, "absent" before the record is stored
  ms,         \* milestones[m].state
  result,     \* milestones[m].resultHash: how it compares to `expected`
  since,      \* milestones[m].deliveredAt, or createdAt
  fundsHold,  \* milestoneHoldIds
  stakeHold, bondHold,  \* stakeHoldId, disputeBondHoldId
  escalation, \* record.escalation
  job,        \* [Proc -> Job], requests in progress
  turn,       \* the request that is running, None at an await
  now,        \* the clock
  receipts,   \* ledger: [Milestone -> Seq(Outcome)]
  spent,      \* recordSpend of the payer
  penalties,  \* frivolous_dispute signals per party
  currency,   \* reputation's settledCurrency of the payee, against the contract's
  pledge      \* history: the hold the stake was locked under, None for none

walletVars == <<available, held, hold, external>>
milestoneVars == <<ms, result, since>>
holdVars == <<fundsHold, stakeHold, bondHold>>
recordVars == <<state, milestoneVars, holdVars, escalation>>
booksVars == <<receipts, spent, penalties, currency, pledge>>
vars == <<walletVars, approval, recordVars, job, turn, now, booksVars>>

W == INSTANCE Wallet WITH Did <- Party, Amount <- {}
A == INSTANCE ApprovalQueue WITH Subject <- Party

MilestoneState == {"pending", "delivered", "disputed", "released", "refunded"}
Settled(m) == ms[m] \in {"released", "refunded"}
AllSettled == \A m \in Milestone : Settled(m)
Unsettled(m) == ms[m] \in {"pending", "delivered"}

Terminal == {"released", "resolved", "timed_out"}

(* Mutants: a terminal state, the escalated state, are not in the set.     *)
NonActionableButResolved == {"absent", "released", "timed_out", "disputed"}
NonActionableButDisputed == {"absent"} \cup Terminal

(* requireOpenish refuses these (and a record that is not there).          *)
NonActionable == {"absent", "disputed"} \cup Terminal

Openish == state \notin NonActionable

EscrowState == {"absent", "open", "disputed"} \cup Terminal
Outcome == {"delivered", "refunded", "disputed"}

Other(by) == IF by = "payer" THEN "payee" ELSE "payer"

NoEscalation == [kind |-> "none"]

(* What is left of a handler: the wallet operations it still makes.  A     *)
(* task marked `sweep` is skipped unless the milestone is still unsettled. *)
Task == [do : {"nothing", "lock", "stake", "capture", "refund", "slash", "return", "frivolous"},
         m : Milestone, outcome : Outcome, sweep : BOOLEAN]
Do(what, m) == [do |-> what, m |-> m, outcome |-> "delivered", sweep |-> FALSE]
CaptureTask(m) == Do("capture", m)
RefundTask(m, outcome) == [Do("refund", m) EXCEPT !.outcome = outcome]
Sweep(task) == [task EXCEPT !.sweep = TRUE]

Idle == [op |-> "none", phase |-> "idle", m |-> 1, claim |-> "none", by |-> "payer",
         bond |-> 0, esc |-> NoEscalation, todo |-> <<>>,
         funds |-> [m \in Milestone |-> None], stake |-> None]

FreshHolds == {h \in HoldId : W!Fresh(h)}
FreshHold == CHOOSE h \in FreshHolds : TRUE
FreshApproval == CHOOSE id \in ApprovalId : ~A!Parked(id)

(* wallet.hold: the new row, if the bound leaves one.                      *)
Lock(did, amount) == FreshHolds # {} /\ W!PlaceHold(FreshHold, did, amount)

-----------------------------------------------------------------------------
(* Requests: the checks a handler makes before it awaits the signature.    *)

Free(p) == turn = None /\ job[p] = Idle

Request(p, j) ==
  /\ Free(p)
  /\ job' = [job EXCEPT ![p] = [j EXCEPT !.phase = "verify"]]
  /\ UNCHANGED <<walletVars, approval, recordVars, turn, now, booksVars>>

HoldsLeft(n) == Cardinality(FreshHolds) >= n * Cardinality(Proc)   \* bound

RequestOpen(p) ==
  /\ p \in Opener
  /\ state = "absent"
  /\ HoldsLeft(N + 1)
  /\ Request(p, [Idle EXCEPT !.op = "open"])

RequestDeliver(p, m, claim) ==
  /\ Openish
  /\ ms[m] = "refunded" => Redelivery
  /\ Request(p, [Idle EXCEPT !.op = "deliver", !.m = m, !.claim = claim])

RequestAccept(p, m) ==
  /\ Openish
  /\ Request(p, [Idle EXCEPT !.op = "accept", !.m = m])

RequestDispute(p, m, by, bond) ==
  /\ Openish
  /\ bond > 0 => HoldsLeft(1)
  /\ Request(p, [Idle EXCEPT !.op = "dispute", !.m = m, !.by = by, !.bond = bond])

RequestResolve(p) ==
  /\ state = "disputed" /\ escalation # NoEscalation
  /\ Request(p, [Idle EXCEPT !.op = "resolve", !.esc = escalation])

-----------------------------------------------------------------------------
(* After the signature: what the handler does first, and what is left.     *)

Verified(p, op) == turn = None /\ job[p].phase = "verify" /\ job[p].op = op

Run(p, todo) ==
  /\ turn' = p
  /\ job' = [job EXCEPT ![p].phase = "run", ![p].todo = todo]

End(p) ==
  /\ turn' = None
  /\ job' = [job EXCEPT ![p] = Idle]

OpeningTasks ==
  [m \in Milestone |-> Do("lock", m)] \o (IF Stake > 0 THEN <<Do("stake", 1)>> ELSE <<>>)

Open(p) ==
  /\ Verified(p, "open")
  /\ Run(p, OpeningTasks)
  /\ UNCHANGED <<walletVars, approval, recordVars, now, booksVars>>

(* Deterministic acceptance: 'subjective' when no declared hash decides.   *)
ObjectivePass(m, claim) ==
  CASE Acceptance[m] = "judged" \/ claim = "none" -> "subjective"
    [] Acceptance[m] # "judged" /\ claim = "match"    -> "pass"
    [] Acceptance[m] # "judged" /\ claim = "mismatch" -> "fail"

DeliveryTasks(m, claim) ==
  CASE Acceptance[m] # "checksum" -> <<>>
    [] Acceptance[m] = "checksum" /\ claim = "match"    -> <<CaptureTask(m)>>
    [] Acceptance[m] = "checksum" /\ claim = "mismatch" -> <<RefundTask(m, "refunded")>>

(* Mutant: a released milestone can be delivered again.                    *)
DeliverableAlways(m) == TRUE

(* A second delivery of a released milestone has no effect.                *)
Deliverable(m) == ms[m] # "released"

Deliver(p) ==
  LET m == job[p].m
  IN  /\ Verified(p, "deliver")
      /\ Deliverable(m)
      /\ result' = [result EXCEPT ![m] = job[p].claim]
      /\ since' = [since EXCEPT ![m] = now]
      /\ ms' = [ms EXCEPT ![m] = "delivered"]
      /\ Run(p, DeliveryTasks(m, job[p].claim))
      /\ UNCHANGED <<walletVars, approval, state, holdVars, escalation, now, booksVars>>

Accept(p) ==
  /\ Verified(p, "accept")
  /\ ms[job[p].m] = "delivered"
  /\ Run(p, <<CaptureTask(job[p].m)>>)
  /\ UNCHANGED <<walletVars, approval, recordVars, now, booksVars>>

(* The milestone is not settled, the window is open, the bond is affordable. *)
MayDispute(p) ==
  LET j == job[p]
  IN  /\ ~Settled(j.m)
      /\ now <= since[j.m] + Window
      /\ j.bond > 0 => W!CanHold(j.by, j.bond)

PostBond(p) ==
  LET j == job[p]
  IN  IF j.bond > 0
      THEN /\ Lock(j.by, j.bond)
           /\ bondHold' = FreshHold
      ELSE UNCHANGED <<walletVars, bondHold>>

(* Mutant: refund, then slash.                                             *)
DisputeTasksRefundFirst(m, verdict) ==
  IF verdict = "pass"
  THEN <<CaptureTask(m), Do("frivolous", m)>>
  ELSE <<RefundTask(m, "disputed"), Do("slash", m), Do("return", m)>>

DisputeTasks(m, verdict) ==
  IF verdict = "pass"
  THEN <<CaptureTask(m), Do("frivolous", m)>>
  ELSE <<Do("slash", m), RefundTask(m, "disputed"), Do("return", m)>>

(* A hash decides: settle at once.                                         *)
DisputeDecided(p) ==
  LET m == job[p].m
      verdict == ObjectivePass(m, result[m])
  IN  /\ Verified(p, "dispute") /\ MayDispute(p)
      /\ verdict # "subjective"
      /\ PostBond(p)
      /\ state' = "disputed"
      /\ ms' = [ms EXCEPT ![m] = "disputed"]
      /\ Run(p, DisputeTasks(m, verdict))
      /\ UNCHANGED <<approval, result, since, fundsHold, stakeHold, escalation, now, booksVars>>

ApprovalLeft == \E id \in ApprovalId : ~A!Parked(id)   \* bound

Escalate(kind, agent, milestones) ==
  /\ ApprovalLeft
  /\ A!Enqueue(FreshApproval, agent)
  /\ escalation' = [kind |-> kind, id |-> FreshApproval, agent |-> agent,
                    milestones |-> milestones]

(* Contested: park it for a ruling; the funds stay locked.                 *)
DisputeEscalated(p) ==
  LET m == job[p].m
  IN  /\ Verified(p, "dispute") /\ MayDispute(p)
      /\ ObjectivePass(m, result[m]) = "subjective"
      /\ PostBond(p)
      /\ state' = "disputed"
      /\ ms' = [ms EXCEPT ![m] = "disputed"]
      /\ Escalate("dispute", job[p].by, {m})
      /\ End(p)
      /\ UNCHANGED <<result, since, fundsHold, stakeHold, now, booksVars>>

Pending == {m \in Milestone : Unsettled(m)}

(* A loop over the contract's milestones that acts on the given ones.      *)
ForEach(milestones, tasks) ==
  [m \in Milestone |-> IF m \in milestones THEN tasks[m] ELSE Do("nothing", m)]

Captures == [m \in Milestone |-> CaptureTask(m)]
Refunds == [m \in Milestone |-> RefundTask(m, "refunded")]

(* onTimeout is driven by a scheduler and verifies no signature.           *)
TimeoutEscalated(p) ==
  /\ Free(p) /\ Openish /\ now >= DeliverBy
  /\ OnTimeout = "arbitrate"
  /\ state' = "disputed"
  /\ Escalate("timeout", "payer", Pending)
  /\ UNCHANGED <<walletVars, milestoneVars, holdVars, job, turn, now, booksVars>>

TimeoutTasks == ForEach(Pending, IF OnTimeout = "refund" THEN Refunds ELSE Captures)

Timeout(p) ==
  /\ Free(p) /\ Openish /\ now >= DeliverBy
  /\ OnTimeout # "arbitrate"
  /\ turn' = p
  /\ job' = [job EXCEPT ![p] =
               [Idle EXCEPT !.op = "timeout", !.phase = "run", !.todo = TimeoutTasks]]
  /\ UNCHANGED <<walletVars, approval, recordVars, now, booksVars>>

SweepEach(milestones, tasks) ==
  [m \in Milestone |-> Sweep(ForEach(milestones, tasks)[m])]

(* Mutant: the disputer wins either way.                                   *)
WinnerAgent(esc, upheld) == esc.agent

Winner(esc, upheld) ==
  CASE esc.kind = "timeout" -> IF upheld THEN "payee" ELSE "payer"
    [] esc.kind = "dispute" -> IF upheld THEN esc.agent ELSE Other(esc.agent)

(* Mutant: the other milestones are left as they are.                      *)
NoSweep(milestones) == <<>>

(* refundRemainingPending.                                                 *)
FinalSweep(milestones) == SweepEach(milestones, Refunds)

SettlementTasks(esc, upheld) ==
  IF esc.kind = "timeout"
  THEN SweepEach(esc.milestones, IF upheld THEN Captures ELSE Refunds) \o FinalSweep(Milestone)
  ELSE LET m == CHOOSE x \in esc.milestones : TRUE
       IN  (IF Winner(esc, upheld) = "payee" THEN <<CaptureTask(m)>>
            ELSE <<Do("slash", m), RefundTask(m, "disputed")>>) \o
           <<Do(IF upheld THEN "return" ELSE "frivolous", m)>> \o
           FinalSweep(Milestone \ {m})

(* The ruling is redeemed, whatever becomes of the settlement.             *)
Resolve(p) ==
  LET esc == job[p].esc
  IN  /\ Verified(p, "resolve")
      /\ A!Consume(esc.id, esc.agent)
      /\ Run(p, SettlementTasks(esc, approval[esc.id].decision = "approved"))
      /\ UNCHANGED <<walletVars, recordVars, now, booksVars>>

(* The handler throws, or has nothing to do, right after the signature.    *)
Reject(p) ==
  LET j == job[p]
  IN  /\ turn = None /\ j.phase = "verify"
      /\ \/ j.op = "deliver" /\ ~Deliverable(j.m)
         \/ j.op = "accept" /\ ms[j.m] # "delivered"
         \/ j.op = "dispute" /\ ~MayDispute(p)
         \/ j.op = "resolve" /\ ~A!Redeemable(j.esc.id, j.esc.agent)
      /\ End(p)
      /\ UNCHANGED <<walletVars, approval, recordVars, now, booksVars>>

-----------------------------------------------------------------------------
(* Tasks of the request that is running.                                   *)

Running(p) == turn = p /\ job[p].todo # <<>>
Current(p) == Head(job[p].todo)
Doing(p, what) == Running(p) /\ Current(p).do = what

Rest(p) == [job[p] EXCEPT !.phase = "run", !.todo = Tail(@)]
Proceed(p) == job' = [job EXCEPT ![p] = Rest(p)] /\ turn' = p

LockFunds(p) ==
  LET m == Current(p).m
  IN  /\ Doing(p, "lock")
      /\ Lock("payer", Price[m])
      /\ job' = [job EXCEPT ![p] = [Rest(p) EXCEPT !.funds[m] = FreshHold]]
      /\ UNCHANGED <<approval, recordVars, turn, now, booksVars>>

LockStake(p) ==
  /\ Doing(p, "stake")
  /\ Lock("payee", Stake)
  /\ job' = [job EXCEPT ![p] = [Rest(p) EXCEPT !.stake = FreshHold]]
  /\ UNCHANGED <<approval, recordVars, turn, now, booksVars>>

(* Mutant: a sweep does not look at the milestone again.                   *)
SweptBlind(task) == FALSE

Swept(task) == task.sweep /\ ~Unsettled(task.m)

(* The next task finds nothing to do.                                      *)
Moot(p) ==
  LET task == Current(p)
  IN  \/ task.do = "nothing"
      \/ Swept(task)
      \/ task.do = "capture" /\ ms[task.m] = "released"
      \/ task.do = "refund" /\ ms[task.m] = "refunded"
      \/ task.do = "slash" /\ stakeHold = None
      \/ task.do = "return" /\ bondHold = None
      \/ task.do = "frivolous" /\ bondHold = None /\ job[p].op = "resolve"

Skip(p) ==
  /\ Running(p) /\ Moot(p)
  /\ Proceed(p)
  /\ UNCHANGED <<walletVars, approval, recordVars, now, booksVars>>

Await(p, phase) ==
  /\ turn' = None
  /\ job' = [job EXCEPT ![p].phase = phase]

CaptureMilestone(p) ==
  LET m == Current(p).m
  IN  /\ Doing(p, "capture") /\ ~Moot(p)
      /\ W!Capture(fundsHold[m], "payee")
      /\ ms' = [ms EXCEPT ![m] = "released"]
      /\ spent' = spent + Price[m]
      /\ Await(p, "sign")
      /\ UNCHANGED <<approval, state, result, since, holdVars, escalation, now,
                     receipts, penalties, currency, pledge>>

RefundMilestone(p) ==
  LET m == Current(p).m
  IN  /\ Doing(p, "refund") /\ ~Moot(p)
      /\ W!Release(fundsHold[m])
      /\ ms' = [ms EXCEPT ![m] = "refunded"]
      /\ Await(p, "sign")
      /\ UNCHANGED <<approval, state, result, since, holdVars, escalation, now, booksVars>>

(* Mutants: the stake is due only after captures; after any settlement.    *)
StakeDueReleased == stakeHold # None /\ \A m \in Milestone : ms[m] = "released"
StakeDueEarly == stakeHold # None

(* maybeReleaseStake.                                                      *)
StakeDue == stakeHold # None /\ AllSettled

Awaiting(p, phase) == turn = None /\ job[p].phase = phase

(* The receipt is signed: it goes to the ledger.                           *)
BookReceipt(p) ==
  LET task == Current(p)
  IN  /\ Awaiting(p, "sign")
      /\ receipts' = [receipts EXCEPT ![task.m] = Append(@, task.outcome)]
      /\ UNCHANGED <<walletVars, approval, recordVars, now, spent, penalties, pledge>>

(* Value moved, so reputation adds the amount to what the payee settled.   *)
Adds(task) == task.outcome # "refunded"

(* ingestReceipt: the first receipt that adds fixes the currency, unless   *)
(* the payee has settled elsewhere.                                        *)
IssueReceipt(p) ==
  /\ BookReceipt(p)
  /\ IF Adds(Current(p)) THEN currency # "other" /\ currency' = "same" ELSE UNCHANGED currency
  /\ Await(p, "rate")

(* addValue throws: the payee has settled in another currency.  The money  *)
(* has moved and the receipt is booked; the rest of the handler is not run. *)
ReceiptClashes(p) ==
  /\ BookReceipt(p)
  /\ Adds(Current(p)) /\ currency # "same"
  /\ currency' = "other"
  /\ End(p)

ReturnStake(p) ==
  /\ Awaiting(p, "rate") /\ Current(p).do \in {"capture", "refund"}
  /\ IF StakeDue
     THEN W!Release(stakeHold) /\ stakeHold' = None
     ELSE UNCHANGED <<walletVars, stakeHold>>
  /\ Proceed(p)
  /\ UNCHANGED <<approval, state, milestoneVars, fundsHold, bondHold, escalation, now, booksVars>>

(* The whole stake is forfeited: the milestone's share of it to the payer, *)
(* the remainder burned.                                                   *)
Total == SumFunction(Price)

(* Mutant: stakeHoldId is not nulled.                                      *)
SlashKeepsStakeHold(p) ==
  /\ Doing(p, "slash") /\ ~Moot(p)
  /\ W!Forfeit(stakeHold, "payer", Stake - (Stake * Price[Current(p).m]) \div Total)
  /\ Proceed(p)
  /\ UNCHANGED <<approval, recordVars, now, booksVars>>

SlashProviderStake(p) ==
  /\ Doing(p, "slash") /\ ~Moot(p)
  /\ W!Forfeit(stakeHold, "payer", Stake - (Stake * Price[Current(p).m]) \div Total)
  /\ stakeHold' = None
  /\ Proceed(p)
  /\ UNCHANGED <<approval, state, milestoneVars, fundsHold, bondHold, escalation, now, booksVars>>

ReturnBond(p) ==
  /\ Doing(p, "return") /\ ~Moot(p)
  /\ W!Release(bondHold)
  /\ bondHold' = None
  /\ Proceed(p)
  /\ UNCHANGED <<approval, state, milestoneVars, fundsHold, stakeHold, escalation, now, booksVars>>

(* A dispute was frivolous: the bond, if any, compensates the other side   *)
(* and the disputer is rated down.  After a ruling the record names the    *)
(* forfeited bond until then.                                              *)
Frivolous(p) ==
  LET j == job[p]
      disputer == IF j.op = "resolve" THEN j.esc.agent ELSE j.by
      to == IF j.op = "resolve" THEN Other(disputer) ELSE "payee"
  IN  /\ Doing(p, "frivolous") /\ ~Moot(p)
      /\ IF bondHold # None THEN W!Forfeit(bondHold, to, 0) ELSE UNCHANGED walletVars
      /\ bondHold' = IF j.op = "resolve" THEN bondHold ELSE None
      /\ penalties' = [penalties EXCEPT ![disputer] = @ + 1]
      /\ Await(p, "rate")
      /\ UNCHANGED <<approval, state, milestoneVars, fundsHold, stakeHold, escalation, now,
                     receipts, spent, currency, pledge>>

ForgetBond(p) ==
  /\ Awaiting(p, "rate") /\ Current(p).do = "frivolous"
  /\ bondHold' = IF job[p].op = "resolve" THEN None ELSE bondHold
  /\ Proceed(p)
  /\ UNCHANGED <<walletVars, approval, state, milestoneVars, fundsHold, stakeHold, escalation,
                 now, booksVars>>

(* The wallet refuses the operation of the next task.                      *)
Refused(p) ==
  LET task == Current(p)
  IN  \/ task.do = "lock" /\ ~W!CanHold("payer", Price[task.m])
      \/ task.do = "stake" /\ ~W!CanHold("payee", Stake)
      \/ task.do \in {"capture", "refund"} /\ ~W!Active(fundsHold[task.m])
      \/ task.do \in {"return", "frivolous"} /\ bondHold # None /\ ~W!Active(bondHold)

(* The handler throws: what the request has done so far stays done.        *)
Throw(p) ==
  /\ Running(p) /\ ~Moot(p) /\ Refused(p)
  /\ End(p)
  /\ UNCHANGED <<walletVars, approval, recordVars, now, booksVars>>

-----------------------------------------------------------------------------
(* The last put of a handler.                                              *)

Last(p) == turn = p /\ job[p].todo = <<>>

Store(p) ==
  /\ Last(p) /\ job[p].op = "open"
  /\ state' = "open"
  /\ ms' = [m \in Milestone |-> "pending"]
  /\ result' = [m \in Milestone |-> "none"]
  /\ since' = [m \in Milestone |-> now]
  /\ fundsHold' = job[p].funds
  /\ stakeHold' = job[p].stake
  /\ bondHold' = None
  /\ escalation' = NoEscalation
  /\ pledge' = job[p].stake
  /\ End(p)
  /\ UNCHANGED <<walletVars, approval, now, receipts, spent, penalties, currency>>

(* recomputeEscrowState, from the state the handler left.                  *)
Recomputed(s) ==
  CASE \A m \in Milestone : ms[m] = "released" -> "released"
    [] AllSettled /\ \E m \in Milestone : ms[m] = "refunded" -> "resolved"
    [] OTHER -> s

Finish(p) ==
  LET op == job[p].op
  IN  /\ Last(p) /\ op \in {"deliver", "accept", "dispute", "timeout"}
      /\ state' = Recomputed(CASE op = "dispute" -> "resolved"
                               [] op = "timeout" -> "timed_out"
                               [] OTHER -> state)
      /\ End(p)
      /\ UNCHANGED <<walletVars, approval, milestoneVars, holdVars, escalation, now, booksVars>>

FinishResolve(p) ==
  /\ Last(p) /\ job[p].op = "resolve"
  /\ state' = IF job[p].esc.kind = "dispute" THEN "resolved" ELSE "timed_out"
  /\ escalation' = NoEscalation
  /\ End(p)
  /\ UNCHANGED <<walletVars, approval, milestoneVars, holdVars, now, booksVars>>

-----------------------------------------------------------------------------
(* Around the service: the supervisor and the clock.                       *)

Rule(id, decision) ==
  /\ turn = None
  /\ A!Resolve(id, decision)
  /\ UNCHANGED <<walletVars, recordVars, job, turn, now, booksVars>>

Tick ==
  /\ turn = None /\ now < Horizon
  /\ now' = now + 1
  /\ UNCHANGED <<walletVars, approval, recordVars, job, turn, booksVars>>

Init ==
  /\ W!Init /\ A!Init
  /\ state = "absent"
  /\ ms = [m \in Milestone |-> "pending"]
  /\ result = [m \in Milestone |-> "none"]
  /\ since = [m \in Milestone |-> 0]
  /\ fundsHold = [m \in Milestone |-> None]
  /\ stakeHold = None /\ bondHold = None
  /\ escalation = NoEscalation
  /\ job = [p \in Proc |-> Idle]
  /\ turn = None
  /\ now = 0
  /\ receipts = [m \in Milestone |-> <<>>]
  /\ spent = 0
  /\ penalties = [party \in Party |-> 0]
  /\ currency = "unknown"
  /\ pledge = None

Receive(p) ==
  \/ RequestOpen(p)
  \/ \E m \in Milestone, claim \in {"match", "mismatch"} : RequestDeliver(p, m, claim)
  \/ \E m \in Milestone : RequestAccept(p, m)
  \/ \E m \in Milestone, by \in Party, bond \in Bond : RequestDispute(p, m, by, bond)
  \/ RequestResolve(p)

Begin(p) ==
  \/ Open(p) \/ Deliver(p) \/ Accept(p) \/ DisputeDecided(p) \/ DisputeEscalated(p)
  \/ Resolve(p) \/ Reject(p)

Continue(p) ==
  \/ LockFunds(p) \/ LockStake(p) \/ Skip(p) \/ CaptureMilestone(p) \/ RefundMilestone(p)
  \/ IssueReceipt(p) \/ ReceiptClashes(p) \/ ReturnStake(p) \/ SlashProviderStake(p)
  \/ ReturnBond(p) \/ Frivolous(p) \/ ForgetBond(p) \/ Throw(p)
  \/ Store(p) \/ Finish(p) \/ FinishResolve(p)

Schedule(p) == TimeoutEscalated(p) \/ Timeout(p)

Next ==
  \/ \E p \in Proc : Receive(p) \/ Begin(p) \/ Continue(p) \/ Schedule(p)
  \/ \E id \in ApprovalId, decision \in A!Decision : Rule(id, decision)
  \/ Tick

Spec == Init /\ [][Next]_vars

(* The event loop serves every request; time passes; a scheduler keeps     *)
(* calling onTimeout, the supervisor keeps ruling, and a party keeps asking *)
(* for the resolution, however often other requests come first.            *)
Fairness ==
  /\ SF_vars(Tick)
  /\ \A p \in Proc : /\ WF_vars(Begin(p) \/ Continue(p))
                     /\ SF_vars(Schedule(p))
                     /\ SF_vars(RequestResolve(p))
  /\ \A id \in ApprovalId : SF_vars(\E decision \in A!Decision : Rule(id, decision))

LiveSpec == Spec /\ Fairness

-----------------------------------------------------------------------------
(* Refinement mapping onto EscrowPromise.                                  *)

FundsBar == [active |-> "locked", captured |-> "paid", released |-> "returned"]
CollateralBar == [active |-> "locked", released |-> "returned", forfeited |-> "forfeited"]

Funds(m) == IF fundsHold[m] = None THEN "none" ELSE FundsBar[hold[fundsHold[m]].state]

Promise == INSTANCE EscrowPromise WITH
  funds <- [m \in Milestone |-> Funds(m)],
  collateral <- IF pledge = None THEN "none" ELSE CollateralBar[hold[pledge].state]

-----------------------------------------------------------------------------
(* Properties.                                                             *)

Stored == state # "absent"
Quiet == \A p \in Proc : job[p] = Idle

Escalation == [kind : {"dispute", "timeout"}, id : ApprovalId, agent : Party,
               milestones : SUBSET Milestone]
Job == [op : {"none", "open", "deliver", "accept", "dispute", "timeout", "resolve"},
        phase : {"idle", "verify", "run", "sign", "rate"},
        m : Milestone, claim : {"none", "match", "mismatch"}, by : Party, bond : Nat,
        esc : Escalation \cup {NoEscalation}, todo : Seq(Task),
        funds : [Milestone -> HoldId \cup {None}], stake : HoldId \cup {None}]

(* Shapes of the record, the requests, the queue and the books.            *)
TypeOK ==
  /\ W!TypeOK /\ A!TypeOK
  /\ state \in EscrowState
  /\ ms \in [Milestone -> MilestoneState]
  /\ result \in [Milestone -> {"none", "match", "mismatch"}]
  /\ since \in [Milestone -> 0..Horizon]
  /\ fundsHold \in [Milestone -> HoldId \cup {None}]
  /\ {stakeHold, bondHold, pledge} \subseteq HoldId \cup {None}
  /\ escalation \in Escalation \cup {NoEscalation}
  /\ job \in [Proc -> Job] /\ turn \in Proc \cup {None}
  /\ now \in 0..Horizon
  /\ receipts \in [Milestone -> Seq(Outcome)]
  /\ spent \in Nat /\ penalties \in [Party -> Nat]
  /\ currency \in {"unknown", "same", "other"}

(* Whatever requests overlap, a milestone is released exactly when its     *)
(* funds were captured; it is refunded only when they went back, and until *)
(* a delivery they stay locked (service.ts:484-511, against races of       *)
(* deliver, accept, dispute and onTimeout past requireOpenish).            *)
PaidWhenReleased ==
  Stored => \A m \in Milestone :
    /\ ms[m] = "released" <=> Funds(m) = "paid"
    /\ ms[m] = "refunded" => Funds(m) = "returned"
    /\ ms[m] = "pending" => Funds(m) = "locked"

Forgetting ==
  \E p \in Proc : job[p].op = "resolve" /\ job[p].phase = "rate" /\ Current(p).do = "frivolous"

(* A hold id the record still names is active, so that no wallet operation *)
(* of a later request on it is refused; the exception is a forfeited bond  *)
(* while the disputer is rated (service.ts:515-543, 335-338, 576-587).     *)
NamedHoldsActive ==
  Stored => /\ stakeHold # None => W!Active(stakeHold)
            /\ bondHold # None /\ ~Forgetting => W!Active(bondHold)

Signing(m) == {p \in Proc : job[p].phase = "sign" /\ Current(p).m = m}

(* Every settlement has exactly one receipt, in the ledger or being signed, *)
(* and the payer's usage counts what was captured, once                    *)
(* (service.ts:490-494, 632-655).                                          *)
BooksAgree ==
  Stored =>
    /\ \A m \in Milestone :
         Len(receipts[m]) + Cardinality(Signing(m)) =
           IF Funds(m) \in {"paid", "returned"} THEN 1 ELSE 0
    /\ spent = SumFunctionOnSet(Price, {m \in Milestone : Funds(m) = "paid"})

(* Reputation has refused a receipt, so a handler was cut short.           *)
Clashed == currency = "other"

(* Once all milestones are settled and every request has ended, the stake  *)
(* is not held any more, whichever settlement was the last (service.ts:    *)
(* 417-420, 528-543).  It is not so when a receipt is refused (654).       *)
StakeReturns == Stored /\ AllSettled /\ Quiet => stakeHold = None

(* Until reputation refuses a receipt, the stake never stays behind.       *)
StakeSettles == ~Clashed => StakeReturns

(* Once an escrow has ended and the requests that were let in before are   *)
(* over, nothing acts on it again, whatever is submitted (service.ts:      *)
(* 689-711).                                                               *)
FinalState ==
  [][(state \in Terminal) /\ Quiet => UNCHANGED <<walletVars, recordVars, job>>]_vars

(* 'disputed' is an escalation awaiting an arbiter ruling, settled only by *)
(* resolveEscalation: there is one to redeem (service.ts:432-433,          *)
(* 689-693).  It is not so when a receipt is refused (654).                *)
RulingToCome ==
  state = "disputed" /\ Quiet =>
    escalation # NoEscalation /\ approval[escalation.id].status # "consumed"

(* Until reputation refuses a receipt, no dispute is left without one.     *)
AwaitsRuling == ~Clashed => RulingToCome

(* A hash may have decided a dispute, which ends the escrow at once with   *)
(* the other milestones as they were (service.ts:322-359).                 *)
HashDecided ==
  state = "resolved" /\ \E m \in Milestone : Settled(m) /\ ObjectivePass(m, result[m]) # "subjective"

(* When the escrow has ended nothing of it is locked any more, whether by  *)
(* a ruling, a timeout or the parties (outline.md 6.2; service.ts:551,     *)
(* 616-618): no milestone, unless a hash decided a dispute, no bond, and   *)
(* with all settled no stake, unless a receipt was refused.                *)
Complete ==
  state \in Terminal /\ Quiet =>
    /\ AllSettled \/ HashDecided
    /\ bondHold = None
    /\ AllSettled => stakeHold = None \/ Clashed

(* Whatever is still pending after deliver_by gets the timeout policy, so  *)
(* no escrow ends with a milestone pending (service.ts:362-364).  It does  *)
(* when a dispute is decided by a hash (355): onTimeout is refused then.   *)
NothingPending == state \in Terminal /\ Quiet => Pending = {}

Undecided ==
  /\ state = "disputed" /\ escalation # NoEscalation
  /\ approval[escalation.id].status # "consumed"

(* The request is one to redeem the ruling on record.                      *)
Waits(p) ==
  \/ job[p] = Idle
  \/ job[p].op = "resolve" /\ job[p].phase = "verify" /\ job[p].esc = escalation

(* While an escalation awaits its ruling, and the requests that were let   *)
(* in before it are over, no party acts on the escrow: until one request   *)
(* redeems the ruling the record and the money stay as they are, whatever  *)
(* is submitted (service.ts:290-292, 389-391, 689-693).                    *)
StayLocked ==
  [][Undecided /\ (\A p \in Proc : Waits(p)) =>
       /\ UNCHANGED <<walletVars, recordVars>>
       /\ (Undecided => \A p \in Proc : Waits(p))']_vars

Verdict(esc) ==
  IF Winner(esc, approval[esc.id].decision = "approved") = "payee" THEN "paid" ELSE "returned"

(* A ruling decides each milestone it was asked about, for the provider or *)
(* for the payer: so it is when the request that redeemed it is through,   *)
(* and where it was cut short nothing went the other way (service.ts:      *)
(* 462-471, 545-614).                                                      *)
RulingDecides ==
  /\ \A p \in Proc : Last(p) /\ job[p].op = "resolve" =>
       \A m \in job[p].esc.milestones : Funds(m) = Verdict(job[p].esc)
  /\ escalation # NoEscalation /\ approval[escalation.id].status = "consumed" =>
       \A m \in escalation.milestones : Funds(m) \in {"locked", Verdict(escalation)}

(* The stake is forfeited when, and only when, a dispute was lost by the   *)
(* provider: its payer has the milestone back, with a 'disputed' receipt   *)
(* (service.ts:336-342, 528-532).                                          *)
SlashProven ==
  Stored /\ Quiet /\ pledge # None =>
    (hold[pledge].state = "forfeited" <=>
       \E m \in Milestone : receipts[m] = <<"disputed">>)

(* An escrow is opened once: the holds its record names are never replaced *)
(* (service.ts:104-105, repo.ts:57).  It does not hold when the opening is *)
(* retried (README, section 6).                                            *)
OpenedOnce == [][Stored => UNCHANGED fundsHold]_vars

(* With a scheduler, a supervisor and a party that asks, an escrow under   *)
(* arbiter acceptance always ends, unless reputation refuses a receipt     *)
(* (service.ts:364, 432-433).                                              *)
EventuallySettles == Stored ~> state \in Terminal \/ Clashed

(* Money moves only as the contract says, whatever requests overlap, as    *)
(* long as the contract is opened once.                                    *)
ImplementsPromise == Promise!Spec
=============================================================================
