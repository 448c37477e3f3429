---------------------------- MODULE EscrowProofs ----------------------------
(***************************************************************************)
(* What holds of every contract, any number of overlapping requests and    *)
(* any order of rulings, as long as one request at a time opens the        *)
(* contract: types, the agreement of milestone states with the funds,      *)
(* active stake and bond holds, the return of the stake, one receipt per   *)
(* settlement and the payer's usage, what an escalation that awaits its    *)
(* ruling keeps locked, that the end is final, and the implementation of   *)
(* EscrowPromise.  And what holds as long as requests do not overlap and   *)
(* nothing is delivered again after a refund: a dispute has a ruling to    *)
(* await and is decided by it, the stake is forfeited with a lost dispute  *)
(* only, and the end, when every dispute is escalated, leaves nothing      *)
(* locked.  The return of the stake and the ruling to await are lost when  *)
(* reputation refuses a receipt; the theorems say where.                   *)
(***************************************************************************)
EXTENDS Escrow, SetLemmas, SequenceTheorems, TLAPS

(* The contract is not submitted a second time while it is being opened.   *)
SingleOpener == \A p, q \in Opener : p = q

-----------------------------------------------------------------------------
(* The inductive invariant.                                                *)

PlaceTask == {task \in Task : task.do \in {"lock", "stake"} /\ ~task.sweep}
WorkTask == {task \in Task : task.do \notin {"lock", "stake"}}

(* A dispute is about a milestone.                                         *)
Proper(esc) == esc.kind = "dispute" => esc.milestones # {}

EscalationInv == escalation # NoEscalation => Proper(escalation)

(* A request in progress is in a phase of its own operation.               *)
Fits(j) ==
  /\ j.op = "none" => j = Idle
  /\ j.phase \in {"sign", "rate"} => j.todo # <<>>
  /\ j.op = "deliver" => j.claim # "none"
  /\ j.op = "resolve" => j.esc \in Escalation /\ Proper(j.esc)
  /\ j.op = "open" => j.phase \in {"verify", "run"} /\ j.todo \in Seq(PlaceTask)
  /\ j.op \notin {"none", "open"} => j.todo \in Seq(WorkTask)

(* Only the opening works without a record, and only the request whose     *)
(* turn it is runs.                                                        *)
JobOK(p) ==
  /\ Fits(job[p])
  /\ job[p].phase = "run" <=> turn = p
  /\ job[p].op = "open" => p \in Opener /\ ~Stored
  /\ job[p].op \notin {"none", "open"} => Stored

JobInv == \A p \in Proc : JobOK(p)

(* The holds an opening has placed are active and its own; the milestones  *)
(* without one still have their lock ahead.                                *)
Placed(p) ==
  LET j == job[p]
  IN  /\ \A m \in Milestone : j.funds[m] # None =>
           /\ W!Active(j.funds[m])
           /\ j.funds[m] # j.stake
           /\ \A n \in Milestone : j.funds[n] = j.funds[m] => n = m
      /\ j.stake # None => W!Active(j.stake)
      /\ j.phase = "run" => \A m \in Milestone : j.funds[m] = None =>
           \E i \in 1..Len(j.todo) : j.todo[i].do = "lock" /\ j.todo[i].m = m

PlaceInv == \A p \in Proc : job[p].op = "open" => Placed(p)

(* Every milestone has a hold of its own, in the state its own state tells. *)
FundsInv ==
  \A m \in Milestone :
    /\ fundsHold[m] # None
    /\ hold[fundsHold[m]].state \in {"active", "captured", "released"}
    /\ \A n \in Milestone : fundsHold[n] = fundsHold[m] => n = m
    /\ ms[m] = "released" <=> hold[fundsHold[m]].state = "captured"
    /\ ms[m] = "refunded" => hold[fundsHold[m]].state = "released"
    /\ ms[m] = "pending" => hold[fundsHold[m]].state = "active"

(* The stake and the bond are holds of their own, named while active.      *)
CollateralInv ==
  /\ stakeHold \in {None, pledge}
  /\ stakeHold # None => W!Active(stakeHold)
  /\ pledge # None /\ stakeHold = None => hold[pledge].state \in {"released", "forfeited"}
  /\ bondHold # None => /\ bondHold # pledge
                        /\ W!Active(bondHold) \/ Forgetting
  /\ \A m \in Milestone : fundsHold[m] # pledge /\ fundsHold[m] # bondHold

MoneyInv ==
  IF Stored
  THEN FundsInv /\ CollateralInv
  ELSE /\ fundsHold = [m \in Milestone |-> None]
       /\ stakeHold = None /\ bondHold = None /\ pledge = None

Settling(p) == job[p].phase \in {"sign", "rate"} /\ Current(p).do \in {"capture", "refund"}

(* When everything is settled and the stake is not, a settlement has yet   *)
(* to look at it, or was cut short.                                        *)
StakeInv ==
  Stored /\ AllSettled /\ stakeHold # None => Clashed \/ \E p \in Proc : Settling(p)

IInv == TypeOK /\ EscalationInv /\ JobInv /\ PlaceInv /\ MoneyInv /\ StakeInv

-----------------------------------------------------------------------------
(* What a wallet operation does to the rows: it changes one hold.          *)

OnlyHold(h) == \A g \in HoldId \ {h} : hold'[g] = hold[g]

(* A new hold is active, and was no hold before.                           *)
LEMMA LockEffect ==
  ASSUME W!TypeOK, NEW d \in Party, NEW a \in Nat, Lock(d, a)
  PROVE  /\ W!TypeOK'
         /\ FreshHold \in HoldId /\ hold[FreshHold].state = "none"
         /\ hold'[FreshHold].state = "active"
         /\ OnlyHold(FreshHold)
<1>1. FreshHold \in HoldId /\ W!Fresh(FreshHold)
  BY DEF Lock, FreshHold, FreshHolds
<1> QED
  BY <1>1 DEF W!TypeOK, Lock, W!PlaceHold, W!CanHold, W!Fresh, W!Hold, W!NoHold,
              W!HoldState, W!Settled, OnlyHold

(* An active hold goes back to its owner.                                  *)
LEMMA ReleaseEffect ==
  ASSUME W!TypeOK, NEW h \in HoldId, W!Release(h)
  PROVE  /\ W!TypeOK'
         /\ W!Active(h) /\ hold'[h].state = "released"
         /\ OnlyHold(h)
<1>1. hold[h] \in W!Hold
  BY DEF W!TypeOK, W!Release, W!Active, W!NoHold
<1> QED
  BY <1>1 DEF W!TypeOK, W!Release, W!Active, W!Hold, W!HoldState, W!Settled, OnlyHold

(* An active hold is paid.                                                 *)
LEMMA CaptureEffect ==
  ASSUME W!TypeOK, NEW h \in HoldId, NEW to \in Party, W!Capture(h, to)
  PROVE  /\ W!TypeOK'
         /\ W!Active(h) /\ hold'[h].state = "captured"
         /\ OnlyHold(h)
<1>1. hold[h] \in W!Hold
  BY DEF W!TypeOK, W!Capture, W!Active, W!NoHold
<1> QED
  BY <1>1 DEF W!TypeOK, W!Capture, W!Active, W!Hold, W!HoldState, W!Settled, OnlyHold

(* An active hold is forfeited.                                            *)
LEMMA ForfeitEffect ==
  ASSUME W!TypeOK, NEW h \in HoldId, NEW to \in Party, NEW burned, W!Forfeit(h, to, burned)
  PROVE  /\ W!TypeOK'
         /\ W!Active(h) /\ hold'[h].state = "forfeited"
         /\ OnlyHold(h)
<1>1. hold[h] \in W!Hold
  BY DEF W!TypeOK, W!Forfeit, W!Active, W!NoHold
<1>2. hold[h].amount - burned \in Nat
  BY <1>1 DEF W!Forfeit, W!Hold
<1> QED
  BY <1>1, <1>2 DEF W!TypeOK, W!Forfeit, W!Active, W!Hold, W!HoldState, W!Settled, OnlyHold

-----------------------------------------------------------------------------
(* The tasks a request sets out to do.                                     *)

(* The tasks belong to an opening, or to the work on a stored record.      *)
LEMMA TaskTypes ==
  ASSUME NEW m \in Milestone
  PROVE  /\ Do("lock", m) \in PlaceTask /\ Do("stake", m) \in PlaceTask
         /\ \A what \in {"nothing", "slash", "return", "frivolous"} : Do(what, m) \in WorkTask
         /\ CaptureTask(m) \in WorkTask
         /\ \A outcome \in Outcome : RefundTask(m, outcome) \in WorkTask
BY DEF Do, CaptureTask, RefundTask, PlaceTask, WorkTask, Task, Outcome

(* Short lists of members of a set are sequences over it.                  *)
LEMMA ListsAreSequences ==
  ASSUME NEW S
  PROVE  /\ <<>> \in Seq(S)
         /\ \A a \in S : <<a>> \in Seq(S)
         /\ \A a, b \in S : <<a, b>> \in Seq(S)
         /\ \A a, b, c \in S : <<a, b, c>> \in Seq(S)
OBVIOUS

(* A function on the milestones is a sequence: they are 1..N.              *)
LEMMA PerMilestone ==
  ASSUME NEW S, NEW f \in [Milestone -> S]
  PROVE  f \in Seq(S) /\ Len(f) = N
<1>1. N \in Nat
  BY EscrowAssumption
<1> QED
  BY <1>1, SeqDef, LenProperties DEF Milestone

(* A loop over milestones is a list of work.                               *)
LEMMA ForEachType ==
  ASSUME NEW milestones, NEW tasks \in [Milestone -> WorkTask]
  PROVE  ForEach(milestones, tasks) \in Seq(WorkTask)
<1>1. ForEach(milestones, tasks) \in [Milestone -> WorkTask]
  BY TaskTypes DEF ForEach
<1> QED
  BY <1>1, PerMilestone

(* A sweep over milestones is a list of work.                              *)
LEMMA SweepEachType ==
  ASSUME NEW milestones, NEW tasks \in [Milestone -> WorkTask]
  PROVE  SweepEach(milestones, tasks) \in Seq(WorkTask)
<1>1. ForEach(milestones, tasks) \in [Milestone -> WorkTask]
  BY TaskTypes DEF ForEach
<1>2. SweepEach(milestones, tasks) \in [Milestone -> WorkTask]
  BY <1>1 DEF SweepEach, Sweep, WorkTask, Task
<1> QED
  BY <1>2, PerMilestone

(* The bodies of the loops (service.ts:411-417, 604-627).                  *)
LEMMA LoopTasks == Captures \in [Milestone -> WorkTask] /\ Refunds \in [Milestone -> WorkTask]
BY TaskTypes DEF Captures, Refunds, Outcome

(* What a delivery sets out to do (service.ts:205-213).                    *)
LEMMA DeliveryTasksType ==
  ASSUME NEW m \in Milestone, NEW claim \in {"match", "mismatch"}
  PROVE  DeliveryTasks(m, claim) \in Seq(WorkTask)
<1>1. CaptureTask(m) \in WorkTask /\ RefundTask(m, "refunded") \in WorkTask
  BY TaskTypes DEF Outcome
<1> QED
  BY <1>1, ListsAreSequences DEF DeliveryTasks

(* What a decided dispute sets out to do (service.ts:322-353).             *)
LEMMA DisputeTasksType ==
  ASSUME NEW m \in Milestone, NEW verdict
  PROVE  DisputeTasks(m, verdict) \in Seq(WorkTask)
<1>1. /\ CaptureTask(m) \in WorkTask /\ Do("frivolous", m) \in WorkTask
      /\ Do("slash", m) \in WorkTask /\ RefundTask(m, "disputed") \in WorkTask
      /\ Do("return", m) \in WorkTask
  BY TaskTypes DEF Outcome
<1> QED
  BY <1>1, ListsAreSequences DEF DisputeTasks

(* What a timeout sets out to do (service.ts:411-417).                     *)
LEMMA TimeoutTasksType == TimeoutTasks \in Seq(WorkTask)
BY LoopTasks, ForEachType DEF TimeoutTasks

(* What a ruling sets out to do (service.ts:552-627).                      *)
LEMMA SettlementTasksType ==
  ASSUME NEW esc \in Escalation, Proper(esc), NEW upheld \in BOOLEAN
  PROVE  SettlementTasks(esc, upheld) \in Seq(WorkTask)
<1>1. \A milestones : FinalSweep(milestones) \in Seq(WorkTask)
  BY LoopTasks, SweepEachType DEF FinalSweep
<1>2. CASE esc.kind = "timeout"
  <2>1. SweepEach(esc.milestones, IF upheld THEN Captures ELSE Refunds) \in Seq(WorkTask)
    BY LoopTasks, SweepEachType
  <2> QED
    BY <1>1, <1>2, <2>1, ConcatProperties DEF SettlementTasks
<1>3. CASE esc.kind # "timeout"
  <2> DEFINE m == CHOOSE x \in esc.milestones : TRUE
             ruled == IF Winner(esc, upheld) = "payee" THEN <<CaptureTask(m)>>
                      ELSE <<Do("slash", m), RefundTask(m, "disputed")>>
             bond == <<Do(IF upheld THEN "return" ELSE "frivolous", m)>>
  <2>1. m \in Milestone
    <3>1. esc.milestones # {} /\ esc.milestones \subseteq Milestone
      BY <1>3 DEF Escalation, Proper
    <3> QED
      BY <3>1
  <2>2. /\ CaptureTask(m) \in WorkTask /\ Do("slash", m) \in WorkTask
        /\ RefundTask(m, "disputed") \in WorkTask
        /\ Do("return", m) \in WorkTask /\ Do("frivolous", m) \in WorkTask
    BY <2>1, TaskTypes DEF Outcome
  <2> HIDE DEF m
  <2>3. ruled \in Seq(WorkTask) /\ bond \in Seq(WorkTask)
    BY <2>2, ListsAreSequences
  <2>4. SettlementTasks(esc, upheld) = ruled \o bond \o FinalSweep(Milestone \ {m})
    BY <1>3 DEF SettlementTasks, m
  <2> HIDE DEF ruled, bond
  <2>5. ruled \o bond \in Seq(WorkTask)
    BY <2>3, ConcatProperties
  <2> QED
    BY <1>1, <2>4, <2>5, ConcatProperties
<1> QED
  BY <1>2, <1>3

(* The opening locks every milestone.                                      *)
LEMMA OpeningTasksType ==
  /\ OpeningTasks \in Seq(PlaceTask)
  /\ \A m \in Milestone : \E i \in 1..Len(OpeningTasks) :
       OpeningTasks[i].do = "lock" /\ OpeningTasks[i].m = m
<1> DEFINE locks == [m \in Milestone |-> Do("lock", m)]
           stake == IF Stake > 0 THEN <<Do("stake", 1)>> ELSE <<>>
<1>1. N \in Nat /\ 1 \in Milestone
  BY EscrowAssumption DEF Milestone
<1>2. locks \in [Milestone -> PlaceTask]
  BY TaskTypes
<1>3. locks \in Seq(PlaceTask) /\ Len(locks) = N
  BY <1>2, PerMilestone
<1>4. stake \in Seq(PlaceTask)
  BY <1>1, TaskTypes, ListsAreSequences
<1>5. \A m \in Milestone : locks[m].do = "lock" /\ locks[m].m = m
  BY DEF Do
<1>6. OpeningTasks = locks \o stake
  BY DEF OpeningTasks
<1> HIDE DEF locks, stake
<1>7. /\ OpeningTasks \in Seq(PlaceTask)
      /\ Len(OpeningTasks) = N + Len(stake)
      /\ \A i \in 1..N : OpeningTasks[i] = locks[i]
      /\ Len(stake) \in Nat
  <2>1. Len(stake) \in Nat
    BY <1>4, LenProperties
  <2>2. /\ locks \o stake \in Seq(PlaceTask)
        /\ Len(locks \o stake) = N + Len(stake)
        /\ \A i \in 1..(N + Len(stake)) : (locks \o stake)[i] =
              IF i <= N THEN locks[i] ELSE stake[i - N]
    BY <1>3, <1>4, ConcatProperties
  <2> QED
    BY <1>1, <1>6, <2>1, <2>2
<1>8. ASSUME NEW m \in Milestone
      PROVE  m \in 1..Len(OpeningTasks) /\ OpeningTasks[m].do = "lock" /\ OpeningTasks[m].m = m
  <2>1. m \in 1..N /\ OpeningTasks[m] = locks[m]
    BY <1>7 DEF Milestone
  <2>2. m \in 1..Len(OpeningTasks)
    BY <1>1, <1>7, <2>1
  <2> QED
    BY <1>5, <2>1, <2>2
<1> QED
  BY <1>7, <1>8

-----------------------------------------------------------------------------
(* What a step of one request does to the requests in progress.            *)

JobTypes == job \in [Proc -> Job] /\ turn \in Proc \cup {None}

(* A process without a request.                                            *)
LEMMA IdleType == Idle \in Job /\ Fits(Idle)
<1>1. 1 \in Milestone
  BY EscrowAssumption DEF Milestone
<1> QED
  BY <1>1 DEF Idle, Job, Fits, NoEscalation, Party

(* A step that changes the progress of one request keeps the others as     *)
(* they were: it is enough to look at the new progress.                    *)
LEMMA JobChange ==
  ASSUME JobTypes, JobInv, NEW p \in Proc, NEW j \in Job,
         job' = [job EXCEPT ![p] = j],
         turn \in {None, p}, turn' \in {None, p}, Stored' = Stored,
         Fits(j),
         j.phase = "run" <=> turn' = p,
         j.op = "open" => p \in Opener /\ ~Stored,
         j.op \notin {"none", "open"} => Stored
  PROVE  JobTypes' /\ JobInv'
<1>1. JobTypes'
  BY DEF JobTypes
<1>2. job'[p] = j /\ \A q \in Proc \ {p} : job'[q] = job[q]
  BY DEF JobTypes
<1>3. Fits(job[p])' <=> Fits(j)
  BY <1>2 DEF Fits
<1>4. JobOK(p)'
  BY <1>2, <1>3 DEF JobOK
<1>5. ASSUME NEW q \in Proc \ {p}
      PROVE  JobOK(q)'
  <2>1. Fits(job[q])' <=> Fits(job[q])
    BY <1>2 DEF Fits
  <2>2. turn # q /\ turn' # q
    BY EscrowAssumption
  <2>3. JobOK(q)
    BY DEF JobInv
  <2> QED
    BY <1>2, <2>1, <2>2, <2>3 DEF JobOK
<1> QED
  BY <1>1, <1>4, <1>5 DEF JobInv

(* A request ends.                                                         *)
LEMMA EndJobs ==
  ASSUME JobTypes, JobInv, NEW p \in Proc, turn \in {None, p}, End(p), Stored' = Stored
  PROVE  JobTypes' /\ JobInv'
<1>1. Idle.op = "none" /\ Idle.phase = "idle"
  BY DEF Idle
<1>2. None # p
  BY EscrowAssumption
<1> QED
  BY <1>1, <1>2, IdleType, JobChange DEF End

(* A new request, before its signature is verified.                        *)
LEMMA RequestJobs ==
  ASSUME JobTypes, JobInv, NEW p \in Proc, NEW j \in Job, Request(p, j), Stored' = Stored,
         j.op # "none", Fits([j EXCEPT !.phase = "verify"]),
         j.op = "open" => p \in Opener /\ ~Stored,
         j.op # "open" => Stored
  PROVE  JobTypes' /\ JobInv'
<1> DEFINE k == [j EXCEPT !.phase = "verify"]
<1>1. k \in Job /\ k.phase = "verify" /\ k.op = j.op
  BY DEF Job
<1>2. turn = None /\ turn' = None /\ job' = [job EXCEPT ![p] = k] /\ Fits(k)
  BY DEF Request, Free
<1>3. None # p
  BY EscrowAssumption
<1> HIDE DEF k
<1> QED
  BY <1>1, <1>2, <1>3, JobChange

(* The signature is verified: the handler runs.                            *)
LEMMA RunJobs ==
  ASSUME JobTypes, JobInv, NEW p \in Proc, NEW todo,
         turn = None, job[p].phase = "verify", Run(p, todo), Stored' = Stored,
         todo \in IF job[p].op = "open" THEN Seq(PlaceTask) ELSE Seq(WorkTask)
  PROVE  JobTypes' /\ JobInv'
<1> DEFINE k == [job[p] EXCEPT !.phase = "run", !.todo = todo]
<1>1. job[p] \in Job /\ JobOK(p)
  BY DEF JobTypes, JobInv
<1>2. todo \in Seq(Task)
  BY SeqMonotonic DEF PlaceTask, WorkTask
<1>3. k \in Job /\ k.phase = "run" /\ k.todo = todo /\ k.op = job[p].op
      /\ k.esc = job[p].esc /\ k.claim = job[p].claim
  BY <1>1, <1>2 DEF Job
<1>4. job' = [job EXCEPT ![p] = k] /\ turn' = p
  BY <1>1 DEF Run, JobTypes, Job
<1>5. job[p].op # "none"
  BY <1>1 DEF JobOK, Fits, Idle
<1>6. Fits(k)
  BY <1>1, <1>3, <1>5 DEF JobOK, Fits
<1> HIDE DEF k
<1> QED
  BY <1>1, <1>3, <1>4, <1>5, <1>6, JobChange DEF JobOK

(* The handler waits for a signature of the service's own.                 *)
LEMMA AwaitJobs ==
  ASSUME JobTypes, JobInv, NEW p \in Proc, NEW phase \in {"sign", "rate"},
         turn \in {None, p}, Await(p, phase), Stored' = Stored,
         job[p].op \notin {"none", "open"}, job[p].todo # <<>>
  PROVE  JobTypes' /\ JobInv'
<1> DEFINE k == [job[p] EXCEPT !.phase = phase]
<1>1. job[p] \in Job /\ JobOK(p)
  BY DEF JobTypes, JobInv
<1>2. k \in Job /\ k.phase = phase /\ k.todo = job[p].todo /\ k.op = job[p].op
      /\ k.esc = job[p].esc /\ k.claim = job[p].claim
  BY <1>1 DEF Job
<1>3. job' = [job EXCEPT ![p] = k] /\ turn' = None
  BY <1>1 DEF Await, JobTypes, Job
<1>4. Fits(k)
  BY <1>1, <1>2 DEF JobOK, Fits
<1>5. None # p
  BY EscrowAssumption
<1> HIDE DEF k
<1> QED
  BY <1>1, <1>2, <1>3, <1>4, <1>5, JobChange DEF JobOK

(* The next task, with what the opening has placed so far.                 *)
LEMMA ProceedJobs ==
  ASSUME JobTypes, JobInv, NEW p \in Proc, turn \in {None, p}, Stored' = Stored,
         job[p].todo # <<>>, job[p].op # "none", turn' = p,
         NEW funds \in [Milestone -> HoldId \cup {None}], NEW stake \in HoldId \cup {None},
         job' = [job EXCEPT ![p] = [Rest(p) EXCEPT !.funds = funds, !.stake = stake]]
  PROVE  /\ JobTypes' /\ JobInv'
         /\ job'[p].op = job[p].op /\ job'[p].phase = "run"
         /\ job'[p].todo = Tail(job[p].todo)
         /\ job'[p].funds = funds /\ job'[p].stake = stake
<1> DEFINE k == [Rest(p) EXCEPT !.funds = funds, !.stake = stake]
<1>1. job[p] \in Job /\ JobOK(p)
  BY DEF JobTypes, JobInv
<1>2. job[p].todo \in Seq(Task)
  BY <1>1 DEF Job
<1>3. Tail(job[p].todo) \in Seq(Task)
  BY <1>2, HeadTailProperties
<1>4. \A S : job[p].todo \in Seq(S) => Tail(job[p].todo) \in Seq(S)
  BY HeadTailProperties
<1>5. k \in Job /\ k.phase = "run" /\ k.todo = Tail(job[p].todo) /\ k.op = job[p].op
      /\ k.esc = job[p].esc /\ k.claim = job[p].claim /\ k.funds = funds /\ k.stake = stake
  BY <1>1, <1>3 DEF Job, Rest
<1>6. Fits(k)
  BY <1>1, <1>4, <1>5 DEF JobOK, Fits
<1> HIDE DEF k
<1>7. job' = [job EXCEPT ![p] = k]
  BY DEF k
<1> QED
  BY <1>1, <1>5, <1>6, <1>7, JobChange DEF JobOK, JobTypes

(* The task at hand belongs to the operation.                              *)
LEMMA Working ==
  ASSUME JobTypes, JobInv, NEW p \in Proc, job[p].todo # <<>>
  PROVE  /\ Current(p) \in Task
         /\ job[p].op # "none"
         /\ job[p].op = "open" => /\ Current(p).do \in {"lock", "stake"} /\ ~Current(p).sweep
                                  /\ p \in Opener /\ ~Stored
         /\ job[p].op # "open" => Current(p).do \notin {"lock", "stake"} /\ Stored
<1>1. job[p] \in Job /\ Fits(job[p]) /\ JobOK(p)
  BY DEF JobTypes, JobInv, JobOK
<1>2. job[p].todo \in Seq(Task)
  BY <1>1 DEF Job
<1>3. job[p].op # "none"
  BY <1>1 DEF Fits, Idle
<1>4. \A S : job[p].todo \in Seq(S) => Current(p) \in S
  BY HeadTailProperties DEF Current
<1>5. CASE job[p].op = "open"
  <2>1. job[p].todo \in Seq(PlaceTask)
    BY <1>1, <1>5 DEF Fits
  <2> QED
    BY <1>1, <1>3, <1>4, <1>5, <2>1 DEF JobOK, PlaceTask
<1>6. CASE job[p].op # "open"
  <2>1. job[p].todo \in Seq(WorkTask)
    BY <1>1, <1>3, <1>6 DEF Fits
  <2> QED
    BY <1>1, <1>3, <1>4, <1>6, <2>1 DEF JobOK, WorkTask
<1> QED
  BY <1>5, <1>6

(* The part of the invariant that does not look at the money.              *)
Shape == TypeOK /\ EscalationInv /\ JobInv

(* A step on the requests and the queue alone.                             *)
LEMMA SameRecord ==
  ASSUME Shape, JobTypes', JobInv', A!TypeOK',
         UNCHANGED <<walletVars, recordVars, now, booksVars>>
  PROVE  Shape'
BY DEF Shape, TypeOK, JobTypes, EscalationInv, W!TypeOK, recordVars, milestoneVars, holdVars,
       booksVars, walletVars

(* A request that comes in keeps the shapes.                               *)
LEMMA RequestShape ==
  ASSUME Shape, NEW p \in Proc, Receive(p)
  PROVE  Shape'
<1>1. JobTypes /\ JobInv /\ A!TypeOK
  BY DEF Shape, TypeOK, JobTypes
<1>2. ASSUME NEW j, Request(p, j), j \in Job, j.op # "none", Fits([j EXCEPT !.phase = "verify"]),
             j.op = "open" => p \in Opener /\ ~Stored,
             j.op # "open" => Stored
      PROVE  Shape'
  <2>1. UNCHANGED <<walletVars, approval, recordVars, now, booksVars>> /\ Stored' = Stored
    BY <1>2 DEF Request, recordVars, Stored
  <2>2. A!TypeOK'
    BY <1>1, <2>1 DEF A!TypeOK
  <2> QED
    BY <1>1, <1>2, <2>1, <2>2, RequestJobs, SameRecord
<1>3. Openish => Stored
  BY DEF Openish, Stored, NonActionable
<1>4. <<>> \in Seq(PlaceTask) /\ <<>> \in Seq(WorkTask)
  OBVIOUS
<1>5. CASE RequestOpen(p)
  <2> DEFINE j == [Idle EXCEPT !.op = "open"]
  <2>1. j \in Job /\ j.op = "open" /\ Fits([j EXCEPT !.phase = "verify"])
    BY <1>4, IdleType DEF Job, Idle, Fits
  <2>2. Request(p, j) /\ p \in Opener /\ ~Stored
    BY <1>5 DEF RequestOpen, Stored
  <2> HIDE DEF j
  <2> QED
    BY <1>2, <2>1, <2>2
<1>6. ASSUME NEW m \in Milestone, NEW claim \in {"match", "mismatch"}, RequestDeliver(p, m, claim)
      PROVE  Shape'
  <2> DEFINE j == [Idle EXCEPT !.op = "deliver", !.m = m, !.claim = claim]
  <2>1. j \in Job /\ j.op = "deliver" /\ Fits([j EXCEPT !.phase = "verify"])
    BY <1>4, IdleType DEF Job, Idle, Fits
  <2>2. Request(p, j) /\ Stored
    BY <1>3, <1>6 DEF RequestDeliver
  <2> HIDE DEF j
  <2> QED
    BY <1>2, <2>1, <2>2
<1>7. ASSUME NEW m \in Milestone, RequestAccept(p, m)
      PROVE  Shape'
  <2> DEFINE j == [Idle EXCEPT !.op = "accept", !.m = m]
  <2>1. j \in Job /\ j.op = "accept" /\ Fits([j EXCEPT !.phase = "verify"])
    BY <1>4, IdleType DEF Job, Idle, Fits
  <2>2. Request(p, j) /\ Stored
    BY <1>3, <1>7 DEF RequestAccept
  <2> HIDE DEF j
  <2> QED
    BY <1>2, <2>1, <2>2
<1>8. ASSUME NEW m \in Milestone, NEW by \in Party, NEW bond \in Bond,
             RequestDispute(p, m, by, bond)
      PROVE  Shape'
  <2> DEFINE j == [Idle EXCEPT !.op = "dispute", !.m = m, !.by = by, !.bond = bond]
  <2>1. bond \in Nat
    BY EscrowAssumption
  <2>2. j \in Job /\ j.op = "dispute" /\ Fits([j EXCEPT !.phase = "verify"])
    BY <1>4, <2>1, IdleType DEF Job, Idle, Fits
  <2>3. Request(p, j) /\ Stored
    BY <1>3, <1>8 DEF RequestDispute
  <2> HIDE DEF j
  <2> QED
    BY <1>2, <2>2, <2>3
<1>9. CASE RequestResolve(p)
  <2> DEFINE j == [Idle EXCEPT !.op = "resolve", !.esc = escalation]
  <2>1. escalation \in Escalation /\ Proper(escalation)
    BY <1>9 DEF RequestResolve, Shape, TypeOK, EscalationInv
  <2>2. j \in Job /\ j.op = "resolve" /\ Fits([j EXCEPT !.phase = "verify"])
    BY <1>4, <2>1, IdleType DEF Job, Idle, Fits
  <2>3. Request(p, j) /\ Stored
    BY <1>9 DEF RequestResolve, Stored
  <2> HIDE DEF j
  <2> QED
    BY <1>2, <2>2, <2>3
<1> QED
  BY <1>5, <1>6, <1>7, <1>8, <1>9 DEF Receive

(* An escalation is typed, and about a milestone if it is a dispute.       *)
LEMMA EscalateTypes ==
  ASSUME A!TypeOK, NEW kind \in {"dispute", "timeout"}, NEW agent \in Party,
         NEW milestones \in SUBSET Milestone, kind = "dispute" => milestones # {},
         Escalate(kind, agent, milestones)
  PROVE  A!TypeOK' /\ escalation' \in Escalation /\ Proper(escalation')
<1>1. FreshApproval \in ApprovalId
  BY DEF Escalate, ApprovalLeft, FreshApproval
<1> QED
  BY <1>1 DEF Escalate, A!TypeOK, A!Enqueue, A!Row, A!Decision, Escalation, Proper

(* A request whose signature was verified keeps the shapes.                *)
LEMMA BeginShape ==
  ASSUME Shape, NEW p \in Proc, Begin(p)
  PROVE  Shape'
<1>1. JobTypes /\ JobInv /\ A!TypeOK /\ W!TypeOK
  BY DEF Shape, TypeOK, JobTypes
<1>2. job[p] \in Job /\ JobOK(p)
  BY <1>1 DEF JobTypes, JobInv
<1>3. job[p].m \in Milestone /\ job[p].by \in Party /\ job[p].bond \in Nat
      /\ job[p].claim \in {"none", "match", "mismatch"}
  BY <1>2 DEF Job
<1>4. job[p].op \notin {"none", "open"} => Stored
  BY <1>2 DEF JobOK
<1>5. CASE Open(p)
  <2>1. UNCHANGED <<walletVars, approval, recordVars, now, booksVars>> /\ Stored' = Stored
    BY <1>5 DEF Open, recordVars, Stored
  <2>2. JobTypes' /\ JobInv'
    BY <1>1, <1>5, <2>1, OpeningTasksType, RunJobs DEF Open, Verified
  <2>3. A!TypeOK'
    BY <1>1, <2>1 DEF A!TypeOK
  <2> QED
    BY <2>1, <2>2, <2>3, SameRecord
<1>6. CASE Deliver(p)
  <2>1. Stored' = Stored
    BY <1>6 DEF Deliver, Stored
  <2>2. job[p].claim \in {"match", "mismatch"}
    BY <1>2, <1>3, <1>6 DEF Deliver, Verified, JobOK, Fits
  <2>3. JobTypes' /\ JobInv'
    BY <1>1, <1>3, <1>6, <2>1, <2>2, DeliveryTasksType, RunJobs DEF Deliver, Verified
  <2>4. now \in 0..Horizon
    BY DEF Shape, TypeOK
  <2> QED
    BY <1>3, <1>6, <2>2, <2>3, <2>4
    DEF Deliver, Shape, TypeOK, JobTypes, EscalationInv, MilestoneState, W!TypeOK, A!TypeOK,
        walletVars, holdVars, booksVars
<1>7. CASE Accept(p)
  <2>1. UNCHANGED <<walletVars, approval, recordVars, now, booksVars>> /\ Stored' = Stored
    BY <1>7 DEF Accept, recordVars, Stored
  <2>2. <<CaptureTask(job[p].m)>> \in Seq(WorkTask)
    BY <1>3, TaskTypes, ListsAreSequences
  <2>3. JobTypes' /\ JobInv'
    BY <1>1, <1>7, <2>1, <2>2, RunJobs DEF Accept, Verified
  <2>4. A!TypeOK'
    BY <1>1, <2>1 DEF A!TypeOK
  <2> QED
    BY <2>1, <2>3, <2>4, SameRecord
<1>8. ASSUME PostBond(p)
      PROVE  /\ W!TypeOK'
             /\ bondHold \in HoldId \cup {None} => bondHold' \in HoldId \cup {None}
  <2>1. CASE job[p].bond > 0
    BY <1>1, <1>3, <1>8, <2>1, LockEffect DEF PostBond
  <2>2. CASE ~(job[p].bond > 0)
    BY <1>1, <1>8, <2>2 DEF PostBond, walletVars, W!TypeOK
  <2> QED
    BY <2>1, <2>2
<1>9. CASE DisputeDecided(p)
  <2> DEFINE verdict == ObjectivePass(job[p].m, result[job[p].m])
  <2>1. Stored /\ Stored' = Stored
    BY <1>4, <1>9 DEF DisputeDecided, Verified, Stored
  <2>2. DisputeTasks(job[p].m, verdict) \in Seq(WorkTask)
    BY <1>3, DisputeTasksType
  <2>3. JobTypes' /\ JobInv'
    BY <1>1, <1>9, <2>1, <2>2, RunJobs DEF DisputeDecided, Verified
  <2> QED
    BY <1>3, <1>8, <1>9, <2>3
    DEF DisputeDecided, Shape, TypeOK, JobTypes, EscalationInv, MilestoneState, EscrowState,
        A!TypeOK, booksVars
<1>10. CASE DisputeEscalated(p)
  <2>1. Stored /\ Stored' = Stored
    BY <1>4, <1>10 DEF DisputeEscalated, Verified, Stored
  <2>2. JobTypes' /\ JobInv'
    BY <1>1, <1>10, <2>1, EndJobs DEF DisputeEscalated, Verified
  <2>3. A!TypeOK' /\ escalation' \in Escalation /\ Proper(escalation')
    BY <1>1, <1>3, <1>10, EscalateTypes DEF DisputeEscalated
  <2> QED
    BY <1>3, <1>8, <1>10, <2>2, <2>3
    DEF DisputeEscalated, Shape, TypeOK, JobTypes, EscalationInv, MilestoneState, EscrowState,
        booksVars
<1>11. CASE Resolve(p)
  <2> DEFINE esc == job[p].esc
  <2>1. UNCHANGED <<walletVars, recordVars, now, booksVars>> /\ Stored' = Stored
    BY <1>11 DEF Resolve, recordVars, Stored
  <2>2. esc \in Escalation /\ Proper(esc)
    BY <1>2, <1>11 DEF Resolve, Verified, JobOK, Fits
  <2>3. SettlementTasks(esc, approval[esc.id].decision = "approved") \in Seq(WorkTask)
    BY <2>2, SettlementTasksType
  <2>4. JobTypes' /\ JobInv'
    BY <1>1, <1>11, <2>1, <2>3, RunJobs DEF Resolve, Verified
  <2>5. A!TypeOK'
    BY <1>1, <1>11, <2>2
    DEF Resolve, A!TypeOK, A!Consume, A!Redeemable, A!Row, A!NoRow, A!Decision, Escalation
  <2> QED
    BY <2>1, <2>4, <2>5, SameRecord
<1>12. CASE Reject(p)
  <2>1. UNCHANGED <<walletVars, approval, recordVars, now, booksVars>> /\ Stored' = Stored
    BY <1>12 DEF Reject, recordVars, Stored
  <2>2. JobTypes' /\ JobInv'
    BY <1>1, <1>12, <2>1, EndJobs DEF Reject
  <2>3. A!TypeOK'
    BY <1>1, <2>1 DEF A!TypeOK
  <2> QED
    BY <2>1, <2>2, <2>3, SameRecord
<1> QED
  BY <1>5, <1>6, <1>7, <1>9, <1>10, <1>11, <1>12 DEF Begin

(* The next task, when nothing was placed.                                 *)
LEMMA NextJobs ==
  ASSUME JobTypes, JobInv, NEW p \in Proc, turn \in {None, p}, Stored' = Stored,
         job[p].todo # <<>>, Proceed(p)
  PROVE  JobTypes' /\ JobInv'
<1>1. job[p] \in Job
  BY DEF JobTypes
<1>2. job[p].op # "none"
  BY Working
<1>3. job[p].funds \in [Milestone -> HoldId \cup {None}] /\ job[p].stake \in HoldId \cup {None}
  BY <1>1 DEF Job
<1>4. Rest(p) = [Rest(p) EXCEPT !.funds = job[p].funds, !.stake = job[p].stake]
  BY <1>1 DEF Rest, Job
<1> QED
  BY <1>2, <1>3, <1>4, ProceedJobs DEF Proceed

(* A request that awaits a signature of the service has a task at hand, and *)
(* a record.                                                               *)
LEMMA AwaitingTask ==
  ASSUME JobTypes, JobInv, NEW p \in Proc, job[p].phase \in {"sign", "rate"}
  PROVE  job[p].todo # <<>> /\ job[p].op \notin {"none", "open"} /\ Stored
<1>1. JobOK(p)
  BY DEF JobInv
<1>2. job[p].todo # <<>> /\ job[p].op # "open"
  BY <1>1 DEF JobOK, Fits
<1> QED
  BY <1>1, <1>2, Working

(* A milestone's hold is a hold row.                                       *)
LEMMA FundsNamed ==
  ASSUME TypeOK, MoneyInv, Stored, NEW m \in Milestone
  PROVE  fundsHold[m] \in HoldId
BY DEF TypeOK, MoneyInv, FundsInv

(* Steps that use up a task on the wallet keep the shapes.                 *)
LEMMA WorkShape ==
  ASSUME Shape, MoneyInv, NEW p \in Proc,
         \/ CaptureMilestone(p) \/ RefundMilestone(p) \/ ReturnStake(p)
         \/ SlashProviderStake(p) \/ ReturnBond(p) \/ Frivolous(p)
  PROVE  Shape'
<1>1. JobTypes /\ JobInv /\ A!TypeOK /\ W!TypeOK /\ TypeOK
  BY DEF Shape, TypeOK, JobTypes
<1>2. {"payer", "payee"} \subseteq Party
  BY DEF Party
<1>3. job[p].todo # <<>>
  BY <1>1, AwaitingTask
  DEF CaptureMilestone, RefundMilestone, ReturnStake, SlashProviderStake, ReturnBond, Frivolous,
      Doing, Running, Awaiting
<1>4. Current(p) \in Task /\ Current(p).m \in Milestone
  BY <1>1, <1>3, Working DEF Task
<1>5. Current(p).do \notin {"lock", "stake"} /\ job[p].op \notin {"none", "open"} /\ Stored
  BY <1>1, <1>3, Working
  DEF CaptureMilestone, RefundMilestone, ReturnStake, SlashProviderStake, ReturnBond, Frivolous,
      Doing, Running, Awaiting
<1>6. Stored' = Stored /\ turn \in {None, p}
  BY DEF CaptureMilestone, RefundMilestone, ReturnStake, SlashProviderStake, ReturnBond, Frivolous,
         Doing, Running, Awaiting, Stored
<1>7. fundsHold[Current(p).m] \in HoldId
  BY <1>1, <1>4, <1>5, FundsNamed
<1>8. CASE CaptureMilestone(p)
  <2>1. JobTypes' /\ JobInv'
    BY <1>1, <1>3, <1>5, <1>6, <1>8, AwaitJobs DEF CaptureMilestone
  <2>2. W!TypeOK'
    BY <1>1, <1>2, <1>7, <1>8, CaptureEffect DEF CaptureMilestone
  <2>3. spent' \in Nat
    <3>1. Price[Current(p).m] \in Nat
      BY <1>4, EscrowAssumption
    <3>2. spent \in Nat /\ spent' = spent + Price[Current(p).m]
      BY <1>1, <1>8 DEF CaptureMilestone, TypeOK
    <3> QED
      BY <3>1, <3>2
  <2> QED
    BY <1>1, <1>4, <1>8, <2>1, <2>2, <2>3
    DEF CaptureMilestone, Shape, TypeOK, JobTypes, EscalationInv, MilestoneState, A!TypeOK, holdVars
<1>9. CASE RefundMilestone(p)
  <2>1. JobTypes' /\ JobInv'
    BY <1>1, <1>3, <1>5, <1>6, <1>9, AwaitJobs DEF RefundMilestone
  <2>2. W!TypeOK'
    BY <1>1, <1>7, <1>9, ReleaseEffect DEF RefundMilestone
  <2> QED
    BY <1>1, <1>4, <1>9, <2>1, <2>2
    DEF RefundMilestone, Shape, TypeOK, JobTypes, EscalationInv, MilestoneState, A!TypeOK,
        holdVars, booksVars
<1>10. CASE ReturnStake(p)
  <2>1. JobTypes' /\ JobInv'
    BY <1>1, <1>3, <1>6, <1>10, NextJobs DEF ReturnStake
  <2>2. W!TypeOK' /\ stakeHold' \in HoldId \cup {None}
    <3>1. CASE StakeDue
      BY <1>1, <1>10, <3>1, ReleaseEffect DEF ReturnStake, StakeDue, TypeOK
    <3>2. CASE ~StakeDue
      BY <1>1, <1>10, <3>2 DEF ReturnStake, TypeOK, W!TypeOK, walletVars
    <3> QED
      BY <3>1, <3>2
  <2> QED
    BY <1>1, <1>10, <2>1, <2>2
    DEF ReturnStake, Shape, TypeOK, JobTypes, EscalationInv, A!TypeOK, milestoneVars, booksVars
<1>11. CASE SlashProviderStake(p)
  <2>1. JobTypes' /\ JobInv'
    BY <1>1, <1>3, <1>6, <1>11, NextJobs DEF SlashProviderStake
  <2>2. stakeHold \in HoldId
    BY <1>1, <1>11 DEF SlashProviderStake, Doing, Moot, TypeOK
  <2>3. W!TypeOK'
    BY <1>1, <1>2, <1>11, <2>2, ForfeitEffect DEF SlashProviderStake
  <2> QED
    BY <1>1, <1>11, <2>1, <2>3
    DEF SlashProviderStake, Shape, TypeOK, JobTypes, EscalationInv, A!TypeOK, milestoneVars,
        booksVars
<1>12. CASE ReturnBond(p)
  <2>1. JobTypes' /\ JobInv'
    BY <1>1, <1>3, <1>6, <1>12, NextJobs DEF ReturnBond
  <2>2. bondHold \in HoldId
    BY <1>1, <1>12 DEF ReturnBond, Doing, Moot, TypeOK
  <2>3. W!TypeOK'
    BY <1>1, <1>12, <2>2, ReleaseEffect DEF ReturnBond
  <2> QED
    BY <1>1, <1>12, <2>1, <2>3
    DEF ReturnBond, Shape, TypeOK, JobTypes, EscalationInv, A!TypeOK, milestoneVars, booksVars
<1>13. CASE Frivolous(p)
  <2> DEFINE disputer == IF job[p].op = "resolve" THEN job[p].esc.agent ELSE job[p].by
             to == IF job[p].op = "resolve" THEN Other(disputer) ELSE "payee"
  <2>1. JobTypes' /\ JobInv'
    BY <1>1, <1>3, <1>5, <1>6, <1>13, AwaitJobs DEF Frivolous
  <2>2. disputer \in Party /\ to \in Party
    <3>1. JobOK(p) /\ job[p] \in Job
      BY <1>1 DEF JobInv, JobTypes
    <3> QED
      BY <3>1 DEF JobOK, Fits, Job, Escalation, Other, Party
  <2>3. W!TypeOK' /\ bondHold' \in HoldId \cup {None}
    <3>1. CASE bondHold # None
      <4>1. W!Forfeit(bondHold, to, 0) /\ bondHold \in HoldId
        BY <1>1, <1>13, <3>1 DEF Frivolous, TypeOK
      <4> HIDE DEF to
      <4> QED
        BY <1>1, <1>13, <2>2, <4>1, ForfeitEffect DEF Frivolous
    <3>2. CASE bondHold = None
      BY <1>1, <1>13, <3>2 DEF Frivolous, TypeOK, W!TypeOK, walletVars
    <3> QED
      BY <3>1, <3>2
  <2>4. penalties' \in [Party -> Nat]
    <3>1. penalties' = [penalties EXCEPT ![disputer] = @ + 1]
      BY <1>13 DEF Frivolous
    <3> HIDE DEF disputer
    <3> QED
      BY <1>1, <2>2, <3>1 DEF TypeOK
  <2> QED
    BY <1>1, <1>13, <2>1, <2>3, <2>4
    DEF Frivolous, Shape, TypeOK, JobTypes, EscalationInv, A!TypeOK, milestoneVars
<1> QED
  BY <1>8, <1>9, <1>10, <1>11, <1>12, <1>13

(* Every step of a request in progress keeps the shapes.                   *)
LEMMA ContinueShape ==
  ASSUME SingleOpener, Shape, MoneyInv, NEW p \in Proc, Continue(p)
  PROVE  Shape'
<1>1. JobTypes /\ JobInv /\ A!TypeOK /\ W!TypeOK /\ TypeOK
  BY DEF Shape, TypeOK, JobTypes
<1>2. job[p] \in Job /\ JobOK(p)
  BY <1>1 DEF JobTypes, JobInv
<1>3. "payer" \in Party /\ "payee" \in Party
  BY DEF Party
<1>4. job[p].funds \in [Milestone -> HoldId \cup {None}] /\ job[p].stake \in HoldId \cup {None}
  BY <1>2 DEF Job
<1>5. CASE LockFunds(p) \/ LockStake(p)
  <2>1. turn = p /\ turn' = p /\ job[p].todo # <<>> /\ Stored' = Stored
    BY <1>5 DEF LockFunds, LockStake, Doing, Running, recordVars, Stored
  <2>2. Current(p).m \in Milestone /\ job[p].op # "none"
    BY <1>1, <2>1, Working DEF Task
  <2>3. W!TypeOK' /\ FreshHold \in HoldId
    <3>1. Price[Current(p).m] \in Nat /\ Stake \in Nat
      BY <2>2, EscrowAssumption
    <3> QED
      BY <1>1, <1>3, <1>5, <3>1, LockEffect DEF LockFunds, LockStake
  <2>4. JobTypes' /\ JobInv'
    <3>1. CASE LockFunds(p)
      <4> DEFINE funds == [job[p].funds EXCEPT ![Current(p).m] = FreshHold]
      <4>1. funds \in [Milestone -> HoldId \cup {None}]
        BY <1>4, <2>2, <2>3
      <4>2. [Rest(p) EXCEPT !.funds[Current(p).m] = FreshHold]
              = [Rest(p) EXCEPT !.funds = funds, !.stake = job[p].stake]
        BY <1>2 DEF Rest, Job
      <4> HIDE DEF funds
      <4> QED
        BY <1>1, <1>4, <2>1, <2>2, <3>1, <4>1, <4>2, ProceedJobs DEF LockFunds
    <3>2. CASE LockStake(p)
      <4>1. [Rest(p) EXCEPT !.stake = FreshHold]
              = [Rest(p) EXCEPT !.funds = job[p].funds, !.stake = FreshHold]
        BY <1>2 DEF Rest, Job
      <4> QED
        BY <1>1, <1>4, <2>1, <2>2, <2>3, <3>2, <4>1, ProceedJobs DEF LockStake
    <3> QED
      BY <1>5, <3>1, <3>2
  <2> QED
    BY <1>1, <1>5, <2>3, <2>4
    DEF LockFunds, LockStake, Shape, TypeOK, JobTypes, EscalationInv, A!TypeOK, recordVars,
        milestoneVars, holdVars, booksVars
<1>6. ASSUME UNCHANGED <<walletVars, approval, recordVars, now, booksVars>>, JobTypes', JobInv'
      PROVE  Shape'
  <2>1. A!TypeOK'
    BY <1>1, <1>6 DEF A!TypeOK
  <2> QED
    BY <1>6, <2>1, SameRecord
<1>7. CASE Skip(p)
  <2>1. turn = p /\ job[p].todo # <<>> /\ Stored' = Stored
    BY <1>7 DEF Skip, Running, recordVars, Stored
  <2>2. JobTypes' /\ JobInv'
    BY <1>1, <1>7, <2>1, NextJobs DEF Skip
  <2> QED
    BY <1>6, <1>7, <2>2 DEF Skip
<1>8. CASE Throw(p)
  <2>1. turn = p /\ Stored' = Stored
    BY <1>8 DEF Throw, Running, recordVars, Stored
  <2>2. JobTypes' /\ JobInv'
    BY <1>1, <1>8, <2>1, EndJobs DEF Throw
  <2> QED
    BY <1>6, <1>8, <2>2 DEF Throw
<1>9. CASE IssueReceipt(p) \/ ReceiptClashes(p)
  <2>1. /\ turn = None /\ Stored' = Stored /\ job[p].phase = "sign" /\ BookReceipt(p)
        /\ Await(p, "rate") \/ End(p)
    BY <1>9 DEF IssueReceipt, ReceiptClashes, BookReceipt, Awaiting, recordVars, Stored
  <2>2. job[p].todo # <<>> /\ job[p].op \notin {"none", "open"}
    BY <1>1, <2>1, AwaitingTask
  <2>3. JobTypes' /\ JobInv'
    BY <1>1, <2>1, <2>2, AwaitJobs, EndJobs
  <2>4. receipts' \in [Milestone -> Seq(Outcome)]
    <3>1. Current(p).m \in Milestone /\ Current(p).outcome \in Outcome
      BY <1>1, <2>2, Working DEF Task
    <3>2. receipts \in [Milestone -> Seq(Outcome)]
      BY <1>1 DEF TypeOK
    <3>3. Append(receipts[Current(p).m], Current(p).outcome) \in Seq(Outcome)
      BY <3>1, <3>2, AppendProperties
    <3> QED
      BY <2>1, <3>1, <3>2, <3>3 DEF BookReceipt
  <2>5. currency' \in {"unknown", "same", "other"}
    BY <1>1, <1>9 DEF IssueReceipt, ReceiptClashes, TypeOK
  <2> QED
    BY <1>1, <2>1, <2>3, <2>4, <2>5
    DEF BookReceipt, Shape, TypeOK, JobTypes, EscalationInv, A!TypeOK, W!TypeOK, recordVars,
        milestoneVars, holdVars, walletVars
<1>10. CASE ForgetBond(p)
  <2>1. turn = None /\ Stored' = Stored /\ job[p].phase = "rate"
    BY <1>10 DEF ForgetBond, Awaiting, Stored
  <2>2. JobTypes' /\ JobInv'
    BY <1>1, <1>10, <2>1, AwaitingTask, NextJobs DEF ForgetBond
  <2> QED
    BY <1>1, <1>10, <2>2
    DEF ForgetBond, Shape, TypeOK, JobTypes, EscalationInv, A!TypeOK, W!TypeOK, milestoneVars,
        booksVars, walletVars
<1>11. CASE Store(p)
  <2>1. job[p].op = "open" /\ turn = p /\ ~Stored /\ Stored' /\ p \in Opener
    BY <1>2, <1>11 DEF Store, Last, JobOK, Stored
  <2>2. job' = [job EXCEPT ![p] = Idle] /\ turn' = None
    BY <1>11 DEF Store, End
  <2>3. JobTypes'
    BY <1>1, <2>2, IdleType DEF JobTypes
  <2>4. ASSUME NEW q \in Proc
        PROVE  JobOK(q)'
    <3>1. CASE q = p
      <4>1. job'[p] = Idle /\ Fits(Idle)
        BY <1>1, <2>2, IdleType DEF JobTypes
      <4>2. Fits(job[p])'
        BY <4>1 DEF Fits
      <4>3. turn' # p
        BY <2>2, EscrowAssumption
      <4> QED
        BY <3>1, <4>1, <4>2, <4>3 DEF JobOK, Idle
    <3>2. CASE q # p
      <4>1. JobOK(q) /\ job'[q] = job[q]
        BY <1>1, <2>2, <3>2 DEF JobInv, JobTypes
      <4>2. job[q].op = "none"
        BY <2>1, <3>2, <4>1 DEF JobOK, SingleOpener
      <4>3. Fits(job[q])'
        BY <4>1 DEF JobOK, Fits
      <4>4. turn' # q /\ turn # q
        BY <2>1, <2>2, <3>2, EscrowAssumption
      <4> QED
        BY <4>1, <4>2, <4>3, <4>4 DEF JobOK
    <3> QED
      BY <3>1, <3>2
  <2>5. /\ ms' \in [Milestone -> MilestoneState]
        /\ result' \in [Milestone -> {"none", "match", "mismatch"}]
        /\ since' \in [Milestone -> 0..Horizon]
        /\ now \in 0..Horizon
    BY <1>1, <1>11 DEF Store, TypeOK, MilestoneState
  <2>6. W!TypeOK' /\ A!TypeOK'
    BY <1>1, <1>11 DEF Store, W!TypeOK, A!TypeOK, walletVars
  <2> QED
    BY <1>1, <1>4, <1>11, <2>3, <2>4, <2>5, <2>6
    DEF Store, Shape, TypeOK, JobTypes, JobInv, EscalationInv, EscrowState
<1>12. CASE Finish(p)
  <2>1. turn = p /\ job[p].op \notin {"none", "open"} /\ Stored
    BY <1>2, <1>12 DEF Finish, Last, JobOK
  <2>2. Stored' /\ state' \in EscrowState
    BY <1>1, <1>12, <2>1 DEF Finish, Recomputed, TypeOK, EscrowState, Stored, Terminal
  <2>3. JobTypes' /\ JobInv'
    BY <1>1, <1>12, <2>1, <2>2, EndJobs DEF Finish
  <2> QED
    BY <1>1, <1>12, <2>2, <2>3
    DEF Finish, Shape, TypeOK, JobTypes, EscalationInv, A!TypeOK, W!TypeOK, milestoneVars,
        holdVars, booksVars, walletVars
<1>13. CASE FinishResolve(p)
  <2>1. turn = p /\ job[p].op \notin {"none", "open"} /\ Stored
    BY <1>2, <1>13 DEF FinishResolve, Last, JobOK
  <2>2. Stored' /\ state' \in EscrowState
    BY <1>1, <1>13, <2>1 DEF FinishResolve, EscrowState, Stored, Terminal
  <2>3. JobTypes' /\ JobInv'
    BY <1>1, <1>13, <2>1, <2>2, EndJobs DEF FinishResolve
  <2> QED
    BY <1>1, <1>13, <2>2, <2>3
    DEF FinishResolve, Shape, TypeOK, JobTypes, EscalationInv, A!TypeOK, W!TypeOK, milestoneVars,
        holdVars, booksVars, walletVars
<1> QED
  BY <1>5, <1>7, <1>8, <1>9, <1>10, <1>11, <1>12, <1>13, WorkShape DEF Continue

(* A scheduler's timeout, a ruling and the clock keep the shapes.          *)
LEMMA AroundShape ==
  ASSUME Shape,
         \/ \E p \in Proc : Schedule(p)
         \/ \E id \in ApprovalId, decision \in A!Decision : Rule(id, decision)
         \/ Tick
  PROVE  Shape'
<1>1. JobTypes /\ JobInv /\ A!TypeOK /\ W!TypeOK /\ TypeOK
  BY DEF Shape, TypeOK, JobTypes
<1>2. Openish => Stored
  BY DEF Openish, Stored, NonActionable
<1>3. ASSUME UNCHANGED <<job, turn>>, Stored' = Stored
      PROVE  JobTypes' /\ JobInv'
  <2>1. JobTypes'
    BY <1>1, <1>3 DEF JobTypes
  <2>2. ASSUME NEW q \in Proc
        PROVE  JobOK(q)'
    BY <1>1, <1>3 DEF JobInv, JobOK, Fits
  <2> QED
    BY <2>1, <2>2 DEF JobInv
<1>4. ASSUME NEW p \in Proc, TimeoutEscalated(p)
      PROVE  Shape'
  <2>1. Stored' = Stored
    BY <1>2, <1>4 DEF TimeoutEscalated, Stored
  <2>2. "timeout" \in {"dispute", "timeout"} /\ "payer" \in Party /\ Pending \in SUBSET Milestone
    BY DEF Party, Pending
  <2>3. A!TypeOK' /\ escalation' \in Escalation /\ Proper(escalation')
    BY <1>1, <1>4, <2>2, EscalateTypes DEF TimeoutEscalated
  <2>4. JobTypes' /\ JobInv'
    BY <1>3, <1>4, <2>1 DEF TimeoutEscalated
  <2> QED
    BY <1>1, <1>4, <2>3, <2>4
    DEF TimeoutEscalated, Shape, TypeOK, JobTypes, EscalationInv, EscrowState, W!TypeOK,
        milestoneVars, holdVars, booksVars, walletVars
<1>5. ASSUME NEW p \in Proc, Timeout(p)
      PROVE  Shape'
  <2> DEFINE j == [Idle EXCEPT !.op = "timeout", !.phase = "run", !.todo = TimeoutTasks]
  <2>1. UNCHANGED <<walletVars, approval, recordVars, now, booksVars>> /\ Stored' = Stored
    BY <1>5 DEF Timeout, recordVars, Stored
  <2>2. TimeoutTasks \in Seq(WorkTask) /\ TimeoutTasks \in Seq(Task)
    BY TimeoutTasksType, SeqMonotonic DEF WorkTask
  <2>3. j \in Job /\ Fits(j) /\ j.op = "timeout" /\ j.phase = "run"
    BY <2>2, IdleType DEF Job, Idle, Fits
  <2>4. job' = [job EXCEPT ![p] = j] /\ turn = None /\ turn' = p /\ Stored
    BY <1>2, <1>5 DEF Timeout, Free
  <2> HIDE DEF j
  <2>5. JobTypes' /\ JobInv'
    BY <1>1, <2>1, <2>3, <2>4, JobChange
  <2>6. A!TypeOK'
    BY <1>1, <2>1 DEF A!TypeOK
  <2> QED
    BY <2>1, <2>5, <2>6, SameRecord
<1>6. ASSUME NEW id \in ApprovalId, NEW decision \in A!Decision, Rule(id, decision)
      PROVE  Shape'
  <2>1. Stored' = Stored
    BY <1>6 DEF Rule, recordVars, Stored
  <2>2. JobTypes' /\ JobInv'
    BY <1>3, <1>6, <2>1 DEF Rule
  <2>3. A!TypeOK'
    BY <1>1, <1>6 DEF Rule, A!TypeOK, A!Resolve, A!Pending, A!Row, A!NoRow, A!Decision
  <2> QED
    BY <1>6, <2>2, <2>3, SameRecord DEF Rule
<1>7. CASE Tick
  <2>1. Stored' = Stored
    BY <1>7 DEF Tick, recordVars, Stored
  <2>2. JobTypes' /\ JobInv'
    BY <1>3, <1>7, <2>1 DEF Tick
  <2>3. now' \in 0..Horizon
    BY <1>1, <1>7, EscrowAssumption DEF Tick, TypeOK
  <2> QED
    BY <1>1, <1>7, <2>2, <2>3
    DEF Tick, Shape, TypeOK, JobTypes, EscalationInv, A!TypeOK, W!TypeOK, recordVars,
        milestoneVars, holdVars, booksVars, walletVars
<1> QED
  BY <1>4, <1>5, <1>6, <1>7 DEF Schedule

-----------------------------------------------------------------------------
(* The money: what a step does to the holds the record names.              *)

(* Only the request that takes the step changes its own progress.          *)
Alone(p) == \A q \in Proc \ {p} : job'[q] = job[q]

(* What going on with the next task does to a request,                     *)
LEMMA ProceedJob ==
  ASSUME job \in [Proc -> Job], NEW p \in Proc, Proceed(p)
  PROVE  /\ Alone(p) /\ job'[p].op = job[p].op /\ job'[p].esc = job[p].esc
         /\ job'[p].phase = "run" /\ job'[p].todo = Tail(job[p].todo)
<1>1. job[p] \in Job
  OBVIOUS
<1>2. PICK j : j = Rest(p)
  OBVIOUS
<1>3. /\ j.op = job[p].op /\ j.esc = job[p].esc /\ j.phase = "run"
      /\ j.todo = Tail(job[p].todo)
  BY <1>1, <1>2 DEF Rest, Job
<1>4. Alone(p) /\ job'[p] = j
  BY <1>2 DEF Proceed, Alone
<1> QED
  BY <1>3, <1>4

(* what waiting for a signature or for the reputation does,                *)
LEMMA AwaitJob ==
  ASSUME job \in [Proc -> Job], NEW p \in Proc, NEW phase, Await(p, phase)
  PROVE  /\ Alone(p) /\ job'[p].op = job[p].op /\ job'[p].esc = job[p].esc
         /\ job'[p].phase = phase /\ job'[p].todo = job[p].todo
<1>1. job[p] \in Job
  OBVIOUS
<1>2. Alone(p) /\ job'[p] = [job[p] EXCEPT !.phase = phase]
  BY DEF Await, Alone
<1> QED
  BY <1>1, <1>2 DEF Job

(* and what placing a hold does.                                           *)
LEMMA LockJob ==
  ASSUME job \in [Proc -> Job], NEW p \in Proc, LockFunds(p) \/ LockStake(p)
  PROVE  Alone(p) /\ job'[p].op = job[p].op /\ job'[p].phase = "run"
<1>1. job[p] \in Job
  OBVIOUS
<1>2. PICK r : r = Rest(p)
  OBVIOUS
<1>3. r.op = job[p].op /\ r.phase = "run"
  BY <1>1, <1>2 DEF Rest, Job
<1>4. CASE LockFunds(p)
  <2>1. PICK m : job' = [job EXCEPT ![p] = [r EXCEPT !.funds[m] = FreshHold]]
    BY <1>2, <1>4 DEF LockFunds
  <2>2. job'[p] = [r EXCEPT !.funds = [r.funds EXCEPT ![m] = FreshHold]] /\ Alone(p)
    BY <2>1 DEF Alone
  <2> QED
    BY <1>3, <2>2
<1>5. CASE LockStake(p)
  <2>1. job'[p] = [r EXCEPT !.stake = FreshHold] /\ Alone(p)
    BY <1>2, <1>5 DEF LockStake, Alone
  <2> QED
    BY <1>3, <2>1
<1> QED
  BY <1>4, <1>5

(* A refused receipt is refused for good.                                  *)
LEMMA ClashStays ==
  ASSUME [Next]_vars
  PROVE  Clashed => Clashed'
<1> SUFFICES ASSUME currency = "other"
             PROVE  currency' = "other"
  BY DEF Clashed
<1>1. ASSUME NEW p \in Proc, Receive(p) \/ Schedule(p)
      PROVE  currency' = "other"
  BY <1>1 DEF Receive, RequestOpen, RequestDeliver, RequestAccept, RequestDispute, RequestResolve,
              Request, Schedule, Timeout, TimeoutEscalated, booksVars
<1>2. ASSUME NEW p \in Proc, Begin(p)
      PROVE  currency' = "other"
  BY <1>2 DEF Begin, Open, Deliver, Accept, DisputeDecided, DisputeEscalated, Resolve, Reject,
              booksVars
<1>3. ASSUME NEW p \in Proc, Continue(p)
      PROVE  currency' = "other"
  BY <1>3 DEF Continue, LockFunds, LockStake, Skip, CaptureMilestone, RefundMilestone,
              IssueReceipt, ReceiptClashes, ReturnStake, SlashProviderStake, ReturnBond, Frivolous,
              ForgetBond, Throw, Store, Finish, FinishResolve, booksVars
<1>4. CASE \/ \E id \in ApprovalId, decision \in A!Decision : Rule(id, decision)
           \/ Tick \/ UNCHANGED vars
  BY <1>4 DEF Rule, Tick, vars, booksVars
<1> QED
  BY <1>1, <1>2, <1>3, <1>4 DEF Next

(* Who was settling, or about to forget a bond, still is.                  *)
Keeps == /\ Forgetting => Forgetting'
         /\ \A q \in Proc : Settling(q) => Settling(q)'

(* A step of a request that awaits no signature of the service leaves      *)
(* those that do as they are.                                              *)
LEMMA AloneKeeps ==
  ASSUME NEW p \in Proc, Alone(p), job[p].phase \notin {"sign", "rate"}
  PROVE  Keeps
BY DEF Alone, Keeps, Forgetting, Settling, Current

(* What one step does to the money, and to the promise about it.           *)
MoneyStep == MoneyInv' /\ StakeInv' /\ [Promise!Next]_(Promise!promiseVars)

(* The promise sees the record's holds and the pledge only.                *)
LEMMA PromiseStutters ==
  ASSUME UNCHANGED <<fundsHold, pledge>>,
         \A m \in Milestone : fundsHold[m] # None => hold'[fundsHold[m]] = hold[fundsHold[m]],
         pledge # None => hold'[pledge] = hold[pledge]
  PROVE  UNCHANGED Promise!promiseVars
<1>1. \A m \in Milestone : Funds(m)' = Funds(m)
  BY DEF Funds
<1> QED
  BY <1>1 DEF Promise!promiseVars

(* A step that leaves the record's money alone.                            *)
LEMMA SameMoney ==
  ASSUME MoneyInv, StakeInv, Clashed => Clashed', Stored' = Stored,
         UNCHANGED <<hold, ms, holdVars, pledge>>, Keeps
  PROVE  MoneyStep
<1>1. UNCHANGED Promise!promiseVars
  BY PromiseStutters DEF holdVars
<1>2. StakeInv'
  BY DEF StakeInv, Keeps, AllSettled, Settled, holdVars
<1>3. CASE Stored
  <2>1. FundsInv' /\ CollateralInv'
    BY <1>3 DEF MoneyInv, FundsInv, CollateralInv, holdVars, Keeps, W!Active
  <2> QED
    BY <1>1, <1>2, <1>3, <2>1 DEF MoneyStep, MoneyInv
<1>4. CASE ~Stored
  BY <1>1, <1>2, <1>4 DEF MoneyStep, MoneyInv, holdVars
<1> QED
  BY <1>3, <1>4

(* Placing holds for a record that is not there yet.                       *)
LEMMA OpeningMoney ==
  ASSUME MoneyInv, ~Stored, ~Stored', UNCHANGED <<holdVars, pledge>>
  PROVE  MoneyStep
<1>1. UNCHANGED Promise!promiseVars
  BY PromiseStutters DEF MoneyInv, holdVars
<1> QED
  BY <1>1 DEF MoneyStep, MoneyInv, StakeInv, holdVars

(* Posting a bond, or not, for a dispute about an unsettled milestone.     *)
LEMMA DisputeMoney ==
  ASSUME TypeOK, MoneyInv, Stored, Stored', NEW p \in Proc, job[p] \in Job, Keeps,
         ~Settled(job[p].m), PostBond(p), ms' = [ms EXCEPT ![job[p].m] = "disputed"],
         UNCHANGED <<fundsHold, stakeHold, pledge>>
  PROVE  MoneyStep
<1> DEFINE d == job[p].m
<1>1. /\ W!TypeOK /\ d \in Milestone /\ job[p].by \in Party /\ job[p].bond \in Nat
      /\ ms \in [Milestone -> MilestoneState] /\ FundsInv /\ CollateralInv
  BY DEF TypeOK, Job, MoneyInv
<1>2. \A m \in Milestone : fundsHold[m] \in HoldId
  BY FundsNamed
<1>3. pledge \in HoldId \cup {None} /\ stakeHold \in HoldId \cup {None}
      /\ bondHold \in HoldId \cup {None}
  BY DEF TypeOK
<1>4. CASE job[p].bond > 0
  <2>1. Lock(job[p].by, job[p].bond) /\ bondHold' = FreshHold
    BY <1>4 DEF PostBond
  <2>2. /\ FreshHold \in HoldId /\ hold[FreshHold].state = "none"
        /\ hold'[FreshHold].state = "active" /\ OnlyHold(FreshHold)
    BY <1>1, <2>1, LockEffect
  <2>3. \A m \in Milestone : fundsHold[m] # FreshHold /\ hold'[fundsHold[m]] = hold[fundsHold[m]]
    BY <1>1, <1>2, <2>2 DEF FundsInv, OnlyHold
  <2>4. pledge # FreshHold /\ (pledge # None => hold'[pledge] = hold[pledge])
    BY <1>1, <1>3, <2>2, EscrowAssumption DEF CollateralInv, OnlyHold, W!Active
  <2>5. UNCHANGED Promise!promiseVars
    BY <2>3, <2>4, PromiseStutters
  <2>6. FundsInv'
    BY <1>1, <2>3 DEF FundsInv, Settled
  <2>7. CollateralInv'
    BY <1>1, <1>3, <2>1, <2>2, <2>3, <2>4 DEF CollateralInv, W!Active
  <2>8. ~AllSettled'
    BY <1>1 DEF AllSettled, Settled
  <2> QED
    BY <2>5, <2>6, <2>7, <2>8 DEF MoneyStep, MoneyInv, StakeInv
<1>5. CASE ~(job[p].bond > 0)
  <2>1. UNCHANGED <<hold, bondHold>>
    BY <1>5 DEF PostBond, walletVars
  <2>2. UNCHANGED Promise!promiseVars
    BY <2>1, PromiseStutters
  <2>3. FundsInv'
    BY <1>1, <2>1 DEF FundsInv, Settled
  <2>4. CollateralInv'
    BY <1>1, <2>1 DEF CollateralInv, W!Active, Keeps
  <2>5. ~AllSettled'
    BY <1>1 DEF AllSettled, Settled
  <2> QED
    BY <2>2, <2>3, <2>4, <2>5 DEF MoneyStep, MoneyInv, StakeInv
<1> QED
  BY <1>4, <1>5

(* A request that comes in moves no money.                                 *)
LEMMA ReceiveMoney ==
  ASSUME TypeOK, MoneyInv, StakeInv, Clashed => Clashed', NEW p \in Proc, Receive(p)
  PROVE  MoneyStep
<1>1. PICK j : Request(p, j)
  BY DEF Receive, RequestOpen, RequestDeliver, RequestAccept, RequestDispute, RequestResolve
<1>2. Alone(p) /\ job[p].phase \notin {"sign", "rate"}
  BY <1>1 DEF Request, Free, Idle, Alone, TypeOK
<1>3. Stored' = Stored /\ UNCHANGED <<hold, ms, holdVars, pledge>>
  BY <1>1 DEF Request, Stored, recordVars, milestoneVars, walletVars, booksVars
<1> QED
  BY <1>2, <1>3, AloneKeeps, SameMoney

(* A delivery moves no money: the milestone was not released.              *)
LEMMA DeliverMoney ==
  ASSUME Shape, MoneyInv, StakeInv, Clashed => Clashed', NEW p \in Proc, Deliver(p), Keeps
  PROVE  MoneyStep
<1> DEFINE d == job[p].m
<1>1. TypeOK /\ Stored /\ Stored'
  BY DEF Shape, JobInv, JobOK, Deliver, Verified, Stored
<1>2. /\ ms' = [ms EXCEPT ![d] = "delivered"] /\ ms[d] # "released"
      /\ UNCHANGED <<hold, fundsHold, stakeHold, bondHold, pledge>>
  BY DEF Deliver, Deliverable, walletVars, holdVars, booksVars
<1>3. d \in Milestone /\ ms \in [Milestone -> MilestoneState]
  BY <1>1 DEF TypeOK, Job
<1>4. FundsInv' /\ CollateralInv'
  BY <1>1, <1>2, <1>3 DEF MoneyInv, FundsInv, CollateralInv, Keeps, W!Active
<1>5. ~AllSettled'
  BY <1>2, <1>3 DEF AllSettled, Settled
<1>6. UNCHANGED Promise!promiseVars
  BY <1>2, PromiseStutters
<1> QED
  BY <1>1, <1>4, <1>5, <1>6 DEF MoneyStep, MoneyInv, StakeInv

(* Verifying a signature and starting to run moves no money but a bond.    *)
LEMMA BeginMoney ==
  ASSUME Shape, MoneyInv, StakeInv, Clashed => Clashed', NEW p \in Proc, Begin(p)
  PROVE  MoneyStep
<1>1. TypeOK /\ job \in [Proc -> Job] /\ job[p] \in Job /\ JobOK(p)
  BY DEF Shape, TypeOK, JobInv
<1>2. Alone(p) /\ job[p].phase \notin {"sign", "rate"}
  BY <1>1 DEF Begin, Open, Deliver, Accept, DisputeDecided, DisputeEscalated, Resolve, Reject,
              Verified, Run, End, Alone
<1>3. Keeps
  BY <1>2, AloneKeeps
<1>4. CASE Open(p) \/ Accept(p) \/ Resolve(p) \/ Reject(p)
  <2>1. Stored' = Stored /\ UNCHANGED <<hold, ms, holdVars, pledge>>
    BY <1>4 DEF Open, Accept, Resolve, Reject, Stored, recordVars, milestoneVars,
                walletVars, booksVars
  <2> QED
    BY <1>3, <2>1, SameMoney
<1>5. CASE DisputeDecided(p) \/ DisputeEscalated(p)
  <2>1. Stored /\ Stored'
    BY <1>1, <1>5 DEF JobOK, DisputeDecided, DisputeEscalated, Verified, Stored
  <2>2. /\ ~Settled(job[p].m) /\ PostBond(p) /\ ms' = [ms EXCEPT ![job[p].m] = "disputed"]
        /\ UNCHANGED <<fundsHold, stakeHold, pledge>>
    BY <1>5 DEF DisputeDecided, DisputeEscalated, MayDispute, booksVars
  <2> QED
    BY <1>1, <1>3, <2>1, <2>2, DisputeMoney
<1> QED
  BY <1>3, <1>4, <1>5, DeliverMoney DEF Begin

(* What a settlement does to the funds: the milestone's, and only its own. *)
LEMMA SettleMoney ==
  ASSUME Shape, MoneyInv, NEW p \in Proc, CaptureMilestone(p) \/ RefundMilestone(p)
  PROVE  MoneyStep
<1> DEFINE m == Current(p).m
           h == fundsHold[m]
<1>1. TypeOK /\ W!TypeOK /\ job \in [Proc -> Job] /\ JobTypes /\ JobInv /\ "payee" \in Party
  BY DEF Shape, TypeOK, JobTypes, Party
<1>2. /\ turn = p /\ job[p].todo # <<>> /\ Current(p).do \in {"capture", "refund"}
  BY DEF CaptureMilestone, RefundMilestone, Doing, Running
<1>3. m \in Milestone /\ Stored /\ job[p].phase = "run" /\ job[p] \in Job
  BY <1>1, <1>2, Working DEF Task, JobInv, JobOK
<1>4. /\ Stored' /\ UNCHANGED <<fundsHold, stakeHold, bondHold, pledge>> /\ Await(p, "sign")
  BY <1>3 DEF CaptureMilestone, RefundMilestone, Stored, holdVars, booksVars
<1>5. Alone(p) /\ Keeps /\ Settling(p)'
  <2>1. /\ Alone(p) /\ job'[p].phase = "sign" /\ job'[p].todo = job[p].todo
    BY <1>1, <1>3, <1>4 DEF Await, Alone, Job
  <2> QED
    BY <1>2, <1>3, <2>1, AloneKeeps DEF Settling, Current
<1>6. FundsInv /\ CollateralInv /\ h \in HoldId
  BY <1>1, <1>3, FundsNamed DEF MoneyInv
<1>7. /\ W!Active(h) /\ OnlyHold(h)
      /\ \/ hold'[h].state = "captured" /\ ms' = [ms EXCEPT ![m] = "released"]
         \/ hold'[h].state = "released" /\ ms' = [ms EXCEPT ![m] = "refunded"]
  <2>1. CASE CaptureMilestone(p)
    BY <1>1, <1>6, <2>1, CaptureEffect DEF CaptureMilestone
  <2>2. CASE RefundMilestone(p)
    BY <1>1, <1>6, <2>2, ReleaseEffect DEF RefundMilestone
  <2> QED
    BY <2>1, <2>2
<1>8. \A n \in Milestone : fundsHold[n] \in HoldId
  BY <1>1, <1>3, FundsNamed
<1>9. \A n \in Milestone \ {m} : hold'[fundsHold[n]] = hold[fundsHold[n]] /\ ms'[n] = ms[n]
  BY <1>1, <1>3, <1>6, <1>7, <1>8 DEF FundsInv, OnlyHold, TypeOK
<1>10. pledge \in HoldId \cup {None} /\ bondHold \in HoldId \cup {None}
  BY <1>1 DEF TypeOK
<1>11. /\ pledge # None => hold'[pledge] = hold[pledge]
       /\ bondHold # None => hold'[bondHold] = hold[bondHold]
  BY <1>3, <1>6, <1>7, <1>10 DEF CollateralInv, OnlyHold
<1>12. FundsInv'
  <2>1. ms'[m] \in {"released", "refunded"} /\ (ms'[m] = "released" <=> hold'[h].state = "captured")
        /\ (ms'[m] = "refunded" => hold'[h].state = "released")
        /\ hold'[h].state \in {"captured", "released"}
    BY <1>1, <1>3, <1>7 DEF TypeOK
  <2> QED
    BY <1>4, <1>6, <1>9, <2>1 DEF FundsInv
<1>13. CollateralInv'
  BY <1>4, <1>5, <1>6, <1>10, <1>11 DEF CollateralInv, Keeps, W!Active
<1>14. ASSUME NEW k \in Milestone, k = m
       PROVE  Promise!Settle(k)
  <2>1. Funds(k) = "locked" /\ Funds(k)' \in {"paid", "returned"}
    BY <1>4, <1>6, <1>7, <1>14, EscrowAssumption DEF Funds, FundsBar, W!Active
  <2>2. \A n \in Milestone \ {k} : Funds(n)' = Funds(n)
    BY <1>4, <1>9, <1>14 DEF Funds
  <2>3. [n \in Milestone |-> Funds(n)]' =
          [[n \in Milestone |-> Funds(n)] EXCEPT ![k] = Funds(k)']
    BY <2>2
  <2>4. UNCHANGED (IF pledge = None THEN "none" ELSE CollateralBar[hold[pledge].state])
    BY <1>4, <1>11
  <2> QED
    BY <2>1, <2>3, <2>4 DEF Promise!Settle
<1>15. Promise!Next
  BY <1>3, <1>14 DEF Promise!Next
<1> QED
  BY <1>3, <1>4, <1>5, <1>12, <1>13, <1>15 DEF MoneyStep, MoneyInv, StakeInv

(* The pledged collateral, as the promise sees it, while it is held.       *)
LEMMA CollateralHeld ==
  ASSUME TypeOK, FundsInv, CollateralInv, stakeHold # None
  PROVE  /\ pledge = stakeHold /\ stakeHold \in HoldId /\ W!Active(pledge)
         /\ \A m \in Milestone : fundsHold[m] \in HoldId \ {stakeHold}
         /\ bondHold # None => bondHold \in HoldId \ {stakeHold}
BY DEF TypeOK, FundsInv, CollateralInv

(* The stake goes back, or is forfeited: nothing else moves.               *)
LEMMA StakeMoney ==
  ASSUME TypeOK, Stored, Stored', FundsInv, CollateralInv, Forgetting => Forgetting',
         stakeHold # None, stakeHold' = None,
         UNCHANGED <<ms, fundsHold, bondHold, pledge>>, OnlyHold(stakeHold),
         hold'[stakeHold].state \in {"released", "forfeited"},
         hold'[stakeHold].state = "released" => AllSettled
  PROVE  MoneyStep
<1>1. /\ pledge = stakeHold /\ stakeHold \in HoldId /\ W!Active(pledge)
      /\ \A m \in Milestone : fundsHold[m] \in HoldId \ {stakeHold}
      /\ bondHold # None => bondHold \in HoldId \ {stakeHold}
  BY CollateralHeld
<1>2. /\ \A m \in Milestone : hold'[fundsHold[m]] = hold[fundsHold[m]]
      /\ bondHold # None => hold'[bondHold] = hold[bondHold]
  BY <1>1 DEF OnlyHold
<1>3. FundsInv'
  BY <1>2 DEF FundsInv
<1>4. CollateralInv'
  BY <1>1, <1>2 DEF CollateralInv, W!Active
<1>5. [m \in Milestone |-> Funds(m)]' = [m \in Milestone |-> Funds(m)]
  BY <1>2 DEF Funds
<1>6. pledge # None
  BY <1>1
<1>7. CASE hold'[stakeHold].state = "released"
  <2>1. \A m \in Milestone : Funds(m) \in {"paid", "returned"}
    BY <1>7 DEF AllSettled, Settled, FundsInv, Funds, FundsBar
  <2>2. Promise!ReturnCollateral
    BY <1>1, <1>5, <1>6, <1>7, <2>1 DEF Promise!ReturnCollateral, CollateralBar, W!Active
  <2> QED
    BY <1>3, <1>4, <2>2 DEF MoneyStep, MoneyInv, StakeInv, Promise!Next
<1>8. CASE hold'[stakeHold].state = "forfeited"
  <2>1. Promise!Forfeit
    BY <1>1, <1>5, <1>6, <1>8 DEF Promise!Forfeit, CollateralBar, W!Active
  <2> QED
    BY <1>3, <1>4, <2>1 DEF MoneyStep, MoneyInv, StakeInv, Promise!Next
<1> QED
  BY <1>7, <1>8

(* The bond is settled, or forgotten: nothing else moves.                  *)
LEMMA BondMoney ==
  ASSUME TypeOK, MoneyInv, StakeInv, Clashed => Clashed', Stored, Stored',
         UNCHANGED <<ms, fundsHold, stakeHold, pledge>>,
         \A q \in Proc : Settling(q) => Settling(q)',
         \/ UNCHANGED hold
         \/ bondHold # None /\ OnlyHold(bondHold),
         \/ bondHold' = None
         \/ bondHold' = bondHold /\ Forgetting'
         \/ UNCHANGED <<bondHold, hold>> /\ (Forgetting => Forgetting')
  PROVE  MoneyStep
<1>1. FundsInv /\ CollateralInv
  BY DEF MoneyInv
<1>2. \A m \in Milestone : fundsHold[m] \in HoldId
  BY FundsNamed
<1>3. pledge \in HoldId \cup {None} /\ bondHold \in HoldId \cup {None}
  BY DEF TypeOK
<1>4. /\ \A m \in Milestone : hold'[fundsHold[m]] = hold[fundsHold[m]]
      /\ pledge # None => hold'[pledge] = hold[pledge]
  BY <1>1, <1>2, <1>3 DEF CollateralInv, OnlyHold
<1>5. UNCHANGED Promise!promiseVars
  BY <1>4, PromiseStutters
<1>6. FundsInv'
  BY <1>1, <1>4 DEF FundsInv
<1>7. CollateralInv'
  BY <1>1, <1>4, EscrowAssumption DEF CollateralInv, W!Active, FundsInv
<1>8. StakeInv'
  BY DEF StakeInv, AllSettled, Settled
<1> QED
  BY <1>5, <1>6, <1>7, <1>8 DEF MoneyStep, MoneyInv

(* Storing the record: everything the opening placed becomes the record's. *)
LEMMA StoreMoney ==
  ASSUME Shape, PlaceInv, MoneyInv, NEW p \in Proc, Store(p)
  PROVE  MoneyStep
<1>1. /\ job[p].op = "open" /\ job[p].todo = <<>> /\ turn = p
      /\ ms' = [m \in Milestone |-> "pending"]
      /\ fundsHold' = job[p].funds /\ stakeHold' = job[p].stake /\ bondHold' = None
      /\ pledge' = job[p].stake /\ UNCHANGED hold /\ Stored'
  BY DEF Store, Last, walletVars, Stored
<1>2. ~Stored /\ job[p].phase = "run" /\ job[p] \in Job
  BY <1>1 DEF Shape, TypeOK, JobInv, JobOK
<1>3. /\ \A m \in Milestone : job[p].funds[m] # None
      /\ Placed(p)
  <2>1. Placed(p) /\ Len(job[p].todo) = 0
    BY <1>1 DEF PlaceInv
  <2> QED
    BY <1>2, <2>1 DEF Placed
<1>4. FundsInv'
  BY <1>1, <1>3 DEF FundsInv, Placed, W!Active
<1>5. CollateralInv'
  BY <1>1, <1>3 DEF CollateralInv, Placed, W!Active
<1>6. ~AllSettled'
  <2>1. 1 \in Milestone
    BY EscrowAssumption DEF Milestone
  <2> QED
    BY <1>1, <2>1 DEF AllSettled, Settled
<1>7. Promise!Fund
  <2>1. [m \in Milestone |-> Funds(m)] = [m \in Milestone |-> "none"]
    BY <1>2 DEF MoneyInv, Funds
  <2>2. [m \in Milestone |-> Funds(m)]' = [m \in Milestone |-> "locked"]
    BY <1>1, <1>3 DEF Placed, Funds, FundsBar, W!Active
  <2>3. (IF pledge = None THEN "none" ELSE CollateralBar[hold[pledge].state])'
          \in {"none", "locked"}
    BY <1>1, <1>3 DEF Placed, CollateralBar, W!Active
  <2> QED
    BY <2>1, <2>2, <2>3 DEF Promise!Fund
<1> QED
  BY <1>1, <1>4, <1>5, <1>6, <1>7 DEF MoneyStep, MoneyInv, StakeInv, Promise!Next

(* Every step of a request in progress.                                    *)
LEMMA ContinueMoney ==
  ASSUME SingleOpener, Shape, PlaceInv, MoneyInv, StakeInv, Clashed => Clashed',
         NEW p \in Proc, Continue(p)
  PROVE  MoneyStep
<1>1. /\ TypeOK /\ W!TypeOK /\ job \in [Proc -> Job] /\ job[p] \in Job /\ JobTypes
      /\ JobInv /\ JobOK(p) /\ turn \in Proc \cup {None}
  BY DEF Shape, TypeOK, JobInv, JobTypes
<1>2. Alone(p)
  BY <1>1
  DEF Continue, LockFunds, LockStake, Skip, CaptureMilestone, RefundMilestone, IssueReceipt,
      ReturnStake, SlashProviderStake, ReturnBond, Frivolous, ForgetBond, Throw, Store, Finish,
      FinishResolve, ReceiptClashes, Await, Proceed, End, Alone
<1>3. turn = p => Keeps
  BY <1>1, <1>2, AloneKeeps DEF JobOK
<1>4. MoneyInv /\ Stored => FundsInv /\ CollateralInv
  BY DEF MoneyInv
<1>5. CASE LockFunds(p) \/ LockStake(p)
  <2>1. turn = p /\ job[p].todo # <<>> /\ Current(p).do \in {"lock", "stake"}
        /\ Stored' = Stored /\ UNCHANGED <<holdVars, pledge>>
    BY <1>5 DEF LockFunds, LockStake, Doing, Running, recordVars, Stored, booksVars
  <2>2. ~Stored
    BY <1>1, <2>1, Working
  <2> QED
    BY <2>1, <2>2, OpeningMoney
<1>6. CASE Skip(p) \/ Throw(p) \/ Finish(p) \/ FinishResolve(p)
  <2>1. turn = p /\ UNCHANGED <<hold, ms, holdVars, pledge>>
    BY <1>6 DEF Skip, Throw, Finish, FinishResolve, Running, Last, recordVars, walletVars,
                booksVars, milestoneVars
  <2>2. Stored' = Stored
    <3>1. CASE Skip(p) \/ Throw(p)
      BY <3>1 DEF Skip, Throw, recordVars, Stored
    <3>2. CASE Finish(p) \/ FinishResolve(p)
      <4>1. Stored
        BY <1>1, <3>2 DEF Finish, FinishResolve, JobOK
      <4>2. Stored'
        BY <3>2, <4>1 DEF Finish, FinishResolve, Recomputed, Stored
      <4> QED
        BY <4>1, <4>2
    <3> QED
      BY <1>6, <3>1, <3>2
  <2> QED
    BY <1>3, <2>1, <2>2, SameMoney
<1>7. CASE IssueReceipt(p)
  <2>1. /\ job[p].phase = "sign" /\ job'[p].phase = "rate" /\ job'[p].todo = job[p].todo
        /\ UNCHANGED <<hold, ms, holdVars, pledge, state>>
    BY <1>1, <1>7 DEF IssueReceipt, BookReceipt, Awaiting, Await, Job, recordVars, walletVars,
                      milestoneVars
  <2>2. Keeps
    BY <1>2, <2>1 DEF Alone, Keeps, Forgetting, Settling, Current
  <2> QED
    BY <2>1, <2>2, SameMoney DEF Stored
<1>c. CASE ReceiptClashes(p)
  <2>1. /\ job[p].phase = "sign" /\ Clashed'
        /\ UNCHANGED <<hold, ms, fundsHold, stakeHold, bondHold, pledge, state>>
    BY <1>c DEF ReceiptClashes, BookReceipt, Awaiting, recordVars, walletVars, milestoneVars,
                holdVars, Clashed
  <2>2. Stored /\ Stored'
    BY <1>1, <2>1, AwaitingTask DEF Stored
  <2>3. Forgetting => Forgetting'
    BY <1>2, <2>1 DEF Alone, Forgetting, Current
  <2>4. FundsInv' /\ CollateralInv'
    BY <1>4, <2>1, <2>2, <2>3 DEF FundsInv, CollateralInv, W!Active
  <2>5. UNCHANGED Promise!promiseVars
    BY <2>1, PromiseStutters
  <2> QED
    BY <2>1, <2>2, <2>4, <2>5 DEF MoneyStep, MoneyInv, StakeInv
<1>8. CASE ReturnStake(p)
  <2>1. /\ job[p].phase = "rate" /\ Current(p).do \in {"capture", "refund"}
        /\ UNCHANGED <<state, ms, fundsHold, bondHold, pledge>>
    BY <1>8 DEF ReturnStake, Awaiting, milestoneVars, booksVars
  <2>2. Stored /\ Stored'
    BY <1>1, <2>1, AwaitingTask DEF Stored
  <2>3. Forgetting => Forgetting'
    BY <1>2, <2>1 DEF Alone, Forgetting, Current
  <2>4. CASE StakeDue
    <3>1. stakeHold # None /\ AllSettled /\ W!Release(stakeHold) /\ stakeHold' = None
      BY <1>8, <2>4 DEF ReturnStake, StakeDue
    <3>2. stakeHold \in HoldId
      BY <1>1, <3>1 DEF TypeOK
    <3>3. OnlyHold(stakeHold) /\ hold'[stakeHold].state = "released"
      BY <1>1, <3>1, <3>2, ReleaseEffect
    <3>4. FundsInv /\ CollateralInv
      BY <1>4, <2>2
    <3> QED
      BY <1>1, <2>1, <2>2, <2>3, <3>1, <3>2, <3>3, <3>4, StakeMoney
  <2>5. CASE ~StakeDue
    <3>1. UNCHANGED <<hold, stakeHold>>
      BY <1>8, <2>5 DEF ReturnStake, walletVars
    <3>2. FundsInv' /\ CollateralInv'
      BY <1>4, <2>1, <2>2, <2>3, <3>1 DEF FundsInv, CollateralInv, W!Active
    <3>3. StakeInv'
      BY <2>1, <2>5, <3>1 DEF StakeInv, StakeDue, AllSettled, Settled
    <3>4. UNCHANGED Promise!promiseVars
      BY <2>1, <3>1, PromiseStutters
    <3> QED
      BY <2>2, <3>2, <3>3, <3>4 DEF MoneyStep, MoneyInv
  <2> QED
    BY <2>4, <2>5
<1>9. CASE SlashProviderStake(p)
  <2>1. /\ turn = p /\ job[p].todo # <<>> /\ Current(p).do = "slash" /\ stakeHold # None
        /\ stakeHold' = None /\ UNCHANGED <<state, ms, fundsHold, bondHold, pledge>>
    BY <1>9 DEF SlashProviderStake, Doing, Running, Moot, milestoneVars, booksVars
  <2>2. Stored /\ Stored'
    BY <1>1, <2>1, Working DEF Stored
  <2>3. stakeHold \in HoldId /\ "payer" \in Party
    BY <1>1, <2>1 DEF TypeOK, Party
  <2>4. OnlyHold(stakeHold) /\ hold'[stakeHold].state = "forfeited"
    BY <1>1, <1>9, <2>3, ForfeitEffect DEF SlashProviderStake
  <2> QED
    BY <1>1, <1>3, <1>4, <2>1, <2>2, <2>4, StakeMoney DEF Keeps
<1>10. CASE ReturnBond(p)
  <2>1. /\ turn = p /\ job[p].todo # <<>> /\ Current(p).do = "return" /\ bondHold # None
        /\ bondHold' = None /\ UNCHANGED <<state, ms, fundsHold, stakeHold, pledge>>
    BY <1>10 DEF ReturnBond, Doing, Running, Moot, milestoneVars, booksVars
  <2>2. Stored /\ Stored'
    BY <1>1, <2>1, Working DEF Stored
  <2>3. bondHold \in HoldId
    BY <1>1, <2>1 DEF TypeOK
  <2>4. OnlyHold(bondHold)
    BY <1>1, <1>10, <2>3, ReleaseEffect DEF ReturnBond
  <2> QED
    BY <1>1, <1>3, <2>1, <2>2, <2>4, BondMoney DEF Keeps
<1>11. CASE Frivolous(p)
  <2>1. /\ turn = p /\ job[p].todo # <<>> /\ Current(p).do = "frivolous"
        /\ Await(p, "rate") /\ UNCHANGED <<state, ms, fundsHold, stakeHold, pledge>>
    BY <1>11 DEF Frivolous, Doing, Running, milestoneVars
  <2>2. Stored /\ Stored' /\ job[p].phase = "run"
    BY <1>1, <2>1, Working DEF Stored, JobOK
  <2>3. job'[p].phase = "rate" /\ job'[p].op = job[p].op /\ job'[p].todo = job[p].todo
    BY <1>1, <2>1 DEF Await, Job
  <2>4. bondHold' = None \/ (bondHold' = bondHold /\ Forgetting')
    BY <1>11, <2>1, <2>3 DEF Frivolous, Forgetting, Current
  <2>5. UNCHANGED hold \/ (bondHold # None /\ OnlyHold(bondHold))
    <3>1. CASE bondHold = None
      BY <1>11, <3>1 DEF Frivolous, walletVars
    <3>2. CASE bondHold # None
      <4>1. bondHold \in HoldId
        BY <1>1, <3>2 DEF TypeOK
      <4>2. PICK to \in Party : W!Forfeit(bondHold, to, 0)
        <5>1. (IF job[p].op = "resolve" THEN job[p].esc.agent ELSE job[p].by) \in Party
          BY <1>1 DEF JobOK, Fits, Job, Escalation
        <5> QED
          BY <1>11, <3>2, <5>1 DEF Frivolous, Other, Party
      <4> QED
        BY <1>1, <3>2, <4>1, <4>2, ForfeitEffect
    <3> QED
      BY <3>1, <3>2
  <2>6. Keeps
    BY <1>3, <2>1
  <2> QED
    BY <1>1, <2>1, <2>2, <2>4, <2>5, <2>6, BondMoney DEF Keeps
<1>12. CASE ForgetBond(p)
  <2>1. /\ job[p].phase = "rate" /\ Current(p).do = "frivolous"
        /\ bondHold' = (IF job[p].op = "resolve" THEN None ELSE bondHold)
        /\ UNCHANGED <<hold, state, ms, fundsHold, stakeHold, pledge>>
    BY <1>12 DEF ForgetBond, Awaiting, walletVars, milestoneVars, booksVars
  <2>2. Stored /\ Stored'
    BY <1>1, <2>1, AwaitingTask DEF Stored
  <2>3. \A q \in Proc : Settling(q) => Settling(q)'
    BY <1>2, <2>1 DEF Alone, Settling, Current
  <2>4. job[p].op # "resolve" => (Forgetting => Forgetting')
    BY <1>2 DEF Alone, Forgetting, Current
  <2> QED
    BY <1>1, <2>1, <2>2, <2>3, <2>4, BondMoney
<1> QED
  BY <1>5, <1>6, <1>7, <1>8, <1>9, <1>10, <1>11, <1>12, <1>c, SettleMoney, StoreMoney DEF Continue

(* Timeouts, rulings and the clock move no money.                          *)
LEMMA AroundMoney ==
  ASSUME TypeOK, MoneyInv, StakeInv, Clashed => Clashed',
         \/ \E p \in Proc : Schedule(p)
         \/ \E id \in ApprovalId, decision \in A!Decision : Rule(id, decision)
         \/ Tick
  PROVE  MoneyStep
<1>1. UNCHANGED <<hold, ms, holdVars, pledge>>
  BY DEF Schedule, Timeout, TimeoutEscalated, Rule, Tick, walletVars, milestoneVars, recordVars,
         booksVars
<1>2. Stored' = Stored
  BY DEF Schedule, Timeout, TimeoutEscalated, Openish, NonActionable, Rule, Tick, recordVars, Stored
<1>3. Keeps
  <2>1. ASSUME NEW p \in Proc, Schedule(p)
        PROVE  Alone(p) /\ job[p].phase \notin {"sign", "rate"}
    BY <2>1 DEF Schedule, Timeout, TimeoutEscalated, Free, Idle, Alone, TypeOK
  <2>2. ASSUME UNCHANGED job
        PROVE  Keeps
    BY <2>2 DEF Keeps, Forgetting, Settling, Current
  <2> QED
    BY <2>1, <2>2, AloneKeeps DEF Rule, Tick
<1> QED
  BY <1>1, <1>2, <1>3, SameMoney

-----------------------------------------------------------------------------
(* The opening, before the record is stored.                               *)

(* What the opening has placed stays placed when another request runs.     *)
LEMMA PlacedSame ==
  ASSUME NEW p \in Proc, Placed(p), job'[p] = job[p], UNCHANGED hold
  PROVE  Placed(p)'
BY DEF Placed, W!Active

(* The opening locks the funds of one more milestone.                      *)
LEMMA LockFundsPlaces ==
  ASSUME Shape, NEW p \in Proc, Placed(p), LockFunds(p)
  PROVE  Placed(p)'
<1> DEFINE m == Current(p).m
           todo == job[p].todo
<1>1. /\ TypeOK /\ W!TypeOK /\ JobTypes /\ JobInv /\ job[p] \in Job /\ job \in [Proc -> Job]
      /\ "payer" \in Party
  BY DEF Shape, TypeOK, JobTypes, Party
<1>2. /\ Lock("payer", Price[m]) /\ todo # <<>> /\ turn = p
      /\ job' = [job EXCEPT ![p] = [Rest(p) EXCEPT !.funds[m] = FreshHold]]
  BY DEF LockFunds, Doing, Running
<1>3. m \in Milestone /\ job[p].phase = "run"
  BY <1>1, <1>2, Working DEF Task, JobInv, JobOK
<1>4. Price[m] \in Nat
  BY <1>3, EscrowAssumption
<1>5. /\ FreshHold \in HoldId /\ hold[FreshHold].state = "none"
      /\ hold'[FreshHold].state = "active" /\ OnlyHold(FreshHold)
  BY <1>1, <1>2, <1>4, LockEffect
<1>6. /\ job'[p].funds = [job[p].funds EXCEPT ![m] = FreshHold] /\ job'[p].stake = job[p].stake
      /\ job'[p].todo = Tail(todo)
  BY <1>1, <1>2 DEF Rest, Job
<1>7. /\ job[p].funds \in [Milestone -> HoldId \cup {None}] /\ job[p].stake \in HoldId \cup {None}
      /\ todo \in Seq(Task)
  BY <1>1 DEF Job
<1>8. /\ \A n \in Milestone : job[p].funds[n] # FreshHold
      /\ job[p].stake # FreshHold
  BY <1>5, EscrowAssumption DEF Placed, W!Active
<1>9. \A h \in HoldId : W!Active(h) => hold'[h].state = "active"
  BY <1>5 DEF OnlyHold, W!Active
<1>10. ASSUME NEW n \in Milestone, job'[p].funds[n] # None
       PROVE  /\ hold'[job'[p].funds[n]].state = "active"
              /\ job'[p].funds[n] # job'[p].stake
              /\ \A k \in Milestone : job'[p].funds[k] = job'[p].funds[n] => k = n
  BY <1>3, <1>5, <1>6, <1>7, <1>8, <1>9, <1>10 DEF Placed
<1>11. job'[p].stake # None => hold'[job'[p].stake].state = "active"
  BY <1>6, <1>7, <1>9 DEF Placed
<1>12. ASSUME NEW n \in Milestone, job'[p].funds[n] = None
       PROVE  \E i \in 1..Len(Tail(todo)) : Tail(todo)[i].do = "lock" /\ Tail(todo)[i].m = n
  <2>1. n # m /\ job[p].funds[n] = None
    BY <1>3, <1>5, <1>6, <1>7, <1>12, EscrowAssumption
  <2>2. PICK i \in 1..Len(todo) : todo[i].do = "lock" /\ todo[i].m = n
    BY <1>3, <2>1 DEF Placed
  <2>3. i # 1
    BY <1>2, <1>7, <2>1, <2>2 DEF Current
  <2>4. /\ i - 1 \in 1..Len(Tail(todo)) /\ Tail(todo)[i - 1] = todo[i]
    BY <1>2, <1>7, <2>2, <2>3
  <2> QED
    BY <2>2, <2>4
<1> QED
  BY <1>6, <1>10, <1>11, <1>12 DEF Placed, W!Active

(* The opening locks the stake.                                            *)
LEMMA LockStakePlaces ==
  ASSUME Shape, NEW p \in Proc, Placed(p), LockStake(p)
  PROVE  Placed(p)'
<1> DEFINE todo == job[p].todo
<1>1. /\ TypeOK /\ W!TypeOK /\ JobTypes /\ JobInv /\ job[p] \in Job /\ job \in [Proc -> Job]
      /\ "payee" \in Party /\ Stake \in Nat
  BY EscrowAssumption DEF Shape, TypeOK, JobTypes, Party
<1>2. /\ Lock("payee", Stake) /\ todo # <<>> /\ turn = p /\ Current(p).do = "stake"
      /\ job' = [job EXCEPT ![p] = [Rest(p) EXCEPT !.stake = FreshHold]]
  BY DEF LockStake, Doing, Running
<1>3. job[p].phase = "run"
  BY <1>1, <1>2 DEF JobInv, JobOK
<1>4. /\ FreshHold \in HoldId /\ hold[FreshHold].state = "none"
      /\ hold'[FreshHold].state = "active" /\ OnlyHold(FreshHold)
  BY <1>1, <1>2, LockEffect
<1>5. /\ job'[p].funds = job[p].funds /\ job'[p].stake = FreshHold
      /\ job'[p].todo = Tail(todo)
  BY <1>1, <1>2 DEF Rest, Job
<1>6. job[p].funds \in [Milestone -> HoldId \cup {None}] /\ todo \in Seq(Task)
  BY <1>1 DEF Job
<1>7. ASSUME NEW n \in Milestone, job'[p].funds[n] # None
      PROVE  /\ hold'[job'[p].funds[n]].state = "active"
             /\ job'[p].funds[n] # job'[p].stake
             /\ \A k \in Milestone : job'[p].funds[k] = job'[p].funds[n] => k = n
  BY <1>4, <1>5, <1>6, <1>7 DEF Placed, W!Active, OnlyHold
<1>8. ASSUME NEW n \in Milestone, job'[p].funds[n] = None
      PROVE  \E i \in 1..Len(Tail(todo)) : Tail(todo)[i].do = "lock" /\ Tail(todo)[i].m = n
  <2>1. PICK i \in 1..Len(todo) : todo[i].do = "lock" /\ todo[i].m = n
    BY <1>3, <1>5, <1>8 DEF Placed
  <2>2. i # 1
    BY <1>2, <1>6, <2>1 DEF Current
  <2>3. /\ i - 1 \in 1..Len(Tail(todo)) /\ Tail(todo)[i - 1] = todo[i]
    BY <1>2, <1>6, <2>1, <2>2
  <2> QED
    BY <2>1, <2>3
<1> QED
  BY <1>4, <1>5, <1>7, <1>8 DEF Placed, W!Active

(* Whatever step is taken, what an opening has placed stays placed.        *)
LEMMA PlaceStep ==
  ASSUME SingleOpener, Shape, Shape', PlaceInv, Next
  PROVE  PlaceInv'
<1> SUFFICES ASSUME NEW q \in Proc, job'[q].op = "open"
             PROVE  Placed(q)'
  BY DEF PlaceInv
<1>1. /\ TypeOK /\ JobTypes /\ JobInv /\ job \in [Proc -> Job] /\ job[q] \in Job /\ job'[q] \in Job
      /\ JobOK(q) /\ turn \in Proc \cup {None}
  BY DEF Shape, TypeOK, JobTypes, JobInv
<1>2. q \in Opener /\ ~Stored'
  BY DEF Shape, JobInv, JobOK
<1>3. job'[q] = job[q] => PlaceInv /\ Placed(q) /\ ~Stored
  BY <1>1 DEF PlaceInv, JobOK
<1>4. ASSUME NEW p \in Proc, Receive(p)
      PROVE  Placed(q)'
  <2>1. UNCHANGED hold
    BY <1>4 DEF Receive, RequestOpen, RequestDeliver, RequestAccept, RequestDispute, RequestResolve,
                Request, walletVars
  <2>2. CASE q # p
    <3>1. job'[q] = job[q]
      BY <1>1, <1>4, <2>2 DEF Receive, RequestOpen, RequestDeliver, RequestAccept, RequestDispute,
                              RequestResolve, Request
    <3> QED
      BY <1>3, <2>1, <3>1, PlacedSame
  <2>3. CASE q = p
    <3>1. CASE RequestOpen(p)
      <4>1. job'[q] = [[Idle EXCEPT !.op = "open"] EXCEPT !.phase = "verify"]
        BY <1>1, <2>3, <3>1 DEF RequestOpen, Request
      <4>2. /\ job'[q].phase = "verify" /\ job'[q].stake = None
            /\ \A m \in Milestone : job'[q].funds[m] = None
        BY <4>1 DEF Idle
      <4> QED
        BY <4>2 DEF Placed
    <3>2. CASE ~RequestOpen(p)
      <4>1. ASSUME NEW j, Request(p, j), j.op # "open" PROVE FALSE
        <5>1. job'[p] = [j EXCEPT !.phase = "verify"]
          BY <1>1, <4>1 DEF Request
        <5> QED
          BY <2>3, <4>1, <5>1
      <4>2. \/ \E m \in Milestone, claim \in {"match", "mismatch"} : RequestDeliver(p, m, claim)
            \/ \E m \in Milestone : RequestAccept(p, m)
            \/ \E m \in Milestone, by \in Party, bond \in Bond : RequestDispute(p, m, by, bond)
            \/ RequestResolve(p)
        BY <1>4, <3>2 DEF Receive
      <4>3. CASE \E m \in Milestone, claim \in {"match", "mismatch"} : RequestDeliver(p, m, claim)
        BY <4>1, <4>3 DEF RequestDeliver, Idle
      <4>4. CASE \E m \in Milestone : RequestAccept(p, m)
        BY <4>1, <4>4 DEF RequestAccept, Idle
      <4>5. CASE \E m \in Milestone, by \in Party, bond \in Bond : RequestDispute(p, m, by, bond)
        BY <4>1, <4>5 DEF RequestDispute, Idle
      <4>6. CASE RequestResolve(p)
        BY <4>1, <4>6 DEF RequestResolve, Idle
      <4> QED
        BY <4>2, <4>3, <4>4, <4>5, <4>6
    <3> QED
      BY <3>1, <3>2
  <2> QED
    BY <2>2, <2>3
<1>5. ASSUME NEW p \in Proc, Begin(p)
      PROVE  Placed(q)'
  <2>1. JobOK(p) /\ job[p] \in Job
    BY <1>1 DEF JobInv, JobTypes
  <2>2. ~DisputeDecided(p) /\ ~DisputeEscalated(p)
    BY <1>2 DEF DisputeDecided, DisputeEscalated, Stored
  <2>3. UNCHANGED hold
    BY <1>5, <2>2 DEF Begin, Open, Deliver, Accept, Resolve, Reject, walletVars
  <2>4. CASE q # p
    <3>1. job'[q] = job[q]
      BY <1>1, <1>5, <2>2, <2>4 DEF Begin, Open, Deliver, Accept, Resolve, Reject, Run, End
    <3> QED
      BY <1>3, <2>3, <3>1, PlacedSame
  <2>5. CASE q = p
    <3>1. CASE Open(p)
      <4>1. /\ job[q].op = "open" /\ job'[q].funds = job[q].funds /\ job'[q].stake = job[q].stake
            /\ job'[q].todo = OpeningTasks
        BY <1>1, <2>5, <3>1 DEF Open, Verified, Run, Job
      <4>2. Placed(q)
        BY <4>1 DEF PlaceInv
      <4> QED
        BY <2>3, <4>1, <4>2, OpeningTasksType DEF Placed, W!Active
    <3>2. CASE ~Open(p)
      BY <1>1, <1>5, <2>2, <2>5, <3>2
      DEF Begin, Deliver, Accept, Resolve, Reject, Verified, Run, End, Idle, Job
    <3> QED
      BY <3>1, <3>2
  <2> QED
    BY <2>4, <2>5
<1>6. ASSUME NEW p \in Proc, Continue(p)
      PROVE  Placed(q)'
  <2>1. JobOK(p) /\ job[p] \in Job /\ Alone(p)
    BY <1>1, <1>6
    DEF JobInv, JobTypes, Continue, LockFunds, LockStake, Skip, CaptureMilestone, RefundMilestone,
        IssueReceipt, ReturnStake, SlashProviderStake, ReturnBond, Frivolous, ForgetBond, Throw,
        Store, Finish, FinishResolve, ReceiptClashes, Await, Proceed, End, Alone
  <2>2. job[p].todo # <<>> \/ Store(p) \/ Finish(p) \/ FinishResolve(p)
    BY <1>1, <1>6, AwaitingTask
    DEF Continue, LockFunds, LockStake, Skip, CaptureMilestone, RefundMilestone, IssueReceipt,
        ReceiptClashes, BookReceipt, ReturnStake, SlashProviderStake, ReturnBond, Frivolous,
        ForgetBond, Throw, Doing, Running, Awaiting
  <2>3. job[p].op # "none"
    <3>1. CASE job[p].todo # <<>>
      BY <1>1, <3>1, Working
    <3>2. CASE Store(p) \/ Finish(p) \/ FinishResolve(p)
      BY <3>2 DEF Store, Finish, FinishResolve
    <3> QED
      BY <2>2, <3>1, <3>2
  <2>4. ~Stored
    <3>1. CASE Store(p) \/ Finish(p) \/ FinishResolve(p)
      BY <1>2, <2>1, <3>1 DEF Store, Finish, FinishResolve, Recomputed, Stored, JobOK
    <3>2. CASE ~(Store(p) \/ Finish(p) \/ FinishResolve(p))
      BY <1>2, <1>6, <3>2
      DEF Continue, LockFunds, LockStake, Skip, CaptureMilestone, RefundMilestone, IssueReceipt,
          ReceiptClashes, BookReceipt, ReturnStake, SlashProviderStake, ReturnBond, Frivolous,
          ForgetBond, Throw, Stored, recordVars
    <3> QED
      BY <3>1, <3>2
  <2>5. job[p].op = "open" /\ p \in Opener
    BY <2>1, <2>3, <2>4 DEF JobOK
  <2>6. p = q /\ Placed(p)
    BY <1>2, <2>5 DEF SingleOpener, PlaceInv
  <2>7. job[p].phase \notin {"sign", "rate"}
    BY <2>1, <2>5 DEF JobOK, Fits
  <2>8. LockFunds(p) \/ LockStake(p) \/ Skip(p) \/ Throw(p)
    <3>1. ~Store(p) /\ ~Finish(p) /\ ~FinishResolve(p)
      BY <1>2, <2>5 DEF Store, Finish, FinishResolve, Stored
    <3>2. Current(p).do \in {"lock", "stake"}
      BY <1>1, <2>2, <2>5, <3>1, Working
    <3> QED
      BY <1>6, <2>7, <3>1, <3>2
      DEF Continue, CaptureMilestone, RefundMilestone, IssueReceipt, ReceiptClashes, BookReceipt,
          ReturnStake, SlashProviderStake, ReturnBond, Frivolous, ForgetBond, Doing, Awaiting
  <2>9. ~Skip(p)
    <3>1. ASSUME Skip(p)
          PROVE  Current(p).do \in {"lock", "stake"} /\ ~Current(p).sweep
      BY <1>1, <2>5, <3>1, Working DEF Skip, Running
    <3> QED
      BY <3>1 DEF Skip, Moot, Swept
  <2>10. ~Throw(p)
    BY <1>1, <2>6 DEF Throw, End, Idle
  <2> QED
    BY <2>6, <2>8, <2>9, <2>10, LockFundsPlaces, LockStakePlaces
<1>7. CASE \/ \E p \in Proc : Schedule(p)
           \/ \E id \in ApprovalId, decision \in A!Decision : Rule(id, decision)
           \/ Tick
  <2>1. UNCHANGED hold /\ job'[q] = job[q]
    BY <1>1, <1>7 DEF Schedule, Timeout, TimeoutEscalated, Rule, Tick, walletVars, Idle
  <2> QED
    BY <1>3, <2>1, PlacedSame
<1> QED
  BY <1>4, <1>5, <1>6, <1>7 DEF Next

-----------------------------------------------------------------------------
(* The invariant holds at the start, and every step keeps it.              *)

(* The initial states, for the invariant and for the promise.              *)
LEMMA InitInv ==
  ASSUME Init
  PROVE  IInv /\ Promise!Init
<1>1. turn = None /\ \A p \in Proc : job[p] = Idle /\ turn # p
  BY EscrowAssumption DEF Init
<1>2. /\ state = "absent" /\ ~Stored /\ escalation = NoEscalation /\ pledge = None
      /\ fundsHold = [m \in Milestone |-> None] /\ stakeHold = None /\ bondHold = None
  BY DEF Init, Stored
<1>3. W!TypeOK /\ A!TypeOK
  BY EscrowAssumption DEF Init, W!Init, A!Init, W!TypeOK, A!TypeOK
<1>4. TypeOK
  BY <1>1, <1>2, <1>3, IdleType, EscrowAssumption
  DEF Init, TypeOK, EscrowState, MilestoneState, Party
<1>5. EscalationInv /\ MoneyInv /\ StakeInv
  BY <1>2 DEF EscalationInv, MoneyInv, StakeInv
<1>6. JobInv /\ PlaceInv
  BY <1>1, <1>2, IdleType DEF JobInv, JobOK, PlaceInv, Idle
<1>7. Promise!Init
  BY <1>2 DEF Promise!Init, Funds
<1> QED
  BY <1>4, <1>5, <1>6, <1>7 DEF IInv

(* A step that changes nothing.                                            *)
LEMMA StutterInv ==
  ASSUME IInv, UNCHANGED vars
  PROVE  IInv' /\ MoneyStep
<1>1. /\ Shape /\ JobTypes /\ JobInv /\ PlaceInv /\ MoneyInv /\ StakeInv
      /\ A!TypeOK
  BY DEF IInv, Shape, TypeOK, JobTypes
<1>2. /\ UNCHANGED <<walletVars, recordVars, now, booksVars>> /\ UNCHANGED <<approval, job, turn>>
      /\ UNCHANGED <<hold, ms, holdVars, pledge>> /\ Stored' = Stored
  BY DEF vars, walletVars, recordVars, milestoneVars, booksVars, Stored
<1>3. JobTypes' /\ A!TypeOK'
  BY <1>1, <1>2 DEF JobTypes, A!TypeOK
<1>4. JobInv'
  BY <1>1, <1>2 DEF JobInv, JobOK, Fits
<1>5. PlaceInv'
  BY <1>1, <1>2, PlacedSame DEF PlaceInv
<1>6. Keeps
  BY <1>2 DEF Keeps, Forgetting, Settling, Current
<1>7. MoneyStep
  BY <1>1, <1>2, <1>6, ClashStays, SameMoney
<1>8. Shape'
  BY <1>1, <1>2, <1>3, <1>4, SameRecord
<1> QED
  BY <1>5, <1>7, <1>8 DEF IInv, Shape, MoneyStep

(* Every step keeps the invariant and maps to a step of the promise.       *)
LEMMA StepInv ==
  ASSUME SingleOpener, IInv, [Next]_vars
  PROVE  IInv' /\ [Promise!Next]_(Promise!promiseVars)
<1>1. Shape /\ TypeOK /\ PlaceInv /\ MoneyInv /\ StakeInv /\ (Clashed => Clashed')
  BY ClashStays DEF IInv, Shape
<1>2. CASE Next
  <2>1. Shape' /\ MoneyStep
    <3>1. CASE \E p \in Proc : Receive(p) \/ Begin(p) \/ Continue(p)
      BY <1>1, <3>1, RequestShape, BeginShape, ContinueShape, ReceiveMoney, BeginMoney,
         ContinueMoney
    <3>2. CASE ~\E p \in Proc : Receive(p) \/ Begin(p) \/ Continue(p)
      BY <1>1, <1>2, <3>2, AroundShape, AroundMoney DEF Next
    <3> QED
      BY <3>1, <3>2
  <2>2. PlaceInv'
    BY <1>1, <1>2, <2>1, PlaceStep
  <2> QED
    BY <2>1, <2>2 DEF IInv, Shape, MoneyStep
<1>3. CASE UNCHANGED vars
  BY <1>3, StutterInv DEF MoneyStep
<1> QED
  BY <1>2, <1>3

-----------------------------------------------------------------------------
(* The books: receipts and usage against the funds.                        *)

Captured == {m \in Milestone : Funds(m) = "paid"}
Due(m) == IF Funds(m) \in {"paid", "returned"} THEN 1 ELSE 0
Booked(m) == Len(receipts[m]) + Cardinality(Signing(m)) = Due(m)

(* The books agree with the funds; nothing is booked before the record is  *)
(* stored.                                                                 *)
BooksInv ==
  IF Stored
  THEN /\ \A m \in Milestone : Booked(m)
       /\ spent = SumFunctionOnSet(Price, Captured)
  ELSE receipts = [m \in Milestone |-> <<>>] /\ spent = 0

(* A request that signs nothing before or after a step leaves the receipts *)
(* being signed as they are.                                               *)
LEMMA SigningStays ==
  ASSUME NEW p \in Proc, Alone(p), job[p].phase # "sign", job'[p].phase # "sign"
  PROVE  \A m \in Milestone : Signing(m)' = Signing(m)
BY DEF Alone, Signing, Current

(* A step that settles nothing and books nothing.                          *)
LEMMA BooksStay ==
  ASSUME BooksInv, Stored' = Stored, Stored => \A m \in Milestone : Funds(m)' = Funds(m),
         Stored => \A m \in Milestone : Signing(m)' = Signing(m), UNCHANGED <<receipts, spent>>
  PROVE  BooksInv'
<1>1. CASE Stored
  <2>1. Captured' = Captured
    BY <1>1 DEF Captured
  <2>2. \A m \in Milestone : Due(m)' = Due(m)
    BY <1>1 DEF Due
  <2>3. \A m \in Milestone : Booked(m)'
    BY <1>1, <2>2 DEF BooksInv, Booked
  <2> QED
    BY <1>1, <2>1, <2>3 DEF BooksInv
<1>2. CASE ~Stored
  BY <1>2 DEF BooksInv
<1> QED
  BY <1>1, <1>2

(* The milestones keep their holds, and those stay as they are.            *)
FundsKept == UNCHANGED fundsHold /\ \A m \in Milestone : hold'[fundsHold[m]] = hold[fundsHold[m]]

(* Funds change with their hold only.                                      *)
LEMMA FundsStay ==
  ASSUME TypeOK, Stored, FundsInv, UNCHANGED fundsHold,
         \/ UNCHANGED hold
         \/ \E h : OnlyHold(h) /\ \A m \in Milestone : fundsHold[m] # h
  PROVE  FundsKept
<1>1. \A m \in Milestone : fundsHold[m] \in HoldId
  BY DEF TypeOK, FundsInv
<1> QED
  BY <1>1 DEF OnlyHold, FundsKept

(* Funds that keep their holds are where they were.                        *)
LEMMA KeptFunds ==
  ASSUME FundsKept
  PROVE  \A m \in Milestone : Funds(m)' = Funds(m)
BY DEF FundsKept, Funds

(* Stake, bond and a hold that is new are not the funds of a milestone.    *)
LEMMA OtherHolds ==
  ASSUME TypeOK, FundsInv, CollateralInv, NEW m \in Milestone
  PROVE  /\ stakeHold # None => fundsHold[m] # stakeHold
         /\ fundsHold[m] # bondHold
         /\ \A h \in HoldId : hold[h].state = "none" => fundsHold[m] # h
BY DEF FundsInv, CollateralInv

(* A bond that is posted leaves the funds alone.                           *)
LEMMA BondFunds ==
  ASSUME TypeOK, Stored, FundsInv, CollateralInv, NEW p \in Proc, job[p] \in Job, PostBond(p),
         UNCHANGED fundsHold
  PROVE  FundsKept
<1>1. CASE job[p].bond > 0
  <2>1. Lock(job[p].by, job[p].bond) /\ W!TypeOK /\ job[p].by \in Party /\ job[p].bond \in Nat
    BY <1>1 DEF PostBond, TypeOK, Job
  <2>2. FreshHold \in HoldId /\ hold[FreshHold].state = "none" /\ OnlyHold(FreshHold)
    BY <2>1, LockEffect
  <2> QED
    BY <2>2, FundsStay, OtherHolds
<1>2. CASE ~(job[p].bond > 0)
  BY <1>2, FundsStay DEF PostBond, walletVars
<1> QED
  BY <1>1, <1>2

(* Requests that come in, start, or time out leave the funds alone.        *)
LEMMA BeginFunds ==
  ASSUME Shape, MoneyInv, NEW p \in Proc, Receive(p) \/ Begin(p) \/ Schedule(p)
  PROVE  Stored' = Stored /\ (Stored => FundsKept)
<1>1. TypeOK /\ job[p] \in Job /\ JobOK(p)
  BY DEF Shape, TypeOK, JobInv
<1>2. CASE DisputeDecided(p) \/ DisputeEscalated(p)
  <2>1. Stored /\ Stored' /\ PostBond(p) /\ UNCHANGED fundsHold
    BY <1>1, <1>2 DEF JobOK, DisputeDecided, DisputeEscalated, Verified, Stored
  <2> QED
    BY <1>1, <2>1, BondFunds DEF MoneyInv
<1>3. CASE ~DisputeDecided(p) /\ ~DisputeEscalated(p)
  <2>1. UNCHANGED <<hold, fundsHold>>
    BY <1>3 DEF Receive, RequestOpen, RequestDeliver, RequestAccept, RequestDispute,
                RequestResolve, Request, Begin, Open, Deliver, Accept, Resolve, Reject,
                Schedule, Timeout, TimeoutEscalated, walletVars, recordVars, holdVars
  <2>2. Stored' = Stored
    BY <1>3 DEF Receive, RequestOpen, RequestDeliver, RequestAccept, RequestDispute,
                RequestResolve, Request, Begin, Open, Deliver, Accept, Resolve, Reject,
                Schedule, Timeout, TimeoutEscalated, Openish, NonActionable, recordVars, Stored
  <2> QED
    BY <2>1, <2>2 DEF FundsKept
<1> QED
  BY <1>2, <1>3

(* Requests that come in, start, or time out book nothing.                 *)
LEMMA BeginBooks ==
  ASSUME Shape, Shape', MoneyInv, BooksInv, NEW p \in Proc, Receive(p) \/ Begin(p) \/ Schedule(p)
  PROVE  BooksInv'
<1>1. TypeOK /\ job \in [Proc -> Job] /\ job[p] \in Job /\ JobOK(p)
  BY DEF Shape, TypeOK, JobInv
<1>2. Alone(p) /\ job[p].phase # "sign" /\ job'[p].phase # "sign" /\ UNCHANGED <<receipts, spent>>
  <2>1. CASE Receive(p)
    <3>1. PICK j : Request(p, j)
      BY <2>1 DEF Receive, RequestOpen, RequestDeliver, RequestAccept, RequestDispute, RequestResolve
    <3>2. job' = [job EXCEPT ![p] = [j EXCEPT !.phase = "verify"]] /\ job[p].phase = "idle"
      BY <3>1 DEF Request, Free, Idle
    <3>3. job'[p] \in Job /\ job'[p].phase # "sign"
      BY <1>1, <3>2 DEF Shape, TypeOK
    <3> QED
      BY <1>1, <3>1, <3>2, <3>3 DEF Alone, Request, booksVars
  <2>2. CASE Begin(p)
    <3>1. job[p].phase = "verify" /\ UNCHANGED <<receipts, spent>>
      BY <2>2 DEF Begin, Open, Deliver, Accept, DisputeDecided, DisputeEscalated, Resolve, Reject,
                  Verified, booksVars
    <3>2. End(p) \/ \E todo : Run(p, todo)
      BY <2>2 DEF Begin, Open, Deliver, Accept, DisputeDecided, DisputeEscalated, Resolve, Reject
    <3>3. Alone(p) /\ job'[p].phase \in {"idle", "run"}
      BY <1>1, <3>2 DEF Run, End, Idle, Alone, Job
    <3> QED
      BY <3>1, <3>3
  <2>3. CASE Schedule(p)
    <3>1. job[p].phase = "idle" /\ UNCHANGED <<receipts, spent>>
      BY <2>3 DEF Schedule, Timeout, TimeoutEscalated, Free, Idle, booksVars
    <3>2. CASE TimeoutEscalated(p)
      BY <3>1, <3>2 DEF TimeoutEscalated, Alone
    <3>3. CASE Timeout(p)
      <4> DEFINE j == [Idle EXCEPT !.op = "timeout", !.phase = "run", !.todo = TimeoutTasks]
      <4>1. j.phase = "run"
        BY DEF Idle
      <4>2. job' = [job EXCEPT ![p] = j]
        BY <3>3 DEF Timeout
      <4> HIDE DEF j
      <4> QED
        BY <1>1, <3>1, <4>1, <4>2 DEF Alone
    <3> QED
      BY <2>3, <3>2, <3>3 DEF Schedule
  <2> QED
    BY <2>1, <2>2, <2>3
<1>3. \A m \in Milestone : Signing(m)' = Signing(m)
  BY <1>2, SigningStays
<1> QED
  BY <1>2, <1>3, BeginFunds, KeptFunds, BooksStay

(* A settlement owes its receipt from then on, and a capture counts.       *)
LEMMA SettleBooks ==
  ASSUME Shape, MoneyInv, BooksInv, NEW p \in Proc, CaptureMilestone(p) \/ RefundMilestone(p)
  PROVE  BooksInv'
<1>1. TypeOK /\ W!TypeOK /\ job \in [Proc -> Job] /\ JobTypes /\ JobInv /\ "payee" \in Party
  BY DEF Shape, TypeOK, JobTypes, Party
<1>2. turn = p /\ job[p].todo # <<>>
  BY DEF CaptureMilestone, RefundMilestone, Doing, Running
<1>3. Current(p).m \in Milestone /\ Stored /\ job[p].phase = "run" /\ job[p] \in Job
      /\ job[p].op \notin {"none", "open"}
  <2>1. Current(p).m \in Milestone /\ job[p].phase = "run" /\ job[p] \in Job /\ job[p].op # "none"
        /\ (job[p].op = "open" => Current(p).do \in {"lock", "stake"})
        /\ (job[p].op # "open" => Stored)
    BY <1>1, <1>2, Working DEF Task, JobInv, JobOK
  <2>2. Current(p).do \in {"capture", "refund"}
    BY DEF CaptureMilestone, RefundMilestone, Doing
  <2> QED
    BY <2>1, <2>2
<1>m. PICK m \in Milestone : m = Current(p).m
  BY <1>3
<1>4. /\ Stored' /\ UNCHANGED <<fundsHold, receipts>> /\ Await(p, "sign")
  BY <1>3 DEF CaptureMilestone, RefundMilestone, Stored, holdVars, booksVars
<1>5. /\ Alone(p) /\ job'[p].phase = "sign" /\ job'[p].todo = job[p].todo
  BY <1>1, <1>3, <1>4 DEF Await, Alone, Job
<1>6. FundsInv /\ CollateralInv /\ fundsHold[m] \in HoldId
  BY <1>1, <1>3, FundsNamed DEF MoneyInv
<1>h. PICK h \in HoldId : h = fundsHold[m]
  BY <1>6
<1>7. /\ W!Active(h) /\ OnlyHold(h)
      /\ \/ hold'[h].state = "captured" /\ spent' = spent + Price[m]
         \/ hold'[h].state = "released" /\ spent' = spent
  <2>1. CASE CaptureMilestone(p)
    BY <1>1, <1>m, <1>h, <2>1, CaptureEffect DEF CaptureMilestone
  <2>2. CASE RefundMilestone(p)
    BY <1>1, <1>m, <1>h, <2>2, ReleaseEffect DEF RefundMilestone, booksVars
  <2> QED
    BY <2>1, <2>2
<1>8. /\ Funds(m) = "locked"
      /\ \/ Funds(m)' = "paid" /\ spent' = spent + Price[m]
         \/ Funds(m)' = "returned" /\ spent' = spent
  BY <1>4, <1>6, <1>7, <1>h, EscrowAssumption DEF Funds, FundsBar, W!Active
<1>9. \A n \in Milestone \ {m} : Funds(n)' = Funds(n)
  <2>1. \A n \in Milestone \ {m} : fundsHold[n] \in HoldId \ {h}
    BY <1>1, <1>h, <1>3, <1>6, FundsNamed DEF FundsInv
  <2> QED
    BY <1>4, <1>7, <2>1 DEF OnlyHold, Funds
<1>10. Signing(m)' = Signing(m) \cup {p} /\ p \notin Signing(m)
  BY <1>3, <1>5, <1>m DEF Signing, Alone, Current
<1>11. \A n \in Milestone \ {m} : Signing(n)' = Signing(n)
  BY <1>3, <1>5, <1>m DEF Signing, Alone, Current
<1>12. Booked(m)'
  <2>1. IsFiniteSet(Signing(m))
    BY FS_Subset, EscrowAssumption DEF Signing
  <2>2. Cardinality(Signing(m))' = Cardinality(Signing(m)) + 1
    BY <1>10, <2>1, FS_AddElement
  <2>3. Booked(m) /\ Len(receipts[m]) \in Nat /\ Cardinality(Signing(m)) \in Nat
    BY <1>1, <1>3, <2>1, FS_CardinalityType DEF BooksInv, TypeOK
  <2>4. Due(m) = 0 /\ Due(m)' = 1
    BY <1>8 DEF Due
  <2> QED
    BY <1>4, <2>2, <2>3, <2>4 DEF Booked
<1>13. \A n \in Milestone : Booked(n)'
  BY <1>3, <1>4, <1>9, <1>11, <1>12 DEF BooksInv, Booked, Due
<1>14. spent' = SumFunctionOnSet(Price, Captured')
  <2>1. spent = SumFunctionOnSet(Price, Captured)
    BY <1>3 DEF BooksInv
  <2>2. CASE Funds(m)' = "returned" /\ spent' = spent
    <3>1. Captured' = Captured
      BY <1>8, <1>9, <2>2 DEF Captured
    <3> QED
      BY <2>1, <2>2, <3>1
  <2>3. CASE Funds(m)' = "paid" /\ spent' = spent + Price[m]
    <3>0. PICK old : old = Captured
      OBVIOUS
    <3>1. Captured' = old \cup {m} /\ m \notin old
      BY <1>3, <1>8, <1>9, <2>3, <3>0 DEF Captured
    <3>2. IsFiniteSet(old) /\ old \subseteq Milestone
      <4>1. IsFiniteSet(Milestone)
        BY FS_Interval, EscrowAssumption DEF Milestone
      <4>2. old \subseteq Milestone
        BY <3>0 DEF Captured
      <4> QED
        BY <4>1, <4>2, FS_Subset
    <3>3. \A x \in Milestone : Price[x] \in Int
      BY EscrowAssumption
    <3>4. SumFunctionOnSet(Price, old \cup {m}) = SumFunctionOnSet(Price, old) + Price[m]
      BY <1>3, <3>1, <3>2, <3>3, SumAdd
    <3> QED
      BY <2>1, <2>3, <3>0, <3>1, <3>4
  <2> QED
    BY <1>8, <2>2, <2>3
<1> QED
  BY <1>4, <1>13, <1>14 DEF BooksInv

(* The signed receipt is appended for the milestone it is about.           *)
LEMMA ReceiptBooks ==
  ASSUME Shape, BooksInv, NEW p \in Proc, IssueReceipt(p) \/ ReceiptClashes(p)
  PROVE  BooksInv'
<1>1. TypeOK /\ job \in [Proc -> Job] /\ JobTypes /\ JobInv /\ job[p].phase = "sign"
  BY DEF Shape, TypeOK, JobTypes, IssueReceipt, ReceiptClashes, BookReceipt, Awaiting
<1>2. Stored /\ Current(p) \in Task
  BY <1>1, AwaitingTask, Working
<1>3. PICK m \in Milestone : m = Current(p).m
  BY <1>2 DEF Task
<1>4. /\ receipts' = [receipts EXCEPT ![m] = Append(@, Current(p).outcome)]
      /\ UNCHANGED <<hold, fundsHold, spent, state>> /\ (Await(p, "rate") \/ End(p))
  BY <1>3 DEF IssueReceipt, ReceiptClashes, BookReceipt, walletVars, recordVars, holdVars
<1>5. /\ Alone(p) /\ job'[p].phase # "sign"
  BY <1>1, <1>4 DEF Await, End, Idle, Alone, JobTypes, Job
<1>6. \A n \in Milestone : Funds(n)' = Funds(n)
  BY <1>4 DEF Funds
<1>7. Captured' = Captured
  BY <1>6 DEF Captured
<1>8. Signing(m)' = Signing(m) \ {p} /\ p \in Signing(m)
  BY <1>1, <1>3, <1>5 DEF Signing, Alone, Current
<1>9. \A n \in Milestone \ {m} : Signing(n)' = Signing(n) /\ receipts'[n] = receipts[n]
  BY <1>1, <1>3, <1>4, <1>5 DEF Signing, Alone, Current, TypeOK
<1>10. Booked(m)'
  <2>1. IsFiniteSet(Signing(m))
    BY FS_Subset, EscrowAssumption DEF Signing
  <2>2. Cardinality(Signing(m))' = Cardinality(Signing(m)) - 1
    BY <1>8, <2>1, FS_RemoveElement
  <2>3. Booked(m) /\ Len(receipts[m]) \in Nat /\ Cardinality(Signing(m)) \in Nat
    BY <1>1, <1>2, <1>3, <2>1, FS_CardinalityType DEF BooksInv, TypeOK
  <2>4. Len(receipts[m])' = Len(receipts[m]) + 1
    BY <1>1, <1>3, <1>4 DEF TypeOK
  <2>5. Due(m)' = Due(m)
    BY <1>3, <1>6 DEF Due
  <2> QED
    BY <2>2, <2>3, <2>4, <2>5 DEF Booked
<1>11. \A n \in Milestone : Booked(n)'
  BY <1>2, <1>3, <1>6, <1>9, <1>10 DEF BooksInv, Booked, Due
<1> QED
  BY <1>2, <1>4, <1>7, <1>11 DEF BooksInv, Stored

(* The record is stored with everything locked and nothing signed.         *)
LEMMA StoreBooks ==
  ASSUME Shape, PlaceInv, BooksInv, NEW p \in Proc, Store(p)
  PROVE  BooksInv'
<1>1. /\ job[p].op = "open" /\ job[p].todo = <<>> /\ turn = p /\ fundsHold' = job[p].funds
      /\ UNCHANGED <<hold, receipts, spent>> /\ Stored' /\ End(p)
  BY DEF Store, Last, walletVars, Stored
<1>2. /\ ~Stored /\ job[p].phase = "run" /\ job \in [Proc -> Job] /\ job[p] \in Job
      /\ JobTypes /\ JobInv
  BY <1>1 DEF Shape, TypeOK, JobInv, JobOK, JobTypes
<1>3. \A q \in Proc : job'[q].phase # "sign"
  <2>1. \A q \in Proc : job[q].phase # "sign"
    BY <1>2, AwaitingTask
  <2> QED
    BY <1>1, <1>2, <2>1 DEF End, Idle
<1>4. \A m \in Milestone : Signing(m)' = {}
  BY <1>3 DEF Signing
<1>5. \A m \in Milestone : Funds(m)' = "locked"
  <2>1. Placed(p) /\ Len(job[p].todo) = 0
    BY <1>1 DEF PlaceInv
  <2>2. \A m \in Milestone : job[p].funds[m] # None /\ W!Active(job[p].funds[m])
    BY <1>2, <2>1 DEF Placed
  <2> QED
    BY <1>1, <2>2 DEF Funds, FundsBar, W!Active
<1>6. \A m \in Milestone : Booked(m)'
  <2> SUFFICES ASSUME NEW m \in Milestone
               PROVE  Booked(m)'
    OBVIOUS
  <2>1. receipts'[m] = <<>> /\ Len(<<>>) = 0
    BY <1>1, <1>2 DEF BooksInv
  <2>2. Cardinality(Signing(m))' = 0
    BY <1>4, FS_EmptySet
  <2>3. Due(m)' = 0
    BY <1>5 DEF Due
  <2> QED
    BY <2>1, <2>2, <2>3 DEF Booked
<1>7. spent' = SumFunctionOnSet(Price, Captured')
  <2>1. Captured' = {}
    BY <1>5 DEF Captured
  <2> QED
    BY <1>1, <1>2, <2>1, SumEmpty DEF BooksInv
<1> QED
  BY <1>1, <1>6, <1>7 DEF BooksInv

(* The steps of a request that settle nothing leave the funds alone.       *)
LEMMA OtherFunds ==
  ASSUME Shape, MoneyInv, NEW p \in Proc, Continue(p),
         ~CaptureMilestone(p), ~RefundMilestone(p), ~Store(p)
  PROVE  Stored' = Stored /\ (Stored => FundsKept)
<1>1. /\ TypeOK /\ W!TypeOK /\ job[p] \in Job /\ JobTypes
      /\ JobInv /\ JobOK(p)
  BY DEF Shape, TypeOK, JobInv, JobTypes
<1>2. UNCHANGED fundsHold
  BY DEF Continue, LockFunds, LockStake, Skip, IssueReceipt, ReceiptClashes, BookReceipt,
         ReturnStake, SlashProviderStake, ReturnBond, Frivolous, ForgetBond, Throw, Finish,
         FinishResolve, recordVars, holdVars
<1>3. Stored' = Stored
  <2>1. CASE Finish(p) \/ FinishResolve(p)
    BY <1>1, <2>1 DEF Finish, FinishResolve, Recomputed, Stored, JobOK
  <2>2. CASE ~Finish(p) /\ ~FinishResolve(p)
    BY <2>2 DEF Continue, LockFunds, LockStake, Skip, ReturnStake, SlashProviderStake, ReturnBond,
                Frivolous, ForgetBond, Throw, IssueReceipt, ReceiptClashes, BookReceipt, Stored,
                recordVars
  <2> QED
    BY <2>1, <2>2
<1>4. ASSUME Stored
      PROVE  FundsKept
  <2>1. FundsInv /\ CollateralInv
    BY <1>4 DEF MoneyInv
  <2>2. ~LockFunds(p) /\ ~LockStake(p)
    BY <1>1, <1>4, Working DEF LockFunds, LockStake, Doing, Running
  <2>3. \/ UNCHANGED hold
        \/ stakeHold # None /\ OnlyHold(stakeHold)
        \/ bondHold # None /\ OnlyHold(bondHold)
    <3>1. stakeHold \in HoldId \cup {None} /\ bondHold \in HoldId \cup {None}
      BY <1>1 DEF TypeOK
    <3>2. CASE ReturnStake(p)
      BY <1>1, <3>1, <3>2, ReleaseEffect DEF ReturnStake, StakeDue, walletVars
    <3>3. CASE SlashProviderStake(p)
      BY <1>1, <3>1, <3>3, ForfeitEffect DEF SlashProviderStake, Doing, Moot, Party
    <3>4. CASE ReturnBond(p)
      BY <1>1, <3>1, <3>4, ReleaseEffect DEF ReturnBond, Doing, Moot
    <3>5. CASE Frivolous(p)
      <4>1. CASE bondHold = None
        BY <3>5, <4>1 DEF Frivolous, walletVars
      <4>2. CASE bondHold # None
        <5>1. (IF job[p].op = "resolve" THEN job[p].esc.agent ELSE job[p].by) \in Party
          BY <1>1 DEF JobOK, Fits, Job, Escalation
        <5>2. PICK to \in Party : W!Forfeit(bondHold, to, 0)
          BY <3>5, <4>2, <5>1 DEF Frivolous, Other, Party
        <5> QED
          BY <1>1, <3>1, <4>2, <5>2, ForfeitEffect
      <4> QED
        BY <4>1, <4>2
    <3>6. CASE \/ Skip(p) \/ IssueReceipt(p) \/ ReceiptClashes(p) \/ ForgetBond(p)
               \/ Throw(p) \/ Finish(p) \/ FinishResolve(p)
      BY <3>6 DEF Skip, IssueReceipt, ReceiptClashes, BookReceipt, ForgetBond, Throw, Finish,
                  FinishResolve, walletVars
    <3> QED
      BY <2>2, <3>2, <3>3, <3>4, <3>5, <3>6 DEF Continue
  <2> QED
    BY <1>1, <1>2, <1>4, <2>1, <2>3, FundsStay, OtherHolds
<1> QED
  BY <1>3, <1>4

(* The steps of a request that settle nothing and sign nothing.            *)
LEMMA OtherBooks ==
  ASSUME Shape, Shape', MoneyInv, BooksInv, NEW p \in Proc, Continue(p),
         ~CaptureMilestone(p), ~RefundMilestone(p), ~IssueReceipt(p), ~ReceiptClashes(p),
         ~Store(p)
  PROVE  BooksInv'
<1>1. /\ TypeOK /\ W!TypeOK /\ job \in [Proc -> Job] /\ job[p] \in Job /\ JobTypes
      /\ JobInv /\ JobOK(p) /\ turn \in Proc \cup {None}
  BY DEF Shape, TypeOK, JobInv, JobTypes
<1>2. UNCHANGED <<fundsHold, receipts, spent>>
  BY DEF Continue, LockFunds, LockStake, Skip, ReturnStake, SlashProviderStake, ReturnBond,
         Frivolous, ForgetBond, Throw, Finish, FinishResolve, recordVars, holdVars, booksVars
<1>3. \A m \in Milestone : Signing(m)' = Signing(m)
  <2>1. job[p].phase # "sign"
    BY <1>1 DEF Continue, LockFunds, LockStake, Skip, ReturnStake, SlashProviderStake, ReturnBond,
                Frivolous, ForgetBond, Throw, Finish, FinishResolve, Doing, Running, Awaiting, Last,
                JobOK
  <2>2. Alone(p) /\ job'[p].phase # "sign"
    <3>1. CASE LockFunds(p) \/ LockStake(p)
      BY <1>1, <3>1, LockJob
    <3>2. CASE Skip(p) \/ ReturnStake(p) \/ SlashProviderStake(p) \/ ReturnBond(p) \/ ForgetBond(p)
      BY <1>1, <3>2 DEF Skip, ReturnStake, SlashProviderStake, ReturnBond, ForgetBond, Proceed, Rest,
                        Alone, Job
    <3>3. CASE Frivolous(p)
      BY <1>1, <3>3 DEF Frivolous, Await, Alone, Job
    <3>4. CASE Throw(p) \/ Finish(p) \/ FinishResolve(p)
      BY <1>1, <3>4 DEF Throw, Finish, FinishResolve, End, Idle, Alone
    <3> QED
      BY <3>1, <3>2, <3>3, <3>4 DEF Continue
  <2> QED
    BY <2>1, <2>2, SigningStays
<1> QED
  BY <1>2, <1>3, OtherFunds, KeptFunds, BooksStay

(* Every step keeps the books.                                             *)
LEMMA BooksStep ==
  ASSUME IInv, IInv', BooksInv, [Next]_vars
  PROVE  BooksInv'
<1>1. Shape /\ Shape' /\ PlaceInv /\ MoneyInv
  BY DEF IInv, Shape
<1>2. CASE \E p \in Proc : Receive(p) \/ Begin(p) \/ Continue(p) \/ Schedule(p)
  BY <1>1, <1>2, BeginBooks, SettleBooks, ReceiptBooks, StoreBooks, OtherBooks
<1>3. CASE \/ \E id \in ApprovalId, decision \in A!Decision : Rule(id, decision)
           \/ Tick \/ UNCHANGED vars
  <2>1. UNCHANGED <<hold, fundsHold, job, receipts, spent, state>>
    BY <1>3 DEF Rule, Tick, vars, walletVars, recordVars, holdVars, booksVars
  <2>2. \A m \in Milestone : Signing(m)' = Signing(m)
    BY <2>1 DEF Signing, Current
  <2>3. \A m \in Milestone : Funds(m)' = Funds(m)
    BY <2>1 DEF Funds
  <2> QED
    BY <2>1, <2>2, <2>3, BooksStay DEF Stored
<1> QED
  BY <1>2, <1>3 DEF Next

-----------------------------------------------------------------------------
(* One request at a time: how far the record is, and what is left to do.   *)

(* No request is sent while another is in progress.                        *)
OneRequest == \A p, q \in Proc : p = q

(* A request works on the record it was checked for.                       *)
StageOf(p) ==
  LET j == job[p]
  IN  /\ j.op \in {"deliver", "accept", "timeout"} => state = "open"
      /\ j.op = "dispute" => IF j.phase = "verify" THEN state = "open"
                             ELSE state = "disputed" /\ escalation = NoEscalation
      /\ j.op = "resolve" => escalation # NoEscalation /\ j.esc = escalation
      /\ j.op = "deliver" /\ j.phase = "verify" => ms[j.m] # "refunded"

(* An escrow that has ended is at rest, one in dispute awaits a ruling or  *)
(* is being settled, or its settlement was cut short.                      *)
StageInv ==
  /\ state \in Terminal => Quiet
  /\ escalation # NoEscalation => state = "disputed"
  /\ state = "disputed" /\ escalation = NoEscalation =>
       Clashed \/ \E p \in Proc : job[p].op = "dispute"
  /\ \A p \in Proc : StageOf(p)

Resolving(p) == job[p].op = "resolve" /\ job[p].phase # "verify"

(* The milestones a ruling is asked about wait for it, and it is redeemed  *)
(* by the request that settles them, unless that was cut short.            *)
RulingInv ==
  LET esc == escalation
  IN  esc # NoEscalation =>
        /\ (\E p \in Proc : Resolving(p)) => approval[esc.id].status = "consumed"
        /\ approval[esc.id].status = "consumed" => Clashed \/ \E p \in Proc : Resolving(p)
        /\ esc.kind = "dispute" => \E m \in Milestone : esc.milestones = {m}
        /\ approval[esc.id].status # "consumed" =>
             \A m \in esc.milestones :
               IF esc.kind = "dispute" THEN ms[m] = "disputed" ELSE Unsettled(m)

(* Funds stay locked until their milestone is settled.                     *)
LockedInv == Stored => \A m \in Milestone : ~Settled(m) => W!Active(fundsHold[m])

(* The tasks a request has still to do, without the one it is signing for. *)
Works(p) == job[p].phase \in {"run", "sign", "rate"} /\ job[p].op # "open"
Left(p) == IF job[p].phase = "run" THEN job[p].todo ELSE Tail(job[p].todo)
Settles(task) == task.do \in {"capture", "refund"}

(* A settlement that looks at nothing has no other of its milestone before *)
(* it, and its milestone is not settled.                                   *)
Ordered(todo) ==
  \A i, k \in 1..Len(todo) :
    k < i /\ Settles(todo[i]) /\ ~todo[i].sweep /\ Settles(todo[k]) => todo[k].m # todo[i].m
Live(todo) ==
  \A i \in 1..Len(todo) : Settles(todo[i]) /\ ~todo[i].sweep => ~Settled(todo[i].m)

PlanInv == \A p \in Proc : Works(p) => Ordered(Left(p)) /\ Live(Left(p))

OneInv == StageInv /\ RulingInv /\ LockedInv /\ PlanInv

(* What a ruling makes of a milestone.                                     *)
ToPayee(esc) == Winner(esc, approval[esc.id].decision = "approved") = "payee"
Ruled(esc) == IF ToPayee(esc) THEN "released" ELSE "refunded"
RulingTask(esc) == IF ToPayee(esc) THEN "capture" ELSE "refund"

(* The first settlement of the milestone ahead is the given one, and it    *)
(* will not be skipped.                                                    *)
AheadFor(todo, what, m, swept) ==
  \E i \in 1..Len(todo) :
    /\ todo[i].do = what /\ todo[i].m = m
    /\ todo[i].sweep => swept
    /\ \A k \in 1..Len(todo) : k < i /\ Settles(todo[k]) => todo[k].m # m

(* The milestone is as the ruling said, or the ruled settlement is ahead.  *)
Decides(p, m) ==
  LET esc == job[p].esc
  IN  \/ ms[m] = Ruled(esc)
      \/ /\ IF esc.kind = "timeout" THEN Unsettled(m) ELSE ~Settled(m)
         /\ AheadFor(Left(p), RulingTask(esc), m, esc.kind = "timeout")

DecideInv == \A p \in Proc : Resolving(p) => \A m \in job[p].esc.milestones : Decides(p, m)

(* Of what a redeemed ruling was asked about nothing went the other way,   *)
(* even when the request that redeemed it was cut short.                   *)
HalfInv ==
  escalation # NoEscalation /\ approval[escalation.id].status = "consumed" =>
    \A m \in escalation.milestones : ms[m] = Ruled(escalation) \/ ~Settled(m)

(* The refund of a lost dispute comes right after the slash.               *)
LossTask(task) == task.outcome = "disputed"
LossOrder(todo) ==
  \A i \in 1..Len(todo) :
    /\ todo[i].do = "slash" => ~todo[i].sweep /\ i < Len(todo) /\ LossTask(todo[i + 1])
    /\ LossTask(todo[i]) => /\ todo[i].do = "refund" /\ ~todo[i].sweep
                            /\ i = 1 \/ todo[i - 1].do = "slash"

(* The slash is done, or was before, and its receipt is not.               *)
LossDue(p) == /\ Works(p) /\ job[p].phase # "rate"
              /\ job[p].todo # <<>> /\ LossTask(Current(p))
LostDispute == \E m \in Milestone : receipts[m] = <<"disputed">>

PledgeInv ==
  Stored /\ pledge # None =>
    /\ hold[pledge].state = "forfeited" <=> LostDispute \/ \E p \in Proc : LossDue(p)
    /\ hold[pledge].state = "released" => AllSettled

SlashInv == PledgeInv /\ \A p \in Proc : Works(p) => LossOrder(job[p].todo)

(* Contracts whose disputes are always escalated.                          *)
AllJudged == \A m \in Milestone : Acceptance[m] = "judged"

(* The milestone will be settled by what is left to do; the bond will be   *)
(* seen to.                                                                *)
Covered(todo, m) ==
  \E i \in 1..Len(todo) : Settles(todo[i]) /\ todo[i].m = m /\ (todo[i].sweep => Unsettled(m))
BondAhead(todo) ==
  \E i \in 1..Len(todo) : todo[i].do \in {"return", "frivolous"} /\ ~todo[i].sweep

(* A dispute and its bond are part of the escalation that awaits a ruling. *)
DisputeInv ==
  LET escalated == escalation # NoEscalation /\ escalation.kind = "dispute"
  IN  /\ \A p \in Proc : job[p].op = "dispute" => job[p].phase = "verify"
      /\ \A m \in Milestone : Stored /\ ms[m] = "disputed" =>
           escalated /\ m \in escalation.milestones
      /\ bondHold # None =>
           escalated /\ \A p \in Proc : Resolving(p) => BondAhead(job[p].todo)

(* A request that ends the escrow settles what is not settled yet.         *)
CoverInv ==
  \A p \in Proc : Works(p) /\ job[p].op \in {"timeout", "resolve"} =>
    \A m \in Milestone : Settled(m) \/ Covered(Left(p), m)

EndedInv == state \in Terminal => AllSettled /\ bondHold = None

CompleteInv == DisputeInv /\ CoverInv /\ EndedInv

-----------------------------------------------------------------------------
(* The plans of the requests, one request at a time.                       *)

(* What is left when the first task is done.                               *)
LEMMA TailTasks ==
  ASSUME NEW todo \in Seq(Task), todo # <<>>
  PROVE  /\ Tail(todo) \in Seq(Task) /\ Len(todo) \in Nat \ {0}
         /\ Len(Tail(todo)) = Len(todo) - 1
         /\ \A i \in 1..Len(Tail(todo)) : i + 1 \in 1..Len(todo) /\ Tail(todo)[i] = todo[i + 1]
         /\ 1 \in 1..Len(todo) /\ Head(todo) = todo[1]
         /\ \A i \in 1..Len(todo) : todo[i] \in Task
BY HeadTailProperties, LenProperties, ElementOfSeq

(* The rest of a plan is one.                                              *)
LEMMA TailPlan ==
  ASSUME NEW todo \in Seq(Task), todo # <<>>
  PROVE  /\ Ordered(todo) => Ordered(Tail(todo))
         /\ Live(todo) => Live(Tail(todo))
<1>1. Ordered(todo) => Ordered(Tail(todo))
  <2> SUFFICES ASSUME Ordered(todo), NEW i \in 1..Len(Tail(todo)), NEW k \in 1..Len(Tail(todo)),
                      k < i, Settles(Tail(todo)[i]), ~Tail(todo)[i].sweep, Settles(Tail(todo)[k])
               PROVE  Tail(todo)[k].m # Tail(todo)[i].m
    BY DEF Ordered
  <2>1. i + 1 \in 1..Len(todo) /\ k + 1 \in 1..Len(todo) /\ k + 1 < i + 1
    BY TailTasks
  <2> QED
    BY <2>1, TailTasks DEF Ordered
<1>2. Live(todo) => Live(Tail(todo))
  BY TailTasks DEF Live
<1> QED
  BY <1>1, <1>2

(* And still is when the first task has settled its milestone.             *)
LEMMA SettledPlan ==
  ASSUME NEW todo \in Seq(Task), todo # <<>>, Ordered(todo), Live(todo), Settles(Head(todo)),
         ms \in [Milestone -> MilestoneState], NEW s, ms' = [ms EXCEPT ![Head(todo).m] = s]
  PROVE  Live(Tail(todo))'
<1> SUFFICES ASSUME NEW i \in 1..Len(Tail(todo)), Settles(Tail(todo)[i]), ~Tail(todo)[i].sweep
             PROVE  ~Settled(Tail(todo)[i].m)'
  BY DEF Live, Settles
<1>1. /\ i + 1 \in 1..Len(todo) /\ 1 < i + 1 /\ Tail(todo)[i] = todo[i + 1]
      /\ 1 \in 1..Len(todo) /\ Head(todo) = todo[1]
  BY TailTasks
<1>2. todo[i + 1].m # Head(todo).m /\ ~Settled(todo[i + 1].m)
  BY <1>1 DEF Ordered, Live
<1>3. todo[i + 1].m \in Milestone
  BY <1>1, TailTasks DEF Task
<1> QED
  BY <1>1, <1>2, <1>3 DEF Settled

(* A list in which only the first settlement is no sweep, and nothing is   *)
(* settled before it, is a plan.                                           *)
SweepOnly(todo) == \A i \in 1..Len(todo) : Settles(todo[i]) => todo[i].sweep

(* It is, whatever is settled already.                                     *)
LEMMA SweepPlan ==
  ASSUME NEW todo, SweepOnly(todo)
  PROVE  Ordered(todo) /\ Live(todo)
BY DEF SweepOnly, Ordered, Live

(* A plan before one that only sweeps.                                     *)
LEMMA ConcatPlan ==
  ASSUME NEW s \in Seq(Task), NEW t \in Seq(Task), SweepOnly(t)
  PROVE  /\ Ordered(s) => Ordered(s \o t)
         /\ Live(s) => Live(s \o t)
         /\ SweepOnly(s) => SweepOnly(s \o t)
<1>1. /\ Len(s) \in Nat /\ Len(t) \in Nat /\ Len(s \o t) = Len(s) + Len(t)
      /\ \A i \in 1..(Len(s) + Len(t)) : (s \o t)[i] =
            IF i <= Len(s) THEN s[i] ELSE t[i - Len(s)]
  BY ConcatProperties, LenProperties
<1>2. \A i \in 1..Len(s \o t) :
        \/ i \in 1..Len(s) /\ (s \o t)[i] = s[i]
        \/ i > Len(s) /\ i - Len(s) \in 1..Len(t) /\ (s \o t)[i] = t[i - Len(s)]
  BY <1>1
<1>3. \A i \in 1..Len(s \o t) : Settles((s \o t)[i]) /\ ~(s \o t)[i].sweep =>
        i \in 1..Len(s) /\ (s \o t)[i] = s[i]
  BY <1>2 DEF SweepOnly
<1>4. Ordered(s) => Ordered(s \o t)
  <2> SUFFICES ASSUME Ordered(s), NEW i \in 1..Len(s \o t), NEW k \in 1..Len(s \o t), k < i,
                      Settles((s \o t)[i]), ~(s \o t)[i].sweep, Settles((s \o t)[k])
               PROVE  (s \o t)[k].m # (s \o t)[i].m
    BY DEF Ordered
  <2>1. i \in 1..Len(s) /\ (s \o t)[i] = s[i]
    BY <1>3
  <2>2. k \in 1..Len(s) /\ (s \o t)[k] = s[k]
    BY <1>1, <1>2, <2>1
  <2> QED
    BY <2>1, <2>2 DEF Ordered
<1>5. Live(s) => Live(s \o t)
  BY <1>3 DEF Live
<1>6. SweepOnly(s) => SweepOnly(s \o t)
  BY <1>2 DEF SweepOnly
<1> QED
  BY <1>4, <1>5, <1>6

(* A sweep only sweeps, milestone by milestone.                            *)
LEMMA SweepTasks ==
  ASSUME NEW milestones, NEW tasks \in [Milestone -> WorkTask]
  PROVE  LET todo == SweepEach(milestones, tasks)
         IN  /\ todo \in Seq(Task) /\ Len(todo) = N
             /\ \A m \in Milestone : /\ m \in 1..Len(todo) /\ todo[m].sweep
                                     /\ m \notin milestones => todo[m].do = "nothing"
                                     /\ m \in milestones =>
                                          todo[m] = [tasks[m] EXCEPT !.sweep = TRUE]
             /\ SweepOnly(todo)
<1> DEFINE todo == SweepEach(milestones, tasks)
<1>1. ForEach(milestones, tasks) \in [Milestone -> WorkTask]
  BY TaskTypes DEF ForEach
<1>2. todo \in [Milestone -> Task]
  BY <1>1 DEF SweepEach, Sweep, WorkTask, Task
<1>3. todo \in Seq(Task) /\ Len(todo) = N
  BY <1>2, PerMilestone
<1>4. \A m \in Milestone : todo[m] = [ForEach(milestones, tasks)[m] EXCEPT !.sweep = TRUE]
  BY DEF SweepEach, Sweep
<1>5. \A m \in Milestone : /\ todo[m].sweep
                           /\ m \notin milestones => todo[m].do = "nothing"
                           /\ m \in milestones => todo[m] = [tasks[m] EXCEPT !.sweep = TRUE]
  <2> SUFFICES ASSUME NEW m \in Milestone
               PROVE  /\ todo[m].sweep
                      /\ m \notin milestones => todo[m].do = "nothing"
                      /\ m \in milestones => todo[m] = [tasks[m] EXCEPT !.sweep = TRUE]
    OBVIOUS
  <2>1. PICK task \in Task : task = ForEach(milestones, tasks)[m]
    BY <1>1 DEF WorkTask
  <2>2. todo[m] = [task EXCEPT !.sweep = TRUE]
    BY <1>4, <2>1
  <2>3. m \notin milestones => task.do = "nothing"
    BY <2>1 DEF ForEach, Do
  <2>4. m \in milestones => task = tasks[m]
    BY <2>1 DEF ForEach
  <2> HIDE DEF todo
  <2> QED
    BY <2>2, <2>3, <2>4 DEF Task
<1>6. 1..Len(todo) = Milestone
  BY <1>3 DEF Milestone
<1> HIDE DEF todo
<1> QED
  BY <1>3, <1>5, <1>6 DEF SweepOnly, todo

(* A list with at most one settlement, of a given milestone.               *)
Sole(todo, m) ==
  \E at \in Nat : \A i \in 1..Len(todo) : Settles(todo[i]) => i = at /\ todo[i].m = m

(* It is a plan while the milestone is not settled.                        *)
LEMMA SolePlan ==
  ASSUME NEW todo, NEW m, Sole(todo, m)
  PROVE  /\ Ordered(todo)
         /\ ~Settled(m) => Live(todo)
         /\ ~Settled(m)' => Live(todo)'
BY DEF Sole, Ordered, Live, Settled, Settles

(* What a delivery and an acceptance set out to do.                        *)
LEMMA SingleTasks ==
  ASSUME NEW m \in Milestone
  PROVE  /\ \A claim \in {"match", "mismatch"} : Sole(DeliveryTasks(m, claim), m)
         /\ Sole(<<CaptureTask(m)>>, m)
<1>1. CaptureTask(m).m = m /\ RefundTask(m, "refunded").m = m
  BY DEF CaptureTask, RefundTask, Do
<1>2. Sole(<<>>, m) /\ Sole(<<CaptureTask(m)>>, m) /\ Sole(<<RefundTask(m, "refunded")>>, m)
  BY <1>1 DEF Sole
<1> QED
  BY <1>2 DEF DeliveryTasks

(* What a ruling sets out to do about its milestone.                       *)
RulingTasks(m, upheld, payee) ==
  LET bond == Do(IF upheld THEN "return" ELSE "frivolous", m)
  IN  IF payee THEN <<CaptureTask(m), bond>>
      ELSE <<Do("slash", m), RefundTask(m, "disputed"), bond>>

(* Task by task.                                                           *)
LEMMA RulingList ==
  ASSUME NEW m \in Milestone, NEW upheld \in BOOLEAN, NEW payee \in BOOLEAN
  PROVE  LET todo == RulingTasks(m, upheld, payee)
             bond == Do(IF upheld THEN "return" ELSE "frivolous", m)
         IN  /\ todo \in Seq(Task)
             /\ payee => Len(todo) = 2 /\ todo[1] = CaptureTask(m) /\ todo[2] = bond
             /\ ~payee => /\ Len(todo) = 3 /\ todo[1] = Do("slash", m)
                          /\ todo[2] = RefundTask(m, "disputed") /\ todo[3] = bond
<1> DEFINE bond == Do(IF upheld THEN "return" ELSE "frivolous", m)
<1>1. /\ CaptureTask(m) \in Task /\ Do("slash", m) \in Task /\ bond \in Task
      /\ RefundTask(m, "disputed") \in Task
  BY DEF CaptureTask, RefundTask, Do, Task, Outcome
<1>2. RulingTasks(m, upheld, payee) = IF payee THEN <<CaptureTask(m), bond>>
                                      ELSE <<Do("slash", m), RefundTask(m, "disputed"), bond>>
  BY DEF RulingTasks
<1> HIDE DEF bond
<1>3. RulingTasks(m, upheld, payee) \in Seq(Task)
  BY <1>1, <1>2, ListsAreSequences
<1> QED
  BY <1>2, <1>3 DEF bond

(* A decided dispute does what a ruling would.                             *)
LEMMA DecidedTasks ==
  ASSUME NEW m, NEW verdict
  PROVE  DisputeTasks(m, verdict) =
           RulingTasks(m, verdict # "pass", verdict = "pass")
BY DEF DisputeTasks, RulingTasks

(* It settles its milestone once, then sees to the bond.                   *)
LEMMA RulingSole ==
  ASSUME NEW m \in Milestone, NEW upheld \in BOOLEAN, NEW payee \in BOOLEAN
  PROVE  Sole(RulingTasks(m, upheld, payee), m)
<1> DEFINE todo == RulingTasks(m, upheld, payee)
           bond == Do(IF upheld THEN "return" ELSE "frivolous", m)
<1>1. /\ ~Settles(bond) /\ ~Settles(Do("slash", m))
      /\ CaptureTask(m).m = m /\ RefundTask(m, "disputed").m = m
  BY DEF Settles, Do, CaptureTask, RefundTask
<1>2. /\ payee => Len(todo) = 2 /\ todo[1] = CaptureTask(m) /\ todo[2] = bond
      /\ ~payee => /\ Len(todo) = 3 /\ todo[1] = Do("slash", m)
                   /\ todo[2] = RefundTask(m, "disputed") /\ todo[3] = bond
  BY RulingList
<1> HIDE DEF todo, bond
<1>a. PICK at \in Nat : at = IF payee THEN 1 ELSE 2
  OBVIOUS
<1>3. \A i \in 1..Len(todo) : Settles(todo[i]) => i = at /\ todo[i].m = m
  BY <1>1, <1>2, <1>a
<1>4. Sole(todo, m)
  BY <1>3 DEF Sole
<1> QED
  BY <1>4 DEF todo

(* Short lists, put together.                                              *)
LEMMA OneAndOne ==
  ASSUME NEW S, NEW a \in S, NEW b \in S
  PROVE  <<a>> \o <<b>> = <<a, b>>
<1>1. <<a>> \in Seq(S) /\ <<b>> \in Seq(S) /\ <<a, b>> \in Seq(S)
  OBVIOUS
<1>2. /\ <<a>> \o <<b>> \in Seq(S) /\ Len(<<a>> \o <<b>>) = 2
      /\ \A i \in 1..2 : (<<a>> \o <<b>>)[i] = IF i <= 1 THEN <<a>>[i] ELSE <<b>>[i - 1]
  BY <1>1, ConcatProperties
<1>3. (<<a>> \o <<b>>)[1] = a /\ (<<a>> \o <<b>>)[2] = b
  BY <1>2
<1>4. \A i \in 1..2 : (<<a>> \o <<b>>)[i] = <<a, b>>[i]
  BY <1>3
<1> QED
  BY <1>1, <1>2, <1>4, SeqEqual

(* Three tasks, of two and one.                                            *)
LEMMA TwoAndOne ==
  ASSUME NEW S, NEW a \in S, NEW b \in S, NEW c \in S
  PROVE  <<a, b>> \o <<c>> = <<a, b, c>>
<1>1. <<a, b>> \in Seq(S) /\ <<c>> \in Seq(S) /\ <<a, b, c>> \in Seq(S)
  OBVIOUS
<1>2. /\ <<a, b>> \o <<c>> \in Seq(S) /\ Len(<<a, b>> \o <<c>>) = 3
      /\ \A i \in 1..3 : (<<a, b>> \o <<c>>)[i] = IF i <= 2 THEN <<a, b>>[i] ELSE <<c>>[i - 2]
  BY <1>1, ConcatProperties
<1>3. /\ (<<a, b>> \o <<c>>)[1] = a /\ (<<a, b>> \o <<c>>)[2] = b
      /\ (<<a, b>> \o <<c>>)[3] = c
  BY <1>2
<1>4. \A i \in 1..3 : (<<a, b>> \o <<c>>)[i] = <<a, b, c>>[i]
  BY <1>3
<1> QED
  BY <1>1, <1>2, <1>4, SeqEqual

(* The ruling of a dispute, then a sweep over the rest.                    *)
LEMMA DisputeRuling ==
  ASSUME NEW esc, NEW m \in Milestone, esc.kind = "dispute", esc.milestones = {m},
         NEW upheld \in BOOLEAN
  PROVE  SettlementTasks(esc, upheld) =
           RulingTasks(m, upheld, Winner(esc, upheld) = "payee") \o FinalSweep(Milestone \ {m})
<1> DEFINE x == CHOOSE y \in esc.milestones : TRUE
           bond == Do(IF upheld THEN "return" ELSE "frivolous", m)
<1>1. x = m
  OBVIOUS
<1>2. SettlementTasks(esc, upheld) =
        (IF Winner(esc, upheld) = "payee" THEN <<CaptureTask(m)>>
         ELSE <<Do("slash", m), RefundTask(m, "disputed")>>) \o <<bond>> \o
        FinalSweep(Milestone \ {m})
  BY <1>1 DEF SettlementTasks
<1>3. /\ CaptureTask(m) \in Task /\ Do("slash", m) \in Task /\ bond \in Task
      /\ RefundTask(m, "disputed") \in Task
  BY DEF CaptureTask, RefundTask, Do, Task, Outcome
<1>4. RulingTasks(m, upheld, Winner(esc, upheld) = "payee") =
        IF Winner(esc, upheld) = "payee" THEN <<CaptureTask(m), bond>>
        ELSE <<Do("slash", m), RefundTask(m, "disputed"), bond>>
  BY DEF RulingTasks
<1> HIDE DEF bond
<1>5. /\ <<CaptureTask(m)>> \o <<bond>> = <<CaptureTask(m), bond>>
      /\ <<Do("slash", m), RefundTask(m, "disputed")>> \o <<bond>> =
            <<Do("slash", m), RefundTask(m, "disputed"), bond>>
  BY <1>3, OneAndOne, TwoAndOne
<1> QED
  BY <1>2, <1>4, <1>5

(* A sweep that ends a settlement.                                         *)
LEMMA FinalSweepPlan ==
  ASSUME NEW milestones
  PROVE  FinalSweep(milestones) \in Seq(Task) /\ SweepOnly(FinalSweep(milestones))
BY LoopTasks, SweepTasks DEF FinalSweep

(* A ruling's plan is one while its milestones are not settled.            *)
LEMMA SettlementPlan ==
  ASSUME NEW esc \in Escalation, NEW upheld \in BOOLEAN,
         esc.kind = "dispute" => \E m \in Milestone : esc.milestones = {m} /\ ~Settled(m)
  PROVE  Ordered(SettlementTasks(esc, upheld)) /\ Live(SettlementTasks(esc, upheld))
<1>1. CASE esc.kind = "timeout"
  <2> DEFINE s == SweepEach(esc.milestones, IF upheld THEN Captures ELSE Refunds)
  <2>1. s \in Seq(Task) /\ SweepOnly(s)
    BY LoopTasks, SweepTasks
  <2>2. SettlementTasks(esc, upheld) = s \o FinalSweep(Milestone)
    BY <1>1 DEF SettlementTasks
  <2> HIDE DEF s
  <2>3. SweepOnly(s \o FinalSweep(Milestone))
    BY <2>1, FinalSweepPlan, ConcatPlan
  <2> QED
    BY <2>2, <2>3, SweepPlan
<1>2. CASE esc.kind # "timeout"
  <2>1. esc.kind = "dispute"
    BY <1>2 DEF Escalation
  <2>2. PICK m \in Milestone : esc.milestones = {m} /\ ~Settled(m)
    BY <2>1
  <2>p. PICK payee \in BOOLEAN : payee = (Winner(esc, upheld) = "payee")
    OBVIOUS
  <2>s. PICK s : s = RulingTasks(m, upheld, payee)
    OBVIOUS
  <2>t. PICK t : t = FinalSweep(Milestone \ {m})
    OBVIOUS
  <2>3. SettlementTasks(esc, upheld) = s \o t
    <3>1. SettlementTasks(esc, upheld) =
            RulingTasks(m, upheld, Winner(esc, upheld) = "payee") \o FinalSweep(Milestone \ {m})
      BY <2>1, <2>2, DisputeRuling
    <3> QED
      BY <2>p, <2>s, <2>t, <3>1
  <2>4. s \in Seq(Task) /\ t \in Seq(Task) /\ SweepOnly(t)
    BY <2>s, <2>t, RulingList, FinalSweepPlan
  <2>5. Sole(s, m)
    BY <2>s, RulingSole
  <2>6. Ordered(s) /\ Live(s)
    BY <2>2, <2>5, SolePlan
  <2> QED
    BY <2>3, <2>4, <2>6, ConcatPlan
<1> QED
  BY <1>1, <1>2

(* A timeout settles each pending milestone once.                          *)
LEMMA TimeoutPlan == Ordered(TimeoutTasks) /\ Live(TimeoutTasks)
<1> DEFINE tasks == IF OnTimeout = "refund" THEN Refunds ELSE Captures
           todo == ForEach(Pending, tasks)
<1>1. tasks \in [Milestone -> WorkTask] /\ \A m \in Milestone : tasks[m].m = m
  BY LoopTasks DEF Refunds, Captures, RefundTask, CaptureTask, Do
<1>2. todo \in [Milestone -> WorkTask]
  BY <1>1, TaskTypes DEF ForEach
<1>3. 1..Len(todo) = Milestone
  BY <1>2, PerMilestone DEF Milestone
<1>4. \A m \in Milestone : Settles(todo[m]) => m \in Pending /\ todo[m].m = m
  BY <1>1 DEF ForEach, Settles, Do
<1>5. TimeoutTasks = todo
  BY DEF TimeoutTasks
<1> HIDE DEF todo
<1>6. \A m \in Pending : ~Settled(m)
  BY DEF Pending, Unsettled, Settled
<1>7. Live(todo)
  BY <1>3, <1>4, <1>6 DEF Live
<1>8. Ordered(todo)
  <2> SUFFICES ASSUME NEW i \in Milestone, NEW k \in Milestone, k < i, Settles(todo[i]),
                      Settles(todo[k])
               PROVE  todo[k].m # todo[i].m
    BY <1>3 DEF Ordered
  <2>1. i # k
    BY EscrowAssumption DEF Milestone
  <2> QED
    BY <1>4, <2>1
<1> QED
  BY <1>5, <1>7, <1>8

-----------------------------------------------------------------------------
(* One request at a time: every step keeps OneInv.                         *)

(* With one request, what is said of all is said of it.                    *)
LEMMA OneStage ==
  ASSUME OneRequest, NEW p \in Proc
  PROVE  StageInv <=> /\ state \in Terminal => job[p] = Idle
                      /\ escalation # NoEscalation => state = "disputed"
                      /\ state = "disputed" /\ escalation = NoEscalation
                           => Clashed \/ job[p].op = "dispute"
                      /\ StageOf(p)
BY DEF OneRequest, StageInv, Quiet

(* And after a step.                                                       *)
LEMMA OneStageNext ==
  ASSUME OneRequest, NEW p \in Proc
  PROVE  StageInv' <=> /\ state' \in Terminal => job'[p] = Idle
                       /\ escalation' # NoEscalation => state' = "disputed"
                       /\ state' = "disputed" /\ escalation' = NoEscalation
                            => Clashed' \/ job'[p].op = "dispute"
                       /\ StageOf(p)'
BY DEF OneRequest, StageInv, Quiet

(* A ruling stays where it is when the milestones, the queue and the work  *)
(* on it do.                                                               *)
LEMMA RulingStays ==
  ASSUME OneRequest, NEW p \in Proc, RulingInv, Clashed => Clashed',
         UNCHANGED <<ms, escalation, approval>>,
         Resolving(p)' <=> Resolving(p)
  PROVE  RulingInv'
BY DEF OneRequest, RulingInv, Unsettled

(* Funds stay locked while neither they nor the milestones change.         *)
LEMMA LockedStays ==
  ASSUME LockedInv, UNCHANGED ms, Stored' = Stored, Stored => FundsKept
  PROVE  LockedInv'
BY DEF LockedInv, FundsKept, Settled, W!Active

(* A plan is what it was while the milestones are.                         *)
LEMMA PlanStays ==
  ASSUME NEW todo, UNCHANGED ms, Live(todo)
  PROVE  Live(todo)'
BY DEF Live, Settled, Settles

(* What its first checks say of a request that has come in.                *)
LEMMA ReceiveChecks ==
  ASSUME Shape, NEW p \in Proc, Receive(p)
  PROVE  /\ job[p] = Idle /\ Idle.op = "none" /\ job'[p].phase = "verify"
         /\ UNCHANGED <<ms, escalation, approval, state, hold>>
         /\ job'[p].op = "open" => state = "absent"
         /\ job'[p].op \in {"deliver", "accept", "dispute"} => Openish
         /\ job'[p].op = "deliver" => ms[job'[p].m] # "refunded" \/ Redelivery
         /\ job'[p].op = "resolve" => state = "disputed" /\ job'[p].esc = escalation
                                       /\ escalation # NoEscalation
         /\ job'[p].op \in {"open", "deliver", "accept", "dispute", "resolve"}
<1>0. TypeOK /\ job \in [Proc -> Job]
  BY DEF Shape, TypeOK
<1> DEFINE Checked ==
      /\ job[p] = Idle /\ Idle.op = "none" /\ job'[p].phase = "verify"
      /\ UNCHANGED <<ms, escalation, approval, state, hold>>
      /\ job'[p].op = "open" => state = "absent"
      /\ job'[p].op \in {"deliver", "accept", "dispute"} => Openish
      /\ job'[p].op = "deliver" => ms[job'[p].m] # "refunded" \/ Redelivery
      /\ job'[p].op = "resolve" => state = "disputed" /\ job'[p].esc = escalation
                                    /\ escalation # NoEscalation
      /\ job'[p].op \in {"open", "deliver", "accept", "dispute", "resolve"}
<1>1. ASSUME NEW j \in Job, Request(p, j)
      PROVE  /\ job[p] = Idle /\ Idle.op = "none" /\ job'[p].phase = "verify"
             /\ UNCHANGED <<ms, escalation, approval, state, hold>>
             /\ job'[p].op = j.op /\ job'[p].m = j.m /\ job'[p].esc = j.esc
  <2>1. job[p] = Idle /\ UNCHANGED <<ms, escalation, approval, state, hold>>
        /\ job'[p] = [j EXCEPT !.phase = "verify"]
    BY <1>0, <1>1 DEF Request, Free, walletVars, recordVars, milestoneVars
  <2> QED
    BY <2>1 DEF Idle, Job
<1>2. CASE RequestOpen(p)
  <2> DEFINE j == [Idle EXCEPT !.op = "open"]
  <2>1. j \in Job /\ j.op = "open"
    BY IdleType, EscrowAssumption DEF Job, Idle, Party
  <2>2. Request(p, j) /\ state = "absent"
    BY <1>2 DEF RequestOpen
  <2> HIDE DEF j
  <2> QED
    BY <1>1, <2>1, <2>2
<1>3. ASSUME NEW m \in Milestone, NEW claim \in {"match", "mismatch"}, RequestDeliver(p, m, claim)
      PROVE  Checked
  <2> DEFINE j == [Idle EXCEPT !.op = "deliver", !.m = m, !.claim = claim]
  <2>1. j \in Job /\ j.op = "deliver" /\ j.m = m
    BY IdleType, EscrowAssumption DEF Job, Idle, Party
  <2>2. Request(p, j) /\ Openish /\ (ms[m] # "refunded" \/ Redelivery)
    BY <1>3 DEF RequestDeliver
  <2> HIDE DEF j
  <2> QED
    BY <1>1, <2>1, <2>2
<1>4. ASSUME NEW m \in Milestone, RequestAccept(p, m)
      PROVE  Checked
  <2> DEFINE j == [Idle EXCEPT !.op = "accept", !.m = m]
  <2>1. j \in Job /\ j.op = "accept"
    BY IdleType, EscrowAssumption DEF Job, Idle, Party
  <2>2. Request(p, j) /\ Openish
    BY <1>4 DEF RequestAccept
  <2> HIDE DEF j
  <2> QED
    BY <1>1, <2>1, <2>2
<1>5. ASSUME NEW m \in Milestone, NEW by \in Party, NEW bond \in Bond, RequestDispute(p, m, by, bond)
      PROVE  Checked
  <2> DEFINE j == [Idle EXCEPT !.op = "dispute", !.m = m, !.by = by, !.bond = bond]
  <2>1. j \in Job /\ j.op = "dispute"
    BY IdleType, EscrowAssumption DEF Job, Idle, Party
  <2>2. Request(p, j) /\ Openish
    BY <1>5 DEF RequestDispute
  <2> HIDE DEF j
  <2> QED
    BY <1>1, <2>1, <2>2
<1>6. CASE RequestResolve(p)
  <2> DEFINE j == [Idle EXCEPT !.op = "resolve", !.esc = escalation]
  <2>1. j \in Job /\ j.op = "resolve" /\ j.esc = escalation
    BY <1>0, <1>6, IdleType, EscrowAssumption DEF Job, Idle, Party, RequestResolve, TypeOK
  <2>2. Request(p, j) /\ state = "disputed" /\ escalation # NoEscalation
    BY <1>6 DEF RequestResolve
  <2> HIDE DEF j
  <2> QED
    BY <1>1, <2>1, <2>2
<1> QED
  BY <1>2, <1>3, <1>4, <1>5, <1>6 DEF Receive

(* A request that comes in finds the record its checks ask for.            *)
LEMMA ReceiveOne ==
  ASSUME OneRequest, ~Redelivery, Shape, MoneyInv, OneInv, Clashed => Clashed',
         NEW p \in Proc, Receive(p)
  PROVE  OneInv'
<1>1. TypeOK /\ job \in [Proc -> Job] /\ StageInv /\ RulingInv /\ LockedInv
  BY DEF Shape, TypeOK, OneInv
<1>2. /\ job[p] = Idle /\ Idle.op = "none" /\ job'[p].phase = "verify"
      /\ UNCHANGED <<ms, escalation, approval, state, hold>>
      /\ job'[p].op = "open" => state = "absent"
      /\ job'[p].op \in {"deliver", "accept", "dispute"} => Openish
      /\ job'[p].op = "deliver" => ms[job'[p].m] # "refunded"
      /\ job'[p].op = "resolve" => state = "disputed" /\ job'[p].esc = escalation
                                    /\ escalation # NoEscalation
      /\ job'[p].op \in {"open", "deliver", "accept", "dispute", "resolve"}
  BY ReceiveChecks
<1>3. Openish => state = "open"
  BY <1>1 DEF Openish, NonActionable, TypeOK, EscrowState
<1>4. StageInv'
  <2>1. state \notin Terminal
    BY <1>2, <1>3 DEF Terminal
  <2>2. StageOf(p)'
    BY <1>2, <1>3 DEF StageOf
  <2> QED
    BY <1>1, <1>2, <2>1, <2>2, OneStage, OneStageNext
<1>5. RulingInv'
  BY <1>1, <1>2, RulingStays DEF Resolving
<1>6. LockedInv'
  BY <1>1, <1>2, BeginFunds, LockedStays
<1>7. PlanInv'
  BY <1>2 DEF OneRequest, PlanInv, Works
<1> QED
  BY <1>4, <1>5, <1>6, <1>7 DEF OneInv

(* An escalation has an id, no escalation has none.                        *)
LEMMA EscalationRecord ==
  ASSUME NEW kind, NEW id, NEW agent, NEW milestones
  PROVE  [kind |-> kind, id |-> id, agent |-> agent, milestones |-> milestones] # NoEscalation
BY DEF NoEscalation

(* A new escalation waits in the queue.                                    *)
LEMMA EscalateStatus ==
  ASSUME TypeOK, NEW kind, NEW agent, NEW milestones, Escalate(kind, agent, milestones)
  PROVE  /\ escalation' # NoEscalation /\ escalation'.kind = kind
         /\ escalation'.milestones = milestones
         /\ approval'[escalation'.id].status = "pending"
<1>1. FreshApproval \in ApprovalId
  BY DEF Escalate, ApprovalLeft, FreshApproval
<1>2. escalation' = [kind |-> kind, id |-> FreshApproval, agent |-> agent,
                     milestones |-> milestones]
  BY DEF Escalate
<1>3. approval'[FreshApproval].status = "pending"
  BY <1>1 DEF Escalate, A!Enqueue, TypeOK, A!TypeOK
<1>4. PICK id : id = FreshApproval
  OBVIOUS
<1>5. escalation' # NoEscalation
  BY <1>2, <1>4, EscalationRecord
<1> QED
  BY <1>2, <1>3, <1>5

(* A request that ends leaves no work.                                     *)
LEMMA EndOne ==
  ASSUME OneRequest, NEW p \in Proc, job \in [Proc -> Job], End(p)
  PROVE  PlanInv' /\ StageOf(p)' /\ ~Resolving(p)' /\ job'[p] = Idle /\ Idle.op = "none"
<1>1. job'[p] = Idle /\ Idle.op = "none" /\ Idle.phase = "idle"
  BY DEF End, Idle
<1> QED
  BY <1>1 DEF OneRequest, PlanInv, Works, StageOf, Resolving

(* A request that starts to work does so on a plan.                        *)
LEMMA RunOne ==
  ASSUME OneRequest, NEW p \in Proc, job \in [Proc -> Job], NEW todo, Run(p, todo),
         Ordered(todo), Live(todo)'
  PROVE  /\ PlanInv' /\ job'[p].phase = "run" /\ job'[p].todo = todo
         /\ job'[p].op = job[p].op /\ job'[p].esc = job[p].esc /\ job'[p].m = job[p].m
<1>1. /\ job'[p].phase = "run" /\ job'[p].todo = todo
      /\ job'[p].op = job[p].op /\ job'[p].esc = job[p].esc /\ job'[p].m = job[p].m
  BY DEF Run, Job
<1>2. Left(p)' = todo
  BY <1>1 DEF Left
<1>3. Ordered(Left(p))' /\ Live(Left(p))'
  BY <1>2 DEF Ordered, Live
<1> QED
  BY <1>1, <1>3 DEF OneRequest, PlanInv

(* A milestone leaves its state for one that is not settled.               *)
LEMMA LockedOpens ==
  ASSUME TypeOK, MoneyInv, LockedInv, Stored, FundsKept, NEW m \in Milestone, ~Settled(m),
         NEW s \in {"delivered", "disputed"}, ms' = [ms EXCEPT ![m] = s]
  PROVE  LockedInv' /\ ~Settled(m)'
<1>1. ms'[m] = s /\ \A n \in Milestone \ {m} : ms'[n] = ms[n]
  BY DEF TypeOK
<1> QED
  BY <1>1 DEF LockedInv, FundsKept, Settled, W!Active

(* A request whose signature was verified finds the record as it left it.  *)
LEMMA BeginOne ==
  ASSUME OneRequest, ~Redelivery, Shape, MoneyInv, OneInv, Clashed => Clashed',
         NEW p \in Proc, Begin(p)
  PROVE  OneInv'
<1>1. TypeOK /\ job \in [Proc -> Job] /\ job[p] \in Job /\ JobOK(p)
      /\ StageInv /\ StageOf(p) /\ RulingInv /\ LockedInv
  BY DEF Shape, TypeOK, JobInv, OneInv, StageInv
<1>2. Stored' = Stored /\ (Stored => FundsKept)
  BY BeginFunds
<1>3. job[p].m \in Milestone
  BY <1>1 DEF Job
<1>4. state = "open" => Stored /\ escalation = NoEscalation /\ state \notin Terminal
  BY <1>1 DEF Stored, StageInv, Terminal
<1>5. CASE Open(p)
  <2>1. /\ job[p].op = "open" /\ UNCHANGED <<approval, state, ms, escalation>>
        /\ Run(p, OpeningTasks) /\ state = "absent"
    BY <1>1, <1>5 DEF Open, Verified, recordVars, milestoneVars, JobOK, Stored
  <2>2. job'[p].op = "open" /\ job'[p].phase = "run"
    BY <1>1, <2>1 DEF Run, Job
  <2>3. StageInv'
    BY <1>1, <2>1, <2>2, OneStage, OneStageNext DEF StageOf, Terminal
  <2>4. RulingInv'
    BY <1>1, <2>1, <2>2, RulingStays DEF Resolving
  <2>5. LockedInv'
    BY <1>1, <1>2, <2>1, LockedStays
  <2>6. PlanInv'
    BY <2>2 DEF OneRequest, PlanInv, Works
  <2> QED
    BY <2>3, <2>4, <2>5, <2>6 DEF OneInv
<1>6. CASE Deliver(p)
  <2>m. PICK m \in Milestone : m = job[p].m
    BY <1>3
  <2>t. PICK todo : todo = DeliveryTasks(m, job[p].claim)
    OBVIOUS
  <2>1. /\ job[p].op = "deliver" /\ job[p].phase = "verify" /\ ms[m] # "released"
        /\ ms' = [ms EXCEPT ![m] = "delivered"] /\ Run(p, todo)
        /\ UNCHANGED <<approval, state, escalation>>
    BY <1>6, <2>m, <2>t DEF Deliver, Verified, Deliverable
  <2>2. state = "open" /\ ~Settled(m) /\ job[p].claim \in {"match", "mismatch"}
    BY <1>1, <2>1, <2>m DEF StageOf, Settled, Job, JobOK, Fits
  <2>3. LockedInv' /\ ~Settled(m)'
    BY <1>1, <1>2, <1>4, <2>1, <2>2, LockedOpens
  <2>4. Ordered(todo) /\ Live(todo)'
    BY <2>2, <2>3, <2>t, SingleTasks, SolePlan
  <2>5. PlanInv' /\ job'[p].op = "deliver" /\ job'[p].phase = "run"
    BY <1>1, <2>1, <2>4, RunOne
  <2>6. StageInv'
    BY <1>4, <2>1, <2>2, <2>5, OneStageNext DEF StageOf
  <2>7. RulingInv'
    BY <1>4, <2>1, <2>2 DEF RulingInv
  <2> QED
    BY <2>3, <2>5, <2>6, <2>7 DEF OneInv
<1>7. CASE Accept(p)
  <2>m. PICK m \in Milestone : m = job[p].m
    BY <1>3
  <2>t. PICK todo : todo = <<CaptureTask(m)>>
    OBVIOUS
  <2>1. /\ job[p].op = "accept" /\ ms[m] = "delivered" /\ Run(p, todo)
        /\ UNCHANGED <<approval, state, ms, escalation>>
    BY <1>7, <2>m, <2>t DEF Accept, Verified, recordVars, milestoneVars
  <2>2. state = "open" /\ ~Settled(m) /\ ~Settled(m)'
    BY <1>1, <2>1 DEF StageOf, Settled
  <2>3. LockedInv'
    BY <1>1, <1>2, <2>1, LockedStays
  <2>4. Ordered(todo) /\ Live(todo)'
    BY <2>2, <2>t, SingleTasks, SolePlan
  <2>5. PlanInv' /\ job'[p].op = "accept" /\ job'[p].phase = "run"
    BY <1>1, <2>1, <2>4, RunOne
  <2>6. StageInv'
    BY <1>4, <2>1, <2>2, <2>5, OneStageNext DEF StageOf
  <2>7. RulingInv'
    BY <1>4, <2>1, <2>2 DEF RulingInv
  <2> QED
    BY <2>3, <2>5, <2>6, <2>7 DEF OneInv
<1>8. CASE DisputeDecided(p)
  <2>m. PICK m \in Milestone : m = job[p].m
    BY <1>3
  <2>v. PICK verdict : verdict = ObjectivePass(m, result[m])
    OBVIOUS
  <2>t. PICK todo : todo = DisputeTasks(m, verdict)
    OBVIOUS
  <2>1. /\ job[p].op = "dispute" /\ job[p].phase = "verify" /\ ~Settled(m)
        /\ ms' = [ms EXCEPT ![m] = "disputed"] /\ Run(p, todo)
        /\ state' = "disputed" /\ UNCHANGED escalation
    BY <1>8, <2>m, <2>v, <2>t DEF DisputeDecided, Verified, MayDispute
  <2>2. state = "open"
    BY <1>1, <2>1 DEF StageOf
  <2>3. LockedInv' /\ ~Settled(m)'
    BY <1>1, <1>2, <1>4, <2>1, <2>2, LockedOpens
  <2>s. Sole(todo, m)
    BY <2>t, DecidedTasks, RulingSole
  <2>4. Ordered(todo) /\ Live(todo)'
    BY <2>3, <2>s, SolePlan
  <2>5. PlanInv' /\ job'[p].op = "dispute" /\ job'[p].phase = "run"
    BY <1>1, <2>1, <2>4, RunOne
  <2>6. StageInv'
    BY <1>4, <2>1, <2>2, <2>5, OneStageNext DEF StageOf, Terminal
  <2>7. RulingInv'
    BY <1>4, <2>1, <2>2 DEF RulingInv
  <2> QED
    BY <2>3, <2>5, <2>6, <2>7 DEF OneInv
<1>9. CASE DisputeEscalated(p)
  <2>m. PICK m \in Milestone : m = job[p].m
    BY <1>3
  <2>1. /\ job[p].op = "dispute" /\ job[p].phase = "verify" /\ ~Settled(m)
        /\ ms' = [ms EXCEPT ![m] = "disputed"] /\ End(p)
        /\ state' = "disputed" /\ Escalate("dispute", job[p].by, {m})
    BY <1>9, <2>m DEF DisputeEscalated, Verified, MayDispute
  <2>2. state = "open"
    BY <1>1, <2>1 DEF StageOf
  <2>3. LockedInv'
    BY <1>1, <1>2, <1>4, <2>1, <2>2, LockedOpens
  <2>4. PlanInv' /\ StageOf(p)' /\ ~Resolving(p)' /\ job'[p] = Idle
    BY <1>1, <2>1, EndOne
  <2>5. /\ escalation' # NoEscalation /\ escalation'.kind = "dispute"
        /\ escalation'.milestones = {m}
        /\ approval'[escalation'.id].status = "pending"
    BY <1>1, <2>1, EscalateStatus
  <2>6. StageInv'
    BY <2>1, <2>4, <2>5, OneStageNext DEF Terminal
  <2>7. RulingInv'
    <3>1. ms'[m] = "disputed"
      BY <1>1, <2>1 DEF TypeOK
    <3> QED
      BY <2>4, <2>5, <3>1 DEF RulingInv, OneRequest
  <2> QED
    BY <2>3, <2>4, <2>6, <2>7 DEF OneInv
<1>10. CASE Resolve(p)
  <2>e. PICK esc : esc = job[p].esc
    OBVIOUS
  <2>u. PICK upheld \in BOOLEAN : upheld = (approval[esc.id].decision = "approved")
    OBVIOUS
  <2>t. PICK todo : todo = SettlementTasks(esc, upheld)
    OBVIOUS
  <2>1. /\ job[p].op = "resolve" /\ A!Consume(esc.id, esc.agent) /\ Run(p, todo)
        /\ UNCHANGED <<state, ms, escalation>>
    BY <1>10, <2>e, <2>u, <2>t DEF Resolve, Verified, recordVars, milestoneVars
  <2>2. esc = escalation /\ esc \in Escalation /\ esc # NoEscalation /\ state = "disputed"
    BY <1>1, <2>1, <2>e DEF StageOf, JobOK, Fits, StageInv
  <2>3. approval[esc.id].status # "consumed" /\ approval'[esc.id].status = "consumed"
    BY <1>1, <2>1, <2>2 DEF A!Consume, A!Redeemable, A!Decision, TypeOK, A!TypeOK, Escalation,
                            A!NoRow, A!Row
  <2>4. esc.kind = "dispute" => \E m \in Milestone : esc.milestones = {m} /\ ~Settled(m)
    BY <1>1, <2>2, <2>3 DEF RulingInv, Settled
  <2>5. Ordered(todo) /\ Live(todo)'
    BY <2>1, <2>2, <2>4, <2>t, SettlementPlan, PlanStays
  <2>6. PlanInv' /\ job'[p].op = "resolve" /\ job'[p].phase = "run" /\ job'[p].esc = esc
    BY <1>1, <2>1, <2>5, <2>e, RunOne
  <2>7. LockedInv'
    BY <1>1, <1>2, <2>1, LockedStays
  <2>8. StageInv'
    BY <1>1, <2>1, <2>2, <2>6, OneStageNext DEF StageOf, Terminal
  <2>9. RulingInv'
    BY <1>1, <2>1, <2>2, <2>3, <2>6 DEF RulingInv, Resolving
  <2> QED
    BY <2>6, <2>7, <2>8, <2>9 DEF OneInv
<1>11. CASE Reject(p)
  <2>1. /\ job[p].phase = "verify" /\ End(p) /\ UNCHANGED <<approval, state, ms, escalation>>
        /\ job[p].op \in {"deliver", "accept", "dispute", "resolve"}
    BY <1>11 DEF Reject, recordVars, milestoneVars
  <2>2. PlanInv' /\ StageOf(p)' /\ ~Resolving(p)' /\ job'[p] = Idle
    BY <1>1, <2>1, EndOne
  <2>3. LockedInv'
    BY <1>1, <1>2, <2>1, LockedStays
  <2>4. StageInv'
    BY <1>1, <2>1, <2>2, OneStageNext DEF StageOf, StageInv
  <2>5. RulingInv'
    BY <1>1, <2>1, <2>2, RulingStays DEF Resolving
  <2> QED
    BY <2>2, <2>3, <2>4, <2>5 DEF OneInv
<1> QED
  BY <1>5, <1>6, <1>7, <1>8, <1>9, <1>10, <1>11 DEF Begin

(* A request at work that works on, or waits, has the rest of its plan     *)
(* before it.                                                              *)
LEMMA WorkOne ==
  ASSUME OneRequest, NEW p \in Proc, job \in [Proc -> Job], PlanInv, Works(p),
         job[p].todo # <<>>,
         \/ Proceed(p)
         \/ job[p].phase = "sign" /\ Await(p, "rate")
         \/ job[p].phase = "run" /\ \E phase \in {"sign", "rate"} : Await(p, phase)
  PROVE  /\ Works(p)' /\ job'[p].op = job[p].op /\ job'[p].esc = job[p].esc
         /\ \/ Left(p)' = Left(p)
            \/ job[p].phase = "run" /\ Left(p)' = Tail(Left(p)) /\ Left(p) = job[p].todo
         /\ Ordered(Left(p))' /\ Ordered(Left(p)) /\ Live(Left(p))
<1>1. job[p] \in Job /\ job[p].todo \in Seq(Task) /\ Ordered(Left(p)) /\ Live(Left(p))
  BY DEF PlanInv, Job
<1>2. /\ job'[p].op = job[p].op /\ job'[p].esc = job[p].esc
      /\ \/ job'[p].phase = "run" /\ job'[p].todo = Tail(job[p].todo)
         \/ /\ job'[p].phase \in {"sign", "rate"} /\ job'[p].todo = job[p].todo
            /\ job[p].phase \in {"run", "sign"}
  <2>1. CASE Proceed(p)
    BY <1>1, <2>1 DEF Proceed, Rest, Job
  <2>2. ASSUME NEW phase \in {"sign", "rate"}, Await(p, phase)
        PROVE  /\ job'[p].op = job[p].op /\ job'[p].esc = job[p].esc
               /\ job'[p].phase \in {"sign", "rate"} /\ job'[p].todo = job[p].todo
    BY <1>1, <2>2 DEF Await, Job
  <2> QED
    BY <2>1, <2>2
<1>3. Works(p)'
  BY <1>2 DEF Works
<1>4. \/ Left(p)' = Left(p)
      \/ job[p].phase = "run" /\ Left(p)' = Tail(Left(p)) /\ Left(p) = job[p].todo
  BY <1>2 DEF Left, Works
<1>5. Ordered(Left(p)')
  BY <1>1, <1>4, TailPlan
<1>6. Ordered(Left(p))'
  BY <1>5 DEF Ordered
<1> QED
  BY <1>1, <1>2, <1>3, <1>4, <1>6

(* While the milestones stay, so does what its plan says of them.          *)
LEMMA WorkPlan ==
  ASSUME OneRequest, NEW p \in Proc, job \in [Proc -> Job], PlanInv, Works(p),
         job[p].todo # <<>>, UNCHANGED ms,
         \/ Proceed(p)
         \/ job[p].phase = "sign" /\ Await(p, "rate")
         \/ job[p].phase = "run" /\ \E phase \in {"sign", "rate"} : Await(p, phase)
  PROVE  PlanInv'
<1>1. /\ Ordered(Left(p))' /\ Live(Left(p))
      /\ \/ Left(p)' = Left(p)
         \/ job[p].phase = "run" /\ Left(p)' = Tail(Left(p)) /\ Left(p) = job[p].todo
  BY WorkOne
<1>2. job[p].todo \in Seq(Task)
  BY DEF Job
<1>3. Live(Left(p)')
  BY <1>1, <1>2, TailPlan
<1>4. Live(Left(p))'
  BY <1>3 DEF Live, Settled
<1> QED
  BY <1>1, <1>4 DEF OneRequest, PlanInv

(* A request at work keeps to the record it was checked for.               *)
LEMMA WorkStage ==
  ASSUME OneRequest, NEW p \in Proc, StageInv, Works(p), Works(p)', Clashed => Clashed',
         job[p] \in Job, job[p].op # "none",
         job'[p].op = job[p].op, job'[p].esc = job[p].esc, UNCHANGED <<state, escalation>>
  PROVE  /\ StageInv'
         /\ Resolving(p)' <=> Resolving(p)
         /\ escalation # NoEscalation => Resolving(p)
<1>1. StageOf(p) /\ job[p].phase # "verify" /\ job'[p].phase # "verify"
  BY DEF StageInv, Works
<1>2. state \notin Terminal
  BY DEF StageInv, Quiet, Idle
<1>3. StageOf(p)'
  BY <1>1 DEF StageOf
<1>4. escalation # NoEscalation => job[p].op = "resolve"
  <2>1. job[p].op \in {"deliver", "accept", "timeout", "dispute", "resolve"}
    BY DEF Job, Works
  <2> QED
    BY <1>1, <2>1 DEF StageOf, StageInv
<1> QED
  BY <1>1, <1>2, <1>3, <1>4, OneStage, OneStageNext DEF Resolving

(* A settlement that is not skipped finds its milestone unsettled.         *)
LEMMA FreshTask ==
  ASSUME NEW p \in Proc, job[p] \in Job, PlanInv, job[p].op # "open", job[p].phase = "run",
         job[p].todo # <<>>, ~Moot(p), Settles(Current(p))
  PROVE  ~Settled(Current(p).m)
<1>1. CASE Current(p).sweep
  BY <1>1 DEF Moot, Swept, Unsettled, Settled
<1>2. CASE ~Current(p).sweep
  <2>1. job[p].todo \in Seq(Task) /\ Works(p) /\ Left(p) = job[p].todo
    BY DEF Job, Works, Left
  <2>2. 1 \in 1..Len(job[p].todo) /\ job[p].todo[1] = Current(p)
    BY <2>1, TailTasks DEF Current
  <2> QED
    BY <1>2, <2>1, <2>2 DEF PlanInv, Live
<1> QED
  BY <1>1, <1>2

(* No wallet operation of a handler is refused: the funds of what it       *)
(* settles are locked, and the bond it sees to is.                         *)
LEMMA NoThrow ==
  ASSUME OneRequest, Shape, MoneyInv, OneInv, NEW p \in Proc, Throw(p)
  PROVE  job[p].op = "open"
<1> SUFFICES ASSUME job[p].op # "open"
             PROVE  FALSE
  OBVIOUS
<1>1. /\ TypeOK /\ JobTypes /\ JobInv /\ job[p] \in Job /\ JobOK(p) /\ LockedInv /\ PlanInv
      /\ turn = p /\ job[p].todo # <<>> /\ ~Moot(p) /\ Refused(p)
  BY DEF Shape, TypeOK, JobTypes, JobInv, OneInv, Throw, Running
<1>2. /\ Current(p) \in Task /\ Current(p).do \notin {"lock", "stake"} /\ Stored
      /\ job[p].phase = "run" /\ job[p].todo \in Seq(Task)
  BY <1>1, Working DEF JobOK, Job
<1>5. ASSUME Settles(Current(p))
      PROVE  W!Active(fundsHold[Current(p).m])
  BY <1>1, <1>2, <1>5, FreshTask DEF LockedInv, Task
<1>6. bondHold # None => W!Active(bondHold)
  BY <1>1, <1>2 DEF MoneyInv, CollateralInv, Forgetting, OneRequest
<1> QED
  BY <1>1, <1>2, <1>5, <1>6 DEF Refused, Settles

(* A milestone is settled once, and the others stay locked.                *)
LEMMA SettleOne ==
  ASSUME OneRequest, Shape, MoneyInv, OneInv, Clashed => Clashed', NEW p \in Proc,
         CaptureMilestone(p) \/ RefundMilestone(p)
  PROVE  OneInv'
<1>1. /\ TypeOK /\ W!TypeOK /\ job \in [Proc -> Job] /\ JobTypes /\ JobInv /\ job[p] \in Job
      /\ JobOK(p) /\ "payee" \in Party
      /\ StageInv /\ RulingInv /\ LockedInv /\ PlanInv
  BY DEF Shape, TypeOK, JobTypes, JobInv, OneInv, Party
<1>2. turn = p /\ job[p].todo # <<>> /\ Current(p).do \in {"capture", "refund"}
  BY DEF CaptureMilestone, RefundMilestone, Doing, Running
<1>3. /\ Current(p).m \in Milestone /\ Stored /\ job[p].phase = "run"
      /\ job[p].op \notin {"none", "open"} /\ job[p].todo \in Seq(Task)
  BY <1>1, <1>2, Working DEF Task, JobOK, Job
<1>m. PICK m \in Milestone : m = Current(p).m
  BY <1>3
<1>4. /\ UNCHANGED <<fundsHold, state, escalation, approval>> /\ Await(p, "sign")
      /\ \E s \in {"released", "refunded"} : ms' = [ms EXCEPT ![m] = s]
  BY <1>m DEF CaptureMilestone, RefundMilestone, holdVars
<1>5. OnlyHold(fundsHold[m])
  <2>1. PICK h \in HoldId : h = fundsHold[m]
    BY <1>1, <1>3, FundsNamed
  <2> QED
    BY <1>1, <1>m, <2>1, CaptureEffect, ReleaseEffect DEF CaptureMilestone, RefundMilestone
<1>6. Works(p) /\ Settles(Current(p)) /\ Left(p) = job[p].todo
  BY <1>2, <1>3 DEF Works, Settles, Left
<1>7. /\ Works(p)' /\ job'[p].op = job[p].op /\ job'[p].esc = job[p].esc
      /\ Ordered(Left(p))' /\ Ordered(Left(p)) /\ Live(Left(p))
  BY <1>1, <1>2, <1>3, <1>4, <1>6, WorkOne
<1>8. StageInv' /\ (Resolving(p)' <=> Resolving(p)) /\ (escalation # NoEscalation => Resolving(p))
  BY <1>1, <1>3, <1>4, <1>6, <1>7, WorkStage
<1>9. RulingInv'
  BY <1>1, <1>4, <1>8 DEF RulingInv
<1>10. LockedInv'
  <2>1. \A n \in Milestone \ {m} : fundsHold[n] \in HoldId \ {fundsHold[m]}
    BY <1>1, <1>3, FundsNamed DEF MoneyInv, FundsInv
  <2>2. \A n \in Milestone \ {m} : ms'[n] = ms[n] /\ hold'[fundsHold[n]] = hold[fundsHold[n]]
    BY <1>1, <1>4, <1>5, <2>1 DEF TypeOK, OnlyHold
  <2>3. Settled(m)'
    BY <1>1, <1>4 DEF TypeOK, Settled
  <2> QED
    BY <1>1, <1>3, <1>4, <2>2, <2>3 DEF LockedInv, Settled, W!Active
<1>11. PlanInv'
  <2>1. PICK todo \in Seq(Task) : todo = job[p].todo
    BY <1>3
  <2>2. PICK s \in {"released", "refunded"} : ms' = [ms EXCEPT ![Head(todo).m] = s]
    BY <1>4, <1>m, <2>1 DEF Current
  <2>3. Live(Tail(todo))'
    BY <1>1, <1>2, <1>6, <1>7, <2>1, <2>2, SettledPlan DEF TypeOK, Current
  <2>4. Left(p)' = Tail(todo)
    BY <1>1, <1>4, <2>1 DEF Left, Await, Job
  <2>5. Live(Left(p))'
    BY <2>3, <2>4 DEF Live
  <2> QED
    BY <1>7, <2>5 DEF OneRequest, PlanInv
<1> QED
  BY <1>8, <1>9, <1>10, <1>11 DEF OneInv

(* The other steps of a request at work, and its end.                      *)
LEMMA OtherOne ==
  ASSUME OneRequest, Shape, MoneyInv, MoneyInv', OneInv, Clashed => Clashed', NEW p \in Proc,
         Continue(p), ~CaptureMilestone(p), ~RefundMilestone(p)
  PROVE  OneInv'
<1>1. /\ TypeOK /\ job \in [Proc -> Job] /\ JobTypes /\ JobInv /\ job[p] \in Job
      /\ JobOK(p) /\ turn \in Proc \cup {None}
      /\ StageInv /\ StageOf(p) /\ RulingInv /\ LockedInv /\ PlanInv
  BY DEF Shape, TypeOK, JobTypes, JobInv, OneInv, StageInv
<1>2. CASE LockFunds(p) \/ LockStake(p)
  <2>1. job[p].op = "open" /\ job[p].phase = "run" /\ ~Stored
    BY <1>1, <1>2, Working DEF LockFunds, LockStake, Doing, Running, JobOK
  <2>2. /\ job'[p].op = "open" /\ job'[p].phase = "run"
        /\ UNCHANGED <<approval, state, ms, escalation>>
    BY <1>1, <1>2, <2>1, LockJob DEF LockFunds, LockStake, recordVars, milestoneVars
  <2>3. StageInv'
    BY <1>1, <2>1, <2>2, OneStage, OneStageNext DEF StageOf, Stored, Terminal
  <2>4. RulingInv'
    BY <1>1, <2>1, <2>2, RulingStays DEF Resolving
  <2>5. LockedInv' /\ PlanInv'
    BY <2>1, <2>2 DEF LockedInv, PlanInv, Works, OneRequest, Stored
  <2> QED
    BY <2>3, <2>4, <2>5 DEF OneInv
<1>3. CASE \/ Skip(p) \/ IssueReceipt(p) \/ ReturnStake(p) \/ SlashProviderStake(p)
           \/ ReturnBond(p) \/ Frivolous(p) \/ ForgetBond(p)
  <2>1. /\ UNCHANGED <<approval, state, ms, escalation>>
        /\ job[p].phase \in {"run", "sign", "rate"}
    BY <1>1, <1>3 DEF Skip, IssueReceipt, BookReceipt, ReturnStake, SlashProviderStake, ReturnBond,
                      Frivolous, ForgetBond, Doing, Running, Awaiting, JobOK, recordVars,
                      milestoneVars
  <2>2. job[p].todo # <<>>
    BY <1>1, <1>3, AwaitingTask
    DEF Skip, IssueReceipt, BookReceipt, ReturnStake, SlashProviderStake, ReturnBond, Frivolous,
        ForgetBond, Doing, Running, Awaiting
  <2>3. job[p].op # "none"
    BY <1>1, <2>2, Working
  <2>4. job[p].op # "open"
    <3>1. CASE Skip(p)
      BY <1>1, <2>2, <3>1, Working DEF Skip, Moot, Swept
    <3>2. CASE ~Skip(p)
      BY <1>1, <1>3, <2>2, <3>2, Working, AwaitingTask
      DEF IssueReceipt, BookReceipt, ReturnStake, SlashProviderStake, ReturnBond, Frivolous,
          ForgetBond, Doing, Awaiting
    <3> QED
      BY <3>1, <3>2
  <2>5. Works(p)
    BY <2>1, <2>4 DEF Works
  <2>6. \/ Proceed(p)
        \/ job[p].phase = "sign" /\ Await(p, "rate")
        \/ job[p].phase = "run" /\ Await(p, "rate")
    BY <1>1, <1>3 DEF Skip, IssueReceipt, BookReceipt, ReturnStake, SlashProviderStake, ReturnBond,
                      Frivolous, ForgetBond, Awaiting, Doing, Running, JobOK
  <2>7. PlanInv' /\ Works(p)' /\ job'[p].op = job[p].op /\ job'[p].esc = job[p].esc
    BY <1>1, <2>1, <2>2, <2>5, <2>6, WorkOne, WorkPlan
  <2>8. StageInv' /\ (Resolving(p)' <=> Resolving(p))
    BY <1>1, <2>1, <2>3, <2>5, <2>7, WorkStage
  <2>9. RulingInv'
    BY <1>1, <2>1, <2>8, RulingStays
  <2>10. LockedInv'
    <3>1. ~Store(p)
      BY <2>4 DEF Store
    <3> QED
      BY <1>1, <2>1, <3>1, OtherFunds, LockedStays
  <2> QED
    BY <2>7, <2>8, <2>9, <2>10 DEF OneInv
<1>4. CASE Throw(p)
  <2>1. job[p].op = "open" /\ UNCHANGED <<approval, state, ms, escalation>> /\ End(p)
    BY <1>4, NoThrow DEF Throw, recordVars, milestoneVars
  <2>2. ~Stored
    BY <1>1, <2>1 DEF JobOK
  <2>3. PlanInv' /\ StageOf(p)' /\ ~Resolving(p)' /\ job'[p] = Idle
    BY <1>1, <2>1, EndOne
  <2>4. StageInv'
    BY <1>1, <2>1, <2>2, <2>3, OneStage, OneStageNext DEF Stored
  <2>5. RulingInv'
    BY <1>1, <2>1, <2>3, RulingStays DEF Resolving
  <2>6. LockedInv'
    BY <2>1, <2>2 DEF LockedInv, Stored
  <2> QED
    BY <2>3, <2>4, <2>5, <2>6 DEF OneInv
<1>c. CASE ReceiptClashes(p)
  <2>1. /\ UNCHANGED <<approval, state, ms, escalation>> /\ End(p) /\ Clashed'
        /\ job[p].phase = "sign"
    BY <1>c DEF ReceiptClashes, BookReceipt, Awaiting, Clashed, recordVars, milestoneVars
  <2>2. Works(p) /\ state \notin Terminal /\ ~Store(p)
    BY <1>1, <2>1, AwaitingTask DEF Works, StageInv, Quiet, Idle, Store
  <2>3. PlanInv' /\ StageOf(p)' /\ ~Resolving(p)' /\ job'[p] = Idle
    BY <1>1, <2>1, EndOne
  <2>4. StageInv'
    BY <1>1, <2>1, <2>2, <2>3, OneStage, OneStageNext
  <2>5. RulingInv'
    BY <1>1, <2>1, <2>3 DEF OneRequest, RulingInv, Unsettled
  <2>6. LockedInv'
    BY <1>1, <2>1, <2>2, OtherFunds, LockedStays
  <2> QED
    BY <2>3, <2>4, <2>5, <2>6 DEF OneInv
<1>5. CASE Store(p)
  <2>1. /\ state' = "open" /\ escalation' = NoEscalation /\ ms' = [m \in Milestone |-> "pending"]
        /\ End(p)
    BY <1>5 DEF Store
  <2>2. PlanInv' /\ StageOf(p)' /\ job'[p] = Idle
    BY <1>1, <2>1, EndOne
  <2>3. StageInv'
    BY <2>1, <2>2, OneStageNext
  <2>4. RulingInv'
    BY <2>1 DEF RulingInv
  <2>5. LockedInv'
    BY <2>1 DEF LockedInv, MoneyInv, FundsInv, W!Active, Stored
  <2> QED
    BY <2>2, <2>3, <2>4, <2>5 DEF OneInv
<1>6. CASE Finish(p) \/ FinishResolve(p)
  <2>1. /\ job[p].op \in {"deliver", "accept", "dispute", "timeout", "resolve"}
        /\ job[p].phase = "run" /\ End(p) /\ UNCHANGED ms
    BY <1>1, <1>6 DEF Finish, FinishResolve, Last, JobOK, milestoneVars
  <2>2. PlanInv' /\ StageOf(p)' /\ ~Resolving(p)' /\ job'[p] = Idle
    BY <1>1, <2>1, EndOne
  <2>3. escalation' = NoEscalation
    BY <1>1, <1>6, <2>1 DEF Finish, FinishResolve, StageOf, StageInv
  <2>4. state' # "disputed"
    BY <1>1, <1>6, <2>1 DEF Finish, FinishResolve, StageOf, Recomputed
  <2>5. StageInv'
    BY <2>2, <2>3, <2>4, OneStageNext
  <2>6. RulingInv'
    BY <2>3 DEF RulingInv
  <2>7. LockedInv'
    <3>1. ~Store(p)
      BY <2>1 DEF Store
    <3> QED
      BY <1>1, <2>1, <3>1, OtherFunds, LockedStays
  <2> QED
    BY <2>2, <2>5, <2>6, <2>7 DEF OneInv
<1> QED
  BY <1>2, <1>3, <1>4, <1>c, <1>5, <1>6 DEF Continue

(* A timeout settles the pending milestones, or parks them for a ruling.   *)
LEMMA ScheduleOne ==
  ASSUME OneRequest, Shape, MoneyInv, OneInv, Clashed => Clashed', NEW p \in Proc, Schedule(p)
  PROVE  OneInv'
<1>1. /\ TypeOK /\ job \in [Proc -> Job] /\ StageInv /\ RulingInv /\ LockedInv
  BY DEF Shape, TypeOK, OneInv
<1>2. job[p] = Idle /\ UNCHANGED ms /\ state = "open" /\ Idle.op = "none"
  BY <1>1 DEF Schedule, Timeout, TimeoutEscalated, Free, Openish, NonActionable, TypeOK,
              EscrowState, recordVars, milestoneVars, Idle
<1>3. LockedInv'
  BY <1>1, <1>2, BeginFunds, LockedStays
<1>4. escalation = NoEscalation
  BY <1>1, <1>2 DEF StageInv
<1>5. CASE TimeoutEscalated(p)
  <2>1. /\ state' = "disputed" /\ UNCHANGED job /\ Escalate("timeout", "payer", Pending)
    BY <1>5 DEF TimeoutEscalated
  <2>2. /\ escalation' # NoEscalation /\ escalation'.kind = "timeout"
        /\ escalation'.milestones = Pending
        /\ approval'[escalation'.id].status = "pending"
    BY <1>1, <2>1, EscalateStatus
  <2>3. StageInv'
    BY <1>2, <2>1, <2>2, OneStageNext DEF StageOf, Terminal
  <2>4. RulingInv'
    BY <1>2, <2>1, <2>2 DEF RulingInv, OneRequest, Resolving, Pending, Unsettled
  <2>5. PlanInv'
    BY <1>2, <2>1 DEF OneRequest, PlanInv, Works, Idle
  <2> QED
    BY <1>3, <2>3, <2>4, <2>5 DEF OneInv
<1>6. CASE Timeout(p)
  <2>t. PICK todo : todo = TimeoutTasks
    OBVIOUS
  <2> DEFINE j == [Idle EXCEPT !.op = "timeout", !.phase = "run", !.todo = todo]
  <2>1. j.op = "timeout" /\ j.phase = "run" /\ j.todo = todo
    BY DEF Idle
  <2>2. job' = [job EXCEPT ![p] = j] /\ UNCHANGED <<approval, state, escalation>>
    BY <1>6, <2>t DEF Timeout, recordVars
  <2> HIDE DEF j
  <2>3. job'[p].op = "timeout" /\ job'[p].phase = "run" /\ job'[p].todo = todo
    BY <1>1, <2>1, <2>2
  <2>4. StageInv'
    BY <1>2, <1>4, <2>2, <2>3, OneStageNext DEF StageOf, Terminal
  <2>5. RulingInv'
    BY <1>4, <2>2 DEF RulingInv
  <2>6. Ordered(todo) /\ Live(todo)'
    BY <1>2, <2>t, TimeoutPlan, PlanStays
  <2>7. Left(p)' = todo
    BY <2>3 DEF Left
  <2>8. Ordered(Left(p))' /\ Live(Left(p))'
    BY <2>6, <2>7 DEF Ordered, Live
  <2>9. PlanInv'
    BY <2>8 DEF OneRequest, PlanInv
  <2> QED
    BY <1>3, <2>4, <2>5, <2>9 DEF OneInv
<1> QED
  BY <1>5, <1>6 DEF Schedule

(* The supervisor rules on what is pending; the clock and a stutter change *)
(* nothing of it.                                                          *)
LEMMA AroundOne ==
  ASSUME OneRequest, Shape, OneInv, Clashed => Clashed',
         \/ \E id \in ApprovalId, decision \in A!Decision : Rule(id, decision)
         \/ Tick \/ UNCHANGED vars
  PROVE  OneInv'
<1>1. StageInv /\ RulingInv /\ LockedInv /\ PlanInv /\ A!TypeOK
  BY DEF Shape, TypeOK, OneInv
<1>2. UNCHANGED <<hold, fundsHold, state, ms, escalation, job>>
  BY DEF Rule, Tick, vars, walletVars, recordVars, milestoneVars, holdVars
<1>3. \A id \in ApprovalId : approval'[id].status = "consumed" <=> approval[id].status = "consumed"
  <2>1. CASE \E id \in ApprovalId, decision \in A!Decision : Rule(id, decision)
    <3>1. PICK id \in ApprovalId, decision \in A!Decision : Rule(id, decision)
      BY <2>1
    <3>2. /\ A!Pending(id) /\ approval[id] \in A!Row
          /\ approval' = [approval EXCEPT ![id].status = decision, ![id].decision = decision]
      BY <1>1, <3>1 DEF Rule, A!Resolve, A!Pending, A!TypeOK, A!NoRow
    <3>3. decision # "consumed"
      BY DEF A!Decision
    <3>4. approval'[id].status = decision /\ \A i \in ApprovalId \ {id} : approval'[i] = approval[i]
      BY <1>1, <3>2 DEF A!TypeOK, A!Row
    <3> QED
      BY <3>2, <3>3, <3>4 DEF A!Pending
  <2>2. CASE Tick \/ UNCHANGED vars
    BY <2>2 DEF Tick, vars
  <2> QED
    BY <2>1, <2>2
<1>4. StageInv'
  BY <1>1, <1>2 DEF StageInv, StageOf, Quiet
<1>5. RulingInv'
  <2>1. escalation # NoEscalation => escalation.id \in ApprovalId
    BY DEF Shape, TypeOK, Escalation
  <2> QED
    BY <1>1, <1>2, <1>3, <2>1 DEF RulingInv, Resolving, Unsettled
<1>6. LockedInv'
  BY <1>1, <1>2 DEF LockedInv, Settled, W!Active, Stored
<1>7. PlanInv'
  <2>1. ASSUME NEW p \in Proc
        PROVE  Left(p)' = Left(p) /\ (Works(p)' <=> Works(p))
    BY <1>2 DEF Left, Works
  <2>2. \A todo : Live(todo)' <=> Live(todo)
    BY <1>2 DEF Live, Settled
  <2>3. ASSUME NEW p \in Proc, Works(p)'
        PROVE  Ordered(Left(p))' /\ Live(Left(p))'
    BY <1>1, <2>1, <2>2, <2>3 DEF PlanInv
  <2> QED
    BY <2>3 DEF PlanInv
<1> QED
  BY <1>4, <1>5, <1>6, <1>7 DEF OneInv

(* Every step of one request at a time keeps the record in order.          *)
LEMMA OneStep ==
  ASSUME OneRequest, ~Redelivery, IInv, IInv', OneInv, [Next]_vars
  PROVE  OneInv'
<1>1. Shape /\ MoneyInv /\ MoneyInv' /\ (Clashed => Clashed')
  BY ClashStays DEF IInv, Shape
<1>2. CASE \E p \in Proc : Receive(p) \/ Begin(p) \/ Continue(p) \/ Schedule(p)
  BY <1>1, <1>2, ReceiveOne, BeginOne, SettleOne, OtherOne, ScheduleOne
<1>3. CASE \/ \E id \in ApprovalId, decision \in A!Decision : Rule(id, decision)
           \/ Tick \/ UNCHANGED vars
  BY <1>1, <1>3, AroundOne
<1> QED
  BY <1>2, <1>3 DEF Next

-----------------------------------------------------------------------------
(* One request at a time: what a step of a request at work does.           *)

(* The request waits after a settlement of an unsettled milestone.         *)
SettleStep(p) ==
  /\ Settles(Current(p)) /\ ~Settled(Current(p).m) /\ ~Moot(p)
  /\ ms' = [ms EXCEPT ![Current(p).m] =
              IF Current(p).do = "capture" THEN "released" ELSE "refunded"]
  /\ job[p].phase = "run" /\ Await(p, "sign")

(* It does, or skips, what is no settlement.                               *)
PassStep(p) ==
  /\ UNCHANGED ms /\ job[p].phase = "run" /\ (Moot(p) \/ ~Settles(Current(p)))
  /\ (Proceed(p) \/ Await(p, "rate"))

(* It goes on after an await.                                              *)
ResumeStep(p) ==
  /\ UNCHANGED ms
  /\ \/ job[p].phase = "sign" /\ Await(p, "rate")
     \/ job[p].phase = "rate" /\ Proceed(p)

(* It ends.                                                                *)
EndStep(p) == UNCHANGED ms /\ Last(p) /\ job[p].phase = "run" /\ End(p)

(* A request at work does nothing else: it is never refused half way.      *)
LEMMA WorkSteps ==
  ASSUME OneRequest, Shape, MoneyInv, OneInv, NEW p \in Proc, Continue(p), job[p].op # "open",
         ~ReceiptClashes(p)
  PROVE  /\ UNCHANGED approval /\ Works(p) /\ Stored /\ job[p].op # "none"
         /\ \/ job[p].todo # <<>> /\ (SettleStep(p) \/ PassStep(p) \/ ResumeStep(p))
            \/ EndStep(p)
<1>1. /\ TypeOK /\ JobTypes /\ JobInv /\ job[p] \in Job /\ JobOK(p) /\ PlanInv
  BY DEF Shape, TypeOK, JobTypes, JobInv, OneInv
<1>2. job[p].phase \in {"run", "sign", "rate"} /\ UNCHANGED approval
  BY <1>1 DEF Continue, LockFunds, LockStake, Skip, CaptureMilestone, RefundMilestone,
              BookReceipt, IssueReceipt, ReturnStake, SlashProviderStake, ReturnBond, Frivolous,
              ForgetBond, Throw, Store, Finish, FinishResolve, Doing, Running, Awaiting, Last,
              JobOK
<1>3. Works(p) /\ job[p].op # "none" /\ Stored
  BY <1>1, <1>2 DEF Works, JobOK, Fits, Idle
<1>4. ~Throw(p) /\ ~Store(p)
  BY NoThrow DEF Store
<1>5. CASE Finish(p) \/ FinishResolve(p)
  <2>1. EndStep(p)
    BY <1>1, <1>5 DEF Finish, FinishResolve, Last, EndStep, JobOK, milestoneVars
  <2> QED
    BY <1>2, <1>3, <2>1
<1>6. CASE ~Finish(p) /\ ~FinishResolve(p)
  <2>1. job[p].todo # <<>>
    BY <1>1, <1>4, <1>6, AwaitingTask
    DEF Continue, LockFunds, LockStake, Skip, CaptureMilestone, RefundMilestone,
        BookReceipt, IssueReceipt, ReturnStake, SlashProviderStake, ReturnBond, Frivolous,
        ForgetBond, Doing, Running, Awaiting
  <2>2. Current(p).do \notin {"lock", "stake"}
    BY <1>1, <2>1, Working
  <2>3. CASE CaptureMilestone(p) \/ RefundMilestone(p)
    <3>1. /\ Settles(Current(p)) /\ ~Moot(p) /\ job[p].phase = "run" /\ Await(p, "sign")
          /\ ms' = [ms EXCEPT ![Current(p).m] =
                      IF Current(p).do = "capture" THEN "released" ELSE "refunded"]
      BY <1>1, <2>3 DEF CaptureMilestone, RefundMilestone, Doing, Running, Settles, JobOK
    <3>2. ~Settled(Current(p).m)
      BY <1>1, <2>1, <3>1, FreshTask
    <3> QED
      BY <1>2, <1>3, <2>1, <3>1, <3>2 DEF SettleStep
  <2>4. CASE Skip(p) \/ SlashProviderStake(p) \/ ReturnBond(p) \/ Frivolous(p)
    <3>1. PassStep(p)
      BY <1>1, <2>4 DEF Skip, SlashProviderStake, ReturnBond, Frivolous, Doing, Running, Settles,
                        JobOK, PassStep, recordVars, milestoneVars
    <3> QED
      BY <1>2, <1>3, <2>1, <3>1
  <2>5. CASE IssueReceipt(p) \/ ReturnStake(p) \/ ForgetBond(p)
    <3>1. ResumeStep(p)
      BY <1>1, <2>5 DEF BookReceipt, IssueReceipt, ReturnStake, ForgetBond, Awaiting, ResumeStep,
                        recordVars, milestoneVars
    <3> QED
      BY <1>2, <1>3, <2>1, <3>1
  <2> QED
    BY <1>4, <1>6, <2>2, <2>3, <2>4, <2>5 DEF Continue, LockFunds, LockStake, Doing
<1> QED
  BY <1>5, <1>6

(* A request that opens the contract settles nothing.                      *)
LEMMA OpenCases ==
  ASSUME Shape, NEW p \in Proc, Continue(p), job[p].op = "open"
  PROVE  /\ job'[p].op \in {"open", "none"} /\ ~Stored
         /\ UNCHANGED approval /\ (UNCHANGED ms \/ Store(p))
<1>1. /\ JobTypes /\ JobInv /\ job \in [Proc -> Job] /\ job[p] \in Job /\ JobOK(p)
  BY DEF Shape, TypeOK, JobTypes, JobInv
<1>2. job[p].phase \in {"verify", "run"} /\ ~Stored
  BY <1>1 DEF JobOK, Fits
<1>3. LockFunds(p) \/ LockStake(p) \/ Skip(p) \/ Throw(p) \/ Store(p)
  <2>1. Running(p) => Current(p).do \in {"lock", "stake"}
    BY <1>1, Working DEF Running
  <2> QED
    BY <1>2, <2>1
    DEF Continue, CaptureMilestone, RefundMilestone, BookReceipt, IssueReceipt, ReceiptClashes,
        ReturnStake, SlashProviderStake, ReturnBond, Frivolous, ForgetBond, Finish,
        FinishResolve, Doing, Awaiting
<1>4. CASE LockFunds(p) \/ LockStake(p) \/ Skip(p)
  <2>1. job'[p].op = job[p].op
    BY <1>1, <1>4, LockJob, ProceedJob DEF Skip
  <2>2. UNCHANGED <<approval, recordVars>>
    BY <1>4 DEF LockFunds, LockStake, Skip
  <2> QED
    BY <1>2, <2>1, <2>2 DEF recordVars, milestoneVars
<1>5. CASE Throw(p) \/ Store(p)
  BY <1>1, <1>2, <1>5 DEF Throw, Store, End, Idle, recordVars, milestoneVars
<1> QED
  BY <1>3, <1>4, <1>5

(* A request that has ended is no request.                                 *)
LEMMA EndCases ==
  ASSUME Shape, NEW p \in Proc, EndStep(p)
  PROVE  job'[p] = Idle /\ Idle.op = "none" /\ Idle.phase = "idle"
BY DEF Shape, TypeOK, EndStep, End, Idle

(* A refused receipt cuts its request short; only the books see it.        *)
LEMMA ClashCases ==
  ASSUME Shape, NEW p \in Proc, ReceiptClashes(p)
  PROVE  /\ job'[p] = Idle /\ Idle.op = "none" /\ Idle.phase = "idle"
         /\ job[p].op # "open" /\ job[p].phase = "sign" /\ job[p].todo # <<>>
         /\ Works(p) /\ Stored /\ Stored' /\ Clashed'
         /\ UNCHANGED <<walletVars, approval, recordVars, now>>
<1>1. job \in [Proc -> Job] /\ job[p] \in Job /\ JobOK(p)
  BY DEF Shape, TypeOK, JobInv
<1>2. /\ job[p].phase = "sign" /\ job'[p] = Idle /\ Clashed'
      /\ UNCHANGED <<walletVars, approval, recordVars, now>>
  BY <1>1 DEF ReceiptClashes, BookReceipt, Awaiting, End, Clashed
<1>3. job[p].op \notin {"none", "open"} /\ job[p].todo # <<>> /\ Stored
  BY <1>1, <1>2 DEF JobOK, Fits, Idle
<1> QED
  BY <1>2, <1>3 DEF Works, Idle, Stored, recordVars

(* The other steps go on with the same request.                            *)
LEMMA WorkCases ==
  ASSUME OneRequest, Shape, MoneyInv, OneInv, NEW p \in Proc, Continue(p),
         job[p].op # "open", ~EndStep(p), ~ReceiptClashes(p)
  PROVE  /\ UNCHANGED approval /\ Works(p) /\ Works(p)' /\ Stored /\ job[p].todo # <<>>
         /\ SettleStep(p) \/ PassStep(p) \/ ResumeStep(p)
         /\ job'[p].op = job[p].op /\ job'[p].esc = job[p].esc
         /\ \/ job[p].phase # "run" /\ Left(p)' = Left(p)
            \/ job[p].phase = "run" /\ Left(p)' = Tail(job[p].todo) /\ Left(p) = job[p].todo
<1>1. /\ job \in [Proc -> Job] /\ job[p] \in Job /\ PlanInv
  BY DEF Shape, TypeOK, OneInv
<1>2. /\ UNCHANGED approval /\ Works(p) /\ Stored /\ job[p].todo # <<>>
      /\ SettleStep(p) \/ PassStep(p) \/ ResumeStep(p)
  BY WorkSteps
<1>3. \/ Proceed(p)
      \/ job[p].phase = "sign" /\ Await(p, "rate")
      \/ job[p].phase = "run" /\ \E phase \in {"sign", "rate"} : Await(p, phase)
  BY <1>2 DEF SettleStep, PassStep, ResumeStep
<1>4. Works(p)' /\ job'[p].op = job[p].op /\ job'[p].esc = job[p].esc
  BY <1>1, <1>2, <1>3, WorkOne
<1>5. CASE SettleStep(p) \/ PassStep(p)
  <2>1. /\ job[p].phase = "run"
        /\ Proceed(p) \/ Await(p, "sign") \/ Await(p, "rate")
    BY <1>5 DEF SettleStep, PassStep
  <2>2. Left(p) = job[p].todo
    BY <2>1 DEF Left
  <2>3. Left(p)' = Tail(job[p].todo)
    <3>1. CASE Proceed(p)
      BY <1>1, <3>1, ProceedJob DEF Left
    <3>2. ASSUME NEW phase \in {"sign", "rate"}, Await(p, phase)
          PROVE  Left(p)' = Tail(job[p].todo)
      BY <1>1, <3>2, AwaitJob DEF Left
    <3> QED
      BY <2>1, <3>1, <3>2
  <2> QED
    BY <1>2, <1>4, <2>1, <2>2, <2>3
<1>6. CASE ResumeStep(p)
  <2>1. job[p].phase # "run" /\ (Proceed(p) \/ Await(p, "rate"))
    BY <1>6 DEF ResumeStep
  <2>2. Left(p) = Tail(job[p].todo)
    BY <2>1 DEF Left
  <2>3. Left(p)' = Tail(job[p].todo)
    <3>1. CASE Proceed(p)
      BY <1>1, <3>1, ProceedJob DEF Left
    <3>2. CASE Await(p, "rate")
      BY <1>1, <3>2, AwaitJob DEF Left
    <3> QED
      BY <2>1, <3>1, <3>2
  <2> QED
    BY <1>2, <1>4, <2>1, <2>2, <2>3
<1> QED
  BY <1>2, <1>5, <1>6

-----------------------------------------------------------------------------
(* One request at a time: a ruling decides what it was asked about.        *)

(* A settlement that is ahead, and not the first task, stays ahead.        *)
LEMMA AheadTail ==
  ASSUME NEW todo \in Seq(Task), todo # <<>>, NEW what, NEW m, NEW swept,
         AheadFor(todo, what, m, swept),
         ~(Head(todo).do = what /\ Head(todo).m = m /\ (Head(todo).sweep => swept))
  PROVE  AheadFor(Tail(todo), what, m, swept)
<1>1. PICK i \in 1..Len(todo) :
        /\ todo[i].do = what /\ todo[i].m = m
        /\ todo[i].sweep => swept
        /\ \A k \in 1..Len(todo) : k < i /\ Settles(todo[k]) => todo[k].m # m
  BY DEF AheadFor
<1>2. i # 1
  BY <1>1, TailTasks
<1>3. PICK h \in 1..Len(Tail(todo)) : h + 1 = i
  BY <1>2, TailTasks
<1>4. Tail(todo)[h] = todo[i]
  BY <1>3, TailTasks
<1>5. ASSUME NEW k \in 1..Len(Tail(todo)), k < h, Settles(Tail(todo)[k])
      PROVE  Tail(todo)[k].m # m
  BY <1>1, <1>3, <1>5, TailTasks
<1> QED
  BY <1>1, <1>4, <1>5 DEF AheadFor

(* A settlement that is ahead stays so whatever follows.                   *)
LEMMA AheadConcat ==
  ASSUME NEW s \in Seq(Task), NEW t \in Seq(Task), NEW what, NEW m, NEW swept,
         AheadFor(s, what, m, swept)
  PROVE  AheadFor(s \o t, what, m, swept)
<1>1. /\ Len(s) \in Nat /\ Len(t) \in Nat /\ Len(s \o t) = Len(s) + Len(t)
      /\ \A i \in 1..Len(s) : i \in 1..Len(s \o t) /\ (s \o t)[i] = s[i]
  BY ConcatProperties, LenProperties
<1>2. PICK i \in 1..Len(s) :
        /\ s[i].do = what /\ s[i].m = m
        /\ s[i].sweep => swept
        /\ \A k \in 1..Len(s) : k < i /\ Settles(s[k]) => s[k].m # m
  BY DEF AheadFor
<1>3. \A k \in 1..Len(s \o t) : k < i => k \in 1..Len(s)
  BY <1>1
<1> QED
  BY <1>1, <1>2, <1>3 DEF AheadFor

(* The ruling of a dispute settles its milestone first.                    *)
LEMMA AheadRuling ==
  ASSUME NEW m \in Milestone, NEW upheld \in BOOLEAN, NEW payee \in BOOLEAN
  PROVE  AheadFor(RulingTasks(m, upheld, payee), IF payee THEN "capture" ELSE "refund", m, FALSE)
<1>t. PICK todo : todo = RulingTasks(m, upheld, payee)
  OBVIOUS
<1>1. /\ payee => Len(todo) = 2 /\ todo[1] = CaptureTask(m)
      /\ ~payee => Len(todo) = 3 /\ todo[1] = Do("slash", m) /\ todo[2] = RefundTask(m, "disputed")
  BY <1>t, RulingList
<1>2. /\ CaptureTask(m).do = "capture" /\ CaptureTask(m).m = m /\ ~CaptureTask(m).sweep
      /\ RefundTask(m, "disputed").do = "refund" /\ RefundTask(m, "disputed").m = m
      /\ ~RefundTask(m, "disputed").sweep /\ ~Settles(Do("slash", m))
  BY DEF CaptureTask, RefundTask, Do, Settles
<1>3. CASE payee
  <2>1. 1 \in 1..Len(todo) /\ \A k \in 1..Len(todo) : ~(k < 1)
    BY <1>1, <1>3
  <2> QED
    BY <1>1, <1>2, <1>3, <1>t, <2>1 DEF AheadFor
<1>4. CASE ~payee
  <2>1. 2 \in 1..Len(todo) /\ \A k \in 1..Len(todo) : k < 2 => k = 1
    BY <1>1, <1>4
  <2> QED
    BY <1>1, <1>2, <1>4, <1>t, <2>1 DEF AheadFor
<1> QED
  BY <1>3, <1>4

(* The ruling of a timeout sweeps each of its milestones once.             *)
LEMMA AheadSweep ==
  ASSUME NEW milestones, NEW m \in milestones \cap Milestone,
         NEW tasks \in [Milestone -> WorkTask], NEW what,
         \A n \in Milestone : tasks[n].m = n /\ tasks[n].do = what
  PROVE  AheadFor(SweepEach(milestones, tasks), what, m, TRUE)
<1>t. PICK todo : todo = SweepEach(milestones, tasks)
  OBVIOUS
<1>1. /\ 1..Len(todo) = Milestone
      /\ \A n \in Milestone : /\ n \notin milestones => todo[n].do = "nothing"
                              /\ n \in milestones => todo[n] = [tasks[n] EXCEPT !.sweep = TRUE]
  BY <1>t, SweepTasks DEF Milestone
<1>2. \A n \in milestones \cap Milestone : todo[n].m = n /\ todo[n].do = what
  <2> SUFFICES ASSUME NEW n \in milestones \cap Milestone
               PROVE  todo[n].m = n /\ todo[n].do = what
    OBVIOUS
  <2>1. PICK task \in Task : task = tasks[n]
    BY DEF WorkTask
  <2>2. todo[n] = [task EXCEPT !.sweep = TRUE] /\ task.m = n /\ task.do = what
    BY <1>1, <2>1
  <2> QED
    BY <2>2 DEF Task
<1>3. \A n \in Milestone : Settles(todo[n]) => todo[n].m = n
  BY <1>1, <1>2 DEF Settles
<1>4. \A k \in 1..Len(todo) : k < m /\ Settles(todo[k]) => todo[k].m # m
  <2> SUFFICES ASSUME NEW k \in 1..Len(todo), k < m, Settles(todo[k])
               PROVE  todo[k].m # m
    OBVIOUS
  <2>1. m \in Int /\ k \in Int
    BY EscrowAssumption DEF Milestone
  <2>2. todo[k].m = k
    BY <1>1, <1>3
  <2> QED
    BY <2>1, <2>2
<1> QED
  BY <1>1, <1>2, <1>4, <1>t DEF AheadFor

(* A redeemed ruling has what it decides ahead.                            *)
LEMMA AheadSettlement ==
  ASSUME NEW esc \in Escalation, NEW upheld \in BOOLEAN, NEW m \in esc.milestones,
         esc.kind = "dispute" => \E n \in Milestone : esc.milestones = {n}
  PROVE  AheadFor(SettlementTasks(esc, upheld),
                  IF Winner(esc, upheld) = "payee" THEN "capture" ELSE "refund", m,
                  esc.kind = "timeout")
<1>1. m \in Milestone /\ esc.kind \in {"dispute", "timeout"}
  BY DEF Escalation
<1>2. CASE esc.kind = "timeout"
  <2>a. PICK tasks : tasks = IF upheld THEN Captures ELSE Refunds
    OBVIOUS
  <2>w. PICK what : what = IF Winner(esc, upheld) = "payee" THEN "capture" ELSE "refund"
    OBVIOUS
  <2>1. /\ tasks \in [Milestone -> WorkTask]
        /\ \A n \in Milestone : tasks[n].m = n /\ tasks[n].do = what
    BY <1>2, <2>a, <2>w, LoopTasks DEF Captures, Refunds, CaptureTask, RefundTask, Do, Winner
  <2>s. PICK s : s = SweepEach(esc.milestones, tasks)
    OBVIOUS
  <2>t. PICK t : t = FinalSweep(Milestone)
    OBVIOUS
  <2>2. s \in Seq(Task) /\ t \in Seq(Task)
    BY <2>1, <2>s, <2>t, SweepTasks, FinalSweepPlan
  <2>3. SettlementTasks(esc, upheld) = s \o t
    BY <1>2, <2>a, <2>s, <2>t DEF SettlementTasks
  <2>4. AheadFor(s, what, m, TRUE)
    BY <1>1, <2>1, <2>s, AheadSweep
  <2>5. AheadFor(s \o t, what, m, TRUE)
    BY <2>2, <2>4, AheadConcat
  <2> QED
    BY <1>2, <2>3, <2>5, <2>w
<1>3. CASE esc.kind # "timeout"
  <2>1. esc.kind = "dispute" /\ esc.milestones = {m}
    BY <1>1, <1>3
  <2>p. PICK payee \in BOOLEAN : payee = (Winner(esc, upheld) = "payee")
    OBVIOUS
  <2>s. PICK s : s = RulingTasks(m, upheld, payee)
    OBVIOUS
  <2>t. PICK t : t = FinalSweep(Milestone \ {m})
    OBVIOUS
  <2>2. SettlementTasks(esc, upheld) = s \o t
    <3>1. SettlementTasks(esc, upheld) =
            RulingTasks(m, upheld, Winner(esc, upheld) = "payee") \o FinalSweep(Milestone \ {m})
      BY <1>1, <2>1, DisputeRuling
    <3> QED
      BY <2>p, <2>s, <2>t, <3>1
  <2>3. s \in Seq(Task) /\ t \in Seq(Task)
    BY <1>1, <2>s, <2>t, RulingList, FinalSweepPlan
  <2>w. PICK what : what = IF payee THEN "capture" ELSE "refund"
    OBVIOUS
  <2>4. AheadFor(s, what, m, FALSE)
    BY <1>1, <2>s, <2>w, AheadRuling
  <2>5. AheadFor(s \o t, what, m, FALSE)
    BY <2>3, <2>4, AheadConcat
  <2> QED
    BY <1>3, <2>2, <2>5, <2>p, <2>w
<1> QED
  BY <1>2, <1>3

(* A step of the request that redeems a ruling.                            *)
LEMMA DecideWork ==
  ASSUME OneRequest, Shape, MoneyInv, OneInv, DecideInv, NEW p \in Proc, Continue(p)
  PROVE  DecideInv'
<1> SUFFICES ASSUME Resolving(p)', NEW n \in job'[p].esc.milestones
             PROVE  Decides(p, n)'
  BY DEF OneRequest, DecideInv
<1>1. /\ TypeOK /\ job[p] \in Job /\ job[p].todo \in Seq(Task)
  BY DEF Shape, TypeOK, Job
<1>2. job[p].op # "open" /\ ~EndStep(p) /\ ~ReceiptClashes(p)
  <2>1. job'[p].op = "resolve"
    BY DEF Resolving
  <2> QED
    BY <2>1, OpenCases, EndCases, ClashCases
<1>3. /\ UNCHANGED approval /\ Works(p) /\ job[p].todo # <<>>
      /\ SettleStep(p) \/ PassStep(p) \/ ResumeStep(p)
      /\ job'[p].op = job[p].op /\ job'[p].esc = job[p].esc
      /\ \/ job[p].phase # "run" /\ Left(p)' = Left(p)
         \/ job[p].phase = "run" /\ Left(p)' = Tail(job[p].todo) /\ Left(p) = job[p].todo
  BY <1>2, WorkCases
<1>4. Resolving(p) /\ job[p].esc \in Escalation
  BY <1>1, <1>3 DEF Resolving, Works, Shape, JobInv, JobOK, Fits
<1>m. PICK m \in Milestone : m = n
  BY <1>3, <1>4 DEF Escalation
<1>e. PICK esc : esc = job[p].esc
  OBVIOUS
<1>w. PICK what : what = RulingTask(esc)
  OBVIOUS
<1>r. PICK ruled : ruled = Ruled(esc)
  OBVIOUS
<1>a. PICK todo \in Seq(Task) : todo = job[p].todo
  BY <1>1
<1>b. PICK left : left = Left(p)
  OBVIOUS
<1>5. /\ RulingTask(esc)' = what /\ Ruled(esc)' = ruled
      /\ ruled = IF what = "capture" THEN "released" ELSE "refunded"
      /\ what \in {"capture", "refund"} /\ ruled \in {"released", "refunded"}
  BY <1>3, <1>w, <1>r DEF RulingTask, Ruled, ToPayee
<1>6. \/ ms[m] = ruled
      \/ /\ IF esc.kind = "timeout" THEN Unsettled(m) ELSE ~Settled(m)
         /\ AheadFor(left, what, m, esc.kind = "timeout")
  BY <1>3, <1>4, <1>b, <1>e, <1>m, <1>r, <1>w DEF DecideInv, Decides
<1>7. SUFFICES \/ ms'[m] = ruled
               \/ /\ IF esc.kind = "timeout" THEN Unsettled(m)' ELSE ~Settled(m)'
                  /\ AheadFor(Left(p)', what, m, esc.kind = "timeout")
  BY <1>3, <1>5, <1>e, <1>m DEF Decides, AheadFor
<1>8. CASE ResumeStep(p)
  <2>1. UNCHANGED ms /\ Left(p)' = left
    BY <1>3, <1>8, <1>b DEF ResumeStep
  <2> QED
    BY <1>6, <2>1 DEF Unsettled, Settled
<1>9. CASE PassStep(p)
  <2>1. /\ UNCHANGED ms /\ Left(p)' = Tail(todo) /\ left = todo /\ todo # <<>>
        /\ Moot(p) \/ ~Settles(Head(todo))
    BY <1>3, <1>9, <1>a, <1>b DEF PassStep, Current
  <2>2. CASE ms[m] = ruled
    BY <2>1, <2>2
  <2>3. CASE ms[m] # ruled
    <3>1. /\ IF esc.kind = "timeout" THEN Unsettled(m) ELSE ~Settled(m)
          /\ AheadFor(todo, what, m, esc.kind = "timeout")
      BY <1>6, <2>1, <2>3
    <3>2. ~(/\ Head(todo).do = what /\ Head(todo).m = m
            /\ (Head(todo).sweep => esc.kind = "timeout"))
      BY <1>5, <1>a, <2>1, <3>1 DEF Settles, Moot, Swept, Current, Unsettled, Settled
    <3>3. AheadFor(Tail(todo), what, m, esc.kind = "timeout")
      BY <2>1, <3>1, <3>2, AheadTail
    <3> QED
      BY <2>1, <3>1, <3>3 DEF Unsettled, Settled
  <2> QED
    BY <2>2, <2>3
<1>10. CASE SettleStep(p)
  <2>1. /\ Left(p)' = Tail(todo) /\ left = todo /\ todo # <<>>
        /\ Settles(Head(todo)) /\ ~Settled(Head(todo).m) /\ Head(todo).m \in Milestone
        /\ ms' = [ms EXCEPT ![Head(todo).m] =
                    IF Head(todo).do = "capture" THEN "released" ELSE "refunded"]
    <3>1. Head(todo) \in Task
      BY <1>3, <1>a, TailTasks
    <3> QED
      BY <1>3, <1>10, <1>a, <1>b, <3>1 DEF SettleStep, Current, Task
  <2>2. CASE ms[m] = ruled
    <3>1. Head(todo).m # m
      BY <1>5, <2>1, <2>2 DEF Settled
    <3> QED
      BY <1>1, <2>1, <2>2, <3>1 DEF TypeOK
  <2>3. CASE ms[m] # ruled /\ Head(todo).m # m
    <3>1. /\ IF esc.kind = "timeout" THEN Unsettled(m) ELSE ~Settled(m)
          /\ AheadFor(todo, what, m, esc.kind = "timeout")
      BY <1>6, <2>1, <2>3
    <3>2. AheadFor(Tail(todo), what, m, esc.kind = "timeout")
      BY <2>1, <2>3, <3>1, AheadTail
    <3>3. ms'[m] = ms[m]
      BY <1>1, <2>1, <2>3 DEF TypeOK
    <3> QED
      BY <2>1, <3>1, <3>2, <3>3 DEF Unsettled, Settled
  <2>4. CASE ms[m] # ruled /\ Head(todo).m = m
    <3>1. AheadFor(todo, what, m, esc.kind = "timeout")
      BY <1>6, <2>1, <2>4
    <3>2. Head(todo).do = what
      <4>1. todo[1] = Head(todo) /\ 1 \in 1..Len(todo)
        BY <2>1, TailTasks
      <4>2. PICK i \in 1..Len(todo) :
              /\ todo[i].do = what
              /\ \A k \in 1..Len(todo) : k < i /\ Settles(todo[k]) => todo[k].m # m
        BY <3>1 DEF AheadFor
      <4>3. ~(1 < i)
        BY <2>1, <2>4, <4>1, <4>2
      <4>4. i = 1
        BY <4>1, <4>3
      <4> QED
        BY <4>1, <4>2, <4>4
    <3> QED
      BY <1>1, <1>5, <2>1, <2>4, <3>2 DEF TypeOK
  <2> QED
    BY <2>2, <2>3, <2>4
<1> QED
  BY <1>3, <1>8, <1>9, <1>10

(* Only a ruling that is redeemed starts to be carried out.                *)
LEMMA DecideBegin ==
  ASSUME OneRequest, Shape, OneInv, NEW p \in Proc, Receive(p) \/ Begin(p) \/ Schedule(p)
  PROVE  DecideInv'
<1> SUFFICES ASSUME Resolving(p)', NEW n \in job'[p].esc.milestones
             PROVE  Decides(p, n)'
  BY DEF OneRequest, DecideInv
<1>1. /\ TypeOK /\ job \in [Proc -> Job] /\ job[p] \in Job /\ JobOK(p)
      /\ StageInv /\ StageOf(p) /\ RulingInv
  BY DEF Shape, TypeOK, JobInv, OneInv, StageInv
<1>2. Resolve(p)
  <2>1. ~Receive(p)
    BY ReceiveChecks DEF Resolving
  <2>2. ~Schedule(p)
    <3>1. ~TimeoutEscalated(p)
      BY DEF Resolving, TimeoutEscalated, Free, Idle
    <3>2. ~Timeout(p)
      <4> DEFINE j == [Idle EXCEPT !.op = "timeout", !.phase = "run", !.todo = TimeoutTasks]
      <4>1. j.op = "timeout"
        BY DEF Idle
      <4>2. Timeout(p) => job'[p] = j
        BY <1>1 DEF Timeout
      <4> HIDE DEF j
      <4> QED
        BY <4>1, <4>2 DEF Resolving
    <3> QED
      BY <3>1, <3>2 DEF Schedule
  <2>3. Begin(p)
    BY <2>1, <2>2
  <2>4. /\ Open(p) => job[p].op = "open" /\ Run(p, OpeningTasks)
        /\ Deliver(p) => job[p].op = "deliver" /\ Run(p, DeliveryTasks(job[p].m, job[p].claim))
        /\ Accept(p) => job[p].op = "accept" /\ Run(p, <<CaptureTask(job[p].m)>>)
        /\ DisputeDecided(p) => /\ job[p].op = "dispute"
                                /\ Run(p, DisputeTasks(job[p].m, ObjectivePass(job[p].m, result[job[p].m])))
        /\ DisputeEscalated(p) \/ Reject(p) => End(p)
    BY DEF Open, Deliver, Accept, DisputeDecided, DisputeEscalated, Reject, Verified
  <2>5. ASSUME NEW todo, Run(p, todo)
        PROVE  job'[p].op = job[p].op
    BY <1>1, <2>5 DEF Run, Job
  <2>6. ~End(p)
    BY <1>1 DEF End, Idle, Resolving
  <2> QED
    BY <2>3, <2>4, <2>5, <2>6 DEF Begin, Resolving
<1>e. PICK esc : esc = job[p].esc
  OBVIOUS
<1>u. PICK upheld \in BOOLEAN : upheld = (approval[esc.id].decision = "approved")
  OBVIOUS
<1>t. PICK todo : todo = SettlementTasks(esc, upheld)
  OBVIOUS
<1>3. /\ job[p].op = "resolve" /\ A!Consume(esc.id, esc.agent) /\ Run(p, todo)
      /\ UNCHANGED <<ms, escalation>>
  BY <1>2, <1>e, <1>u, <1>t DEF Resolve, Verified, recordVars, milestoneVars
<1>4. esc = escalation /\ esc \in Escalation /\ esc # NoEscalation
  BY <1>1, <1>3, <1>e DEF StageOf, JobOK, Fits
<1>5. approval[esc.id].status # "consumed" /\ approval'[esc.id].decision = approval[esc.id].decision
  BY <1>1, <1>3, <1>4 DEF A!Consume, A!Redeemable, A!Decision, TypeOK, A!TypeOK, Escalation,
                          A!NoRow, A!Row
<1>6. /\ esc.kind = "dispute" => \E x \in Milestone : esc.milestones = {x} /\ ms[x] = "disputed"
      /\ esc.kind = "timeout" => \A x \in esc.milestones : Unsettled(x)
  BY <1>1, <1>4, <1>5 DEF RulingInv
<1>7. job'[p].phase = "run" /\ job'[p].todo = todo /\ job'[p].esc = esc
  BY <1>1, <1>3, <1>e DEF Run, Job
<1>m. PICK m \in esc.milestones : m = n
  BY <1>7
<1>8. Left(p)' = todo
  BY <1>7 DEF Left
<1>w. PICK what : what = IF Winner(esc, upheld) = "payee" THEN "capture" ELSE "refund"
  OBVIOUS
<1>9. RulingTask(esc)' = what
  BY <1>5, <1>u, <1>w DEF RulingTask, ToPayee
<1>10. AheadFor(todo, what, m, esc.kind = "timeout")
  BY <1>4, <1>6, <1>t, <1>w, AheadSettlement
<1>11. IF esc.kind = "timeout" THEN Unsettled(m)' ELSE ~Settled(m)'
  BY <1>3, <1>4, <1>6 DEF Unsettled, Settled, Escalation
<1> QED
  BY <1>7, <1>8, <1>9, <1>10, <1>11, <1>m DEF Decides, AheadFor

(* Every step keeps to the rulings.                                        *)
LEMMA DecideStep ==
  ASSUME OneRequest, IInv, OneInv, DecideInv, [Next]_vars
  PROVE  DecideInv'
<1>1. Shape /\ MoneyInv
  BY DEF IInv, Shape
<1>2. CASE \E p \in Proc : Receive(p) \/ Begin(p) \/ Continue(p) \/ Schedule(p)
  BY <1>1, <1>2, DecideBegin, DecideWork
<1>3. CASE \/ \E id \in ApprovalId, decision \in A!Decision : Rule(id, decision)
           \/ Tick \/ UNCHANGED vars
  <2> SUFFICES ASSUME NEW p \in Proc, Resolving(p)', NEW n \in job'[p].esc.milestones
               PROVE  Decides(p, n)'
    BY DEF DecideInv
  <2>1. UNCHANGED <<ms, job>>
    BY <1>3 DEF Rule, Tick, vars, recordVars, milestoneVars
  <2>2. Resolving(p) /\ n \in job[p].esc.milestones
    BY <2>1 DEF Resolving
  <2>3. Decides(p, n)
    BY <2>2 DEF DecideInv
  <2>4. job[p].esc \in Escalation /\ approval[job[p].esc.id].status = "consumed"
    <3>1. StageOf(p) /\ JobOK(p) /\ RulingInv
      BY <1>1 DEF Shape, JobInv, OneInv, StageInv
    <3> QED
      BY <2>2, <3>1 DEF StageOf, JobOK, Fits, Resolving, RulingInv
  <2>5. approval'[job[p].esc.id].decision = approval[job[p].esc.id].decision
    <3>1. CASE \E id \in ApprovalId, decision \in A!Decision : Rule(id, decision)
      <4>1. PICK id \in ApprovalId, decision \in A!Decision : Rule(id, decision)
        BY <3>1
      <4>2. A!TypeOK /\ job[p].esc.id \in ApprovalId
        BY <1>1, <2>4 DEF Shape, TypeOK, Escalation
      <4> QED
        BY <2>4, <4>1, <4>2 DEF Rule, A!Resolve, A!Pending, A!TypeOK
    <3>2. CASE Tick \/ UNCHANGED vars
      BY <3>2 DEF Tick, vars
    <3> QED
      BY <1>3, <3>1, <3>2
  <2>6. /\ Ruled(job[p].esc)' = Ruled(job[p].esc)
        /\ RulingTask(job[p].esc)' = RulingTask(job[p].esc)
    BY <2>1, <2>5 DEF Ruled, RulingTask, ToPayee
  <2>7. Left(p)' = Left(p)
    BY <2>1 DEF Left
  <2> QED
    BY <2>1, <2>3, <2>6, <2>7 DEF Decides, AheadFor, Unsettled, Settled
<1> QED
  BY <1>2, <1>3 DEF Next

(* Work that does not go on with a ruling changes nothing an escalation    *)
(* that stays is about.                                                    *)
LEMMA HalfWork ==
  ASSUME OneRequest, Shape, MoneyInv, OneInv, NEW p \in Proc, Continue(p),
         ~Resolving(p)', escalation' # NoEscalation
  PROVE  UNCHANGED <<ms, escalation, approval>>
<1>1. /\ job[p] \in Job /\ JobOK(p) /\ StageInv /\ StageOf(p)
  BY DEF Shape, TypeOK, JobInv, OneInv, StageInv
<1>2. escalation' = escalation
  BY DEF Continue, LockFunds, LockStake, Skip, CaptureMilestone, RefundMilestone, BookReceipt,
         IssueReceipt, ReceiptClashes, ReturnStake, SlashProviderStake, ReturnBond, Frivolous,
         ForgetBond, Throw, Store, Finish, FinishResolve, recordVars
<1>3. state = "disputed" /\ job[p].op # "open"
  BY <1>1, <1>2 DEF StageInv, JobOK, Stored
<1>4. CASE ReceiptClashes(p)
  BY <1>4, ClashCases DEF recordVars, milestoneVars
<1>5. CASE ~ReceiptClashes(p) /\ EndStep(p)
  BY <1>2, <1>3, <1>5, WorkSteps DEF EndStep
<1>6. CASE ~ReceiptClashes(p) /\ ~EndStep(p)
  <2>1. Works(p) /\ Works(p)' /\ job'[p].op = job[p].op
    BY <1>3, <1>6, WorkCases
  <2>2. job[p].op = "resolve"
    BY <1>1, <1>2, <1>3, <2>1 DEF StageOf, Works, Job, JobOK, Fits, Idle
  <2> QED
    BY <2>1, <2>2 DEF Works, Resolving
<1> QED
  BY <1>4, <1>5, <1>6

(* Nor does a request that starts.                                         *)
LEMMA HalfBegin ==
  ASSUME Shape, OneInv, NEW p \in Proc, Receive(p) \/ Begin(p) \/ Schedule(p),
         ~Resolving(p)', escalation' # NoEscalation,
         approval'[escalation'.id].status = "consumed"
  PROVE  UNCHANGED <<ms, escalation, approval>>
<1>1. /\ TypeOK /\ job \in [Proc -> Job] /\ job[p] \in Job /\ StageInv /\ StageOf(p)
  BY DEF Shape, TypeOK, OneInv, StageInv
<1>2. state = "open" => escalation = NoEscalation
  BY <1>1 DEF StageInv
<1>3. CASE Receive(p)
  BY <1>3, ReceiveChecks
<1>4. CASE Open(p) \/ Reject(p)
  BY <1>4 DEF Open, Reject, recordVars, milestoneVars
<1>5. ~Deliver(p) /\ ~Accept(p) /\ ~DisputeDecided(p)
  BY <1>1, <1>2 DEF Deliver, Accept, DisputeDecided, Verified, StageOf, recordVars
<1>6. ~DisputeEscalated(p)
  BY <1>1, EscalateStatus DEF DisputeEscalated
<1>7. ~Resolve(p)
  <2>1. ASSUME NEW todo, Run(p, todo)
        PROVE  job'[p].op = job[p].op /\ job'[p].phase = "run"
    BY <1>1, <2>1 DEF Run, Job
  <2> QED
    BY <2>1 DEF Resolve, Verified, Resolving
<1>8. ~Schedule(p)
  <2>1. Openish => escalation = NoEscalation
    BY <1>1, <1>2 DEF Openish, NonActionable, TypeOK, EscrowState
  <2> QED
    BY <1>1, <2>1, EscalateStatus DEF Schedule, TimeoutEscalated, Timeout, recordVars
<1> QED
  BY <1>3, <1>4, <1>5, <1>6, <1>7, <1>8 DEF Begin

(* A decision is for its row only.                                         *)
LEMMA RowResolved ==
  ASSUME A!TypeOK, NEW id \in ApprovalId, NEW decision, A!Resolve(id, decision)
  PROVE  /\ approval'[id].status = decision
         /\ \A other \in ApprovalId \ {id} : approval'[other] = approval[other]
BY DEF A!TypeOK, A!Resolve

(* Every step keeps to the rulings, the one that is cut short too.         *)
LEMMA HalfStep ==
  ASSUME OneRequest, IInv, OneInv, OneInv', DecideInv', HalfInv, [Next]_vars
  PROVE  HalfInv'
<1>1. Shape /\ MoneyInv
  BY DEF IInv, Shape
<1> SUFFICES ASSUME escalation' # NoEscalation, approval'[escalation'.id].status = "consumed",
                    NEW m \in escalation'.milestones
             PROVE  ms'[m] = Ruled(escalation)' \/ ~Settled(m)'
  BY DEF HalfInv
<1>2. CASE \E q \in Proc : Resolving(q)'
  <2>1. PICK q \in Proc : Resolving(q)'
    BY <1>2
  <2>2. job'[q].esc = escalation'
    BY <2>1 DEF OneInv, StageInv, StageOf, Resolving
  <2> QED
    BY <2>1, <2>2 DEF DecideInv, Decides, Unsettled, Settled, Ruled, ToPayee
<1>3. CASE \A q \in Proc : ~Resolving(q)'
  <2>1. /\ UNCHANGED <<ms, escalation>>
        /\ approval'[escalation.id].status = approval[escalation.id].status
        /\ approval'[escalation.id].decision = approval[escalation.id].decision
    <3>1. CASE \E p \in Proc : Receive(p) \/ Begin(p) \/ Continue(p) \/ Schedule(p)
      BY <1>1, <1>3, <3>1, HalfBegin, HalfWork
    <3>2. CASE \E id \in ApprovalId, decision \in A!Decision : Rule(id, decision)
      <4>1. PICK id \in ApprovalId, decision \in A!Decision : Rule(id, decision)
        BY <3>2
      <4>2. A!TypeOK /\ escalation.id \in ApprovalId /\ UNCHANGED <<ms, escalation>>
        BY <1>1, <4>1 DEF Shape, TypeOK, Escalation, Rule, recordVars, milestoneVars
      <4>3. A!Resolve(id, decision)
        BY <4>1 DEF Rule
      <4>4. approval'[id].status = decision /\ decision # "consumed"
        BY <4>2, <4>3, RowResolved DEF A!Decision
      <4>5. id # escalation.id
        BY <4>2, <4>4
      <4> QED
        BY <4>2, <4>3, <4>5, RowResolved
    <3>3. CASE Tick \/ UNCHANGED vars
      BY <3>3 DEF Tick, vars, recordVars, milestoneVars
    <3> QED
      BY <3>1, <3>2, <3>3 DEF Next
  <2>2. ms[m] = Ruled(escalation) \/ ~Settled(m)
    BY <2>1 DEF HalfInv
  <2> QED
    BY <2>1, <2>2 DEF Ruled, ToPayee, Settled
<1> QED
  BY <1>2, <1>3

-----------------------------------------------------------------------------
(* One request at a time: the stake is forfeited with a lost dispute.      *)

(* A plan in which no dispute is lost.                                     *)
NoLoss(todo) == \A i \in 1..Len(todo) : todo[i].do # "slash" /\ ~LossTask(todo[i])

(* A plan that does not start with the refund of a lost dispute.           *)
Clean(todo) == LossOrder(todo) /\ (todo # <<>> => ~LossTask(Head(todo)))

(* The refund of a lost dispute is next when the slash is done, and only   *)
(* then.                                                                   *)
LEMMA LossTail ==
  ASSUME NEW todo \in Seq(Task), todo # <<>>, LossOrder(todo)
  PROVE  /\ LossOrder(Tail(todo))
         /\ Head(todo).do = "slash" => /\ ~Head(todo).sweep
                                       /\ Tail(todo) # <<>> /\ LossTask(Head(Tail(todo)))
                                       /\ Head(Tail(todo)) = todo[2] /\ 2 \in 1..Len(todo)
                                       /\ todo[2].do = "refund" /\ ~todo[2].sweep
         /\ Head(todo).do # "slash" => Clean(Tail(todo))
         /\ LossTask(Head(todo)) => Head(todo).do = "refund" /\ ~Head(todo).sweep
<1>t. PICK rest \in Seq(Task) : rest = Tail(todo)
  BY TailTasks
<1>1. /\ Len(todo) \in Nat \ {0} /\ Len(rest) = Len(todo) - 1
      /\ \A i \in 1..Len(rest) : i + 1 \in 1..Len(todo) /\ rest[i] = todo[i + 1]
      /\ 1 \in 1..Len(todo) /\ Head(todo) = todo[1]
  BY <1>t, TailTasks
<1>2. rest # <<>> => Len(rest) \in Nat \ {0} /\ 1 \in 1..Len(rest) /\ Head(rest) = rest[1]
  BY TailTasks
<1>3. LossOrder(rest)
  <2> SUFFICES ASSUME NEW i \in 1..Len(rest)
               PROVE  /\ rest[i].do = "slash" => /\ ~rest[i].sweep
                                                 /\ i < Len(rest) /\ LossTask(rest[i + 1])
                      /\ LossTask(rest[i]) => /\ rest[i].do = "refund" /\ ~rest[i].sweep
                                              /\ i = 1 \/ rest[i - 1].do = "slash"
    BY DEF LossOrder
  <2>1. i + 1 \in 1..Len(todo) /\ rest[i] = todo[i + 1] /\ (i + 1) - 1 = i /\ i \in Nat
    BY <1>1
  <2>2. ASSUME rest[i].do = "slash"
        PROVE  ~rest[i].sweep /\ i < Len(rest) /\ LossTask(rest[i + 1])
    <3>1. ~todo[i + 1].sweep /\ i + 1 < Len(todo) /\ LossTask(todo[(i + 1) + 1])
      BY <2>1, <2>2 DEF LossOrder
    <3>2. i + 1 \in 1..Len(rest)
      BY <1>1, <2>1, <3>1
    <3> QED
      BY <1>1, <3>1, <3>2
  <2>3. ASSUME LossTask(rest[i])
        PROVE  /\ rest[i].do = "refund" /\ ~rest[i].sweep
               /\ i = 1 \/ rest[i - 1].do = "slash"
    <3>1. /\ todo[i + 1].do = "refund" /\ ~todo[i + 1].sweep
          /\ i + 1 = 1 \/ todo[(i + 1) - 1].do = "slash"
      BY <2>1, <2>3 DEF LossOrder
    <3>2. todo[i].do = "slash"
      BY <2>1, <3>1
    <3>3. CASE i # 1
      <4>1. i - 1 \in 1..Len(rest) /\ (i - 1) + 1 = i
        BY <1>1, <3>3
      <4> QED
        BY <1>1, <2>1, <3>1, <3>2, <4>1
    <3> QED
      BY <2>1, <3>1, <3>3
  <2> QED
    BY <2>2, <2>3
<1>4. ASSUME Head(todo).do = "slash"
      PROVE  /\ ~Head(todo).sweep
             /\ rest # <<>> /\ LossTask(Head(rest)) /\ Head(rest) = todo[2] /\ 2 \in 1..Len(todo)
             /\ todo[2].do = "refund" /\ ~todo[2].sweep
  <2>1. ~Head(todo).sweep /\ 1 < Len(todo) /\ LossTask(todo[1 + 1])
    BY <1>1, <1>4 DEF LossOrder
  <2>2. rest # <<>> /\ 2 \in 1..Len(todo) /\ 1 \in 1..Len(rest)
    BY <1>1, <2>1
  <2>3. Head(rest) = todo[2]
    BY <1>1, <1>2, <2>2
  <2> QED
    BY <2>1, <2>2, <2>3 DEF LossOrder
<1>5. ASSUME Head(todo).do # "slash", rest # <<>>
      PROVE  ~LossTask(Head(rest))
  <2>1. Head(rest) = todo[2] /\ 2 \in 1..Len(todo) /\ todo[2 - 1] = Head(todo)
    BY <1>1, <1>2, <1>5
  <2> QED
    BY <1>5, <2>1 DEF LossOrder
<1>6. LossTask(Head(todo)) => Head(todo).do = "refund" /\ ~Head(todo).sweep
  BY <1>1 DEF LossOrder
<1> QED
  BY <1>3, <1>4, <1>5, <1>6, <1>t DEF Clean

(* What loses nothing may follow.                                          *)
LEMMA LossConcat ==
  ASSUME NEW s \in Seq(Task), NEW t \in Seq(Task), s # <<>>, Clean(s), NoLoss(t)
  PROVE  Clean(s \o t)
<1>c. PICK todo \in Seq(Task) : todo = s \o t
  BY ConcatProperties
<1>1. /\ Len(s) \in Nat \ {0} /\ Len(t) \in Nat /\ Len(todo) = Len(s) + Len(t)
      /\ \A i \in 1..(Len(s) + Len(t)) : todo[i] = IF i <= Len(s) THEN s[i] ELSE t[i - Len(s)]
  BY <1>c, ConcatProperties, LenProperties, TailTasks
<1>2. \A i \in 1..Len(todo) :
        \/ i \in 1..Len(s) /\ todo[i] = s[i]
        \/ i - Len(s) \in 1..Len(t) /\ todo[i] = t[i - Len(s)]
  BY <1>1
<1>3. \A i \in 1..Len(todo) : todo[i].do = "slash" \/ LossTask(todo[i]) =>
        i \in 1..Len(s) /\ todo[i] = s[i]
  BY <1>2 DEF NoLoss
<1>4. LossOrder(todo)
  <2> SUFFICES ASSUME NEW i \in 1..Len(todo)
               PROVE  /\ todo[i].do = "slash" => /\ ~todo[i].sweep
                                                 /\ i < Len(todo) /\ LossTask(todo[i + 1])
                      /\ LossTask(todo[i]) => /\ todo[i].do = "refund" /\ ~todo[i].sweep
                                              /\ i = 1 \/ todo[i - 1].do = "slash"
    BY DEF LossOrder
  <2>1. ASSUME todo[i].do = "slash"
        PROVE  ~todo[i].sweep /\ i < Len(todo) /\ LossTask(todo[i + 1])
    <3>1. i \in 1..Len(s) /\ ~todo[i].sweep /\ i < Len(s) /\ LossTask(s[i + 1])
      BY <1>3, <2>1 DEF Clean, LossOrder
    <3>2. i + 1 <= Len(s) /\ i + 1 \in 1..(Len(s) + Len(t))
      BY <1>1, <3>1
    <3> QED
      BY <1>1, <3>1, <3>2
  <2>2. ASSUME LossTask(todo[i])
        PROVE  /\ todo[i].do = "refund" /\ ~todo[i].sweep
               /\ i = 1 \/ todo[i - 1].do = "slash"
    <3>1. /\ i \in 1..Len(s) /\ todo[i].do = "refund" /\ ~todo[i].sweep
          /\ i = 1 \/ s[i - 1].do = "slash"
      BY <1>3, <2>2 DEF Clean, LossOrder
    <3>2. i # 1 => i - 1 <= Len(s) /\ i - 1 \in 1..(Len(s) + Len(t))
      BY <1>1, <3>1
    <3> QED
      BY <1>1, <3>1, <3>2
  <2> QED
    BY <2>1, <2>2
<1>5. todo # <<>> /\ Head(todo) = todo[1] /\ todo[1] = s[1] /\ Head(s) = s[1]
  <2>1. Len(todo) # 0 /\ 1 \in 1..(Len(s) + Len(t)) /\ 1 <= Len(s)
    BY <1>1
  <2>2. todo # <<>>
    BY <2>1
  <2> QED
    BY <1>1, <2>1, <2>2, TailTasks
<1> QED
  BY <1>4, <1>5, <1>c DEF Clean

(* A list that loses nothing is such a plan.                               *)
LEMMA NoLossClean ==
  ASSUME NEW todo \in Seq(Task), NoLoss(todo)
  PROVE  Clean(todo)
<1>1. LossOrder(todo)
  BY DEF NoLoss, LossOrder
<1>2. todo # <<>> => 1 \in 1..Len(todo) /\ Head(todo) = todo[1]
  BY TailTasks
<1> QED
  BY <1>1, <1>2 DEF NoLoss, Clean

(* Deliveries, acceptances, timeouts and sweeps lose nothing.              *)
LEMMA HarmlessTasks ==
  /\ \A m \in Milestone : /\ \A claim \in {"match", "mismatch"} : NoLoss(DeliveryTasks(m, claim))
                          /\ NoLoss(<<CaptureTask(m)>>)
  /\ NoLoss(TimeoutTasks)
  /\ \A milestones : \A tasks \in {Captures, Refunds} : NoLoss(SweepEach(milestones, tasks))
<1>1. ASSUME NEW m \in Milestone
      PROVE  /\ CaptureTask(m) \in Task /\ CaptureTask(m).do # "slash"
             /\ ~LossTask(CaptureTask(m))
             /\ RefundTask(m, "refunded") \in Task /\ RefundTask(m, "refunded").do # "slash"
             /\ ~LossTask(RefundTask(m, "refunded"))
             /\ Do("nothing", m).do # "slash" /\ ~LossTask(Do("nothing", m))
             /\ Do("nothing", m) \in Task
  BY DEF CaptureTask, RefundTask, Do, LossTask, Task, Outcome
<1>2. ASSUME NEW m \in Milestone
      PROVE  /\ \A claim \in {"match", "mismatch"} : NoLoss(DeliveryTasks(m, claim))
             /\ NoLoss(<<CaptureTask(m)>>)
  <2>1. NoLoss(<<>>) /\ NoLoss(<<CaptureTask(m)>>) /\ NoLoss(<<RefundTask(m, "refunded")>>)
    BY <1>1 DEF NoLoss
  <2> QED
    BY <2>1 DEF DeliveryTasks
<1>3. ASSUME NEW tasks \in {Captures, Refunds}, NEW m \in Milestone
      PROVE  tasks[m] \in Task /\ tasks[m].do # "slash" /\ ~LossTask(tasks[m])
  BY <1>1 DEF Captures, Refunds
<1>4. ASSUME NEW milestones, NEW tasks \in {Captures, Refunds}
      PROVE  NoLoss(ForEach(milestones, tasks)) /\ NoLoss(SweepEach(milestones, tasks))
  <2>l. PICK each : each = ForEach(milestones, tasks)
    OBVIOUS
  <2>s. PICK sweep : sweep = SweepEach(milestones, tasks)
    OBVIOUS
  <2>0. tasks \in [Milestone -> WorkTask]
    BY LoopTasks
  <2>1. \A m \in Milestone : each[m] \in Task /\ each[m].do # "slash" /\ ~LossTask(each[m])
    BY <1>1, <1>3, <2>l DEF ForEach
  <2>2. 1..Len(each) = Milestone
    <3>1. each \in [Milestone -> Task]
      BY <2>1, <2>l DEF ForEach
    <3> QED
      BY <3>1, PerMilestone DEF Milestone
  <2>3. 1..Len(sweep) = Milestone
    BY <2>0, <2>s, SweepTasks DEF Milestone
  <2>4. \A m \in Milestone : sweep[m] = [each[m] EXCEPT !.sweep = TRUE]
    BY <2>l, <2>s DEF SweepEach, Sweep
  <2>5. ASSUME NEW m \in Milestone
        PROVE  sweep[m].do # "slash" /\ ~LossTask(sweep[m])
    <3>1. PICK task \in Task : task = each[m]
      BY <2>1
    <3>2. sweep[m] = [task EXCEPT !.sweep = TRUE] /\ task.do # "slash" /\ ~LossTask(task)
      BY <2>1, <2>4, <3>1
    <3> QED
      BY <3>2 DEF Task, LossTask
  <2> QED
    BY <2>1, <2>2, <2>3, <2>5, <2>l, <2>s DEF NoLoss
<1>5. NoLoss(TimeoutTasks)
  BY <1>4 DEF TimeoutTasks
<1> QED
  BY <1>2, <1>4, <1>5

(* A lost dispute slashes first.                                           *)
LEMMA RulingClean ==
  ASSUME NEW m \in Milestone, NEW upheld \in BOOLEAN, NEW payee \in BOOLEAN
  PROVE  LET todo == RulingTasks(m, upheld, payee)
         IN  todo \in Seq(Task) /\ todo # <<>> /\ Clean(todo)
<1> DEFINE bond == Do(IF upheld THEN "return" ELSE "frivolous", m)
<1>t. PICK todo : todo = RulingTasks(m, upheld, payee)
  OBVIOUS
<1>1. /\ bond.do # "slash" /\ ~LossTask(bond)
      /\ CaptureTask(m).do # "slash" /\ ~LossTask(CaptureTask(m))
      /\ Do("slash", m).do = "slash" /\ ~LossTask(Do("slash", m)) /\ ~Do("slash", m).sweep
      /\ RefundTask(m, "disputed").do = "refund" /\ LossTask(RefundTask(m, "disputed"))
      /\ ~RefundTask(m, "disputed").sweep
  BY DEF Do, CaptureTask, RefundTask, LossTask
<1>2. /\ todo \in Seq(Task)
      /\ payee => Len(todo) = 2 /\ todo[1] = CaptureTask(m) /\ todo[2] = bond
      /\ ~payee => /\ Len(todo) = 3 /\ todo[1] = Do("slash", m)
                   /\ todo[2] = RefundTask(m, "disputed") /\ todo[3] = bond
  BY <1>t, RulingList
<1> HIDE DEF bond
<1>3. CASE payee
  <2>a. Len(todo) = 2
    BY <1>2, <1>3
  <2>0. \A i \in 1..Len(todo) : i = 1 \/ i = 2
    BY <2>a
  <2>1. NoLoss(todo)
    BY <1>1, <1>2, <1>3, <2>0 DEF NoLoss
  <2>2. todo # <<>>
    BY <1>2, <1>3, EmptySeq
  <2> QED
    BY <1>2, <1>t, <2>1, <2>2, NoLossClean
<1>4. CASE ~payee
  <2>a. Len(todo) = 3
    BY <1>2, <1>4
  <2>0. \A i \in 1..Len(todo) : i = 1 \/ i = 2 \/ i = 3
    BY <2>a
  <2>1. Len(todo) = 3 /\ todo # <<>>
    BY <2>a, EmptySeq
  <2>2. ASSUME NEW i \in 1..Len(todo)
        PROVE  /\ todo[i].do = "slash" => /\ ~todo[i].sweep
                                          /\ i < Len(todo) /\ LossTask(todo[i + 1])
               /\ LossTask(todo[i]) => /\ todo[i].do = "refund" /\ ~todo[i].sweep
                                       /\ i = 1 \/ todo[i - 1].do = "slash"
    <3>1. CASE i = 1
      <4>1. i < Len(todo) /\ i + 1 = 2
        BY <2>1, <3>1
      <4> QED
        BY <1>1, <1>2, <1>4, <3>1, <4>1
    <3>2. CASE i = 2
      <4>1. i - 1 = 1
        BY <3>2
      <4> QED
        BY <1>1, <1>2, <1>4, <3>2, <4>1
    <3>3. CASE i = 3
      BY <1>1, <1>2, <1>4, <3>3
    <3> QED
      BY <2>0, <3>1, <3>2, <3>3
  <2>3. Head(todo) = todo[1]
    BY <1>2, <2>1, TailTasks
  <2> QED
    BY <1>1, <1>2, <1>4, <1>t, <2>1, <2>2, <2>3 DEF Clean, LossOrder
<1> QED
  BY <1>3, <1>4

(* So does a ruling.                                                       *)
LEMMA SettlementClean ==
  ASSUME NEW esc \in Escalation, NEW upheld \in BOOLEAN,
         esc.kind = "dispute" => \E m \in Milestone : esc.milestones = {m}
  PROVE  Clean(SettlementTasks(esc, upheld))
<1>1. CASE esc.kind = "timeout"
  <2>t. PICK tasks \in {Captures, Refunds} : tasks = IF upheld THEN Captures ELSE Refunds
    OBVIOUS
  <2>a. PICK s : s = SweepEach(esc.milestones, tasks)
    OBVIOUS
  <2>b. PICK t : t = FinalSweep(Milestone)
    OBVIOUS
  <2>1. SettlementTasks(esc, upheld) = s \o t
    BY <1>1, <2>a, <2>b, <2>t DEF SettlementTasks
  <2>2. s \in Seq(Task) /\ t \in Seq(Task) /\ s \o t \in Seq(Task)
    BY <2>a, <2>b, LoopTasks, SweepTasks, FinalSweepPlan, ConcatProperties
  <2>3. NoLoss(s) /\ NoLoss(t)
    BY <2>a, <2>b, HarmlessTasks DEF FinalSweep
  <2>4. NoLoss(s \o t)
    <3>1. \A i \in 1..Len(s \o t) :
            \/ i \in 1..Len(s) /\ (s \o t)[i] = s[i]
            \/ i - Len(s) \in 1..Len(t) /\ (s \o t)[i] = t[i - Len(s)]
      <4>1. /\ Len(s) \in Nat /\ Len(t) \in Nat /\ Len(s \o t) = Len(s) + Len(t)
            /\ \A i \in 1..(Len(s) + Len(t)) : (s \o t)[i] =
                  IF i <= Len(s) THEN s[i] ELSE t[i - Len(s)]
        BY <2>2, ConcatProperties, LenProperties
      <4> QED
        BY <4>1
    <3> QED
      BY <2>3, <3>1 DEF NoLoss
  <2> QED
    BY <2>1, <2>2, <2>4, NoLossClean
<1>2. CASE esc.kind # "timeout"
  <2>1. esc.kind = "dispute"
    BY <1>2 DEF Escalation
  <2>2. PICK m \in Milestone : esc.milestones = {m}
    BY <2>1
  <2>p. PICK payee \in BOOLEAN : payee = (Winner(esc, upheld) = "payee")
    OBVIOUS
  <2>s. PICK s : s = RulingTasks(m, upheld, payee)
    OBVIOUS
  <2>t. PICK t : t = FinalSweep(Milestone \ {m})
    OBVIOUS
  <2>3. SettlementTasks(esc, upheld) = s \o t
    <3>1. SettlementTasks(esc, upheld) =
            RulingTasks(m, upheld, Winner(esc, upheld) = "payee") \o FinalSweep(Milestone \ {m})
      BY <2>1, <2>2, DisputeRuling
    <3> QED
      BY <2>p, <2>s, <2>t, <3>1
  <2>4. s \in Seq(Task) /\ s # <<>> /\ Clean(s) /\ t \in Seq(Task) /\ NoLoss(t)
    BY <2>s, <2>t, RulingClean, FinalSweepPlan, HarmlessTasks DEF FinalSweep
  <2> QED
    BY <2>3, <2>4, LossConcat
<1> QED
  BY <1>1, <1>2

(* A request at work takes one of these steps.                             *)
LEMMA WorkActions ==
  ASSUME OneRequest, Shape, MoneyInv, OneInv, NEW p \in Proc, Continue(p), job[p].op # "open",
         ~EndStep(p), ~ReceiptClashes(p)
  PROVE  \/ Skip(p) \/ CaptureMilestone(p) \/ RefundMilestone(p) \/ IssueReceipt(p)
         \/ ReturnStake(p) \/ SlashProviderStake(p) \/ ReturnBond(p) \/ Frivolous(p)
         \/ ForgetBond(p)
<1>1. JobTypes /\ JobInv /\ JobOK(p) /\ job[p].todo # <<>>
  BY WorkCases DEF Shape, TypeOK, JobTypes, JobInv
<1>2. Current(p).do \notin {"lock", "stake"}
  BY <1>1, Working
<1>3. ~Throw(p) /\ ~Store(p)
  BY NoThrow DEF Store
<1>4. ~Finish(p) /\ ~FinishResolve(p)
  BY <1>1 DEF Finish, FinishResolve, Last
<1> QED
  BY <1>2, <1>3, <1>4 DEF Continue, LockFunds, LockStake, Doing

(* The stake's hold is a hold row of its own.                              *)
LEMMA PledgeHold ==
  ASSUME TypeOK, MoneyInv, Stored, pledge # None
  PROVE  /\ pledge \in HoldId /\ hold[pledge].state \in {"active", "released", "forfeited"}
         /\ bondHold # pledge /\ \A m \in Milestone : fundsHold[m] # pledge
         /\ stakeHold # None => stakeHold = pledge /\ hold[pledge].state = "active"
         /\ stakeHold = None => hold[pledge].state \in {"released", "forfeited"}
BY DEF TypeOK, MoneyInv, CollateralInv, W!Active

(* A step that leaves the stake, the receipts and the lost dispute alone.  *)
LEMMA PledgeKeeps ==
  ASSUME OneRequest, NEW p \in Proc, PledgeInv, Stored' = Stored, UNCHANGED <<pledge, receipts>>,
         Stored /\ pledge # None => hold'[pledge] = hold[pledge],
         AllSettled => AllSettled',
         LossDue(p)' <=> LossDue(p)
  PROVE  PledgeInv'
<1>1. LostDispute' <=> LostDispute
  BY DEF LostDispute
<1> QED
  BY <1>1 DEF OneRequest, PledgeInv

(* A request that comes in, starts or times out keeps the stake.           *)
LEMMA PledgeBegins ==
  ASSUME Shape, MoneyInv, NEW p \in Proc, Receive(p) \/ Begin(p) \/ Schedule(p)
  PROVE  /\ Stored' = Stored /\ UNCHANGED <<pledge, receipts>>
         /\ Stored /\ pledge # None => hold'[pledge] = hold[pledge]
<1>1. /\ TypeOK /\ W!TypeOK /\ job[p] \in Job
  BY DEF Shape, TypeOK
<1>2. Stored' = Stored
  BY BeginFunds
<1>3. CASE DisputeDecided(p) \/ DisputeEscalated(p)
  <2>1. UNCHANGED <<pledge, receipts>> /\ PostBond(p)
    BY <1>3 DEF DisputeDecided, DisputeEscalated, booksVars
  <2>2. ASSUME Stored, pledge # None
        PROVE  hold'[pledge] = hold[pledge]
    <3>1. CASE job[p].bond > 0
      <4>1. Lock(job[p].by, job[p].bond) /\ job[p].by \in Party /\ job[p].bond \in Nat
        BY <1>1, <2>1, <3>1 DEF PostBond, Job
      <4>2. FreshHold \in HoldId /\ hold[FreshHold].state = "none" /\ OnlyHold(FreshHold)
        BY <1>1, <4>1, LockEffect
      <4>3. pledge \in HoldId /\ hold[pledge].state # "none"
        BY <1>1, <2>2, PledgeHold
      <4> QED
        BY <4>2, <4>3 DEF OnlyHold
    <3>2. CASE ~(job[p].bond > 0)
      BY <2>1, <3>2 DEF PostBond, walletVars
    <3> QED
      BY <3>1, <3>2
  <2> QED
    BY <1>2, <2>1, <2>2
<1>4. CASE ~DisputeDecided(p) /\ ~DisputeEscalated(p)
  <2>1. UNCHANGED <<hold, pledge, receipts>>
    BY <1>4 DEF Receive, RequestOpen, RequestDeliver, RequestAccept, RequestDispute,
                RequestResolve, Request, Begin, Open, Deliver, Accept, Resolve, Reject,
                Schedule, Timeout, TimeoutEscalated, walletVars, booksVars
  <2> QED
    BY <1>2, <2>1
<1> QED
  BY <1>3, <1>4

(* It starts on a plan that loses no dispute before it slashes, and takes  *)
(* no milestone out of a settled escrow.                                   *)
LEMMA CleanBegins ==
  ASSUME OneRequest, ~Redelivery, Shape, MoneyInv, OneInv, NEW p \in Proc,
         Receive(p) \/ Begin(p) \/ Schedule(p)
  PROVE  /\ ~Works(p) /\ (Works(p)' => Clean(job'[p].todo))
         /\ AllSettled => AllSettled'
<1>1. TypeOK /\ job \in [Proc -> Job] /\ job[p] \in Job /\ JobOK(p)
      /\ StageInv /\ StageOf(p) /\ RulingInv
  BY DEF Shape, TypeOK, JobInv, OneInv, StageInv
<1>2. job[p].m \in Milestone
  BY <1>1 DEF Job
<1>m. PICK m \in Milestone : m = job[p].m
  BY <1>2
<1>3. CASE Receive(p)
  <2>1. job[p] = Idle /\ job'[p].phase = "verify" /\ UNCHANGED ms /\ Idle.phase = "idle"
    BY <1>3, ReceiveChecks DEF Idle
  <2> QED
    BY <2>1 DEF Works, AllSettled, Settled
<1>4. ASSUME NEW todo, Run(p, todo), Clean(todo), job[p].phase = "verify", AllSettled => AllSettled'
      PROVE  /\ ~Works(p) /\ (Works(p)' => Clean(job'[p].todo))
             /\ AllSettled => AllSettled'
  <2>1. job'[p].todo = todo
    BY <1>1, <1>4 DEF Run, Job
  <2> QED
    BY <1>4, <2>1 DEF Works
<1>5. CASE Open(p)
  <2>1. job[p].op = "open" /\ job[p].phase = "verify" /\ UNCHANGED ms /\ Run(p, OpeningTasks)
    BY <1>5 DEF Open, Verified, recordVars, milestoneVars
  <2>2. job'[p].op = "open"
    BY <1>1, <2>1 DEF Run, Job
  <2> QED
    BY <2>1, <2>2 DEF Works, AllSettled, Settled
<1>6. CASE Deliver(p)
  <2>t. PICK todo : todo = DeliveryTasks(m, job[p].claim)
    OBVIOUS
  <2>1. /\ job[p].op = "deliver" /\ job[p].phase = "verify" /\ ms[m] # "released"
        /\ Run(p, todo)
    BY <1>6, <1>m, <2>t DEF Deliver, Verified, Deliverable
  <2>2. job[p].claim \in {"match", "mismatch"} /\ ~Settled(m)
    BY <1>1, <1>m, <2>1 DEF StageOf, Settled, Job, JobOK, Fits
  <2>3. todo \in Seq(Task) /\ NoLoss(todo)
    <3>1. todo \in Seq(WorkTask)
      BY <2>2, <2>t, DeliveryTasksType
    <3>2. todo \in Seq(Task)
      BY <3>1 DEF WorkTask
    <3>3. NoLoss(todo)
      BY <2>2, <2>t, HarmlessTasks
    <3> QED
      BY <3>2, <3>3
  <2> QED
    BY <1>4, <2>1, <2>2, <2>3, NoLossClean DEF AllSettled
<1>7. CASE Accept(p)
  <2>t. PICK todo : todo = <<CaptureTask(m)>>
    OBVIOUS
  <2>1. job[p].phase = "verify" /\ UNCHANGED ms /\ Run(p, todo)
    BY <1>7, <1>m, <2>t DEF Accept, Verified, recordVars, milestoneVars
  <2>2. todo \in Seq(Task) /\ NoLoss(todo)
    <3>1. CaptureTask(m) \in Task
      BY DEF CaptureTask, Do, Task, Outcome
    <3> QED
      BY <2>t, <3>1, HarmlessTasks
  <2> QED
    BY <1>4, <2>1, <2>2, NoLossClean DEF AllSettled, Settled
<1>8. CASE DisputeDecided(p)
  <2>v. PICK verdict : verdict = ObjectivePass(m, result[m])
    OBVIOUS
  <2>t. PICK todo : todo = DisputeTasks(m, verdict)
    OBVIOUS
  <2>1. /\ job[p].phase = "verify" /\ ~Settled(m) /\ Run(p, todo)
    BY <1>8, <1>m, <2>v, <2>t DEF DisputeDecided, Verified, MayDispute
  <2>2. Clean(todo)
    BY <2>t, DecidedTasks, RulingClean
  <2> QED
    BY <1>4, <2>1, <2>2 DEF AllSettled
<1>9. CASE Resolve(p)
  <2>e. PICK esc : esc = job[p].esc
    OBVIOUS
  <2>u. PICK upheld \in BOOLEAN : upheld = (approval[esc.id].decision = "approved")
    OBVIOUS
  <2>t. PICK todo : todo = SettlementTasks(esc, upheld)
    OBVIOUS
  <2>1. job[p].op = "resolve" /\ job[p].phase = "verify" /\ Run(p, todo) /\ UNCHANGED ms
    BY <1>9, <2>e, <2>u, <2>t DEF Resolve, Verified, recordVars, milestoneVars
  <2>2. esc = escalation /\ esc \in Escalation /\ esc # NoEscalation
    BY <1>1, <2>1, <2>e DEF StageOf, JobOK, Fits
  <2>3. Clean(todo)
    BY <1>1, <2>2, <2>t, SettlementClean DEF RulingInv
  <2> QED
    BY <1>4, <2>1, <2>3 DEF AllSettled, Settled
<1>10. CASE DisputeEscalated(p) \/ Reject(p)
  <2>1. job[p].phase = "verify" /\ End(p)
    BY <1>10 DEF DisputeEscalated, Verified, Reject
  <2>2. job'[p] = Idle /\ Idle.phase = "idle"
    BY <1>1, <2>1 DEF End, Idle
  <2>3. AllSettled => AllSettled'
    BY <1>m, <1>10 DEF DisputeEscalated, MayDispute, Reject, recordVars, milestoneVars, AllSettled,
                       Settled
  <2> QED
    BY <2>1, <2>2, <2>3 DEF Works
<1>11. CASE Schedule(p)
  <2>1. job[p] = Idle /\ Idle.phase = "idle" /\ UNCHANGED ms
    BY <1>11 DEF Schedule, TimeoutEscalated, Timeout, Free, Idle, recordVars, milestoneVars
  <2>2. CASE TimeoutEscalated(p)
    BY <2>1, <2>2 DEF TimeoutEscalated, Works, AllSettled, Settled
  <2>3. CASE Timeout(p)
    <3> DEFINE j == [Idle EXCEPT !.op = "timeout", !.phase = "run", !.todo = TimeoutTasks]
    <3>1. j.todo = TimeoutTasks
      BY DEF Idle
    <3>2. job'[p] = j
      BY <1>1, <2>3 DEF Timeout
    <3> HIDE DEF j
    <3>3. TimeoutTasks \in Seq(Task)
      BY TimeoutTasksType DEF WorkTask
    <3>4. Clean(TimeoutTasks)
      BY <3>3, HarmlessTasks, NoLossClean
    <3> QED
      BY <2>1, <3>1, <3>2, <3>4 DEF Works, AllSettled, Settled
  <2> QED
    BY <1>11, <2>2, <2>3 DEF Schedule
<1> QED
  BY <1>3, <1>5, <1>6, <1>7, <1>8, <1>9, <1>10, <1>11 DEF Begin

(* A receipt says that a dispute was lost when it is that of the loss.     *)
LEMMA LossBooked ==
  ASSUME Shape, BooksInv, NEW p \in Proc, Works(p), Stored, job[p].todo # <<>>, BookReceipt(p)
  PROVE  /\ LostDispute' <=> LostDispute \/ LossTask(Current(p))
         /\ UNCHANGED <<hold, ms, pledge, state>>
<1>1. TypeOK /\ JobTypes /\ JobInv /\ Current(p) \in Task
  BY Working DEF Shape, TypeOK, JobTypes, JobInv
<1>m. PICK m \in Milestone : m = Current(p).m
  BY <1>1 DEF Task
<1>o. PICK outcome : outcome = Current(p).outcome
  OBVIOUS
<1>2. /\ job[p].phase = "sign" /\ UNCHANGED <<hold, ms, pledge, state>>
      /\ receipts' = [receipts EXCEPT ![m] = Append(@, outcome)]
  BY <1>m, <1>o DEF BookReceipt, Awaiting, walletVars, recordVars, milestoneVars
<1>3. receipts[m] = <<>>
  <2>1. p \in Signing(m) /\ IsFiniteSet(Signing(m))
    BY <1>m, <1>2, FS_Subset, EscrowAssumption DEF Signing
  <2>2. Cardinality(Signing(m)) \in Nat /\ Cardinality(Signing(m)) # 0
    BY <2>1, FS_CardinalityType, FS_EmptySet
  <2>3. receipts[m] \in Seq(Outcome) /\ Len(receipts[m]) \in Nat
    BY <1>1, LenProperties DEF TypeOK
  <2>4. Len(receipts[m]) + Cardinality(Signing(m)) \in {0, 1}
    BY DEF BooksInv, Booked, Due
  <2>5. Len(receipts[m]) = 0
    BY <2>2, <2>3, <2>4
  <2> QED
    BY <2>3, <2>5, EmptySeq
<1>4. /\ receipts'[m] = <<outcome>>
      /\ \A n \in Milestone \ {m} : receipts'[n] = receipts[n]
  <2>1. receipts'[m] = Append(<<>>, outcome)
    BY <1>1, <1>2, <1>3 DEF TypeOK
  <2>2. Append(<<>>, outcome) = <<outcome>>
    OBVIOUS
  <2> QED
    BY <1>1, <1>2, <2>1, <2>2 DEF TypeOK
<1>5. (<<outcome>> = <<"disputed">>) <=> outcome = "disputed"
  OBVIOUS
<1>6. receipts[m] # <<"disputed">>
  BY <1>3
<1> QED
  BY <1>2, <1>4, <1>5, <1>6, <1>o DEF LostDispute, LossTask

(* A receipt that is refused is booked all the same.                       *)
LEMMA SlashClash ==
  ASSUME OneRequest, Shape, BooksInv, SlashInv, NEW p \in Proc, ReceiptClashes(p)
  PROVE  SlashInv'
<1>1. /\ job'[p] = Idle /\ Idle.phase = "idle" /\ Works(p) /\ Stored /\ Stored'
      /\ job[p].phase = "sign" /\ job[p].todo # <<>>
  BY ClashCases
<1>2. /\ LostDispute' <=> LostDispute \/ LossTask(Current(p))
      /\ UNCHANGED <<hold, ms, pledge>>
  BY <1>1, LossBooked DEF ReceiptClashes
<1>3. LossDue(p) <=> LossTask(Current(p))
  BY <1>1 DEF LossDue
<1>4. ~LossDue(p)' /\ ~Works(p)'
  BY <1>1 DEF LossDue, Works
<1> QED
  BY <1>1, <1>2, <1>3, <1>4 DEF SlashInv, PledgeInv, OneRequest, AllSettled, Settled

(* A step of a request at work.                                            *)
LEMMA SlashWork ==
  ASSUME OneRequest, Shape, MoneyInv, OneInv, BooksInv, SlashInv, NEW p \in Proc, Continue(p),
         job[p].op # "open", ~EndStep(p), ~ReceiptClashes(p)
  PROVE  SlashInv'
<1>1. /\ TypeOK /\ W!TypeOK /\ JobTypes /\ JobInv /\ job \in [Proc -> Job] /\ job[p] \in Job
      /\ JobOK(p) /\ PlanInv /\ "payer" \in Party /\ "payee" \in Party
  BY DEF Shape, TypeOK, JobTypes, JobInv, OneInv, Party
<1>2. /\ Works(p) /\ Works(p)' /\ Stored /\ job[p].todo # <<>>
      /\ SettleStep(p) \/ PassStep(p) \/ ResumeStep(p)
  BY WorkCases
<1>3. \/ Skip(p) \/ CaptureMilestone(p) \/ RefundMilestone(p) \/ IssueReceipt(p)
      \/ ReturnStake(p) \/ SlashProviderStake(p) \/ ReturnBond(p) \/ Frivolous(p)
      \/ ForgetBond(p)
  BY WorkActions
<1>t. PICK todo \in Seq(Task) : todo = job[p].todo
  BY <1>1 DEF Job
<1>4. todo # <<>> /\ LossOrder(todo) /\ Current(p) = Head(todo) /\ Head(todo) \in Task
  BY <1>1, <1>2, <1>t, Working DEF SlashInv, Current
<1>5. /\ LossOrder(Tail(todo))
      /\ Head(todo).do # "slash" => Clean(Tail(todo))
      /\ LossTask(Head(todo)) => Head(todo).do = "refund" /\ ~Head(todo).sweep
  BY <1>4, LossTail
<1>6. /\ Proceed(p) => job'[p].phase = "run" /\ job'[p].todo = Tail(todo)
      /\ \A phase \in {"sign", "rate"} :
           Await(p, phase) => job'[p].phase = phase /\ job'[p].todo = todo
  BY <1>1, <1>t, ProceedJob, AwaitJob
<1>7. Stored' = Stored /\ UNCHANGED pledge
  BY <1>3 DEF Skip, CaptureMilestone, RefundMilestone, BookReceipt, IssueReceipt, ReturnStake,
              SlashProviderStake, ReturnBond, Frivolous, ForgetBond, recordVars, booksVars, Stored
<1>8. LossOrder(job'[p].todo)
  <2>1. Proceed(p) \/ Await(p, "sign") \/ Await(p, "rate")
    BY <1>2 DEF SettleStep, PassStep, ResumeStep
  <2> QED
    BY <1>4, <1>5, <1>6, <2>1
<1>9. \A q \in Proc : Works(q)' => LossOrder(job'[q].todo)
  BY <1>8 DEF OneRequest
<1> SUFFICES PledgeInv'
  BY <1>9 DEF SlashInv, LossOrder, LossTask
<1>10. PledgeInv
  BY DEF SlashInv
<1>11. LossDue(p) <=> job[p].phase # "rate" /\ LossTask(Head(todo))
  BY <1>2, <1>4 DEF LossDue
<1>12. ASSUME Proceed(p), Head(todo).do # "slash"
       PROVE  ~LossDue(p)'
  BY <1>5, <1>6, <1>12 DEF LossDue, Clean, Current, LossTask
<1>13. CASE Skip(p)
  <2>1. /\ Moot(p) /\ Proceed(p) /\ job[p].phase = "run"
        /\ UNCHANGED <<hold, ms, receipts>>
    BY <1>1, <1>13 DEF Skip, Running, JobOK, walletVars, recordVars, milestoneVars, booksVars
  <2>2. Live(todo)
    BY <1>1, <1>2, <1>t, <2>1 DEF PlanInv, Left
  <2>3. ~LossTask(Head(todo))
    <3> SUFFICES ASSUME LossTask(Head(todo))
                 PROVE  FALSE
      OBVIOUS
    <3>1. Head(todo).do = "refund" /\ ~Head(todo).sweep
      BY <1>5
    <3>2. ms[Head(todo).m] = "refunded"
      BY <1>4, <2>1, <3>1 DEF Moot, Swept
    <3>3. 1 \in 1..Len(todo) /\ Head(todo) = todo[1]
      BY <1>4, TailTasks
    <3> QED
      BY <2>2, <3>1, <3>2, <3>3 DEF Live, Settles, Settled
  <2>4. ~LossDue(p)
    BY <1>11, <2>3
  <2>5. CASE Head(todo).do # "slash"
    <3>1. ~LossDue(p)'
      BY <1>12, <2>1, <2>5
    <3> QED
      BY <1>7, <1>10, <2>1, <2>4, <3>1, PledgeKeeps DEF AllSettled, Settled
  <2>6. CASE Head(todo).do = "slash"
    <3>1. todo[2].do = "refund" /\ ~todo[2].sweep /\ 2 \in 1..Len(todo) /\ ~Head(todo).sweep
          /\ Tail(todo) # <<>> /\ LossTask(Head(Tail(todo)))
      BY <1>4, <2>6, LossTail
    <3>2. ~AllSettled
      <4>1. ~Settled(todo[2].m)
        BY <2>2, <3>1 DEF Live, Settles
      <4>2. todo[2].m \in Milestone
        BY <1>4, <3>1, TailTasks DEF Task
      <4> QED
        BY <4>1, <4>2 DEF AllSettled
    <3>3. stakeHold = None
      BY <1>4, <2>1, <2>6, <3>1 DEF Moot, Swept, Task
    <3>4. pledge # None => hold[pledge].state = "forfeited"
      BY <1>1, <1>2, <1>10, <3>2, <3>3, PledgeHold DEF PledgeInv
    <3>5. pledge # None => LostDispute
      BY <1>2, <1>10, <2>4, <3>4 DEF PledgeInv, OneRequest
    <3> QED
      BY <1>2, <1>7, <2>1, <3>4, <3>5 DEF PledgeInv, LostDispute
  <2> QED
    BY <2>5, <2>6
<1>14. CASE CaptureMilestone(p) \/ RefundMilestone(p)
  <2>1. /\ job[p].phase = "run" /\ Await(p, "sign") /\ UNCHANGED receipts
        /\ Settles(Current(p)) /\ ~Moot(p)
    BY <1>1, <1>14 DEF CaptureMilestone, RefundMilestone, Doing, Running, JobOK, Settles, booksVars
  <2>2. ~AllSettled
    <3>1. ~Settled(Current(p).m) /\ Current(p).m \in Milestone
      BY <1>1, <1>2, <1>4, <2>1, FreshTask DEF Task, Works
    <3> QED
      BY <3>1 DEF AllSettled
  <2>3. LossDue(p)' <=> LossDue(p)
    <3>1. job'[p].phase = "sign" /\ job'[p].todo = todo
      BY <1>6, <2>1
    <3> QED
      BY <1>2, <1>4, <1>11, <2>1, <3>1 DEF LossDue, Current, LossTask
  <2>4. ASSUME pledge # None
        PROVE  hold'[pledge] = hold[pledge]
    <3>m. PICK m \in Milestone : m = Current(p).m
      BY <1>4 DEF Task
    <3>1. PICK h \in HoldId : h = fundsHold[m]
      BY <1>1, <1>2, FundsNamed
    <3>2. OnlyHold(h)
      BY <1>1, <1>14, <3>m, <3>1, CaptureEffect, ReleaseEffect
      DEF CaptureMilestone, RefundMilestone
    <3> QED
      BY <1>1, <1>2, <2>4, <3>1, <3>2, PledgeHold DEF OnlyHold
  <2> QED
    BY <1>7, <1>10, <2>1, <2>2, <2>3, <2>4, PledgeKeeps
<1>15. CASE IssueReceipt(p)
  <2>1. BookReceipt(p) /\ Await(p, "rate") /\ job[p].phase = "sign"
    BY <1>15 DEF IssueReceipt, BookReceipt, Awaiting
  <2>2. /\ LostDispute' <=> LostDispute \/ LossTask(Head(todo))
        /\ UNCHANGED <<hold, ms>>
    BY <1>2, <1>4, <2>1, LossBooked
  <2>3. ~LossDue(p)'
    BY <1>6, <2>1 DEF LossDue
  <2>4. LossDue(p) <=> LossTask(Head(todo))
    BY <1>11, <2>1
  <2> QED
    BY <1>2, <1>7, <1>10, <2>2, <2>3, <2>4 DEF PledgeInv, OneRequest, AllSettled, Settled
<1>16. CASE ReturnStake(p)
  <2>1. /\ job[p].phase = "rate" /\ Proceed(p) /\ Head(todo).do # "slash"
        /\ UNCHANGED <<ms, receipts>>
        /\ IF StakeDue THEN W!Release(stakeHold) ELSE UNCHANGED hold
    BY <1>4, <1>16 DEF ReturnStake, Awaiting, walletVars, milestoneVars, booksVars
  <2>2. ~LossDue(p) /\ ~LossDue(p)'
    BY <1>11, <1>12, <2>1
  <2>3. CASE StakeDue
    <3>1. stakeHold # None /\ AllSettled /\ AllSettled'
      BY <2>1, <2>3 DEF StakeDue, AllSettled, Settled
    <3>2. pledge # None => pledge \in HoldId /\ stakeHold = pledge /\ hold[pledge].state = "active"
      BY <1>1, <1>2, <3>1, PledgeHold
    <3>3. pledge # None => hold'[pledge].state = "released"
      BY <1>1, <2>1, <2>3, <3>2, ReleaseEffect
    <3>4. pledge # None => ~LostDispute /\ ~LostDispute'
      BY <1>2, <1>10, <2>1, <3>2 DEF PledgeInv, LostDispute
    <3> QED
      BY <1>7, <2>2, <3>1, <3>3, <3>4 DEF PledgeInv, OneRequest
  <2>4. CASE ~StakeDue
    BY <1>7, <1>10, <2>1, <2>2, <2>4, PledgeKeeps DEF AllSettled, Settled
  <2> QED
    BY <2>3, <2>4
<1>17. CASE SlashProviderStake(p)
  <2>b. PICK burned : burned = Stake - (Stake * Price[Current(p).m]) \div Total
    OBVIOUS
  <2>1. /\ job[p].phase = "run" /\ Proceed(p) /\ Head(todo).do = "slash"
        /\ stakeHold # None /\ W!Forfeit(stakeHold, "payer", burned)
    BY <1>1, <1>4, <1>17, <2>b DEF SlashProviderStake, Doing, Running, Moot, JobOK
  <2>2. pledge # None => pledge \in HoldId /\ stakeHold = pledge
    BY <1>1, <1>2, <2>1, PledgeHold
  <2>3. pledge # None => hold'[pledge].state = "forfeited"
    BY <1>1, <2>1, <2>2, ForfeitEffect
  <2>4. LossDue(p)'
    <3>1. Tail(todo) # <<>> /\ LossTask(Head(Tail(todo)))
      BY <1>4, <2>1, LossTail
    <3> QED
      BY <1>2, <1>6, <2>1, <3>1 DEF LossDue, Current, LossTask
  <2> QED
    BY <1>7, <2>3, <2>4 DEF PledgeInv
<1>18. CASE ReturnBond(p) \/ Frivolous(p) \/ ForgetBond(p)
  <2>1. /\ UNCHANGED <<ms, receipts>> /\ Head(todo).do \in {"return", "frivolous"}
        /\ Proceed(p) \/ Await(p, "rate")
        /\ \/ UNCHANGED hold
           \/ bondHold # None /\ \/ W!Release(bondHold)
                                 \/ \E to \in Party : W!Forfeit(bondHold, to, 0)
    <3>1. CASE ReturnBond(p)
      BY <1>4, <3>1 DEF ReturnBond, Doing, Running, Moot, milestoneVars, booksVars
    <3>2. CASE Frivolous(p)
      <4>1. Other("payer") \in Party /\ Other("payee") \in Party
        BY DEF Other, Party
      <4>2. job[p].op = "resolve" => job[p].esc.agent \in Party
        BY <1>1 DEF JobOK, Fits, Escalation
      <4>3. /\ UNCHANGED <<ms, receipts>> /\ Head(todo).do \in {"return", "frivolous"}
            /\ Await(p, "rate")
        BY <1>4, <3>2 DEF Frivolous, Doing, Running, milestoneVars
      <4>4. \/ UNCHANGED hold
            \/ bondHold # None /\ \E to \in Party : W!Forfeit(bondHold, to, 0)
        BY <1>1, <3>2, <4>1, <4>2 DEF Frivolous, walletVars, Party
      <4> QED
        BY <4>3, <4>4
    <3>3. CASE ForgetBond(p)
      BY <1>4, <3>3 DEF ForgetBond, Awaiting, walletVars, milestoneVars, booksVars
    <3> QED
      BY <1>18, <3>1, <3>2, <3>3
  <2>2. ~LossTask(Head(todo)) /\ Head(todo).do # "slash"
    BY <1>5, <2>1
  <2>3. ~LossDue(p) /\ ~LossDue(p)'
    <3>1. Await(p, "rate") => ~LossDue(p)'
      BY <1>6 DEF LossDue
    <3> QED
      BY <1>11, <1>12, <2>1, <2>2, <3>1
  <2>4. ASSUME pledge # None
        PROVE  hold'[pledge] = hold[pledge]
    <3>1. pledge \in HoldId /\ bondHold # pledge
      BY <1>1, <1>2, <2>4, PledgeHold
    <3>2. CASE UNCHANGED hold
      BY <3>2
    <3>3. CASE ~UNCHANGED hold
      <4>1. bondHold \in HoldId
        BY <1>1, <2>1, <3>3 DEF TypeOK
      <4>2. OnlyHold(bondHold)
        BY <1>1, <2>1, <3>3, <4>1, ReleaseEffect, ForfeitEffect
      <4> QED
        BY <3>1, <4>2 DEF OnlyHold
    <3> QED
      BY <3>2, <3>3
  <2> QED
    BY <1>7, <1>10, <2>1, <2>3, <2>4, PledgeKeeps DEF AllSettled, Settled
<1> QED
  BY <1>3, <1>13, <1>14, <1>15, <1>16, <1>17, <1>18

(* Every step keeps the stake and the lost disputes together.              *)
LEMMA SlashStep ==
  ASSUME OneRequest, ~Redelivery, IInv, IInv', OneInv, BooksInv, SlashInv, [Next]_vars
  PROVE  SlashInv'
<1>1. /\ Shape /\ PlaceInv /\ MoneyInv /\ TypeOK /\ W!TypeOK
      /\ JobTypes /\ JobInv /\ job \in [Proc -> Job] /\ PledgeInv
  BY DEF IInv, Shape, TypeOK, JobTypes, SlashInv
<1>2. ASSUME NEW p \in Proc, Receive(p) \/ Begin(p) \/ Schedule(p)
      PROVE  SlashInv'
  <2>1. /\ Stored' = Stored /\ UNCHANGED <<pledge, receipts>>
        /\ Stored /\ pledge # None => hold'[pledge] = hold[pledge]
    BY <1>1, <1>2, PledgeBegins
  <2>2. /\ ~Works(p) /\ (Works(p)' => Clean(job'[p].todo))
        /\ AllSettled => AllSettled'
    BY <1>1, <1>2, CleanBegins
  <2>3. ~LossDue(p) /\ ~LossDue(p)'
    BY <2>2 DEF LossDue, Clean, Current, LossTask
  <2>4. PledgeInv'
    BY <1>1, <2>1, <2>2, <2>3, PledgeKeeps
  <2>5. \A q \in Proc : Works(q)' => LossOrder(job'[q].todo)
    BY <2>2 DEF OneRequest, Clean
  <2> QED
    BY <2>4, <2>5 DEF SlashInv, LossOrder, LossTask
<1>3. ASSUME NEW p \in Proc, Continue(p), job[p].op = "open"
      PROVE  SlashInv'
  <2>1. job'[p].op \in {"open", "none"} /\ ~Stored /\ (Store(p) \/ ~Store(p))
    BY <1>1, <1>3, OpenCases
  <2>2. ~Works(p)' /\ ~LossDue(p)'
    <3>1. Shape'
      BY DEF IInv, Shape
    <3>2. JobOK(p)' /\ job'[p] \in Job
      BY <3>1 DEF Shape, TypeOK, JobInv
    <3>3. job'[p].op = "none" => job'[p].phase = "idle"
      BY <3>2 DEF JobOK, Fits, Idle
    <3> QED
      BY <2>1, <3>3 DEF Works, LossDue
  <2>3. \A q \in Proc : ~Works(q)' /\ ~LossDue(q)'
    BY <2>2 DEF OneRequest
  <2>4. CASE Store(p)
    <3>1. pledge' = job[p].stake /\ UNCHANGED <<hold, receipts>> /\ job[p] \in Job
      BY <1>1, <2>4 DEF Store, walletVars
    <3>2. Placed(p) /\ receipts = [m \in Milestone |-> <<>>]
      BY <1>1, <1>3, <2>1 DEF PlaceInv, BooksInv
    <3>3. pledge' # None => hold'[pledge'].state = "active"
      BY <3>1, <3>2 DEF Placed, W!Active
    <3>4. ~LostDispute'
      BY <3>1, <3>2 DEF LostDispute
    <3>5. PledgeInv'
      BY <2>3, <3>3, <3>4 DEF PledgeInv
    <3> QED
      BY <2>3, <3>5 DEF SlashInv
  <2>5. CASE ~Store(p)
    <3>1. ~CaptureMilestone(p) /\ ~RefundMilestone(p)
      <4>1. job[p].todo # <<>> => Current(p).do \notin {"capture", "refund"}
        BY <1>1, <1>3, Working
      <4> QED
        BY <4>1 DEF CaptureMilestone, RefundMilestone, Doing, Running
    <3>2. ~Stored'
      BY <1>1, <1>3, <2>1, <2>5, <3>1, OtherFunds
    <3> QED
      BY <2>3, <3>2 DEF SlashInv, PledgeInv
  <2> QED
    BY <2>4, <2>5
<1>4. ASSUME NEW p \in Proc, Continue(p), job[p].op # "open", EndStep(p)
      PROVE  SlashInv'
  <2>1. job'[p] = Idle /\ Idle.phase = "idle" /\ UNCHANGED ms /\ job[p].todo = <<>>
    BY <1>1, <1>4, EndCases DEF EndStep, Last
  <2>2. Finish(p) \/ FinishResolve(p)
    <3>1. ~Throw(p) /\ ~Store(p)
      BY <1>1, <1>4, NoThrow DEF Store
    <3>2. job[p].phase = "run"
      BY <1>4 DEF EndStep
    <3> QED
      BY <1>4, <2>1, <3>1, <3>2
      DEF Continue, LockFunds, LockStake, Skip, CaptureMilestone, RefundMilestone, BookReceipt,
          IssueReceipt, ReceiptClashes, ReturnStake, SlashProviderStake, ReturnBond, Frivolous,
          ForgetBond, Doing, Running, Awaiting
  <2>3. UNCHANGED <<hold, pledge, receipts>>
    BY <2>2 DEF Finish, FinishResolve, walletVars, booksVars
  <2>4. Stored' = Stored
    <3>1. ~CaptureMilestone(p) /\ ~RefundMilestone(p) /\ ~Store(p)
      BY <1>4, <2>1 DEF CaptureMilestone, RefundMilestone, Doing, Running, Store
    <3> QED
      BY <1>1, <1>4, <3>1, OtherFunds
  <2>5. ~LossDue(p) /\ ~LossDue(p)' /\ ~Works(p)'
    BY <2>1 DEF LossDue, Works
  <2>6. PledgeInv'
    BY <1>1, <2>1, <2>3, <2>4, <2>5, PledgeKeeps DEF AllSettled, Settled
  <2> QED
    BY <2>5, <2>6 DEF SlashInv, OneRequest
<1>5. CASE \E p \in Proc : Receive(p) \/ Begin(p) \/ Continue(p) \/ Schedule(p)
  BY <1>1, <1>2, <1>3, <1>4, <1>5, SlashWork, SlashClash
<1>6. CASE \/ \E id \in ApprovalId, decision \in A!Decision : Rule(id, decision)
           \/ Tick \/ UNCHANGED vars
  <2>1. UNCHANGED <<hold, job, ms, receipts, pledge, state>>
    BY <1>6 DEF Rule, Tick, vars, walletVars, recordVars, milestoneVars, booksVars
  <2>2. \A p \in Proc : /\ LossDue(p)' <=> LossDue(p)
                        /\ Works(p)' <=> Works(p)
                        /\ LossOrder(job'[p].todo) <=> LossOrder(job[p].todo)
    BY <2>1 DEF LossDue, Works, Current, LossOrder
  <2>3. PledgeInv'
    BY <1>1, <2>1, <2>2 DEF PledgeInv, Stored, LostDispute, AllSettled, Settled
  <2> QED
    BY <2>1, <2>2, <2>3 DEF SlashInv, LossOrder
<1> QED
  BY <1>5, <1>6 DEF Next

-----------------------------------------------------------------------------
(* One request at a time, every dispute escalated: nothing stays locked.   *)

(* What will settle the milestone is ahead until its turn comes.           *)
LEMMA CoveredTail ==
  ASSUME NEW todo \in Seq(Task), todo # <<>>, NEW m, Covered(todo, m),
         ~(Settles(Head(todo)) /\ Head(todo).m = m /\ (Head(todo).sweep => Unsettled(m)))
  PROVE  Covered(Tail(todo), m)
<1>1. PICK i \in 1..Len(todo) :
        Settles(todo[i]) /\ todo[i].m = m /\ (todo[i].sweep => Unsettled(m))
  BY DEF Covered
<1>2. i # 1
  BY <1>1, TailTasks
<1>3. PICK h \in 1..Len(Tail(todo)) : h + 1 = i
  BY <1>2, TailTasks
<1>4. Tail(todo)[h] = todo[i]
  BY <1>3, TailTasks
<1> QED
  BY <1>1, <1>4 DEF Covered

(* So is what will see to the bond.                                        *)
LEMMA BondTail ==
  ASSUME NEW todo \in Seq(Task), todo # <<>>, BondAhead(todo),
         ~(Head(todo).do \in {"return", "frivolous"} /\ ~Head(todo).sweep)
  PROVE  BondAhead(Tail(todo))
<1>1. PICK i \in 1..Len(todo) : todo[i].do \in {"return", "frivolous"} /\ ~todo[i].sweep
  BY DEF BondAhead
<1>2. i # 1
  BY <1>1, TailTasks
<1>3. PICK h \in 1..Len(Tail(todo)) : h + 1 = i
  BY <1>2, TailTasks
<1>4. Tail(todo)[h] = todo[i]
  BY <1>3, TailTasks
<1> QED
  BY <1>1, <1>4 DEF BondAhead

(* Both parts of a plan are ahead.                                         *)
LEMMA CoveredConcat ==
  ASSUME NEW s \in Seq(Task), NEW t \in Seq(Task)
  PROVE  /\ \A m : Covered(s, m) \/ Covered(t, m) => Covered(s \o t, m)
         /\ BondAhead(s) => BondAhead(s \o t)
<1>1. /\ Len(s) \in Nat /\ Len(t) \in Nat /\ Len(s \o t) = Len(s) + Len(t)
      /\ \A i \in 1..(Len(s) + Len(t)) : (s \o t)[i] =
            IF i <= Len(s) THEN s[i] ELSE t[i - Len(s)]
  BY ConcatProperties, LenProperties
<1>2. \A i \in 1..Len(s) : i \in 1..Len(s \o t) /\ (s \o t)[i] = s[i]
  BY <1>1
<1>3. ASSUME NEW i \in 1..Len(t)
      PROVE  \E h \in 1..Len(s \o t) : (s \o t)[h] = t[i]
  <2>1. /\ Len(s) + i \in 1..(Len(s) + Len(t)) /\ ~(Len(s) + i <= Len(s))
        /\ (Len(s) + i) - Len(s) = i
    BY <1>1
  <2> QED
    BY <1>1, <2>1
<1>4. ASSUME NEW m, Covered(s, m) \/ Covered(t, m)
      PROVE  Covered(s \o t, m)
  <2>1. CASE Covered(s, m)
    BY <1>2, <2>1 DEF Covered
  <2>2. CASE Covered(t, m)
    BY <1>3, <2>2 DEF Covered
  <2> QED
    BY <1>4, <2>1, <2>2
<1>5. BondAhead(s) => BondAhead(s \o t)
  BY <1>2 DEF BondAhead
<1> QED
  BY <1>4, <1>5

(* A sweep settles what it finds unsettled.                                *)
LEMMA CoveredSweep ==
  ASSUME NEW milestones, NEW m \in milestones \cap Milestone, Unsettled(m)
  PROVE  Covered(FinalSweep(milestones), m)
<1>t. PICK todo : todo = FinalSweep(milestones)
  OBVIOUS
<1>1. Refunds \in [Milestone -> WorkTask] /\ \A n \in Milestone : Refunds[n].m = n /\ Refunds[n].do = "refund"
  BY LoopTasks DEF Refunds, RefundTask, Do
<1>2. AheadFor(todo, "refund", m, TRUE)
  BY <1>1, <1>t, AheadSweep DEF FinalSweep
<1> QED
  BY <1>2, <1>t DEF AheadFor, Covered, Settles

(* A timeout settles all that is pending.                                  *)
LEMMA CoveredTimeout ==
  ASSUME NEW m \in Pending
  PROVE  Covered(TimeoutTasks, m)
<1>a. PICK tasks : tasks = IF OnTimeout = "refund" THEN Refunds ELSE Captures
  OBVIOUS
<1>b. PICK todo : todo = ForEach(Pending, tasks)
  OBVIOUS
<1>1. tasks \in [Milestone -> WorkTask] /\ m \in Milestone
  BY <1>a, LoopTasks DEF Pending
<1>2. \A n \in Milestone : Settles(tasks[n]) /\ tasks[n].m = n /\ ~tasks[n].sweep
  BY <1>a DEF Refunds, Captures, RefundTask, CaptureTask, Do, Settles
<1>3. todo \in [Milestone -> WorkTask]
  BY <1>1, <1>b, TaskTypes DEF ForEach
<1>4. 1..Len(todo) = Milestone
  BY <1>3, PerMilestone DEF Milestone
<1>5. todo[m] = tasks[m]
  BY <1>1, <1>b DEF ForEach
<1>6. TimeoutTasks = todo
  BY <1>a, <1>b DEF TimeoutTasks
<1> QED
  BY <1>1, <1>2, <1>4, <1>5, <1>6 DEF Covered

(* A ruling settles what it was asked about and sweeps the rest; that of a *)
(* dispute sees to the bond.                                               *)
LEMMA CoveredSettlement ==
  ASSUME NEW esc \in Escalation, NEW upheld \in BOOLEAN,
         esc.kind = "dispute" => \E n \in Milestone : esc.milestones = {n}
  PROVE  /\ \A m \in Milestone : Unsettled(m) \/ (esc.kind = "dispute" /\ m \in esc.milestones) =>
              Covered(SettlementTasks(esc, upheld), m)
         /\ esc.kind = "dispute" => BondAhead(SettlementTasks(esc, upheld))
<1>1. CASE esc.kind = "timeout"
  <2>t. PICK tasks \in {Captures, Refunds} : tasks = IF upheld THEN Captures ELSE Refunds
    OBVIOUS
  <2>a. PICK s : s = SweepEach(esc.milestones, tasks)
    OBVIOUS
  <2>b. PICK t : t = FinalSweep(Milestone)
    OBVIOUS
  <2>1. SettlementTasks(esc, upheld) = s \o t
    BY <1>1, <2>a, <2>b, <2>t DEF SettlementTasks
  <2>2. s \in Seq(Task) /\ t \in Seq(Task)
    BY <2>a, <2>b, LoopTasks, SweepTasks, FinalSweepPlan
  <2>3. \A m \in Milestone : Unsettled(m) => Covered(t, m)
    BY <2>b, CoveredSweep
  <2> QED
    BY <1>1, <2>1, <2>2, <2>3, CoveredConcat
<1>2. CASE esc.kind # "timeout"
  <2>1. esc.kind = "dispute"
    BY <1>2 DEF Escalation
  <2>2. PICK n \in Milestone : esc.milestones = {n}
    BY <2>1
  <2>p. PICK payee \in BOOLEAN : payee = (Winner(esc, upheld) = "payee")
    OBVIOUS
  <2>s. PICK s : s = RulingTasks(n, upheld, payee)
    OBVIOUS
  <2>t. PICK t : t = FinalSweep(Milestone \ {n})
    OBVIOUS
  <2>3. SettlementTasks(esc, upheld) = s \o t
    <3>1. SettlementTasks(esc, upheld) =
            RulingTasks(n, upheld, Winner(esc, upheld) = "payee") \o FinalSweep(Milestone \ {n})
      BY <2>1, <2>2, DisputeRuling
    <3> QED
      BY <2>p, <2>s, <2>t, <3>1
  <2>4. s \in Seq(Task) /\ t \in Seq(Task)
    BY <2>s, <2>t, RulingList, FinalSweepPlan
  <2>5. Covered(s, n)
    <3>w. PICK what : what = IF payee THEN "capture" ELSE "refund"
      OBVIOUS
    <3>1. AheadFor(s, what, n, FALSE)
      BY <2>s, <3>w, AheadRuling
    <3> QED
      BY <3>w, <3>1 DEF AheadFor, Covered, Settles
  <2>6. \A m \in Milestone \ {n} : Unsettled(m) => Covered(t, m)
    BY <2>t, CoveredSweep
  <2>7. BondAhead(s)
    <3>b. PICK bond : bond = Do(IF upheld THEN "return" ELSE "frivolous", n)
      OBVIOUS
    <3>1. bond.do \in {"return", "frivolous"} /\ ~bond.sweep
      BY <3>b DEF Do
    <3>2. /\ payee => Len(s) = 2 /\ s[2] = bond
          /\ ~payee => Len(s) = 3 /\ s[3] = bond
      BY <2>s, <3>b, RulingList
    <3>3. \E i \in 1..Len(s) : s[i] = bond
      <4>1. CASE payee
        <5>1. Len(s) = 2 /\ s[2] = bond
          BY <3>2, <4>1
        <5> QED
          BY <5>1
      <4>2. CASE ~payee
        <5>1. Len(s) = 3 /\ s[3] = bond
          BY <3>2, <4>2
        <5> QED
          BY <5>1
      <4> QED
        BY <4>1, <4>2
    <3> QED
      BY <3>1, <3>3 DEF BondAhead
  <2>8. \A m \in Milestone : Covered(s, m) \/ Covered(t, m) => Covered(s \o t, m)
    BY <2>4, CoveredConcat
  <2>9. BondAhead(s \o t)
    BY <2>4, <2>7, CoveredConcat
  <2> QED
    BY <2>2, <2>3, <2>5, <2>6, <2>8, <2>9
<1> QED
  BY <1>1, <1>2

(* What covers a milestone does so while its state stays.                  *)
LEMMA CoveredStays ==
  ASSUME NEW todo, NEW m, ms'[m] = ms[m], Covered(todo, m)
  PROVE  Covered(todo, m)'
BY DEF Covered, Unsettled, Settles

(* A step of a request at work.                                            *)
LEMMA CompleteWork ==
  ASSUME OneRequest, Shape, MoneyInv, OneInv, CompleteInv, NEW p \in Proc, Continue(p),
         job[p].op # "open", ~EndStep(p), ~ReceiptClashes(p)
  PROVE  CompleteInv'
<1>1. /\ TypeOK /\ JobTypes /\ JobInv /\ job \in [Proc -> Job] /\ job[p] \in Job
      /\ JobOK(p) /\ StageInv /\ ms \in [Milestone -> MilestoneState]
      /\ DisputeInv /\ CoverInv /\ EndedInv
  BY DEF Shape, TypeOK, JobTypes, JobInv, OneInv, CompleteInv
<1>2. /\ Works(p) /\ Works(p)' /\ Stored /\ job[p].todo # <<>>
      /\ SettleStep(p) \/ PassStep(p) \/ ResumeStep(p)
      /\ job'[p].op = job[p].op /\ job'[p].esc = job[p].esc
      /\ \/ job[p].phase # "run" /\ Left(p)' = Left(p)
         \/ job[p].phase = "run" /\ Left(p)' = Tail(job[p].todo) /\ Left(p) = job[p].todo
  BY WorkCases
<1>3. \/ Skip(p) \/ CaptureMilestone(p) \/ RefundMilestone(p) \/ IssueReceipt(p)
      \/ ReturnStake(p) \/ SlashProviderStake(p) \/ ReturnBond(p) \/ Frivolous(p)
      \/ ForgetBond(p)
  BY WorkActions
<1>t. PICK todo \in Seq(Task) : todo = job[p].todo
  BY <1>1 DEF Job
<1>4. todo # <<>> /\ Current(p) = Head(todo) /\ Head(todo) \in Task
  BY <1>1, <1>2, <1>t, Working DEF Current
<1>5. UNCHANGED <<state, escalation>> /\ bondHold' \in {bondHold, None}
  BY <1>3 DEF Skip, CaptureMilestone, RefundMilestone, BookReceipt, IssueReceipt, ReturnStake,
              SlashProviderStake, ReturnBond, Frivolous, ForgetBond, recordVars, holdVars
<1>6. \/ UNCHANGED ms
      \/ SettleStep(p) /\ \E s \in {"released", "refunded"} : ms' = [ms EXCEPT ![Head(todo).m] = s]
  BY <1>2, <1>4 DEF SettleStep, PassStep, ResumeStep
<1>7. DisputeInv'
  <2>1. job[p].op # "dispute"
    BY <1>1, <1>2 DEF DisputeInv, Works
  <2>2. \A m \in Milestone : ms'[m] = "disputed" => ms[m] = "disputed"
    BY <1>1, <1>6
  <2>3. ASSUME bondHold' # None, Resolving(p)'
        PROVE  BondAhead(job'[p].todo)
    <3>1. bondHold # None /\ job[p].op = "resolve" /\ Resolving(p)
      BY <1>2, <1>5, <2>3 DEF Resolving, Works
    <3>2. BondAhead(todo)
      BY <1>1, <1>t, <3>1 DEF DisputeInv
    <3>3. CASE ~Proceed(p)
      <4>1. Await(p, "sign") \/ Await(p, "rate")
        BY <1>2, <3>3 DEF SettleStep, PassStep, ResumeStep
      <4>2. job'[p].todo = todo
        BY <1>1, <1>t, <4>1 DEF Await, Job
      <4> QED
        BY <3>2, <4>2
    <3>4. CASE Proceed(p)
      <4>1. ~(Head(todo).do \in {"return", "frivolous"} /\ ~Head(todo).sweep)
        <5>1. CASE Skip(p)
          BY <1>4, <3>1, <5>1 DEF Skip, Moot, Swept
        <5>2. CASE ReturnStake(p) \/ SlashProviderStake(p)
          BY <1>4, <5>2 DEF ReturnStake, SlashProviderStake, Doing
        <5>3. CASE ReturnBond(p) \/ ForgetBond(p)
          BY <2>3, <3>1, <5>3 DEF ReturnBond, ForgetBond
        <5>4. CASE IssueReceipt(p) \/ CaptureMilestone(p) \/ RefundMilestone(p) \/ Frivolous(p)
          <6>1. Await(p, "rate") \/ Await(p, "sign")
            BY <5>4 DEF IssueReceipt, CaptureMilestone, RefundMilestone, Frivolous
          <6>2. job'[p].phase = "run"
            BY <1>1, <3>4 DEF Proceed, Rest, Job
          <6>3. \A phase : Await(p, phase) => job'[p].phase = phase
            BY <1>1 DEF Await, Job
          <6> QED
            BY <6>1, <6>2, <6>3
        <5> QED
          BY <1>3, <5>1, <5>2, <5>3, <5>4
      <4>2. BondAhead(Tail(todo))
        BY <1>4, <3>2, <4>1, BondTail
      <4>3. job'[p].todo = Tail(todo)
        BY <1>1, <1>t, <3>4 DEF Proceed, Rest, Job
      <4> QED
        BY <4>2, <4>3
    <3> QED
      BY <3>3, <3>4
  <2>4. \A q \in Proc : Resolving(q)' => (bondHold' # None => BondAhead(job'[q].todo))
    BY <2>3 DEF OneRequest
  <2> QED
    BY <1>1, <1>2, <1>5, <2>1, <2>2, <2>4 DEF DisputeInv, OneRequest, Stored, BondAhead
<1>8. CoverInv'
  <2> SUFFICES ASSUME job'[p].op \in {"timeout", "resolve"}, NEW m \in Milestone
               PROVE  Settled(m)' \/ Covered(Left(p), m)'
    BY DEF OneRequest, CoverInv
  <2>1. Settled(m) \/ Covered(Left(p), m)
    BY <1>1, <1>2 DEF CoverInv
  <2>2. ms'[m] = ms[m] \/ Settled(m)'
    BY <1>1, <1>6 DEF Settled
  <2>3. CASE Settled(m)
    BY <2>2, <2>3 DEF Settled
  <2>5. PICK left : left = Left(p)'
    OBVIOUS
  <2>4. ASSUME ~Settled(m), ms'[m] = ms[m]
        PROVE  Covered(left, m)
    <3>1. CASE job[p].phase # "run"
      BY <1>2, <2>1, <2>4, <2>5, <3>1
    <3>2. CASE job[p].phase = "run"
      <4>1. Covered(todo, m)
        BY <1>2, <1>t, <2>1, <2>4, <3>2
      <4>2. ~(Settles(Head(todo)) /\ Head(todo).m = m /\ (Head(todo).sweep => Unsettled(m)))
        <5>1. CASE SettleStep(p)
          <6> SUFFICES ASSUME Head(todo).m = m
                       PROVE  Settled(m)'
            BY <2>4 DEF Settled
          <6> QED
            BY <1>1, <1>4, <5>1 DEF SettleStep, Settled
        <5>2. CASE PassStep(p)
          BY <1>4, <2>4, <5>2 DEF PassStep, Moot, Swept, Settles, Settled
        <5>3. CASE ResumeStep(p)
          BY <3>2, <5>3 DEF ResumeStep
        <5> QED
          BY <1>2, <5>1, <5>2, <5>3
      <4>3. Covered(Tail(todo), m)
        BY <1>4, <4>1, <4>2, CoveredTail
      <4> QED
        BY <1>2, <1>t, <2>5, <3>2, <4>3
    <3> QED
      BY <3>1, <3>2
  <2>6. CASE ~Settled(m) /\ ms'[m] = ms[m]
    <3>1. Covered(left, m)
      BY <2>4, <2>6
    <3>2. Covered(left, m)'
      BY <2>6, <3>1, CoveredStays
    <3> QED
      BY <2>5, <3>2
  <2> QED
    BY <2>2, <2>3, <2>6
<1>9. EndedInv'
  <2>1. state \notin Terminal
    <3>1. job[p] # Idle
      BY <1>1, <1>2, Working DEF Idle
    <3> QED
      BY <1>1, <3>1 DEF StageInv, Quiet
  <2> QED
    BY <1>5, <2>1 DEF EndedInv
<1> QED
  BY <1>7, <1>8, <1>9 DEF CompleteInv

(* What neither disputes, nor ends, nor works on an ending keeps it.       *)
LEMMA CompleteKeeps ==
  ASSUME OneRequest, NEW p \in Proc, CompleteInv, UNCHANGED <<state, escalation, bondHold>>,
         \A m \in Milestone : ms'[m] = "disputed" => ms[m] = "disputed",
         state \in Terminal => UNCHANGED ms,
         ~Resolving(p)', Works(p)' => job'[p].op \notin {"timeout", "resolve"},
         job'[p].op = "dispute" => job'[p].phase = "verify"
  PROVE  CompleteInv'
<1>1. DisputeInv'
  BY DEF CompleteInv, DisputeInv, Stored, OneRequest
<1>2. CoverInv'
  BY DEF CoverInv, OneRequest
<1>3. EndedInv'
  BY DEF CompleteInv, EndedInv, AllSettled, Settled
<1> QED
  BY <1>1, <1>2, <1>3 DEF CompleteInv

(* An open escrow has neither a dispute nor a bond.                        *)
LEMMA OpenPlain ==
  ASSUME OneInv, DisputeInv, state = "open"
  PROVE  /\ Stored /\ state \notin Terminal /\ bondHold = None /\ escalation = NoEscalation
         /\ \A m \in Milestone : ms[m] # "disputed"
<1>1. Stored /\ state \notin Terminal /\ escalation = NoEscalation
  BY DEF Stored, Terminal, OneInv, StageInv
<1> QED
  BY <1>1 DEF DisputeInv

(* A request that comes in, starts or times out: what it parks awaits its  *)
(* ruling, what it ends it settles.                                        *)
LEMMA CompleteBegin ==
  ASSUME OneRequest, AllJudged, Shape, MoneyInv, OneInv, CompleteInv, NEW p \in Proc,
         Receive(p) \/ Begin(p) \/ Schedule(p)
  PROVE  CompleteInv'
<1>1. /\ TypeOK /\ job \in [Proc -> Job] /\ job[p] \in Job /\ JobOK(p)
      /\ StageInv /\ StageOf(p) /\ RulingInv /\ DisputeInv /\ CoverInv /\ EndedInv
      /\ ms \in [Milestone -> MilestoneState]
  BY DEF Shape, TypeOK, JobInv, OneInv, StageInv, CompleteInv
<1>2. PICK m \in Milestone : m = job[p].m
  BY <1>1 DEF Job
<1>3. ASSUME NEW todo, Run(p, todo)
      PROVE  /\ job'[p].op = job[p].op /\ job'[p].phase = "run" /\ job'[p].todo = todo
             /\ job'[p].esc = job[p].esc
  BY <1>1, <1>3 DEF Run, Job
<1>4. End(p) => job'[p] = Idle /\ Idle.op = "none" /\ Idle.phase = "idle"
  BY <1>1 DEF End, Idle
<1>5. CASE Receive(p)
  <2>1. /\ job'[p].phase = "verify" /\ UNCHANGED <<ms, escalation, state>>
        /\ job'[p].op \in {"open", "deliver", "accept", "dispute", "resolve"}
    BY <1>5, ReceiveChecks
  <2>2. UNCHANGED bondHold
    BY <1>5 DEF Receive, RequestOpen, RequestDeliver, RequestAccept, RequestDispute,
                RequestResolve, Request, recordVars, holdVars
  <2> QED
    BY <2>1, <2>2, CompleteKeeps DEF Works, Resolving
<1>6. CASE Open(p) \/ Accept(p)
  <2>1. /\ job[p].op \in {"open", "accept"} /\ UNCHANGED <<ms, escalation, state, bondHold>>
        /\ \E todo : Run(p, todo)
    BY <1>6 DEF Open, Accept, Verified, recordVars, milestoneVars, holdVars
  <2>2. job'[p].op \in {"open", "accept"}
    BY <1>3, <2>1
  <2> QED
    BY <2>1, <2>2, CompleteKeeps DEF Resolving
<1>7. CASE Deliver(p)
  <2>1. /\ job[p].op = "deliver" /\ ms' = [ms EXCEPT ![m] = "delivered"]
        /\ UNCHANGED <<escalation, state, bondHold>> /\ \E todo : Run(p, todo)
    BY <1>2, <1>7 DEF Deliver, Verified, holdVars
  <2>2. job'[p].op = "deliver"
    BY <1>3, <2>1
  <2>3. state \notin Terminal
    BY <1>1, <2>1 DEF StageOf, Terminal
  <2>4. \A n \in Milestone : ms'[n] = "disputed" => ms[n] = "disputed"
    BY <1>1, <2>1
  <2> QED
    BY <2>1, <2>2, <2>3, <2>4, CompleteKeeps DEF Resolving
<1>8. CASE DisputeDecided(p)
  <2>1. ObjectivePass(m, result[m]) # "subjective"
    BY <1>2, <1>8 DEF DisputeDecided
  <2>2. Acceptance[m] = "judged"
    BY DEF AllJudged
  <2> QED
    BY <2>1, <2>2 DEF ObjectivePass
<1>9. CASE DisputeEscalated(p)
  <2>1. /\ job[p].op = "dispute" /\ job[p].phase = "verify" /\ state' = "disputed"
        /\ ms' = [ms EXCEPT ![m] = "disputed"] /\ End(p)
        /\ Escalate("dispute", job[p].by, {m})
    BY <1>2, <1>9 DEF DisputeEscalated, Verified
  <2>2. state = "open"
    BY <1>1, <2>1 DEF StageOf
  <2>3. \A n \in Milestone : ms[n] # "disputed"
    BY <1>1, <2>2, OpenPlain
  <2>4. escalation' # NoEscalation /\ escalation'.kind = "dispute" /\ escalation'.milestones = {m}
    BY <1>1, <2>1, EscalateStatus
  <2>5. \A n \in Milestone : ms'[n] = "disputed" => n = m
    BY <1>1, <2>1, <2>3
  <2>6. DisputeInv'
    BY <1>4, <2>1, <2>4, <2>5 DEF DisputeInv, Resolving, OneRequest
  <2>7. CoverInv' /\ EndedInv'
    BY <1>4, <2>1 DEF CoverInv, EndedInv, Terminal, OneRequest
  <2> QED
    BY <2>6, <2>7 DEF CompleteInv
<1>10. CASE Resolve(p)
  <2>e. PICK esc : esc = job[p].esc
    OBVIOUS
  <2>u. PICK upheld \in BOOLEAN : upheld = (approval[esc.id].decision = "approved")
    OBVIOUS
  <2>t. PICK todo : todo = SettlementTasks(esc, upheld)
    OBVIOUS
  <2>1. /\ job[p].op = "resolve" /\ Run(p, todo) /\ UNCHANGED <<ms, escalation, state, bondHold>>
    BY <1>10, <2>e, <2>u, <2>t DEF Resolve, Verified, recordVars, milestoneVars, holdVars
  <2>2. esc = escalation /\ esc \in Escalation /\ esc # NoEscalation
    BY <1>1, <2>1, <2>e DEF StageOf, JobOK, Fits
  <2>3. esc.kind = "dispute" => \E n \in Milestone : esc.milestones = {n}
    BY <1>1, <2>2 DEF RulingInv
  <2>4. /\ \A n \in Milestone : Unsettled(n) \/ (esc.kind = "dispute" /\ n \in esc.milestones) =>
             Covered(todo, n)
        /\ esc.kind = "dispute" => BondAhead(todo)
    BY <2>2, <2>3, <2>t, CoveredSettlement
  <2>5. job'[p].op = "resolve" /\ job'[p].phase = "run" /\ job'[p].todo = todo
    BY <1>3, <2>1
  <2>6. Left(p)' = todo
    BY <2>5 DEF Left
  <2>7. DisputeInv'
    <3>1. bondHold' # None => BondAhead(job'[p].todo)
      BY <1>1, <2>1, <2>2, <2>4, <2>5 DEF DisputeInv
    <3> QED
      BY <1>1, <2>1, <2>5, <3>1 DEF DisputeInv, OneRequest, Stored
  <2>8. ASSUME Stored, NEW n \in Milestone
        PROVE  Settled(n)' \/ Covered(Left(p), n)'
    <3>1. CASE Settled(n)
      BY <2>1, <3>1 DEF Settled
    <3>2. CASE ~Settled(n)
      <4>1. Unsettled(n) \/ ms[n] = "disputed"
        BY <1>1, <3>2 DEF Settled, Unsettled, MilestoneState
      <4>2. Covered(todo, n)
        BY <1>1, <2>2, <2>4, <2>8, <4>1 DEF DisputeInv
      <4>3. Covered(todo, n)'
        BY <2>1, <4>2, CoveredStays
      <4> QED
        BY <2>6, <4>3
    <3> QED
      BY <3>1, <3>2
  <2>9. Stored
    BY <1>1, <2>1 DEF JobOK
  <2>10. CoverInv'
    BY <2>8, <2>9 DEF CoverInv, OneRequest
  <2>11. EndedInv'
    BY <1>1, <2>1 DEF EndedInv, AllSettled, Settled
  <2> QED
    BY <2>7, <2>10, <2>11 DEF CompleteInv
<1>11. CASE Reject(p)
  <2>1. UNCHANGED <<ms, escalation, state, bondHold>> /\ End(p)
    BY <1>11 DEF Reject, recordVars, milestoneVars, holdVars
  <2> QED
    BY <1>4, <2>1, CompleteKeeps DEF Works, Resolving
<1>12. CASE Schedule(p)
  <2>1. /\ state = "open" /\ UNCHANGED <<ms, bondHold>> /\ job[p] = Idle
        /\ Idle.op = "none" /\ Idle.phase = "idle"
    BY <1>1, <1>12 DEF Schedule, TimeoutEscalated, Timeout, Openish, NonActionable, Free,
                       TypeOK, EscrowState, Idle, recordVars, milestoneVars, holdVars
  <2>2. /\ Stored /\ state \notin Terminal /\ bondHold = None
        /\ \A n \in Milestone : ms[n] # "disputed"
    BY <1>1, <2>1, OpenPlain
  <2>3. CASE TimeoutEscalated(p)
    <3>1. state' = "disputed" /\ UNCHANGED job
      BY <2>3 DEF TimeoutEscalated
    <3>2. DisputeInv'
      BY <2>1, <2>2, <3>1 DEF DisputeInv, OneRequest
    <3>3. CoverInv' /\ EndedInv'
      BY <2>1, <3>1 DEF CoverInv, EndedInv, Terminal, OneRequest
    <3> QED
      BY <3>2, <3>3 DEF CompleteInv
  <2>4. CASE Timeout(p)
    <3>t. PICK todo : todo = TimeoutTasks
      OBVIOUS
    <3> DEFINE j == [Idle EXCEPT !.op = "timeout", !.phase = "run", !.todo = todo]
    <3>1. j.op = "timeout" /\ j.phase = "run" /\ j.todo = todo
      BY DEF Idle
    <3>2. job' = [job EXCEPT ![p] = j] /\ UNCHANGED <<state, escalation>>
      BY <2>4, <3>t DEF Timeout, recordVars
    <3> HIDE DEF j
    <3>3. job'[p].op = "timeout" /\ job'[p].phase = "run" /\ job'[p].todo = todo
      BY <1>1, <3>1, <3>2
    <3>4. Left(p)' = todo
      BY <3>3 DEF Left
    <3>5. ASSUME NEW n \in Milestone
          PROVE  Settled(n)' \/ Covered(Left(p), n)'
      <4>1. CASE Settled(n)
        BY <2>1, <4>1 DEF Settled
      <4>2. CASE ~Settled(n)
        <5>1. n \in Pending
          BY <1>1, <2>2, <4>2 DEF Settled, Unsettled, MilestoneState, Pending
        <5>2. Covered(todo, n)
          BY <3>t, <5>1, CoveredTimeout
        <5>3. Covered(todo, n)'
          BY <2>1, <5>2, CoveredStays
        <5> QED
          BY <3>4, <5>3
      <4> QED
        BY <4>1, <4>2
    <3>6. DisputeInv'
      BY <2>1, <2>2, <3>3 DEF DisputeInv, OneRequest, Resolving
    <3>7. CoverInv'
      BY <3>5 DEF CoverInv, OneRequest
    <3>8. EndedInv'
      BY <2>2, <3>2 DEF EndedInv
    <3> QED
      BY <3>6, <3>7, <3>8 DEF CompleteInv
  <2> QED
    BY <1>12, <2>3, <2>4 DEF Schedule
<1> QED
  BY <1>5, <1>6, <1>7, <1>8, <1>9, <1>10, <1>11, <1>12 DEF Begin

(* The opening disputes nothing.                                           *)
LEMMA CompleteOpens ==
  ASSUME OneRequest, Shape, Shape', MoneyInv, MoneyInv', CompleteInv, NEW p \in Proc, Continue(p),
         job[p].op = "open"
  PROVE  CompleteInv'
<1>1. /\ JobTypes /\ JobInv /\ job \in [Proc -> Job] /\ ~Stored
      /\ job'[p].op \in {"open", "none"}
  BY OpenCases DEF Shape, TypeOK, JobTypes
<1>2. ~Resolving(p)' /\ job'[p].op \notin {"timeout", "resolve", "dispute"}
  BY <1>1 DEF Resolving
<1>3. bondHold' = None /\ (Stored' => \A m \in Milestone : ms'[m] # "disputed")
      /\ state' \notin Terminal
  <2>1. CASE Store(p)
    BY <2>1 DEF Store, Terminal
  <2>2. CASE ~Store(p)
    <3>1. ~CaptureMilestone(p) /\ ~RefundMilestone(p)
      <4>1. job[p].todo # <<>> => Current(p).do \notin {"capture", "refund"}
        BY <1>1, Working
      <4> QED
        BY <4>1 DEF CaptureMilestone, RefundMilestone, Doing, Running
    <3>2. ~Stored'
      BY <1>1, <2>2, <3>1, OtherFunds DEF Shape
    <3> QED
      BY <3>2 DEF MoneyInv, Stored, Terminal
  <2> QED
    BY <2>1, <2>2
<1>4. DisputeInv'
  BY <1>2, <1>3 DEF DisputeInv, OneRequest
<1>5. CoverInv' /\ EndedInv'
  BY <1>2, <1>3 DEF CoverInv, EndedInv, OneRequest
<1> QED
  BY <1>4, <1>5 DEF CompleteInv

(* A request that ends the escrow has settled all of it.                   *)
LEMMA CompleteEnds ==
  ASSUME OneRequest, Shape, MoneyInv, OneInv, CompleteInv, NEW p \in Proc, Continue(p),
         job[p].op # "open", EndStep(p)
  PROVE  CompleteInv'
<1>1. /\ TypeOK /\ job \in [Proc -> Job] /\ job[p] \in Job /\ StageInv /\ StageOf(p)
      /\ DisputeInv /\ CoverInv /\ EndedInv
  BY DEF Shape, TypeOK, OneInv, StageInv, CompleteInv
<1>2. /\ job'[p] = Idle /\ Idle.op = "none" /\ Idle.phase = "idle" /\ UNCHANGED ms
      /\ job[p].todo = <<>> /\ job[p].phase = "run"
  BY EndCases DEF EndStep, Last
<1>3. Finish(p) \/ FinishResolve(p)
  <2>1. ~Throw(p) /\ ~Store(p)
    BY NoThrow DEF Store
  <2> QED
    BY <1>2, <2>1
    DEF Continue, LockFunds, LockStake, Skip, CaptureMilestone, RefundMilestone, BookReceipt,
        IssueReceipt, ReceiptClashes, ReturnStake, SlashProviderStake, ReturnBond, Frivolous,
        ForgetBond, Doing, Running, Awaiting
<1>4. UNCHANGED bondHold
  BY <1>3 DEF Finish, FinishResolve, holdVars
<1>5. job[p].op \in {"timeout", "resolve"} => AllSettled
  <2>1. Left(p) = <<>> /\ (job[p].op \in {"timeout", "resolve"} => Works(p))
    BY <1>2 DEF Left, Works
  <2>2. \A m \in Milestone : ~Covered(<<>>, m)
    BY DEF Covered
  <2> QED
    BY <1>1, <2>1, <2>2 DEF CoverInv, AllSettled
<1>6. bondHold = None /\ escalation' = NoEscalation /\ \A m \in Milestone : ms[m] # "disputed"
  <2>1. CASE Finish(p)
    <3>1. state = "open" /\ UNCHANGED escalation
      BY <1>1, <1>2, <2>1 DEF Finish, DisputeInv, StageOf
    <3> QED
      BY <1>1, <3>1, OpenPlain
  <2>2. CASE FinishResolve(p)
    <3>1. job[p].op = "resolve" /\ Resolving(p) /\ escalation' = NoEscalation
      BY <1>2, <2>2 DEF FinishResolve, Resolving
    <3>2. ~BondAhead(<<>>)
      BY DEF BondAhead
    <3> QED
      BY <1>1, <1>2, <1>5, <3>1, <3>2 DEF DisputeInv, AllSettled, Settled
  <2> QED
    BY <1>3, <2>1, <2>2
<1>7. state' \in Terminal => AllSettled
  <2>1. CASE Finish(p)
    <3>1. /\ job[p].op \in {"deliver", "accept", "timeout"}
          /\ job[p].op # "timeout" => state = "open"
      BY <1>1, <1>2, <2>1 DEF Finish, DisputeInv, StageOf
    <3>2. ASSUME job[p].op # "timeout"
          PROVE  state' \in Terminal => AllSettled
      <4>1. state' = Recomputed(state)
        BY <2>1, <3>1, <3>2 DEF Finish
      <4> QED
        BY <3>1, <3>2, <4>1 DEF Recomputed, AllSettled, Settled, Terminal
    <3> QED
      BY <1>5, <3>2
  <2>2. CASE FinishResolve(p)
    BY <1>5, <2>2 DEF FinishResolve
  <2> QED
    BY <1>3, <2>1, <2>2
<1>8. DisputeInv'
  BY <1>2, <1>4, <1>6 DEF DisputeInv, OneRequest
<1>9. CoverInv' /\ EndedInv'
  BY <1>2, <1>4, <1>6, <1>7 DEF CoverInv, EndedInv, OneRequest, AllSettled, Settled
<1> QED
  BY <1>8, <1>9 DEF CompleteInv

(* A request that is cut short leaves its milestones as they are.          *)
LEMMA CompleteClash ==
  ASSUME OneRequest, Shape, CompleteInv, NEW p \in Proc, ReceiptClashes(p)
  PROVE  CompleteInv'
<1>1. /\ job'[p] = Idle /\ Idle.op = "none" /\ Idle.phase = "idle"
      /\ UNCHANGED <<state, escalation, bondHold, ms>>
  BY ClashCases DEF recordVars, milestoneVars, holdVars
<1> QED
  BY <1>1, CompleteKeeps DEF Works, Resolving

(* Every step keeps it.                                                    *)
LEMMA CompleteStep ==
  ASSUME OneRequest, AllJudged, IInv, IInv', OneInv, CompleteInv, [Next]_vars
  PROVE  CompleteInv'
<1>1. Shape /\ Shape' /\ MoneyInv /\ MoneyInv'
  BY DEF IInv, Shape
<1>2. CASE \E p \in Proc : Receive(p) \/ Begin(p) \/ Continue(p) \/ Schedule(p)
  BY <1>1, <1>2, CompleteBegin, CompleteOpens, CompleteEnds, CompleteClash, CompleteWork
<1>3. CASE \/ \E id \in ApprovalId, decision \in A!Decision : Rule(id, decision)
           \/ Tick \/ UNCHANGED vars
  <2>1. UNCHANGED <<state, escalation, bondHold, ms, job>>
    BY <1>3 DEF Rule, Tick, vars, recordVars, milestoneVars, holdVars
  <2>2. DisputeInv'
    BY <2>1 DEF CompleteInv, DisputeInv, Stored, Resolving, BondAhead
  <2>3. CoverInv'
    <3> SUFFICES ASSUME NEW p \in Proc, Works(p)', job'[p].op \in {"timeout", "resolve"},
                        NEW m \in Milestone
                 PROVE  Settled(m)' \/ Covered(Left(p), m)'
      BY DEF CoverInv
    <3>l. PICK left : left = Left(p)
      OBVIOUS
    <3>1. Settled(m) \/ Covered(left, m)
      BY <2>1, <3>l DEF CompleteInv, CoverInv, Works
    <3>2. Left(p)' = left
      BY <2>1, <3>l DEF Left
    <3>3. Settled(m) => Settled(m)'
      BY <2>1 DEF Settled
    <3>4. Covered(left, m) => Covered(left, m)'
      BY <2>1, CoveredStays
    <3> QED
      BY <3>1, <3>2, <3>3, <3>4
  <2>4. EndedInv'
    BY <2>1 DEF CompleteInv, EndedInv, AllSettled, Settled
  <2> QED
    BY <2>2, <2>3, <2>4 DEF CompleteInv
<1> QED
  BY <1>2, <1>3 DEF Next

-----------------------------------------------------------------------------
(* The theorems.                                                           *)

(* The inductive invariant holds of every contract that is opened once.    *)
THEOREM Invariant ==
  ASSUME SingleOpener
  PROVE  Spec => []IInv
<1>1. Init => IInv
  BY InitInv
<1>2. IInv /\ [Next]_vars => IInv'
  BY StepInv
<1> QED
  BY <1>1, <1>2, PTL DEF Spec

(* Every reachable state has the shapes the code's types declare.          *)
THEOREM TypesCorrect ==
  ASSUME SingleOpener
  PROVE  Spec => []TypeOK
<1>1. IInv => TypeOK
  BY DEF IInv
<1> QED
  BY <1>1, Invariant, PTL

(* However many deliveries, acceptances, disputes, timeouts and rulings    *)
(* overlap past requireOpenish, each milestone's state tells where its     *)
(* funds are: captured exactly when released, back when refunded, locked   *)
(* while pending (service.ts:484-511).                                     *)
THEOREM FundsFollowMilestones ==
  ASSUME SingleOpener
  PROVE  Spec => []PaidWhenReleased
<1>1. IInv => PaidWhenReleased
  BY EscrowAssumption
  DEF IInv, PaidWhenReleased, MoneyInv, FundsInv, Funds, FundsBar
<1> QED
  BY <1>1, Invariant, PTL

(* A stake or bond that the record names is active, unless it is a bond    *)
(* being forgotten after a ruling (service.ts:515-543, 576-587).           *)
THEOREM NamedHoldsUsable ==
  ASSUME SingleOpener
  PROVE  Spec => []NamedHoldsActive
<1>1. IInv => NamedHoldsActive
  BY DEF IInv, NamedHoldsActive, MoneyInv, CollateralInv
<1> QED
  BY <1>1, Invariant, PTL

(* A settled escrow at rest holds no stake: whichever settlement was last, *)
(* its request returned it (service.ts:528-543), as long as reputation     *)
(* took every receipt (654).                                               *)
THEOREM StakeComesBack ==
  ASSUME SingleOpener
  PROVE  Spec => []StakeSettles
<1>1. IInv => StakeSettles
  BY DEF IInv, StakeSettles, StakeReturns, StakeInv, Settling, Quiet, Idle
<1> QED
  BY <1>1, Invariant, PTL

(* Every settlement has exactly one receipt, in the ledger or being        *)
(* signed, and the payer's usage is the sum of what was captured, whatever *)
(* requests overlap (service.ts:490-494, 632-655).                         *)
THEOREM BooksBalance ==
  ASSUME SingleOpener
  PROVE  Spec => []BooksAgree
<1>1. Init => BooksInv
  BY DEF Init, BooksInv, Stored
<1>2. IInv /\ BooksInv => BooksAgree
  BY DEF BooksInv, BooksAgree, Booked, Due, Captured
<1> QED
  BY <1>1, <1>2, BooksStep, Invariant, PTL DEF Spec

(* One request at a time: the record, the ruling it awaits and the plan of *)
(* the request at work agree.                                              *)
THEOREM OneInvariant ==
  ASSUME OneRequest, ~Redelivery
  PROVE  Spec => [](IInv /\ OneInv)
<1>1. SingleOpener
  BY EscrowAssumption DEF OneRequest, SingleOpener
<1>2. Init => OneInv
  <2> SUFFICES ASSUME Init
               PROVE  OneInv
    OBVIOUS
  <2>1. /\ state = "absent" /\ escalation = NoEscalation /\ ~Stored
        /\ \A p \in Proc : job[p] = Idle /\ Idle.op = "none" /\ Idle.phase = "idle"
    BY DEF Init, Stored, Idle
  <2>2. StageInv
    BY <2>1 DEF StageInv, StageOf, Terminal
  <2> QED
    BY <2>1, <2>2 DEF OneInv, RulingInv, LockedInv, PlanInv, Works
<1> QED
  BY <1>1, <1>2, Invariant, OneStep, PTL DEF Spec

(* As long as requests do not overlap, nothing is delivered again after a  *)
(* refund and reputation refuses no receipt, a disputed escrow at rest has *)
(* a ruling to redeem: no wallet operation is refused half way, with the   *)
(* ruling consumed (service.ts:462-471, 689-693).                          *)
THEOREM DisputeAwaitsRuling ==
  ASSUME OneRequest, ~Redelivery
  PROVE  Spec => []AwaitsRuling
<1>1. OneInv => AwaitsRuling
  <2> SUFFICES ASSUME OneInv, ~Clashed, state = "disputed", Quiet
               PROVE  escalation # NoEscalation /\ approval[escalation.id].status # "consumed"
    BY DEF AwaitsRuling, RulingToCome
  <2>1. \A p \in Proc : job[p].op = "none"
    BY DEF Quiet, Idle
  <2> QED
    BY <2>1 DEF OneInv, StageInv, RulingInv, Resolving
<1> QED
  BY <1>1, OneInvariant, PTL

(* While an escalation awaits its ruling and no request let in before it   *)
(* is left, every request, timeout included, is refused but the one that   *)
(* redeems it: record and money stay as they are, whatever overlaps        *)
(* (service.ts:290-292, 389-391, 689-693).                                 *)
THEOREM DisputedStayLocked ==
  ASSUME SingleOpener
  PROVE  Spec => StayLocked
<1>1. IInv /\ [Next]_vars =>
        [Undecided /\ (\A p \in Proc : Waits(p)) =>
           /\ UNCHANGED <<walletVars, recordVars>>
           /\ (Undecided => \A p \in Proc : Waits(p))']_vars
  <2> SUFFICES ASSUME IInv, Next, Undecided, \A p \in Proc : Waits(p)
               PROVE  /\ UNCHANGED <<walletVars, recordVars>>
                      /\ Undecided' => \A p \in Proc : Waits(p)'
    OBVIOUS
  <2>1. /\ TypeOK /\ JobInv /\ job \in [Proc -> Job] /\ turn \in Proc \cup {None}
        /\ ~Openish /\ state # "absent" /\ escalation \in Escalation
    BY DEF IInv, TypeOK, Undecided, Openish, NonActionable
  <2>2. Idle.op = "none" /\ Idle.phase = "idle"
    BY DEF Idle
  <2>3. \A p \in Proc : /\ turn # p /\ job[p].op \in {"none", "resolve"}
                        /\ job[p].phase \in {"idle", "verify"}
    BY <2>1, <2>2 DEF Waits, JobInv, JobOK
  <2>4. ASSUME NEW p \in Proc
        PROVE  ~Continue(p) /\ ~Schedule(p)
    <3>1. turn # p /\ job[p].phase \notin {"sign", "rate"}
      BY <2>3
    <3>2. ~Continue(p)
      BY <3>1 DEF Continue, LockFunds, LockStake, Skip, CaptureMilestone, RefundMilestone,
                  BookReceipt, IssueReceipt, ReceiptClashes, ReturnStake, SlashProviderStake,
                  ReturnBond, Frivolous, ForgetBond, Throw, Store, Finish, FinishResolve, Doing,
                  Running, Awaiting, Last
    <3> QED
      BY <2>1, <3>2 DEF Schedule, Timeout, TimeoutEscalated
  <2>5. ASSUME NEW p \in Proc, Receive(p)
        PROVE  /\ UNCHANGED <<walletVars, recordVars>>
               /\ Undecided' => \A q \in Proc : Waits(q)'
    <3>1. RequestResolve(p)
      BY <2>1, <2>5 DEF Receive, RequestOpen, RequestDeliver, RequestAccept, RequestDispute
    <3> DEFINE j == [[Idle EXCEPT !.op = "resolve", !.esc = escalation] EXCEPT !.phase = "verify"]
    <3>2. j.op = "resolve" /\ j.phase = "verify" /\ j.esc = escalation
      BY DEF Idle
    <3>3. job' = [job EXCEPT ![p] = j] /\ UNCHANGED <<walletVars, recordVars>>
      BY <3>1 DEF RequestResolve, Request
    <3> HIDE DEF j
    <3>4. job'[p] = j /\ UNCHANGED escalation /\ \A q \in Proc \ {p} : job'[q] = job[q]
      BY <2>1, <3>3 DEF recordVars
    <3>5. \A q \in Proc : Waits(q)'
      BY <3>2, <3>4 DEF Waits
    <3> QED
      BY <3>3, <3>5
  <2>6. ASSUME NEW p \in Proc, Begin(p)
        PROVE  /\ UNCHANGED <<walletVars, recordVars>>
               /\ Undecided' => \A q \in Proc : Waits(q)'
    <3>1. Resolve(p) \/ Reject(p)
      BY <2>3, <2>6 DEF Begin, Open, Deliver, Accept, DisputeDecided, DisputeEscalated, Verified
    <3>2. CASE Resolve(p)
      <4>1. /\ job[p].op = "resolve" /\ A!Consume(job[p].esc.id, job[p].esc.agent)
            /\ UNCHANGED <<walletVars, recordVars>>
        BY <3>2 DEF Resolve, Verified
      <4>2. job[p].esc = escalation
        BY <2>2, <4>1 DEF Waits
      <4>3. escalation.id \in ApprovalId /\ A!TypeOK /\ UNCHANGED escalation
        BY <2>1, <4>1 DEF Escalation, TypeOK, recordVars
      <4>4. approval'[escalation.id].status = "consumed"
        BY <4>1, <4>2, <4>3 DEF A!Consume, A!TypeOK
      <4> QED
        BY <4>1, <4>3, <4>4 DEF Undecided
    <3>3. CASE Reject(p)
      <4>1. job' = [job EXCEPT ![p] = Idle] /\ UNCHANGED <<walletVars, recordVars>>
        BY <3>3 DEF Reject, End
      <4>2. \A q \in Proc : Waits(q)'
        BY <2>1, <4>1 DEF Waits, recordVars
      <4> QED
        BY <4>1, <4>2
    <3> QED
      BY <3>1, <3>2, <3>3
  <2>7. CASE (\E id \in ApprovalId, decision \in A!Decision : Rule(id, decision)) \/ Tick
    BY <2>7 DEF Rule, Tick, Waits, recordVars
  <2> QED
    BY <2>4, <2>5, <2>6, <2>7 DEF Next
<1> QED
  BY <1>1, Invariant, PTL DEF Spec, StayLocked

(* A ruling decides each milestone it was asked about, for the provider or *)
(* for the payer, whoever asked and whatever else is swept; when it is cut *)
(* short, none went the other way (service.ts:545-614, 654).               *)
THEOREM RulingsDecide ==
  ASSUME OneRequest, ~Redelivery
  PROVE  Spec => []RulingDecides
<1>1. Init => DecideInv /\ HalfInv
  BY DEF Init, DecideInv, Resolving, Idle, HalfInv
<1>2. IInv /\ OneInv /\ DecideInv /\ HalfInv => RulingDecides
  <2> SUFFICES ASSUME IInv, OneInv, DecideInv, HalfInv
               PROVE  RulingDecides
    OBVIOUS
  <2>1. ASSUME NEW m \in Milestone, NEW esc, Stored
        PROVE  /\ ms[m] = Ruled(esc) => Funds(m) = Verdict(esc)
               /\ ~Settled(m) => Funds(m) = "locked"
    <3>1. /\ fundsHold[m] # None
          /\ ~Settled(m) => hold[fundsHold[m]].state = "active"
          /\ ms[m] = "released" => hold[fundsHold[m]].state = "captured"
          /\ ms[m] = "refunded" => hold[fundsHold[m]].state = "released"
      BY <2>1 DEF IInv, MoneyInv, FundsInv, OneInv, LockedInv, W!Active
    <3> QED
      BY <3>1 DEF Funds, FundsBar, Verdict, Ruled, ToPayee
  <2>2. ASSUME NEW p \in Proc, Last(p), job[p].op = "resolve", NEW m \in job[p].esc.milestones
        PROVE  Funds(m) = Verdict(job[p].esc)
    <3>1. JobOK(p)
      BY DEF IInv, JobInv
    <3>2. job[p].phase = "run" /\ job[p].todo = <<>> /\ Stored /\ job[p].esc \in Escalation
      BY <2>2, <3>1 DEF JobOK, Fits, Last
    <3>3. Resolving(p) /\ Left(p) = <<>>
      BY <2>2, <3>2 DEF Resolving, Left
    <3>4. ms[m] = Ruled(job[p].esc)
      BY <2>2, <3>3 DEF DecideInv, Decides, AheadFor
    <3> QED
      BY <2>1, <2>2, <3>2, <3>4 DEF Escalation
  <2>3. ASSUME escalation # NoEscalation, approval[escalation.id].status = "consumed",
               NEW m \in escalation.milestones
        PROVE  Funds(m) \in {"locked", Verdict(escalation)}
    <3>1. escalation \in Escalation /\ Stored
      BY <2>3 DEF IInv, TypeOK, OneInv, StageInv, Stored
    <3>2. ms[m] = Ruled(escalation) \/ ~Settled(m)
      BY <2>3 DEF HalfInv
    <3> QED
      BY <2>1, <2>3, <3>1, <3>2 DEF Escalation
  <2> QED
    BY <2>2, <2>3 DEF RulingDecides
<1>3. /\ IInv /\ OneInv /\ OneInv' /\ DecideInv /\ HalfInv /\ [Next]_vars
      => DecideInv' /\ HalfInv'
  BY DecideStep, HalfStep
<1> QED
  BY <1>1, <1>2, <1>3, OneInvariant, PTL DEF Spec

(* The stake is forfeited when, and only when, the provider has lost a     *)
(* dispute: its payer has the milestone back, with a 'disputed' receipt    *)
(* (service.ts:336-342, 528-532).                                          *)
THEOREM SlashIsProven ==
  ASSUME OneRequest, ~Redelivery
  PROVE  Spec => []SlashProven
<1>1. SingleOpener
  BY EscrowAssumption DEF OneRequest, SingleOpener
<1>2. Init => BooksInv /\ SlashInv
  <2> SUFFICES ASSUME Init
               PROVE  BooksInv /\ SlashInv
    OBVIOUS
  <2>1. /\ ~Stored /\ receipts = [m \in Milestone |-> <<>>] /\ spent = 0
        /\ \A p \in Proc : job[p] = Idle /\ Idle.phase = "idle"
    BY DEF Init, Stored, Idle
  <2> QED
    BY <2>1 DEF BooksInv, SlashInv, PledgeInv, Works
<1>3. IInv /\ SlashInv => SlashProven
  <2> SUFFICES ASSUME IInv, SlashInv, Stored, Quiet, pledge # None
               PROVE  hold[pledge].state = "forfeited" <=> LostDispute
    BY DEF SlashProven, LostDispute
  <2>1. \A p \in Proc : ~LossDue(p)
    BY DEF Quiet, Idle, LossDue, Works
  <2> QED
    BY <2>1 DEF SlashInv, PledgeInv
<1>4. IInv /\ IInv' /\ OneInv /\ BooksInv /\ SlashInv /\ [Next]_vars => BooksInv' /\ SlashInv'
  BY BooksStep, SlashStep
<1> QED
  BY <1>1, <1>2, <1>3, <1>4, Invariant, OneInvariant, PTL DEF Spec

(* When the escrow has ended nothing of it is locked any more, neither     *)
(* funds, nor bond, nor, unless a receipt was refused, the stake, as long  *)
(* as every dispute is escalated: one a hash decides at once leaves the    *)
(* other milestones as they are (service.ts:322-358, 551, 616-618, 654).   *)
THEOREM NothingStaysLocked ==
  ASSUME OneRequest, ~Redelivery, AllJudged
  PROVE  Spec => [](Complete /\ ~HashDecided)
<1>1. Init => CompleteInv
  <2> SUFFICES ASSUME Init
               PROVE  CompleteInv
    OBVIOUS
  <2>1. /\ state = "absent" /\ ~Stored /\ bondHold = None
        /\ \A p \in Proc : job[p] = Idle /\ Idle.op = "none" /\ Idle.phase = "idle"
    BY DEF Init, Stored, Idle
  <2> QED
    BY <2>1 DEF CompleteInv, DisputeInv, CoverInv, EndedInv, Works, Terminal
<1>2. ~HashDecided
  BY DEF AllJudged, HashDecided, ObjectivePass
<1>3. IInv /\ CompleteInv => Complete
  <2> SUFFICES ASSUME IInv, CompleteInv, state \in Terminal, Quiet
               PROVE  AllSettled /\ bondHold = None /\ (stakeHold = None \/ Clashed)
    BY DEF Complete
  <2>1. AllSettled /\ bondHold = None
    BY DEF CompleteInv, EndedInv
  <2>2. Stored /\ \A p \in Proc : ~Settling(p)
    BY DEF Stored, Terminal, Quiet, Settling, Idle
  <2>3. stakeHold = None \/ Clashed
    BY <2>1, <2>2 DEF IInv, StakeInv
  <2> QED
    BY <2>1, <2>3
<1> QED
  BY <1>1, <1>2, <1>3, CompleteStep, OneInvariant, PTL DEF Spec

(* An escrow that has ended, with no request left that was let in before,  *)
(* is never acted on again, whatever overlaps: every request and every     *)
(* timeout finds a state it refuses (service.ts:689-711).                  *)
THEOREM EndIsFinal == Spec => FinalState
<1>1. [Next]_vars =>
        [(state \in Terminal) /\ Quiet => UNCHANGED <<walletVars, recordVars, job>>]_vars
  <2> SUFFICES ASSUME Next, state \in Terminal, Quiet
               PROVE  UNCHANGED <<walletVars, recordVars, job>>
    OBVIOUS
  <2>1. ~Openish /\ state \notin {"absent", "disputed"}
    BY DEF Openish, NonActionable, Terminal
  <2>2. ASSUME NEW p \in Proc
        PROVE  ~Receive(p) /\ ~Begin(p) /\ ~Continue(p) /\ ~Schedule(p)
    <3>1. job[p].phase = "idle" /\ job[p].op = "none" /\ job[p].todo = <<>>
      BY DEF Quiet, Idle
    <3>2. ~Receive(p) /\ ~Schedule(p)
      BY <2>1 DEF Receive, RequestOpen, RequestDeliver, RequestAccept, RequestDispute,
                  RequestResolve, Schedule, Timeout, TimeoutEscalated
    <3>3. ~Begin(p)
      BY <3>1 DEF Begin, Open, Deliver, Accept, DisputeDecided, DisputeEscalated, Resolve, Reject,
                  Verified
    <3>4. ~Continue(p)
      BY <3>1 DEF Continue, LockFunds, LockStake, Skip, CaptureMilestone, RefundMilestone,
                  BookReceipt, IssueReceipt, ReceiptClashes, ReturnStake, SlashProviderStake,
                  ReturnBond, Frivolous, ForgetBond, Throw, Store, Finish, FinishResolve, Doing,
                  Running, Awaiting, Last
    <3> QED
      BY <3>2, <3>3, <3>4
  <2>3. (\E id \in ApprovalId, decision \in A!Decision : Rule(id, decision)) \/ Tick
    BY <2>2 DEF Next
  <2> QED
    BY <2>3 DEF Rule, Tick
<1> QED
  BY <1>1, PTL DEF Spec, FinalState

(* Money moves only as the contract says: each milestone is paid or        *)
(* returned once, and the collateral comes back only after all of them.    *)
THEOREM MoneyAsPromised ==
  ASSUME SingleOpener
  PROVE  Spec => ImplementsPromise
<1>1. Init => Promise!Init
  BY InitInv
<1>2. IInv /\ [Next]_vars => [Promise!Next]_(Promise!promiseVars)
  BY StepInv
<1> QED
  BY <1>1, <1>2, Invariant, PTL DEF Spec, ImplementsPromise, Promise!Spec
=============================================================================
