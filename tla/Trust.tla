-------------------------------- MODULE Trust --------------------------------
(***************************************************************************)
(* What makes an agent trusted: the ledger its receipts are appended to,   *)
(* the reputation (core/reputation) measured from them and from abuse      *)
(* signals, and the stakes (settlement/stake) it bonds, over the wallet.   *)
(*                                                                         *)
(* A call runs in one turn of the event loop, up to the signature of the   *)
(* snapshot that reputation issues last; signatures end in any order.      *)
(***************************************************************************)
EXTENDS Integers, Sequences, FiniteSets, Functions, FiniteSetsExt

CONSTANTS
  Did, Currency,
  Payment,      \* receipts settlement may issue: a set of Receipt
  StakeAmount, MayStake,  \* amounts bonded, and the agents whose delegation lets them
  Funds,        \* what each agent has at first, of each currency
  SignalKind, Reported,   \* kinds of abuse signal, and the agents they may be about
  LatencyTarget, StakeSaturation,  \* of the trust formula
  HoldId,       \* bound: hold rows, so stakes
  MaxEntries,   \* bound: ledger entries
  MaxSignals,   \* bound: abuse signals about an agent
  MaxSigning,   \* bound: snapshots being signed at a time
  None          \* null

VARIABLES
  available, held, hold, external, \* the wallets, by account: an agent and a currency
  entries,   \* the ledger
  stakes,    \* StakeRepo, in the order of the rows
  acc,       \* AccumulatorRepo
  snapshot,  \* SnapshotCacheRepo: the metrics of the last one cached, and whether it has expired
  signing    \* snapshots whose signature is awaited

walletVars == <<available, held, hold, external>>
stakeVars == <<walletVars, stakes>>
vars == <<stakeVars, entries, acc, snapshot, signing>>

Account == Did \X Currency

W == INSTANCE Wallet WITH Did <- Account, Amount <- {}, Seed <- Funds
L == INSTANCE Ledger

Outcomes == {"delivered", "partial", "refunded", "disputed"}
Receipt == [id : Nat, payer : Did, payee : Did, outcome : Outcomes, amount : Nat,
            currency : Currency, latency : Nat, day : Nat]

ASSUME TrustAssumption ==
  /\ Payment \subseteq Receipt
  /\ \A r, s \in Payment : r.id = s.id => r = s
  /\ StakeAmount \subseteq Nat \ {0} /\ MayStake \cup Reported \subseteq Did
  /\ SignalKind \subseteq {"message_spam", "post_flag", "frivolous_dispute"}
  /\ {Funds, LatencyTarget, StakeSaturation, MaxEntries, MaxSignals, MaxSigning} \subseteq Nat
  /\ LatencyTarget > 0 /\ StakeSaturation > 0

StakeRow == [did : Did, hold : HoldId, amount : Nat, currency : Currency, state : {"bonded"}]

(* `credit` counts halves.                                                 *)
MetricsAccumulator ==
  [ingested : SUBSET {r.id : r \in Payment}, jobs : Nat, credit : Nat, disputes : Nat,
   refunds : Nat, latency : Seq(Nat), value : Nat, currency : Currency \cup {None},
   payers : SUBSET Did, first : Nat \cup {None}, last : Nat \cup {None},
   stake : Nat, spam : Nat, posts : Nat]

ASSUME NullAssumption ==
  None \notin Did \cup Currency \cup {"receipt", "stake_bonded"} \cup MetricsAccumulator

emptyAccumulator ==
  [ingested |-> {}, jobs |-> 0, credit |-> 0, disputes |-> 0, refunds |-> 0, latency |-> <<>>,
   value |-> 0, currency |-> None, payers |-> {}, first |-> None, last |-> None,
   stake |-> 0, spam |-> 0, posts |-> 0]

TypeOK ==
  /\ W!TypeOK
  /\ stakes \in Seq(StakeRow)
  /\ acc \in [Did -> MetricsAccumulator \cup {None}]

-----------------------------------------------------------------------------
(* Metrics and trust, in percent.                                          *)
Percent(part, whole) == IF whole = 0 THEN 0 ELSE Min({100, (100 * part) \div whole})

(* Nearest rank: the smallest sample with at least q percent at or below.  *)
Percentile(samples, q) ==
  IF samples = <<>> THEN 0
  ELSE Min({x \in Range(samples) :
              100 * Cardinality({i \in DOMAIN samples : samples[i] <= x}) >= q * Len(samples)})

Metrics(a) ==
  [success |-> Percent(a.credit, 2 * a.jobs), dispute |-> Percent(a.disputes, a.jobs),
   refund |-> Percent(a.refunds, a.jobs), diversity |-> Percent(Cardinality(a.payers), a.jobs),
   p50 |-> Percentile(a.latency, 50), p95 |-> Percentile(a.latency, 95), uptime |-> 100,
   jobs |-> a.jobs, value |-> a.value, stake |-> a.stake, first |-> a.first, last |-> a.last,
   spam |-> a.spam, posts |-> a.posts]

Clamp(x) == IF x < 0 THEN 0 ELSE IF x > 100 THEN 100 ELSE x

(* Mutant: the penalty is the flags themselves, not what they leave.       *)
FlagFactorInverted(m) == Clamp(2 * (m.spam + m.posts))
FlagFactor(m) == Clamp(100 - 2 * (m.spam + m.posts))

computeTrust(m) ==
  LET base == Clamp((45 * m.success + 20 * m.uptime
                     + 20 * Percent(LatencyTarget, Max({m.p95, 1}))
                     + 15 * Percent(m.stake, StakeSaturation)
                     - 30 * m.dispute - 15 * m.refund) \div 100)
  IN  (base * (60 + (40 * m.diversity) \div 100) * FlagFactor(m)) \div 10000

-----------------------------------------------------------------------------
(* Reputation.                                                             *)
Known(d) == IF acc[d] = None THEN emptyAccumulator ELSE acc[d]

(* issueSnapshot: the metrics are those of now; the snapshot is cached when*)
(* it has been signed.                                                     *)
Issue(d, a) == signing' = signing \cup {[subject |-> d, metrics |-> Metrics(a)]}

CanSign == Cardinality(signing) < MaxSigning

Update(d, a) == CanSign /\ acc' = [acc EXCEPT ![d] = a] /\ Issue(d, a)

Credit == [delivered |-> 2, partial |-> 1, refunded |-> 0, disputed |-> 0]

Earliest(a, b) == IF a = None \/ b < a THEN b ELSE a
Latest(a, b) == IF a = None \/ b > a THEN b ELSE a

Counts(r) == r.outcome # "refunded"

(* Values of different currencies do not add up: such a receipt throws,    *)
(* and what has been changed is a copy that is dropped.                    *)
Coherent(a, r) == Counts(r) => a.currency \in {None, r.currency}

Fold(a, r) ==
  [a EXCEPT
     !.ingested = @ \cup {r.id}, !.jobs = @ + 1, !.payers = @ \cup {r.payer},
     !.latency = Append(@, r.latency), !.credit = @ + Credit[r.outcome],
     !.refunds = IF r.outcome = "refunded" THEN @ + 1 ELSE @,
     !.disputes = IF r.outcome = "disputed" THEN @ + 1 ELSE @,
     !.value = IF Counts(r) THEN @ + r.amount ELSE @,
     !.currency = IF Counts(r) THEN r.currency ELSE @,
     !.first = Earliest(@, r.day), !.last = Latest(@, r.day)]

(* Mutant: a receipt is folded again when it is delivered again.           *)
IngestAgain(r) ==
  IF Coherent(Known(r.payee), r)
  THEN Update(r.payee, Fold(Known(r.payee), r))
  ELSE UNCHANGED <<acc, signing>>

(* ingestReceipt: a receipt that has been folded in is left alone.         *)
Ingest(r) ==
  IF r.id \notin Known(r.payee).ingested /\ Coherent(Known(r.payee), r)
  THEN Update(r.payee, Fold(Known(r.payee), r))
  ELSE UNCHANGED <<acc, signing>>

InLedger(r) == \E i \in L!Listed("receipt", r.payee) : entries[i].payload = r.id

(* Settlement appends the receipt, then delivers it; it may do so again.   *)
Settle(r) ==
  /\ ~InLedger(r) /\ Len(entries) < MaxEntries
  /\ entries' = L!Appended("receipt", r.payee, r.id)
  /\ Ingest(r)
  /\ UNCHANGED <<stakeVars, snapshot>>

Redeliver(r) ==
  /\ InLedger(r)
  /\ Ingest(r)
  /\ UNCHANGED <<stakeVars, entries, snapshot>>

(* A frivolous dispute is counted as a flag of a post.                     *)
Signal(d, kind) ==
  LET a == Known(d)
  IN  /\ a.spam + a.posts < MaxSignals
      /\ Update(d, IF kind = "message_spam" THEN [a EXCEPT !.spam = @ + 1]
                                            ELSE [a EXCEPT !.posts = @ + 1])
      /\ UNCHANGED <<stakeVars, entries, snapshot>>

(* The signature of s is there: it replaces the cached snapshot.           *)
Cache(s) ==
  /\ s \in signing
  /\ snapshot' = [snapshot EXCEPT ![s.subject] = [metrics |-> s.metrics, expired |-> FALSE]]
  /\ signing' = signing \ {s}
  /\ UNCHANGED <<stakeVars, entries, acc>>

(* getSnapshot answers from the cache, unless that has expired.            *)
Stale(d) == IF snapshot[d] = None THEN TRUE ELSE snapshot[d].expired

GetSnapshot(d) ==
  /\ acc[d] # None /\ Stale(d)
  /\ CanSign /\ Issue(d, acc[d])
  /\ UNCHANGED <<stakeVars, entries, acc, snapshot>>

Expire(d) ==
  /\ snapshot[d] # None
  /\ snapshot' = [snapshot EXCEPT ![d].expired = TRUE]
  /\ UNCHANGED <<stakeVars, entries, acc, signing>>

-----------------------------------------------------------------------------
(* Stakes.                                                                 *)
Bonded(rows, d, c) == {i \in DOMAIN rows : rows[i].did = d /\ rows[i].currency = c}

(* Mutant: the last bond instead of all of them.                           *)
TotalBondedLast(rows, d, c) == rows[Max(Bonded(rows, d, c))].amount

TotalBonded(rows, d, c) == SumFunctionOnSet([i \in DOMAIN rows |-> rows[i].amount], Bonded(rows, d, c))

(* A bond that the signer cleared: the funds are held, the row is stored   *)
(* and recorded, and reputation is told the total in its currency.         *)
Stake(h, d, a, c) ==
  /\ d \in MayStake
  /\ Len(entries) < MaxEntries
  /\ W!PlaceHold(h, <<d, c>>, a)
  /\ stakes' = Append(stakes, [did |-> d, hold |-> h, amount |-> a, currency |-> c,
                               state |-> "bonded"])
  /\ entries' = L!Appended("stake_bonded", d, a)
  /\ Update(d, [Known(d) EXCEPT !.stake = TotalBonded(stakes', d, c)])
  /\ UNCHANGED snapshot

-----------------------------------------------------------------------------
Init ==
  /\ available = [x \in Account |-> Funds] /\ held = [x \in Account |-> 0]
  /\ hold = [h \in HoldId |-> W!NoHold] /\ external = -SumFunction(available)
  /\ entries = <<>> /\ stakes = <<>>
  /\ acc = [d \in Did |-> None]
  /\ snapshot = [d \in Did |-> None]
  /\ signing = {}

FreshHold == CHOOSE h \in HoldId : W!Fresh(h)

Staking ==
  /\ \E h \in HoldId : W!Fresh(h)
  /\ \E d \in Did, a \in StakeAmount, c \in Currency : Stake(FreshHold, d, a, c)

Next ==
  \/ \E r \in Payment : Settle(r) \/ Redeliver(r)
  \/ \E d \in Reported, kind \in SignalKind : Signal(d, kind)
  \/ \E s \in signing : Cache(s)
  \/ \E d \in Did : GetSnapshot(d) \/ Expire(d)
  \/ Staking

Spec == Init /\ [][Next]_vars

-----------------------------------------------------------------------------
(* Properties.                                                             *)

(* Reputation is measured from settled receipts, and never from the same   *)
(* one twice (reputation.service.ts:40-57): an agent's accumulator is the  *)
(* sum of its receipts in the ledger, those of a second currency aside,    *)
(* however often they are delivered and whatever else is signalled; and    *)
(* the variables have their types.                                         *)
Measured == TypeOK /\
  \A d \in Did : acc[d] # None =>
    LET a == acc[d]
        mine == {r \in Payment : r.payee = d /\ r.id \in a.ingested}
        settled == {r \in mine : r.outcome # "refunded"}
    IN  /\ \A r \in mine : InLedger(r)
        /\ \A r \in Payment : r.payee = d /\ InLedger(r) /\ r.id \notin a.ingested =>
             r.outcome # "refunded" /\ r.currency # a.currency
        /\ a.jobs = Cardinality(mine)
        /\ a.credit = SumFunctionOnSet([r \in Payment |-> Credit[r.outcome]], mine)
        /\ a.value = SumFunctionOnSet([r \in Payment |-> r.amount], settled)
        /\ \A r \in settled : r.currency = a.currency
        /\ a.payers = {r.payer : r \in mine}
        /\ Len(a.latency) = a.jobs

Held(d, c) ==
  {h \in HoldId : hold[h] # W!NoHold /\ hold[h].did = <<d, c>> /\ hold[h].state = "active"}

(* Slashable funds stand behind the stake that reputation shows            *)
(* (stake/service.ts:60-95): it is the sum of the agent's active holds in  *)
(* the currency it bonded last, and the ledger has each bond.              *)
StakeBacked ==
  \A d \in Did :
    LET rows == {i \in DOMAIN stakes : stakes[i].did = d}
        c == stakes[Max(rows)].currency
    IN  rows # {} =>
          /\ acc[d].stake = SumFunctionOnSet([h \in Held(d, c) |-> hold[h].amount], Held(d, c))
          /\ Cardinality(L!Listed("stake_bonded", d)) = Cardinality(rows)

(* The ledger can be audited (ledger.ts:110-130, merkle.ts:30-59): the     *)
(* chain checks, and every entry has a proof of inclusion in the root that *)
(* is no proof for another entry.                                          *)
Auditable ==
  /\ L!VerifyChain
  /\ LET proofs == L!MerkleProofs
         root == L!MerkleRoot
     IN  \A i, j \in DOMAIN entries : L!VerifyProof(entries[j].hash, proofs[i], root) <=> i = j

(* Abuse is never rewarded (reputation.service.ts:97-98, domain/           *)
(* reputation.ts:60-83): trust stays between 0 and 1, and one more flag    *)
(* lowers it or leaves it.                                                 *)
AbuseCosts ==
  \A d \in Did : acc[d] # None =>
    LET m == Metrics(acc[d])
        flagged == Metrics([acc[d] EXCEPT !.posts = @ + 1])
    IN  computeTrust(m) \in 0..100 /\ computeTrust(flagged) <= computeTrust(m)

(* The trust that is answered is never stale (reputation.service.ts:135-   *)
(* 136): with no signature awaited, a snapshot that has not expired shows  *)
(* the metrics of now.  It does not hold: README, section 6.               *)
NeverStale ==
  \A d \in Did :
    Stale(d) \/ snapshot[d].metrics = Metrics(acc[d]) \/ \E s \in signing : s.subject = d
=============================================================================
