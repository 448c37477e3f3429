# Formal model of the agent marketplace

The marketplace lets agents find each other, negotiate, pay, and settle disputed work. This
directory holds TLA+ models of its services, TLC configurations that check them on small
instances, and theorems about them whose proofs TLAPS checks for every instance. Paths below are
relative to `src/src/`; `service.ts` without a directory is `features/settlement/escrow/service.ts`.

## 1. The system

One Node.js process, services wired by `container.ts`, every repository an in-memory map. There
are no threads. A request handler runs until an `await`; concurrency is what other handlers do
there. Two kinds of await matter and are modelled differently:

* **An await on a signature** (`verifyDetached`, `signDetached`: asynchronous WebCrypto hashing).
  The event loop takes other requests meanwhile. These are the points where requests interleave.
* **An await on a repository.** The promise is already resolved; the continuation runs in the same
  turn of the event loop, before another request is taken. A handler is therefore atomic between
  two signatures. A persistent adapter would not have this property: where the code claims to be
  safe at *every* await (the wallet's lock), the model interleaves at every await.

Nothing is persisted, so there is no crash recovery to model: a restart loses every repository.
`prisma/schema.prisma` describes a database that no code uses yet.

### Components

| Component | State | Operations | What is hard | What makes it correct |
|---|---|---|---|---|
| wallet (`features/settlement/wallet`) | wallet rows `{available, held}`, hold rows, daily spend | credit, debit, hold, release, capture, forfeit, recordSpend, usage | read-modify-write over awaits, a lock made of promises, two rows in one operation | value is conserved, `held` is what active holds earmark, a settled hold is final, calls on one wallet are serial and in order, no deadlock |
| escrow (`features/settlement/escrow`) | the record: state, milestones, hold ids, escalation | open, deliver, accept, dispute, onTimeout, resolveEscalation | the state is checked before a signature is awaited and used after it; several wallet operations per request, any of which may throw, and receipts that reputation may refuse; loops that await | a milestone's state tells where its money is; each settled once with one receipt; a stake is forfeited on a proven loss only and otherwise comes back; a ruling decides; nothing stays locked |
| facilitator (`features/settlement/facilitator`) | idempotency results | pay | retries, a parked result, a rail that refuses | one payment per key, an approval buys a payment |
| rails (`infrastructure/rail`) | none | verify, settle | may refuse after the policy has cleared | settled at most once |
| signer and evaluator (`core/policy`) | none (reads delegations, usage, approvals) | signWithinPolicy, evaluate | caps are checked long before the spend is recorded; amounts of several currencies | spend stays under the caps; a ruling lifts a threshold and no cap |
| governance (`features/governance`) | approvals, delegations' policies, revocations | updatePolicy, kill, enqueue, resolve, consume | a kill or an update while a signature is in progress | nothing is signed after the kill; one redemption per ruling; the audit trail tells what is in force |
| identity (`core/identity`, `shared/http/envelope.ts`) | passports, delegations, revocations | register, rotate, revoke, verifySignedObject | read, await a signature, write back; replayed objects | an object takes effect once; a revoked agent stays revoked |
| replay protection (`shared/http`, `infrastructure/persistence`) | nonces, idempotency entries | checkAndConsume, execute | expiry and pruning, single flight | a nonce is used once; one execution per key |
| ledger (`core/ledger`) | entries in a hash chain | append, list, verify, Merkle root and proofs | head read, then written an await later | one chain; a proof of inclusion proves one entry |
| reputation (`core/reputation`) | accumulators, snapshots | ingestReceipt, ingestSignal, issueSnapshot, getSnapshot | throws after the money moved; signatures that end in any order | one count per receipt; abuse never raises trust |
| stake (`features/settlement/stake`) | stake rows | stake, tip | several bonds, several currencies | reputation shows what is held |
| mailroom (`features/mailroom`) | messages, threads, postage, flags | send, flag, inbox, webhooks | cap checked, hold, then recorded; the outcome of a flag recorded after a signature; state stored before the agreement is built | postage settles once; a thread's state follows its messages; an agreement binds what was quoted |
| board (`features/board`) | posts in a hash chain, flags | post, tombstone, flag, query | chain head read before the fee and the append; ids reused; pages over a changing rank | one chain, verifiable at every length; no post without its fee or its receipt |
| registry (`features/registry`) | listings, quotes | publishListing, query, issueQuote | listings read before reputation is resolved and quotes are signed | quotes bind one published body; no better offer behind a worse one |

Interactions: the escrow calls the wallet for every movement of money, the approval queue to park
a dispute or a timeout and to redeem the ruling, the ledger and reputation for each receipt. The
facilitator calls the signer (which calls the evaluator, the approval queue, the identity service
and the wallet's usage), a rail (the dev rail calls the wallet), the ledger, reputation, and
`recordSpend`. Mailroom and board use the wallet through a value-transfer port and tell reputation
of abuse; stakes are holds of the wallet, entries of the ledger and a number in reputation. The
registry asks reputation for every provider it ranks. Every service verifies requests through
`verifySignedObject` (identity and nonce store), and governance writes delegations and rulings
that the signer reads.

## 2. Modules

| Module | Models |
|---|---|
| `Wallet` | what the wallet promises: each operation one atomic step on balances and holds |
| `WalletLock` | `WalletService` await by await: the promise chain of `withLock`, the reads and writes of rows inside, the hold lookup before it; implements `Wallet` |
| `ApprovalQueue` | enqueue, resolve, consume, as their callers see them |
| `EscrowPromise` | what an escrow promises about money, without requests, rulings or clocks |
| `Escrow` | one contract: every handler of `EscrowService`, over `Wallet` and `ApprovalQueue`; implements `EscrowPromise` |
| `Payment` | one agent paying one payee: facilitator, signer policy, idempotency and nonce stores, approvals, rail, spend accumulator |
| `Mailroom` | messages, threads, postage, flags and agreements, over `Wallet` |
| `Board` | posts, tombstones, flags, queries and anchors, over `Wallet` |
| `Ledger` | the hash chain, its check, Merkle root and proofs, as operators on a sequence of entries |
| `Trust` | reputation and stakes, over `Ledger` and `Wallet` |
| `Policy` | the evaluator: policy, action and usage to allow, deny or needs_approval |
| `Identity` | passports, signed objects, nonces, delegations, the governance plane, over `Policy`, `ApprovalQueue` and `Ledger` |
| `Registry` | listings, discovery, quotes |
| `WalletRegistryProofs`, `EscrowProofs`, `PaymentProofs`, `BoardProofs`, `IdentityProofs`, `MailroomProofs`, `TrustProofs` | proofs, for every value of the constants |
| `SetLemmas` | facts about sets, sums and least elements that the proofs share |
| `MCWalletLock`, `MCEscrow`, `MCPayment`, `MCMailroom`, `MCBoard`, `MCTrust`, `MCIdentity`, `MCRegistry` | model values for TLC |

### The wallet

`Wallet` has one action per method. Amounts are naturals, the code's are exact decimals: only
order, sum and difference are used. A call that throws changes nothing and is the absence of a
step. `external` is a history variable, the net value that left the wallets.

`WalletLock` cuts every method at its awaits. `tail[k]` is `locks.get(k)`; `Enqueue` is the
synchronous prefix of `withLock`: it reads the tails into `prior` and publishes the new tail. A
call enters (`Enter`) when every promise in `prior` has settled; `Leave` settles its promise and
`Unlock` is the `finally` block, which drops the tail only if it is still the call's own. `Look`
is the hold lookup that `release`, `capture` and `forfeit` make *before* they queue.
`Look` and the settlement are apart: two calls that name one hold could both pass the check. No
caller does that (the escrow: theorem `MoneyAsPromised`), and `Look` excludes it: no two calls in
progress name one hold.

### The escrow

A request is a process `p` with a record `job[p]`: its operation, its phase and the list of wallet
tasks it has left. `turn` is the request that is running; while it is one, nothing else runs.

| Phase | The handler is | Next |
|---|---|---|
| `verify` | awaiting the party's signature (`verifySignedObject`) | `Open`, `Deliver`, `Accept`, `DisputeDecided`, `DisputeEscalated`, `Resolve`, or `Reject` |
| `run` | running: one wallet operation at a time | `LockFunds` ... `Frivolous`, `Skip`, `Throw`, then `Store`, `Finish` or `FinishResolve` |
| `sign` | awaiting the signature of a receipt (`issueReceipt`) | `IssueReceipt`, or `ReceiptClashes` |
| `rate` | awaiting the signature of the reputation snapshot | `ReturnStake` after a settlement, `ForgetBond` after a penalty |

`RequestX` makes the checks before the signature (`requireOpenish`), the action named like the
method those after it. The handler's wallet operations are the `todo` list: `DisputeTasks` is the
slash, refund and return of the bond in the order of the code, `SettlementTasks` what
`settleDisputeEscalation` and `settleTimeoutEscalation` do, `FinalSweep` is
`refundRemainingPending`. A task that finds nothing to do is `Skip`; one that the wallet refuses is
`Throw`: the request ends and what it did stays done. The escrow record is one live object in the
code (the repository returns references): requests see each other's changes immediately.

`currency` is what has become apparent of the payee's: nothing yet, this contract's currency, or
another, in which it has settled elsewhere. A receipt that moved value fixes it, or is refused
(`ReceiptClashes`: `addValue` throws): the money has moved and the receipt is in the ledger, and the
rest of the handler, the stake's return and the record's state included, is not run. `Clashed` says
that this has happened.

`onTimeout` verifies no signature; no route calls it, an external scheduler is expected to.

Data is abstracted to what decides: a delivered hash is `match` or `mismatch` (of the `expected`
checksum), acceptance is `checksum` (settles at delivery), `checked` (a hash decides a dispute, not
the delivery) or `judged` (subjective). An escalation keeps the approval id, the agent and the
milestones. The slashed share is the code's quotient, rounded to whole units.

### The payment

`Payment` is one pair of agents, one currency, any number of quotes and keys. A call is a process
`p` with a record `job[p]`, cut at the signatures it awaits:

| Phase | The call is awaiting | Next |
|---|---|---|
| `payload` | the verification of the payer's signature (`verifySignedObject`) | `Reject`, or the policy: `Sign`, `Redeem`, `Park`, `Deny` |
| `sign` | the signature of the wallet signer (`signWithinPolicy`) | `Settle` or `RailRefuses` |
| `receipt` | the signature of the receipt (`signDetached`) | `Record`: ledger, then reputation |
| `rate` | the signature of the reputation snapshot | `RecordSpend`, and the call answers |
| `join` | another call with its key (`inFlight`) | ends with that call |

`Start` is everything from the idempotency lookup to the first of these: the nonce is consumed and
the key is taken in one turn. `End` releases the key and ends the calls that joined, as the
rejection or the result of the shared promise does. A result is cached by `Park` and
`RecordSpend` only. The signature of the quote is awaited before any state is read, so a call
begins after it; the first call of the handshake, without a payment, and the replay of a key that
is done change nothing and are no steps.

`Revoke`, `Expire`, `NextDay` and `Rule` are the kill switch, the delegation's expiry, the UTC day
and the supervisor, at any time. `Clash` says that the payee has settled in another currency
before: reputation then throws after the transfer (`Record` ends the call). `threshold` is chosen
among `Thresholds` at first and does not change (an update of the policy is in `Identity`). The
ruling of an approval is redeemed with the quote as its subject: agent, payee and amount are the
quote's here. A rail that refuses costs the approval, and a parked key answers `parked` for ever;
the code says both are intended.

### The mailroom

A message carries a number (`msg_id`), a type, a thread, the hold of its postage and, when it is a
QUOTE, a quote id with its terms (price and milestones, one value of `Terms`). `log` is the
repository: the index of a message is the cursor that `inbox` hands out. `Deliver` and `Refuse` are
the two ends of `send` after the signature is verified, one turn of the event loop each: the cap of
the day, the hold, the record of the postage, the thread's next state and, for an ACCEPT, the
agreement; `Refuse` is an illegal message, whose postage is refunded while the day's allowance stays
used. The agreement's terms are looked up as `deriveAgreedTerms` does: the first QUOTE with the id in
the inbox of the ACCEPT's recipient, or else of its sender (`QuotesFound`, `AgreedTerms`), of which
the first `ScanLimit` messages are read (1000 in the code). An agent writes to its `Peers`, itself
included where the run says so; the code compares the two nowhere. A message may take any id that is
stored, of whichever sender (`Ids`).
`NextState`, `OpensThread` and `LegalSelfTransition` are the state machine of
`domain/message.ts`. What is stored under a number is the message stored last, since a retry with a
fresh nonce replaces it there (`MessageAt`). `FlagLegit` and `FlagSpam` settle the postage;
`RecordForfeit` records the outcome when the snapshot that the penalty causes has been signed.
`Poll` is a reader that asks for the page after its cursor; `seen` and `since` are its own.
Authorisation is a set of agents (`Delegate`): the evaluator's part in it is in `Policy`.

### The board

`Publish` reads the head of the chain and holds the fee; `Store` or `Conflict` is the append. The
repository promises that a concurrent post conflicts and never forks the chain, so requests
interleave between the two although the adapter in memory answers in the same turn. A hash is
modelled by what it is the hash of, the order of the posts. `Tombstone` is a retraction by the
author, `Flag` the whole of `flag`: an upheld flag calls `forfeit` with the id of the post, which
is no hold (see `board_flag`). `Query` is one page for a reader: filter, score (in ten thousandths,
signals in whole percents), rank, cut, cursor. `Settle` is a receipt that a payment puts in the
ledger, the evidence of a WORK_RECORD. Subscriptions are stored and read by nothing.

### Ledger and trust

`Ledger` has the entries as a sequence whose hash field is the term of what is hashed: two hashes
are equal when what they are hashes of is. `MerkleProofs` and `VerifyProof` are level by level as
the code computes them, with the last node of an odd level its own sibling.

In `Trust`, `Settle` appends a receipt and delivers it to reputation, `Redeliver` delivers it again,
`Signal` is a report of abuse and `Stake` a bond, in each case up to the snapshot that is signed
last: `signing` are the snapshots in progress and `Cache` stores one, in any order. `Fold` is
`ingestReceipt` on a copy of the accumulator, `computeTrust` the formula in whole percents. A
receipt of another currency than the first throws and the copy is dropped (`Coherent`). A wallet
account is an agent and a currency.

### Policy, identity and governance

`Policy` is the evaluator's decision procedure, with patterns over dotted segments and money in a
currency: amounts of two currencies are not compared (`throw`), what was spent in another currency
counts as nothing, and a threshold in another currency asks nobody.

In `Identity` a call is in progress while it awaits the verification of an object (`verify`) or the
signature of a reissued delegation (`sign`). `Receive` is all before the first: the checks of
`register`, `rotate` or `revoke`, the time window, and the nonce, which is consumed whatever becomes
of the object. The passport it read is kept in the call and written back by `Accept`. `seen` is the
nonce store with its pruning. `UpdatePolicy` and `FinishUpdate` are the two halves of `updatePolicy`,
`Kill` and `ResolveApproval` run in one turn; each audits in the ledger. `Park` and `Redeem` are an
action of the agent whose decision needs a ruling. A delegation's first issue is in the initial
state: the code seeds it.

### The registry

`Publish` and `Store` are `publishListing` before and after its signature; `Ask`, `Read`, `Resolve`,
`Rank` and `IssueQuote` are a query: its signature, the listings, one reputation at a time (each may
await a snapshot), the filter and the rank, and one signed quote per match. A listing body has no
nonce and may be sent again. Descriptions are counts of words, similarity is the cosine compared
with one half; scores are weighted sums of whole percents, and a match's place is one more than the
candidates that outrank it, by score or, on a tie, by id. `Rate` is reputation changing meanwhile.

## 3. What TLC checks

Passing runs. Each asks one question of the system; the type invariant is part of one property of
every module (`PostageMetered`, `PostsBacked`, `Measured`, `AcceptedOnce`, `QuotesBind`), except
where the proofs establish it.

| Run | Shows |
|---|---|
| `wallet_lock` | three concurrent calls, interleaved at every await: `SerialInOrder`, `LocksDrain` (the lock map holds the last call on a wallet until it returns, and no other), the service implements `Wallet` (no overdraft, each operation atomic), and calls never wait for each other in a circle (`EveryCallAnswers`) |
| `escrow` | one request at a time, two milestones, stake, bonds, rulings, an arbitrated timeout, and receipts that are refused: `AwaitsRuling`, `RulingDecides`, `SlashProven`; an escrow that has ended leaves nothing locked, unless a hash decided its dispute (`Complete`); with a scheduler, a supervisor and a party that asks it always ends, unless a receipt is refused (`EventuallySettles`) |
| `escrow_race` | two overlapping requests with bonds, rulings, timeouts, redelivery and refused receipts: `PaidWhenReleased`, `NamedHoldsActive`, `BooksAgree`, `StakeSettles`, once the requests let in before are over nothing acts on an ended escrow (`FinalState`) or on an escalated one before its ruling is redeemed (`StayLocked`), and the escrow implements `EscrowPromise` |
| `payment` | two overlapping calls, two keys, two quotes, three signed payments, two approvals: `ChargedOnce`, `PaymentOnce`, `ApprovalBuysOnce`, `OvershootBounded`, `BooksAgree`, `KillStops`, `EveryCallAnswers` |
| `mailroom` | a buyer and a seller negotiate, retry, reuse ids and flag: postage is metered over days (`PostageMetered`), flags that overlap a penalty's signature settle it once (`FlagsSettle`), threads and inboxes are what the messages say (`LogDecides`), and the wallets below stay sound (`WalletSound`: earmarks, conservation, settled holds final) |
| `mailroom_agreement` | two agents that may write to themselves, two quotes with two terms each, two threads: agreements bind what was quoted (`AgreementBinds`: one per thread, its last quote, the terms first offered under that id to some agent) |
| `board` | two requests between head and append, ids reused, fees that run out: the chain never forks and every prefix is anchored (`ChainVerifiable`), posts are paid for or earned (`PostsBacked`), and no page repeats a post (`NeverGivenTwice`) |
| `trust` | receipts delivered again at will, flags, bonds and overlapping snapshots: reputation is the sum of the receipts (`Measured`), the stake it shows is held (`StakeBacked`), the ledger can be audited with inclusion proofs (`Auditable`), and a flag never raises trust (`AbuseCosts`) |
| `identity` | signed objects replayed around the expiry of their nonces, updates that overlap a kill: `AcceptedOnce`, `Governed` (a kill holds, the audit trail tells what is in force), `MandateHolds` (the evaluator is monotone, and a ruling lifts the threshold only) |
| `registry` | listings published, updated and sent again while queries resolve reputation and sign quotes: `QuotesBind`, `DiscoveryFair` |

Runs that find the code to disagree with what the repository says of it (the counterexample is
the behaviour of the code; details in `PROJECT.json`, "findings"):

| Run | Disagreement |
|---|---|
| `payment_overlap` | two payments that overlap are cleared against the same spend and exceed the cap together |
| `board_flag` | an upheld flag forfeits a hold under the id of the post, which the wallet does not know: the fee stays with its author and the request throws after the flag has been counted |

Other disagreements are modelled and described in section 6.

### Bounds

*Wallet.* Three calls make every shape of queue on two keys: a chain, a call on both, one behind it.
Each operation touches at most two rows and one hold.

*Escrow.* Two milestones distinguish "this one", "the other" and "all"; two requests in progress
make every pairing of handlers (the proofs cover any number); six holds are two funds, a stake and
bonds, and `HoldsLeft` bounds the ids that remain without blocking a handler half way. A timeout
that is not arbitrated refunds in `escrow_race`; one that releases is left to the proofs. `Horizon`
and `DeliverBy` place a timeout before, at and after the end of the dispute window. `Seed` includes
parties too poor for the contract. Nothing is known of the payee's `currency` at first, so that the
first receipt to move value may be refused or not; once one was, every later one is. `Redelivery`
and `Opener` separate known disagreements from the rest: the race run has redelivery and its
properties hold in spite of it; `Opener` with one process says that the contract is submitted once.

*Payment.* Two calls make every overlap of two, and a third can follow: three nonces are three
signed payments, of which two can share a scope and two can share the day. The prices 1 and 2 lie on
both sides of the threshold 1, and `Thresholds` has 2 as well, so that the dear quote needs an
approval or does not. `Daily` 2 and `Total` 3 are reached by two payments; `Funds` 3 lets the rail
refuse the next. Two days (`LastDay` 1) make the bucket roll over once.

*Mailroom.* Four messages are a negotiation to the end (request, quote, accept, and one more); four
holds let some of them be refused instead; three ids leave each run a message under an id that is
taken. With a cap of 4 and a postage of 2 the third message of a day is over it, and two days roll
over once; funds of 5 cannot pay for three. Two threads let a reply land in the wrong one; a page of
one makes every poll a page. The agreements have a run of their own, where quotes and terms are two
each, interchangeable (symmetry), postage is plenty and nobody polls or flags, since neither enters
an agreement; there a quote id is offered twice, in one thread or two, to the other or to oneself. A
`ScanLimit` of 2 leaves some quote out of reach. In `mailroom` one quote is enough.

*Board.* Three posts are the least in which a third can be appended between the head and the append
of another; two requests do that; a page of two of three posts has a next page. Three holds and
funds of 2 let the fee run out. `MaxFlags` is 1 where flags only count and 2, the threshold, in
`board_flag`.

*Trust.* Three receipts, of two clients and two currencies, one refunded; two bonds of one agent in
any currency; five entries are all of these; two snapshots in progress end in either order. Five
leaves make an odd level of the Merkle tree at two heights.

*Identity.* Five signed objects: a registration of the org and of its agent, a rotation and two
revocations, which reuse nonces across objects (`n1`, `n3`) after they have expired. Two instants of
expiry, `Skew` 1 and `Horizon` 2 place a replay before, at and after expiry, inside and outside the
skew. Two processes overlap two updates, or an update and a verification. The two policies differ in
every field; the fourteen actions and six usages reach every branch of the evaluator, two currencies
included. `MaxEntries` 2 is an update and a kill, or two updates.

*Registry.* Two listings of two providers, one with a second version, one submission that names the
other's listing and one whose signature fails; an exact and a semantic query with different weights,
of which two can run at once. `Horizon` 1 lets the listing that expires at 1 expire.

Deadlock checking is off where the system may stop: when every call has returned, when an escrow has
ended, or the bounds leave nothing to do.

### Fairness

`wallet_lock` and `payment` assume weak fairness of each call's step: the event loop resolves the
promises that a call awaits.
`escrow` assumes that the event loop serves every request (weak fairness of `Begin` and
`Continue`), that time passes, and that a scheduler keeps calling `onTimeout`, a supervisor keeps
ruling and a party keeps asking for the resolution, each strongly fair since other requests may
come first any number of times. None of the last three is in the code: they are what it relies on.
The other modules state no liveness: nothing in them has to happen without a client that asks.

## 4. What is proved

Every safety property that a passing run checks, and both refinements, are theorems for every value
of the constants; the two liveness properties stay with TLC.
A property is seldom inductive as it stands: each proof module first states the invariant that is.

| Module | Theorems (properties) | Hypotheses beyond the types of the constants |
|---|---|---|
| `WalletRegistryProofs` | `TypesCorrect`, `LockSerialises` (`SerialInOrder`), `LockExcludes`, `LockMapDrains` (`LocksDrain`), `ServiceImplementsWallet` (`ImplementsWallet`) | none |
| | `QuotesAlwaysBind` (`QuotesBind`), `DiscoveryIsFair` (`DiscoveryFair`) | none |
| `EscrowProofs` | `EndIsFinal` (`FinalState`) | none |
| | `TypesCorrect`, `FundsFollowMilestones` (`PaidWhenReleased`), `NamedHoldsUsable` (`NamedHoldsActive`), `StakeComesBack` (`StakeSettles`), `BooksBalance` (`BooksAgree`), `DisputedStayLocked` (`StayLocked`), `MoneyAsPromised` (`ImplementsPromise`) | `SingleOpener` |
| | `DisputeAwaitsRuling` (`AwaitsRuling`), `RulingsDecide` (`RulingDecides`), `SlashIsProven` (`SlashProven`) | `OneRequest`, `~Redelivery` |
| | `NothingStaysLocked` (`Complete`) | `OneRequest`, `~Redelivery`, `AllJudged` |
| `PaymentProofs` | `TypesCorrect`, `PaymentPaysOnce` (`PaymentOnce`), `ApprovalClearsOnePayment` (`ApprovalBuysOnce`), `NothingClearedAfterKill` (`KillStops`), `OvershootIsBounded` (`OvershootBounded`) | none |
| | `KeyChargesOnce` (`ChargedOnce`), `BooksAlwaysAgree` (`BooksAgree`) | `~Clash` |
| `BoardProofs` | `ChainNeverForks` (`ChainVerifiable`), `PostsHaveBacking` (`PostsBacked`), `PagesNeverRepeat` (`NeverGivenTwice`) | none |
| `IdentityProofs` | `ObjectsTakeEffectOnce` (`AcceptedOnce`), `GovernanceHolds` (`Governed`), `MandatesAreSound` (`MandateHolds`) | none |
| `MailroomProofs` | `PostageIsMetered` (`PostageMetered`), `FlagsAreSettled` (`FlagsSettle`), `WalletIsSound` (`WalletSound`) | none |
| | `LogIsDecisive` (`LogDecides`), `AgreementsBind` (`AgreementBinds`) | `~ReuseThread` |
| `TrustProofs` | `MeasuredFromLedger` (`Measured`), `StakeIsBacked` (`StakeBacked`), `LedgerAudits` (`Auditable`), `AbuseNeverPays` (`AbuseCosts`) | none |

Each hypothesis excludes a known disagreement (section 6) that breaks properties of its rows. A
receipt that reputation refuses is no hypothesis of the escrow: the properties that it breaks
(`StakeSettles`, `AwaitsRuling`, the stake in `Complete`) name it (`Clashed`), and hold until it comes.
`SingleOpener`: one request opens the contract. `OneRequest`: requests to one escrow do not overlap
at their signatures. `~Redelivery`: nothing is delivered again after a refund. `AllJudged`: every
dispute is escalated, none is decided by a hash; with it `NothingStaysLocked` says in addition that
the exception in `Complete` never applies. `~Clash`: the payee settles in one currency.
`~ReuseThread`: an opening message names a thread of its own. The run of a property meets all of
them but `AllJudged`, which `escrow` does without: there `Complete` has its exception.

The assumptions about the constants are the types of the code's values (`EscrowAssumption`, ...)
and three facts about the models themselves: null is none of the ids it stands beside, the sets of
calls, agents and holds that are summed over are finite, and `Payment` has a call at all.

### The invariants

*Wallet.* `LockInv` says what `prior` and `tail` contain: every tail is the youngest call queued on
that key, and every call has in `prior`, or behind something in it, all the older ones on its keys.
For the refinement `CallInv` adds that a call holds the locks of the rows it writes, that a hold
exists only from the last step of the call that placed it, and that a call which settles a hold
is the only one and finds it active until it marks it. Each write is then one step of `Wallet` or a
stutter. The other services use `Wallet`: this theorem is what allows them to.

*Escrow, any overlap.* `IInv` ties the requests to the money:

* `JobInv`: a request's phase, tasks and operation fit; only the opening works without a record,
  only the request whose turn it is runs;
* `PlaceInv`: what the opening has placed is active and distinct, and each milestone without a
  hold still has its lock ahead, so that `Store` finds one for every milestone;
* `MoneyInv`: every milestone has its own hold, in the state its own state tells; the stake is the
  pledge while it is active; the bond is none of them, and active unless a ruling's penalty is
  being signed;
* `StakeInv`: when everything is settled and the stake is not, a settlement is still in
  progress that will look at it, or a receipt has been refused.

`BooksInv` adds a receipt, stored or being signed, for each hold that has moved, and the sum that
was captured. The proof goes by layers: types and jobs (`Shape`) per action, money per action
(`MoneyStep`, which also maps the step to a step of the promise), the opening, then the books.
`LockEffect`, `ReleaseEffect`, `CaptureEffect`, `ForfeitEffect` say what a wallet operation changes:
one hold.

*Escrow, one request at a time.* `OneInv` says that the request works on the record it was checked
for (`StageInv`), that the milestones a ruling is asked about wait for it until it is redeemed
(`RulingInv`), that funds stay locked until their milestone is settled (`LockedInv`), and that the
tasks ahead name no milestone twice without looking and none that is settled (`PlanInv`). With it the
wallet refuses no handler half way (`NoThrow`); what is left is the receipt that reputation refuses,
after which `StageInv` asks less of a disputed record at rest. `DecideInv` adds that the first task
ahead for a milestone is the one that was ruled, `HalfInv` that where the request was cut short
nothing went the other way, `SlashInv` that a slash is followed by the refund of the lost dispute,
`CompleteInv` that a request which ends the escrow has a task for all that is not settled and for
the bond. What the task lists contain is proved once per list (`SolePlan`, `AheadSettlement`,
`RulingClean`, `CoveredSettlement`, ...), that it survives a step once for a tail and once for a
concatenation; each step of a request is one of four kinds (`WorkSteps`).

*Payment.* What a payment may not repeat has to be tied to the call that is still to make it: the
calls that execute have scopes that are running and consumed nonces, no two the same (`RunsInv`); a
nonce that has paid is no unpaid call's (`NonceInv`); a cleared call over the threshold, and a
payment it has made, hold a consumed approval for their quote that nobody else holds (`ClearedInv`,
`PaidInv`). `ScopeInv` adds that a running scope is not done and that one that has paid is done with
a receipt or has a call on its way there: this is the part that a clash breaks. For the caps,
`OvershootInv` counts what is cleared and not yet recorded: a call is cleared within the caps of what
is recorded, so each call in progress adds at most one transaction maximum.

*Board.* `BoardInv`: a request's head was the head of the chain once (`HeadWasRead`), holds of posts
and of requests are apart, a reader has been given nothing that is not behind its cursor.

*Registry.* `RegistryInv`: what is stored was published, each body under its own id and with the
provider that the id has now (`StoreOK`); a call goes on with listings of different ids that were
all published (`CallOK`), so that any match it quotes is one published body (`QuoteOK`). For the
fairness of the rank, each signal of the score grows with what it measures (`PriceMore`,
`LatencyMore`, `StakeMore`, `SchemaMore`, `FreshMore`), and so does the score, under all weights and
with every quotient rounded down (`ScoreMore`). The order of the scores is total on listings of
different ids; hence the places are 1 to n, each taken once (`PlacesDiffer`, `PlacesTaken`), and the
match at an index is the one at that place (`RankedFacts`). One module proves about both
`WalletLock` and `Registry`; their names differ, and those of `Registry`'s specification carry its
name.

*Identity.* `IdentityInv`: the nonce of an object that is verified or has taken effect is remembered
until the object has expired, and one call at a time verifies it (`OnceInv`); the ledger's last word
on each policy, kill and ruling is what is in force, whatever is being signed (`AuditInv`). That the
evaluator is monotone is proved of every policy, amount and usage.

*Mailroom.* `MoneyInv`: holds belong to one message each, flags and penalties fit, the sums of the
wallet and of the postage. `ThreadInv`: the state and the quote of a thread are those of its messages,
replayed.

*Trust.* `TrustInv`: the accumulator of an agent is the sum of its receipts in the ledger, field by
field, and its stake that of its bonds. The levels of the Merkle tree shrink to
one node (`HeightReached`), the proof of a leaf leads from it to the root (`ProofLeadsUp`), and one
proof leads two leaves to one root only if they are the same leaf (`FoldIsInjective`), which the
entries of the chain never are (`HashesDiffer`).

`SetLemmas` has the facts that these proofs share: least elements, maxima, cardinalities, sums over
finite sets and what a step adds to them. Sums, levels and replays are defined by recursion; what is
proved of them is by a smallest counterexample (`LeastNat`, `SmallestSet`), since
the library's induction theorems take an operator as a parameter.

### Only model-checked

* Liveness (`EveryCallAnswers`, `EventuallySettles`): fairness and ENABLED are beyond the prover.

## 5. Plan and what is not modelled

The state machines of all services are modelled, and their safety is proved. What the project has
left, in this order:

1. The properties of one request at a time (`AwaitsRuling`, `RulingDecides`, `SlashProven`,
   `Complete`) under a weaker hypothesis: requests that overlap as long as none is in verification
   when a dispute escalates. `~Redelivery` stays: with a milestone under a checksum
   (`ChecksumChecked`) and `Redelivery` TRUE, TLC finds each of the four violated by one process.
2. Composition: the opening of an escrow that is parked for approval (`parkOrDeny`); the escrow and
   the payment in one wallet.

Not modelled, and why:

* the application shell, routes and validation schemas: no state of their own;
* cryptography and encodings: assumed correct, a signature is an await with an outcome;
* `prisma/schema.prisma`: no code uses it; nothing is persisted, so there are no crashes to recover;
* tips: `tip` asks the evaluator for a spend without a category, which it always denies;
* board subscriptions and webhook delivery: stored and read by nothing;
* `dryRun` and `getListing` of the registry: they change no state;
* the signature of an agreement, awaited last: nothing is changed after it; its `listing_ref`, which
  is the thread's;
* the external x402 service, beyond its answers.

## 6. Known disagreements

What the code does against its own documentation or against what its callers would expect, in the
models' terms, without a run each. Where a property or a constant is named, the model shows it:
check the property, or change the constant in the module's cfg.

**Wallet and escrow**

* An opening that runs out of funds half way leaves holds that no record names (`Throw`,
  service.ts:137).
* A retried opening passes the existence check before the first is stored: with two processes in
  `Opener`, `OpenedOnce` fails and the first contract's holds are named by nobody (service.ts:104).
* A dispute decided by a checksum ends the escrow with other milestones pending for ever
  (`NothingPending` fails in `escrow`; service.ts:355).
* A receipt is refused when the payee has settled in another currency, after the money moved
  (service.ts:654): the stake stays held though all is settled (`StakeReturns` fails in `escrow`),
  against service.ts:531-532, and a dispute whose ruling was being redeemed stays disputed with
  nothing to redeem (`RulingToCome` fails), against 432-433; one that a hash was deciding does too.
* A refunded milestone that is delivered again (`Redelivery`) leads to a dispute that throws half way
  and locks the escrow with no escalation: `AwaitsRuling` fails in `escrow_race`. With one process and
  a milestone under a checksum it fails too, and so do `SlashProven` (the stake is slashed before the
  refund throws) and `RulingDecides` (service.ts:193).
* A request in verification settles a milestone whose dispute has escalated meanwhile, or one of an
  escrow that has ended: `StayLocked` and `FinalState` hold only once such requests are over. For
  the same reason two overlapping disputes both escalate and the record keeps only the second bond
  (service.ts:183).
* A lost dispute on one milestone forfeits the whole stake, where the comment at service.ts:512-514
  promises a share and the one at 519-522 says it does not happen.
* `WalletService` by itself would settle one hold twice if two callers named it at once
  (wallet/service.ts:133). No caller does.

**Payment**

* When the payee has settled in another currency before (`Clash` TRUE), reputation throws after the
  money moved; the key is free and a retry charges again: `ChargedOnce` fails (facilitator
  service.ts:248).
* A rail that refuses costs the approval, and a parked key answers `parked` for ever; both are
  intended (facilitator service.ts:181-182).

**Mailroom**

* An agreement takes its terms from the first QUOTE with its id in the inboxes of the two parties,
  whatever thread it was sent in, whoever sent it and whatever was quoted under the id since:
  `AgreementTermsOfThread` fails in `mailroom_agreement` (mailroom service.ts:414-435, against 389-390). The scan reads the
  first 1000 messages of an inbox: a quote beyond them is not found, and the ACCEPT throws.
* An ACCEPT is stored and its thread AGREED before the agreement is built, which may throw; the
  thread cannot be accepted again: `AgreedMeansAgreement` fails (mailroom service.ts:201-207).
* An opening message may name the thread of others (`ReuseThread` TRUE): it starts their state
  machine again, and the state on record is no longer a replay (`LogDecides` fails; 175-177, 326).
* Parties of a reply are not checked against its thread. An agreement names the opener as the
  requester, also when the opener is the provider (`AgreementOf`).
* A message under an id that is taken, a retry or not, replaces the first: the first's postage can no
  longer be flagged and stays held. Postage is refunded by a flag only, never by the reply that `outline.md:546` promises.
* Refused messages use up the day's allowance although their postage is refunded (`Refuse`).

**Board**

* A full page's cursor is the highest number in it, while the page is ranked: what ranks lower and
  has a lower number is skipped, and a null cursor does not mean the reader has seen all
  (`DrainedIsComplete` fails; board service.ts:200-203).
* A post that loses the append keeps its fee held, with no post to release it (`Conflict`).
* Flags of every category count towards the threshold, though only abuse is described; a TOMBSTONE
  sent as a post, not as a retraction, has no check of the target's author (`MayPost` with
  TOMBSTONE); several WORK_RECORDs may name one receipt.

**Trust**

* Two snapshots of one agent are signed at once and the older may be stored last: it is answered
  until it expires (`NeverStale` fails; reputation.service.ts:178).
* Reputation shows the bonds in the currency bonded last, not all; no code unbonds or slashes a stake.
* Receipts of a second currency throw and are never counted (`Coherent`).

**Identity and governance**

* `register` and `rotate` write back what they read before the signature: of two overlapping
  rotations one is lost (`Accept`; core/identity/service.ts:106).
* Two overlapping policy updates both record the policy before the first as `before`: the audit
  entries do not chain (governance/service.ts:90-99).
* A revocation by the controller is not audited, the kill switch is. The nonce of an object whose
  signature fails is consumed (`Verify`).
* Caps in another currency than the payment make the evaluator throw instead of deny; a threshold in
  another currency never asks for an approval (`Against`, `ApprovalTail`).

**Registry**

* A listing has no nonce: an old signed body sent again replaces a newer version, and a new one sent
  again is a second listing (`Store`).
* A quote outlives its listing: `domain/quote.ts:1` says it is void when the version changes, and
  nothing looks.
* The stake that is ranked is the one the provider declares (`StakeScore`), not what is bonded.
