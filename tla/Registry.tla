------------------------------ MODULE Registry ------------------------------
(***************************************************************************)
(* Discovery (features/registry): providers publish signed listings, a     *)
(* query is answered by a hard filter, then a rank over what is left, and  *)
(* every match carries a quote that the registry signs.                    *)
(*                                                                         *)
(* A call is cut at the signatures it awaits, those of the snapshots that  *)
(* reputation signs again among them; the listings it has read are what it *)
(* goes on with.  Signals are whole percents, rounded down: scores closer   *)
(* than that are ties.  The nonce of a query is used once (the lifetime of *)
(* nonces is in Identity); a listing has none and may come again.          *)
(***************************************************************************)
EXTENDS Integers, Sequences, FiniteSets, FiniteSetsExt

CONSTANTS
  Provider, Currency, Taxonomy, SchemaRef, Rail, Version,
  Token,        \* words of a description
  Submission,   \* signed bodies that may be published, each any number of times
  CapabilityQuery,  \* signed queries that may be asked
  Reputations,  \* what reputation may say of a provider
  QuoteTtl, FreshnessHorizon, StakeSaturation,
  Proc,         \* calls that may overlap
  MaxListings,  \* bound: listing ids
  MaxQuotes,    \* bound: quotes stored
  Horizon,      \* bound: time goes from 0 to Horizon
  None          \* a field that is absent

VARIABLES
  listings,     \* MemoryListingRepo
  quotes,       \* MemoryQuoteRepo
  asked,        \* queries whose nonce was consumed
  reputation,   \* what the reputation port answers, by provider
  job,          \* the calls in progress
  now,
  published     \* history: what has been stored as a listing

registryVars == <<listings, quotes, asked, reputation, job, now, published>>

ListingId == 1..MaxListings
Status == {"active", "deprecated", "suspended", "retired"}
Text == [Token -> Nat]

Listing ==
  [id : ListingId \cup {None}, provider : Provider, version : Version, status : Status,
   taxonomy : Taxonomy, description : Text, input : SchemaRef, output : SchemaRef,
   price : Nat, currency : Currency, rails : Seq(Rail) \ {<<>>}, p95 : Nat, retained : BOOLEAN,
   stake : Nat, slashable : BOOLEAN, expires : Nat, genuine : BOOLEAN]

Ceiling == [amount : Nat, currency : Currency]
Weights == [price : Nat, latency : Nat, trust : Nat, schema : Nat, stake : Nat]

(* `input` and `output` of a query are None when they are not required;    *)
(* `validated` is must_validate, `private` the tag no-pii-retention.       *)
Query ==
  [taxonomy : Taxonomy, description : Text \cup {None}, semantic : BOOLEAN,
   input : SchemaRef \cup {None}, output : SchemaRef \cup {None}, validated : BOOLEAN,
   ceiling : Ceiling \cup {None}, target : (Nat \ {0}) \cup {None}, private : BOOLEAN,
   minTrust : Nat \cup {None}, minJobs : Nat \cup {None},
   weights : Weights, max : Nat \ {0}, genuine : BOOLEAN]

ProviderReputation == [trust : 0..100, jobs : Nat, settled : Nat \cup {None}]

Quote == [listing : ListingId, version : Version, price : Nat, currency : Currency,
          rail : Rail, issued : Nat, expires : Nat]

ASSUME RegistryAssumption ==
  /\ Submission \subseteq Listing /\ CapabilityQuery \subseteq Query
  /\ Reputations \subseteq ProviderReputation
  /\ {QuoteTtl, FreshnessHorizon, StakeSaturation, MaxListings, MaxQuotes, Horizon} \subseteq Nat
  /\ FreshnessHorizon > 0 /\ StakeSaturation > 0
  /\ None \notin Listing \cup ListingId \cup Reputations

Idle == [phase |-> "idle"]
Phases == {"publish", "query", "resolve", "quote"}

RegistryTypeOK ==
  /\ listings \in [ListingId -> Listing \cup {None}]
  /\ quotes \subseteq Quote
  /\ asked \subseteq CapabilityQuery
  /\ reputation \in [Provider -> Reputations]
  /\ \A p \in Proc : job[p] = Idle \/ job[p].phase \in Phases

Busy(p) == job[p] # Idle
In(p, phase) == job[p].phase = phase
Stored == {listings[i] : i \in {j \in ListingId : listings[j] # None}}

-----------------------------------------------------------------------------
(* The hard filter.                                                        *)
Dot(a, b) == MapThenSumSet(LAMBDA t : a[t] * b[t], Token)

(* The cosine of the two descriptions is a half or more.                   *)
Similar(a, b) == Dot(a, b) > 0 /\ 4 * Dot(a, b) * Dot(a, b) >= Dot(a, a) * Dot(b, b)

CapabilityMatches(q, l) ==
  \/ l.taxonomy = q.taxonomy
  \/ /\ q.semantic
     /\ IF q.description = None THEN FALSE ELSE Similar(q.description, l.description)

Active(l, t) == l.status = "active" /\ l.expires > t

SchemaFits(q, l) == q.validated => q.input \in {None, l.input} /\ q.output \in {None, l.output}

(* Prices of two currencies are not compared: such a listing is dropped.   *)
UnderCeiling(q, l) ==
  IF q.ceiling = None THEN TRUE
  ELSE l.currency = q.ceiling.currency /\ l.price <= q.ceiling.amount

FastEnough(q, l) == IF q.target = None THEN TRUE ELSE l.p95 <= q.target

Reputable(q, rep) ==
  /\ IF q.minTrust = None THEN TRUE ELSE rep.trust >= q.minTrust
  /\ IF q.minJobs = None THEN TRUE ELSE rep.jobs >= q.minJobs

(* hardFilter, at time t and with the reputation of each provider.         *)
Survivors(q, candidates, rep, t) ==
  {l \in candidates :
     /\ Active(l, t) /\ CapabilityMatches(q, l) /\ SchemaFits(q, l)
     /\ UnderCeiling(q, l) /\ FastEnough(q, l)
     /\ q.private => ~l.retained
     /\ Reputable(q, rep[l.provider])}

-----------------------------------------------------------------------------
(* The soft rank.                                                          *)
Clamp(x) == IF x < 0 THEN 0 ELSE IF x > 100 THEN 100 ELSE x

SchemaMatch(q, l) ==
  LET wants == Cardinality({side \in {"input", "output"} : q[side] # None})
      hits == Cardinality({side \in {"input", "output"} : q[side] # None /\ q[side] = l[side]})
  IN  IF wants = 0 THEN 100 ELSE (100 * hits) \div wants

PriceHeadroom(q, l) ==
  IF q.ceiling = None THEN 50
  ELSE IF q.ceiling.amount = 0 THEN 0
  ELSE Clamp((100 * (q.ceiling.amount - l.price)) \div q.ceiling.amount)

(* Mutant: the quotient is turned around.                                  *)
LatencyInverted(q, l) == IF q.target = None THEN 50 ELSE Clamp((100 * l.p95) \div q.target)

Latency(q, l) == IF q.target = None THEN 50 ELSE Clamp((100 * q.target) \div Max({l.p95, 1}))

StakeScore(l) == IF l.slashable THEN Clamp((100 * l.stake) \div StakeSaturation) ELSE 0

Freshness(settled, t) ==
  IF settled = None THEN 0
  ELSE Clamp(100 - (100 * Max({0, t - settled})) \div FreshnessHorizon)

(* The weighted core and a small boost; all weights may be 0.              *)
Score(q, l, rep, t) ==
  LET w == q.weights
      sum == w.price + w.latency + w.trust + w.schema + w.stake
      core == w.price * PriceHeadroom(q, l) + w.latency * Latency(q, l)
              + w.trust * rep[l.provider].trust + w.schema * SchemaMatch(q, l)
              + w.stake * StakeScore(l)
  IN  Clamp(core \div Max({sum, 1}) + (5 * Freshness(rep[l.provider].settled, t)) \div 100)

(* Higher scores go first; ties go by listing id.                          *)
Outranks(score, l, m) == score[l] > score[m] \/ (score[l] = score[m] /\ l.id < m.id)
Place(score, l) == 1 + Cardinality({m \in DOMAIN score : Outranks(score, m, l)})

(* rankSurvivors and the cut at max_results.                               *)
Ranked(q, candidates, rep, t) ==
  LET score == [l \in candidates |-> Score(q, l, rep, t)]
  IN  [i \in 1..Min({q.max, Cardinality(candidates)}) |->
         CHOOSE l \in candidates : Place(score, l) = i]

-----------------------------------------------------------------------------
(* publishListing.                                                         *)
Publish(p, s) ==
  /\ ~Busy(p) /\ s.expires > now
  /\ job' = [job EXCEPT ![p] = [phase |-> "publish", listing |-> s]]
  /\ UNCHANGED <<listings, quotes, asked, reputation, now, published>>

Put(l) ==
  /\ listings' = [listings EXCEPT ![l.id] = l]
  /\ published' = published \cup {l}

Unused == {i \in ListingId : listings[i] = None}

(* An update stays with the provider of the listing it names.              *)
Updatable(l) ==
  IF l.id = None \/ listings[l.id] = None THEN FALSE ELSE listings[l.id].provider = l.provider

(* The signature is looked at, then what is stored.                        *)
Store(p) ==
  /\ In(p, "publish")
  /\ LET l == job[p].listing
     IN  IF l.genuine /\ l.id = None
         THEN Unused # {} /\ Put([l EXCEPT !.id = Min(Unused)])
         ELSE IF l.genuine /\ Updatable(l) THEN Put(l)
         ELSE UNCHANGED <<listings, published>>
  /\ job' = [job EXCEPT ![p] = Idle]
  /\ UNCHANGED <<quotes, asked, reputation, now>>

-----------------------------------------------------------------------------
(* query.                                                                  *)
Ask(p, q) ==
  /\ ~Busy(p) /\ q \notin asked
  /\ asked' = asked \cup {q}
  /\ job' = [job EXCEPT ![p] = [phase |-> "query", query |-> q]]
  /\ UNCHANGED <<listings, quotes, reputation, now, published>>

(* The listings are read; the reputation of each provider comes later.     *)
Read(p) ==
  /\ In(p, "query")
  /\ job' = [job EXCEPT ![p] =
               IF job[p].query.genuine
               THEN [phase |-> "resolve", query |-> job[p].query, all |-> Stored,
                     at |-> now, rep |-> [v \in Provider |-> None]]
               ELSE Idle]
  /\ UNCHANGED <<listings, quotes, asked, reputation, now, published>>

Offering(j) == {l.provider : l \in j.all}

Resolve(p, v) ==
  /\ In(p, "resolve") /\ v \in Offering(job[p]) /\ job[p].rep[v] = None
  /\ job' = [job EXCEPT ![p].rep[v] = reputation[v]]
  /\ UNCHANGED <<listings, quotes, asked, reputation, now, published>>

(* The next match to quote, if there is one.                               *)
Quoting(matches) ==
  IF matches = <<>> THEN Idle
  ELSE [phase |-> "quote", matches |-> matches, issued |-> now]

Rank(p) ==
  /\ In(p, "resolve") /\ \A v \in Offering(job[p]) : job[p].rep[v] # None
  /\ LET j == job[p]
     IN  job' = [job EXCEPT ![p] =
                   Quoting(Ranked(j.query, Survivors(j.query, j.all, j.rep, j.at), j.rep, j.at))]
  /\ UNCHANGED <<listings, quotes, asked, reputation, now, published>>

(* Mutant: the version is the one there is now.                            *)
QuoteOfNow(l, issued) ==
  [listing |-> l.id, version |-> listings[l.id].version, price |-> l.price,
   currency |-> l.currency, rail |-> l.rails[1], issued |-> issued, expires |-> issued + QuoteTtl]

QuoteOf(l, issued) ==
  [listing |-> l.id, version |-> l.version, price |-> l.price, currency |-> l.currency,
   rail |-> l.rails[1], issued |-> issued, expires |-> issued + QuoteTtl]

(* The quote is signed and stored; then the next.                          *)
IssueQuote(p) ==
  /\ In(p, "quote") /\ Cardinality(quotes) < MaxQuotes
  /\ quotes' = quotes \cup {QuoteOf(job[p].matches[1], job[p].issued)}
  /\ job' = [job EXCEPT ![p] = Quoting(Tail(job[p].matches))]
  /\ UNCHANGED <<listings, asked, reputation, now, published>>

-----------------------------------------------------------------------------
(* Around the registry: reputation and the clock.                          *)
Rate(v, rep) ==
  /\ rep # reputation[v]
  /\ reputation' = [reputation EXCEPT ![v] = rep]
  /\ UNCHANGED <<listings, quotes, asked, job, now, published>>

Tick ==
  /\ now < Horizon /\ now' = now + 1
  /\ UNCHANGED <<listings, quotes, asked, reputation, job, published>>

RegistryInit ==
  /\ listings = [i \in ListingId |-> None]
  /\ quotes = {} /\ asked = {} /\ published = {}
  /\ reputation \in [Provider -> Reputations]
  /\ job = [p \in Proc |-> Idle]
  /\ now = 0

Receive(p) ==
  \/ \E s \in Submission : Publish(p, s)
  \/ \E q \in CapabilityQuery : Ask(p, q)

Answer(p) ==
  \/ Store(p) \/ Read(p) \/ Rank(p) \/ IssueQuote(p)
  \/ \E v \in Provider : Resolve(p, v)

RegistryNext ==
  \/ \E p \in Proc : Receive(p) \/ Answer(p)
  \/ \E v \in Provider, rep \in Reputations : Rate(v, rep)
  \/ Tick

RegistrySpec == RegistryInit /\ [][RegistryNext]_registryVars

-----------------------------------------------------------------------------
(* Properties.                                                             *)

(* A quote binds what its provider signed (service.ts:248-275): price,     *)
(* rail and version are those of one and the same body it published,       *)
(* whatever was published while the quote was made; a listing keeps its    *)
(* provider; and the variables have their types.                           *)
QuotesBind ==
  /\ RegistryTypeOK
  /\ \A quote \in quotes :
       /\ \E l \in published :
            /\ l.genuine /\ l.id = quote.listing /\ l.version = quote.version
            /\ l.price = quote.price /\ l.currency = quote.currency /\ l.rails[1] = quote.rail
       /\ quote.issued <= now
  /\ \A l, m \in published : l.id = m.id => l.provider = m.provider

Discovered(q) == Ranked(q, Survivors(q, Stored, reputation, now), reputation, now)

(* l is nowhere worse than m, as its provider and the receipts tell.       *)
NowhereWorse(q, l, m) ==
  LET a == reputation[l.provider] b == reputation[m.provider]
  IN  /\ l.price <= m.price /\ l.p95 <= m.p95
      /\ l.slashable \/ ~m.slashable
      /\ l.stake >= m.stake
      /\ a.trust >= b.trust
      /\ b.settled = None \/ IF a.settled = None THEN FALSE ELSE a.settled >= b.settled
      /\ \A side \in {"input", "output"} : m[side] = q[side] => l[side] = q[side]

Looser(q) == {[q EXCEPT !.semantic = TRUE], [q EXCEPT !.ceiling = None], [q EXCEPT !.target = None],
              [q EXCEPT !.validated = FALSE], [q EXCEPT !.minTrust = None]}

(* Discovery is fair (ranking.ts:5-8, 66-70): who is nowhere worse than a  *)
(* match is a survivor left out or ranked behind it only on equal scores,  *)
(* whatever the weights; and who asks for less finds no fewer.             *)
DiscoveryFair ==
  \A q \in CapabilityQuery :
    LET found == Survivors(q, Stored, reputation, now)
        matches == Discovered(q)
    IN  /\ \A i \in DOMAIN matches, l \in found :
             NowhereWorse(q, l, matches[i]) =>
               \/ \E j \in 1..i : matches[j] = l
               \/ /\ Score(q, l, reputation, now) = Score(q, matches[i], reputation, now)
                  /\ matches[i].id < l.id
        /\ \A r \in Looser(q) : found \subseteq Survivors(r, Stored, reputation, now)
=============================================================================
