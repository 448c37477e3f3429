-------------------------------- MODULE Board --------------------------------
(***************************************************************************)
(* The board (features/board): signed posts in an append-only hash chain,  *)
(* each paid for with a fee hold, retracted by tombstones, flagged, ranked *)
(* and paged through by queries; over the wallet and the ledger.           *)
(*                                                                         *)
(* A post reads the head of the chain, waits for its hold and then appends:*)
(* the repository promises that this never forks the chain (repo.ts:17-18),*)
(* so requests interleave there.  The head's hash names the head: it is    *)
(* modelled by the id of the post it is the hash of.                       *)
(***************************************************************************)
EXTENDS Integers, Sequences, FiniteSets, Functions, FiniteSetsExt, SequencesExt

CONSTANTS
  Did,        \* agents
  PostId,     \* numbers authors give their posts; a retry repeats one
  MayPost,    \* [Did -> SUBSET PostType], types the delegation lets it post
  Now, Created,  \* the day of the queries; [Did -> SUBSET Nat], the days posts claim
  Horizon,    \* days after which a post's recency is 0
  Trust,      \* [Did -> 0..100], reputation of the authors, in percent
  Price,      \* [Did -> 0..100], price of an author's offers, in percent of saturation
  Ask,        \* [reader -> Filter], what each polling reader asks for
  Flagger, Category, \* agents that flag posts, and the categories they give
  Fee, Funds, \* the posting fee, and what each agent has at first
  FlagThreshold, \* flags that uphold
  HoldId,     \* bound: hold rows
  MaxPosts,   \* bound: posts stored
  MaxOpen,    \* bound: requests between the head and the append
  MaxReceipts, \* bound: receipts in the ledger
  MaxFlags,   \* bound: flags stored
  None        \* null

Reader == DOMAIN Ask
PostType == {"OFFER", "RFP", "ANNOUNCEMENT", "WORK_RECORD", "TOMBSTONE"}

Filter == [type : PostType \cup {None}, author : Did \cup {None},
           since : Nat, min_trust : 0..100, max_price : 0..100 \cup {None}, limit : Nat \ {0}]

ASSUME BoardAssumption ==
  /\ {Now, Horizon, Fee, Funds, FlagThreshold, MaxPosts, MaxOpen, MaxReceipts, MaxFlags} \subseteq Nat
  /\ Category \subseteq {"abuse", "other"}
  /\ Fee > 0 /\ Horizon > 0 /\ PostId \subseteq Nat /\ Created \in [Did -> SUBSET (0..Now)]
  /\ Trust \in [Did -> 0..100] /\ Price \in [Did -> 0..100]
  /\ MayPost \in [Did -> SUBSET PostType] /\ Ask \in [Reader -> Filter]
  /\ Flagger \cup Reader \subseteq Did
  /\ None \notin HoldId \cup Nat

VARIABLES
  available, held, hold, external,  \* the wallets
  chain,      \* PostRepo: stored posts; the index is the sequence number
  open,       \* requests that have read the head and not appended
  anchors,    \* board_anchor entries of the ledger
  receipts,   \* receipt entries of the ledger
  flags,      \* FlagRepo: by post id, the abuse and other flags of each flagger
  cursor, given \* of each reader: next_cursor, how often it was given each post

walletVars == <<available, held, hold, external>>
readerVars == <<cursor, given>>
vars == <<walletVars, chain, open, anchors, receipts, flags, readerVars>>

W == INSTANCE Wallet WITH Amount <- {}, Seed <- Funds

Receipt == {r \in [payer : Did, payee : Did] : r.payer # r.payee}

(* `work` is the evidence of a WORK_RECORD; the counterparty has signed or *)
(* not.  `hold` is the fee, None for posts that are free.                  *)
Work == [receipt : Receipt, counterparty : Did, cosigned : BOOLEAN]
Post == [id : PostId, type : PostType, author : Did, created : 0..Now,
         target : PostId \cup {None}, work : Work \cup {None}, hold : HoldId \cup {None}]

(* The post with the fields that link it into the chain.                   *)
Linked == [post : Post, seq : Nat, prev : PostId \cup {None}]

TypeOK ==
  /\ W!TypeOK
  /\ chain \in Seq(Linked)
  /\ open \subseteq Linked
  /\ anchors \in Seq([seq : Nat, root : Seq(PostId)])
  /\ receipts \in Seq(Receipt)
  /\ flags \in [PostId -> [Flagger -> Category \cup {None}]]
  /\ cursor \in [Reader -> Nat \cup {None}]
  /\ given \in [Reader -> [PostId -> Nat]]

-----------------------------------------------------------------------------
(* The repositories.                                                       *)
Stored(id) == \E i \in DOMAIN chain : chain[i].post.id = id
PostOf(id) == (CHOOSE l \in {chain[i] : i \in DOMAIN chain} : l.post.id = id).post

ChainHead ==
  IF chain = <<>> THEN [seq |-> 0, post_hash |-> None]
  ELSE [seq |-> Len(chain), post_hash |-> Last(chain).post.id]

Link(p) == [post |-> p, seq |-> ChainHead.seq + 1, prev |-> ChainHead.post_hash]

(* Mutant: only the id is checked, not the sequence number.                *)
AppendableById(l) == ~Stored(l.post.id)

Appendable(l) == ~Stored(l.post.id) /\ l.seq = ChainHead.seq + 1

(* The root over the hashes of all posts, which stands for their order.    *)
Root(posts) == [i \in DOMAIN posts |-> posts[i].post.id]

FreshHolds == {h \in HoldId : W!Fresh(h)}
FreshHold == CHOOSE h \in FreshHolds : TRUE

-----------------------------------------------------------------------------
(* Posting.                                                                *)

(* A delegation that permits the type; only offers and RFPs are restricted.*)
Permitted(d, type) == type \in MayPost[d]

(* verifyWorkRecord: a receipt of the ledger between these two, and the    *)
(* signature of the other one.                                             *)
Earned(p) ==
  /\ p.work.receipt \in {receipts[i] : i \in DOMAIN receipts}
  /\ {p.author, p.work.counterparty} = {p.work.receipt.payer, p.work.receipt.payee}
  /\ p.author # p.work.counterparty
  /\ p.work.cosigned

(* Mutant: a fee that cannot be held is not asked for.                     *)
ChargeIfAble(p) ==
  IF W!CanHold(p.author, Fee) THEN W!PlaceHold(p.hold, p.author, Fee) ELSE UNCHANGED walletVars

(* The fee is held before the append.                                      *)
Charge(p) == W!PlaceHold(p.hold, p.author, Fee)

(* Up to the hold: the links are those of the head read now.               *)
Publish(p) ==
  /\ Permitted(p.author, p.type)
  /\ Cardinality(open) < MaxOpen
  /\ IF p.type = "WORK_RECORD" THEN Earned(p) /\ UNCHANGED walletVars ELSE Charge(p)
  /\ open' = open \cup {Link(p)}
  /\ UNCHANGED <<chain, anchors, receipts, flags, readerVars>>

(* A retraction by the author of the target is itself a post, and free.    *)
Tombstone(p) ==
  /\ Stored(p.target) /\ PostOf(p.target).author = p.author
  /\ Cardinality(open) < MaxOpen
  /\ open' = open \cup {Link(p)}
  /\ UNCHANGED <<walletVars, chain, anchors, receipts, flags, readerVars>>

(* maybeAnchor: every post is anchored (ANCHOR_EVERY is 1).                *)
Anchor(l) == anchors' = Append(anchors, [seq |-> l.seq, root |-> Root(Append(chain, l))])

Store(l) ==
  /\ l \in open /\ Appendable(l)
  /\ Len(chain) < MaxPosts
  /\ chain' = Append(chain, l)
  /\ open' = open \ {l}
  /\ Anchor(l)
  /\ UNCHANGED <<walletVars, receipts, flags, readerVars>>

(* Another post has the id or has moved the head.  The fee stays held.     *)
Conflict(l) ==
  /\ l \in open /\ ~Appendable(l)
  /\ open' = open \ {l}
  /\ UNCHANGED <<walletVars, chain, anchors, receipts, flags, readerVars>>

-----------------------------------------------------------------------------
(* Flags.  The first flag of a flagger counts, whatever its category.      *)
AddFlag(id, d, category) ==
  flags' = [flags EXCEPT ![id][d] = IF @ = None THEN category ELSE @]

(* An upheld flag calls forfeit with the post id.  The wallet knows holds  *)
(* under ids of its own: it finds none, and the request throws there.      *)
Flag(id, d, category) ==
  /\ Stored(id)
  /\ Cardinality({f \in PostId \X Flagger : flags[f[1]][f[2]] # None}) < MaxFlags
  /\ AddFlag(id, d, category)
  /\ UNCHANGED <<walletVars, chain, open, anchors, receipts, readerVars>>

-----------------------------------------------------------------------------
(* Queries.                                                                *)
Tombstoned == {chain[i].post.target : i \in DOMAIN chain} \ {None}

PriceOf(p) == IF p.type \in {"OFFER", "RFP"} THEN Price[p.author] ELSE None

Matches(p, q) ==
  /\ q.type \in {None, p.type}
  /\ q.author \in {None, p.author}
  /\ p.created >= q.since
  /\ Trust[p.author] >= q.min_trust
  /\ q.max_price = None \/ (PriceOf(p) # None /\ PriceOf(p) <= q.max_price)

Survivors(q, after) ==
  {i \in DOMAIN chain : /\ i > after
                        /\ chain[i].post.type # "TOMBSTONE"
                        /\ chain[i].post.id \notin Tombstoned
                        /\ Matches(chain[i].post, q)}

(* Signals and score, in ten thousandths.                                  *)
Recency(p) == IF Now - p.created >= Horizon THEN 0
              ELSE (100 * (Horizon - (Now - p.created))) \div Horizon
PriceSignal(p) == IF PriceOf(p) = None THEN 100 ELSE 100 - PriceOf(p)
Score(p) == 40 * Recency(p) + 45 * Trust[p.author] + 15 * PriceSignal(p)

(* Post i ranks before post j.                                             *)
Before(i, j) ==
  \/ Score(chain[i].post) > Score(chain[j].post)
  \/ Score(chain[i].post) = Score(chain[j].post) /\ i > j

Page(q, after) ==
  LET survivors == Survivors(q, after)
  IN  {i \in survivors : Cardinality({j \in survivors : Before(j, i)}) < q.limit}

(* Mutant: the next page starts after the first post of this one.          *)
NextCursorMin(page, q) == IF Cardinality(page) = q.limit THEN Min(page) ELSE None

NextCursor(page, q) == IF Cardinality(page) = q.limit THEN Max(page) ELSE None

(* A reader asks for its next page, until there is none.                   *)
Query(d) ==
  LET page == Page(Ask[d], cursor[d])
  IN  /\ cursor[d] # None
      /\ given' = [given EXCEPT ![d] = [id \in PostId |->
                     @[id] + Cardinality({i \in page : chain[i].post.id = id})]]
      /\ cursor' = [cursor EXCEPT ![d] = NextCursor(page, Ask[d])]
      /\ UNCHANGED <<walletVars, chain, open, anchors, receipts, flags>>

-----------------------------------------------------------------------------
(* A payment between two agents puts its receipt in the ledger.            *)
Settle(r) ==
  /\ Len(receipts) < MaxReceipts
  /\ receipts' = Append(receipts, r)
  /\ UNCHANGED <<walletVars, chain, open, anchors, flags, readerVars>>

Init ==
  /\ available = [d \in Did |-> Funds] /\ held = [d \in Did |-> 0]
  /\ hold = [h \in HoldId |-> W!NoHold] /\ external = -SumFunction(available)
  /\ chain = <<>> /\ open = {} /\ anchors = <<>> /\ receipts = <<>>
  /\ flags = [id \in PostId |-> [d \in Flagger |-> None]]
  /\ cursor = [d \in Reader |-> 0]
  /\ given = [d \in Reader |-> [id \in PostId |-> 0]]

(* Ids in the chain or on their way there, and the next number.            *)
UsedIds == {chain[i].post.id : i \in DOMAIN chain} \cup {l.post.id : l \in open}
NewIds == {id \in PostId : id \notin UsedIds /\ \A x \in PostId : x < id => x \in UsedIds}

(* The body of each type: a TOMBSTONE has a target, a WORK_RECORD evidence.*)
Targets(type) == IF type = "TOMBSTONE" THEN PostId ELSE {None}
Evidence(type) == IF type = "WORK_RECORD" THEN Work ELSE {None}
Fees(type) == IF type = "WORK_RECORD" THEN {None} ELSE IF FreshHolds = {} THEN {} ELSE {FreshHold}

Posting ==
  \E d \in Did : \E type \in MayPost[d], id \in NewIds \cup UsedIds, created \in Created[d] :
    \E target \in Targets(type), work \in Evidence(type), h \in Fees(type) :
      Publish([id |-> id, type |-> type, author |-> d, created |-> created,
               target |-> target, work |-> work, hold |-> h])

Retracting ==
  \E d \in Did, id \in NewIds, target \in PostId :
    Tombstone([id |-> id, type |-> "TOMBSTONE", author |-> d, created |-> Now,
               target |-> target, work |-> None, hold |-> None])

Next ==
  \/ Posting
  \/ Retracting
  \/ \E l \in open : Store(l) \/ Conflict(l)
  \/ \E id \in PostId, d \in Flagger, category \in Category : Flag(id, d, category)
  \/ \E d \in Reader : Query(d)
  \/ \E r \in Receipt : Settle(r)

Spec == Init /\ [][Next]_vars

-----------------------------------------------------------------------------
(* Properties.                                                             *)

(* Concurrent posts never fork the chain (repo.ts:17-18, service.ts:117-   *)
(* 136): each post has the number of its place and the hash of the one     *)
(* before, and no id is stored twice.                                      *)
ChainLinked ==
  \A i \in DOMAIN chain :
    /\ chain[i].seq = i
    /\ chain[i].prev = IF i = 1 THEN None ELSE chain[i - 1].post.id
    /\ \A j \in DOMAIN chain : chain[j].post.id = chain[i].post.id => j = i

(* Board state is verifiable at every length it had (service.ts:377-386):  *)
(* the n-th anchor is the root of the first n posts, and no post of the    *)
(* chain is without one.                                                   *)
Anchored ==
  /\ Len(anchors) = Len(chain)
  /\ \A n \in DOMAIN anchors : anchors[n] = [seq |-> n, root |-> Root(SubSeq(chain, 1, n))]

(* The board can be verified, whoever posts at the same time.              *)
ChainVerifiable == ChainLinked /\ Anchored

(* A post that costs a fee is never recorded without it (service.ts:129-   *)
(* 134): it has a hold of its own, of its author and still active.         *)
FeeBacked ==
  \A i \in DOMAIN chain :
    LET p == chain[i].post
    IN  p.hold # None =>
          /\ hold[p.hold] = [state |-> "active", did |-> p.author, amount |-> Fee]
          /\ \A j \in DOMAIN chain : chain[j].post.hold = p.hold => j = i

(* Track records cannot be fabricated (service.ts:344-349): a WORK_RECORD  *)
(* in the chain has a receipt of the ledger between its author and another *)
(* agent, who signed it.                                                   *)
TrackRecordsEarned ==
  \A i \in DOMAIN chain :
    LET p == chain[i].post
    IN  p.type = "WORK_RECORD" =>
          \E r \in DOMAIN receipts :
            /\ {receipts[r].payer, receipts[r].payee} = {p.author, p.work.counterparty}
            /\ p.author # p.work.counterparty /\ p.work.cosigned

(* A post is worth what it claims: its fee or its receipt; and the         *)
(* variables have their types.                                             *)
PostsBacked == TypeOK /\ FeeBacked /\ TrackRecordsEarned

(* A reader that pages through the board is given no post twice, however   *)
(* the ranking and the chain change between its queries (service.ts:200-   *)
(* 203).                                                                   *)
NeverGivenTwice == \A d \in Reader, id \in PostId : given[d][id] <= 1

(* A null cursor means that the caller has drained the board for its       *)
(* filter (service.ts:200-201).  It does not hold: README, section 6.      *)
DrainedIsComplete ==
  [][\A d \in Reader : cursor[d] # None /\ cursor'[d] = None =>
       \A i \in Survivors(Ask[d], 0) : given'[d][chain[i].post.id] > 0]_vars

(* The fee of a post is forfeited once enough flaggers have reported it for*)
(* abuse (service.ts:288-295).                                             *)
UpheldForfeits ==
  \A i \in DOMAIN chain :
    LET p == chain[i].post
        abuse == {d \in Flagger : flags[p.id][d] = "abuse"}
    IN  Cardinality(abuse) >= FlagThreshold /\ p.hold # None => hold[p.hold].state = "forfeited"
=============================================================================
