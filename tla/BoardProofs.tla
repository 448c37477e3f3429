----------------------------- MODULE BoardProofs ----------------------------
(***************************************************************************)
(* What holds of every board, whatever the number of posts, agents, readers*)
(* and requests between the head and the append: the chain is linked and   *)
(* anchored, posts have their fee or their receipt, and a reader is given  *)
(* no post twice.                                                          *)
(***************************************************************************)
EXTENDS Board, SequenceTheorems, SetLemmas, TLAPS

-----------------------------------------------------------------------------
(* The inductive invariant.                                                *)

(* A request in progress was linked to a head the chain really had: the    *)
(* chain may have grown since, and does not change below that head.        *)
HeadWasRead ==
  \A l \in open :
    /\ l.seq \in 1..(Len(chain) + 1)
    /\ l.prev = IF l.seq = 1 THEN None ELSE chain[l.seq - 1].post.id

(* A fee is held for each post on its way, too, and no other has its hold. *)
FeeHeld(p) == p.hold # None => hold[p.hold] = [state |-> "active", did |-> p.author, amount |-> Fee]

FeesHeld ==
  /\ \A i \in DOMAIN chain : FeeHeld(chain[i].post)
  /\ \A l \in open : FeeHeld(l.post)

HoldsApart ==
  /\ \A i, j \in DOMAIN chain :
       chain[i].post.hold # None /\ chain[i].post.hold = chain[j].post.hold => i = j
  /\ \A l \in open, i \in DOMAIN chain : l.post.hold # None => chain[i].post.hold # l.post.hold
  /\ \A l, m \in open : l.post.hold # None /\ l.post.hold = m.post.hold => l = m

(* So has each track record on its way its receipt.                        *)
RecordEarned(p) ==
  p.type = "WORK_RECORD" =>
    \E r \in DOMAIN receipts :
      /\ {receipts[r].payer, receipts[r].payee} = {p.author, p.work.counterparty}
      /\ p.author # p.work.counterparty /\ p.work.cosigned

RecordsEarned ==
  /\ \A i \in DOMAIN chain : RecordEarned(chain[i].post)
  /\ \A l \in open : RecordEarned(l.post)

(* What a reader was given is behind its cursor.                           *)
Behind(d, id) ==
  \E i \in DOMAIN chain : chain[i].post.id = id /\ (cursor[d] = None \/ i <= cursor[d])

GivenBehind ==
  \A d \in Reader, id \in PostId :
    given[d][id] = 0 \/ (given[d][id] = 1 /\ Behind(d, id))

BoardInv ==
  /\ TypeOK
  /\ ChainLinked /\ HeadWasRead /\ Anchored
  /\ FeesHeld /\ HoldsApart /\ RecordsEarned
  /\ GivenBehind

-----------------------------------------------------------------------------
(* The chain, seen as a sequence.                                          *)

(* The root over a sequence of posts is a sequence of ids.                 *)
LEMMA RootType ==
  ASSUME NEW posts \in Seq(Linked)
  PROVE  Root(posts) \in Seq(PostId)
  <1>1. Root(posts) \in [1..Len(posts) -> PostId]
    <2>1. DOMAIN posts = 1..Len(posts) /\ \A i \in 1..Len(posts) : posts[i] \in Linked
      BY LenProperties, ElementOfSeq
    <2>2. \A l \in Linked : l.post.id \in PostId
      BY DEF Linked, Post
    <2> QED
      BY <2>1, <2>2 DEF Root
  <1>2. Len(posts) \in Nat
    BY LenProperties
  <1> QED
    BY <1>1, <1>2, SeqDef

(* Appending a post changes no shorter prefix.                             *)
LEMMA PrefixKept ==
  ASSUME NEW posts \in Seq(Linked), NEW l \in Linked, NEW n \in 0..Len(posts)
  PROVE  SubSeq(Append(posts, l), 1, n) = SubSeq(posts, 1, n)
  <1> DEFINE longer == Append(posts, l)
  <1>1. /\ longer \in Seq(Linked) /\ Len(longer) = Len(posts) + 1
        /\ \A i \in 1..Len(posts) : longer[i] = posts[i]
    BY AppendProperties
  <1>2. \A i \in 1..n : longer[i] \in Linked /\ posts[i] \in Linked /\ longer[i] = posts[i]
    BY <1>1, ElementOfSeq
  <1>3. /\ SubSeq(longer, 1, n) \in Seq(Linked) /\ SubSeq(posts, 1, n) \in Seq(Linked)
        /\ Len(SubSeq(longer, 1, n)) = n /\ Len(SubSeq(posts, 1, n)) = n
        /\ \A i \in 1..n : SubSeq(longer, 1, n)[i] = longer[i]
        /\ \A i \in 1..n : SubSeq(posts, 1, n)[i] = posts[i]
    <2> HIDE DEF longer
    <2> QED
      BY <1>2, SubSeqProperties
  <1> HIDE DEF longer
  <1> QED
    BY <1>2, <1>3, SeqEqual

-----------------------------------------------------------------------------
(* Pages.                                                                  *)

(* A cursor that is not null is the last post of the page, and the whole   *)
(* page is past the old one.                                               *)
LEMMA CursorMoves ==
  ASSUME TypeOK, NEW d \in Reader, cursor[d] # None
  PROVE  LET page == Page(Ask[d], cursor[d])
             next == NextCursor(page, Ask[d])
         IN  /\ page \in SUBSET (DOMAIN chain) /\ IsFiniteSet(page)
             /\ \A i \in page : i > cursor[d]
             /\ next \in Nat \cup {None}
             /\ next # None => next \in page /\ \A i \in page : i <= next
  <1> DEFINE page == Page(Ask[d], cursor[d])
             next == NextCursor(page, Ask[d])
  <1>1. DOMAIN chain = 1..Len(chain) /\ Len(chain) \in Nat
    BY DEF TypeOK
  <1>2. page \in SUBSET (DOMAIN chain) /\ \A i \in page : i > cursor[d]
    BY DEF Page, Survivors
  <1> HIDE DEF page
  <1>3. IsFiniteSet(page)
    <2>1. IsFiniteSet(1..Len(chain))
      BY <1>1, FS_Interval
    <2> QED
      BY <1>1, <1>2, <2>1, FS_Subset
  <1>4. Ask[d].limit \in Nat \ {0}
    BY BoardAssumption DEF Filter
  <1>5. ASSUME next # None PROVE next \in page /\ \A i \in page : i <= next
    <2>1. Cardinality(page) = Ask[d].limit /\ next = Max(page)
      BY <1>5 DEF NextCursor
    <2>2. page # {}
      BY <1>4, <2>1, FS_EmptySet
    <2>3. page \in SUBSET Nat /\ \A i \in page : i <= Len(chain)
      BY <1>1, <1>2
    <2> QED
      BY <1>1, <2>1, <2>2, <2>3, MaxNat
  <1>6. next \in Nat \cup {None}
    BY <1>1, <1>2, <1>5
  <1> QED
    BY <1>2, <1>3, <1>5, <1>6 DEF page

-----------------------------------------------------------------------------
(* Initially.                                                              *)
LEMMA InitBoardInv == Init => BoardInv
  <1> SUFFICES ASSUME Init PROVE BoardInv
    OBVIOUS
  <1>1. Funds \in Nat
    BY BoardAssumption
  <1>2. W!TypeOK
    BY <1>1 DEF Init, W!TypeOK, W!NoHold
  <1>3. flags \in [PostId -> [Flagger -> Category \cup {None}]]
    BY DEF Init
  <1>4. cursor \in [Reader -> Nat \cup {None}] /\ given \in [Reader -> [PostId -> Nat]]
    BY DEF Init
  <1>5. chain = <<>> /\ open = {} /\ anchors = <<>> /\ receipts = <<>>
    BY DEF Init
  <1>6. TypeOK
    BY <1>2, <1>3, <1>4, <1>5, EmptySeq DEF TypeOK
  <1>7. DOMAIN chain = {} /\ Len(chain) = 0 /\ Len(anchors) = 0 /\ DOMAIN anchors = {}
    BY <1>5
  <1>8. ChainLinked /\ HeadWasRead /\ Anchored /\ FeesHeld /\ HoldsApart /\ RecordsEarned
    BY <1>5, <1>7 DEF ChainLinked, HeadWasRead, Anchored, FeesHeld, HoldsApart, RecordsEarned
  <1>9. GivenBehind
    BY DEF Init, GivenBehind
  <1> QED
    BY <1>6, <1>8, <1>9 DEF BoardInv

-----------------------------------------------------------------------------
(* A request that has read the head.                                       *)

(* What the head is, and how a post is linked to it.                       *)
LEMMA LinkToHead ==
  ASSUME TypeOK, NEW p \in Post
  PROVE  /\ Link(p) \in Linked
         /\ Link(p).post = p
         /\ Link(p).seq = Len(chain) + 1
         /\ Link(p).prev = IF Link(p).seq = 1 THEN None ELSE chain[Link(p).seq - 1].post.id
  <1>1. Len(chain) \in Nat /\ \A i \in 1..Len(chain) : chain[i] \in Linked
    BY LenProperties, ElementOfSeq DEF TypeOK
  <1>2. CASE chain = <<>>
    <2>1. Len(chain) = 0 /\ Link(p) = [post |-> p, seq |-> 1, prev |-> None]
      BY <1>2 DEF Link, ChainHead
    <2> QED
      BY <2>1 DEF Linked
  <1>3. CASE chain # <<>>
    <2>1. Len(chain) > 0
      BY <1>1, <1>3, EmptySeq DEF TypeOK
    <2>2. Link(p) = [post |-> p, seq |-> Len(chain) + 1, prev |-> chain[Len(chain)].post.id]
      BY <1>3 DEF Link, ChainHead, Last
    <2>3. chain[Len(chain)].post.id \in PostId
      BY <1>1, <2>1 DEF Linked, Post
    <2> QED
      BY <1>1, <2>1, <2>2, <2>3 DEF Linked
  <1> QED
    BY <1>2, <1>3

(* What a request keeps that reads the head: its fee or its receipt is its *)
(* own, and the rest of the board is left alone.                           *)
LEMMA OpeningBoardInv ==
  ASSUME BoardInv, NEW p \in Post, W!TypeOK',
         open' = open \cup {Link(p)},
         UNCHANGED <<chain, anchors, receipts, flags, readerVars>>,
         \A h \in HoldId : hold[h] # W!NoHold => hold'[h] = hold[h],
         p.hold # None => hold[p.hold] = W!NoHold /\ FeeHeld(p)',
         RecordEarned(p)
  PROVE  BoardInv'
  <1> DEFINE new == Link(p)
  <1>1. /\ new \in Linked /\ new.post = p /\ new.seq = Len(chain) + 1
        /\ new.prev = IF new.seq = 1 THEN None ELSE chain[new.seq - 1].post.id
    BY LinkToHead DEF BoardInv
  <1>2. UNCHANGED <<chain, anchors, receipts, flags, cursor, given>>
    BY DEF readerVars
  <1> HIDE DEF new
  <1>3. open' = open \cup {new}
    BY DEF new
  <1>4. Len(chain) \in Nat /\ \A i \in DOMAIN chain : chain[i] \in Linked
    BY LenProperties, ElementOfSeq DEF BoardInv, TypeOK
  <1>5. TypeOK'
    BY <1>1, <1>2, <1>3 DEF BoardInv, TypeOK
  <1>6. ChainLinked' /\ Anchored'
    BY <1>2 DEF BoardInv, ChainLinked, Anchored, Root
  <1>7. HeadWasRead'
    BY <1>1, <1>2, <1>3, <1>4 DEF BoardInv, HeadWasRead
  <1>8. ASSUME NEW q \in Post, FeeHeld(q) PROVE FeeHeld(q)' /\ (q.hold # None => q.hold # p.hold)
    <2>1. CASE q.hold = None
      BY <2>1 DEF FeeHeld
    <2>2. CASE q.hold # None
      <3>1. q.hold \in HoldId /\ hold[q.hold] # W!NoHold
        BY <1>8, <2>2 DEF Post, FeeHeld, W!NoHold
      <3> QED
        BY <1>8, <3>1 DEF FeeHeld
    <2> QED
      BY <2>1, <2>2
  <1>9. \A l \in Linked : l.post \in Post
    BY DEF Linked
  <1>10. open \subseteq Linked
    BY DEF BoardInv, TypeOK
  <1>11. FeesHeld'
    <2>1. FeeHeld(p)'
      BY DEF FeeHeld
    <2> QED
      BY <1>1, <1>2, <1>3, <1>4, <1>8, <1>9, <1>10, <2>1 DEF BoardInv, FeesHeld
  <1>12. HoldsApart'
    <2>1. \A i \in DOMAIN chain : p.hold # None => chain[i].post.hold # p.hold
      BY <1>4, <1>8, <1>9 DEF BoardInv, FeesHeld
    <2>2. \A l \in open : p.hold # None => l.post.hold # p.hold
      BY <1>8, <1>9, <1>10 DEF BoardInv, FeesHeld
    <2>3. \A i, j \in DOMAIN chain' :
            chain'[i].post.hold # None /\ chain'[i].post.hold = chain'[j].post.hold => i = j
      BY <1>2 DEF BoardInv, HoldsApart
    <2>4. \A l \in open', i \in DOMAIN chain' : l.post.hold # None => chain'[i].post.hold # l.post.hold
      BY <1>1, <1>2, <1>3, <2>1 DEF BoardInv, HoldsApart
    <2>5. \A l, m \in open' : l.post.hold # None /\ l.post.hold = m.post.hold => l = m
      BY <1>1, <1>3, <2>2 DEF BoardInv, HoldsApart
    <2> QED
      BY <2>3, <2>4, <2>5 DEF HoldsApart
  <1>13. RecordsEarned'
    <2>1. \A q : RecordEarned(q)' <=> RecordEarned(q)
      BY <1>2 DEF RecordEarned
    <2> QED
      BY <1>1, <1>2, <1>3, <2>1 DEF BoardInv, RecordsEarned
  <1>14. GivenBehind'
    BY <1>2 DEF BoardInv, GivenBehind, Behind
  <1> QED
    BY <1>5, <1>6, <1>7, <1>11, <1>12, <1>13, <1>14 DEF BoardInv

(* Posting, for a fee or with a receipt.                                   *)
LEMMA PublishBoardInv ==
  ASSUME BoardInv, NEW p \in Post, Publish(p),
         p.type = "WORK_RECORD" => p.hold = None /\ p.work \in Work,
         p.type # "WORK_RECORD" => p.hold \in HoldId
  PROVE  BoardInv'
  <1>1. open' = open \cup {Link(p)} /\ UNCHANGED <<chain, anchors, receipts, flags, readerVars>>
    BY DEF Publish
  <1>2. W!TypeOK
    BY DEF BoardInv, TypeOK
  <1>3. CASE p.type = "WORK_RECORD"
    <2>1. Earned(p) /\ UNCHANGED <<available, held, hold, external>>
      BY <1>3 DEF Publish, walletVars
    <2>2. W!TypeOK'
      BY <1>2, <2>1 DEF W!TypeOK
    <2>3. RecordEarned(p)
      BY <2>1 DEF Earned, RecordEarned
    <2>4. p.hold = None
      BY <1>3
    <2> QED
      BY <1>1, <2>1, <2>2, <2>3, <2>4, OpeningBoardInv
  <1>4. CASE p.type # "WORK_RECORD"
    <2>1. W!PlaceHold(p.hold, p.author, Fee) /\ p.hold \in HoldId
      BY <1>4 DEF Publish, Charge
    <2>2. p.author \in Did /\ Fee \in Nat
      BY BoardAssumption DEF Post
    <2>3. W!TypeOK'
      BY <1>2, <2>1, <2>2 DEF W!TypeOK, W!PlaceHold, W!CanHold, W!Hold, W!HoldState, W!Settled
    <2>4. \A h \in HoldId : hold[h] # W!NoHold => hold'[h] = hold[h]
      BY <1>2, <2>1 DEF W!TypeOK, W!PlaceHold, W!Fresh
    <2>5. hold[p.hold] = W!NoHold /\ FeeHeld(p)'
      BY <1>2, <2>1 DEF W!TypeOK, W!PlaceHold, W!Fresh, FeeHeld
    <2>6. RecordEarned(p)
      BY <1>4 DEF RecordEarned
    <2> QED
      BY <1>1, <2>3, <2>4, <2>5, <2>6, OpeningBoardInv
  <1> QED
    BY <1>3, <1>4

(* The posts that Posting makes.                                           *)
LEMMA PostingBoardInv ==
  ASSUME BoardInv, Posting
  PROVE  BoardInv'
  <1>1. PICK d \in Did : \E type \in MayPost[d], id \in NewIds \cup UsedIds, created \in Created[d] :
          \E target \in Targets(type), work \in Evidence(type), h \in Fees(type) :
            Publish([id |-> id, type |-> type, author |-> d, created |-> created,
                     target |-> target, work |-> work, hold |-> h])
    BY DEF Posting
  <1>2. PICK type \in MayPost[d], id \in NewIds \cup UsedIds, created \in Created[d] :
          \E target \in Targets(type), work \in Evidence(type), h \in Fees(type) :
            Publish([id |-> id, type |-> type, author |-> d, created |-> created,
                     target |-> target, work |-> work, hold |-> h])
    BY <1>1
  <1>3. PICK target \in Targets(type), work \in Evidence(type), h \in Fees(type) :
          Publish([id |-> id, type |-> type, author |-> d, created |-> created,
                   target |-> target, work |-> work, hold |-> h])
    BY <1>2
  <1> DEFINE p == [id |-> id, type |-> type, author |-> d, created |-> created,
                   target |-> target, work |-> work, hold |-> h]
  <1>4. type \in PostType /\ created \in 0..Now
    BY BoardAssumption
  <1>5. UsedIds \subseteq PostId /\ id \in PostId
    <2>1. \A l \in Linked : l.post.id \in PostId
      BY DEF Linked, Post
    <2>2. \A i \in DOMAIN chain : chain[i] \in Linked
      BY ElementOfSeq, LenProperties DEF BoardInv, TypeOK
    <2>3. open \subseteq Linked
      BY DEF BoardInv, TypeOK
    <2> QED
      BY <2>1, <2>2, <2>3 DEF UsedIds, NewIds
  <1>6. target \in PostId \cup {None} /\ work \in Work \cup {None}
    BY DEF Targets, Evidence
  <1>7. h \in IF type = "WORK_RECORD" THEN {None} ELSE HoldId
    <2>1. CASE type = "WORK_RECORD"
      BY <2>1 DEF Fees
    <2>2. CASE type # "WORK_RECORD"
      BY <2>2 DEF Fees, FreshHold, FreshHolds
    <2> QED
      BY <2>1, <2>2
  <1>8. p \in Post
    BY <1>4, <1>5, <1>6, <1>7 DEF Post
  <1>9. type = "WORK_RECORD" => work \in Work
    BY DEF Evidence
  <1>10. /\ p.type = "WORK_RECORD" => p.hold = None /\ p.work \in Work
         /\ p.type # "WORK_RECORD" => p.hold \in HoldId
    BY <1>7, <1>9
  <1> HIDE DEF p
  <1> QED
    BY <1>3, <1>8, <1>10, PublishBoardInv DEF p

(* Retracting: a free post.                                                *)
LEMMA RetractingBoardInv ==
  ASSUME BoardInv, Retracting
  PROVE  BoardInv'
  <1>1. PICK d \in Did, id \in NewIds, target \in PostId :
          Tombstone([id |-> id, type |-> "TOMBSTONE", author |-> d, created |-> Now,
                     target |-> target, work |-> None, hold |-> None])
    BY DEF Retracting
  <1> DEFINE p == [id |-> id, type |-> "TOMBSTONE", author |-> d, created |-> Now,
                   target |-> target, work |-> None, hold |-> None]
  <1>2. p \in Post
    BY BoardAssumption DEF Post, NewIds, PostType
  <1>3. p.hold = None /\ p.type # "WORK_RECORD"
    OBVIOUS
  <1> HIDE DEF p
  <1>4. /\ open' = open \cup {Link(p)} /\ UNCHANGED <<chain, anchors, receipts, flags, readerVars>>
        /\ UNCHANGED <<available, held, hold, external>>
    BY <1>1 DEF Tombstone, walletVars, p
  <1>5. W!TypeOK'
    BY <1>4 DEF BoardInv, TypeOK, W!TypeOK
  <1>6. RecordEarned(p)
    BY <1>3 DEF RecordEarned
  <1> QED
    BY <1>2, <1>3, <1>4, <1>5, <1>6, OpeningBoardInv

-----------------------------------------------------------------------------
(* The append.                                                             *)

(* A request whose head is still the head stores its post and its anchor.  *)
LEMMA StoreBoardInv ==
  ASSUME BoardInv, NEW l \in open, Store(l)
  PROVE  BoardInv'
  <1>1. /\ chain' = Append(chain, l) /\ open' = open \ {l}
        /\ anchors' = Append(anchors, [seq |-> l.seq, root |-> Root(Append(chain, l))])
        /\ UNCHANGED <<available, held, hold, external, receipts, flags, cursor, given>>
    BY DEF Store, Anchor, walletVars, readerVars
  <1>2. chain \in Seq(Linked) /\ l \in Linked /\ open \subseteq Linked
    BY DEF BoardInv, TypeOK
  <1>3. /\ chain' \in Seq(Linked) /\ Len(chain') = Len(chain) + 1 /\ Len(chain) \in Nat
        /\ DOMAIN chain = 1..Len(chain) /\ DOMAIN chain' = 1..(Len(chain) + 1)
        /\ \A i \in 1..Len(chain) : chain'[i] = chain[i]
        /\ chain'[Len(chain) + 1] = l
    BY <1>1, <1>2, AppendProperties, LenProperties
  <1>4. l.seq = Len(chain) + 1 /\ ~Stored(l.post.id)
    BY <1>3 DEF Store, Appendable, ChainHead
  <1>5. \A i \in 1..Len(chain) : chain[i] \in Linked
    BY <1>2, ElementOfSeq
  <1>6. TypeOK'
    <2>1. Root(Append(chain, l)) \in Seq(PostId)
      BY <1>1, <1>3, RootType
    <2>2. [seq |-> l.seq, root |-> Root(Append(chain, l))] \in [seq : Nat, root : Seq(PostId)]
      BY <1>3, <1>4, <2>1
    <2>3. anchors' \in Seq([seq : Nat, root : Seq(PostId)])
      BY <1>1, <2>2, AppendProperties DEF BoardInv, TypeOK
    <2>4. W!TypeOK'
      BY <1>1 DEF BoardInv, TypeOK, W!TypeOK
    <2> QED
      BY <1>1, <1>3, <2>3, <2>4 DEF BoardInv, TypeOK
  <1>7. ChainLinked'
    <2> SUFFICES ASSUME NEW i \in 1..(Len(chain) + 1)
                 PROVE  /\ chain'[i].seq = i
                        /\ chain'[i].prev = IF i = 1 THEN None ELSE chain'[i - 1].post.id
                        /\ \A j \in 1..(Len(chain) + 1) :
                             chain'[j].post.id = chain'[i].post.id => j = i
      BY <1>3 DEF ChainLinked
    <2>1. CASE i <= Len(chain)
      <3>1. i \in DOMAIN chain /\ chain'[i] = chain[i] /\ (i # 1 => chain'[i - 1] = chain[i - 1])
        BY <1>3, <2>1
      <3>2. \A j \in 1..(Len(chain) + 1) : chain'[j].post.id = chain[i].post.id => j = i
        BY <1>3, <1>4, <3>1 DEF BoardInv, ChainLinked, Stored
      <3> QED
        BY <3>1, <3>2 DEF BoardInv, ChainLinked
    <2>2. CASE i = Len(chain) + 1
      <3>1. l.prev = IF l.seq = 1 THEN None ELSE chain[l.seq - 1].post.id
        BY DEF BoardInv, HeadWasRead
      <3>2. i # 1 => chain'[i - 1] = chain[i - 1]
        BY <1>3, <2>2
      <3>3. \A j \in 1..(Len(chain) + 1) : chain'[j].post.id = l.post.id => j = i
        BY <1>3, <1>4, <2>2 DEF Stored
      <3> QED
        BY <1>3, <1>4, <2>2, <3>1, <3>2, <3>3
    <2> QED
      BY <1>3, <2>1, <2>2
  <1>8. HeadWasRead'
    <2> SUFFICES ASSUME NEW m \in open
                 PROVE  /\ m.seq \in 1..(Len(chain) + 2)
                        /\ m.prev = IF m.seq = 1 THEN None ELSE chain'[m.seq - 1].post.id
      BY <1>1, <1>3 DEF HeadWasRead
    <2>1. /\ m.seq \in 1..(Len(chain) + 1)
          /\ m.prev = IF m.seq = 1 THEN None ELSE chain[m.seq - 1].post.id
      BY DEF BoardInv, HeadWasRead
    <2>2. m.seq # 1 => chain'[m.seq - 1] = chain[m.seq - 1]
      BY <1>3, <2>1
    <2> QED
      BY <1>3, <2>1, <2>2
  <1>9. Anchored'
    <2>1. /\ Len(anchors) = Len(chain) /\ DOMAIN anchors = 1..Len(chain)
          /\ \A n \in 1..Len(chain) : anchors[n] = [seq |-> n, root |-> Root(SubSeq(chain, 1, n))]
      BY LenProperties DEF BoardInv, TypeOK, Anchored
    <2>2. /\ Len(anchors') = Len(chain) + 1 /\ DOMAIN anchors' = 1..(Len(chain) + 1)
          /\ \A n \in 1..Len(chain) : anchors'[n] = anchors[n]
          /\ anchors'[Len(chain) + 1] = [seq |-> l.seq, root |-> Root(chain')]
      BY <1>1, <2>1 DEF BoardInv, TypeOK
    <2>3. \A n \in 1..Len(chain) : SubSeq(chain', 1, n) = SubSeq(chain, 1, n)
      BY <1>1, <1>2, <1>3, PrefixKept
    <2>4. SubSeq(chain', 1, Len(chain) + 1) = chain'
      BY <1>3, SubSeqFull
    <2>5. \A n \in 1..(Len(chain) + 1) :
            anchors'[n] = [seq |-> n, root |-> Root(SubSeq(chain', 1, n))]
      <3> TAKE n \in 1..(Len(chain) + 1)
      <3>1. CASE n \in 1..Len(chain)
        <4>1. anchors'[n] = anchors[n] /\ SubSeq(chain', 1, n) = SubSeq(chain, 1, n)
          BY <2>2, <2>3, <3>1
        <4>2. anchors[n] = [seq |-> n, root |-> Root(SubSeq(chain, 1, n))]
          BY <2>1, <3>1
        <4> QED
          BY <4>1, <4>2
      <3>2. CASE n = Len(chain) + 1
        BY <1>4, <2>2, <2>4, <3>2
      <3> QED
        BY <1>3, <3>1, <3>2
    <2>6. \A posts : Root(posts)' = Root(posts)
      BY DEF Root
    <2> QED
      BY <1>3, <2>2, <2>5 DEF Anchored, Root
  <1>10. FeesHeld' /\ RecordsEarned'
    <2>1. \A p : (FeeHeld(p)' <=> FeeHeld(p)) /\ (RecordEarned(p)' <=> RecordEarned(p))
      BY <1>1 DEF FeeHeld, RecordEarned
    <2> QED
      BY <1>1, <1>3, <2>1 DEF BoardInv, FeesHeld, RecordsEarned
  <1>11. HoldsApart'
    <2>1. \A i \in 1..Len(chain) : chain[i].post.hold # None => chain[i].post.hold # l.post.hold
      BY <1>3 DEF BoardInv, HoldsApart
    <2>2. \A i, j \in DOMAIN chain' :
            chain'[i].post.hold # None /\ chain'[i].post.hold = chain'[j].post.hold => i = j
      BY <1>3, <2>1 DEF BoardInv, HoldsApart
    <2>3. \A m \in open', i \in DOMAIN chain' : m.post.hold # None => chain'[i].post.hold # m.post.hold
      BY <1>1, <1>3 DEF BoardInv, HoldsApart
    <2>4. \A m, n \in open' : m.post.hold # None /\ m.post.hold = n.post.hold => m = n
      BY <1>1 DEF BoardInv, HoldsApart
    <2> QED
      BY <2>2, <2>3, <2>4 DEF HoldsApart
  <1>12. GivenBehind'
    <2>1. \A d \in Reader, id \in PostId : Behind(d, id) => Behind(d, id)'
      BY <1>1, <1>3 DEF Behind
    <2> QED
      BY <1>1, <2>1 DEF BoardInv, GivenBehind
  <1> QED
    BY <1>6, <1>7, <1>8, <1>9, <1>10, <1>11, <1>12 DEF BoardInv

(* A request whose head has moved, or whose id is taken, gives up.         *)
LEMMA ConflictBoardInv ==
  ASSUME BoardInv, NEW l \in open, Conflict(l)
  PROVE  BoardInv'
  <1>1. /\ open' = open \ {l}
        /\ UNCHANGED <<available, held, hold, external, chain, anchors, receipts, flags, cursor, given>>
    BY DEF Conflict, walletVars, readerVars
  <1>2. TypeOK'
    BY <1>1 DEF BoardInv, TypeOK, W!TypeOK
  <1>3. ChainLinked' /\ HeadWasRead' /\ Anchored'
    BY <1>1 DEF BoardInv, ChainLinked, HeadWasRead, Anchored, Root
  <1>4. \A p : (FeeHeld(p)' <=> FeeHeld(p)) /\ (RecordEarned(p)' <=> RecordEarned(p))
    BY <1>1 DEF FeeHeld, RecordEarned
  <1>5. FeesHeld' /\ RecordsEarned'
    BY <1>1, <1>4 DEF BoardInv, FeesHeld, RecordsEarned
  <1>6. HoldsApart'
    BY <1>1 DEF BoardInv, HoldsApart
  <1>7. GivenBehind'
    BY <1>1 DEF BoardInv, GivenBehind, Behind
  <1> QED
    BY <1>2, <1>3, <1>5, <1>6, <1>7 DEF BoardInv

-----------------------------------------------------------------------------
(* Flags, receipts and queries.                                            *)
LEMMA FlagBoardInv ==
  ASSUME BoardInv, NEW id \in PostId, NEW d \in Flagger, NEW category \in Category,
         Flag(id, d, category)
  PROVE  BoardInv'
  <1>1. /\ flags' = [flags EXCEPT ![id][d] = IF @ = None THEN category ELSE @]
        /\ UNCHANGED <<available, held, hold, external, chain, open, anchors, receipts, cursor, given>>
    BY DEF Flag, AddFlag, walletVars, readerVars
  <1>2. flags' \in [PostId -> [Flagger -> Category \cup {None}]]
    BY <1>1 DEF BoardInv, TypeOK
  <1>3. TypeOK'
    BY <1>1, <1>2 DEF BoardInv, TypeOK, W!TypeOK
  <1>4. ChainLinked' /\ HeadWasRead' /\ Anchored'
    BY <1>1 DEF BoardInv, ChainLinked, HeadWasRead, Anchored, Root
  <1>5. FeesHeld' /\ HoldsApart'
    BY <1>1 DEF BoardInv, FeesHeld, FeeHeld, HoldsApart
  <1>6. RecordsEarned'
    BY <1>1 DEF BoardInv, RecordsEarned, RecordEarned
  <1>7. GivenBehind'
    BY <1>1 DEF BoardInv, GivenBehind, Behind
  <1> QED
    BY <1>3, <1>4, <1>5, <1>6, <1>7 DEF BoardInv

(* A receipt that is settled keeps the board's invariant.                  *)
LEMMA SettleBoardInv ==
  ASSUME BoardInv, NEW r \in Receipt, Settle(r)
  PROVE  BoardInv'
  <1>1. /\ receipts' = Append(receipts, r)
        /\ UNCHANGED <<available, held, hold, external, chain, open, anchors, flags, cursor, given>>
    BY DEF Settle, walletVars, readerVars
  <1>2. /\ receipts' \in Seq(Receipt) /\ DOMAIN receipts \subseteq DOMAIN receipts'
        /\ \A i \in DOMAIN receipts : receipts'[i] = receipts[i]
    BY <1>1, AppendProperties, LenProperties DEF BoardInv, TypeOK
  <1>3. TypeOK'
    BY <1>1, <1>2 DEF BoardInv, TypeOK, W!TypeOK
  <1>4. ChainLinked' /\ HeadWasRead' /\ Anchored'
    BY <1>1 DEF BoardInv, ChainLinked, HeadWasRead, Anchored, Root
  <1>5. FeesHeld' /\ HoldsApart' /\ GivenBehind'
    BY <1>1 DEF BoardInv, FeesHeld, FeeHeld, HoldsApart, GivenBehind, Behind
  <1>6. \A p : RecordEarned(p) => RecordEarned(p)'
    BY <1>2 DEF RecordEarned
  <1>7. RecordsEarned'
    BY <1>1, <1>6 DEF BoardInv, RecordsEarned
  <1> QED
    BY <1>3, <1>4, <1>5, <1>7 DEF BoardInv

(* A page is past everything the reader was given, and holds one post of   *)
(* each id.                                                                *)
LEMMA QueryBoardInv ==
  ASSUME BoardInv, NEW d \in Reader, Query(d)
  PROVE  BoardInv'
  <1> DEFINE page == Page(Ask[d], cursor[d])
             next == NextCursor(page, Ask[d])
             copies(id) == {i \in page : chain[i].post.id = id}
  <1>1. /\ cursor[d] # None
        /\ given' = [given EXCEPT ![d] = [id \in PostId |-> @[id] + Cardinality(copies(id))]]
        /\ cursor' = [cursor EXCEPT ![d] = next]
        /\ UNCHANGED <<available, held, hold, external, chain, open, anchors, receipts, flags>>
    BY DEF Query, walletVars
  <1>2. /\ page \in SUBSET (DOMAIN chain) /\ IsFiniteSet(page)
        /\ \A i \in page : i > cursor[d]
        /\ next \in Nat \cup {None}
        /\ next # None => next \in page /\ \A i \in page : i <= next
    BY <1>1, CursorMoves DEF BoardInv
  <1>3. DOMAIN chain = 1..Len(chain) /\ Len(chain) \in Nat
    BY LenProperties DEF BoardInv, TypeOK
  <1>4. cursor \in [Reader -> Nat \cup {None}] /\ given \in [Reader -> [PostId -> Nat]]
    BY DEF BoardInv, TypeOK
  <1>5. cursor[d] \in Nat
    BY <1>1, <1>4
  <1> HIDE DEF page, next
  <1>6. ASSUME NEW id \in PostId
        PROVE  \/ copies(id) = {} /\ Cardinality(copies(id)) = 0
               \/ \E i \in page : chain[i].post.id = id /\ Cardinality(copies(id)) = 1
    <2>1. CASE copies(id) = {}
      BY <2>1, FS_EmptySet
    <2>2. CASE copies(id) # {}
      <3>1. PICK i \in page : chain[i].post.id = id
        BY <2>2
      <3>2. copies(id) = {i}
        BY <1>2, <3>1 DEF BoardInv, ChainLinked
      <3> HIDE DEF copies
      <3>3. Cardinality(copies(id)) = 1
        BY <3>2, FS_Singleton
      <3> QED
        BY <3>1, <3>3
    <2> QED
      BY <2>1, <2>2
  <1> HIDE DEF copies
  <1>7. \A id \in PostId : Cardinality(copies(id)) \in Nat
    BY <1>6
  <1>8. given' \in [Reader -> [PostId -> Nat]] /\ cursor' \in [Reader -> Nat \cup {None}]
    BY <1>1, <1>2, <1>4, <1>7
  <1>9. TypeOK'
    BY <1>1, <1>8 DEF BoardInv, TypeOK, W!TypeOK
  <1>10. ChainLinked' /\ HeadWasRead' /\ Anchored'
    BY <1>1 DEF BoardInv, ChainLinked, HeadWasRead, Anchored, Root
  <1>11. FeesHeld' /\ HoldsApart' /\ RecordsEarned'
    BY <1>1 DEF BoardInv, FeesHeld, FeeHeld, HoldsApart, RecordsEarned, RecordEarned
  <1>12. GivenBehind'
    <2> SUFFICES ASSUME NEW r \in Reader, NEW id \in PostId
                 PROVE  given'[r][id] = 0 \/ (given'[r][id] = 1 /\ Behind(r, id)')
      BY DEF GivenBehind
    <2>1. CASE r # d
      <3>1. given'[r] = given[r] /\ cursor'[r] = cursor[r]
        BY <1>1, <1>4, <2>1
      <3> QED
        BY <1>1, <3>1 DEF BoardInv, GivenBehind, Behind
    <2>2. CASE r = d
      <3>1. given'[d][id] = given[d][id] + Cardinality(copies(id)) /\ cursor'[d] = next
        BY <1>1, <1>4
      <3>2. CASE given[d][id] = 1 /\ Behind(d, id)
        <4>1. PICK i \in DOMAIN chain : chain[i].post.id = id /\ i <= cursor[d]
          BY <1>1, <3>2 DEF Behind
        <4>2. \A j \in page : chain[j].post.id # id
          <5> SUFFICES ASSUME NEW j \in page, chain[j].post.id = id PROVE FALSE
            OBVIOUS
          <5>1. j = i
            BY <1>2, <4>1 DEF BoardInv, ChainLinked
          <5> QED
            BY <1>2, <1>3, <1>5, <4>1, <5>1
        <4>3. Cardinality(copies(id)) = 0
          BY <1>6, <4>2
        <4>4. next = None \/ i <= next
          <5> SUFFICES ASSUME next # None PROVE i <= next
            OBVIOUS
          <5>1. next \in page /\ next > cursor[d]
            BY <1>2
          <5> QED
            BY <1>2, <1>3, <1>5, <4>1, <5>1
        <4>5. Behind(d, id)'
          BY <1>1, <3>1, <4>1, <4>4 DEF Behind
        <4> QED
          BY <2>2, <3>1, <3>2, <4>3, <4>5
      <3>3. CASE given[d][id] = 0
        <4>1. CASE Cardinality(copies(id)) = 0
          BY <2>2, <3>1, <3>3, <4>1
        <4>2. CASE Cardinality(copies(id)) # 0
          <5>1. PICK i \in page : chain[i].post.id = id /\ Cardinality(copies(id)) = 1
            BY <1>6, <4>2
          <5>2. Behind(d, id)'
            BY <1>1, <1>2, <3>1, <5>1 DEF Behind
          <5> QED
            BY <2>2, <3>1, <3>3, <5>1, <5>2
        <4> QED
          BY <4>1, <4>2
      <3> QED
        BY <3>2, <3>3 DEF BoardInv, GivenBehind
    <2> QED
      BY <2>1, <2>2
  <1> QED
    BY <1>9, <1>10, <1>11, <1>12 DEF BoardInv

-----------------------------------------------------------------------------
(* Every step keeps the invariant.                                         *)
LEMMA StepBoardInv == BoardInv /\ [Next]_vars => BoardInv'
  <1>1. ASSUME BoardInv, Next PROVE BoardInv'
    <2>1. CASE Posting
      BY <1>1, <2>1, PostingBoardInv
    <2>2. CASE Retracting
      BY <1>1, <2>2, RetractingBoardInv
    <2>3. CASE \E l \in open : Store(l) \/ Conflict(l)
      BY <1>1, <2>3, StoreBoardInv, ConflictBoardInv
    <2>4. CASE \E id \in PostId, d \in Flagger, category \in Category : Flag(id, d, category)
      BY <1>1, <2>4, FlagBoardInv
    <2>5. CASE \E d \in Reader : Query(d)
      BY <1>1, <2>5, QueryBoardInv
    <2>6. CASE \E r \in Receipt : Settle(r)
      BY <1>1, <2>6, SettleBoardInv
    <2> QED
      BY <1>1, <2>1, <2>2, <2>3, <2>4, <2>5, <2>6 DEF Next
  <1>2. ASSUME BoardInv, UNCHANGED vars PROVE BoardInv'
    <2>1. UNCHANGED <<available, held, hold, external, chain, open, anchors, receipts, flags, cursor, given>>
      BY <1>2 DEF vars, walletVars, readerVars
    <2>2. TypeOK'
      BY <1>2, <2>1 DEF BoardInv, TypeOK, W!TypeOK
    <2>3. ChainLinked' /\ HeadWasRead' /\ Anchored'
      BY <1>2, <2>1 DEF BoardInv, ChainLinked, HeadWasRead, Anchored, Root
    <2>4. FeesHeld' /\ HoldsApart'
      BY <1>2, <2>1 DEF BoardInv, FeesHeld, FeeHeld, HoldsApart
    <2>5. RecordsEarned'
      BY <1>2, <2>1 DEF BoardInv, RecordsEarned, RecordEarned
    <2>6. GivenBehind'
      BY <1>2, <2>1 DEF BoardInv, GivenBehind, Behind
    <2> QED
      BY <2>2, <2>3, <2>4, <2>5, <2>6 DEF BoardInv
  <1> QED
    BY <1>1, <1>2

(* The inductive invariant of the board.                                   *)
LEMMA BoardInvariant == Spec => []BoardInv
  BY InitBoardInv, StepBoardInv, PTL DEF Spec

-----------------------------------------------------------------------------
(* Concurrent posts never fork the chain, and every length it had has its  *)
(* anchor (repo.ts:17-18, service.ts:117-136, 377-386), whatever the number*)
(* of posts and of requests between the head and the append.               *)
THEOREM ChainNeverForks == Spec => []ChainVerifiable
  <1>1. BoardInv => ChainVerifiable
    BY DEF BoardInv, ChainVerifiable
  <1> QED
    BY <1>1, BoardInvariant, PTL

(* Every post in the chain has a fee hold of its own or a receipt it was   *)
(* earned with (service.ts:129-134, 344-349), and the variables have their *)
(* types.                                                                  *)
THEOREM PostsHaveBacking == Spec => []PostsBacked
  <1>1. BoardInv => PostsBacked
    <2> SUFFICES ASSUME BoardInv PROVE FeeBacked /\ TrackRecordsEarned
      BY DEF BoardInv, PostsBacked
    <2>1. FeeBacked
      BY DEF BoardInv, FeesHeld, FeeHeld, HoldsApart, FeeBacked
    <2>2. TrackRecordsEarned
      BY DEF BoardInv, RecordsEarned, RecordEarned, TrackRecordsEarned
    <2> QED
      BY <2>1, <2>2
  <1> QED
    BY <1>1, BoardInvariant, PTL

(* No reader is given a post twice, however the chain grows and the        *)
(* ranking changes between its queries (service.ts:200-203).               *)
THEOREM PagesNeverRepeat == Spec => []NeverGivenTwice
  <1>1. BoardInv => NeverGivenTwice
    BY DEF BoardInv, GivenBehind, NeverGivenTwice
  <1> QED
    BY <1>1, BoardInvariant, PTL
=============================================================================
