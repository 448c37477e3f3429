--------------------------- MODULE MailroomProofs ---------------------------
(***************************************************************************)
(* What the mailroom guarantees for every set of agents, messages, threads *)
(* and holds: the postage and the wallets it moves, the flags that settle  *)
(* it, and, where no opening message names a thread that exists, the       *)
(* threads and the agreements.                                             *)
(***************************************************************************)
EXTENDS Mailroom, SetLemmas

-----------------------------------------------------------------------------
(* The wallets.                                                            *)

Backing == [h \in HoldId |-> IF W!Fresh(h) THEN 0 ELSE hold[h].amount]
Earmarked(d) == {h \in HoldId : W!Active(h) /\ hold[h].did = d}

(* What the wallets hold, over the sums of this module.                    *)
Backed == \A d \in Did : held[d] = SumFunctionOnSet(Backing, Earmarked(d))
Conserved == SumFunction(available) + SumFunction(held) + external = 0

(* The sums of Wallet are those of this module.                            *)
LEMMA WalletSums ==
  ASSUME NEW f, NEW S
  PROVE  W!SumFunctionOnSet(f, S) = SumFunctionOnSet(f, S) /\ W!SumFunction(f) = SumFunction(f)
  BY DEF W!SumFunction, W!SumFunctionOnSet, W!FoldFunctionOnSet, W!MapThenFoldSet,
         SumFunction, SumFunctionOnSet, FoldFunctionOnSet, MapThenFoldSet

(* The wallet's property, under a name of its own.                         *)
LEMMA BackedIs == Backed <=> W!HeldIsBacked
  BY WalletSums DEF Backed, Backing, Earmarked, W!HeldIsBacked, W!Fresh, W!Active, W!NoHold

(* And its conservation of value.                                          *)
LEMMA ConservedIs == Conserved <=> W!Conservation
  BY WalletSums DEF Conserved, W!Conservation

(* Moving amounts between two entries of a function of the agents.         *)
LEMMA SumShifts ==
  ASSUME NEW f \in [Did -> Int], NEW d \in Did, NEW a \in Int, NEW g \in [Did -> Int],
         g[d] = f[d] + a, \A x \in Did \ {d} : g[x] = f[x]
  PROVE  SumFunction(g) = SumFunction(f) + a
<1>1. DOMAIN f = Did /\ DOMAIN g = Did /\ \A x \in Did : f[x] \in Int
  OBVIOUS
<1>2. SumFunctionOnSet(g, Did) = SumFunctionOnSet(f, Did) - f[d] + g[d]
  BY <1>1, MailroomAssumption, SumUpdate DEF MailroomAssumption
<1>3. SumFunctionOnSet(f, Did) \in Int
  BY <1>1, MailroomAssumption, SumInt DEF MailroomAssumption
<1> QED
  BY <1>1, <1>2, <1>3 DEF SumFunction

(* A hold is taken from the available balance and earmarked.               *)
LEMMA HoldBacks ==
  ASSUME W!TypeOK, Backed, Conserved, external \in Int,
         NEW h \in HoldId, NEW d \in Did, NEW a \in Nat, W!PlaceHold(h, d, a)
  PROVE  Backed' /\ Conserved' /\ external' \in Int
<1> DEFINE row == [state |-> "active", did |-> d, amount |-> a]
<1>1. /\ hold[h] = W!NoHold
      /\ available' = [available EXCEPT ![d] = @ + (-a)]
      /\ held' = [held EXCEPT ![d] = @ + a]
      /\ hold' = [hold EXCEPT ![h] = row] /\ external' = external
  BY DEF W!PlaceHold, W!Fresh, W!TypeOK
<1>2. /\ available \in [Did -> Int] /\ held \in [Did -> Int]
      /\ hold \in [HoldId -> W!Hold \cup {W!NoHold}]
  BY DEF W!TypeOK
<1>3. Conserved'
  <2>1. SumFunction(available') = SumFunction(available) + (-a)
    <3> DEFINE f == available
               g == available'
               b == -a
    <3>1. /\ b \in Int /\ f \in [Did -> Int] /\ g \in [Did -> Int] /\ d \in Did
          /\ g[d] = f[d] + b /\ \A x \in Did \ {d} : g[x] = f[x]
      BY <1>1, <1>2
    <3> HIDE DEF f, g, b
    <3>2. SumFunction(g) = SumFunction(f) + b
      BY <3>1, SumShifts
    <3> QED
      BY <3>2 DEF f, g, b
  <2>2. SumFunction(held') = SumFunction(held) + a
    <3> DEFINE f == held
               g == held'
               b == a
    <3>1. /\ b \in Int /\ f \in [Did -> Int] /\ g \in [Did -> Int] /\ d \in Did
          /\ g[d] = f[d] + b /\ \A x \in Did \ {d} : g[x] = f[x]
      BY <1>1, <1>2
    <3> HIDE DEF f, g, b
    <3>2. SumFunction(g) = SumFunction(f) + b
      BY <3>1, SumShifts
    <3> QED
      BY <3>2 DEF f, g, b
  <2>3. SumFunction(available) \in Int /\ SumFunction(held) \in Int
    BY <1>2, MailroomAssumption, SumInt DEF MailroomAssumption, SumFunction
  <2> QED
    BY <1>1, <2>1, <2>2, <2>3 DEF Conserved
<1>4. /\ \A x \in HoldId : Backing[x] \in Int /\ (x # h => Backing'[x] = Backing[x])
      /\ Backing'[h] = a
  <2>1. \A x \in HoldId : Backing[x] \in Int
    BY <1>2 DEF Backing, W!Fresh, W!NoHold, W!Hold
  <2>2. \A x \in HoldId \ {h} : Backing'[x] = Backing[x]
    BY <1>1, <1>2 DEF Backing, W!Fresh
  <2>3. hold'[h].amount = a /\ hold'[h] # W!NoHold
    BY <1>1, <1>2 DEF W!NoHold
  <2> QED
    BY <2>1, <2>2, <2>3 DEF Backing, W!Fresh
<1>5. /\ h \notin Earmarked(d)
      /\ Earmarked(d)' = Earmarked(d) \cup {h}
      /\ \A x \in Did \ {d} : Earmarked(x)' = Earmarked(x) /\ h \notin Earmarked(x)
  <2>1. hold[h].state # "active" /\ hold'[h].state = "active" /\ hold'[h].did = d
    BY <1>1, <1>2 DEF W!NoHold
  <2>2. \A x \in HoldId \ {h} : hold'[x] = hold[x]
    BY <1>1, <1>2
  <2> QED
    BY <2>1, <2>2 DEF Earmarked, W!Active
<1>6. \A x \in Did : IsFiniteSet(Earmarked(x)) /\ Earmarked(x) \subseteq HoldId
  <2>1. \A x \in Did : Earmarked(x) \in SUBSET HoldId
    BY DEF Earmarked
  <2> QED
    BY <2>1, MailroomAssumption, FS_Subset DEF MailroomAssumption
<1>7. Backed'
  <2>1. SUFFICES ASSUME NEW x \in Did
                 PROVE  held'[x] = SumFunctionOnSet(Backing', Earmarked(x)')
    BY DEF Backed
  <2>2. held[x] = SumFunctionOnSet(Backing, Earmarked(x))
    BY DEF Backed
  <2>3. CASE x = d
    <3>1. /\ h \notin Earmarked(d) /\ Backing'[h] \in Int
          /\ \A y \in Earmarked(d) : Backing[y] \in Int /\ Backing'[y] = Backing[y]
      BY <1>4, <1>5, <1>6
    <3>2. SumFunctionOnSet(Backing', Earmarked(d) \cup {h})
            = SumFunctionOnSet(Backing, Earmarked(d)) + Backing'[h]
      <4> DEFINE f == Backing
                 g == Backing'
                 S == Earmarked(d)
      <4>1. h \notin S /\ g[h] \in Int /\ \A y \in S : f[y] \in Int /\ g[y] = f[y]
        BY <3>1
      <4>2. IsFiniteSet(S)
        BY <1>6
      <4> HIDE DEF f, g, S
      <4>3. SumFunctionOnSet(g, S \cup {h}) = SumFunctionOnSet(f, S) + g[h]
        BY <4>1, <4>2, SumJoins
      <4> QED
        BY <4>3 DEF f, g, S
    <3> QED
      BY <1>1, <1>2, <1>4, <1>5, <2>2, <2>3, <3>2
  <2>4. CASE x # d
    <3>1. SumFunctionOnSet(Backing', Earmarked(x)) = SumFunctionOnSet(Backing, Earmarked(x))
      BY <1>4, <1>5, <1>6, <2>4, SumSame
    <3> QED
      BY <1>1, <1>2, <1>5, <2>2, <2>4, <3>1
  <2> QED
    BY <2>3, <2>4
<1> QED
  BY <1>1, <1>3, <1>7

(* An active hold is settled: what it earmarked goes to an available       *)
(* balance, or is burned.                                                  *)
Settles(h, to, state, burned) ==
  /\ W!Active(h)
  /\ available' = [available EXCEPT ![to] = @ + (hold[h].amount - burned)]
  /\ held' = [held EXCEPT ![hold[h].did] = @ - hold[h].amount]
  /\ hold' = [hold EXCEPT ![h].state = state]
  /\ external' = external + burned

(* Settling a hold keeps what is held backed by the active holds.          *)
LEMMA SettlingBacks ==
  ASSUME W!TypeOK, Backed, Conserved, external \in Int,
         NEW h \in HoldId, NEW to \in Did, NEW state \in W!Settled, NEW burned \in Int,
         Settles(h, to, state, burned)
  PROVE  Backed' /\ Conserved' /\ external' \in Int
<1>1. /\ available \in [Did -> Int] /\ held \in [Did -> Int]
      /\ hold \in [HoldId -> W!Hold \cup {W!NoHold}]
      /\ hold[h] \in W!Hold
  BY DEF W!TypeOK, W!Active, W!NoHold, Settles
<1>2. PICK d \in Did, a \in Nat : d = hold[h].did /\ a = hold[h].amount
  BY <1>1 DEF W!Hold
<1>3. /\ available' = [available EXCEPT ![to] = @ + (a - burned)]
      /\ held' = [held EXCEPT ![d] = @ + (-a)]
      /\ \A x \in HoldId \ {h} : hold'[x] = hold[x]
      /\ hold'[h].state = state /\ hold'[h].did = d /\ hold'[h].amount = a
      /\ external' = external + burned
  BY <1>1, <1>2 DEF W!Hold, Settles
<1>4. Conserved'
  <2>1. SumFunction(available') = SumFunction(available) + (a - burned)
    <3> DEFINE f == available
               g == available'
               b == a - burned
    <3>1. /\ b \in Int /\ f \in [Did -> Int] /\ g \in [Did -> Int] /\ to \in Did
          /\ g[to] = f[to] + b /\ \A x \in Did \ {to} : g[x] = f[x]
      BY <1>1, <1>2, <1>3
    <3> HIDE DEF f, g, b
    <3>2. SumFunction(g) = SumFunction(f) + b
      BY <3>1, SumShifts
    <3> QED
      BY <3>2 DEF f, g, b
  <2>2. SumFunction(held') = SumFunction(held) + (-a)
    <3> DEFINE f == held
               g == held'
               b == -a
    <3>1. /\ b \in Int /\ f \in [Did -> Int] /\ g \in [Did -> Int] /\ d \in Did
          /\ g[d] = f[d] + b /\ \A x \in Did \ {d} : g[x] = f[x]
      BY <1>1, <1>2, <1>3
    <3> HIDE DEF f, g, b
    <3>2. SumFunction(g) = SumFunction(f) + b
      BY <3>1, SumShifts
    <3> QED
      BY <3>2 DEF f, g, b
  <2>3. SumFunction(available) \in Int /\ SumFunction(held) \in Int
    BY <1>1, MailroomAssumption, SumInt DEF MailroomAssumption, SumFunction
  <2> QED
    BY <1>2, <1>3, <2>1, <2>2, <2>3 DEF Conserved
<1>5. /\ \A x \in HoldId : Backing[x] \in Int /\ (x # h => Backing'[x] = Backing[x])
      /\ Backing[h] = a
  <2>1. \A x \in HoldId : Backing[x] \in Int
    BY <1>1 DEF Backing, W!Fresh, W!NoHold, W!Hold
  <2>2. \A x \in HoldId \ {h} : Backing'[x] = Backing[x]
    BY <1>3 DEF Backing, W!Fresh
  <2>3. ~W!Fresh(h)
    BY DEF W!Active, W!Fresh, W!NoHold, Settles
  <2> QED
    BY <1>2, <2>1, <2>2, <2>3 DEF Backing
<1>6. /\ h \in Earmarked(d)
      /\ Earmarked(d)' = Earmarked(d) \ {h}
      /\ \A x \in Did \ {d} : Earmarked(x)' = Earmarked(x)
  <2>1. state # "active"
    BY DEF W!Settled
  <2> QED
    BY <1>2, <1>3, <2>1 DEF Earmarked, W!Active, Settles
<1>7. \A x \in Did : IsFiniteSet(Earmarked(x)) /\ Earmarked(x) \subseteq HoldId
  <2>1. \A x \in Did : Earmarked(x) \in SUBSET HoldId
    BY DEF Earmarked
  <2> QED
    BY <2>1, MailroomAssumption, FS_Subset DEF MailroomAssumption
<1>8. Backed'
  <2>1. SUFFICES ASSUME NEW x \in Did
                 PROVE  held'[x] = SumFunctionOnSet(Backing', Earmarked(x)')
    BY DEF Backed
  <2>2. held[x] = SumFunctionOnSet(Backing, Earmarked(x))
    BY DEF Backed
  <2>3. CASE x = d
    <3> DEFINE f == Backing
               g == Backing'
               S == Earmarked(d)
    <3> DEFINE R == S \ {h}
    <3>1. h \in S /\ R = S \ {h} /\ \A y \in S : f[y] \in Int /\ (y # h => g[y] = f[y])
      BY <1>5, <1>6, <1>7, <1>2
    <3>2. IsFiniteSet(S)
      BY <1>7, <1>2
    <3> HIDE DEF f, g, S, R
    <3>3. SumFunctionOnSet(f, S) = f[h] + SumFunctionOnSet(g, R)
      <4>1. SumFunctionOnSet(f, S) = f[h] + SumFunctionOnSet(f, R)
        BY <3>1, <3>2, SumRemove
      <4>2. IsFiniteSet(R) /\ \A y \in R : g[y] = f[y]
        BY <3>1, <3>2, FS_RemoveElement
      <4>3. SumFunctionOnSet(g, R) = SumFunctionOnSet(f, R)
        BY <4>2, SumSame
      <4> QED
        BY <4>1, <4>3
    <3>4. SumFunctionOnSet(Backing, Earmarked(d)) = a + SumFunctionOnSet(Backing', Earmarked(d)')
      BY <1>5, <1>6, <3>3 DEF f, g, S, R
    <3>5. SumFunctionOnSet(Backing', Earmarked(d)') \in Int
      <4>1. IsFiniteSet(R) /\ \A y \in R : g[y] \in Int
        BY <3>1, <3>2, <1>2, <1>5, FS_RemoveElement DEF f, g, S, R
      <4>2. SumFunctionOnSet(g, R) \in Int
        BY <4>1, SumInt
      <4> QED
        BY <1>6, <4>2 DEF g, R, S
    <3>6. held'[d] = held[d] - a /\ held[d] \in Int
      BY <1>1, <1>2, <1>3
    <3>7. held[d] = SumFunctionOnSet(Backing, Earmarked(d))
      BY <1>2 DEF Backed
    <3>8. held'[d] = SumFunctionOnSet(Backing', Earmarked(d)')
      <4> DEFINE old == SumFunctionOnSet(Backing, Earmarked(d))
                 new == SumFunctionOnSet(Backing', Earmarked(d)')
      <4>1. /\ held'[d] = held[d] - a /\ held[d] \in Int
            /\ held[d] = old /\ old = a + new /\ new \in Int /\ a \in Nat
        BY <1>2, <3>4, <3>5, <3>6, <3>7
      <4> HIDE DEF old, new
      <4>2. held'[d] = new
        BY <4>1
      <4> QED
        BY <4>2 DEF new
    <3> QED
      BY <2>3, <3>8
  <2>4. CASE x # d
    <3>1. SumFunctionOnSet(Backing', Earmarked(x)) = SumFunctionOnSet(Backing, Earmarked(x))
      <4>1. \A y \in Earmarked(x) : y # h
        BY <1>2, <2>4 DEF Earmarked
      <4> QED
        BY <1>5, <1>7, <4>1, SumSame
    <3> QED
      BY <1>1, <1>2, <1>3, <1>6, <2>2, <2>4, <3>1
  <2> QED
    BY <2>3, <2>4
<1> QED
  BY <1>3, <1>4, <1>8

-----------------------------------------------------------------------------
(* The inductive invariant.                                                *)

(* A message has a hold of its sender's, of its own.                       *)
HoldsOfMessages ==
  /\ \A i \in DOMAIN log :
       ~W!Fresh(log[i].hold) /\ hold[log[i].hold].did = log[i].from
  /\ \A i, j \in DOMAIN log : log[i].hold = log[j].hold => i = j

(* A flag under way has forfeited the hold of a message with its id.       *)
FlagsKnown ==
  \A f \in flagging : \E i \in DOMAIN log :
    log[i].id = f.id /\ log[i].hold = f.hold /\ hold[f.hold].state = "forfeited"

(* PostageMetered, over the sums of this module.                           *)
Used(d) == {h \in HoldId : ~W!Fresh(h) /\ hold[h].did = d}
Metered ==
  \A d \in Did : /\ SumFunction(spent[d]) = Postage * Cardinality(Used(d))
                 /\ \A x \in 0..LastDay : spent[d][x] <= Cap[d]

MoneyInv ==
  /\ TypeOK /\ external \in Int
  /\ Backed /\ Conserved
  /\ HoldsOfMessages /\ FlagsKnown /\ OutcomeTold /\ PenaltyPerForfeit
  /\ Metered

(* A reader is not past the end of the log.                                *)
ReaderInv == (\A d \in Reader : since[d] <= Len(log)) /\ InboxComplete

(* A thread with messages is on record; its state and its quote are those  *)
(* of its messages.                                                        *)
ThreadsKept ==
  /\ \A i \in DOMAIN log : thread[log[i].thread] # NoThread
  /\ \A t \in Thread : thread[t] = NoThread => Replay(log, t) = "OPEN"
  /\ \A t \in Thread : thread[t] # NoThread =>
       /\ thread[t].state = Replay(log, t)
       /\ thread[t].quote = IF QuotesIn(t) = {} THEN None ELSE log[Max(QuotesIn(t))].quote

ThreadInv == ThreadsKept /\ AgreementBinds

-----------------------------------------------------------------------------
(* What a step works on.                                                   *)

(* The messages of the log.                                                *)
LEMMA LogMessages ==
  ASSUME TypeOK
  PROVE  /\ DOMAIN log = 1..Len(log) /\ Len(log) \in Nat
         /\ \A i \in DOMAIN log :
              /\ log[i] \in Message /\ log[i].id \in MsgId /\ log[i].hold \in HoldId
              /\ log[i].from \in Did /\ log[i].to \in Did
              /\ log[i].thread \in Thread /\ log[i].quote \in Quote \cup {None}
              /\ log[i].type = "QUOTE" => log[i].terms \in Terms
<1>1. log \in Seq(Message)
  BY DEF TypeOK
<1>2. /\ DOMAIN log = 1..Len(log) /\ Len(log) \in Nat
      /\ \A i \in DOMAIN log : log[i] \in Message
  BY <1>1
<1>3. \A m \in Message :
        /\ m.id \in MsgId /\ m.hold \in HoldId /\ m.from \in Did /\ m.to \in Did
        /\ m.thread \in Thread /\ m.quote \in Quote \cup {None}
        /\ m.type = "QUOTE" => m.terms \in Terms
  BY DEF Message
<1> QED
  BY <1>2, <1>3

(* The message stored under an id is one of the log.                       *)
LEMMA StoredMessage ==
  ASSUME log \in Seq(Message), NEW id, Stored(id)
  PROVE  \E i \in DOMAIN log : log[i].id = id /\ MessageAt(id) = log[i]
<1>1. /\ Cursors(id) \in SUBSET Nat /\ Cursors(id) # {}
      /\ Len(log) \in Nat /\ \A i \in Cursors(id) : i <= Len(log)
  BY DEF Cursors, Stored
<1>2. Max(Cursors(id)) \in Cursors(id)
  BY <1>1, MaxNat
<1> QED
  BY <1>2 DEF Cursors, MessageAt

(* What a page of an inbox holds, it holds with all that came before it.   *)
LEMMA InboxInOrder ==
  ASSUME TypeOK, NEW d, NEW after \in Nat, NEW limit \in Nat,
         NEW c \in InboxPage(d, after, limit),
         NEW b \in DOMAIN log, log[b].to = d, b > after, b <= c
  PROVE  b \in InboxPage(d, after, limit)
<1> DEFINE unread == {i \in DOMAIN log : log[i].to = d /\ i > after}
           First(i) == {j \in unread : j <= i}
<1>1. DOMAIN log = 1..Len(log) /\ Len(log) \in Nat
  BY LogMessages
<1>2. InboxPage(d, after, limit) = {i \in unread : Cardinality(First(i)) <= limit}
  BY DEF InboxPage
<1>3. c \in unread /\ Cardinality(First(c)) <= limit /\ b \in unread
  BY <1>2
<1>4. First(b) \subseteq First(c) /\ First(c) \in SUBSET (1..Len(log))
  BY <1>1, <1>3
<1>5. IsFiniteSet(First(c)) /\ IsFiniteSet(First(b))
  <2>1. IsFiniteSet(1..Len(log))
    BY <1>1, FS_Interval
  <2>2. First(c) \in SUBSET (1..Len(log)) /\ First(b) \in SUBSET (1..Len(log))
    BY <1>4
  <2> HIDE DEF First
  <2> QED
    BY <2>1, <2>2, FS_Subset
<1>6. /\ Cardinality(First(b)) \in Nat /\ Cardinality(First(c)) \in Nat
      /\ Cardinality(First(b)) <= Cardinality(First(c))
  BY <1>4, <1>5, FS_Subset, FS_CardinalityType
<1>7. Cardinality(First(b)) <= limit
  BY <1>3, <1>6
<1> QED
  BY <1>2, <1>3, <1>7

(* The terms of a handoff are those of a QUOTE with the id of the ACCEPT,  *)
(* the first of that id to reach its recipient.                            *)
LEMMA AgreedOffer ==
  ASSUME TypeOK, NEW m, QuotesFound(m) # {}
  PROVE  \E c \in DOMAIN log :
           FirstOffer(c) /\ log[c].quote = m.quote /\ log[c].terms = AgreedTerms(m)
<1>1. DOMAIN log = 1..Len(log) /\ Len(log) \in Nat
  BY LogMessages
<1>2. PICK d : QuotesFound(m) = QuotesTo(d, m.quote)
  BY DEF QuotesFound
<1> DEFINE c == Min(QuotesFound(m))
<1>3. c \in QuotesTo(d, m.quote) /\ \A x \in QuotesTo(d, m.quote) : c <= x
  <2>1. QuotesFound(m) \in SUBSET Nat
    BY <1>1, <1>2 DEF QuotesTo, InboxPage
  <2> QED
    BY <1>2, <2>1, MinNat
<1>4. AgreedTerms(m) = log[c].terms
  BY DEF AgreedTerms
<1> HIDE DEF c
<1>5. /\ c \in InboxPage(d, 0, ScanLimit)
      /\ log[c].type = "QUOTE" /\ log[c].quote = m.quote
  BY <1>3 DEF QuotesTo
<1>6. c \in DOMAIN log /\ log[c].to = d
  BY <1>5 DEF InboxPage
<1>7. ASSUME NEW b \in 1..c, log[b].type = "QUOTE", log[b].quote = log[c].quote,
             log[b].to = log[c].to
      PROVE  b = c
  <2>1. b \in DOMAIN log /\ b > 0 /\ b <= c
    BY <1>1, <1>6
  <2>2. b \in InboxPage(d, 0, ScanLimit)
    BY <1>5, <1>6, <1>7, <2>1, InboxInOrder, MailroomAssumption DEF MailroomAssumption
  <2>3. b \in QuotesTo(d, m.quote)
    BY <1>5, <1>7, <2>2 DEF QuotesTo
  <2>4. c <= b
    BY <1>3, <2>3
  <2> QED
    BY <1>1, <1>6, <2>1, <2>4
<1>8. FirstOffer(c)
  BY <1>5, <1>7 DEF FirstOffer
<1> QED
  BY <1>4, <1>5, <1>6, <1>8

(* What a request sends: a message to a thread that is new, or named by an *)
(* opening message, or its parent's.                                       *)
Sendable(m, opens) ==
  /\ m \in [id : MsgId, from : Did, to : Did, type : UNION {Sends[d] : d \in Did},
            thread : Thread \cup {None}, quote : Quote \cup {None},
            terms : Terms \cup {None}, hold : HoldId]
  /\ opens \in BOOLEAN
  /\ opens => m.thread \in Thread /\ (ReuseThread \/ thread[m.thread] = NoThread)
  /\ ~opens /\ m.thread # None => \E i \in DOMAIN log : m.thread = log[i].thread
  /\ m.type = "QUOTE" => m.quote # None /\ m.terms \in Terms

(* A message that is sent is delivered or refused.                         *)
LEMMA SendingSends ==
  ASSUME TypeOK, Sending
  PROVE  \E m, opens : Sendable(m, opens) /\ (Deliver(m, opens) \/ Refuse(m, opens))
<1>1. PICK from, to, type, at, id, q :
        /\ from \in Did /\ to \in Peers[from]
        /\ type \in Sends[from] /\ at \in Openings \cup Replies
        /\ id \in Ids /\ q \in QuotesOf(type)
        /\ LET m == [id |-> id, from |-> from, to |-> to, type |-> type,
                     thread |-> at[2], quote |-> q[1], terms |-> q[2], hold |-> FreshHold]
           IN  Deliver(m, at[1]) \/ Refuse(m, at[1])
  BY DEF Sending
<1> DEFINE m == [id |-> id, from |-> from, to |-> to, type |-> type,
                 thread |-> at[2], quote |-> q[1], terms |-> q[2], hold |-> FreshHold]
<1>2. FreshHold \in HoldId
  BY DEF Sending, FreshHold, FreshHolds
<1>3. /\ q[1] \in Quote \cup {None} /\ q[2] \in Terms \cup {None}
      /\ type = "QUOTE" => q[1] # None /\ q[2] \in Terms
  <2>1. None \notin Quote
    BY MailroomAssumption DEF MailroomAssumption
  <2>2. CASE type = "QUOTE"
    BY <1>1, <2>1, <2>2 DEF QuotesOf
  <2>3. CASE type = "ACCEPT"
    BY <1>1, <2>3 DEF QuotesOf
  <2>4. CASE type \notin {"QUOTE", "ACCEPT"}
    BY <1>1, <2>4 DEF QuotesOf
  <2> QED
    BY <2>2, <2>3, <2>4
<1>4. /\ at[1] \in BOOLEAN
      /\ at[1] => at[2] \in Thread /\ (ReuseThread \/ thread[at[2]] = NoThread)
      /\ ~at[1] /\ at[2] # None => \E i \in DOMAIN log : at[2] = log[i].thread
      /\ at[2] \in Thread \cup {None}
  <2>1. CASE at \in Openings
    <3>1. at[1] = TRUE
      BY <2>1 DEF Openings
    <3>2. CASE at[2] \in Thread \ FreshThreads /\ ReuseThread
      BY <3>1, <3>2
    <3>3. CASE FreshThreads # {} /\ at[2] = NewThread
      BY <3>1, <3>3 DEF NewThread, FreshThreads
    <3> QED
      BY <2>1, <3>2, <3>3 DEF Openings
  <2>2. CASE at \in Replies
    <3>1. at[1] = FALSE
      BY <2>2 DEF Replies
    <3>2. CASE at[2] = None
      BY <3>1, <3>2
    <3>3. CASE \E x \in MsgId : Stored(x) /\ at[2] = MessageAt(x).thread
      <4>1. PICK x \in MsgId : Stored(x) /\ at[2] = MessageAt(x).thread
        BY <3>3
      <4>2. PICK i \in DOMAIN log : MessageAt(x) = log[i]
        BY <4>1, StoredMessage DEF TypeOK
      <4>3. log[i].thread \in Thread
        BY <4>2, LogMessages
      <4> QED
        BY <3>1, <4>1, <4>2, <4>3
    <3> QED
      BY <2>2, <3>2, <3>3 DEF Replies
  <2> QED
    BY <1>1, <2>1, <2>2
<1>5. Sendable(m, at[1])
  <2>1. /\ id \in MsgId /\ type \in UNION {Sends[d] : d \in Did}
        /\ from \in Did /\ to \in Did
    BY <1>1, MailroomAssumption DEF Ids, MailroomAssumption
  <2>2. /\ m.thread = at[2] /\ m.type = type /\ m.quote = q[1] /\ m.terms = q[2]
        /\ m \in [id : MsgId, from : Did, to : Did, type : UNION {Sends[d] : d \in Did},
                  thread : Thread \cup {None}, quote : Quote \cup {None},
                  terms : Terms \cup {None}, hold : HoldId]
    BY <1>2, <1>3, <1>4, <2>1
  <2> HIDE DEF m
  <2> QED
    BY <1>3, <1>4, <2>2 DEF Sendable
<1>6. Deliver(m, at[1]) \/ Refuse(m, at[1])
  BY <1>1
<1> QED
  BY <1>5, <1>6

(* The message that is stored, and the log with it.                        *)
LEMMA Delivered ==
  ASSUME TypeOK, NEW m, NEW opens, Sendable(m, opens), Deliver(m, opens)
  PROVE  /\ m \in Message /\ log' = Append(log, m) /\ log' \in Seq(Message)
         /\ Len(log') = Len(log) + 1 /\ Len(log) \in Nat
         /\ DOMAIN log = 1..Len(log) /\ DOMAIN log' = 1..Len(log) + 1
         /\ \A i \in 1..Len(log) : log'[i] = log[i]
         /\ log'[Len(log) + 1] = m
<1>1. m.thread \in Thread
  BY DEF Sendable, Deliver, Resolved
<1>2. m \in Message
  BY <1>1 DEF Sendable, Message
<1>3. log \in Seq(Message) /\ log' = Append(log, m)
  BY DEF TypeOK, Deliver, Store
<1> HIDE DEF Message
<1> QED
  BY <1>2, <1>3

(* A state that a message moves to is one of the machine's.                *)
LEMMA NextStates ==
  ASSUME NEW s, NEW type, s \in ThreadState \/ Moves(s, type)
  PROVE  NextState(s, type) \in ThreadState
  BY DEF NextState, Moves, LegalSelfTransition, ThreadState

-----------------------------------------------------------------------------
(* The wallets and the meter, step by step.                                *)

(* The rows keep their shapes.                                             *)
LEMMA HoldTypes ==
  ASSUME W!TypeOK, NEW h \in HoldId, NEW d \in Did, NEW a \in Nat, W!PlaceHold(h, d, a)
  PROVE  W!TypeOK'
<1>1. available' \in [Did -> Nat]
  BY DEF W!TypeOK, W!PlaceHold, W!CanHold
<1>2. held' \in [Did -> Int]
  BY DEF W!TypeOK, W!PlaceHold
<1>3. hold' \in [HoldId -> W!Hold \cup {W!NoHold}]
  BY DEF W!TypeOK, W!PlaceHold, W!Hold, W!HoldState
<1> QED
  BY <1>1, <1>2, <1>3 DEF W!TypeOK

(* Settling a hold keeps the types of the wallet.                          *)
LEMMA SettlingTypes ==
  ASSUME W!TypeOK, NEW h \in HoldId, NEW to \in Did, NEW state \in W!Settled, NEW burned,
         burned \in 0..hold[h].amount, Settles(h, to, state, burned)
  PROVE  W!TypeOK'
<1>1. /\ available \in [Did -> Nat] /\ held \in [Did -> Int]
      /\ hold \in [HoldId -> W!Hold \cup {W!NoHold}]
      /\ hold[h] \in W!Hold
  BY DEF W!TypeOK, W!Active, W!NoHold, Settles
<1>2. hold[h].did \in Did /\ hold[h].amount \in Nat
  BY <1>1 DEF W!Hold
<1>3. available' \in [Did -> Nat]
  BY <1>1, <1>2 DEF Settles
<1>4. held' \in [Did -> Int]
  BY <1>1, <1>2 DEF Settles
<1>5. hold' \in [HoldId -> W!Hold \cup {W!NoHold}]
  <2>1. [hold[h] EXCEPT !.state = state] \in W!Hold
    BY <1>1 DEF W!Hold, W!HoldState
  <2> QED
    BY <1>1, <2>1 DEF Settles
<1> QED
  BY <1>3, <1>4, <1>5 DEF W!TypeOK

(* A new hold row, of a message stored or refused.                         *)
Takes(h, d, state) ==
  /\ hold[h] = W!NoHold
  /\ hold' = [hold EXCEPT ![h] = [state |-> state, did |-> d, amount |-> Postage]]

(* What a new hold leaves alone.                                           *)
LEMMA Taking ==
  ASSUME TypeOK, NEW h \in HoldId, NEW d \in Did, NEW state \in {"active", "released"},
         Takes(h, d, state)
  PROVE  /\ W!Fresh(h) /\ ~W!Fresh(h)' /\ hold'[h].did = d /\ hold'[h].state = state
         /\ \A x \in HoldId : x # h => hold'[x] = hold[x]
         /\ hold[h].state = "none"
         /\ \A x \in HoldId : ~W!Fresh(x) => hold'[x] = hold[x]
  BY DEF Takes, TypeOK, W!TypeOK, W!Fresh, W!NoHold

(* The day's total grows by the postage of the hold.                       *)
LEMMA TakingMeters ==
  ASSUME TypeOK, Metered, NEW m, m.from \in Did, m.hold \in HoldId, Charge(m),
         NEW state \in {"active", "released"}, Takes(m.hold, m.from, state)
  PROVE  Metered' /\ spent' \in [Did -> [0..LastDay -> Nat]]
<1>1. PICK d \in Did : d = m.from
  OBVIOUS
<1>2. /\ spent \in [Did -> [0..LastDay -> Nat]] /\ day \in 0..LastDay
      /\ spent' = [spent EXCEPT ![d][day] = @ + Postage]
      /\ spent[d][day] + Postage <= Cap[d]
      /\ Postage \in Nat /\ LastDay \in Nat /\ Cap \in [Did -> Nat]
      /\ IsFiniteSet(HoldId)
  BY <1>1, MailroomAssumption DEF MailroomAssumption, TypeOK, Charge, UnderCap, RecordHold
<1>3. /\ spent[d] \in [0..LastDay -> Nat] /\ spent'[d] \in [0..LastDay -> Nat]
      /\ spent'[d][day] = spent[d][day] + Postage
      /\ \A x \in 0..LastDay : x # day => spent'[d][x] = spent[d][x]
      /\ \A x \in Did : x # d => spent'[x] = spent[x]
      /\ spent' \in [Did -> [0..LastDay -> Nat]]
  BY <1>2
<1>4. /\ m.hold \notin Used(d) /\ Used(d)' = Used(d) \cup {m.hold}
      /\ \A x \in Did : x # d => Used(x)' = Used(x)
  <2>1. /\ W!Fresh(m.hold) /\ ~W!Fresh(m.hold)' /\ hold'[m.hold].did = d
        /\ \A x \in HoldId : x # m.hold => hold'[x] = hold[x]
    BY <1>1, Taking
  <2>2. \A x \in HoldId : x # m.hold => (W!Fresh(x)' <=> W!Fresh(x))
    BY <2>1 DEF W!Fresh
  <2> QED
    BY <2>1, <2>2 DEF Used
<1>5. SumFunction(spent'[d]) = SumFunction(spent[d]) + Postage
  <2> DEFINE f == spent[d]
             g == spent'[d]
             D == 0..LastDay
  <2>1. /\ DOMAIN f = D /\ DOMAIN g = D /\ day \in D /\ g[day] = f[day] + Postage
        /\ g[day] \in Int /\ IsFiniteSet(D)
        /\ \A x \in D : f[x] \in Int
        /\ \A x \in D \ {day} : g[x] = f[x]
    <3>1. IsFiniteSet(0..LastDay)
      BY <1>2, FS_Interval
    <3> QED
      BY <1>2, <1>3, <3>1
  <2> HIDE DEF f, g, D
  <2>2. SumFunctionOnSet(g, D) = SumFunctionOnSet(f, D) - f[day] + g[day]
    BY <2>1, SumUpdate
  <2>3. SumFunctionOnSet(f, D) \in Int
    BY <2>1, SumInt
  <2>4. SumFunction(g) = SumFunction(f) + Postage
    BY <1>2, <2>1, <2>2, <2>3 DEF SumFunction
  <2> QED
    BY <2>4 DEF f, g
<1>6. /\ Cardinality(Used(d)') = Cardinality(Used(d)) + 1
      /\ Cardinality(Used(d)) \in Nat
  <2>1. IsFiniteSet(Used(d))
    BY <1>2, FS_Subset DEF Used
  <2> QED
    BY <1>4, <2>1, FS_AddElement, FS_CardinalityType
<1>7. SUFFICES ASSUME NEW x \in Did
               PROVE  /\ SumFunction(spent'[x]) = Postage * Cardinality(Used(x)')
                      /\ \A y \in 0..LastDay : spent'[x][y] <= Cap[x]
  BY <1>3 DEF Metered
<1>8. CASE x # d
  BY <1>3, <1>4, <1>8 DEF Metered
<1>9. CASE x = d
  <2>1. SumFunction(spent[d]) = Postage * Cardinality(Used(d))
    BY DEF Metered
  <2>2. \A y \in 0..LastDay : spent[d][y] <= Cap[d]
    BY DEF Metered
  <2>3. SumFunction(spent'[d]) = Postage * Cardinality(Used(d)')
    <3> DEFINE n == Cardinality(Used(d))
    <3>1. SumFunction(spent'[d]) = Postage * n + Postage /\ n \in Nat
      BY <1>5, <1>6, <2>1
    <3>2. Postage * (n + 1) = Postage * n + Postage
      <4> HIDE DEF n
      <4> QED
        BY <1>2, <3>1
    <3> QED
      BY <1>6, <3>1, <3>2
  <2>4. \A y \in 0..LastDay : spent'[d][y] <= Cap[d]
    BY <1>2, <1>3, <2>2
  <2> QED
    BY <1>9, <2>3, <2>4
<1> QED
  BY <1>8, <1>9

-----------------------------------------------------------------------------
(* A message that is stored.                                               *)

(* Its thread's record and its agreement have their types.                 *)
LEMMA DeliverTypes ==
  ASSUME TypeOK, Metered, NEW m, NEW opens, Sendable(m, opens), Deliver(m, opens)
  PROVE  TypeOK'
<1>1. m \in Message /\ log' \in Seq(Message)
  BY Delivered
<1>2. /\ m.from \in Did /\ m.to \in Did /\ m.hold \in HoldId /\ m.thread \in Thread
      /\ m.quote \in Quote \cup {None}
  BY <1>1 DEF Message
<1>3. W!TypeOK'
  BY <1>2, HoldTypes, MailroomAssumption DEF TypeOK, Deliver, MailroomAssumption
<1>4. thread' \in [Thread -> {NoThread} \cup ThreadRecord]
  <2>1. thread \in [Thread -> {NoThread} \cup ThreadRecord]
    BY DEF TypeOK
  <2>2. NextState(StateBefore(m, opens), m.type) \in ThreadState
    BY NextStates DEF Deliver, Resolved, StateBefore, ThreadState, Sendable
  <2>3. thread[m.thread] # NoThread => thread[m.thread] \in ThreadRecord
    BY <1>2, <2>1
  <2>4. ThreadAfter(m, opens) \in ThreadRecord
    BY <1>2, <2>2, <2>3 DEF ThreadAfter, ThreadRecord
  <2> QED
    BY <2>1, <2>4 DEF Deliver
<1>5. spent' \in [Did -> [0..LastDay -> Nat]]
  <2>1. Takes(m.hold, m.from, "active")
    BY DEF Deliver, W!PlaceHold, Takes, W!Fresh
  <2> QED
    BY <1>2, <2>1, TakingMeters DEF Deliver
<1>6. agreements' \in Seq(Agreement)
  <2>1. agreements \in Seq(Agreement)
    BY DEF TypeOK
  <2>2. CanAgree(m) => AgreementOf(m) \in Agreement
    <3>1. SUFFICES ASSUME CanAgree(m) PROVE AgreementOf(m) \in Agreement
      OBVIOUS
    <3>2. thread[m.thread] \in ThreadRecord /\ thread[m.thread].quote # None
      BY <1>2, <3>1 DEF TypeOK, CanAgree
    <3>3. AgreedTerms(m) \in Terms
      BY <3>1, AgreedOffer, LogMessages DEF FirstOffer, CanAgree
    <3> QED
      BY <1>2, <3>2, <3>3 DEF AgreementOf, Agreement, ThreadRecord
  <2> QED
    BY <2>1, <2>2 DEF Deliver
<1>7. /\ outcome' = outcome /\ webhooks' = webhooks /\ penalties' = penalties
      /\ flagging' = flagging /\ day' = day /\ since' = since /\ seen' = seen
  BY DEF Deliver, flagVars, readerVars
<1> HIDE DEF Message, ThreadRecord, Agreement
<1> QED
  BY <1>1, <1>3, <1>4, <1>5, <1>6, <1>7 DEF TypeOK

(* Delivering a message keeps the money right.                             *)
LEMMA DeliverMoney ==
  ASSUME MoneyInv, NEW m, NEW opens, Sendable(m, opens), Deliver(m, opens)
  PROVE  MoneyInv'
<1>1. TypeOK /\ Metered /\ W!TypeOK
  BY DEF MoneyInv, TypeOK
<1>2. /\ m \in Message /\ Len(log) \in Nat /\ DOMAIN log = 1..Len(log)
      /\ DOMAIN log' = 1..Len(log) + 1 /\ log'[Len(log) + 1] = m
      /\ \A i \in 1..Len(log) : log'[i] = log[i]
  BY <1>1, Delivered
<1>3. m.from \in Did /\ m.hold \in HoldId
  BY <1>2 DEF Message
<1>4. Takes(m.hold, m.from, "active")
  BY DEF Deliver, W!PlaceHold, Takes, W!Fresh
<1>5. TypeOK'
  BY <1>1, DeliverTypes
<1>6. Backed' /\ Conserved' /\ external' \in Int
  BY <1>1, <1>3, HoldBacks, MailroomAssumption DEF Deliver, MoneyInv, MailroomAssumption
<1>7. Metered'
  BY <1>1, <1>3, <1>4, TakingMeters DEF Deliver
<1>8. /\ W!Fresh(m.hold) /\ ~W!Fresh(m.hold)' /\ hold'[m.hold].did = m.from
      /\ hold'[m.hold].state = "active" /\ hold[m.hold].state = "none"
      /\ \A x \in HoldId : x # m.hold => hold'[x] = hold[x]
      /\ \A x \in HoldId : ~W!Fresh(x) => hold'[x] = hold[x]
  BY <1>1, <1>3, <1>4, Taking
<1>9. \A i \in 1..Len(log) :
        /\ log[i].hold \in HoldId /\ log[i].hold # m.hold
        /\ hold'[log[i].hold] = hold[log[i].hold]
  BY <1>1, <1>8, LogMessages DEF MoneyInv, HoldsOfMessages
<1>10. HoldsOfMessages'
  <2>1. \A i \in 1..Len(log) : hold'[log[i].hold] # W!NoHold /\ hold'[log[i].hold].did = log[i].from
    BY <1>2, <1>9 DEF MoneyInv, HoldsOfMessages, W!Fresh
  <2>2. \A i \in DOMAIN log' : hold'[log'[i].hold] # W!NoHold /\ hold'[log'[i].hold].did = log'[i].from
    BY <1>2, <1>8, <1>9, <2>1 DEF MoneyInv, HoldsOfMessages, W!Fresh
  <2>3. \A i, j \in 1..Len(log) : log[i].hold = log[j].hold => i = j
    BY <1>2 DEF MoneyInv, HoldsOfMessages
  <2>4. \A i, j \in DOMAIN log' : log'[i].hold = log'[j].hold => i = j
    BY <1>2, <1>9, <2>3
  <2> QED
    BY <2>2, <2>4 DEF HoldsOfMessages, W!Fresh
<1>11. flagging' = flagging /\ outcome' = outcome /\ penalties' = penalties
  BY DEF Deliver, flagVars
<1>12. FlagsKnown'
  BY <1>2, <1>9, <1>11 DEF MoneyInv, FlagsKnown
<1>13. OutcomeTold'
  <2>1. /\ \A id \in MsgId : outcome[id] # "none" =>
             \E i \in DOMAIN log : log[i].id = id /\ hold[log[i].hold].state = outcome[id]
        /\ \A i \in DOMAIN log : W!Active(log[i].hold) \/ outcome[log[i].id] # "none"
             \/ \E f \in flagging : f.id = log[i].id
    BY DEF MoneyInv, OutcomeTold
  <2>2. \A id \in MsgId : outcome'[id] # "none" =>
          \E i \in DOMAIN log' : log'[i].id = id /\ hold'[log'[i].hold].state = outcome'[id]
    BY <1>2, <1>9, <1>11, <2>1
  <2>3. \A i \in DOMAIN log' : hold'[log'[i].hold].state = "active" \/ outcome'[log'[i].id] # "none"
          \/ \E f \in flagging' : f.id = log'[i].id
    BY <1>2, <1>8, <1>9, <1>11, <2>1 DEF W!Active
  <2> QED
    BY <2>2, <2>3 DEF OutcomeTold, W!Active
<1>14. PenaltyPerForfeit'
  <2>1. \A d \in Did : {h \in HoldId : hold'[h].state = "forfeited" /\ hold'[h].did = d}
          = {h \in HoldId : hold[h].state = "forfeited" /\ hold[h].did = d}
    BY <1>3, <1>8
  <2> QED
    BY <1>11, <2>1 DEF MoneyInv, PenaltyPerForfeit
<1> QED
  BY <1>5, <1>6, <1>7, <1>10, <1>12, <1>13, <1>14 DEF MoneyInv

(* A message that is refused takes its postage from the day's allowance.   *)
LEMMA RefuseMoney ==
  ASSUME MoneyInv, NEW m, NEW opens, Sendable(m, opens), Refuse(m, opens)
  PROVE  MoneyInv'
<1>1. /\ TypeOK /\ Metered /\ W!TypeOK
      /\ m.from \in Did /\ m.hold \in HoldId
  BY DEF MoneyInv, TypeOK, Sendable
<1>2. Takes(m.hold, m.from, "released")
  BY DEF Refuse, Charge, FreshHolds, W!Fresh, Takes
<1>3. /\ W!Fresh(m.hold) /\ ~W!Fresh(m.hold)' /\ hold'[m.hold].did = m.from
      /\ hold'[m.hold].state = "released" /\ hold[m.hold].state = "none"
      /\ \A x \in HoldId : x # m.hold => hold'[x] = hold[x]
      /\ \A x \in HoldId : ~W!Fresh(x) => hold'[x] = hold[x]
  BY <1>1, <1>2, Taking
<1>4. Metered' /\ spent' \in [Did -> [0..LastDay -> Nat]]
  BY <1>1, <1>2, TakingMeters DEF Refuse
<1>5. /\ available' = available /\ held' = held /\ external' = external
      /\ log' = log /\ thread' = thread /\ outcome' = outcome /\ penalties' = penalties
      /\ flagging' = flagging /\ webhooks' = webhooks /\ agreements' = agreements
      /\ day' = day /\ since' = since /\ seen' = seen
  BY DEF Refuse, flagVars, readerVars
<1>6. TypeOK'
  <2>1. hold' \in [HoldId -> W!Hold \cup {W!NoHold}]
    BY <1>1, <1>2, MailroomAssumption
       DEF Takes, W!TypeOK, W!Hold, W!HoldState, W!Settled, MailroomAssumption
  <2>2. W!TypeOK'
    BY <1>1, <1>5, <2>1 DEF W!TypeOK
  <2> HIDE DEF Message, ThreadRecord, Agreement
  <2> QED
    BY <1>1, <1>4, <1>5, <2>2 DEF TypeOK
<1>7. Backed'
  <2>1. \A d \in Did : Earmarked(d)' = Earmarked(d)
    BY <1>1, <1>3 DEF Earmarked, W!Active
  <2>2. \A d \in Did : \A x \in Earmarked(d) : Backing'[x] = Backing[x]
    BY <1>1, <1>3 DEF Earmarked, W!Active, Backing, W!Fresh
  <2>3. \A d \in Did : IsFiniteSet(Earmarked(d))
    BY MailroomAssumption, FS_Subset DEF MailroomAssumption, Earmarked
  <2>4. \A d \in Did :
          SumFunctionOnSet(Backing', Earmarked(d)) = SumFunctionOnSet(Backing, Earmarked(d))
    BY <2>2, <2>3, SumSame
  <2> QED
    BY <1>5, <2>1, <2>4 DEF MoneyInv, Backed
<1>8. Conserved' /\ external' \in Int
  BY <1>5 DEF MoneyInv, Conserved
<1>9. \A i \in DOMAIN log :
        log[i].hold \in HoldId /\ hold'[log[i].hold] = hold[log[i].hold]
  BY <1>1, <1>3, LogMessages DEF MoneyInv, HoldsOfMessages
<1>10. HoldsOfMessages'
  BY <1>5, <1>9 DEF MoneyInv, HoldsOfMessages, W!Fresh
<1>11. FlagsKnown'
  BY <1>5, <1>9 DEF MoneyInv, FlagsKnown
<1>12. OutcomeTold'
  BY <1>5, <1>9 DEF MoneyInv, OutcomeTold, W!Active
<1>13. PenaltyPerForfeit'
  <2>1. \A d \in Did : {h \in HoldId : hold'[h].state = "forfeited" /\ hold'[h].did = d}
          = {h \in HoldId : hold[h].state = "forfeited" /\ hold[h].did = d}
    BY <1>1, <1>3
  <2> QED
    BY <1>5, <2>1 DEF MoneyInv, PenaltyPerForfeit
<1> QED
  BY <1>4, <1>6, <1>7, <1>8, <1>10, <1>11, <1>12, <1>13 DEF MoneyInv

-----------------------------------------------------------------------------
(* Flags.                                                                  *)

(* A flag settles the hold of one message and moves its postage.           *)
LEMMA FlagMoves ==
  ASSUME MoneyInv, NEW i \in DOMAIN log, NEW to \in Did, NEW state \in W!Settled, NEW burned,
         burned \in 0..hold[log[i].hold].amount, Settles(log[i].hold, to, state, burned),
         log' = log, spent' = spent
  PROVE  /\ W!TypeOK' /\ Backed' /\ Conserved' /\ external' \in Int
         /\ HoldsOfMessages' /\ Metered'
         /\ hold[log[i].hold].state = "active" /\ hold'[log[i].hold].state = state
         /\ hold[log[i].hold].did = log[i].from
         /\ \A x \in HoldId : x # log[i].hold => hold'[x] = hold[x]
         /\ \A x \in HoldId : hold'[x].did = hold[x].did
<1>1. PICK h \in HoldId : h = log[i].hold
  BY LogMessages DEF MoneyInv
<1>2. W!TypeOK /\ TypeOK
  BY DEF MoneyInv, TypeOK
<1>3. W!TypeOK'
  BY <1>1, <1>2, SettlingTypes
<1>4. burned \in Int
  BY <1>1, <1>2 DEF Settles, W!TypeOK, W!Active, W!NoHold, W!Hold
<1>5. Backed' /\ Conserved' /\ external' \in Int
  BY <1>1, <1>2, <1>4, SettlingBacks DEF MoneyInv
<1>6. /\ hold[h].state = "active" /\ hold'[h].state = state
      /\ \A x \in HoldId : x # h => hold'[x] = hold[x]
      /\ \A x \in HoldId : hold'[x].did = hold[x].did
      /\ \A x \in HoldId : W!Fresh(x)' <=> W!Fresh(x)
  <2>1. /\ hold \in [HoldId -> W!Hold \cup {W!NoHold}] /\ hold[h].state = "active"
        /\ hold' = [hold EXCEPT ![h].state = state]
    BY <1>1, <1>2 DEF W!TypeOK, Settles, W!Active
  <2>2. hold[h] \in W!Hold
    BY <2>1 DEF W!NoHold
  <2>3. /\ hold'[h].state = state /\ hold'[h].did = hold[h].did
        /\ \A x \in HoldId : x # h => hold'[x] = hold[x]
    BY <2>1, <2>2 DEF W!Hold
  <2>4. state # "none"
    BY DEF W!Settled
  <2>5. W!Fresh(h)' <=> W!Fresh(h)
    BY <2>1, <2>3, <2>4 DEF W!Fresh, W!NoHold
  <2>6. \A x \in HoldId : x # h => (W!Fresh(x)' <=> W!Fresh(x))
    BY <2>3 DEF W!Fresh
  <2> QED
    BY <2>1, <2>3, <2>5, <2>6
<1>7. Metered'
  <2>1. \A d \in Did : Used(d)' = Used(d)
    BY <1>6 DEF Used
  <2> QED
    BY <2>1 DEF MoneyInv, Metered
<1>8. HoldsOfMessages'
  <2>1. \A j \in DOMAIN log : log[j].hold \in HoldId
    BY <1>2, LogMessages
  <2>2. /\ \A j \in DOMAIN log : ~W!Fresh(log[j].hold) /\ hold[log[j].hold].did = log[j].from
        /\ \A j, k \in DOMAIN log : log[j].hold = log[k].hold => j = k
    BY DEF MoneyInv, HoldsOfMessages
  <2>3. \A x \in HoldId : hold[x] # W!NoHold => hold'[x] # W!NoHold
    BY <1>6 DEF W!Fresh
  <2> QED
    BY <1>6, <2>1, <2>2, <2>3 DEF HoldsOfMessages, W!Fresh
<1> QED
  BY <1>1, <1>3, <1>5, <1>6, <1>7, <1>8 DEF MoneyInv, HoldsOfMessages

(* The message a flag is about.                                            *)
LEMMA FlaggedMessage ==
  ASSUME TypeOK, NEW id, Flaggable(id)
  PROVE  \E i \in DOMAIN log : log[i].id = id /\ MessageAt(id) = log[i]
  BY StoredMessage DEF Flaggable, TypeOK

(* So does a flag that finds the message legitimate,                       *)
LEMMA FlagLegitMoney ==
  ASSUME MoneyInv, NEW id \in MsgId, FlagLegit(id)
  PROVE  MoneyInv'
<1>1. TypeOK /\ W!TypeOK
  BY DEF MoneyInv, TypeOK
<1>2. PICK i \in DOMAIN log : log[i].id = id /\ MessageAt(id) = log[i]
  BY <1>1, FlaggedMessage DEF FlagLegit
<1>3. PICK h \in HoldId : h = log[i].hold
  BY <1>1, LogMessages
<1>4. /\ log' = log /\ spent' = spent /\ thread' = thread /\ webhooks' = webhooks
      /\ agreements' = agreements /\ penalties' = penalties /\ flagging' = flagging
      /\ day' = day /\ since' = since /\ seen' = seen
      /\ outcome' = [outcome EXCEPT ![id] = "released"] /\ outcome[id] = "none"
      /\ W!Release(h)
  BY <1>2, <1>3 DEF FlagLegit, PutOutcome, readerVars, Flaggable
<1>5. hold[h].did \in Did /\ hold[h].amount \in Nat
  BY <1>1, <1>4 DEF W!TypeOK, W!Release, W!Active, W!NoHold, W!Hold
<1>6. Settles(h, hold[h].did, "released", 0)
  <2>1. hold[h].amount - 0 = hold[h].amount /\ external + 0 = external
    BY <1>5 DEF MoneyInv
  <2>2. /\ W!Active(h)
        /\ available' = [available EXCEPT ![hold[h].did] = @ + hold[h].amount]
        /\ held' = [held EXCEPT ![hold[h].did] = @ - hold[h].amount]
        /\ hold' = [hold EXCEPT ![h].state = "released"]
        /\ external' = external
    BY <1>4 DEF W!Release
  <2>3. [available EXCEPT ![hold[h].did] = @ + hold[h].amount]
          = [available EXCEPT ![hold[h].did] = @ + (hold[h].amount - 0)]
    BY <2>1
  <2> QED
    BY <2>1, <2>2, <2>3 DEF Settles
<1>7. "released" \in W!Settled /\ 0 \in 0..hold[h].amount
  BY <1>5 DEF W!Settled
<1>8. /\ W!TypeOK' /\ Backed' /\ Conserved' /\ external' \in Int
      /\ HoldsOfMessages' /\ Metered'
  BY <1>3, <1>4, <1>5, <1>6, <1>7, FlagMoves
<1>9. /\ hold[h].state = "active" /\ hold'[h].state = "released"
      /\ \A x \in HoldId : x # h => hold'[x] = hold[x]
      /\ \A x \in HoldId : hold'[x].did = hold[x].did
  BY <1>3, <1>4, <1>5, <1>6, <1>7, FlagMoves
<1>10. TypeOK'
  <2>1. outcome' \in [MsgId -> Outcome]
    BY <1>1, <1>4 DEF TypeOK, Outcome
  <2> HIDE DEF Message, ThreadRecord, Agreement
  <2> QED
    BY <1>1, <1>4, <1>8, <2>1 DEF TypeOK
<1>11. FlagsKnown'
  <2>1. \A f \in flagging : \E j \in DOMAIN log :
          log[j].id = f.id /\ log[j].hold = f.hold /\ hold[f.hold].state = "forfeited"
    BY DEF MoneyInv, FlagsKnown
  <2>2. \A j \in DOMAIN log : log[j].hold \in HoldId
    BY <1>1, LogMessages
  <2> QED
    BY <1>4, <1>9, <2>1, <2>2 DEF FlagsKnown
<1>12. OutcomeTold'
  <2>1. /\ \A x \in MsgId : outcome[x] # "none" =>
             \E j \in DOMAIN log : log[j].id = x /\ hold[log[j].hold].state = outcome[x]
        /\ \A j \in DOMAIN log : hold[log[j].hold].state = "active" \/ outcome[log[j].id] # "none"
             \/ \E f \in flagging : f.id = log[j].id
    BY DEF MoneyInv, OutcomeTold, W!Active
  <2>2. /\ \A j \in DOMAIN log : log[j].hold \in HoldId /\ log[j].id \in MsgId
        /\ \A j, k \in DOMAIN log : log[j].hold = log[k].hold => j = k
    BY <1>1, LogMessages DEF MoneyInv, HoldsOfMessages
  <2>3. /\ outcome'[id] = "released" /\ \A x \in MsgId : x # id => outcome'[x] = outcome[x]
        /\ \A x \in MsgId : outcome[x] # "active"
    BY <1>1, <1>4 DEF TypeOK, Outcome
  <2>4. \A x \in MsgId : outcome'[x] # "none" =>
          \E j \in DOMAIN log' : log'[j].id = x /\ hold'[log'[j].hold].state = outcome'[x]
    <3>1. SUFFICES ASSUME NEW x \in MsgId, outcome'[x] # "none"
                   PROVE  \E j \in DOMAIN log : log[j].id = x /\ hold'[log[j].hold].state = outcome'[x]
      BY <1>4
    <3>2. CASE x = id
      BY <1>2, <1>3, <1>9, <2>3, <3>2
    <3>3. CASE x # id
      <4>1. PICK j \in DOMAIN log : log[j].id = x /\ hold[log[j].hold].state = outcome[x]
        BY <2>1, <2>3, <3>1, <3>3
      <4>2. log[j].hold # h
        BY <1>9, <2>3, <4>1
      <4> QED
        BY <1>9, <2>2, <2>3, <3>3, <4>1, <4>2
    <3> QED
      BY <3>2, <3>3
  <2>5. \A j \in DOMAIN log' : hold'[log'[j].hold].state = "active" \/ outcome'[log'[j].id] # "none"
          \/ \E f \in flagging' : f.id = log'[j].id
    <3>1. SUFFICES ASSUME NEW j \in DOMAIN log
                   PROVE  hold'[log[j].hold].state = "active" \/ outcome'[log[j].id] # "none"
                            \/ \E f \in flagging : f.id = log[j].id
      BY <1>4
    <3>2. CASE log[j].id = id
      BY <2>3, <3>2
    <3>3. CASE log[j].id # id
      BY <1>2, <1>3, <1>9, <2>1, <2>2, <2>3, <3>3
    <3> QED
      BY <3>2, <3>3
  <2> QED
    BY <2>4, <2>5 DEF OutcomeTold, W!Active
<1>13. PenaltyPerForfeit'
  <2>1. \A d \in Did : {x \in HoldId : hold'[x].state = "forfeited" /\ hold'[x].did = d}
          = {x \in HoldId : hold[x].state = "forfeited" /\ hold[x].did = d}
    BY <1>9
  <2> QED
    BY <1>4, <2>1 DEF MoneyInv, PenaltyPerForfeit
<1> QED
  BY <1>8, <1>10, <1>11, <1>12, <1>13 DEF MoneyInv

(* one that finds it spam,                                                 *)
LEMMA FlagSpamMoney ==
  ASSUME MoneyInv, NEW id \in MsgId, FlagSpam(id)
  PROVE  MoneyInv'
<1>1. TypeOK /\ W!TypeOK
  BY DEF MoneyInv, TypeOK
<1>2. PICK i \in DOMAIN log : log[i].id = id /\ MessageAt(id) = log[i]
  BY <1>1, FlaggedMessage DEF FlagSpam
<1>3. PICK h \in HoldId, d \in Did, to \in Did :
        h = log[i].hold /\ d = log[i].from /\ to = log[i].to
  BY <1>1, LogMessages
<1>4. /\ log' = log /\ spent' = spent /\ thread' = thread /\ webhooks' = webhooks
      /\ agreements' = agreements /\ outcome' = outcome
      /\ day' = day /\ since' = since /\ seen' = seen
      /\ penalties' = [penalties EXCEPT ![d] = @ + 1]
      /\ flagging' = flagging \cup {[id |-> id, hold |-> h]}
      /\ W!Forfeit(h, to, Burn)
  BY <1>2, <1>3 DEF FlagSpam, readerVars
<1>5. Burn \in 0..hold[h].amount /\ Settles(h, to, "forfeited", Burn)
  BY <1>4 DEF W!Forfeit, Settles
<1>6. "forfeited" \in W!Settled
  BY DEF W!Settled
<1>7. /\ W!TypeOK' /\ Backed' /\ Conserved' /\ external' \in Int
      /\ HoldsOfMessages' /\ Metered'
  BY <1>3, <1>4, <1>5, <1>6, FlagMoves
<1>8. /\ hold[h].state = "active" /\ hold'[h].state = "forfeited" /\ hold[h].did = d
      /\ \A x \in HoldId : x # h => hold'[x] = hold[x]
      /\ \A x \in HoldId : hold'[x].did = hold[x].did
  BY <1>3, <1>4, <1>5, <1>6, FlagMoves
<1>9. TypeOK'
  <2>1. penalties' \in [Did -> Nat]
    BY <1>1, <1>4 DEF TypeOK
  <2>2. flagging' \subseteq [id : MsgId, hold : HoldId]
    BY <1>1, <1>4 DEF TypeOK
  <2> HIDE DEF Message, ThreadRecord, Agreement
  <2> QED
    BY <1>1, <1>4, <1>7, <2>1, <2>2 DEF TypeOK
<1>10. FlagsKnown'
  <2>1. \A f \in flagging : \E j \in DOMAIN log :
          log[j].id = f.id /\ log[j].hold = f.hold /\ hold[f.hold].state = "forfeited"
    BY DEF MoneyInv, FlagsKnown
  <2>2. \A j \in DOMAIN log : log[j].hold \in HoldId
    BY <1>1, LogMessages
  <2>3. \A f \in flagging : \E j \in DOMAIN log :
          log[j].id = f.id /\ log[j].hold = f.hold /\ hold'[f.hold].state = "forfeited"
    BY <1>8, <2>1, <2>2
  <2>4. \A f \in flagging' : \E j \in DOMAIN log :
          log[j].id = f.id /\ log[j].hold = f.hold /\ hold'[f.hold].state = "forfeited"
    BY <1>2, <1>3, <1>4, <1>8, <2>3
  <2> QED
    BY <1>4, <2>4 DEF FlagsKnown
<1>11. OutcomeTold'
  <2>1. /\ \A x \in MsgId : outcome[x] # "none" =>
             \E j \in DOMAIN log : log[j].id = x /\ hold[log[j].hold].state = outcome[x]
        /\ \A j \in DOMAIN log : hold[log[j].hold].state = "active" \/ outcome[log[j].id] # "none"
             \/ \E f \in flagging : f.id = log[j].id
    BY DEF MoneyInv, OutcomeTold, W!Active
  <2>2. /\ \A j \in DOMAIN log : log[j].hold \in HoldId /\ log[j].id \in MsgId
        /\ \A j, k \in DOMAIN log : log[j].hold = log[k].hold => j = k
        /\ \A x \in MsgId : outcome[x] # "active"
    BY <1>1, LogMessages DEF MoneyInv, HoldsOfMessages, TypeOK, Outcome
  <2>3. \A x \in MsgId : outcome'[x] # "none" =>
          \E j \in DOMAIN log' : log'[j].id = x /\ hold'[log'[j].hold].state = outcome'[x]
    <3>1. SUFFICES ASSUME NEW x \in MsgId, outcome[x] # "none"
                   PROVE  \E j \in DOMAIN log : log[j].id = x /\ hold'[log[j].hold].state = outcome[x]
      BY <1>4
    <3>2. PICK j \in DOMAIN log : log[j].id = x /\ hold[log[j].hold].state = outcome[x]
      BY <2>1, <3>1
    <3>3. log[j].hold # h
      BY <1>8, <2>2, <3>2
    <3> QED
      BY <1>8, <2>2, <3>2, <3>3
  <2>4. \A j \in DOMAIN log' : hold'[log'[j].hold].state = "active" \/ outcome'[log'[j].id] # "none"
          \/ \E f \in flagging' : f.id = log'[j].id
    <3>1. SUFFICES ASSUME NEW j \in DOMAIN log
                   PROVE  hold'[log[j].hold].state = "active" \/ outcome[log[j].id] # "none"
                            \/ \E f \in flagging' : f.id = log[j].id
      BY <1>4
    <3>2. CASE log[j].id = id
      <4>1. [id |-> id, hold |-> h] \in flagging'
        BY <1>4
      <4> QED
        BY <3>2, <4>1
    <3>3. CASE log[j].id # id
      <4>1. log[j].hold # h
        BY <1>2, <1>3, <2>2, <3>3
      <4> QED
        BY <1>4, <1>8, <2>1, <2>2, <4>1
    <3> QED
      BY <3>2, <3>3
  <2> QED
    BY <2>3, <2>4 DEF OutcomeTold, W!Active
<1>12. PenaltyPerForfeit'
  <2> DEFINE F(x) == {y \in HoldId : hold[y].state = "forfeited" /\ hold[y].did = x}
             G(x) == {y \in HoldId : hold'[y].state = "forfeited" /\ hold'[y].did = x}
  <2>1. \A x \in Did : x # d => G(x) = F(x)
    BY <1>8
  <2>2. G(d) = F(d) \cup {h} /\ h \notin F(d)
    BY <1>8
  <2>3. IsFiniteSet(F(d))
    BY MailroomAssumption, FS_Subset DEF MailroomAssumption
  <2>4. \A x \in Did : penalties[x] = Cardinality(F(x))
    BY DEF MoneyInv, PenaltyPerForfeit
  <2> HIDE DEF F, G
  <2>5. Cardinality(G(d)) = Cardinality(F(d)) + 1
    BY <2>2, <2>3, FS_AddElement
  <2>6. penalties \in [Did -> Nat]
    BY <1>1 DEF TypeOK
  <2>7. penalties'[d] = Cardinality(G(d)) /\ \A x \in Did : x # d => penalties'[x] = Cardinality(G(x))
    BY <1>4, <2>1, <2>4, <2>5, <2>6
  <2>8. \A x \in Did : penalties'[x] = Cardinality(G(x))
    BY <2>7
  <2> QED
    BY <2>8 DEF PenaltyPerForfeit, G
<1> QED
  BY <1>7, <1>9, <1>10, <1>11, <1>12 DEF MoneyInv

(* and the record of the forfeited bond.                                   *)
LEMMA RecordForfeitMoney ==
  ASSUME MoneyInv, NEW f, RecordForfeit(f)
  PROVE  MoneyInv'
<1>1. /\ TypeOK /\ W!TypeOK
      /\ available' = available /\ held' = held /\ hold' = hold /\ external' = external
      /\ log' = log /\ spent' = spent /\ thread' = thread /\ webhooks' = webhooks
      /\ agreements' = agreements /\ penalties' = penalties
      /\ day' = day /\ since' = since /\ seen' = seen
      /\ f \in flagging /\ flagging' = flagging \ {f}
      /\ outcome' = [outcome EXCEPT ![f.id] = "forfeited"]
  BY DEF MoneyInv, TypeOK, RecordForfeit, PutOutcome, walletVars, readerVars
<1>2. f.id \in MsgId /\ outcome \in [MsgId -> Outcome]
  BY <1>1 DEF TypeOK
<1>3. PICK i \in DOMAIN log :
        log[i].id = f.id /\ log[i].hold = f.hold /\ hold[f.hold].state = "forfeited"
  BY <1>1 DEF MoneyInv, FlagsKnown
<1>4. TypeOK'
  <2>1. outcome' \in [MsgId -> Outcome] /\ W!TypeOK'
    BY <1>1, <1>2 DEF Outcome, W!TypeOK
  <2> HIDE DEF Message, ThreadRecord, Agreement
  <2> QED
    BY <1>1, <2>1 DEF TypeOK
<1>5. Backed' /\ Conserved' /\ external' \in Int
  BY <1>1 DEF MoneyInv, Backed, Conserved, Backing, Earmarked, W!Active, W!Fresh
<1>6. HoldsOfMessages' /\ FlagsKnown'
  BY <1>1 DEF MoneyInv, HoldsOfMessages, FlagsKnown, W!Fresh
<1>7. OutcomeTold'
  <2>1. outcome'[f.id] = "forfeited" /\ \A x \in MsgId : x # f.id => outcome'[x] = outcome[x]
    BY <1>1, <1>2
  <2>2. /\ \A x \in MsgId : outcome[x] # "none" =>
             \E j \in DOMAIN log : log[j].id = x /\ hold[log[j].hold].state = outcome[x]
        /\ \A j \in DOMAIN log : hold[log[j].hold].state = "active" \/ outcome[log[j].id] # "none"
             \/ \E x \in flagging : x.id = log[j].id
        /\ \A j \in DOMAIN log : log[j].id \in MsgId
    BY <1>1, LogMessages DEF MoneyInv, OutcomeTold, W!Active
  <2>3. \A x \in MsgId : outcome'[x] # "none" =>
          \E j \in DOMAIN log' : log'[j].id = x /\ hold'[log'[j].hold].state = outcome'[x]
    BY <1>1, <1>3, <2>1, <2>2
  <2>4. \A j \in DOMAIN log' : hold'[log'[j].hold].state = "active" \/ outcome'[log'[j].id] # "none"
          \/ \E x \in flagging' : x.id = log'[j].id
    BY <1>1, <2>1, <2>2
  <2> QED
    BY <2>3, <2>4 DEF OutcomeTold, W!Active
<1>8. PenaltyPerForfeit' /\ Metered'
  BY <1>1 DEF MoneyInv, PenaltyPerForfeit, Metered, Used, W!Fresh
<1> QED
  BY <1>4, <1>5, <1>6, <1>7, <1>8 DEF MoneyInv

-----------------------------------------------------------------------------
(* Readers.                                                                *)

(* A page is what a reader has not been given yet, up to its last message. *)
LEMMA PageIsNext ==
  ASSUME TypeOK, NEW d \in Reader, Page(d) # {}
  PROVE  /\ Max(Page(d)) \in DOMAIN log /\ Max(Page(d)) > since[d]
         /\ Page(d) = {i \in DOMAIN log : log[i].to = d /\ since[d] < i /\ i <= Max(Page(d))}
<1> DEFINE unread == {i \in DOMAIN log : log[i].to = d /\ i > since[d]}
           First(i) == {j \in unread : j <= i}
           last == Max(Page(d))
<1>1. DOMAIN log = 1..Len(log) /\ Len(log) \in Nat /\ since[d] \in Nat
  BY LogMessages DEF TypeOK
<1>2. Page(d) = {i \in unread : Cardinality(First(i)) <= PageSize}
  BY DEF Page, InboxPage
<1>3. last \in Page(d) /\ \A i \in Page(d) : i <= last
  <2>1. Page(d) \in SUBSET Nat /\ \A i \in Page(d) : i <= Len(log)
    BY <1>1, <1>2
  <2> QED
    BY <1>1, <2>1, MaxNat
<1>5. ASSUME NEW i \in unread, i <= last PROVE i \in Page(d)
  <2>1. PageSize \in Nat
    BY MailroomAssumption DEF MailroomAssumption
  <2> QED
    BY <1>1, <1>3, <1>5, <2>1, InboxInOrder DEF Page
<1>6. last \in unread /\ Page(d) \subseteq unread
  BY <1>2, <1>3
<1> QED
  BY <1>1, <1>3, <1>5, <1>6

(* A poll keeps what has been read in step with the log.                   *)
LEMMA PollReads ==
  ASSUME MoneyInv, ReaderInv, NEW d \in Reader, Poll(d)
  PROVE  MoneyInv' /\ ReaderInv'
<1>1. /\ TypeOK /\ W!TypeOK
      /\ available' = available /\ held' = held /\ hold' = hold /\ external' = external
      /\ log' = log /\ spent' = spent /\ thread' = thread /\ webhooks' = webhooks
      /\ agreements' = agreements /\ penalties' = penalties /\ outcome' = outcome
      /\ flagging' = flagging /\ day' = day
      /\ seen' = [seen EXCEPT ![d] = @ \cup Page(d)]
      /\ since' = [since EXCEPT ![d] = Max(Page(d))]
  BY DEF MoneyInv, TypeOK, Poll, walletVars, flagVars
<1>2. /\ Max(Page(d)) \in DOMAIN log /\ Max(Page(d)) > since[d]
      /\ Page(d) = {i \in DOMAIN log : log[i].to = d /\ since[d] < i /\ i <= Max(Page(d))}
  BY <1>1, PageIsNext DEF Poll
<1>3. /\ DOMAIN log = 1..Len(log) /\ Len(log) \in Nat
      /\ since \in [Reader -> Nat] /\ seen \in [Reader -> SUBSET Nat]
  BY <1>1, LogMessages DEF TypeOK
<1> DEFINE last == Max(Page(d))
<1>4. last \in Nat /\ last <= Len(log) /\ Page(d) \subseteq Nat
  BY <1>2, <1>3
<1>5. TypeOK'
  <2>1. since' \in [Reader -> Nat] /\ seen' \in [Reader -> SUBSET Nat]
    BY <1>1, <1>3, <1>4
  <2>2. W!TypeOK'
    BY <1>1 DEF W!TypeOK
  <2> HIDE DEF Message, ThreadRecord, Agreement
  <2> QED
    BY <1>1, <2>1, <2>2 DEF TypeOK
<1>6. Backed' /\ Conserved' /\ external' \in Int
  BY <1>1 DEF MoneyInv, Backed, Conserved, Backing, Earmarked, W!Active, W!Fresh
<1>7. HoldsOfMessages' /\ FlagsKnown' /\ OutcomeTold'
  BY <1>1 DEF MoneyInv, HoldsOfMessages, FlagsKnown, OutcomeTold, W!Fresh, W!Active
<1>8. PenaltyPerForfeit' /\ Metered'
  BY <1>1 DEF MoneyInv, PenaltyPerForfeit, Metered, Used, W!Fresh
<1>9. MoneyInv'
  BY <1>5, <1>6, <1>7, <1>8 DEF MoneyInv
<1>10. ReaderInv'
  <2>1. /\ since'[d] = last /\ seen'[d] = seen[d] \cup Page(d)
        /\ \A x \in Reader : x # d => since'[x] = since[x] /\ seen'[x] = seen[x]
    BY <1>1, <1>3
  <2>2. \A x \in Reader : since'[x] <= Len(log)
    BY <1>4, <2>1 DEF ReaderInv
  <2>3. seen[d] = {i \in DOMAIN log : log[i].to = d /\ i <= since[d]}
    BY DEF ReaderInv, InboxComplete
  <2>4. seen'[d] = {i \in DOMAIN log : log[i].to = d /\ i <= since'[d]}
    <3> DEFINE P == Page(d)
    <3>1. P = {i \in DOMAIN log : log[i].to = d /\ since[d] < i /\ i <= last} /\ last > since[d]
      BY <1>2
    <3>2. seen'[d] = seen[d] \cup P /\ since'[d] = last
      BY <2>1
    <3> HIDE DEF P, last
    <3>3. DOMAIN log \subseteq Nat /\ since[d] \in Nat
      BY <1>3
    <3> QED
      BY <1>4, <2>3, <3>1, <3>2, <3>3
  <2>5. \A x \in Reader : seen'[x] = {i \in DOMAIN log : log[i].to = x /\ i <= since'[x]}
    BY <2>1, <2>4 DEF ReaderInv, InboxComplete
  <2> QED
    BY <1>1, <2>2, <2>5 DEF ReaderInv, InboxComplete
<1> QED
  BY <1>9, <1>10

(* A message stored goes after every cursor.                               *)
LEMMA DeliverReads ==
  ASSUME TypeOK, ReaderInv, NEW m, NEW opens, Sendable(m, opens), Deliver(m, opens)
  PROVE  ReaderInv'
<1>1. /\ Len(log') = Len(log) + 1 /\ Len(log) \in Nat
      /\ DOMAIN log = 1..Len(log) /\ DOMAIN log' = 1..Len(log) + 1
      /\ \A i \in 1..Len(log) : log'[i] = log[i]
  BY Delivered
<1>2. /\ since' = since /\ seen' = seen /\ since \in [Reader -> Nat]
      /\ \A x \in Reader : since[x] <= Len(log)
      /\ \A x \in Reader : seen[x] = {i \in DOMAIN log : log[i].to = x /\ i <= since[x]}
  BY DEF Deliver, readerVars, TypeOK, ReaderInv, InboxComplete
<1>3. \A x \in Reader : since[x] <= Len(log')
  BY <1>1, <1>2
<1>4. \A x \in Reader : seen[x] = {i \in DOMAIN log' : log'[i].to = x /\ i <= since[x]}
  BY <1>1, <1>2
<1> QED
  BY <1>2, <1>3, <1>4 DEF ReaderInv, InboxComplete

-----------------------------------------------------------------------------
(* The money and the readers, in every behaviour.                          *)

(* The steps that only touch what the invariants do not speak of.          *)
LEMMA OtherSteps ==
  ASSUME MoneyInv, ReaderInv,
         (\E d \in WebhookOwner : RegisterWebhook(d)) \/ NextDay \/ UNCHANGED vars
  PROVE  MoneyInv' /\ ReaderInv'
<1>1. /\ TypeOK /\ W!TypeOK
      /\ available' = available /\ held' = held /\ hold' = hold /\ external' = external
      /\ log' = log /\ spent' = spent /\ thread' = thread
      /\ agreements' = agreements /\ penalties' = penalties /\ outcome' = outcome
      /\ flagging' = flagging /\ since' = since /\ seen' = seen
  BY DEF MoneyInv, TypeOK, RegisterWebhook, NextDay, vars, walletVars, flagVars, readerVars
<1>2. webhooks' \subseteq WebhookOwner /\ day' \in 0..LastDay
  BY MailroomAssumption
     DEF MoneyInv, TypeOK, RegisterWebhook, NextDay, vars, MailroomAssumption
<1>3. TypeOK'
  <2>1. W!TypeOK'
    BY <1>1 DEF W!TypeOK
  <2> HIDE DEF Message, ThreadRecord, Agreement
  <2> QED
    BY <1>1, <1>2, <2>1 DEF TypeOK
<1>4. Backed' /\ Conserved' /\ external' \in Int
  BY <1>1 DEF MoneyInv, Backed, Conserved, Backing, Earmarked, W!Active, W!Fresh
<1>5. HoldsOfMessages' /\ FlagsKnown' /\ OutcomeTold'
  BY <1>1 DEF MoneyInv, HoldsOfMessages, FlagsKnown, OutcomeTold, W!Fresh, W!Active
<1>6. PenaltyPerForfeit' /\ Metered'
  BY <1>1 DEF MoneyInv, PenaltyPerForfeit, Metered, Used, W!Fresh
<1>7. ReaderInv'
  BY <1>1 DEF ReaderInv, InboxComplete
<1> QED
  BY <1>3, <1>4, <1>5, <1>6, <1>7 DEF MoneyInv

(* At first nothing is held, sent or read.                                 *)
LEMMA InitMoney ==
  ASSUME Init
  PROVE  MoneyInv /\ ReaderInv
<1>1. /\ available = [d \in Did |-> Funds] /\ held = [d \in Did |-> 0]
      /\ hold = [h \in HoldId |-> W!NoHold] /\ external = -SumFunction(available)
      /\ log = <<>> /\ thread = [t \in Thread |-> NoThread]
      /\ spent = [d \in Did |-> [x \in 0..LastDay |-> 0]]
      /\ outcome = [id \in MsgId |-> "none"] /\ webhooks = {} /\ agreements = <<>>
      /\ penalties = [d \in Did |-> 0] /\ flagging = {} /\ day = 0
      /\ since = [d \in Reader |-> 0] /\ seen = [d \in Reader |-> {}]
  BY DEF Init
<1>2. /\ Funds \in Nat /\ LastDay \in Nat /\ Postage \in Nat /\ Cap \in [Did -> Nat]
      /\ IsFiniteSet(Did) /\ IsFiniteSet(HoldId)
  BY MailroomAssumption DEF MailroomAssumption
<1>3. DOMAIN log = {} /\ Len(log) = 0
  BY <1>1
<1>4. TypeOK
  <2>1. W!TypeOK
    BY <1>1, <1>2 DEF W!TypeOK
  <2>2. thread \in [Thread -> {NoThread} \cup ThreadRecord]
    BY <1>1
  <2>3. spent \in [Did -> [0..LastDay -> Nat]] /\ outcome \in [MsgId -> Outcome]
    BY <1>1 DEF Outcome
  <2>4. log \in Seq(Message) /\ agreements \in Seq(Agreement)
    BY <1>1
  <2> HIDE DEF Message, ThreadRecord, Agreement
  <2> QED
    BY <1>1, <1>2, <2>1, <2>2, <2>3, <2>4 DEF TypeOK
<1>5. SumFunction(available) \in Int
  <2> DEFINE f == available
  <2>1. DOMAIN f = Did /\ \A x \in Did : f[x] \in Int
    BY <1>1, <1>2
  <2> HIDE DEF f
  <2>2. SumFunctionOnSet(f, Did) \in Int
    BY <1>2, <2>1, SumInt
  <2> QED
    BY <2>1, <2>2 DEF SumFunction, f
<1>6. Conserved
  <2>1. SumFunction(held) = 0
    <3> DEFINE f == held
    <3>1. DOMAIN f = Did /\ \A x \in Did : f[x] = 0
      BY <1>1
    <3> HIDE DEF f
    <3>2. SumFunctionOnSet(f, Did) = 0
      BY <1>2, <3>1, SumZero
    <3> QED
      BY <3>1, <3>2 DEF SumFunction, f
  <2>2. external = -SumFunction(available)
    BY <1>1
  <2> QED
    BY <1>5, <2>1, <2>2 DEF Conserved
<1>7. external \in Int
  <2>1. external = -SumFunction(available)
    BY <1>1
  <2> QED
    BY <1>5, <2>1
<1>8. Backed
  <2>1. \A d \in Did : Earmarked(d) = {}
    BY <1>1 DEF Earmarked, W!Active, W!NoHold
  <2>2. SumFunctionOnSet(Backing, {}) = 0
    BY SumEmpty
  <2>3. \A d \in Did : held[d] = 0
    BY <1>1
  <2> QED
    BY <2>1, <2>2, <2>3 DEF Backed
<1>9. HoldsOfMessages /\ FlagsKnown /\ OutcomeTold
  BY <1>1, <1>3 DEF HoldsOfMessages, FlagsKnown, OutcomeTold
<1>10. PenaltyPerForfeit
  <2>1. \A d \in Did : {h \in HoldId : hold[h].state = "forfeited" /\ hold[h].did = d} = {}
    BY <1>1 DEF W!NoHold
  <2> QED
    BY <1>1, <2>1, FS_EmptySet DEF PenaltyPerForfeit
<1>11. Metered
  <2>1. \A d \in Did : Used(d) = {}
    BY <1>1 DEF Used, W!Fresh
  <2>2. \A d \in Did : SumFunction(spent[d]) = 0
    <3> SUFFICES ASSUME NEW d \in Did PROVE SumFunction(spent[d]) = 0
      OBVIOUS
    <3> DEFINE f == spent[d]
    <3>1. DOMAIN f = 0..LastDay /\ \A x \in 0..LastDay : f[x] = 0
      BY <1>1
    <3> HIDE DEF f
    <3>2. SumFunctionOnSet(f, 0..LastDay) = 0
      BY <1>2, <3>1, SumZero, FS_Interval
    <3> QED
      BY <3>1, <3>2 DEF SumFunction, f
  <2>3. Cardinality({}) = 0 /\ Postage * 0 = 0
    BY <1>2, FS_EmptySet
  <2>4. \A d \in Did : \A x \in 0..LastDay : spent[d][x] <= Cap[d]
    BY <1>1, <1>2
  <2> QED
    BY <2>1, <2>2, <2>3, <2>4 DEF Metered
<1>12. ReaderInv
  BY <1>1, <1>3 DEF ReaderInv, InboxComplete
<1> QED
  BY <1>4, <1>6, <1>7, <1>8, <1>9, <1>10, <1>11, <1>12 DEF MoneyInv

(* Every step, whatever the threads are.                                   *)
LEMMA StepMoney ==
  ASSUME MoneyInv, ReaderInv, [Next]_vars
  PROVE  MoneyInv' /\ ReaderInv'
<1>1. CASE Sending
  <2>1. PICK m, opens : Sendable(m, opens) /\ (Deliver(m, opens) \/ Refuse(m, opens))
    BY <1>1, SendingSends DEF MoneyInv
  <2>2. CASE Deliver(m, opens)
    BY <2>1, <2>2, DeliverMoney, DeliverReads DEF MoneyInv
  <2>3. CASE Refuse(m, opens)
    <3>1. log' = log /\ since' = since /\ seen' = seen
      BY <2>3 DEF Refuse, readerVars
    <3>2. ReaderInv'
      BY <3>1 DEF ReaderInv, InboxComplete
    <3> QED
      BY <2>1, <2>3, <3>2, RefuseMoney
  <2> QED
    BY <2>1, <2>2, <2>3
<1>2. CASE Flagging
  <2>1. log' = log /\ since' = since /\ seen' = seen
    BY <1>2 DEF Flagging, FlagLegit, FlagSpam, RecordForfeit, readerVars
  <2>2. ReaderInv'
    BY <2>1 DEF ReaderInv, InboxComplete
  <2> QED
    BY <1>2, <2>2, FlagLegitMoney, FlagSpamMoney, RecordForfeitMoney DEF Flagging
<1>3. CASE \E d \in Reader : Poll(d)
  BY <1>3, PollReads
<1>4. CASE (\E d \in WebhookOwner : RegisterWebhook(d)) \/ NextDay \/ UNCHANGED vars
  BY <1>4, OtherSteps
<1> QED
  BY <1>1, <1>2, <1>3, <1>4 DEF Next

(* The money and the readers' invariants always hold.                      *)
LEMMA MoneyInvariant == Spec => [](MoneyInv /\ ReaderInv)
<1>1. Init => MoneyInv /\ ReaderInv
  BY InitMoney
<1>2. (MoneyInv /\ ReaderInv) /\ [Next]_vars => (MoneyInv /\ ReaderInv)'
  BY StepMoney
<1> QED
  BY <1>1, <1>2, PTL DEF Spec

(* No step touches a hold that is settled.                                 *)
LEMMA StepFinal ==
  ASSUME MoneyInv, [Next]_vars, NEW h \in HoldId, hold[h].state \in W!Settled
  PROVE  hold'[h] = hold[h]
<1>1. /\ TypeOK /\ hold[h].state # "active" /\ ~W!Fresh(h)
  BY DEF MoneyInv, W!Settled, W!Fresh, W!NoHold
<1>2. CASE Sending
  <2>1. PICK m, opens : Sendable(m, opens) /\ (Deliver(m, opens) \/ Refuse(m, opens))
    BY <1>1, <1>2, SendingSends
  <2>2. m.hold \in HoldId /\ m.from \in Did
    BY <2>1 DEF Sendable
  <2>3. Takes(m.hold, m.from, "active") \/ Takes(m.hold, m.from, "released")
    BY <2>1 DEF Deliver, Refuse, W!PlaceHold, Takes, W!Fresh, Charge, FreshHolds
  <2> QED
    BY <1>1, <2>2, <2>3, Taking
<1>3. CASE Flagging
  <2>1. CASE \E id \in MsgId : FlagLegit(id)
    <3>1. PICK x : W!Release(x)
      BY <2>1 DEF FlagLegit
    <3> QED
      BY <1>1, <3>1 DEF W!Release, W!Active, TypeOK, W!TypeOK
  <2>2. CASE \E id \in MsgId : FlagSpam(id)
    <3>1. PICK x, to : W!Forfeit(x, to, Burn)
      BY <2>2 DEF FlagSpam
    <3> QED
      BY <1>1, <3>1 DEF W!Forfeit, W!Active, TypeOK, W!TypeOK
  <2>3. CASE \E f \in flagging : RecordForfeit(f)
    BY <2>3 DEF RecordForfeit, walletVars
  <2> QED
    BY <1>3, <2>1, <2>2, <2>3 DEF Flagging
<1>4. CASE (\E d \in Reader : Poll(d)) \/ (\E d \in WebhookOwner : RegisterWebhook(d)) \/ NextDay
           \/ UNCHANGED vars
  BY <1>4 DEF Poll, RegisterWebhook, NextDay, vars, walletVars
<1> QED
  BY <1>2, <1>3, <1>4 DEF Next

-----------------------------------------------------------------------------
(* What is proved of the money.                                            *)

(* The day's postage is what was held for it, and no day exceeds the cap   *)
(* of the delegation, whoever sends what (service.ts:138-173).             *)
THEOREM PostageIsMetered == Spec => []PostageMetered
<1>1. MoneyInv => PostageMetered
  BY WalletSums DEF MoneyInv, Metered, Used, PostageMetered
<1> QED
  BY <1>1, MoneyInvariant, PTL

(* A flag's outcome is what the wallet did, and every forfeit is one       *)
(* penalty, however flags overlap and messages are retried                 *)
(* (service.ts:271-286).                                                   *)
THEOREM FlagsAreSettled == Spec => []FlagsSettle
<1>1. MoneyInv => FlagsSettle
  BY DEF MoneyInv, FlagsSettle
<1> QED
  BY <1>1, MoneyInvariant, PTL

(* What the wallets hold is backed by active holds, value is conserved     *)
(* through burns, and a settled hold stays as it is                        *)
(* (wallet/service.ts:101-193).                                            *)
THEOREM WalletIsSound == Spec => WalletSound
<1>1. MoneyInv => W!HeldIsBacked /\ W!Conservation
  BY BackedIs, ConservedIs DEF MoneyInv
<1>2. MoneyInv /\ [Next]_vars
        => [\A h \in HoldId : hold[h].state \in W!Settled => hold'[h] = hold[h]]_(W!walletVars)
  BY StepFinal
<1> QED
  BY <1>1, <1>2, MoneyInvariant, PTL DEF Spec, WalletSound, W!SettledIsFinal

-----------------------------------------------------------------------------
(* Replaying a thread.                                                     *)

(* The function that Replay's definition stands for.                       *)
IsReplay(messages, t, f) ==
  f = [n \in 0..Len(messages) |->
         IF n = 0 THEN "OPEN"
         ELSE IF messages[n].thread # t THEN f[n - 1]
         ELSE NextState(f[n - 1], messages[n].type)]

(* Replay is the value of a function chosen by its equations.              *)
LEMMA ReplayIsChosen ==
  ASSUME NEW messages, NEW t
  PROVE  Replay(messages, t) = (CHOOSE f : IsReplay(messages, t, f))[Len(messages)]
  BY DEF Replay, IsReplay

(* The equations of that function.                                         *)
LEMMA ReplayEquations ==
  ASSUME NEW messages, Len(messages) \in Nat, NEW t, NEW f, IsReplay(messages, t, f)
  PROVE  /\ f[0] = "OPEN"
         /\ \A n \in 1..Len(messages) :
              f[n] = IF messages[n].thread # t THEN f[n - 1]
                     ELSE NextState(f[n - 1], messages[n].type)
  BY DEF IsReplay

(* There is one.                                                           *)
LEMMA ReplayExists ==
  ASSUME NEW messages, Len(messages) \in Nat, NEW t
  PROVE  \E f : IsReplay(messages, t, f)
<1> DEFINE n == Len(messages)
           F == [i \in 1..n |-> [s \in ThreadState |->
                  IF messages[i].thread # t THEN s ELSE NextState(s, messages[i].type)]]
<1>1. F \in [1..n -> [ThreadState -> ThreadState]]
  BY NextStates
<1>2. "OPEN" \in ThreadState /\ n \in Nat
  BY DEF ThreadState
<1>3. \A i \in 1..n : \A s \in ThreadState :
        F[i][s] = IF messages[i].thread # t THEN s ELSE NextState(s, messages[i].type)
  OBVIOUS
<1> HIDE DEF F, n
<1>4. PICK f : Recursion(f, n, ThreadState, "OPEN", F)
  BY <1>1, <1>2, RecursionDefines
<1>5. /\ f \in [0..n -> ThreadState] /\ f[0] = "OPEN"
      /\ \A i \in 1..n : f[i] = F[i][f[i - 1]]
  BY <1>4 DEF Recursion
<1>6. \A i \in 1..n : f[i] = IF messages[i].thread # t THEN f[i - 1]
                             ELSE NextState(f[i - 1], messages[i].type)
  <2>1. \A i \in 1..n : f[i - 1] \in ThreadState
    BY <1>2, <1>5
  <2> QED
    BY <1>3, <1>5, <2>1
<1> DEFINE G(i) == IF i = 0 THEN "OPEN"
                   ELSE IF messages[i].thread # t THEN f[i - 1]
                   ELSE NextState(f[i - 1], messages[i].type)
<1>7. \A i \in 0..n : f[i] = G(i)
  BY <1>2, <1>5, <1>6
<1> HIDE DEF G
<1>8. f = [i \in 0..n |-> G(i)]
  BY <1>5, <1>7
<1> QED
  BY <1>8 DEF G, n, IsReplay

(* Two of them agree on the messages they share.                           *)
LEMMA ReplaysAgree ==
  ASSUME NEW a, NEW b, Len(a) \in Nat, Len(b) \in Nat, Len(a) <= Len(b),
         \A n \in 1..Len(a) : b[n] = a[n],
         NEW t, NEW f, NEW g, IsReplay(a, t, f), IsReplay(b, t, g)
  PROVE  \A n \in 0..Len(a) : g[n] = f[n]
<1> DEFINE T == {n \in 0..Len(a) : g[n] # f[n]}
<1>1. SUFFICES ASSUME T # {} PROVE FALSE
  OBVIOUS
<1>2. PICK n \in T : \A m \in T : n <= m
  <2>1. T \in SUBSET Nat
    OBVIOUS
  <2> HIDE DEF T
  <2> QED
    BY <1>1, <2>1, LeastNat
<1>3. /\ f[0] = "OPEN" /\ g[0] = "OPEN"
      /\ \A i \in 1..Len(a) :
           f[i] = IF a[i].thread # t THEN f[i - 1] ELSE NextState(f[i - 1], a[i].type)
      /\ \A i \in 1..Len(b) :
           g[i] = IF b[i].thread # t THEN g[i - 1] ELSE NextState(g[i - 1], b[i].type)
  BY ReplayEquations
<1>4. n \in 1..Len(a) /\ n \in 1..Len(b) /\ n - 1 \in 0..Len(a) /\ ~(n <= n - 1)
  BY <1>2, <1>3
<1>5. g[n - 1] = f[n - 1]
  BY <1>2, <1>4
<1> QED
  BY <1>2, <1>3, <1>4, <1>5

(* Without messages a thread is open; a message of its own moves it.       *)
LEMMA ReplayEmpty ==
  ASSUME NEW messages, Len(messages) = 0, NEW t
  PROVE  Replay(messages, t) = "OPEN"
<1>1. PICK f : IsReplay(messages, t, f)
  <2>1. Len(messages) \in Nat
    OBVIOUS
  <2> QED
    BY <2>1, ReplayExists
<1>2. IsReplay(messages, t, CHOOSE g : IsReplay(messages, t, g))
  BY <1>1
<1> QED
  BY <1>2, ReplayIsChosen, ReplayEquations

(* Replaying a log with one entry more is one step more.                   *)
LEMMA ReplayAppend ==
  ASSUME NEW a, NEW b, Len(a) \in Nat, Len(b) = Len(a) + 1,
         \A n \in 1..Len(a) : b[n] = a[n], NEW t
  PROVE  Replay(b, t) = IF b[Len(b)].thread # t THEN Replay(a, t)
                        ELSE NextState(Replay(a, t), b[Len(b)].type)
<1> DEFINE f == CHOOSE h : IsReplay(a, t, h)
           g == CHOOSE h : IsReplay(b, t, h)
<1>1. IsReplay(a, t, f) /\ IsReplay(b, t, g)
  BY ReplayExists, SMTT(30)
<1>2. Replay(a, t) = f[Len(a)] /\ Replay(b, t) = g[Len(b)]
  BY ReplayIsChosen
<1> HIDE DEF f, g
<1>3. g[Len(a)] = f[Len(a)]
  BY <1>1, ReplaysAgree, SMTT(30)
<1>4. Len(b) \in 1..Len(b) /\ Len(b) - 1 = Len(a)
  OBVIOUS
<1>5. g[Len(b)] = IF b[Len(b)].thread # t THEN g[Len(b) - 1]
                  ELSE NextState(g[Len(b) - 1], b[Len(b)].type)
  BY <1>1, <1>4, ReplayEquations, SMTT(30)
<1>6. g[Len(b)] = IF b[Len(b)].thread # t THEN g[Len(a)] ELSE NextState(g[Len(a)], b[Len(b)].type)
  BY <1>4, <1>5
<1> QED
  BY <1>2, <1>3, <1>6

-----------------------------------------------------------------------------
(* Threads and agreements, where no opening message names a thread that    *)
(* exists.                                                                 *)

(* The thread that a message goes to: a new one, or one on record.         *)
LEMMA ThreadOfMessage ==
  ASSUME ~ReuseThread, TypeOK, ThreadInv, NEW m, NEW opens, Sendable(m, opens),
         Deliver(m, opens)
  PROVE  /\ m.thread \in Thread
         /\ thread[m.thread] = NoThread <=> opens
         /\ StateBefore(m, opens) = Replay(log, m.thread)
         /\ thread' \in [Thread -> {NoThread} \cup ThreadRecord]
         /\ thread'[m.thread] = ThreadAfter(m, opens) /\ thread'[m.thread] # NoThread
         /\ \A t \in Thread : t # m.thread => thread'[t] = thread[t]
<1>1. thread \in [Thread -> {NoThread} \cup ThreadRecord]
  BY DEF TypeOK
<1>2. m.thread \in Thread /\ opens \in BOOLEAN
  BY DEF Sendable, Deliver, Resolved
<1>3. thread[m.thread] = NoThread <=> opens
  <2>1. CASE opens
    BY <1>2, <2>1 DEF Sendable
  <2>2. CASE ~opens
    <3>1. \E i \in DOMAIN log : m.thread = log[i].thread
      BY <2>2 DEF Sendable, Deliver, Resolved
    <3> QED
      BY <2>2, <3>1 DEF ThreadInv, ThreadsKept
  <2> QED
    BY <1>2, <2>1, <2>2
<1>4. StateBefore(m, opens) = Replay(log, m.thread)
  BY <1>2, <1>3 DEF StateBefore, ThreadInv, ThreadsKept
<1>5. thread' = [thread EXCEPT ![m.thread] = ThreadAfter(m, opens)]
  BY DEF Deliver
<1>6. thread'[m.thread] = ThreadAfter(m, opens)
  BY <1>1, <1>2, <1>5
<1>7. NextState(StateBefore(m, opens), m.type) \in ThreadState
  BY NextStates DEF Deliver, Resolved, StateBefore, ThreadState, Sendable
<1>8. ThreadAfter(m, opens).state # "none"
  BY <1>7 DEF ThreadAfter, ThreadState
<1>9. thread' \in [Thread -> {NoThread} \cup ThreadRecord]
  <2>1. thread[m.thread] # NoThread => thread[m.thread] \in ThreadRecord
    BY <1>1, <1>2
  <2>2. m.from \in Did /\ m.to \in Did /\ m.quote \in Quote \cup {None}
    BY DEF Sendable
  <2>3. ThreadAfter(m, opens) \in ThreadRecord
    BY <1>7, <2>1, <2>2 DEF ThreadAfter, ThreadRecord
  <2> QED
    BY <1>1, <1>5, <2>3
<1> QED
  BY <1>1, <1>2, <1>3, <1>4, <1>5, <1>6, <1>8, <1>9 DEF NoThread

(* The quotes of the threads after a message.                              *)
LEMMA QuotesAfter ==
  ASSUME TypeOK, NEW m, NEW opens, Sendable(m, opens), Deliver(m, opens), NEW t \in Thread
  PROVE  /\ m.thread = t /\ m.type = "QUOTE" =>
              QuotesIn(t)' # {} /\ log'[Max(QuotesIn(t)')].quote = m.quote
         /\ ~(m.thread = t /\ m.type = "QUOTE") =>
              /\ QuotesIn(t)' = QuotesIn(t)
              /\ QuotesIn(t) # {} => log'[Max(QuotesIn(t)')] = log[Max(QuotesIn(t))]
<1>1. /\ Len(log) \in Nat /\ DOMAIN log = 1..Len(log) /\ DOMAIN log' = 1..Len(log) + 1
      /\ \A i \in 1..Len(log) : log'[i] = log[i]
      /\ log'[Len(log) + 1] = m
  BY Delivered
<1>2. ASSUME m.thread = t, m.type = "QUOTE"
      PROVE  QuotesIn(t)' # {} /\ log'[Max(QuotesIn(t)')].quote = m.quote
  <2>1. Len(log) + 1 \in QuotesIn(t)' /\ QuotesIn(t)' \in SUBSET (1..Len(log) + 1)
    BY <1>1, <1>2 DEF QuotesIn
  <2>2. Max(QuotesIn(t)') \in QuotesIn(t)' /\ \A x \in QuotesIn(t)' : x <= Max(QuotesIn(t)')
    <3> DEFINE Q == QuotesIn(t)'
    <3>1. Q \in SUBSET Nat /\ Q # {} /\ Len(log) + 1 \in Nat /\ \A x \in Q : x <= Len(log) + 1
      BY <1>1, <2>1
    <3> HIDE DEF Q
    <3>2. Max(Q) \in Q /\ \A x \in Q : x <= Max(Q)
      BY <3>1, MaxNat
    <3> QED
      BY <3>2 DEF Q
  <2>3. Max(QuotesIn(t)') = Len(log) + 1
    BY <1>1, <2>1, <2>2
  <2> QED
    BY <1>1, <2>1, <2>3
<1>3. ASSUME ~(m.thread = t /\ m.type = "QUOTE")
      PROVE  /\ QuotesIn(t)' = QuotesIn(t)
             /\ QuotesIn(t) # {} => log'[Max(QuotesIn(t)')] = log[Max(QuotesIn(t))]
  <2>1. QuotesIn(t)' = QuotesIn(t)
    BY <1>1, <1>3 DEF QuotesIn
  <2>2. QuotesIn(t) # {} => Max(QuotesIn(t)) \in 1..Len(log)
    <3>1. QuotesIn(t) \in SUBSET Nat /\ QuotesIn(t) \subseteq 1..Len(log)
          /\ \A x \in QuotesIn(t) : x <= Len(log)
      BY <1>1 DEF QuotesIn
    <3> QED
      BY <1>1, <3>1, MaxNat
  <2> QED
    BY <1>1, <2>1, <2>2
<1> QED
  BY <1>2, <1>3

(* Delivering a message keeps the threads decided by their logs.           *)
LEMMA DeliverThreads ==
  ASSUME ~ReuseThread, TypeOK, ThreadInv, NEW m, NEW opens, Sendable(m, opens),
         Deliver(m, opens)
  PROVE  ThreadsKept'
<1>1. /\ m.thread \in Thread
      /\ thread[m.thread] = NoThread <=> opens
      /\ StateBefore(m, opens) = Replay(log, m.thread)
      /\ thread'[m.thread] = ThreadAfter(m, opens) /\ thread'[m.thread] # NoThread
      /\ \A t \in Thread : t # m.thread => thread'[t] = thread[t]
  BY ThreadOfMessage
<1>2. /\ Len(log') = Len(log) + 1 /\ Len(log) \in Nat
      /\ DOMAIN log = 1..Len(log) /\ DOMAIN log' = 1..Len(log) + 1
      /\ \A i \in 1..Len(log) : log'[i] = log[i]
      /\ log'[Len(log) + 1] = m
  BY Delivered
<1>3. \A i \in DOMAIN log : log[i].thread \in Thread /\ thread[log[i].thread] # NoThread
  BY LogMessages DEF ThreadInv, ThreadsKept
<1>4. \A i \in DOMAIN log' : thread'[log'[i].thread] # NoThread
  BY <1>1, <1>2, <1>3
<1>5. \A t \in Thread :
        Replay(log', t) = IF m.thread # t THEN Replay(log, t)
                          ELSE NextState(Replay(log, t), m.type)
  <2> DEFINE after == log'
  <2>1. /\ Len(after) = Len(log) + 1 /\ \A i \in 1..Len(log) : after[i] = log[i]
        /\ after[Len(after)] = m
    BY <1>2
  <2> HIDE DEF after
  <2>2. \A t \in Thread :
          Replay(after, t) = IF after[Len(after)].thread # t THEN Replay(log, t)
                             ELSE NextState(Replay(log, t), after[Len(after)].type)
    BY <1>2, <2>1, ReplayAppend
  <2>3. \A t \in Thread :
          Replay(after, t) = IF m.thread # t THEN Replay(log, t)
                             ELSE NextState(Replay(log, t), m.type)
    BY <2>1, <2>2
  <2> QED
    BY <2>3 DEF after
<1>6. /\ thread'[m.thread].state = NextState(Replay(log, m.thread), m.type)
      /\ thread'[m.thread].quote = IF m.type = "QUOTE" THEN m.quote
                                   ELSE IF opens THEN None ELSE thread[m.thread].quote
  BY <1>1 DEF ThreadAfter
<1>7. ASSUME NEW t \in Thread
      PROVE  /\ thread'[t] = NoThread => Replay(log', t) = "OPEN"
             /\ thread'[t] # NoThread =>
                  /\ thread'[t].state = Replay(log', t)
                  /\ thread'[t].quote = IF QuotesIn(t)' = {} THEN None
                                        ELSE log'[Max(QuotesIn(t)')].quote
  <2>1. /\ thread[t] = NoThread => Replay(log, t) = "OPEN"
        /\ thread[t] # NoThread =>
             /\ thread[t].state = Replay(log, t)
             /\ thread[t].quote = IF QuotesIn(t) = {} THEN None ELSE log[Max(QuotesIn(t))].quote
    BY DEF ThreadInv, ThreadsKept
  <2>2. /\ m.thread = t /\ m.type = "QUOTE" =>
              QuotesIn(t)' # {} /\ log'[Max(QuotesIn(t)')].quote = m.quote
        /\ ~(m.thread = t /\ m.type = "QUOTE") =>
              /\ QuotesIn(t)' = QuotesIn(t)
              /\ QuotesIn(t) # {} => log'[Max(QuotesIn(t)')] = log[Max(QuotesIn(t))]
    BY QuotesAfter
  <2>3. thread[t] = NoThread => QuotesIn(t) = {}
    BY <1>3 DEF QuotesIn
  <2>4. CASE t # m.thread
    BY <1>1, <1>5, <2>1, <2>2, <2>4
  <2>5. CASE t = m.thread /\ m.type = "QUOTE"
    BY <1>1, <1>5, <1>6, <2>2, <2>5
  <2>6. CASE t = m.thread /\ m.type # "QUOTE"
    BY <1>1, <1>5, <1>6, <2>1, <2>2, <2>3, <2>6
  <2> QED
    BY <2>4, <2>5, <2>6
<1>8. \A t \in Thread : thread'[t] = NoThread => Replay(log', t) = "OPEN"
  BY <1>7
<1>9. \A t \in Thread : thread'[t] # NoThread =>
        /\ thread'[t].state = Replay(log', t)
        /\ thread'[t].quote = IF QuotesIn(t)' = {} THEN None ELSE log'[Max(QuotesIn(t)')].quote
  BY <1>7
<1> QED
  BY <1>4, <1>8, <1>9 DEF ThreadsKept

(* What an agreement says of its thread.                                   *)
Bound(t, q) ==
  /\ QuotesIn(t) # {} /\ log[Max(QuotesIn(t))].quote = q
  /\ thread[t].state \in {"AGREED", "COMMITTED", "CLOSED"}

OnePerThread ==
  \A i, j \in DOMAIN agreements : agreements[j].thread = agreements[i].thread => j = i
AllBound ==
  \A i \in DOMAIN agreements :
    \A t, q : t = agreements[i].thread /\ q = agreements[i].quote => Bound(t, q)


(* A QUOTE, the first of its id to reach its recipient, offered the terms. *)
Offered(q, p) == \E c \in DOMAIN log : FirstOffer(c) /\ log[c].quote = q /\ log[c].terms = p

AllOffered == \A i \in DOMAIN agreements : Offered(agreements[i].quote, agreements[i].terms)

(* AgreementBinds is the three of its parts.                               *)
LEMMA AgreementsBound == AgreementBinds <=> OnePerThread /\ AllBound /\ AllOffered
<1>1. AgreementBinds <=>
        \A i \in DOMAIN agreements :
          /\ \A j \in DOMAIN agreements : agreements[j].thread = agreements[i].thread => j = i
          /\ Bound(agreements[i].thread, agreements[i].quote)
          /\ Offered(agreements[i].quote, agreements[i].terms)
  BY DEF AgreementBinds, Bound, Offered
<1>2. AllBound <=>
        \A i \in DOMAIN agreements : Bound(agreements[i].thread, agreements[i].quote)
  BY DEF AllBound
<1> QED
  BY <1>1, <1>2 DEF OnePerThread, AllOffered

(* So it is in the next state.                                             *)
LEMMA AgreementsStayBound == (AgreementBinds <=> OnePerThread /\ AllBound /\ AllOffered)'
  BY AgreementsBound, PTL

(* What was offered first stays so: the log only grows.                    *)
LEMMA OfferKept ==
  ASSUME TypeOK, NEW m, NEW opens, Sendable(m, opens), Deliver(m, opens),
         NEW q, NEW p, Offered(q, p)
  PROVE  Offered(q, p)'
<1>1. /\ Len(log) \in Nat /\ DOMAIN log = 1..Len(log) /\ DOMAIN log' = 1..Len(log) + 1
      /\ \A i \in 1..Len(log) : log'[i] = log[i]
  BY Delivered
<1>2. PICK c \in DOMAIN log : FirstOffer(c) /\ log[c].quote = q /\ log[c].terms = p
  BY DEF Offered
<1>3. \A b \in 1..c : log'[b] = log[b]
  BY <1>1, <1>2
<1>4. c \in DOMAIN log' /\ log'[c] = log[c]
  BY <1>1, <1>2
<1>5. FirstOffer(c)'
  BY <1>2, <1>3, <1>4 DEF FirstOffer
<1> QED
  BY <1>2, <1>4, <1>5 DEF Offered

(* Delivering a message keeps the agreements bound.                        *)
LEMMA DeliverAgrees ==
  ASSUME ~ReuseThread, TypeOK, ThreadInv, NEW m, NEW opens, Sendable(m, opens),
         Deliver(m, opens)
  PROVE  AgreementBinds'
<1>1. /\ m.thread \in Thread
      /\ thread[m.thread] = NoThread <=> opens
      /\ thread'[m.thread] = ThreadAfter(m, opens)
      /\ \A t \in Thread : t # m.thread => thread'[t] = thread[t]
  BY ThreadOfMessage
<1>2. /\ agreements \in Seq(Agreement)
      /\ agreements' = IF m.type = "ACCEPT" /\ CanAgree(m)
                       THEN Append(agreements, AgreementOf(m)) ELSE agreements
      /\ Resolved(m, opens)
  BY DEF Deliver, TypeOK
<1>3. \A i \in DOMAIN agreements : agreements[i].thread \in Thread
  <2>1. \A a \in Agreement : a.thread \in Thread
    BY DEF Agreement
  <2> HIDE DEF Agreement
  <2> QED
    BY <1>2, <2>1
<1>4. OnePerThread /\ AllBound /\ AllOffered
  BY AgreementsBound DEF ThreadInv
<1>5. ThreadAfter(m, opens).state = NextState(StateBefore(m, opens), m.type)
  BY DEF ThreadAfter
(* The thread of an agreement that gets a message stays past OFFERED.      *)
<1>6. ASSUME NEW i \in DOMAIN agreements
      PROVE  /\ \A t, q : t = agreements[i].thread /\ q = agreements[i].quote => Bound(t, q)'
             /\ agreements[i].thread = m.thread => m.type # "ACCEPT"
  <2>1. PICK t, q : t \in Thread /\ t = agreements[i].thread /\ q = agreements[i].quote
    BY <1>3
  <2>2. /\ QuotesIn(t) # {} /\ log[Max(QuotesIn(t))].quote = q
        /\ thread[t].state \in {"AGREED", "COMMITTED", "CLOSED"}
    BY <1>4, <2>1 DEF AllBound, Bound
  <2>3. /\ ~(m.thread = t /\ m.type = "QUOTE")
        /\ thread'[t].state \in {"AGREED", "COMMITTED", "CLOSED"}
        /\ t = m.thread => m.type # "ACCEPT"
    <3>1. CASE t # m.thread
      BY <1>1, <2>1, <2>2, <3>1
    <3>2. CASE t = m.thread
      <4>1. thread[t] # NoThread
        BY <2>2 DEF NoThread
      <4>2. ~opens /\ StateBefore(m, opens) = thread[t].state
        BY <1>1, <3>2, <4>1 DEF StateBefore, Sendable
      <4>3. thread[t].state \in {"AGREED", "COMMITTED"} /\ Moves(thread[t].state, m.type)
        BY <1>2, <2>2, <3>2, <4>2 DEF Resolved
      <4>4. /\ m.type \notin {"QUOTE", "ACCEPT"}
            /\ NextState(thread[t].state, m.type) \in {"AGREED", "COMMITTED", "CLOSED"}
        BY <4>3 DEF Moves, NextState, LegalSelfTransition
      <4> QED
        BY <1>1, <1>5, <3>2, <4>2, <4>4
    <3> QED
      BY <3>1, <3>2
  <2>4. QuotesIn(t)' = QuotesIn(t) /\ log'[Max(QuotesIn(t)')] = log[Max(QuotesIn(t))]
    BY <2>1, <2>2, <2>3, QuotesAfter
  <2>5. QuotesIn(t)' # {} /\ log'[Max(QuotesIn(t)')].quote = q
    BY <2>2, <2>4
  <2>6. Bound(t, q)'
    BY <2>3, <2>5 DEF Bound
  <2> QED
    BY <2>1, <2>3, <2>6
<1>7. \A i \in DOMAIN agreements :
        \A q, p : q = agreements[i].quote /\ p = agreements[i].terms => Offered(q, p)'
  <2>1. SUFFICES ASSUME NEW i \in DOMAIN agreements, NEW q, NEW p,
                        q = agreements[i].quote, p = agreements[i].terms
                 PROVE  Offered(q, p)'
    OBVIOUS
  <2>2. Offered(q, p)
    BY <1>4, <2>1 DEF AllOffered
  <2> QED
    BY <2>2, OfferKept
<1>8. CASE ~(m.type = "ACCEPT" /\ CanAgree(m))
  <2>1. agreements' = agreements
    BY <1>2, <1>8
  <2>2. AllOffered'
    BY <1>7, <2>1 DEF AllOffered, Offered
  <2>3. OnePerThread' /\ AllBound'
    BY <1>4, <1>6, <2>1 DEF OnePerThread, AllBound
  <2> QED
    BY <2>3, <2>2, AgreementsStayBound
<1>9. CASE m.type = "ACCEPT" /\ CanAgree(m)
  <2> DEFINE n == Len(agreements)
             new == AgreementOf(m)
  <2>1. /\ new.thread = m.thread /\ new.quote = thread[m.thread].quote
        /\ new.terms = AgreedTerms(m)
    BY DEF AgreementOf
  <2>2. /\ n \in Nat /\ DOMAIN agreements = 1..n
        /\ DOMAIN agreements' = 1..n + 1
        /\ agreements'[n + 1] = new
        /\ \A i \in 1..n : agreements'[i] = agreements[i]
    BY <1>2, <1>9
  <2> HIDE DEF n, new
  <2>3. thread[m.thread] # NoThread /\ thread[m.thread].quote # None
    BY <1>9 DEF CanAgree
  <2>4. /\ QuotesIn(m.thread) # {}
        /\ log[Max(QuotesIn(m.thread))].quote = thread[m.thread].quote
    BY <1>1, <2>3 DEF ThreadInv, ThreadsKept
  <2>5. \A t, q : t = m.thread /\ q = new.quote => Bound(t, q)'
    <3>1. StateBefore(m, opens) = "OFFERED"
      <4>1. ~opens
        BY <1>1, <2>3 DEF Sendable
      <4> QED
        BY <1>2, <1>9, <4>1
           DEF Resolved, StateBefore, Moves, NextState, LegalSelfTransition
    <3>2. thread'[m.thread].state = "AGREED"
      BY <1>1, <1>5, <1>9, <3>1 DEF NextState
    <3>3. QuotesIn(m.thread)' = QuotesIn(m.thread)
          /\ log'[Max(QuotesIn(m.thread)')] = log[Max(QuotesIn(m.thread))]
      BY <1>1, <1>9, <2>4, QuotesAfter
    <3>4. SUFFICES ASSUME NEW t, NEW q, t = m.thread, q = new.quote PROVE Bound(t, q)'
      OBVIOUS
    <3>5. /\ thread'[t].state = "AGREED" /\ QuotesIn(t)' = QuotesIn(t)
          /\ log'[Max(QuotesIn(t)')] = log[Max(QuotesIn(t))]
          /\ QuotesIn(t) # {} /\ log[Max(QuotesIn(t))].quote = q
      BY <2>1, <2>4, <3>2, <3>3, <3>4
    <3> QED
      BY <3>5 DEF Bound
  <2>6. \A i \in 1..n : agreements[i].thread # m.thread
    BY <1>6, <1>9, <2>2
  <2>7. OnePerThread'
    BY <1>4, <2>1, <2>2, <2>6 DEF OnePerThread
  <2>8. AllBound'
    <3>1. SUFFICES ASSUME NEW i \in 1..n + 1, NEW t, NEW q,
                          t = agreements'[i].thread, q = agreements'[i].quote
                   PROVE  Bound(t, q)'
      BY <2>2 DEF AllBound
    <3>2. CASE i = n + 1
      BY <2>1, <2>2, <2>5, <3>1, <3>2
    <3>3. CASE i # n + 1
      <4>1. i \in 1..n
        BY <2>2, <3>3
      <4> QED
        BY <1>6, <2>2, <3>1, <4>1
    <3> QED
      BY <3>2, <3>3
  <2>9. AllOffered'
    <3>1. Offered(new.quote, new.terms)
      BY <1>9, <2>1, AgreedOffer DEF CanAgree, Offered
    <3>2. ASSUME NEW q, NEW p, q = new.quote, p = new.terms PROVE Offered(q, p)'
      <4>1. Offered(q, p)
        BY <3>1, <3>2
      <4> QED
        BY <4>1, OfferKept
    <3>3. SUFFICES ASSUME NEW i \in 1..n + 1
                   PROVE  Offered(agreements[i].quote, agreements[i].terms)'
      BY <2>2 DEF AllOffered
    <3>4. CASE i = n + 1
      BY <2>2, <3>2, <3>4 DEF Offered
    <3>5. CASE i # n + 1
      <4>1. i \in DOMAIN agreements /\ agreements'[i] = agreements[i]
        BY <2>2, <3>5
      <4> QED
        BY <1>7, <4>1 DEF Offered
    <3> QED
      BY <3>4, <3>5
  <2> QED
    BY <2>7, <2>8, <2>9, AgreementsStayBound
<1> QED
  BY <1>8, <1>9

(* Every step keeps the threads.                                           *)
LEMMA StepThreads ==
  ASSUME ~ReuseThread, TypeOK, ThreadInv, [Next]_vars
  PROVE  ThreadInv'
<1>1. CASE Sending
  <2>1. PICK m, opens : Sendable(m, opens) /\ (Deliver(m, opens) \/ Refuse(m, opens))
    BY <1>1, SendingSends
  <2>2. CASE Deliver(m, opens)
    BY <2>1, <2>2, DeliverThreads, DeliverAgrees DEF ThreadInv
  <2>3. CASE Refuse(m, opens)
    <3>1. log' = log /\ thread' = thread /\ agreements' = agreements
      BY <2>3 DEF Refuse
    <3>2. ThreadsKept'
      BY <3>1 DEF ThreadInv, ThreadsKept, QuotesIn
    <3>3. AgreementBinds'
      BY <3>1 DEF ThreadInv, AgreementBinds, QuotesIn, FirstOffer
    <3> QED
      BY <3>2, <3>3 DEF ThreadInv
  <2> QED
    BY <2>1, <2>2, <2>3
<1>2. CASE Flagging \/ (\E d \in Reader : Poll(d)) \/ (\E d \in WebhookOwner : RegisterWebhook(d))
           \/ NextDay \/ UNCHANGED vars
  <2>1. log' = log /\ thread' = thread /\ agreements' = agreements
    BY <1>2 DEF Flagging, FlagLegit, FlagSpam, RecordForfeit, Poll, RegisterWebhook, NextDay, vars
  <2>2. ThreadsKept'
    BY <2>1 DEF ThreadInv, ThreadsKept, QuotesIn
  <2>3. AgreementBinds'
    BY <2>1 DEF ThreadInv, AgreementBinds, QuotesIn, FirstOffer
  <2> QED
    BY <2>2, <2>3 DEF ThreadInv
<1> QED
  BY <1>1, <1>2 DEF Next

(* The invariant of the threads holds at first.                            *)
LEMMA InitThreads ==
  ASSUME Init
  PROVE  ThreadInv
<1>1. log = <<>> /\ agreements = <<>> /\ \A t \in Thread : thread[t] = NoThread
  BY DEF Init
<1>2. Len(log) = 0 /\ DOMAIN log = {} /\ DOMAIN agreements = {}
  BY <1>1
<1>3. \A t \in Thread : Replay(log, t) = "OPEN"
  BY <1>2, ReplayEmpty
<1> QED
  BY <1>1, <1>2, <1>3 DEF ThreadInv, ThreadsKept, AgreementBinds

(* The invariant of the threads always holds.                              *)
LEMMA ThreadInvariant ==
  ASSUME ~ReuseThread
  PROVE  Spec => []ThreadInv
<1>1. Init => ThreadInv
  BY InitThreads
<1>2. MoneyInv /\ ThreadInv /\ [Next]_vars => ThreadInv'
  BY StepThreads DEF MoneyInv
<1> QED
  BY <1>1, <1>2, MoneyInvariant, PTL DEF Spec

(* Where no opening message names a thread that exists, the state of a     *)
(* thread is that of its messages, replayed in the order they were stored, *)
(* and a reader that polls from its cursor misses nothing                  *)
(* (service.ts:175-178 and 221-231).                                       *)
THEOREM LogIsDecisive ==
  ASSUME ~ReuseThread
  PROVE  Spec => []LogDecides
<1>1. MoneyInv /\ ReaderInv /\ ThreadInv => LogDecides
  BY DEF ReaderInv, ThreadInv, ThreadsKept, LogDecides, ThreadFollowsMessages
<1> QED
  BY <1>1, MoneyInvariant, ThreadInvariant, PTL

(* And a thread hands out at most one agreement, for the last quote that   *)
(* it carried, which later messages leave as it is, on the terms of the    *)
(* first QUOTE that reached some agent under the id                        *)
(* (service.ts:376-435).                                                   *)
THEOREM AgreementsBind ==
  ASSUME ~ReuseThread
  PROVE  Spec => []AgreementBinds
<1>1. ThreadInv => AgreementBinds
  BY DEF ThreadInv
<1> QED
  BY <1>1, ThreadInvariant, PTL
=============================================================================
