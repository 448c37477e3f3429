------------------------------ MODULE Mailroom ------------------------------
(***************************************************************************)
(* The mailroom (features/mailroom): signed messages that pay postage,     *)
(* the threads they negotiate in, the flags that settle the postage and    *)
(* the agreement an ACCEPT hands to settlement, over the wallet.           *)
(*                                                                         *)
(* A request starts when its signature is verified; what it does then runs *)
(* in one turn of the event loop, up to the reputation snapshot that a     *)
(* spam flag signs before it records its outcome.                          *)
(***************************************************************************)
EXTENDS Integers, Sequences, FiniteSets, Functions, FiniteSetsExt

CONSTANTS
  Did,       \* agents
  MsgId,     \* numbers senders give their messages; a retry repeats one
  Thread,    \* thread ids
  Quote,     \* quote ids that QUOTE messages carry
  Terms,     \* what a QUOTE offers under its id: price and milestones
  Sends,     \* [Did -> SUBSET MessageType], what each agent sends
  Peers,     \* [Did -> SUBSET Did], whom it sends to, itself included perhaps
  Delegate,  \* agents whose delegation lets them send messages
  Cap,       \* [Did -> Nat], max_postage_per_day of the delegation
  Postage, Burn,  \* what a message costs, and how much of it a forfeit burns
  Funds,     \* what each agent has at first
  HoldId,    \* bound: hold rows, so messages ever tried
  MaxLog,    \* bound: messages stored
  PageSize,  \* `limit` of an inbox query
  ScanLimit, \* how much of an inbox the handoff reads to find a quote
  Reader, Flagger, WebhookOwner,  \* agents that poll, flag, register a webhook
  LastDay,   \* bound: days go from 0 to LastDay
  ReuseThread, \* may an opening message name a thread that exists?
  None       \* null

ASSUME MailroomAssumption ==
  /\ {Postage, Burn, Funds, MaxLog, PageSize, ScanLimit, LastDay} \subseteq Nat
  /\ Postage > 0 /\ Burn <= Postage /\ PageSize > 0
  /\ MsgId \subseteq Nat
  /\ Cap \in [Did -> Nat] /\ Peers \in [Did -> SUBSET Did]
  /\ Delegate \cup Reader \cup Flagger \cup WebhookOwner \subseteq Did
  /\ ReuseThread \in BOOLEAN
  /\ IsFiniteSet(Did) /\ IsFiniteSet(HoldId)
  /\ None \notin Thread \cup Quote \cup HoldId

VARIABLES
  available, held, hold, external,  \* the wallets
  log,        \* MessageRepo: stored messages; the index is the cursor
  thread,     \* ThreadRepo
  spent,      \* PostageRepo: by sender and day
  outcome,    \* FlagRepo: by message id
  webhooks,   \* WebhookRepo: owners
  agreements, \* the agreements handed out, in order
  penalties,  \* message_spam signals, by sender
  flagging,   \* spam flags awaiting the reputation snapshot
  day,
  since, seen \* of each reader: the cursor it has got to, what it was given

walletVars == <<available, held, hold, external>>
flagVars == <<outcome, penalties, flagging>>
readerVars == <<since, seen>>
vars == <<walletVars, log, thread, spent, flagVars, webhooks, agreements, day, readerVars>>

W == INSTANCE Wallet WITH Amount <- {}, Seed <- Funds

MessageType == {"INQUIRY", "QUOTE_REQUEST", "QUOTE", "OFFER", "COUNTER", "ACCEPT",
                "REJECT", "DELEGATE", "STATUS", "RECEIPT_REF"}
ThreadState == {"OPEN", "QUOTING", "OFFERED", "AGREED", "COMMITTED", "CLOSED"}

(* `quote` is the quote a QUOTE carries or an ACCEPT names; `terms` is what *)
(* the QUOTE offers.                                                       *)
Message ==
  {m \in [id : MsgId, from : Did, to : Did, type : UNION {Sends[d] : d \in Did},
          thread : Thread, quote : Quote \cup {None}, terms : Terms \cup {None}, hold : HoldId] :
     m.type = "QUOTE" => m.terms \in Terms}
NoThread == [state |-> "none"]
ThreadRecord == [state : ThreadState, opener : Did, counterparty : Did,
                 quote : Quote \cup {None}]
Agreement == [thread : Thread, quote : Quote, terms : Terms, requester : Did, provider : Did]
Outcome == {"none", "released", "forfeited"}

TypeOK ==
  /\ W!TypeOK
  /\ log \in Seq(Message)
  /\ thread \in [Thread -> {NoThread} \cup ThreadRecord]
  /\ spent \in [Did -> [0..LastDay -> Nat]]
  /\ outcome \in [MsgId -> Outcome]
  /\ webhooks \subseteq WebhookOwner
  /\ agreements \in Seq(Agreement)
  /\ penalties \in [Did -> Nat]
  /\ flagging \subseteq [id : MsgId, hold : HoldId]
  /\ day \in 0..LastDay
  /\ since \in [Reader -> Nat] /\ seen \in [Reader -> SUBSET Nat]

-----------------------------------------------------------------------------
(* The thread state machine (domain/message.ts).                           *)

(* Mutant: a COUNTER reopens an agreed thread.                             *)
NextStateCounters(s, type) ==
  CASE type = "REJECT" -> "CLOSED"
    [] type \in {"INQUIRY", "QUOTE_REQUEST"} /\ s = "OPEN" -> "QUOTING"
    [] type \in {"QUOTE", "OFFER"} /\ s \in {"OPEN", "QUOTING"} -> "OFFERED"
    [] type = "ACCEPT" /\ s = "OFFERED" -> "AGREED"
    [] type = "COUNTER" /\ s = "AGREED" -> "OFFERED"
    [] type \in {"STATUS", "RECEIPT_REF"} /\ s = "AGREED" -> "COMMITTED"
    [] type = "RECEIPT_REF" /\ s = "COMMITTED" -> "CLOSED"
    [] OTHER -> s

NextState(s, type) ==
  CASE type = "REJECT" -> "CLOSED"
    [] type \in {"INQUIRY", "QUOTE_REQUEST"} /\ s = "OPEN" -> "QUOTING"
    [] type \in {"QUOTE", "OFFER"} /\ s \in {"OPEN", "QUOTING"} -> "OFFERED"
    [] type = "ACCEPT" /\ s = "OFFERED" -> "AGREED"
    [] type \in {"STATUS", "RECEIPT_REF"} /\ s = "AGREED" -> "COMMITTED"
    [] type = "RECEIPT_REF" /\ s = "COMMITTED" -> "CLOSED"
    [] OTHER -> s

OpensThread(type) == type \in {"INQUIRY", "QUOTE_REQUEST", "QUOTE", "OFFER", "DELEGATE"}

(* A type that leaves the state as it is must be meant to.                 *)
LegalSelfTransition(s, type) == <<s, type>> \in {<<"OFFERED", "COUNTER">>, <<"COMMITTED", "STATUS">>}

Moves(s, type) == NextState(s, type) # s \/ LegalSelfTransition(s, type)

-----------------------------------------------------------------------------
(* What is stored under an id is the message stored last.                  *)
Cursors(id) == {i \in DOMAIN log : log[i].id = id}
Stored(id) == Cursors(id) # {}
MessageAt(id) == log[Max(Cursors(id))]

Store(m) == log' = Append(log, m)

(* inbox: the first `limit` messages to d after a cursor.                  *)
InboxPage(d, after, limit) ==
  LET unread == {i \in DOMAIN log : log[i].to = d /\ i > after}
  IN  {i \in unread : Cardinality({j \in unread : j <= i}) <= limit}

Page(d) == InboxPage(d, since[d], PageSize)

FreshHolds == {h \in HoldId : W!Fresh(h)}
FreshHold == CHOOSE h \in FreshHolds : TRUE

(* Mutant: the day's total is replaced, not added to.                      *)
RecordHoldOnce(d) == spent' = [spent EXCEPT ![d][day] = Postage]

RecordHold(d) == spent' = [spent EXCEPT ![d][day] = @ + Postage]

UnderCap(d) == spent[d][day] + Postage <= Cap[d]

(* resolveThread: where a message can go, <<opens, thread>>.  An opening    *)
(* message has a new thread, or one that it names; a reply is in the       *)
(* thread of its parent, None when there is no such parent.                *)
FreshThreads == {t \in Thread : thread[t] = NoThread}
NewThread == CHOOSE t \in FreshThreads : TRUE

Openings ==
  {TRUE} \X ((IF FreshThreads = {} THEN {} ELSE {NewThread})
             \cup (IF ReuseThread THEN Thread \ FreshThreads ELSE {}))
Replies == {FALSE} \X ({None} \cup {MessageAt(id).thread : id \in {i \in MsgId : Stored(i)}})

(* Mutant: a reply is judged as if it opened the thread.                   *)
StateBeforeOpen(m, opens) == "OPEN"

StateBefore(m, opens) == IF opens THEN "OPEN" ELSE thread[m.thread].state

Resolved(m, opens) ==
  IF opens
  THEN NextState("OPEN", m.type) # "OPEN" \/ OpensThread(m.type)
  ELSE /\ m.thread # None
       /\ thread[m.thread].state # "CLOSED"
       /\ Moves(thread[m.thread].state, m.type)

(* persistThreadState: the opener and the counterparty are those of the    *)
(* first message; a QUOTE becomes the negotiated quote.                    *)
ThreadAfter(m, opens) ==
  LET old == thread[m.thread]
      fresh == old = NoThread
  IN  [state        |-> NextState(StateBefore(m, opens), m.type),
       opener       |-> IF fresh THEN m.from ELSE old.opener,
       counterparty |-> IF fresh THEN m.to ELSE old.counterparty,
       quote        |-> IF m.type = "QUOTE" THEN m.quote
                        ELSE IF fresh THEN None ELSE old.quote]

(* deriveAgreedTerms reads the inbox of the ACCEPT's recipient, then that  *)
(* of its sender, for the first QUOTE with the id, in whichever thread and *)
(* from whomever.                                                          *)
QuotesTo(d, q) == {c \in InboxPage(d, 0, ScanLimit) : log[c].type = "QUOTE" /\ log[c].quote = q}

QuotesFound(m) == IF QuotesTo(m.to, m.quote) # {} THEN QuotesTo(m.to, m.quote)
                  ELSE QuotesTo(m.from, m.quote)

(* buildAgreement: the thread has a quote, and the ACCEPT names it.        *)
CanAgree(m) ==
  /\ thread[m.thread] # NoThread /\ thread[m.thread].quote # None
  /\ m.quote = thread[m.thread].quote
  /\ QuotesFound(m) # {}

(* Mutant: the QUOTE found last in the inbox gives the terms.              *)
LatestTerms(m) == log[Max(QuotesFound(m))].terms

AgreedTerms(m) == log[Min(QuotesFound(m))].terms

AgreementOf(m) ==
  [thread |-> m.thread, quote |-> thread[m.thread].quote, terms |-> AgreedTerms(m),
   requester |-> thread[m.thread].opener, provider |-> thread[m.thread].counterparty]

(* The sender is not revoked, and has a delegation that lets it send to    *)
(* the recipient without an approval.                                      *)
Authorised(d) == d \in Delegate

(* send: authorisation, the day's cap, the postage, the thread.  A refusal *)
(* before the hold changes nothing.  An ACCEPT that cannot agree throws    *)
(* when the message is stored and its thread advanced.                     *)
Charge(m) ==
  /\ Authorised(m.from)
  /\ UnderCap(m.from)
  /\ m.hold \in FreshHolds
  /\ RecordHold(m.from)

Deliver(m, opens) ==
  /\ Charge(m) /\ Resolved(m, opens)
  /\ Len(log) < MaxLog
  /\ W!PlaceHold(m.hold, m.from, Postage)
  /\ Store(m)
  /\ thread' = [thread EXCEPT ![m.thread] = ThreadAfter(m, opens)]
  /\ agreements' = IF m.type = "ACCEPT" /\ CanAgree(m)
                   THEN Append(agreements, AgreementOf(m)) ELSE agreements
  /\ UNCHANGED <<flagVars, webhooks, day, readerVars>>

(* refundHold: an illegal message gets its postage back, and has used up   *)
(* some of the day's allowance.                                            *)
Refuse(m, opens) ==
  /\ Charge(m) /\ ~Resolved(m, opens)
  /\ W!CanHold(m.from, Postage)
  /\ hold' = [hold EXCEPT ![m.hold] = [state |-> "released", did |-> m.from, amount |-> Postage]]
  /\ UNCHANGED <<available, held, external, log, thread, flagVars, webhooks, agreements, day, readerVars>>

-----------------------------------------------------------------------------
(* Flags: the recipient settles the postage of the message stored under    *)
(* the id, unless an outcome is recorded for the id.                       *)
PutOutcome(id, result) == outcome' = [outcome EXCEPT ![id] = result]

Flaggable(id) == Stored(id) /\ MessageAt(id).to \in Flagger /\ outcome[id] = "none"

FlagLegit(id) ==
  /\ Flaggable(id)
  /\ W!Release(MessageAt(id).hold)
  /\ PutOutcome(id, "released")
  /\ UNCHANGED <<log, thread, spent, webhooks, agreements, penalties, flagging, day, readerVars>>

(* Mutant: the penalty is signalled before the forfeit, which may throw.   *)
FlagSpamFirst(id) ==
  LET m == MessageAt(id)
  IN  /\ Flaggable(id)
      /\ IF W!Active(m.hold) THEN W!Forfeit(m.hold, m.to, Burn) ELSE UNCHANGED walletVars
      /\ penalties' = [penalties EXCEPT ![m.from] = @ + 1]
      /\ flagging' = flagging \cup {[id |-> id, hold |-> m.hold]}
      /\ UNCHANGED <<log, thread, spent, outcome, webhooks, agreements, day, readerVars>>

(* The signal is counted in the turn that forfeits; ingestSignal then      *)
(* awaits the signature of the snapshot.                                   *)
FlagSpam(id) ==
  LET m == MessageAt(id)
  IN  /\ Flaggable(id)
      /\ W!Forfeit(m.hold, m.to, Burn)
      /\ penalties' = [penalties EXCEPT ![m.from] = @ + 1]
      /\ flagging' = flagging \cup {[id |-> id, hold |-> m.hold]}
      /\ UNCHANGED <<log, thread, spent, outcome, webhooks, agreements, day, readerVars>>

RecordForfeit(f) ==
  /\ f \in flagging
  /\ PutOutcome(f.id, "forfeited")
  /\ flagging' = flagging \ {f}
  /\ UNCHANGED <<walletVars, log, thread, spent, penalties, webhooks, agreements, day, readerVars>>

-----------------------------------------------------------------------------
(* A poll, and the reader's cursor moved to next_cursor.                   *)
Poll(d) ==
  /\ Page(d) # {}
  /\ seen' = [seen EXCEPT ![d] = @ \cup Page(d)]
  /\ since' = [since EXCEPT ![d] = Max(Page(d))]
  /\ UNCHANGED <<walletVars, log, thread, spent, flagVars, webhooks, agreements, day>>

RegisterWebhook(d) ==
  /\ webhooks' = webhooks \cup {d}
  /\ UNCHANGED <<walletVars, log, thread, spent, flagVars, agreements, day, readerVars>>

NextDay ==
  /\ day < LastDay
  /\ day' = day + 1
  /\ UNCHANGED <<walletVars, log, thread, spent, flagVars, webhooks, agreements, readerVars>>

-----------------------------------------------------------------------------
(* The id a sender gives: a new one, or that of any earlier message (a      *)
(* retry with a fresh nonce, or the id of another's message: nothing is    *)
(* compared).                                                              *)
Ids == {id \in MsgId : Stored(id) \/ \A other \in MsgId : Stored(other) \/ id <= other}

Init ==
  /\ available = [d \in Did |-> Funds] /\ held = [d \in Did |-> 0]
  /\ hold = [h \in HoldId |-> W!NoHold] /\ external = -SumFunction(available)
  /\ log = <<>>
  /\ thread = [t \in Thread |-> NoThread]
  /\ spent = [d \in Did |-> [x \in 0..LastDay |-> 0]]
  /\ outcome = [id \in MsgId |-> "none"]
  /\ webhooks = {} /\ agreements = <<>>
  /\ penalties = [d \in Did |-> 0] /\ flagging = {}
  /\ day = 0
  /\ since = [d \in Reader |-> 0] /\ seen = [d \in Reader |-> {}]

(* A QUOTE carries a quote with its terms and an ACCEPT names one.         *)
QuotesOf(type) == CASE type = "QUOTE" -> Quote \X Terms
                    [] type = "ACCEPT" -> Quote \X {None}
                    [] OTHER -> {<<None, None>>}

Sending ==
  /\ FreshHolds # {}
  /\ \E from \in Did : \E to \in Peers[from], type \in Sends[from], at \in Openings \cup Replies :
       \E id \in Ids, q \in QuotesOf(type) :
         LET m == [id |-> id, from |-> from, to |-> to, type |-> type, thread |-> at[2],
                   quote |-> q[1], terms |-> q[2], hold |-> FreshHold]
         IN  Deliver(m, at[1]) \/ Refuse(m, at[1])

Flagging ==
  \/ \E id \in MsgId : FlagLegit(id) \/ FlagSpam(id)
  \/ \E f \in flagging : RecordForfeit(f)

Next ==
  \/ Sending
  \/ Flagging
  \/ \E d \in Reader : Poll(d)
  \/ \E d \in WebhookOwner : RegisterWebhook(d)
  \/ NextDay

Spec == Init /\ [][Next]_vars

-----------------------------------------------------------------------------
(* Properties.                                                             *)

(* The day's postage is what was held for it (service.ts:138-173): every   *)
(* hold is counted on the day of its message, refused messages included,   *)
(* and no day exceeds the cap of the delegation; and the variables have    *)
(* their types.                                                            *)
PostageMetered ==
  /\ TypeOK
  /\ \A d \in Did :
       /\ SumFunction(spent[d]) =
            Postage * Cardinality({h \in HoldId : ~W!Fresh(h) /\ hold[h].did = d})
       /\ \A x \in 0..LastDay : spent[d][x] <= Cap[d]

(* Flags answer for the money (service.ts:271-286): an outcome on record is*)
(* that of a hold of a message with the id, and a settled hold of a stored *)
(* message has its outcome on record or on its way there, whatever flags   *)
(* overlap the signature of a penalty and whichever messages are retried.  *)
OutcomeTold ==
  /\ \A id \in MsgId : outcome[id] # "none" =>
       \E i \in DOMAIN log : log[i].id = id /\ hold[log[i].hold].state = outcome[id]
  /\ \A i \in DOMAIN log : W!Active(log[i].hold) \/ outcome[log[i].id] # "none"
       \/ \E f \in flagging : f.id = log[i].id

(* One penalty for one forfeited postage (service.ts:281-286): a sender is *)
(* never penalised twice for a message, nor for one whose postage it kept. *)
PenaltyPerForfeit ==
  \A d \in Did :
    penalties[d] = Cardinality({h \in HoldId : hold[h].state = "forfeited" /\ hold[h].did = d})

(* What a flag says, the wallet did and reputation heard.                  *)
FlagsSettle == OutcomeTold /\ PenaltyPerForfeit

(* The wallets under the mail stay sound (wallet/service.ts:101-193): what *)
(* they hold is what active holds earmark, value is conserved, burns       *)
(* included, and a settled hold is never settled again.                    *)
WalletSound == [](W!HeldIsBacked /\ W!Conservation) /\ W!SettledIsFinal

(* Conversation state is a function of the messages (service.ts:175-178,   *)
(* message.ts:56-57): replaying a thread's messages in the order they were *)
(* stored gives the state on record.                                       *)
Replay(messages, t) ==
  LET state[n \in 0..Len(messages)] ==
        IF n = 0 THEN "OPEN"
        ELSE IF messages[n].thread # t THEN state[n - 1]
        ELSE NextState(state[n - 1], messages[n].type)
  IN  state[Len(messages)]

ThreadFollowsMessages ==
  \A t \in Thread : thread[t] # NoThread => thread[t].state = Replay(log, t)

(* An agreement binds what was quoted (service.ts:376-435): a thread hands *)
(* out at most one, for the last quote it carried, and never after it has  *)
(* closed without one.  Its terms are those of the first QUOTE that        *)
(* reached some agent under the id, whatever is quoted later; so they are  *)
(* the thread's own when no other QUOTE has the id.                        *)
QuotesIn(t) == {c \in DOMAIN log : log[c].thread = t /\ log[c].type = "QUOTE"}
FirstOffer(c) ==
  /\ log[c].type = "QUOTE"
  /\ \A b \in 1..c : (log[b].type = "QUOTE" /\ log[b].quote = log[c].quote
                        /\ log[b].to = log[c].to) => b = c

AgreementBinds ==
  \A i \in DOMAIN agreements :
    LET a == agreements[i]
    IN  /\ \A j \in DOMAIN agreements : agreements[j].thread = a.thread => j = i
        /\ QuotesIn(a.thread) # {} /\ log[Max(QuotesIn(a.thread))].quote = a.quote
        /\ thread[a.thread].state \in {"AGREED", "COMMITTED", "CLOSED"}
        /\ \E c \in DOMAIN log : /\ FirstOffer(c)
                                  /\ log[c].quote = a.quote /\ log[c].terms = a.terms

(* The terms of an agreement are those of its thread's QUOTE, as the       *)
(* comment at service.ts:389-390 says.  It does not hold: README,          *)
(* section 6.                                                              *)
AgreementTermsOfThread ==
  \A i \in DOMAIN agreements :
    agreements[i].terms = log[Max(QuotesIn(agreements[i].thread))].terms

(* A reader that polls from its cursor misses nothing (service.ts:221-231, *)
(* memory.ts:39-50): it has been given exactly the messages to it up to    *)
(* its cursor.                                                             *)
InboxComplete ==
  \A d \in Reader : seen[d] = {i \in DOMAIN log : log[i].to = d /\ i <= since[d]}

(* What the two sides see is what the stored messages say.                 *)
LogDecides == ThreadFollowsMessages /\ InboxComplete

(* The thread of an ACCEPT that was stored has its agreement               *)
(* (service.ts:201-207 and 373-375).  It does not hold: README, section 6. *)
AgreedMeansAgreement ==
  \A t \in Thread : thread[t] # NoThread /\ thread[t].state \in {"AGREED", "COMMITTED"} =>
    \E i \in DOMAIN agreements : agreements[i].thread = t
=============================================================================
