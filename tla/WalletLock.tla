----------------------------- MODULE WalletLock -----------------------------
(***************************************************************************)
(* WalletService (features/settlement/wallet/service.ts) await by await:   *)
(* each action below is the code between two awaits, and any other call    *)
(* may run at an await.  The critical sections are serialised per DID by   *)
(* withLock, a queue of promises: `tail[k]` is locks.get(k), and a call    *)
(* waits for the tails it found when it queued.                            *)
(*                                                                         *)
(* A hold placed by call c has id c (newHoldId is unique per call).        *)
(***************************************************************************)
EXTENDS Integers, FiniteSets, Functions

CONSTANTS
  Did,         \* wallet owners, also the lock keys (one currency)
  Call,        \* calls of the service, each made at most once
  Amount,      \* amounts a caller asks to move
  Seed,        \* bound: the most a DID has at the start
  NoCall       \* an absent promise

ASSUME LockAssumption ==
  /\ Amount \subseteq Nat \ {0}
  /\ Seed \in Nat
  /\ NoCall \notin Call

VARIABLES
  available, held, hold, external,   \* as in Wallet
  req,      \* [Call -> Request], the arguments of a call
  pc,       \* [Call -> Point], the await the call is suspended at
  keys,     \* [Call -> SUBSET Did], `ordered`
  prior,    \* [Call -> SUBSET Call], the promises in `prior`
  tail,     \* [Did -> Call \cup {NoCall}], `locks`
  ticket,   \* history: [Call -> Nat], when the call queued
  clock     \* history: the next ticket

rowVars == <<available, held, hold, external>>
lockVars == <<keys, prior, tail, ticket, clock>>
vars == <<rowVars, req, pc, lockVars>>

FundsOp == {"credit", "debit", "hold"}
SettleOp == {"release", "capture", "forfeit"}
Request == [op : FundsOp \cup SettleOp, did : Did, amount : Nat,
            h : Call, to : Did, burned : Nat]
NoRequest == [op |-> "none"]

(* "new": not called; "look": holds.get; "queued": prior; "in": the row is  *)
(* read; "credit": the recipient's row; "mark": the hold row; "exit": the   *)
(* last put; "left": the run promise has settled; "done"/"failed": returned *)
(* / rejected before queueing.                                             *)
Critical == {"in", "credit", "mark", "exit"}
Over == {"left", "done"}
Point == {"new", "look", "queued", "failed"} \cup Critical \cup Over

Queued(c) == pc[c] \in {"queued"} \cup Critical \cup Over
InProgress(c) == pc[c] \notin {"new", "done", "failed"}
Settling(c) == req[c].op \in SettleOp

W == INSTANCE Wallet WITH HoldId <- Call

Gain(c) == req[c].amount - req[c].burned

Goto(c, point) == pc' = [pc EXCEPT ![c] = point]

-----------------------------------------------------------------------------
(* withLock, up to its first await: read the tails, then become the tail.  *)

(* Mutant: become the tail, then read the tails.                           *)
EnqueueAfterPublish(c, ks) ==
  /\ Goto(c, "queued")
  /\ keys' = [keys EXCEPT ![c] = ks]
  /\ tail' = [k \in Did |-> IF k \in ks THEN c ELSE tail[k]]
  /\ prior' = [prior EXCEPT ![c] = {tail'[k] : k \in ks}]
  /\ ticket' = [ticket EXCEPT ![c] = clock]
  /\ clock' = clock + 1

Enqueue(c, ks) ==
  /\ Goto(c, "queued")
  /\ keys' = [keys EXCEPT ![c] = ks]
  /\ prior' = [prior EXCEPT ![c] = {tail[k] : k \in ks} \ {NoCall}]
  /\ tail' = [k \in Did |-> IF k \in ks THEN c ELSE tail[k]]
  /\ ticket' = [ticket EXCEPT ![c] = clock]
  /\ clock' = clock + 1

(* credit, debit and hold queue at once.                                   *)
CallFunds(c, op, d, a) ==
  /\ pc[c] = "new"
  /\ req' = [req EXCEPT ![c] = [op |-> op, did |-> d, amount |-> a,
                                h |-> c, to |-> d, burned |-> 0]]
  /\ Enqueue(c, {d})
  /\ UNCHANGED rowVars

(* release, capture and forfeit read the hold row first.  The id reaches a *)
(* caller only when the call that placed the hold has returned, and no     *)
(* caller settles one hold twice at once: the check before the lock would  *)
(* let both through.                                                       *)
CallSettle(c, op, h, to) ==
  /\ pc[c] = "new"
  /\ pc[h] = "done" /\ ~W!Fresh(h)
  /\ \A b \in Call : InProgress(b) /\ Settling(b) => req[b].h # h
  /\ \E burned \in 0..(IF op = "forfeit" THEN hold[h].amount ELSE 0) :
       req' = [req EXCEPT ![c] = [op |-> op, did |-> hold[h].did,
                                  amount |-> hold[h].amount,
                                  h |-> h, to |-> to, burned |-> burned]]
  /\ Goto(c, "look")
  /\ UNCHANGED <<rowVars, lockVars>>

SettleKeys(c) ==
  {req[c].did} \cup
  (IF \/ req[c].op = "capture"
      \/ req[c].op = "forfeit" /\ Gain(c) > 0
   THEN {req[c].to} ELSE {})

Look(c) ==
  /\ pc[c] = "look"
  /\ \/ /\ W!Active(req[c].h)
        /\ Enqueue(c, SettleKeys(c))
     \/ /\ ~W!Active(req[c].h)
        /\ Goto(c, "failed")
        /\ UNCHANGED lockVars
  /\ UNCHANGED <<rowVars, req>>

(* Mutant: the run is not chained onto the tails.                          *)
EnterAtOnce(c) ==
  /\ pc[c] = "queued"
  /\ Goto(c, "in")
  /\ UNCHANGED <<rowVars, req, lockVars>>

(* Every promise in `prior` has settled: fn runs, to its getOrCreate.      *)
Enter(c) ==
  /\ pc[c] = "queued"
  /\ \A b \in prior[c] : pc[b] \in Over
  /\ Goto(c, "in")
  /\ UNCHANGED <<rowVars, req, lockVars>>

-----------------------------------------------------------------------------
(* Inside the critical section.                                            *)

Credit(c) ==
  /\ pc[c] = "in" /\ req[c].op = "credit"
  /\ available' = [available EXCEPT ![req[c].did] = @ + req[c].amount]
  /\ external' = external - req[c].amount
  /\ Goto(c, "exit")
  /\ UNCHANGED <<held, hold, req, lockVars>>

(* Mutant: the balance is compared with <= swapped.                        *)
AffordableOneShort(c) == available[req[c].did] + 1 >= req[c].amount

Affordable(c) == available[req[c].did] >= req[c].amount

(* debit and hold throw PaymentRequired on a short balance.                *)
Refuse(c) ==
  /\ pc[c] = "in" /\ req[c].op \in {"debit", "hold"}
  /\ ~Affordable(c)
  /\ Goto(c, "exit")
  /\ UNCHANGED <<rowVars, req, lockVars>>

Debit(c) ==
  /\ pc[c] = "in" /\ req[c].op = "debit"
  /\ Affordable(c)
  /\ available' = [available EXCEPT ![req[c].did] = @ - req[c].amount]
  /\ external' = external + req[c].amount
  /\ Goto(c, "exit")
  /\ UNCHANGED <<held, hold, req, lockVars>>

Earmark(c) ==
  /\ pc[c] = "in" /\ req[c].op = "hold"
  /\ Affordable(c)
  /\ available' = [available EXCEPT ![req[c].did] = @ - req[c].amount]
  /\ held' = [held EXCEPT ![req[c].did] = @ + req[c].amount]
  /\ Goto(c, "mark")
  /\ UNCHANGED <<hold, external, req, lockVars>>

ReturnHeld(c) ==
  /\ pc[c] = "in" /\ req[c].op = "release"
  /\ held' = [held EXCEPT ![req[c].did] = @ - req[c].amount]
  /\ available' = [available EXCEPT ![req[c].did] = @ + req[c].amount]
  /\ Goto(c, "mark")
  /\ UNCHANGED <<hold, external, req, lockVars>>

(* capture and forfeit take the amount out of `held` first; a forfeit with *)
(* nothing left for the recipient skips the recipient's row.               *)
TakeHeld(c) ==
  /\ pc[c] = "in" /\ req[c].op \in {"capture", "forfeit"}
  /\ held' = [held EXCEPT ![req[c].did] = @ - req[c].amount]
  /\ external' = external + req[c].burned
  /\ Goto(c, IF Gain(c) > 0 THEN "credit" ELSE "mark")
  /\ UNCHANGED <<available, hold, req, lockVars>>

PayRecipient(c) ==
  /\ pc[c] = "credit"
  /\ available' = [available EXCEPT ![req[c].to] = @ + Gain(c)]
  /\ Goto(c, "mark")
  /\ UNCHANGED <<held, hold, external, req, lockVars>>

Outcome(op) == CASE op = "hold"    -> "active"
                 [] op = "release" -> "released"
                 [] op = "capture" -> "captured"
                 [] op = "forfeit" -> "forfeited"

MarkedRow(c) == [state |-> Outcome(req[c].op), did |-> req[c].did,
                 amount |-> req[c].amount]

(* The hold row: created by hold, its state assigned by the others.        *)
Mark(c) ==
  /\ pc[c] = "mark"
  /\ hold' = [hold EXCEPT ![req[c].h] = MarkedRow(c)]
  /\ Goto(c, "exit")
  /\ UNCHANGED <<available, held, external, req, lockVars>>

(* fn returned or threw: its promise settles and the waiters may run.      *)
Leave(c) ==
  /\ pc[c] = "exit"
  /\ Goto(c, "left")
  /\ UNCHANGED <<rowVars, req, lockVars>>

(* Mutant: the entry is never deleted.                                     *)
UnlockKeepsTail(c) ==
  /\ pc[c] = "left"
  /\ Goto(c, "done")
  /\ UNCHANGED <<rowVars, req, lockVars>>

(* Mutant: the entry is deleted whoever is the tail.                       *)
UnlockAnyTail(c) ==
  /\ pc[c] = "left"
  /\ tail' = [k \in Did |-> IF k \in keys[c] THEN NoCall ELSE tail[k]]
  /\ Goto(c, "done")
  /\ UNCHANGED <<rowVars, req, keys, prior, ticket, clock>>

(* The finally block: drop the entries this call is still the tail of.     *)
Unlock(c) ==
  /\ pc[c] = "left"
  /\ tail' = [k \in Did |-> IF k \in keys[c] /\ tail[k] = c THEN NoCall ELSE tail[k]]
  /\ Goto(c, "done")
  /\ UNCHANGED <<rowVars, req, keys, prior, ticket, clock>>

-----------------------------------------------------------------------------
Init ==
  /\ W!Init
  /\ req = [c \in Call |-> NoRequest]
  /\ pc = [c \in Call |-> "new"]
  /\ keys = [c \in Call |-> {}]
  /\ prior = [c \in Call |-> {}]
  /\ tail = [k \in Did |-> NoCall]
  /\ ticket = [c \in Call |-> 0]
  /\ clock = 1

Invoke(c) ==
  \/ \E op \in FundsOp, d \in Did, a \in Amount : CallFunds(c, op, d, a)
  \/ \E op \in SettleOp, h \in Call, to \in Did : CallSettle(c, op, h, to)

Continue(c) ==
  \/ Look(c) \/ Enter(c)
  \/ Credit(c) \/ Refuse(c) \/ Debit(c) \/ Earmark(c)
  \/ ReturnHeld(c) \/ TakeHeld(c) \/ PayRecipient(c) \/ Mark(c)
  \/ Leave(c) \/ Unlock(c)

Next == \E c \in Call : Invoke(c) \/ Continue(c)

(* The event loop resumes every settled await.                             *)
Fairness == \A c \in Call : WF_vars(Continue(c))

Spec == Init /\ [][Next]_vars /\ Fairness

-----------------------------------------------------------------------------
(* Refinement mapping onto Wallet: an operation takes effect with the first *)
(* change of a wallet row, and what its later awaits will still write is    *)
(* counted as written.                                                      *)

Owed(d) ==
  IF \E c \in Call : pc[c] = "credit" /\ req[c].to = d
  THEN Gain(CHOOSE c \in Call : pc[c] = "credit" /\ req[c].to = d)
  ELSE 0

Unmarked(h) == {c \in Call : pc[c] \in {"credit", "mark"} /\ req[c].h = h}

availableBar == [d \in Did |-> available[d] + Owed(d)]
holdBar == [h \in Call |->
              IF Unmarked(h) = {} THEN hold[h]
              ELSE MarkedRow(CHOOSE c \in Unmarked(h) : TRUE)]

Atomic == INSTANCE Wallet WITH HoldId <- Call, available <- availableBar,
                               hold <- holdBar

-----------------------------------------------------------------------------
(* Properties.                                                             *)

(* Shapes of the rows, the requests and the promise queue.                 *)
TypeOK ==
  /\ available \in [Did -> Int] /\ held \in [Did -> Int] /\ external \in Int
  /\ hold \in [Call -> W!Hold \cup {W!NoHold}]
  /\ req \in [Call -> Request \cup {NoRequest}]
  /\ pc \in [Call -> Point]
  /\ keys \in [Call -> SUBSET Did]
  /\ prior \in [Call -> SUBSET Call]
  /\ tail \in [Did -> Call \cup {NoCall}]
  /\ ticket \in [Call -> Nat] /\ clock \in Nat

(* The critical sections of a wallet run one at a time, in the order the   *)
(* calls queued: when a call is past the queue, every earlier call that    *)
(* shares a wallet with it is over (withLock, service.ts:52-67).           *)
SerialInOrder ==
  \A b, c \in Call :
    /\ Queued(b) /\ Queued(c) /\ ticket[b] < ticket[c]
    /\ keys[b] \cap keys[c] # {}
    /\ pc[c] # "queued"
    => pc[b] \in Over

(* The lock map holds what a next call must wait for, and nothing else     *)
(* (service.ts:62-66): an entry is the last call to have queued on the     *)
(* wallet, which has not returned; without one, every call that queued on  *)
(* it is past its critical section.  So the entries of returned calls are  *)
(* gone, and no call deletes the entry of a later one.                     *)
LocksDrain ==
  \A k \in Did :
    LET callsOn == {c \in Call : Queued(c) /\ k \in keys[c]}
    IN  IF tail[k] = NoCall
        THEN \A c \in callsOn : pc[c] \in Over
        ELSE /\ tail[k] \in callsOn /\ InProgress(tail[k])
             /\ \A c \in callsOn : ticket[c] <= ticket[tail[k]]

(* Every call returns or rejects: no order of two-wallet calls can make    *)
(* them wait for each other (service.ts:43-45).                            *)
EveryCallAnswers ==
  \A c \in Call : InProgress(c) ~> pc[c] \in {"done", "failed"}

(* As long as no two calls settle one hold at the same time, the service   *)
(* behaves as the atomic Wallet, to every caller, at every await.          *)
ImplementsWallet == Atomic!Spec
=============================================================================
