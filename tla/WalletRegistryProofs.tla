------------------------ MODULE WalletRegistryProofs ------------------------
(***************************************************************************)
(* What holds of the two services that serve overlapping calls, whatever   *)
(* the number of calls and the order of their steps.                       *)
(*                                                                         *)
(* WalletLock.  The wallet's lock is correct for any wallets and amounts:  *)
(* types, serial critical sections in queueing order, mutual exclusion,    *)
(* and a lock map that does not leak.  With it the service, await by       *)
(* await, implements the atomic Wallet.                                    *)
(*                                                                         *)
(* Registry.  A quote binds what its provider signed, and discovery is     *)
(* fair, for any listings, queries, weights and reputations.               *)
(***************************************************************************)
EXTENDS WalletLock, Registry, SetLemmas, SequenceTheorems, TLAPS

(* Requests are complete from the moment a call is made, and only the      *)
(* operations on a hold get to its row.                                    *)
RequestInv ==
  \A c \in Call :
    /\ pc[c] # "new" => req[c] \in Request
    /\ pc[c] \in {"credit", "mark"} => req[c].op \in SettleOp \cup {"hold"}

(* Tickets order the queued calls.                                         *)
TicketInv ==
  /\ \A c \in Call : Queued(c) => ticket[c] < clock
  /\ \A b, c \in Call :
       Queued(b) /\ Queued(c) /\ ticket[b] = ticket[c] => b = c

(* The tail of a wallet's queue is the last call that queued on it and has *)
(* not been cleaned up; without a tail, every call on the wallet is over.  *)
TailInv ==
  \A k \in Did :
    IF tail[k] = NoCall
    THEN \A c \in Call : Queued(c) /\ k \in keys[c] => pc[c] \in Over
    ELSE /\ Queued(tail[k]) /\ k \in keys[tail[k]] /\ pc[tail[k]] # "done"
         /\ \A c \in Call : Queued(c) /\ k \in keys[c] => ticket[c] <= ticket[tail[k]]

(* b is ahead of c on wallet k.                                            *)
Ahead(b, c, k) ==
  /\ Queued(b) /\ Queued(c)
  /\ k \in keys[b] \cap keys[c]
  /\ ticket[b] < ticket[c]

(* c waits for b itself or for a call that queued on k behind b.           *)
WaitsBehind(b, c, k) ==
  \/ b \in prior[c]
  \/ \E a \in prior[c] : Ahead(b, a, k)

(* A call ahead is over, or still waited for, directly or through a chain. *)
ChainInv ==
  \A b, c \in Call, k \in Did :
    Ahead(b, c, k) => \/ pc[b] \in Over
                      \/ pc[c] = "queued" /\ WaitsBehind(b, c, k)

(* What a call that queues, moves on or leaves must keep.                  *)
QueueInv == TicketInv /\ TailInv /\ ChainInv

LockInv == TypeOK /\ RequestInv /\ QueueInv

(* The steps that stay inside one critical section, up to its end.         *)
Advance(c) ==
  /\ pc[c] \in Critical
  /\ \E point \in Critical \cup {"left"} : Goto(c, point)
  /\ UNCHANGED <<req, lockVars>>

Work(c) ==
  \/ Credit(c) \/ Refuse(c) \/ Debit(c) \/ Earmark(c) \/ ReturnHeld(c)
  \/ TakeHeld(c) \/ PayRecipient(c) \/ Mark(c) \/ Leave(c)

(* A step of a call in progress.                                           *)
LEMMA WorkAdvances == ASSUME NEW c \in Call PROVE Work(c) => Advance(c)
  BY DEF Work, Advance, Credit, Refuse, Debit, Earmark, ReturnHeld, TakeHeld,
         PayRecipient, Mark, Leave, Goto, Critical

-----------------------------------------------------------------------------
(* Type correctness.                                                       *)

(* Nothing is queued at the start.                                         *)
LEMMA InitLockInv == Init => LockInv
  <1> SUFFICES ASSUME Init PROVE LockInv
    OBVIOUS
  <1>1. TypeOK
    <2>1. available \in [Did -> Int]
      BY LockAssumption DEF Init, W!Init
    <2>2. external \in Int
      BY DEF Init, W!Init
    <2> QED
      BY <2>1 DEF Init, W!Init, TypeOK, Point
  <1> QED
    BY <1>1 DEF Init, LockInv, QueueInv, RequestInv, TicketInv, TailInv, ChainInv, Ahead,
                Queued, Critical, Over

(* Queueing a call keeps the types.                                        *)
LEMMA EnqueueTypes ==
  ASSUME TypeOK, NEW c \in Call, NEW ks \in SUBSET Did, Enqueue(c, ks)
  PROVE  /\ pc' \in [Call -> Point]
         /\ keys' \in [Call -> SUBSET Did]
         /\ prior' \in [Call -> SUBSET Call]
         /\ tail' \in [Did -> Call \cup {NoCall}]
         /\ ticket' \in [Call -> Nat] /\ clock' \in Nat
  <1>1. pc' \in [Call -> Point]
    BY DEF Enqueue, Goto, TypeOK, Point
  <1>2. {tail[k] : k \in ks} \ {NoCall} \in SUBSET Call
    BY DEF TypeOK
  <1>3. prior' \in [Call -> SUBSET Call]
    BY <1>2 DEF Enqueue, TypeOK
  <1>4. tail' \in [Did -> Call \cup {NoCall}]
    BY DEF Enqueue, TypeOK
  <1> QED
    BY <1>1, <1>3, <1>4 DEF Enqueue, TypeOK

(* Every step keeps the types.                                             *)
LEMMA StepTypes ==
  ASSUME TypeOK, RequestInv, Next
  PROVE  TypeOK' /\ RequestInv'
  <1> USE LockAssumption
  <1> PICK c \in Call : Invoke(c) \/ Continue(c)
    BY DEF Next
  <1>1. ASSUME NEW op \in FundsOp, NEW d \in Did, NEW a \in Amount,
               CallFunds(c, op, d, a)
        PROVE  TypeOK' /\ RequestInv'
    <2> DEFINE r == [op |-> op, did |-> d, amount |-> a, h |-> c, to |-> d, burned |-> 0]
    <2>1. r \in Request
      BY <1>1 DEF Request
    <2>2. req' = [req EXCEPT ![c] = r]
      BY <1>1 DEF CallFunds
    <2>3. Enqueue(c, {d}) /\ UNCHANGED rowVars
      BY <1>1 DEF CallFunds
    <2>4. TypeOK'
      BY <2>1, <2>2, <2>3, EnqueueTypes DEF TypeOK, rowVars
    <2>5. RequestInv'
      BY <2>1, <2>2, <2>3 DEF RequestInv, TypeOK, Enqueue, Goto
    <2> QED
      BY <2>4, <2>5
  <1>2. ASSUME NEW op \in SettleOp, NEW h \in Call, NEW to \in Did, CallSettle(c, op, h, to)
        PROVE  TypeOK' /\ RequestInv'
    <2> PICK burned \in 0..(IF op = "forfeit" THEN hold[h].amount ELSE 0) :
          req' = [req EXCEPT ![c] = [op |-> op, did |-> hold[h].did, amount |-> hold[h].amount,
                                     h |-> h, to |-> to, burned |-> burned]]
      BY <1>2 DEF CallSettle
    <2> DEFINE r == [op |-> op, did |-> hold[h].did, amount |-> hold[h].amount,
                     h |-> h, to |-> to, burned |-> burned]
    <2>1. hold[h] \in W!Hold /\ burned \in Nat
      BY <1>2 DEF CallSettle, TypeOK, W!Fresh, W!Hold
    <2>2. r \in Request
      BY <1>2, <2>1 DEF Request, W!Hold
    <2>3. req' = [req EXCEPT ![c] = r] /\ Goto(c, "look") /\ UNCHANGED <<rowVars, lockVars>>
      BY <1>2 DEF CallSettle
    <2> QED
      BY <2>2, <2>3 DEF TypeOK, RequestInv, Goto, rowVars, lockVars, Point
  <1>3. CASE Look(c)
    <2>1. req[c] \in Request
      BY <1>3 DEF Look, RequestInv
    <2>2. SettleKeys(c) \in SUBSET Did
      BY <2>1 DEF SettleKeys, Request
    <2>3. CASE Enqueue(c, SettleKeys(c))
      <3>1. UNCHANGED <<rowVars, req>>
        BY <1>3 DEF Look
      <3>2. TypeOK'
        BY <2>2, <2>3, <3>1, EnqueueTypes DEF TypeOK, rowVars
      <3>3. RequestInv'
        BY <2>1, <2>3, <3>1 DEF RequestInv, TypeOK, Enqueue, Goto
      <3> QED
        BY <3>2, <3>3
    <2>4. CASE Goto(c, "failed") /\ UNCHANGED lockVars
      BY <1>3, <2>1, <2>4 DEF Look, TypeOK, RequestInv, Goto, rowVars, lockVars, Point
    <2> QED
      BY <1>3, <2>3, <2>4 DEF Look
  <1>4. CASE Enter(c)
    BY <1>4 DEF Enter, TypeOK, RequestInv, Goto, rowVars, lockVars, Point, Critical
  <1>5. CASE Work(c)
    <2>1. req[c] \in Request
      BY <1>5, WorkAdvances DEF Advance, RequestInv, Critical
    <2>2. Gain(c) \in Int /\ req[c].amount \in Nat /\ req[c].burned \in Nat
      BY <2>1 DEF Gain, Request
    <2>3. /\ available' \in [Did -> Int] /\ held' \in [Did -> Int] /\ external' \in Int
      BY <1>5, <2>1, <2>2 DEF Work, Credit, Refuse, Debit, Earmark, ReturnHeld, TakeHeld,
            PayRecipient, Mark, Leave, TypeOK, rowVars
    <2>4. hold' \in [Call -> W!Hold \cup {W!NoHold}]
      <3>1. CASE Mark(c)
        <4>1. Outcome(req[c].op) \in W!HoldState
          <5>1. req[c].op \in {"hold", "release", "capture", "forfeit"}
            BY <3>1 DEF Mark, RequestInv, SettleOp
          <5> QED
            BY <5>1 DEF Outcome, W!HoldState, W!Settled
        <4>2. MarkedRow(c) \in W!Hold
          BY <2>1, <2>2, <4>1 DEF MarkedRow, W!Hold, Request
        <4> QED
          BY <3>1, <4>2 DEF Mark, TypeOK
      <3>2. CASE ~Mark(c)
        BY <1>5, <3>2 DEF Work, Credit, Refuse, Debit, Earmark, ReturnHeld, TakeHeld,
              PayRecipient, Leave, TypeOK, rowVars
      <3> QED
        BY <3>1, <3>2
    <2>5. /\ pc' \in [Call -> Point]
          /\ UNCHANGED <<req, lockVars>>
      BY <1>5, WorkAdvances DEF Advance, Goto, TypeOK, Point, Critical, Over
    <2>6. TypeOK'
      BY <2>3, <2>4, <2>5 DEF TypeOK, lockVars
    <2>7. pc'[c] \in {"credit", "mark"} => req[c].op \in SettleOp \cup {"hold"}
      BY <1>5, <2>1 DEF Work, Credit, Refuse, Debit, Earmark, ReturnHeld, TakeHeld,
            PayRecipient, Mark, Leave, Goto, TypeOK, RequestInv, SettleOp
    <2>8. RequestInv'
      BY <1>5, <2>1, <2>5, <2>7, WorkAdvances DEF Advance, RequestInv, Goto, TypeOK
    <2> QED
      BY <2>6, <2>8
  <1>6. CASE Unlock(c)
    BY <1>6 DEF Unlock, TypeOK, RequestInv, Goto, rowVars, Point, Over
  <1> QED
    BY <1>1, <1>2, <1>3, <1>4, <1>5, <1>6 DEF Invoke, Continue, Work

-----------------------------------------------------------------------------
(* The queue.                                                              *)

(* A call that queues becomes the last on each of its wallets, behind the  *)
(* tails it waits for.                                                     *)
LEMMA EnqueueQueueInv ==
  ASSUME TypeOK, QueueInv, NEW c \in Call, NEW ks \in SUBSET Did,
         ~Queued(c), Enqueue(c, ks)
  PROVE  QueueInv'
  <1> USE LockAssumption
  <1>1. /\ pc' = [pc EXCEPT ![c] = "queued"]
        /\ keys'[c] = ks /\ ticket'[c] = clock /\ clock' = clock + 1
        /\ prior'[c] = {tail[k] : k \in ks} \ {NoCall}
        /\ \A b \in Call \ {c} : /\ pc'[b] = pc[b] /\ keys'[b] = keys[b]
                                 /\ prior'[b] = prior[b] /\ ticket'[b] = ticket[b]
        /\ \A k \in Did : tail'[k] = IF k \in ks THEN c ELSE tail[k]
    BY DEF Enqueue, Goto, TypeOK
  <1>2. /\ Queued(c)'
        /\ \A b \in Call \ {c} : Queued(b)' <=> Queued(b)
    BY <1>1 DEF Queued, TypeOK
  <1>3. clock \in Nat /\ \A b \in Call : ticket[b] \in Nat
    BY DEF TypeOK
  <1>4. \A b \in Call : Queued(b) => ticket[b] < clock
    BY DEF QueueInv, TicketInv
  <1>5. TicketInv'
    BY <1>1, <1>2, <1>3, <1>4 DEF QueueInv, TicketInv
  <1>6. TailInv'
    <2> SUFFICES ASSUME NEW k \in Did
                 PROVE  IF tail'[k] = NoCall
                        THEN \A b \in Call : Queued(b)' /\ k \in keys'[b] => pc'[b] \in Over
                        ELSE /\ Queued(tail[k])' /\ k \in keys'[tail'[k]] /\ pc'[tail'[k]] # "done"
                             /\ \A b \in Call : Queued(b)' /\ k \in keys'[b]
                                                  => ticket'[b] <= ticket'[tail'[k]]
      BY DEF TailInv
    <2>1. CASE k \in ks
      <3>1. tail'[k] = c /\ c # NoCall
        BY <1>1, <2>1
      <3>2. pc'[c] = "queued"
        BY <1>1 DEF TypeOK
      <3> QED
        BY <1>1, <1>2, <1>3, <1>4, <2>1, <3>1, <3>2 DEF Queued
    <2>2. CASE k \notin ks
      <3>1. tail'[k] = tail[k]
        BY <1>1, <2>2
      <3>2. CASE tail[k] = NoCall
        BY <1>1, <1>2, <2>2, <3>1, <3>2 DEF QueueInv, TailInv
      <3>3. CASE tail[k] # NoCall
        <4>1. tail[k] \in Call \ {c}
          BY <3>3 DEF QueueInv, TailInv, TypeOK
        <4>2. Queued(tail[k])' <=> Queued(tail[k])
          BY <1>2, <3>1, <4>1 DEF Queued
        <4> QED
          BY <1>1, <1>2, <2>2, <3>1, <3>3, <4>1, <4>2 DEF QueueInv, TailInv
      <3> QED
        BY <3>2, <3>3
    <2> QED
      BY <2>1, <2>2
  <1>7. ChainInv'
    <2> SUFFICES ASSUME NEW a \in Call, NEW b \in Call, NEW k \in Did, Ahead(a, b, k)'
                 PROVE  \/ pc'[a] \in Over
                        \/ pc'[b] = "queued" /\ WaitsBehind(a, b, k)'
      BY DEF ChainInv
    <2>1. a # c
      BY <1>1, <1>2, <1>3, <1>4 DEF Ahead
    <2>2. CASE b = c
      <3>1. k \in ks /\ Queued(a) /\ k \in keys[a]
        BY <1>1, <1>2, <2>1, <2>2 DEF Ahead
      <3>2. CASE tail[k] = NoCall
        BY <1>1, <2>1, <3>1, <3>2 DEF QueueInv, TailInv
      <3>3. CASE tail[k] # NoCall
        <4>1. /\ tail[k] \in Call \ {c} /\ tail[k] \in prior'[c]
              /\ Queued(tail[k]) /\ k \in keys[tail[k]] /\ ticket[a] <= ticket[tail[k]]
          BY <1>1, <3>1, <3>3 DEF QueueInv, TailInv, TypeOK
        <4>2. pc'[c] = "queued"
          BY <1>1 DEF TypeOK
        <4>3. CASE a = tail[k]
          BY <2>2, <4>1, <4>2, <4>3 DEF WaitsBehind
        <4>4. CASE a # tail[k]
          <5>1. ticket[a] < ticket[tail[k]]
            BY <1>3, <3>1, <4>1, <4>4 DEF QueueInv, TicketInv
          <5>2. Ahead(a, tail[k], k)
            BY <3>1, <4>1, <5>1 DEF Ahead
          <5>3. PICK t \in Call \ {c} : t = tail[k]
            BY <4>1
          <5>4. Ahead(a, t, k) /\ t \in prior'[c]
            BY <4>1, <5>2, <5>3
          <5>5. Ahead(a, t, k)'
            BY <1>1, <1>2, <2>1, <5>4 DEF Ahead
          <5> QED
            BY <2>2, <4>2, <5>4, <5>5 DEF WaitsBehind
        <4> QED
          BY <4>3, <4>4
      <3> QED
        BY <3>2, <3>3
    <2>3. CASE b # c
      <3>1. Ahead(a, b, k)
        BY <1>1, <1>2, <2>1, <2>3 DEF Ahead
      <3>2. CASE pc[a] \in Over
        BY <1>1, <2>1, <3>2
      <3>3. CASE pc[b] = "queued" /\ WaitsBehind(a, b, k)
        <4>1. pc'[b] = "queued" /\ prior'[b] = prior[b]
          BY <1>1, <2>3, <3>3
        <4>2. ASSUME NEW x \in prior[b], Ahead(a, x, k)
              PROVE  Ahead(a, x, k)'
          <5>1. x \in Call \ {c}
            BY <4>2 DEF TypeOK, Ahead
          <5> QED
            BY <1>1, <1>2, <2>1, <4>2, <5>1 DEF Ahead
        <4> QED
          BY <3>3, <4>1, <4>2 DEF WaitsBehind
      <3> QED
        BY <3>1, <3>2, <3>3 DEF QueueInv, ChainInv
    <2> QED
      BY <2>2, <2>3
  <1> QED
    BY <1>5, <1>6, <1>7 DEF QueueInv

(* A step that leaves the lock alone and moves one call, neither into nor  *)
(* out of the queue, not out of the calls that are over, and past the      *)
(* queue only when all it waits for is over.                               *)
LEMMA MoveQueueInv ==
  ASSUME TypeOK, QueueInv, NEW c \in Call, NEW point \in Point,
         Goto(c, point), UNCHANGED lockVars,
         Queued(c)' <=> Queued(c),
         pc[c] \notin Over, point # "done",
         pc[c] = "queued" => \A b \in prior[c] : pc[b] \in Over
  PROVE  QueueInv'
  <1>1. /\ pc'[c] = point
        /\ \A b \in Call \ {c} : pc'[b] = pc[b]
        /\ UNCHANGED <<keys, prior, tail, ticket, clock>>
    BY DEF Goto, TypeOK, lockVars
  <1>2. \A b \in Call : Queued(b)' <=> Queued(b)
    BY <1>1 DEF Queued
  <1>3. \A b \in Call : pc[b] \in Over => pc'[b] \in Over
    BY <1>1
  <1>4. TicketInv'
    BY <1>1, <1>2 DEF QueueInv, TicketInv
  <1>5. TailInv'
    <2> SUFFICES ASSUME NEW k \in Did
                 PROVE  IF tail[k] = NoCall
                        THEN \A b \in Call : Queued(b)' /\ k \in keys[b] => pc'[b] \in Over
                        ELSE /\ Queued(tail[k])' /\ k \in keys[tail[k]] /\ pc'[tail[k]] # "done"
                             /\ \A b \in Call : Queued(b)' /\ k \in keys[b]
                                                  => ticket[b] <= ticket[tail[k]]
      BY <1>1 DEF TailInv
    <2>1. CASE tail[k] = NoCall
      BY <1>2, <1>3, <2>1 DEF QueueInv, TailInv
    <2>2. CASE tail[k] # NoCall
      <3>1. tail[k] \in Call
        BY <2>2 DEF TypeOK
      <3>2. Queued(tail[k])' <=> Queued(tail[k])
        BY <1>1, <1>2, <3>1 DEF Queued
      <3> QED
        BY <1>1, <1>2, <2>2, <3>1, <3>2 DEF QueueInv, TailInv
    <2> QED
      BY <2>1, <2>2
  <1>6. ChainInv'
    <2> SUFFICES ASSUME NEW a \in Call, NEW b \in Call, NEW k \in Did, Ahead(a, b, k)'
                 PROVE  \/ pc'[a] \in Over
                        \/ pc'[b] = "queued" /\ WaitsBehind(a, b, k)'
      BY DEF ChainInv
    <2>1. \A x \in Call : Ahead(a, x, k)' <=> Ahead(a, x, k)
      BY <1>1, <1>2 DEF Ahead
    <2>2. WaitsBehind(a, b, k) => WaitsBehind(a, b, k)'
      BY <1>1, <2>1 DEF WaitsBehind, TypeOK
    <2>3. pc[a] \in Over \/ (pc[b] = "queued" /\ WaitsBehind(a, b, k))
      BY <2>1 DEF QueueInv, ChainInv
    <2>4. CASE pc[a] \notin Over /\ b = c
      <3>1. pc[c] = "queued" /\ WaitsBehind(a, c, k)
        BY <2>3, <2>4
      <3>2. a \notin prior[c]
        BY <2>4, <3>1
      <3>3. PICK x \in prior[c] : Ahead(a, x, k)
        BY <3>1, <3>2 DEF WaitsBehind
      <3>4. x \in Call /\ pc[x] \in Over
        BY <3>1, <3>3 DEF TypeOK
      <3>5. pc[x] # "queued"
        BY <3>4 DEF Over
      <3>6. pc[a] \in Over
        BY <3>3, <3>4, <3>5 DEF QueueInv, ChainInv
      <3> QED
        BY <2>4, <3>6
    <2>5. CASE pc[a] \in Over
      BY <1>3, <2>5
    <2>6. CASE pc[a] \notin Over /\ b # c
      BY <1>1, <2>2, <2>3, <2>6
    <2> QED
      BY <2>4, <2>5, <2>6
  <1> QED
    BY <1>4, <1>5, <1>6 DEF QueueInv

(* Dropping the entries a call is still the tail of: every call on those   *)
(* wallets is over by then.                                                *)
LEMMA UnlockQueueInv ==
  ASSUME TypeOK, QueueInv, NEW c \in Call, Unlock(c)
  PROVE  QueueInv'
  <1>1. /\ pc[c] = "left" /\ pc'[c] = "done"
        /\ \A b \in Call \ {c} : pc'[b] = pc[b]
        /\ \A k \in Did : tail'[k] = IF k \in keys[c] /\ tail[k] = c THEN NoCall ELSE tail[k]
        /\ UNCHANGED <<keys, prior, ticket, clock>>
    BY DEF Unlock, Goto, TypeOK
  <1>2. \A b \in Call : /\ Queued(b)' <=> Queued(b)
                        /\ pc[b] \in Over <=> pc'[b] \in Over
                        /\ pc[b] = "queued" <=> pc'[b] = "queued"
    BY <1>1 DEF Queued, Over
  <1>3. TicketInv'
    BY <1>1, <1>2 DEF QueueInv, TicketInv
  <1>4. TailInv'
    <2> SUFFICES ASSUME NEW k \in Did
                 PROVE  IF tail'[k] = NoCall
                        THEN \A b \in Call : Queued(b)' /\ k \in keys[b] => pc'[b] \in Over
                        ELSE /\ Queued(tail[k])' /\ k \in keys[tail'[k]] /\ pc'[tail'[k]] # "done"
                             /\ \A b \in Call : Queued(b)' /\ k \in keys[b]
                                                  => ticket[b] <= ticket[tail'[k]]
      BY <1>1 DEF TailInv
    <2>1. CASE tail[k] = c
      <3>1. c # NoCall
        BY LockAssumption
      <3>2. Queued(c) /\ k \in keys[c]
            /\ \A b \in Call : Queued(b) /\ k \in keys[b] => ticket[b] <= ticket[c]
        BY <2>1, <3>1 DEF QueueInv, TailInv
      <3>3. tail'[k] = NoCall
        BY <1>1, <2>1, <3>2
      <3>4. ASSUME NEW b \in Call, Queued(b), k \in keys[b] PROVE pc[b] \in Over
        <4>1. CASE b = c
          BY <1>1, <4>1 DEF Over
        <4>2. CASE b # c
          <5>1. ticket[b] < ticket[c]
            BY <3>2, <3>4, <4>2 DEF QueueInv, TicketInv, TypeOK
          <5>2. Ahead(b, c, k)
            BY <3>2, <3>4, <5>1 DEF Ahead
          <5> QED
            BY <1>1, <5>2 DEF QueueInv, ChainInv
        <4> QED
          BY <4>1, <4>2
      <3> QED
        BY <1>2, <3>3, <3>4
    <2>2. CASE tail[k] # c
      <3>1. tail'[k] = tail[k]
        BY <1>1, <2>2
      <3>2. CASE tail[k] = NoCall
        BY <1>2, <3>1, <3>2 DEF QueueInv, TailInv
      <3>3. CASE tail[k] # NoCall
        <4>1. tail[k] \in Call \ {c}
          BY <2>2, <3>3 DEF TypeOK
        <4>2. Queued(tail[k])' <=> Queued(tail[k])
          BY <1>1, <3>1, <4>1 DEF Queued
        <4> QED
          BY <1>1, <1>2, <3>1, <3>3, <4>1, <4>2 DEF QueueInv, TailInv
      <3> QED
        BY <3>2, <3>3
    <2> QED
      BY <2>1, <2>2
  <1>5. ChainInv'
    <2> SUFFICES ASSUME NEW a \in Call, NEW b \in Call, NEW k \in Did, Ahead(a, b, k)'
                 PROVE  \/ pc'[a] \in Over
                        \/ pc'[b] = "queued" /\ WaitsBehind(a, b, k)'
      BY DEF ChainInv
    <2>1. \A x \in Call : Ahead(a, x, k)' <=> Ahead(a, x, k)
      BY <1>1, <1>2 DEF Ahead
    <2>2. WaitsBehind(a, b, k) => WaitsBehind(a, b, k)'
      BY <1>1, <2>1 DEF WaitsBehind, TypeOK
    <2> QED
      BY <1>2, <2>1, <2>2 DEF QueueInv, ChainInv
  <1> QED
    BY <1>3, <1>4, <1>5 DEF QueueInv

(* Every step keeps the queues in order.                                   *)
LEMMA StepQueue ==
  ASSUME TypeOK, RequestInv, QueueInv, Next
  PROVE  QueueInv'
  <1> PICK c \in Call : Invoke(c) \/ Continue(c)
    BY DEF Next
  <1>1. ASSUME NEW op \in FundsOp, NEW d \in Did, NEW a \in Amount,
               CallFunds(c, op, d, a)
        PROVE  QueueInv'
    <2>1. ~Queued(c) /\ Enqueue(c, {d})
      BY <1>1 DEF CallFunds, Queued, Critical, Over
    <2> QED
      BY <2>1, EnqueueQueueInv
  <1>2. ASSUME NEW op \in SettleOp, NEW h \in Call, NEW to \in Did, CallSettle(c, op, h, to)
        PROVE  QueueInv'
    <2>1. pc[c] = "new" /\ Goto(c, "look") /\ UNCHANGED lockVars
      BY <1>2 DEF CallSettle
    <2>2. ~Queued(c) /\ ~Queued(c)'
      BY <2>1 DEF Goto, TypeOK, Queued, Critical, Over
    <2> QED
      BY <2>1, <2>2, MoveQueueInv DEF Point, Over
  <1>3. CASE Look(c)
    <2>1. ~Queued(c) /\ pc[c] = "look"
      BY <1>3 DEF Look, Queued, Critical, Over
    <2>2. CASE Enqueue(c, SettleKeys(c))
      <3>1. SettleKeys(c) \in SUBSET Did
        BY <2>1 DEF SettleKeys, RequestInv, Request
      <3> QED
        BY <2>1, <2>2, <3>1, EnqueueQueueInv
    <2>3. CASE Goto(c, "failed") /\ UNCHANGED lockVars
      <3>1. ~Queued(c)'
        BY <2>3 DEF Goto, TypeOK, Queued, Critical, Over
      <3> QED
        BY <2>1, <2>3, <3>1, MoveQueueInv DEF Point, Over
    <2> QED
      BY <1>3, <2>2, <2>3 DEF Look
  <1>4. CASE Enter(c)
    <2>1. /\ pc[c] = "queued" /\ Goto(c, "in") /\ UNCHANGED lockVars
          /\ \A b \in prior[c] : pc[b] \in Over
      BY <1>4 DEF Enter
    <2>2. Queued(c) /\ Queued(c)'
      BY <2>1 DEF Goto, TypeOK, Queued, Critical
    <2> QED
      BY <2>1, <2>2, MoveQueueInv DEF Point, Critical, Over
  <1>5. CASE Work(c)
    <2>1. Advance(c)
      BY <1>5, WorkAdvances
    <2>2. PICK point \in Critical \cup {"left"} : Goto(c, point)
      BY <2>1 DEF Advance
    <2>3. pc[c] \in Critical /\ UNCHANGED lockVars
      BY <2>1 DEF Advance
    <2>4. Queued(c) /\ Queued(c)'
      BY <2>2, <2>3 DEF Goto, TypeOK, Queued, Over
    <2> QED
      BY <2>2, <2>3, <2>4, MoveQueueInv DEF Point, Critical, Over
  <1>6. CASE Unlock(c)
    BY <1>6, UnlockQueueInv
  <1> QED
    BY <1>1, <1>2, <1>3, <1>4, <1>5, <1>6 DEF Invoke, Continue, Work

(* Every step keeps the invariant.                                         *)
LEMMA StepLockInv == LockInv /\ [Next]_vars => LockInv'
  <1>1. ASSUME LockInv, Next PROVE LockInv'
    BY <1>1, StepTypes, StepQueue DEF LockInv
  <1>2. ASSUME LockInv, UNCHANGED vars PROVE LockInv'
    BY <1>2 DEF vars, rowVars, lockVars, LockInv, TypeOK, RequestInv, QueueInv, TicketInv,
                TailInv, ChainInv, Ahead, WaitsBehind, Queued
  <1> QED
    BY <1>1, <1>2

(* The inductive invariant of the lock (wallet/service.ts:52-67).          *)
LEMMA LockInvariant == Spec => []LockInv
  BY InitLockInv, StepLockInv, PTL DEF Spec

-----------------------------------------------------------------------------
(* Rows, requests and the promise queue always have their shapes.          *)
THEOREM TypesCorrect == Spec => []TypeOK
  <1>1. LockInv => TypeOK
    BY DEF LockInv
  <1> QED
    BY <1>1, LockInvariant, PTL

(* The critical sections of a wallet run in queueing order, whatever the   *)
(* number of concurrent calls and the wallets each of them locks.          *)
THEOREM LockSerialises == Spec => []SerialInOrder
  <1>1. LockInv => SerialInOrder
    <2> SUFFICES ASSUME LockInv, NEW b \in Call, NEW c \in Call,
                        Queued(b), Queued(c), ticket[b] < ticket[c], pc[c] # "queued",
                        NEW k \in keys[b] \cap keys[c]
                 PROVE  pc[b] \in Over
      BY DEF SerialInOrder
    <2>1. k \in Did /\ Ahead(b, c, k)
      BY DEF LockInv, TypeOK, Ahead
    <2> QED
      BY <2>1 DEF LockInv, QueueInv, ChainInv
  <1> QED
    BY <1>1, LockInvariant, PTL

(* Two calls inside their critical sections share no wallet.               *)
Exclusive ==
  \A b, c \in Call :
    b # c /\ pc[b] \in Critical /\ pc[c] \in Critical => keys[b] \cap keys[c] = {}

(* Two calls in their critical sections have no wallet in common.          *)
LEMMA InvariantExcludes == LockInv => Exclusive
  <1> SUFFICES ASSUME LockInv, NEW b \in Call, NEW c \in Call, b # c,
                      pc[b] \in Critical, pc[c] \in Critical,
                      NEW k \in Did, k \in keys[b] \cap keys[c]
               PROVE  FALSE
    BY DEF Exclusive, LockInv, TypeOK
  <1>1. Queued(b) /\ Queued(c)
    BY DEF Queued
  <1>2. ~Ahead(b, c, k) /\ ~Ahead(c, b, k)
    BY DEF LockInv, QueueInv, ChainInv, Critical, Over
  <1>3. ticket[b] = ticket[c]
    BY <1>1, <1>2 DEF Ahead, LockInv, TypeOK
  <1> QED
    BY <1>1, <1>3 DEF LockInv, QueueInv, TicketInv

(* Mutual exclusion: no two read-modify-write sequences on a wallet row    *)
(* interleave, so no update of a balance is lost.                          *)
THEOREM LockExcludes == Spec => []Exclusive
  BY InvariantExcludes, LockInvariant, PTL

(* An entry of the lock map is the last call to have queued on its wallet, *)
(* and has not returned; a wallet without one has no call short of the end *)
(* of its critical section (service.ts:62-66).                             *)
THEOREM LockMapDrains == Spec => []LocksDrain
  <1>1. LockInv => LocksDrain
    <2> SUFFICES ASSUME LockInv, NEW k \in Did
                 PROVE  IF tail[k] = NoCall
                        THEN \A c \in Call : Queued(c) /\ k \in keys[c] => pc[c] \in Over
                        ELSE /\ tail[k] \in Call /\ Queued(tail[k]) /\ k \in keys[tail[k]]
                             /\ InProgress(tail[k])
                             /\ \A c \in Call : Queued(c) /\ k \in keys[c]
                                                  => ticket[c] <= ticket[tail[k]]
      BY DEF LocksDrain
    <2>1. tail[k] # NoCall => tail[k] \in Call
      BY DEF LockInv, TypeOK
    <2>2. Queued(tail[k]) /\ pc[tail[k]] # "done" => InProgress(tail[k])
      BY DEF InProgress, Queued, Critical, Over
    <2> QED
      BY <2>1, <2>2 DEF LockInv, QueueInv, TailInv
  <1> QED
    BY <1>1, LockInvariant, PTL

-----------------------------------------------------------------------------
(* The service as the atomic wallet.                                       *)

(* The wallets a call locks.                                               *)
CallKeys(c) == IF Settling(c) THEN SettleKeys(c) ELSE {req[c].did}

(* The arguments of a call fit its operation, and it holds the locks its   *)
(* steps rely on.                                                          *)
ArgumentsFit(c) ==
  /\ pc[c] # "new" /\ ~Settling(c) =>
       req[c].h = c /\ req[c].amount \in Amount /\ req[c].burned = 0
  /\ pc[c] # "new" /\ Settling(c) =>
       req[c].burned \in 0..(IF req[c].op = "forfeit" THEN req[c].amount ELSE 0)
  /\ pc[c] = "look" => Settling(c)
  /\ pc[c] \in {"queued"} \cup Critical => keys[c] = CallKeys(c)
  /\ pc[c] = "credit" => req[c].op \in {"capture", "forfeit"} /\ Gain(c) > 0

(* A hold row exists from the last step of the call that placed it.        *)
RowPlaced(h) ==
  ~W!Fresh(h) =>
    pc[h] \in {"exit", "left", "done"} /\ req[h].op = "hold" /\ hold[h].amount > 0

(* A call that settles a hold is the only one, knows the row, and finds it *)
(* active until it marks it.                                               *)
SettlesAlone(c) ==
  Settling(c) /\ InProgress(c) =>
    /\ pc[req[c].h] = "done" /\ ~W!Fresh(req[c].h)
    /\ req[c].did = hold[req[c].h].did /\ req[c].amount = hold[req[c].h].amount
    /\ pc[c] \in {"queued", "in", "credit", "mark"} => W!Active(req[c].h)
    /\ \A b \in Call : b # c /\ Settling(b) /\ InProgress(b) => req[b].h # req[c].h

CallInv == \A c \in Call : ArgumentsFit(c) /\ RowPlaced(c) /\ SettlesAlone(c)

ServiceInv == LockInv /\ CallInv

(* A call that goes on inside its critical section, leaves it or unlocks.  *)
LEMMA MoveCallInv ==
  ASSUME TypeOK, RequestInv, CallInv, NEW c \in Call, NEW q \in Critical \cup Over,
         Goto(c, q), UNCHANGED <<req, hold, keys>>,
         q \in {"in", "credit", "mark"} => pc[c] \in {"queued", "in", "credit"},
         q = "exit" => pc[c] \in Critical,
         q \in Over => pc[c] \in {"exit", "left"},
         q = "credit" => req[c].op \in {"capture", "forfeit"} /\ Gain(c) > 0
  PROVE  CallInv'
  <1>1. /\ pc'[c] = q /\ pc[c] \in {"queued", "left"} \cup Critical
        /\ \A b \in Call \ {c} : pc'[b] = pc[b]
    BY DEF Goto, TypeOK, Critical, Over
  <1>2. ASSUME NEW b \in Call PROVE ArgumentsFit(b)'
    <2>1. ArgumentsFit(b)
      BY DEF CallInv
    <2> QED
      BY <1>1, <2>1 DEF ArgumentsFit, CallKeys, Settling, SettleKeys, Gain, Critical, Over
  <1>3. ASSUME NEW h \in Call PROVE RowPlaced(h)'
    <2>1. RowPlaced(h)
      BY DEF CallInv
    <2> QED
      BY <1>1, <2>1 DEF RowPlaced, W!Fresh, Critical, Over
  <1>4. ASSUME NEW b \in Call PROVE SettlesAlone(b)'
    <2>1. \A a \in Call : InProgress(a)' => InProgress(a)
      BY <1>1 DEF InProgress, Critical
    <2>2. SettlesAlone(b)
      BY DEF CallInv
    <2>3. SUFFICES ASSUME Settling(b), InProgress(b), InProgress(b)' PROVE SettlesAlone(b)'
      BY <2>1 DEF SettlesAlone, Settling
    <2>4. pc[req[b].h] = "done" /\ pc'[req[b].h] = "done"
      <3>1. pc[req[b].h] = "done" /\ req[b].h \in Call
        BY <2>2, <2>3 DEF SettlesAlone, RequestInv, Request, InProgress
      <3>2. req[b].h # c
        BY <1>1, <3>1 DEF Critical
      <3> QED
        BY <1>1, <3>1, <3>2
    <2>5. pc'[b] \in {"queued", "in", "credit", "mark"} => pc[b] \in {"queued", "in", "credit", "mark"}
      BY <1>1 DEF Critical, Over
    <2>6. \A a \in Call : a # b /\ Settling(a) /\ InProgress(a)' => req[a].h # req[b].h
      BY <2>1, <2>2, <2>3 DEF SettlesAlone
    <2> QED
      BY <2>2, <2>3, <2>4, <2>5, <2>6 DEF SettlesAlone, Settling, W!Fresh, W!Active
  <1> QED
    BY <1>2, <1>3, <1>4 DEF CallInv

(* A call on a wallet joins the queue.                                     *)
LEMMA CallFundsCallInv ==
  ASSUME TypeOK, RequestInv, CallInv, NEW c \in Call,
         NEW op \in FundsOp, NEW d \in Did, NEW a \in Amount, CallFunds(c, op, d, a)
  PROVE  CallInv'
  <1>1. /\ pc[c] = "new" /\ pc'[c] = "queued" /\ keys'[c] = {d}
        /\ req'[c] = [op |-> op, did |-> d, amount |-> a, h |-> c, to |-> d, burned |-> 0]
        /\ \A b \in Call \ {c} : pc'[b] = pc[b] /\ keys'[b] = keys[b] /\ req'[b] = req[b]
        /\ UNCHANGED hold
    BY DEF CallFunds, Enqueue, Goto, TypeOK, rowVars
  <1>2. ~Settling(c)' /\ req'[c].did = d
    BY <1>1 DEF Settling, SettleOp, FundsOp
  <1>3. \A b \in Call : ArgumentsFit(b)'
    <2> TAKE b \in Call
    <2>1. CASE b = c
      BY <1>1, <1>2, <2>1 DEF ArgumentsFit, CallKeys
    <2>2. CASE b # c
      <3>1. ArgumentsFit(b)
        BY DEF CallInv
      <3> QED
        BY <1>1, <2>2, <3>1 DEF ArgumentsFit, CallKeys, Settling, SettleKeys, Gain
    <2> QED
      BY <2>1, <2>2
  <1>4. \A h \in Call : RowPlaced(h)'
    BY <1>1 DEF CallInv, RowPlaced, W!Fresh
  <1>5. \A b \in Call : SettlesAlone(b)'
    <2> SUFFICES ASSUME NEW b \in Call, Settling(b)', InProgress(b)' PROVE SettlesAlone(b)'
      BY DEF SettlesAlone
    <2>1. b # c /\ Settling(b) /\ InProgress(b)
      BY <1>1, <1>2 DEF Settling, InProgress
    <2>2. SettlesAlone(b) /\ req[b].h \in Call
      BY <2>1 DEF CallInv, RequestInv, Request, InProgress
    <2>3. req[b].h # c
      BY <1>1, <2>1, <2>2 DEF SettlesAlone
    <2>4. \A x \in Call : Settling(x)' /\ InProgress(x)' => x # c /\ Settling(x) /\ InProgress(x)
      BY <1>1, <1>2 DEF Settling, InProgress
    <2> QED
      BY <1>1, <2>1, <2>2, <2>3, <2>4 DEF SettlesAlone, W!Fresh, W!Active
  <1> QED
    BY <1>3, <1>4, <1>5 DEF CallInv

(* A call on a hold knows its row, and no other call settles it.           *)
LEMMA CallSettleCallInv ==
  ASSUME TypeOK, RequestInv, CallInv, NEW c \in Call,
         NEW op \in SettleOp, NEW h \in Call, NEW to \in Did, CallSettle(c, op, h, to)
  PROVE  CallInv'
  <1> PICK burned \in 0..(IF op = "forfeit" THEN hold[h].amount ELSE 0) :
        req' = [req EXCEPT ![c] = [op |-> op, did |-> hold[h].did, amount |-> hold[h].amount,
                                   h |-> h, to |-> to, burned |-> burned]]
    BY DEF CallSettle
  <1>1. /\ pc[c] = "new" /\ pc'[c] = "look" /\ pc[h] = "done" /\ ~W!Fresh(h)
        /\ req'[c] = [op |-> op, did |-> hold[h].did, amount |-> hold[h].amount,
                      h |-> h, to |-> to, burned |-> burned]
        /\ \A b \in Call \ {c} : pc'[b] = pc[b] /\ req'[b] = req[b]
        /\ \A b \in Call : InProgress(b) /\ Settling(b) => req[b].h # h
        /\ UNCHANGED <<hold, keys>>
    BY DEF CallSettle, Goto, TypeOK, rowVars, lockVars
  <1>2. Settling(c)' /\ InProgress(c)' /\ h # c
    BY <1>1 DEF Settling, InProgress
  <1>3. \A b \in Call : ArgumentsFit(b)'
    <2> TAKE b \in Call
    <2>1. CASE b = c
      BY <1>1, <1>2, <2>1 DEF ArgumentsFit, Settling, Critical
    <2>2. CASE b # c
      <3>1. ArgumentsFit(b)
        BY DEF CallInv
      <3> QED
        BY <1>1, <2>2, <3>1 DEF ArgumentsFit, CallKeys, Settling, SettleKeys, Gain
    <2> QED
      BY <2>1, <2>2
  <1>4. \A x \in Call : RowPlaced(x)'
    BY <1>1 DEF CallInv, RowPlaced, W!Fresh
  <1>5. \A b \in Call : SettlesAlone(b)'
    <2> SUFFICES ASSUME NEW b \in Call, Settling(b)', InProgress(b)' PROVE SettlesAlone(b)'
      BY DEF SettlesAlone
    <2>1. \A x \in Call : x # c /\ Settling(x)' /\ InProgress(x)' => Settling(x) /\ InProgress(x)
      BY <1>1 DEF Settling, InProgress
    <2>2. CASE b = c
      <3>1. \A x \in Call : x # c /\ Settling(x)' /\ InProgress(x)' => req'[x].h # h
        BY <1>1, <2>1
      <3> QED
        BY <1>1, <1>2, <2>2, <3>1 DEF SettlesAlone, W!Fresh
    <2>3. CASE b # c
      <3>1. Settling(b) /\ InProgress(b) /\ SettlesAlone(b) /\ req[b].h \in Call /\ req[b].h # h
        BY <1>1, <2>1, <2>3 DEF CallInv, RequestInv, Request, InProgress
      <3>2. req[b].h # c
        BY <1>1, <3>1 DEF SettlesAlone
      <3>3. \A x \in Call : x # b /\ Settling(x)' /\ InProgress(x)' => req'[x].h # req[b].h
        BY <1>1, <2>1, <3>1 DEF SettlesAlone
      <3> QED
        BY <1>1, <2>3, <3>1, <3>2, <3>3 DEF SettlesAlone, W!Fresh, W!Active
    <2> QED
      BY <2>2, <2>3
  <1> QED
    BY <1>3, <1>4, <1>5 DEF CallInv

(* The hold is looked up before the queue.                                 *)
LEMMA LookCallInv ==
  ASSUME TypeOK, RequestInv, CallInv, NEW c \in Call, Look(c)
  PROVE  CallInv'
  <1>1. /\ pc[c] = "look" /\ UNCHANGED <<req, hold>>
        /\ \/ W!Active(req[c].h) /\ pc'[c] = "queued" /\ keys'[c] = SettleKeys(c)
           \/ pc'[c] = "failed" /\ keys'[c] = keys[c]
        /\ \A b \in Call \ {c} : pc'[b] = pc[b] /\ keys'[b] = keys[b]
    BY DEF Look, Enqueue, Goto, TypeOK, rowVars, lockVars
  <1>2. Settling(c)
    BY <1>1 DEF CallInv, ArgumentsFit
  <1>3. \A b \in Call : ArgumentsFit(b)'
    <2> TAKE b \in Call
    <2>1. ArgumentsFit(b)
      BY DEF CallInv
    <2> QED
      BY <1>1, <1>2, <2>1 DEF ArgumentsFit, CallKeys, Settling, SettleKeys, Gain, Critical
  <1>4. \A x \in Call : RowPlaced(x)'
    BY <1>1 DEF CallInv, RowPlaced, W!Fresh
  <1>5. \A b \in Call : SettlesAlone(b)'
    <2> SUFFICES ASSUME NEW b \in Call, Settling(b), InProgress(b)' PROVE SettlesAlone(b)'
      BY <1>1 DEF SettlesAlone, Settling
    <2>1. \A x \in Call : InProgress(x)' => InProgress(x)
      BY <1>1 DEF InProgress
    <2>2. SettlesAlone(b) /\ req[b].h \in Call /\ pc[req[b].h] = "done"
      BY <2>1 DEF CallInv, SettlesAlone, RequestInv, Request, InProgress
    <2>3. req[b].h # c
      BY <1>1, <2>2
    <2> QED
      BY <1>1, <2>1, <2>2, <2>3 DEF SettlesAlone, Settling, W!Fresh, W!Active
  <1> QED
    BY <1>3, <1>4, <1>5 DEF CallInv

(* The hold row is written last, with the owner and the amount it had.     *)
LEMMA MarkCallInv ==
  ASSUME TypeOK, RequestInv, CallInv, NEW c \in Call, Mark(c)
  PROVE  CallInv'
  <1> USE LockAssumption
  <1> DEFINE h == req[c].h
  <1>1. /\ pc[c] = "mark" /\ pc'[c] = "exit" /\ UNCHANGED <<req, keys>>
        /\ \A b \in Call \ {c} : pc'[b] = pc[b]
        /\ hold' = [hold EXCEPT ![h] = MarkedRow(c)]
    BY DEF Mark, Goto, TypeOK, lockVars
  <1>2. /\ req[c] \in Request /\ req[c].op \in SettleOp \cup {"hold"} /\ h \in Call
        /\ InProgress(c)
    BY <1>1 DEF RequestInv, Request, InProgress
  <1>3. /\ ArgumentsFit(c) /\ RowPlaced(c) /\ SettlesAlone(c)
    BY DEF CallInv
  <1>4. hold'[h] = MarkedRow(c) /\ \A x \in Call \ {h} : hold'[x] = hold[x]
    BY <1>1, <1>2 DEF TypeOK
  <1>5. \A b \in Call : ArgumentsFit(b)'
    <2> TAKE b \in Call
    <2>1. ArgumentsFit(b)
      BY DEF CallInv
    <2> QED
      BY <1>1, <2>1 DEF ArgumentsFit, CallKeys, Settling, SettleKeys, Gain, Critical
  <1>6. CASE req[c].op = "hold"
    <2>1. h = c /\ ~Settling(c) /\ req[c].amount \in Nat \ {0}
      BY <1>1, <1>3, <1>6 DEF ArgumentsFit, Settling, SettleOp
    <2>2. \A x \in Call : RowPlaced(x)'
      <3> TAKE x \in Call
      <3>1. CASE x = c
        BY <1>1, <1>4, <1>6, <2>1, <3>1 DEF RowPlaced, MarkedRow
      <3>2. CASE x # c
        BY <1>1, <1>4, <2>1, <3>2 DEF CallInv, RowPlaced, W!Fresh
      <3> QED
        BY <3>1, <3>2
    <2>3. \A b \in Call : SettlesAlone(b)'
      <3> SUFFICES ASSUME NEW b \in Call, Settling(b), InProgress(b)' PROVE SettlesAlone(b)'
        BY <1>1 DEF SettlesAlone, Settling
      <3>1. b # c /\ \A x \in Call : InProgress(x)' => InProgress(x)
        BY <1>1, <2>1 DEF InProgress
      <3>2. SettlesAlone(b) /\ req[b].h \in Call /\ pc[req[b].h] = "done"
        BY <3>1 DEF CallInv, SettlesAlone, RequestInv, Request, InProgress
      <3>3. req[b].h # c
        BY <1>1, <3>2
      <3> QED
        BY <1>1, <1>4, <2>1, <3>1, <3>2, <3>3 DEF SettlesAlone, Settling, W!Fresh, W!Active
    <2> QED
      BY <1>5, <2>2, <2>3 DEF CallInv
  <1>7. CASE req[c].op # "hold"
    <2>1. Settling(c)
      BY <1>2, <1>7 DEF Settling
    <2>2. /\ pc[h] = "done" /\ ~W!Fresh(h) /\ h # c
          /\ req[c].did = hold[h].did /\ req[c].amount = hold[h].amount
          /\ \A b \in Call : b # c /\ Settling(b) /\ InProgress(b) => req[b].h # h
      BY <1>1, <1>2, <1>3, <2>1 DEF SettlesAlone
    <2>3. ~W!Fresh(h)' /\ hold'[h].did = hold[h].did /\ hold'[h].amount = hold[h].amount
      <3>1. Outcome(req[c].op) # "none"
        BY <1>2 DEF Outcome, SettleOp
      <3>2. MarkedRow(c).state # W!NoHold.state
        BY <3>1 DEF MarkedRow, W!NoHold
      <3>3. MarkedRow(c).did = req[c].did /\ MarkedRow(c).amount = req[c].amount
        BY DEF MarkedRow
      <3> QED
        BY <1>1, <1>4, <2>2, <3>2, <3>3 DEF W!Fresh
    <2>4. \A x \in Call : RowPlaced(x)'
      <3> TAKE x \in Call
      <3>1. CASE x = h
        BY <1>1, <2>2, <2>3, <3>1 DEF CallInv, RowPlaced
      <3>2. CASE x # h
        BY <1>1, <1>4, <3>2 DEF CallInv, RowPlaced, W!Fresh
      <3> QED
        BY <3>1, <3>2
    <2>5. \A b \in Call : SettlesAlone(b)'
      <3> SUFFICES ASSUME NEW b \in Call, Settling(b), InProgress(b)' PROVE SettlesAlone(b)'
        BY <1>1 DEF SettlesAlone, Settling
      <3>1. InProgress(b) /\ \A x \in Call : InProgress(x)' => InProgress(x)
        BY <1>1 DEF InProgress
      <3>2. SettlesAlone(b) /\ req[b].h \in Call /\ pc[req[b].h] = "done"
        BY <3>1 DEF CallInv, SettlesAlone, RequestInv, Request, InProgress
      <3>3. req[b].h # c
        BY <1>1, <3>2
      <3>4. CASE b = c
        BY <1>1, <2>1, <2>2, <2>3, <3>1, <3>2, <3>4 DEF SettlesAlone, Settling
      <3>5. CASE b # c
        <4>1. req[b].h # h
          BY <2>2, <3>1, <3>5
        <4> QED
          BY <1>1, <1>4, <3>1, <3>2, <3>3, <3>5, <4>1 DEF SettlesAlone, Settling, W!Fresh, W!Active
      <3> QED
        BY <3>4, <3>5
    <2> QED
      BY <1>5, <2>4, <2>5 DEF CallInv
  <1> QED
    BY <1>6, <1>7

(* Every step keeps what the mapping relies on.                            *)
LEMMA StepServiceInv == ServiceInv /\ [Next]_vars => ServiceInv'
  <1>1. ASSUME ServiceInv, NEW c \in Call, Invoke(c) \/ Continue(c) PROVE CallInv'
    <2>1. TypeOK /\ RequestInv /\ CallInv
      BY <1>1 DEF ServiceInv, LockInv
    <2>2. ASSUME NEW op \in FundsOp, NEW d \in Did, NEW a \in Amount, CallFunds(c, op, d, a)
          PROVE  CallInv'
      BY <2>1, <2>2, CallFundsCallInv
    <2>3. ASSUME NEW op \in SettleOp, NEW h \in Call, NEW to \in Did, CallSettle(c, op, h, to)
          PROVE  CallInv'
      BY <2>1, <2>3, CallSettleCallInv
    <2>4. CASE Look(c)
      BY <2>1, <2>4, LookCallInv
    <2>5. CASE Mark(c)
      BY <2>1, <2>5, MarkCallInv
    <2>6. CASE \/ Enter(c) \/ Credit(c) \/ Refuse(c) \/ Debit(c) \/ Earmark(c) \/ ReturnHeld(c)
               \/ TakeHeld(c) \/ PayRecipient(c) \/ Leave(c) \/ Unlock(c)
      <3>1. PICK q \in Critical \cup Over :
              /\ Goto(c, q) /\ UNCHANGED <<req, hold, keys>>
              /\ q \in {"in", "credit", "mark"} => pc[c] \in {"queued", "in", "credit"}
              /\ q = "exit" => pc[c] \in Critical
              /\ q \in Over => pc[c] \in {"exit", "left"}
              /\ q = "credit" => req[c].op \in {"capture", "forfeit"} /\ Gain(c) > 0
        BY <2>6 DEF Enter, Credit, Refuse, Debit, Earmark, ReturnHeld, TakeHeld, PayRecipient,
                    Leave, Unlock, Critical, Over, rowVars, lockVars
      <3> QED
        BY <2>1, <3>1, MoveCallInv
    <2> QED
      BY <1>1, <2>2, <2>3, <2>4, <2>5, <2>6 DEF Invoke, Continue
  <1>2. ASSUME CallInv, UNCHANGED vars PROVE CallInv'
    <2>1. UNCHANGED <<hold, req, pc, keys>>
      BY <1>2 DEF vars, rowVars, lockVars
    <2> SUFFICES ASSUME NEW c \in Call PROVE ArgumentsFit(c)' /\ RowPlaced(c)' /\ SettlesAlone(c)'
      BY DEF CallInv
    <2>2. ArgumentsFit(c) /\ RowPlaced(c) /\ SettlesAlone(c)
      BY <1>2 DEF CallInv
    <2>3. ArgumentsFit(c)'
      BY <2>1, <2>2 DEF ArgumentsFit, CallKeys, SettleKeys, Gain, Settling
    <2>4. RowPlaced(c)'
      BY <2>1, <2>2 DEF RowPlaced, W!Fresh
    <2>5. SettlesAlone(c)'
      BY <2>1, <2>2 DEF SettlesAlone, Settling, InProgress, W!Fresh, W!Active
    <2> QED
      BY <2>3, <2>4, <2>5
  <1> QED
    BY <1>1, <1>2, StepLockInv DEF ServiceInv, Next

(* The invariant of the service always holds.                              *)
LEMMA ServiceInvariant == Spec => []ServiceInv
  <1>1. Init => ServiceInv
    <2> SUFFICES ASSUME Init PROVE CallInv
      BY InitLockInv DEF ServiceInv
    <2> QED
      BY DEF Init, W!Init, CallInv, ArgumentsFit, RowPlaced, SettlesAlone, InProgress, Settling,
             SettleOp, Critical, W!Fresh, NoRequest
  <1> QED
    BY <1>1, StepServiceInv, PTL DEF Spec

-----------------------------------------------------------------------------
(* The refinement mapping: what each wallet is owed, and each row's state. *)

Credits(c, d) == pc[c] = "credit" /\ req[c].to = d

(* The call whose credit is awaited, if it is the only one, is the one that*)
(* Owed picks; so with the row that is about to be written.                *)
MappingFacts ==
  /\ \A d \in Did : (\A c \in Call : ~Credits(c, d)) => Owed(d) = 0
  /\ \A d \in Did, c \in Call :
       Credits(c, d) /\ (\A b \in Call : Credits(b, d) => b = c) => Owed(d) = Gain(c)
  /\ \A h \in Call : Unmarked(h) = {} => holdBar[h] = hold[h]
  /\ \A h, c \in Call : Unmarked(h) = {c} => holdBar[h] = MarkedRow(c)

(* They follow from the definitions,                                       *)
LEMMA MappingIs == MappingFacts
  <1>1. \A d \in Did : (\A c \in Call : ~Credits(c, d)) => Owed(d) = 0
    BY DEF Credits, Owed
  <1>2. ASSUME NEW d \in Did, NEW c \in Call,
               Credits(c, d), \A b \in Call : Credits(b, d) => b = c
        PROVE  Owed(d) = Gain(c)
    <2>1. c = CHOOSE b \in Call : pc[b] = "credit" /\ req[b].to = d
      BY <1>2 DEF Credits
    <2> QED
      BY <1>2, <2>1 DEF Credits, Owed
  <1>3. \A h \in Call : Unmarked(h) = {} => holdBar[h] = hold[h]
    BY DEF holdBar
  <1>4. ASSUME NEW h \in Call, NEW c \in Call, Unmarked(h) = {c}
        PROVE  holdBar[h] = MarkedRow(c)
    <2>1. c = CHOOSE b \in Unmarked(h) : TRUE
      BY <1>4
    <2> QED
      BY <1>4, <2>1 DEF holdBar
  <1> QED
    BY <1>1, <1>2, <1>3, <1>4 DEF MappingFacts

(* in the next state as well.                                              *)
LEMMA MappingStays == MappingFacts'
  BY MappingIs, PTL

(* No call credits a wallet while another has it locked.                   *)
LEMMA CreditsAlone ==
  ASSUME ServiceInv, NEW b \in Call, NEW c \in Call, NEW d \in Did,
         pc[b] \in Critical, d \in CallKeys(b), Credits(c, d)
  PROVE  b = c
  <1>1. ArgumentsFit(b) /\ ArgumentsFit(c)
    BY DEF ServiceInv, CallInv
  <1>2. d \in keys[b] /\ pc[c] \in Critical
    BY <1>1 DEF ArgumentsFit, Credits, Critical
  <1>3. d \in keys[c]
    BY <1>1, <1>2 DEF ArgumentsFit, Credits, CallKeys, Settling, SettleOp, SettleKeys
  <1> QED
    BY <1>2, <1>3, InvariantExcludes DEF ServiceInv, Exclusive

(* A wallet is owed by one call at most.                                   *)
LEMMA CreditsOnce ==
  ASSUME ServiceInv, NEW b \in Call, NEW c \in Call, NEW d \in Did, Credits(b, d), Credits(c, d)
  PROVE  b = c
  <1>1. ArgumentsFit(b)
    BY DEF ServiceInv, CallInv
  <1>2. pc[b] \in Critical /\ d \in CallKeys(b)
    BY <1>1 DEF ArgumentsFit, Credits, CallKeys, Settling, SettleOp, SettleKeys, Critical
  <1> QED
    BY <1>2, CreditsAlone

(* A row is about to be written by one call at most: the one that places   *)
(* the hold, or the one that settles it.                                   *)
OnRow(h) ==
  {c \in Call : /\ pc[c] \in {"in", "credit", "mark"} /\ req[c].h = h
                /\ req[c].op \in SettleOp \cup {"hold"}}

(* At most one call is about to write a hold row.                          *)
LEMMA MarksOnce ==
  ASSUME ServiceInv, NEW h \in Call
  PROVE  /\ Unmarked(h) \subseteq OnRow(h)
         /\ \A b, c \in OnRow(h) : b = c
  <1>1. Unmarked(h) \subseteq OnRow(h)
    BY DEF Unmarked, OnRow, ServiceInv, LockInv, RequestInv
  <1>2. ASSUME NEW b \in OnRow(h), NEW c \in OnRow(h) PROVE b = c
    <2>1. /\ b \in Call /\ pc[b] \notin {"done", "new"} /\ req[b].h = h /\ InProgress(b)
          /\ c \in Call /\ pc[c] \notin {"done", "new"} /\ req[c].h = h /\ InProgress(c)
      BY DEF OnRow, InProgress
    <2>2. ArgumentsFit(b) /\ ArgumentsFit(c) /\ SettlesAlone(b) /\ SettlesAlone(c)
      BY <2>1 DEF ServiceInv, CallInv
    <2>3. CASE Settling(b) /\ Settling(c)
      BY <2>1, <2>2, <2>3 DEF SettlesAlone
    <2>4. CASE Settling(b) /\ ~Settling(c)
      BY <2>1, <2>2, <2>4 DEF SettlesAlone, ArgumentsFit
    <2>5. CASE ~Settling(b) /\ Settling(c)
      BY <2>1, <2>2, <2>5 DEF SettlesAlone, ArgumentsFit
    <2>6. CASE ~Settling(b) /\ ~Settling(c)
      BY <2>1, <2>2, <2>6 DEF ArgumentsFit
    <2> QED
      BY <2>3, <2>4, <2>5, <2>6
  <1> QED
    BY <1>1, <1>2

(* A step that begins and ends no credit of a wallet leaves it owed the    *)
(* same.                                                                   *)
LEMMA StillOwed ==
  ASSUME ServiceInv, NEW d \in Did,
         \A b \in Call : Credits(b, d)' <=> Credits(b, d),
         \A b \in Call : Credits(b, d) => req'[b] = req[b]
  PROVE  Owed(d)' = Owed(d)
  <1>1. CASE \A b \in Call : ~Credits(b, d)
    BY <1>1, MappingIs, MappingStays DEF MappingFacts
  <1>2. CASE \E b \in Call : Credits(b, d)
    <2>1. PICK c \in Call : Credits(c, d)
      BY <1>2
    <2>2. \A b \in Call : Credits(b, d) => b = c
      BY <2>1, CreditsOnce
    <2>3. Owed(d) = Gain(c)
      BY <2>1, <2>2, MappingIs DEF MappingFacts
    <2>4. Owed(d)' = Gain(c)'
      BY <2>1, <2>2, MappingStays DEF MappingFacts
    <2>5. Gain(c)' = Gain(c)
      BY <2>1 DEF Gain
    <2> QED
      BY <2>3, <2>4, <2>5
  <1> QED
    BY <1>1, <1>2

(* A step that neither takes up nor writes a row leaves it as it appears.  *)
LEMMA StillShown ==
  ASSUME ServiceInv, NEW h \in Call, hold'[h] = hold[h],
         Unmarked(h)' = Unmarked(h),
         \A b \in Unmarked(h) : req'[b] = req[b]
  PROVE  holdBar'[h] = holdBar[h]
  <1>1. CASE Unmarked(h) = {}
    BY <1>1, MappingIs, MappingStays DEF MappingFacts
  <1>2. CASE Unmarked(h) # {}
    <2>1. PICK c \in Unmarked(h) : TRUE
      BY <1>2
    <2>2. Unmarked(h) = {c} /\ c \in Call
      <3>1. \A b \in Unmarked(h) : b = c
        BY <2>1, MarksOnce
      <3> QED
        BY <2>1, <3>1 DEF Unmarked
    <2>3. holdBar[h] = MarkedRow(c) /\ holdBar'[h] = MarkedRow(c)'
      BY <2>2, MappingIs, MappingStays DEF MappingFacts
    <2>4. MarkedRow(c)' = MarkedRow(c)
      BY <2>1 DEF MarkedRow
    <2> QED
      BY <2>3, <2>4
  <1> QED
    BY <1>1, <1>2

barVars == <<availableBar, held, holdBar, external>>

(* Types of the mapped rows.                                               *)
LEMMA BarTypes ==
  ASSUME ServiceInv
  PROVE  /\ \A d \in Did : Owed(d) \in Nat /\ available[d] \in Int /\ held[d] \in Int
         /\ \A c \in Call : pc[c] # "new" => req[c] \in Request /\ Gain(c) \in Int
  <1>1. \A c \in Call : pc[c] # "new" => req[c] \in Request /\ Gain(c) \in Int
    BY DEF ServiceInv, LockInv, RequestInv, Request, Gain
  <1>2. ASSUME NEW d \in Did PROVE Owed(d) \in Nat
    <2>1. CASE \A b \in Call : ~Credits(b, d)
      BY <2>1, MappingIs DEF MappingFacts
    <2>2. CASE \E b \in Call : Credits(b, d)
      <3>1. PICK c \in Call : Credits(c, d)
        BY <2>2
      <3>2. Owed(d) = Gain(c)
        BY <3>1, CreditsOnce, MappingIs DEF MappingFacts
      <3>3. Gain(c) > 0 /\ Gain(c) \in Int
        BY <1>1, <3>1 DEF ServiceInv, CallInv, ArgumentsFit, Credits
      <3> QED
        BY <3>2, <3>3
    <2> QED
      BY <2>1, <2>2
  <1> QED
    BY <1>1, <1>2 DEF ServiceInv, LockInv, TypeOK

(* Steps that write no row and begin or end no credit and no mark.         *)
LEMMA SilentStep ==
  ASSUME ServiceInv, UNCHANGED rowVars,
         \A b \in Call : /\ pc'[b] = "credit" <=> pc[b] = "credit"
                         /\ pc'[b] = "mark" <=> pc[b] = "mark"
                         /\ pc[b] \in {"credit", "mark"} => req'[b] = req[b]
  PROVE  UNCHANGED barVars
  <1>1. UNCHANGED <<available, held, hold, external>>
    BY DEF rowVars
  <1>2. \A d \in Did : Owed(d)' = Owed(d)
    BY StillOwed DEF Credits
  <1>3. availableBar' = availableBar
    BY <1>1, <1>2 DEF availableBar
  <1>4. ASSUME NEW h \in Call PROVE holdBar'[h] = holdBar[h]
    <2>1. Unmarked(h)' = Unmarked(h) /\ \A b \in Unmarked(h) : req'[b] = req[b]
      BY DEF Unmarked
    <2> QED
      BY <1>1, <2>1, StillShown
  <1>5. holdBar = [h \in Call |-> holdBar[h]] /\ holdBar' = [h \in Call |-> holdBar'[h]]
    BY DEF holdBar
  <1>6. holdBar' = holdBar
    <2> HIDE DEF holdBar
    <2>1. [h \in Call |-> holdBar'[h]] = [h \in Call |-> holdBar[h]]
      BY <1>4
    <2> QED
      BY <1>5, <2>1
  <1> QED
    BY <1>1, <1>3, <1>6 DEF barVars

(* How the mapped balances and rows are changed at one place.              *)
LEMMA BalanceChanges ==
  ASSUME NEW d \in Did, NEW v,
         \A x \in Did : available'[x] + Owed(x)' =
                        IF x = d THEN availableBar[d] + v ELSE availableBar[x]
  PROVE  availableBar' = [availableBar EXCEPT ![d] = @ + v]
  <1>1. \A x \in Did : availableBar'[x] = IF x = d THEN availableBar[d] + v ELSE availableBar[x]
    BY DEF availableBar
  <1>2. availableBar' = [x \in Did |-> availableBar'[x]] /\ availableBar = [x \in Did |-> availableBar[x]]
    BY DEF availableBar
  <1> HIDE DEF availableBar
  <1> QED
    BY <1>1, <1>2

(* The mapped rows are equal when each of them is.                         *)
LEMMA RowsStay ==
  ASSUME \A h \in Call : holdBar'[h] = holdBar[h]
  PROVE  holdBar' = holdBar
  <1>1. holdBar = [h \in Call |-> holdBar[h]] /\ holdBar' = [h \in Call |-> holdBar'[h]]
    BY DEF holdBar
  <1> HIDE DEF holdBar
  <1>2. [h \in Call |-> holdBar'[h]] = [h \in Call |-> holdBar[h]]
    OBVIOUS
  <1> QED
    BY <1>1, <1>2

(* A change of one mapped row is an EXCEPT.                                *)
LEMMA RowChanges ==
  ASSUME NEW h \in Call, NEW row,
         holdBar'[h] = row, \A x \in Call \ {h} : holdBar'[x] = holdBar[x]
  PROVE  holdBar' = [holdBar EXCEPT ![h] = row]
  <1>1. holdBar = [x \in Call |-> holdBar[x]] /\ holdBar' = [x \in Call |-> holdBar'[x]]
    BY DEF holdBar
  <1> HIDE DEF holdBar
  <1> QED
    BY <1>1

(* The one call that moves, and where it is in its critical section.       *)
LEMMA MoveOne ==
  ASSUME ServiceInv, NEW c \in Call, NEW q \in Point, Goto(c, q)
  PROVE  pc'[c] = q /\ \A b \in Call \ {c} : pc'[b] = pc[b]
  BY DEF Goto, ServiceInv, LockInv, TypeOK

(* A step that is about no hold row.                                       *)
LEMMA FundsStep ==
  ASSUME ServiceInv, NEW c \in Call, pc[c] = "in", Goto(c, "exit"), UNCHANGED <<req, hold>>
  PROVE  /\ holdBar' = holdBar
         /\ \A d \in Did : Owed(d)' = Owed(d)
  <1>1. \A b \in Call : /\ pc'[b] = "credit" <=> pc[b] = "credit"
                        /\ pc'[b] = "mark" <=> pc[b] = "mark"
    BY MoveOne DEF Point, Critical
  <1>2. \A d \in Did : Owed(d)' = Owed(d)
    BY <1>1, StillOwed DEF Credits
  <1>3. ASSUME NEW h \in Call PROVE holdBar'[h] = holdBar[h]
    <2>1. Unmarked(h)' = Unmarked(h)
      BY <1>1 DEF Unmarked
    <2> QED
      BY <2>1, StillShown
  <1> QED
    BY <1>2, <1>3, RowsStay

(* A step that takes a row up shows it as it will be written.              *)
LEMMA RowStep ==
  ASSUME ServiceInv, NEW c \in Call, pc[c] = "in", NEW q \in {"credit", "mark"}, Goto(c, q),
         UNCHANGED <<req, hold>>, req[c].op \in SettleOp \cup {"hold"}
  PROVE  /\ req[c].h \in Call
         /\ holdBar[req[c].h] = hold[req[c].h]
         /\ holdBar' = [holdBar EXCEPT ![req[c].h] = MarkedRow(c)]
  <1> DEFINE h == req[c].h
  <1>1. h \in Call
    BY DEF ServiceInv, LockInv, RequestInv, Request
  <1>2. pc'[c] = q /\ \A b \in Call \ {c} : pc'[b] = pc[b]
    BY MoveOne DEF Point, Critical
  <1>3. c \in OnRow(h)
    BY DEF OnRow
  <1>4. Unmarked(h) = {}
    <2> SUFFICES ASSUME NEW b \in Unmarked(h) PROVE FALSE
      OBVIOUS
    <2>1. b = c
      BY <1>1, <1>3, MarksOnce
    <2> QED
      BY <2>1 DEF Unmarked
  <1>5. Unmarked(h)' = {c}
    BY <1>2, <1>4 DEF Unmarked
  <1>6. \A x \in Call \ {h} : Unmarked(x)' = Unmarked(x)
    BY <1>2 DEF Unmarked
  <1>7. holdBar[h] = hold[h]
    BY <1>1, <1>4, MappingIs DEF MappingFacts
  <1>8. holdBar'[h] = MarkedRow(c)
    <2>1. h' = h /\ MarkedRow(c)' = MarkedRow(c)
      BY DEF MarkedRow
    <2> QED
      BY <1>1, <1>5, <2>1, MappingStays DEF MappingFacts
  <1>9. \A x \in Call \ {h} : holdBar'[x] = holdBar[x]
    BY <1>6, StillShown
  <1> QED
    BY <1>1, <1>7, <1>8, <1>9, RowChanges

(* What the arguments of a call with a wallet locked are.                  *)
LEMMA FundsArguments ==
  ASSUME ServiceInv, NEW c \in Call, pc[c] = "in", req[c].op \in FundsOp
  PROVE  /\ req[c].did \in Did /\ req[c].amount \in Amount /\ req[c].amount \in Nat \ {0}
         /\ req[c].h = c
  <1>1. ArgumentsFit(c) /\ req[c] \in Request /\ ~Settling(c)
    BY DEF ServiceInv, CallInv, LockInv, RequestInv, Settling, SettleOp, FundsOp
  <1> QED
    BY <1>1, LockAssumption DEF ArgumentsFit, Request

(* A credit is one step of the abstract wallet.                            *)
LEMMA CreditRefines ==
  ASSUME ServiceInv, NEW c \in Call, Credit(c)
  PROVE  Atomic!Next
  <1> DEFINE d == req[c].did
             a == req[c].amount
  <1>1. /\ pc[c] = "in" /\ req[c].op \in FundsOp /\ Goto(c, "exit") /\ UNCHANGED <<req, held, hold>>
        /\ available' = [available EXCEPT ![d] = @ + a] /\ external' = external - a
    BY DEF Credit, FundsOp
  <1>2. d \in Did /\ a \in Amount /\ a \in Nat \ {0}
    BY <1>1, FundsArguments
  <1>3. holdBar' = holdBar /\ \A x \in Did : Owed(x)' = Owed(x)
    BY <1>1, FundsStep
  <1> HIDE DEF d, a
  <1>4. availableBar' = [availableBar EXCEPT ![d] = @ + a]
    <2>1. \A x \in Did : available'[x] + Owed(x)' =
                         IF x = d THEN availableBar[d] + a ELSE availableBar[x]
      BY <1>1, <1>2, <1>3, BarTypes DEF availableBar, ServiceInv, LockInv, TypeOK
    <2> QED
      BY <1>2, <2>1, BalanceChanges
  <1>5. Atomic!Credit(d, a)
    <2>1. a > 0 /\ external' = external - a /\ UNCHANGED <<held, holdBar>>
      BY <1>1, <1>2, <1>3
    <2> QED
      BY <1>4, <2>1 DEF Atomic!Credit
  <1> QED
    BY <1>2, <1>5 DEF Atomic!Next

(* A debit is one step of the abstract wallet.                             *)
LEMMA DebitRefines ==
  ASSUME ServiceInv, NEW c \in Call, Debit(c)
  PROVE  Atomic!Next
  <1> DEFINE d == req[c].did
             a == req[c].amount
  <1>1. /\ pc[c] = "in" /\ req[c].op \in FundsOp /\ Goto(c, "exit") /\ UNCHANGED <<req, held, hold>>
        /\ available' = [available EXCEPT ![d] = @ - a] /\ external' = external + a
        /\ available[d] >= a
    BY DEF Debit, Affordable, FundsOp
  <1>2. d \in Did /\ a \in Amount /\ a \in Nat \ {0}
    BY <1>1, FundsArguments
  <1>3. holdBar' = holdBar /\ \A x \in Did : Owed(x)' = Owed(x)
    BY <1>1, FundsStep
  <1> HIDE DEF d, a
  <1>4. availableBar' = [availableBar EXCEPT ![d] = @ - a]
    <2>1. \A x \in Did : available'[x] + Owed(x)' =
                         IF x = d THEN availableBar[d] + (-a) ELSE availableBar[x]
      BY <1>1, <1>2, <1>3, BarTypes DEF availableBar, ServiceInv, LockInv, TypeOK
    <2>2. availableBar' = [availableBar EXCEPT ![d] = @ + (-a)]
      BY <1>2, <2>1, BalanceChanges
    <2>3. availableBar[d] + (-a) = availableBar[d] - a
      BY <1>2, BarTypes DEF availableBar
    <2> QED
      BY <2>2, <2>3
  <1>5. availableBar[d] >= a
    BY <1>1, <1>2, BarTypes DEF availableBar
  <1>6. Atomic!Debit(d, a)
    <2>1. a > 0 /\ external' = external + a /\ UNCHANGED <<held, holdBar>>
      BY <1>1, <1>2, <1>3
    <2> QED
      BY <1>4, <1>5, <2>1 DEF Atomic!Debit
  <1> QED
    BY <1>2, <1>6 DEF Atomic!Next

(* hold: the row appears, active, when the balance is earmarked.           *)
LEMMA EarmarkRefines ==
  ASSUME ServiceInv, NEW c \in Call, Earmark(c)
  PROVE  Atomic!Next
  <1> DEFINE d == req[c].did
             a == req[c].amount
  <1>1. /\ pc[c] = "in" /\ req[c].op = "hold" /\ Goto(c, "mark") /\ UNCHANGED <<req, hold, external>>
        /\ available' = [available EXCEPT ![d] = @ - a] /\ held' = [held EXCEPT ![d] = @ + a]
        /\ available[d] >= a
    BY DEF Earmark, Affordable
  <1>2. d \in Did /\ a \in Amount /\ a \in Nat \ {0} /\ req[c].h = c
    BY <1>1, FundsArguments DEF FundsOp
  <1>3. hold[c] = W!NoHold
    BY <1>1 DEF ServiceInv, CallInv, RowPlaced, W!Fresh
  <1>4. holdBar[c] = W!NoHold /\ holdBar' = [holdBar EXCEPT ![c] = MarkedRow(c)]
    BY <1>1, <1>2, <1>3, RowStep
  <1>5. MarkedRow(c) = [state |-> "active", did |-> d, amount |-> a]
    BY <1>1 DEF MarkedRow, Outcome
  <1>6. \A x \in Did : Owed(x)' = Owed(x)
    <2>1. \A b \in Call : pc'[b] = "credit" <=> pc[b] = "credit"
      BY <1>1, MoveOne DEF Point, Critical
    <2> QED
      BY <1>1, <2>1, StillOwed DEF Credits
  <1> HIDE DEF d, a
  <1>7. availableBar' = [availableBar EXCEPT ![d] = @ - a]
    <2>1. \A x \in Did : available'[x] + Owed(x)' =
                         IF x = d THEN availableBar[d] + (-a) ELSE availableBar[x]
      BY <1>1, <1>2, <1>6, BarTypes DEF availableBar, ServiceInv, LockInv, TypeOK
    <2>2. availableBar' = [availableBar EXCEPT ![d] = @ + (-a)]
      BY <1>2, <2>1, BalanceChanges
    <2>3. availableBar[d] + (-a) = availableBar[d] - a
      BY <1>2, BarTypes DEF availableBar
    <2> QED
      BY <2>2, <2>3
  <1>8. availableBar[d] >= a
    BY <1>1, <1>2, BarTypes DEF availableBar
  <1>9. Atomic!PlaceHold(c, d, a)
    <2>1. Atomic!Fresh(c) /\ Atomic!CanHold(d, a)
      BY <1>2, <1>4, <1>8 DEF Atomic!Fresh, Atomic!CanHold, Atomic!NoHold, W!NoHold
    <2> QED
      BY <1>1, <1>4, <1>5, <1>7, <2>1 DEF Atomic!PlaceHold
  <1> QED
    BY <1>2, <1>9 DEF Atomic!Next

(* What a call that settles a hold knows of the row when it holds its lock,*)
(* and the row it is about to show.                                        *)
LEMMA SettleArguments ==
  ASSUME ServiceInv, NEW c \in Call, pc[c] = "in", Settling(c)
  PROVE  /\ req[c].h \in Call /\ req[c].did \in Did /\ req[c].to \in Did
         /\ req[c].amount \in Nat \ {0}
         /\ req[c].burned \in 0..(IF req[c].op = "forfeit" THEN req[c].amount ELSE 0)
         /\ hold[req[c].h] = [state |-> "active", did |-> req[c].did, amount |-> req[c].amount]
  <1> DEFINE h == req[c].h
  <1>1. req[c] \in Request /\ ArgumentsFit(c) /\ SettlesAlone(c) /\ InProgress(c)
    BY DEF ServiceInv, CallInv, LockInv, RequestInv, InProgress
  <1>2. h \in Call /\ req[c].did \in Did /\ req[c].to \in Did /\ req[c].amount \in Nat
    BY <1>1 DEF Request
  <1>3. /\ ~W!Fresh(h) /\ req[c].did = hold[h].did /\ req[c].amount = hold[h].amount
        /\ hold[h].state = "active"
    BY <1>1 DEF SettlesAlone, W!Active
  <1>4. RowPlaced(h) /\ hold[h] \in W!Hold
    BY <1>2, <1>3 DEF ServiceInv, CallInv, LockInv, TypeOK, W!Fresh
  <1>5. hold[h].amount > 0
    BY <1>3, <1>4 DEF RowPlaced
  <1>6. hold[h] = [state |-> "active", did |-> req[c].did, amount |-> req[c].amount]
    BY <1>3, <1>4 DEF W!Hold
  <1> QED
    BY <1>1, <1>2, <1>3, <1>5, <1>6 DEF ArgumentsFit

(* The first write of a settlement settles the mapped hold.                *)
LEMMA SettleStep ==
  ASSUME ServiceInv, NEW c \in Call, pc[c] = "in", Settling(c),
         NEW q \in {"credit", "mark"}, Goto(c, q), UNCHANGED <<req, hold>>
  PROVE  /\ holdBar[req[c].h] = [state |-> "active", did |-> req[c].did, amount |-> req[c].amount]
         /\ holdBar' = [holdBar EXCEPT ![req[c].h].state = Outcome(req[c].op)]
  <1> DEFINE h == req[c].h
             row == [state |-> "active", did |-> req[c].did, amount |-> req[c].amount]
  <1>1. h \in Call /\ holdBar[h] = row /\ holdBar' = [holdBar EXCEPT ![h] = MarkedRow(c)]
    BY RowStep, SettleArguments DEF Settling
  <1>2. MarkedRow(c) = [row EXCEPT !.state = Outcome(req[c].op)]
    BY DEF MarkedRow
  <1> QED
    BY <1>1, <1>2

(* The first write of a release is the release.                            *)
LEMMA ReturnHeldRefines ==
  ASSUME ServiceInv, NEW c \in Call, ReturnHeld(c)
  PROVE  Atomic!Next
  <1> DEFINE d == req[c].did
             a == req[c].amount
             h == req[c].h
  <1>1. /\ pc[c] = "in" /\ req[c].op = "release" /\ Goto(c, "mark") /\ UNCHANGED <<req, hold, external>>
        /\ available' = [available EXCEPT ![d] = @ + a] /\ held' = [held EXCEPT ![d] = @ - a]
    BY DEF ReturnHeld
  <1>2. Settling(c)
    BY <1>1 DEF Settling, SettleOp
  <1>3. h \in Call /\ d \in Did /\ a \in Nat \ {0}
    BY <1>1, <1>2, SettleArguments
  <1>4. /\ holdBar[h] = [state |-> "active", did |-> d, amount |-> a]
        /\ holdBar' = [holdBar EXCEPT ![h].state = "released"]
    <2>1. Outcome("release") = "released"
      BY DEF Outcome
    <2> QED
      BY <1>1, <1>2, <2>1, SettleStep
  <1>5. \A x \in Did : Owed(x)' = Owed(x)
    <2>1. \A b \in Call : pc'[b] = "credit" <=> pc[b] = "credit"
      BY <1>1, MoveOne DEF Point, Critical
    <2> QED
      BY <1>1, <2>1, StillOwed DEF Credits
  <1> HIDE DEF d, a, h
  <1>6. availableBar' = [availableBar EXCEPT ![d] = @ + a]
    <2>1. \A x \in Did : available'[x] + Owed(x)' =
                         IF x = d THEN availableBar[d] + a ELSE availableBar[x]
      BY <1>1, <1>3, <1>5, BarTypes DEF availableBar, ServiceInv, LockInv, TypeOK
    <2> QED
      BY <1>3, <2>1, BalanceChanges
  <1>7. Atomic!Release(h)
    <2>1. Atomic!Active(h) /\ holdBar[h].did = d /\ holdBar[h].amount = a
      BY <1>4 DEF Atomic!Active
    <2> QED
      BY <1>1, <1>4, <1>6, <2>1 DEF Atomic!Release
  <1> QED
    BY <1>3, <1>7 DEF Atomic!Next

(* capture and forfeit owe the recipient from the step that takes the hold *)
(* out of `held`: the recipient's wallet is locked, so nobody else does.   *)
LEMMA TakeHeldOwes ==
  ASSUME ServiceInv, NEW c \in Call, TakeHeld(c), NEW x \in Did
  PROVE  Owed(x)' = Owed(x) + (IF x = req[c].to THEN Gain(c) ELSE 0)
  <1>1. /\ pc[c] = "in" /\ req[c].op \in {"capture", "forfeit"}
        /\ UNCHANGED req /\ Settling(c)
        /\ Goto(c, IF Gain(c) > 0 THEN "credit" ELSE "mark")
    BY DEF TakeHeld, Settling, SettleOp
  <1>2. pc'[c] = (IF Gain(c) > 0 THEN "credit" ELSE "mark") /\ \A b \in Call \ {c} : pc'[b] = pc[b]
    BY <1>1, MoveOne DEF Point, Critical
  <1>3. Owed(x) \in Nat /\ Gain(c) \in Nat
    <2>1. /\ req[c].amount \in Nat \ {0}
          /\ req[c].burned \in 0..(IF req[c].op = "forfeit" THEN req[c].amount ELSE 0)
      BY <1>1, SettleArguments
    <2>2. Owed(x) \in Nat
      BY BarTypes
    <2>3. Gain(c) = req[c].amount - req[c].burned
      BY DEF Gain
    <2> QED
      BY <2>1, <2>2, <2>3
  <1>4. CASE x # req[c].to \/ Gain(c) = 0
    <2>1. \A b \in Call : Credits(b, x)' <=> Credits(b, x)
      BY <1>1, <1>2, <1>3, <1>4 DEF Credits
    <2>2. Owed(x)' = Owed(x)
      BY <1>1, <2>1, StillOwed
    <2> QED
      BY <1>3, <1>4, <2>2
  <1>5. CASE x = req[c].to /\ Gain(c) > 0
    <2>1. pc[c] \in Critical /\ x \in CallKeys(c)
      BY <1>1, <1>5 DEF CallKeys, SettleKeys, Critical
    <2>2. \A b \in Call : ~Credits(b, x)
      <3> SUFFICES ASSUME NEW b \in Call, Credits(b, x) PROVE FALSE
        OBVIOUS
      <3>1. b = c
        BY <2>1, CreditsAlone
      <3> QED
        BY <1>1, <3>1 DEF Credits
    <2>3. Owed(x) = 0
      BY <2>2, MappingIs DEF MappingFacts
    <2>4. Credits(c, x)' /\ \A b \in Call : Credits(b, x)' => b = c
      BY <1>1, <1>2, <1>5, <2>2 DEF Credits
    <2>5. Owed(x)' = Gain(c)'
      BY <2>4, MappingStays DEF MappingFacts
    <2>6. Gain(c)' = Gain(c)
      BY <1>1 DEF Gain
    <2> QED
      BY <1>3, <1>5, <2>3, <2>5, <2>6
  <1> QED
    BY <1>3, <1>4, <1>5

(* The first write of a capture or a forfeit is the capture or forfeit.    *)
LEMMA TakeHeldRefines ==
  ASSUME ServiceInv, NEW c \in Call, TakeHeld(c)
  PROVE  Atomic!Next
  <1> DEFINE d == req[c].did
             a == req[c].amount
             h == req[c].h
             to == req[c].to
             burned == req[c].burned
             q == IF Gain(c) > 0 THEN "credit" ELSE "mark"
  <1>1. /\ pc[c] = "in" /\ req[c].op \in {"capture", "forfeit"} /\ Goto(c, q)
        /\ UNCHANGED <<req, hold, available>>
        /\ held' = [held EXCEPT ![d] = @ - a] /\ external' = external + burned
        /\ Settling(c)
    BY DEF TakeHeld, Settling, SettleOp
  <1>2. /\ h \in Call /\ d \in Did /\ to \in Did /\ a \in Nat \ {0}
        /\ burned \in 0..a /\ (req[c].op = "capture" => burned = 0)
    <2>1. burned \in 0..(IF req[c].op = "forfeit" THEN a ELSE 0)
      BY <1>1, SettleArguments
    <2>2. h \in Call /\ d \in Did /\ to \in Did /\ a \in Nat \ {0}
      BY <1>1, SettleArguments
    <2> HIDE DEF a, burned
    <2> QED
      BY <1>1, <2>1, <2>2
  <1>3. /\ holdBar[h] = [state |-> "active", did |-> d, amount |-> a]
        /\ holdBar' = [holdBar EXCEPT ![h].state = Outcome(req[c].op)]
    BY <1>1, SettleStep
  <1>4. \A x \in Did : Owed(x)' = Owed(x) + (IF x = to THEN a - burned ELSE 0)
    BY TakeHeldOwes DEF Gain
  <1>5. req[c].op = "capture" => Outcome(req[c].op) = "captured"
    BY DEF Outcome
  <1>6. req[c].op = "forfeit" => Outcome(req[c].op) = "forfeited"
    BY DEF Outcome
  <1>7. external \in Int
    BY DEF ServiceInv, LockInv, TypeOK
  <1> HIDE DEF d, a, h, to, burned, q
  <1>8. availableBar' = [availableBar EXCEPT ![to] = @ + (a - burned)]
    <2>1. \A x \in Did : available'[x] + Owed(x)' =
                         IF x = to THEN availableBar[to] + (a - burned) ELSE availableBar[x]
      BY <1>1, <1>2, <1>4, BarTypes DEF availableBar
    <2> QED
      BY <1>2, <2>1, BalanceChanges
  <1>9. Atomic!Active(h) /\ holdBar[h].did = d /\ holdBar[h].amount = a
    BY <1>3 DEF Atomic!Active
  <1>10. CASE req[c].op = "capture"
    <2>1. burned = 0 /\ a - burned = a /\ external + burned = external
      BY <1>2, <1>7, <1>10
    <2>2. availableBar' = [availableBar EXCEPT ![to] = @ + a] /\ external' = external
      BY <1>1, <1>8, <2>1
    <2>3. Atomic!Capture(h, to)
      BY <1>1, <1>3, <1>5, <1>9, <1>10, <2>2 DEF Atomic!Capture
    <2> QED
      BY <1>2, <2>3 DEF Atomic!Next
  <1>11. CASE req[c].op = "forfeit"
    <2>1. Atomic!Forfeit(h, to, burned)
      BY <1>1, <1>2, <1>3, <1>6, <1>8, <1>9, <1>11 DEF Atomic!Forfeit
    <2> QED
      BY <1>2, <1>9, <2>1 DEF Atomic!Next
  <1> QED
    BY <1>1, <1>10, <1>11

(* The recipient's row catches up with what it was owed.                   *)
LEMMA PayRecipientSilent ==
  ASSUME ServiceInv, NEW c \in Call, PayRecipient(c)
  PROVE  UNCHANGED barVars
  <1> DEFINE to == req[c].to
  <1>1. /\ pc[c] = "credit" /\ Goto(c, "mark") /\ UNCHANGED <<held, hold, external, req>>
        /\ available' = [available EXCEPT ![to] = @ + Gain(c)]
    BY DEF PayRecipient
  <1>2. pc'[c] = "mark" /\ \A b \in Call \ {c} : pc'[b] = pc[b]
    BY <1>1, MoveOne DEF Point, Critical
  <1>3. to \in Did /\ Credits(c, to) /\ Gain(c) \in Int
    BY <1>1, BarTypes DEF Credits, Request
  <1>4. \A b \in Call : Credits(b, to) => b = c
    BY <1>3, CreditsOnce
  <1>5. Owed(to) = Gain(c)
    BY <1>3, <1>4, MappingIs DEF MappingFacts
  <1>6. Owed(to)' = 0
    <2>1. \A b \in Call : ~(pc'[b] = "credit" /\ req'[b].to = to)
      BY <1>1, <1>2, <1>4 DEF Credits
    <2>2. to' = to
      BY <1>1
    <2> HIDE DEF to
    <2>3. \A b \in Call : ~Credits(b, to)'
      BY <2>1, <2>2 DEF Credits
    <2>4. \A x \in Did : (\A b \in Call : ~Credits(b, x)') => Owed(x)' = 0
      BY MappingStays DEF MappingFacts
    <2> QED
      BY <1>3, <2>2, <2>3, <2>4
  <1>7. \A x \in Did \ {to} : Owed(x)' = Owed(x)
    BY <1>1, <1>2, StillOwed DEF Credits
  <1>8. availableBar' = availableBar
    <2>1. \A x \in Did : available'[x] + Owed(x)' = available[x] + Owed(x)
      BY <1>1, <1>3, <1>5, <1>6, <1>7, BarTypes DEF ServiceInv, LockInv, TypeOK
    <2> QED
      BY <2>1 DEF availableBar
  <1>9. holdBar' = holdBar
    <2> SUFFICES ASSUME NEW h \in Call PROVE holdBar'[h] = holdBar[h]
      BY RowsStay
    <2>1. Unmarked(h)' = Unmarked(h)
      BY <1>1, <1>2 DEF Unmarked
    <2> QED
      BY <1>1, <2>1, StillShown
  <1> QED
    BY <1>1, <1>8, <1>9 DEF barVars

(* The row catches up with what it showed.                                 *)
LEMMA MarkSilent ==
  ASSUME ServiceInv, NEW c \in Call, Mark(c)
  PROVE  UNCHANGED barVars
  <1> DEFINE h == req[c].h
  <1>1. /\ pc[c] = "mark" /\ Goto(c, "exit") /\ UNCHANGED <<available, held, external, req>>
        /\ hold' = [hold EXCEPT ![h] = MarkedRow(c)]
    BY DEF Mark
  <1>2. pc'[c] = "exit" /\ \A b \in Call \ {c} : pc'[b] = pc[b]
    BY <1>1, MoveOne DEF Point, Critical
  <1>3. h \in Call /\ c \in Unmarked(h)
    BY <1>1 DEF ServiceInv, LockInv, RequestInv, Request, Unmarked
  <1>4. Unmarked(h) = {c}
    <2>1. \A b \in Unmarked(h) : b = c
      BY <1>3, MarksOnce
    <2> QED
      BY <1>3, <2>1
  <1>5. availableBar' = availableBar
    <2>1. \A b \in Call : pc'[b] = "credit" <=> pc[b] = "credit"
      BY <1>1, <1>2
    <2>2. \A x \in Did : Owed(x)' = Owed(x)
      BY <1>1, <2>1, StillOwed DEF Credits
    <2> QED
      BY <1>1, <2>2 DEF availableBar
  <1>6. holdBar'[h] = holdBar[h]
    <2>1. holdBar[h] = MarkedRow(c)
      BY <1>3, <1>4, MappingIs DEF MappingFacts
    <2>2. Unmarked(h)' = {}
      BY <1>1, <1>2, <1>4 DEF Unmarked
    <2>3. h' = h
      BY <1>1
    <2>4. holdBar'[h] = hold'[h]
      BY <1>3, <2>2, <2>3, MappingStays DEF MappingFacts
    <2>5. hold'[h] = MarkedRow(c)
      BY <1>1, <1>3 DEF ServiceInv, LockInv, TypeOK
    <2> QED
      BY <2>1, <2>4, <2>5
  <1>7. \A x \in Call \ {h} : holdBar'[x] = holdBar[x]
    <2> SUFFICES ASSUME NEW x \in Call \ {h} PROVE holdBar'[x] = holdBar[x]
      OBVIOUS
    <2>1. Unmarked(x)' = Unmarked(x)
      BY <1>1, <1>2 DEF Unmarked
    <2>2. hold'[x] = hold[x]
      BY <1>1 DEF ServiceInv, LockInv, TypeOK
    <2> QED
      BY <1>1, <2>1, <2>2, StillShown
  <1>8. holdBar' = holdBar
    BY <1>6, <1>7, RowsStay
  <1> QED
    BY <1>1, <1>5, <1>8 DEF barVars

-----------------------------------------------------------------------------
(* Both instances of Wallet sum a function alike.                          *)
LEMMA OneSum == ASSUME NEW f PROVE Atomic!SumFunction(f) = W!SumFunction(f)
  BY DEF W!SumFunction, W!SumFunctionOnSet, W!FoldFunctionOnSet, W!MapThenFoldSet,
         Atomic!SumFunction, Atomic!SumFunctionOnSet, Atomic!FoldFunctionOnSet,
         Atomic!MapThenFoldSet

(* The service starts as the atomic wallet does, and every step is one of  *)
(* its operations or changes nothing a caller could see.                   *)
LEMMA StartsAsWallet == Init => Atomic!Init
  <1> SUFFICES ASSUME Init PROVE Atomic!Init
    OBVIOUS
  <1>1. \A c \in Call : pc[c] = "new"
    BY DEF Init
  <1>2. \A d \in Did : Owed(d) = 0
    BY <1>1, MappingIs DEF MappingFacts, Credits
  <1>3. \A h \in Call : holdBar[h] = hold[h]
    BY <1>1, MappingIs DEF MappingFacts, Unmarked
  <1>4. available \in [Did -> 0..Seed] /\ hold = [h \in Call |-> W!NoHold]
    BY DEF Init, W!Init
  <1>5. availableBar = available
    <2>1. \A d \in Did : available[d] + 0 = available[d]
      BY <1>4
    <2>2. availableBar = [d \in Did |-> available[d]]
      BY <1>2, <2>1 DEF availableBar
    <2> QED
      BY <1>4, <2>2
  <1>6. holdBar = [h \in Call |-> Atomic!NoHold]
    <2>1. holdBar = [h \in Call |-> holdBar[h]]
      BY DEF holdBar
    <2> HIDE DEF holdBar
    <2>2. \A h \in Call : holdBar[h] = Atomic!NoHold
      BY <1>3, <1>4 DEF Atomic!NoHold, W!NoHold
    <2> QED
      BY <2>1, <2>2
  <1> HIDE DEF availableBar, holdBar
  <1>7. held = [d \in Did |-> 0] /\ external = -W!SumFunction(available)
    BY DEF Init, W!Init
  <1>8. external = -Atomic!SumFunction(available)
    BY <1>7, OneSum
  <1> QED
    BY <1>4, <1>5, <1>6, <1>7, <1>8 DEF Atomic!Init

(* An invocation is a stutter of the abstract wallet,                      *)
LEMMA InvokeSilent ==
  ASSUME ServiceInv, NEW c \in Call, Invoke(c)
  PROVE  UNCHANGED barVars
  <1>1. /\ UNCHANGED rowVars /\ pc[c] = "new"
        /\ \E q \in {"queued", "look"} : Goto(c, q)
        /\ \E r : req' = [req EXCEPT ![c] = r]
    BY DEF Invoke, CallFunds, CallSettle, Enqueue
  <1>2. \A b \in Call : /\ pc'[b] = "credit" <=> pc[b] = "credit"
                        /\ pc'[b] = "mark" <=> pc[b] = "mark"
                        /\ pc[b] \in {"credit", "mark"} => req'[b] = req[b]
    BY <1>1 DEF Goto, ServiceInv, LockInv, TypeOK
  <1> QED
    BY <1>1, <1>2, SilentStep

(* and so is every step that writes no row.                                *)
LEMMA QuietSilent ==
  ASSUME ServiceInv, NEW c \in Call,
         Look(c) \/ Enter(c) \/ Refuse(c) \/ Leave(c) \/ Unlock(c)
  PROVE  UNCHANGED barVars
  <1>1. /\ UNCHANGED <<rowVars, req>> /\ pc[c] \in {"look", "queued", "in", "exit", "left"}
        /\ \E q \in {"queued", "failed", "in", "exit", "left", "done"} : Goto(c, q)
    BY DEF Look, Enter, Refuse, Leave, Unlock, Enqueue, rowVars
  <1>2. \A b \in Call : /\ pc'[b] = "credit" <=> pc[b] = "credit"
                        /\ pc'[b] = "mark" <=> pc[b] = "mark"
    BY <1>1 DEF Goto, ServiceInv, LockInv, TypeOK
  <1> QED
    BY <1>1, <1>2, SilentStep

(* Every step is one of the abstract wallet or a stutter.                  *)
LEMMA StepsAsWallet == ServiceInv /\ [Next]_vars => [Atomic!Next]_barVars
  <1> SUFFICES ASSUME ServiceInv, [Next]_vars PROVE Atomic!Next \/ UNCHANGED barVars
    OBVIOUS
  <1>1. CASE UNCHANGED vars
    BY <1>1, SilentStep DEF vars, rowVars
  <1>2. CASE Next
    <2>1. PICK c \in Call : Invoke(c) \/ Continue(c)
      BY <1>2 DEF Next
    <2>2. CASE Invoke(c)
      BY <2>2, InvokeSilent
    <2>3. CASE Look(c) \/ Enter(c) \/ Refuse(c) \/ Leave(c) \/ Unlock(c)
      BY <2>3, QuietSilent
    <2>4. CASE Credit(c)
      BY <2>4, CreditRefines
    <2>5. CASE Debit(c)
      BY <2>5, DebitRefines
    <2>6. CASE Earmark(c)
      BY <2>6, EarmarkRefines
    <2>7. CASE ReturnHeld(c)
      BY <2>7, ReturnHeldRefines
    <2>8. CASE TakeHeld(c)
      BY <2>8, TakeHeldRefines
    <2>9. CASE PayRecipient(c)
      BY <2>9, PayRecipientSilent
    <2>10. CASE Mark(c)
      BY <2>10, MarkSilent
    <2> QED
      BY <2>1, <2>2, <2>3, <2>4, <2>5, <2>6, <2>7, <2>8, <2>9, <2>10 DEF Continue
  <1> QED
    BY <1>1, <1>2

(* At every await of every call, whatever the wallets, the number of       *)
(* concurrent calls and the amounts, the service shows its callers a state *)
(* the atomic wallet could be in: the other services may be composed over  *)
(* Wallet instead of over its awaits.                                      *)
THEOREM ServiceImplementsWallet == Spec => ImplementsWallet
  <1>1. Init /\ [][Next]_vars /\ []ServiceInv => Atomic!Init /\ [][Atomic!Next]_barVars
    BY StartsAsWallet, StepsAsWallet, PTL
  <1>2. Spec => Atomic!Init /\ [][Atomic!Next]_barVars
    BY <1>1, ServiceInvariant, PTL DEF Spec
  <1> QED
    BY <1>2 DEF ImplementsWallet, Atomic!Spec, Atomic!walletVars, barVars

-----------------------------------------------------------------------------
(* Registry: arithmetic of the scores.                                     *)

(* The larger of two numbers,                                              *)
LEMMA LargerOf ==
  ASSUME NEW a \in Int, NEW b \in Int
  PROVE  Max({a, b}) = IF a >= b THEN a ELSE b
BY DEF Max

(* and the smaller.                                                        *)
LEMMA SmallerOf ==
  ASSUME NEW a \in Int, NEW b \in Int
  PROVE  Min({a, b}) = IF a <= b THEN a ELSE b
BY DEF Min

(* A quotient grows with what is divided,                                  *)
LEMMA DivMore ==
  ASSUME NEW a \in Int, NEW b \in Int, NEW d \in Nat, d > 0, a <= b
  PROVE  a \div d \in Int /\ b \div d \in Int /\ a \div d <= b \div d
OBVIOUS

(* and shrinks as the divisor grows.                                       *)
LEMMA DivLess ==
  ASSUME NEW a \in Nat, NEW d \in Nat, NEW e \in Nat, d > 0, d <= e
  PROVE  a \div e \in Nat /\ a \div d \in Nat /\ a \div e <= a \div d
<1>1. e > 0
  OBVIOUS
<1>2. /\ a \div e \in Int /\ e * (a \div e) <= a /\ a < e * (a \div e + 1)
      /\ a \div d \in Int /\ d * (a \div d) <= a /\ a < d * (a \div d + 1)
  BY <1>1
<1>3. PICK x \in Int, y \in Int : x = a \div e /\ y = a \div d
  BY <1>2
<1>4. e * x <= a /\ a < e * (x + 1) /\ d * y <= a /\ a < d * (y + 1)
  BY <1>2, <1>3
<1>5. x >= 0 /\ y >= 0
  <2>1. ASSUME NEW k \in Nat, k > 0, NEW z \in Int, a < k * (z + 1), z < 0 PROVE FALSE
    <3>1. k * (z + 1) <= 0
      BY <2>1
    <3> QED
      BY <2>1, <3>1
  <2> QED
    BY <1>1, <1>4, <2>1
<1>6. d * x <= e * x
  BY <1>5
<1>7. x <= y
  <2>1. SUFFICES ASSUME x >= y + 1 PROVE FALSE
    OBVIOUS
  <2>2. d * x >= d * (y + 1)
    BY <2>1
  <2> QED
    BY <1>4, <1>6, <2>2
<1> QED
  BY <1>3, <1>5, <1>7

(* A product grows with a factor when the other is no less than 0.         *)
LEMMA TimesMore ==
  ASSUME NEW w \in Nat, NEW a \in Int, NEW b \in Int, a <= b
  PROVE  w * a \in Int /\ w * b \in Int /\ w * a <= w * b
OBVIOUS

(* A clamped value is a percentage, and keeps the order.                   *)
LEMMA ClampMore ==
  ASSUME NEW a \in Int, NEW b \in Int, a <= b
  PROVE  Clamp(a) \in 0..100 /\ Clamp(b) \in 0..100 /\ Clamp(a) <= Clamp(b)
BY DEF Clamp

(* A listing that asks a lower price of the same query has no less room    *)
(* under its ceiling,                                                      *)
LEMMA PriceMore ==
  ASSUME NEW q \in Query, NEW l \in Listing, NEW m \in Listing, l.price <= m.price
  PROVE  /\ PriceHeadroom(q, l) \in 0..100 /\ PriceHeadroom(q, m) \in 0..100
         /\ PriceHeadroom(q, m) <= PriceHeadroom(q, l)
<1>1. CASE q.ceiling = None \/ q.ceiling.amount = 0
  BY <1>1 DEF PriceHeadroom
<1>2. CASE q.ceiling # None /\ q.ceiling.amount # 0
  <2>1. PICK c \in Nat : c = q.ceiling.amount /\ c > 0
    BY <1>2 DEF Query, Ceiling
  <2>2. PICK a \in Nat, b \in Nat : a = l.price /\ b = m.price /\ a <= b
    BY DEF Listing
  <2>3. 100 * (c - b) <= 100 * (c - a) /\ 100 * (c - b) \in Int /\ 100 * (c - a) \in Int
    BY <2>1, <2>2
  <2>4. /\ (100 * (c - b)) \div c \in Int /\ (100 * (c - a)) \div c \in Int
        /\ (100 * (c - b)) \div c <= (100 * (c - a)) \div c
    BY <2>1, <2>3, DivMore
  <2>5. /\ PriceHeadroom(q, l) = Clamp((100 * (c - a)) \div c)
        /\ PriceHeadroom(q, m) = Clamp((100 * (c - b)) \div c)
    BY <1>2, <2>1, <2>2 DEF PriceHeadroom
  <2> QED
    BY <2>4, <2>5, ClampMore
<1> QED
  BY <1>1, <1>2

(* one that is faster no less of the latency,                              *)
LEMMA LatencyMore ==
  ASSUME NEW q \in Query, NEW l \in Listing, NEW m \in Listing, l.p95 <= m.p95
  PROVE  /\ Latency(q, l) \in 0..100 /\ Latency(q, m) \in 0..100
         /\ Latency(q, m) <= Latency(q, l)
<1>1. CASE q.target = None
  BY <1>1 DEF Latency
<1>2. CASE q.target # None
  <2>1. PICK c \in Nat : c = 100 * q.target
    BY <1>2 DEF Query
  <2>2. PICK a \in Nat, b \in Nat : /\ a = Max({l.p95, 1}) /\ b = Max({m.p95, 1})
                                    /\ a > 0 /\ a <= b
    BY LargerOf DEF Listing
  <2>3. c \div b \in Nat /\ c \div a \in Nat /\ c \div b <= c \div a
    BY <2>2, DivLess
  <2>4. Latency(q, l) = Clamp(c \div a) /\ Latency(q, m) = Clamp(c \div b)
    BY <1>2, <2>1, <2>2 DEF Latency
  <2> QED
    BY <2>3, <2>4, ClampMore
<1> QED
  BY <1>1, <1>2

(* one with as much to lose no less of the stake,                          *)
LEMMA StakeMore ==
  ASSUME NEW l \in Listing, NEW m \in Listing,
         l.slashable \/ ~m.slashable, l.stake >= m.stake
  PROVE  /\ StakeScore(l) \in 0..100 /\ StakeScore(m) \in 0..100
         /\ StakeScore(m) <= StakeScore(l)
<1>1. PICK a \in Nat, b \in Nat : a = 100 * l.stake /\ b = 100 * m.stake /\ b <= a
  <2>1. PICK x \in Nat, y \in Nat : x = l.stake /\ y = m.stake
    BY DEF Listing
  <2>2. 100 * x \in Nat /\ 100 * y \in Nat /\ 100 * y <= 100 * x
    BY <2>1
  <2> QED
    BY <2>1, <2>2
<1>2. StakeSaturation \in Nat /\ StakeSaturation > 0
  BY RegistryAssumption
<1>3. /\ a \div StakeSaturation \in Int /\ b \div StakeSaturation \in Int
      /\ b \div StakeSaturation <= a \div StakeSaturation
  BY <1>1, <1>2, DivMore
<1>4. /\ Clamp(a \div StakeSaturation) \in 0..100 /\ Clamp(b \div StakeSaturation) \in 0..100
      /\ Clamp(b \div StakeSaturation) <= Clamp(a \div StakeSaturation)
  BY <1>3, ClampMore
<1> QED
  BY <1>1, <1>4 DEF StakeScore

(* one that fits as many of the schemas no less of the match,              *)
LEMMA SchemaMore ==
  ASSUME NEW q \in Query, NEW l \in Listing, NEW m \in Listing,
         \A side \in {"input", "output"} : m[side] = q[side] => l[side] = q[side]
  PROVE  /\ SchemaMatch(q, l) \in Int /\ SchemaMatch(q, m) \in Int
         /\ SchemaMatch(q, m) <= SchemaMatch(q, l)
<1> DEFINE Wanted == {side \in {"input", "output"} : q[side] # None}
           Hits(x) == {side \in {"input", "output"} : q[side] # None /\ q[side] = x[side]}
<1>1. IsFiniteSet({"input", "output"})
  <2>1. {"input", "output"} = {"input"} \cup {"output"}
    OBVIOUS
  <2>2. IsFiniteSet({"input"})
    BY FS_Singleton
  <2>3. IsFiniteSet({"input"} \cup {"output"})
    BY <2>2, FS_AddElement
  <2> QED
    BY <2>1, <2>3
<1>2. IsFiniteSet(Wanted) /\ IsFiniteSet(Hits(l)) /\ IsFiniteSet(Hits(m)) /\ Hits(m) \subseteq Hits(l)
  BY <1>1, FS_Subset
<1>3. PICK w \in Nat, a \in Nat, b \in Nat :
        w = Cardinality(Wanted) /\ a = Cardinality(Hits(l)) /\ b = Cardinality(Hits(m))
  BY <1>2, FS_CardinalityType
<1>4. b <= a
  <2>1. Cardinality(Hits(m)) <= Cardinality(Hits(l))
    BY <1>2, FS_Subset
  <2> QED
    BY <1>3, <2>1
<1>5. /\ SchemaMatch(q, l) = IF w = 0 THEN 100 ELSE (100 * a) \div w
      /\ SchemaMatch(q, m) = IF w = 0 THEN 100 ELSE (100 * b) \div w
  BY <1>3 DEF SchemaMatch
<1>6. w # 0 => /\ (100 * a) \div w \in Int /\ (100 * b) \div w \in Int
               /\ (100 * b) \div w <= (100 * a) \div w
  BY <1>4, DivMore
<1> QED
  BY <1>5, <1>6

(* and one settled with no longer ago no less of the freshness.            *)
LEMMA FreshMore ==
  ASSUME NEW a \in Nat \cup {None}, NEW b \in Nat \cup {None}, NEW t \in Nat,
         b = None \/ (a # None /\ a >= b)
  PROVE  /\ Freshness(a, t) \in 0..100 /\ Freshness(b, t) \in 0..100
         /\ Freshness(b, t) <= Freshness(a, t)
<1> DEFINE Age(s) == (100 * Max({0, t - s})) \div FreshnessHorizon
<1>1. FreshnessHorizon \in Nat /\ FreshnessHorizon > 0
  BY RegistryAssumption
<1>2. ASSUME NEW s \in Nat
      PROVE  /\ 100 * Max({0, t - s}) \in Int /\ Age(s) \in Int
             /\ Clamp(100 - Age(s)) \in 0..100
  <2>1. 100 * Max({0, t - s}) \in Int
    BY LargerOf
  <2>2. Age(s) \in Int
    BY <1>1, <2>1, DivMore
  <2>3. 100 - Age(s) \in Int /\ 100 - Age(s) <= 100 - Age(s)
    BY <2>2
  <2> HIDE DEF Age
  <2> QED
    BY <2>1, <2>2, <2>3, ClampMore DEF Age
<1>3. ASSUME a \in Nat, b \in Nat, a >= b
      PROVE  Clamp(100 - Age(b)) <= Clamp(100 - Age(a))
  <2>1. 100 * Max({0, t - a}) <= 100 * Max({0, t - b})
    BY <1>3, LargerOf
  <2>2. Age(a) <= Age(b)
    BY <1>1, <1>2, <1>3, <2>1, DivMore
  <2>3. Age(a) \in Int /\ Age(b) \in Int
    BY <1>2, <1>3
  <2> HIDE DEF Age
  <2>4. 100 - Age(b) \in Int /\ 100 - Age(a) \in Int /\ 100 - Age(b) <= 100 - Age(a)
    BY <2>2, <2>3
  <2> QED
    BY <2>4, ClampMore
<1>4. \A s : Freshness(s, t) = IF s = None THEN 0 ELSE Clamp(100 - Age(s))
  BY Zenon DEF Freshness
<1> HIDE DEF Age
<1>5. ASSUME NEW s \in Nat \cup {None}
      PROVE  Freshness(s, t) \in 0..100
  <2>1. CASE s = None
    <3>1. Freshness(s, t) = 0
      BY <1>4, <2>1
    <3> QED
      BY <3>1
  <2>2. CASE s # None
    <3>1. s \in Nat /\ Freshness(s, t) = Clamp(100 - Age(s))
      BY <1>4, <2>2
    <3> QED
      BY <1>2, <3>1
  <2> QED
    BY <2>1, <2>2
<1>6. CASE b = None
  BY <1>4, <1>5, <1>6
<1>7. CASE b # None
  BY <1>3, <1>4, <1>5, <1>7
<1> QED
  BY <1>5, <1>6, <1>7

(* Where one listing of a query is nowhere worse than another.             *)
NoWorse(q, l, m, rep) ==
  /\ l.price <= m.price /\ l.p95 <= m.p95
  /\ l.slashable \/ ~m.slashable
  /\ l.stake >= m.stake
  /\ rep[l.provider].trust >= rep[m.provider].trust
  /\ \/ rep[m.provider].settled = None
     \/ IF rep[l.provider].settled = None THEN FALSE
        ELSE rep[l.provider].settled >= rep[m.provider].settled
  /\ \A side \in {"input", "output"} : m[side] = q[side] => l[side] = q[side]

(* The score of such a listing is a percentage that is no lower, whatever  *)
(* the weights.                                                            *)
LEMMA ScoreMore ==
  ASSUME NEW q \in Query, NEW l \in Listing, NEW m \in Listing,
         NEW rep, NEW t \in Nat,
         rep[l.provider] \in ProviderReputation, rep[m.provider] \in ProviderReputation,
         NoWorse(q, l, m, rep)
  PROVE  /\ Score(q, l, rep, t) \in 0..100 /\ Score(q, m, rep, t) \in 0..100
         /\ Score(q, m, rep, t) <= Score(q, l, rep, t)
<1>1. PICK w1 \in Nat, w2 \in Nat, w3 \in Nat, w4 \in Nat, w5 \in Nat :
        /\ w1 = q.weights.price /\ w2 = q.weights.latency /\ w3 = q.weights.trust
        /\ w4 = q.weights.schema /\ w5 = q.weights.stake
  BY DEF Query, Weights
<1>2. PICK a1 \in Int, b1 \in Int :
        a1 = PriceHeadroom(q, l) /\ b1 = PriceHeadroom(q, m) /\ b1 <= a1
  BY PriceMore DEF NoWorse
<1>3. PICK a2 \in Int, b2 \in Int : a2 = Latency(q, l) /\ b2 = Latency(q, m) /\ b2 <= a2
  BY LatencyMore DEF NoWorse
<1>4. PICK a3 \in Int, b3 \in Int :
        a3 = rep[l.provider].trust /\ b3 = rep[m.provider].trust /\ b3 <= a3
  <2>1. rep[l.provider].trust \in 0..100 /\ rep[m.provider].trust \in 0..100
    BY DEF ProviderReputation
  <2>2. rep[m.provider].trust <= rep[l.provider].trust
    BY <2>1 DEF NoWorse
  <2>3. rep[l.provider].trust \in Int /\ rep[m.provider].trust \in Int
    BY <2>1
  <2> QED
    BY <2>2, <2>3
<1>5. PICK a4 \in Int, b4 \in Int : a4 = SchemaMatch(q, l) /\ b4 = SchemaMatch(q, m) /\ b4 <= a4
  BY SchemaMore DEF NoWorse
<1>6. PICK a5 \in Int, b5 \in Int : a5 = StakeScore(l) /\ b5 = StakeScore(m) /\ b5 <= a5
  BY StakeMore DEF NoWorse
<1>7. PICK a6 \in Int, b6 \in Int :
        /\ a6 = Freshness(rep[l.provider].settled, t)
        /\ b6 = Freshness(rep[m.provider].settled, t) /\ b6 <= a6
  <2>1. PICK x, y : x = rep[l.provider].settled /\ y = rep[m.provider].settled
    OBVIOUS
  <2>2. x \in Nat \cup {None} /\ y \in Nat \cup {None}
    BY <2>1 DEF ProviderReputation
  <2>3. y = None \/ (x # None /\ x >= y)
    BY <2>1 DEF NoWorse
  <2>4. /\ Freshness(x, t) \in 0..100 /\ Freshness(y, t) \in 0..100
        /\ Freshness(y, t) <= Freshness(x, t)
    BY <2>2, <2>3, FreshMore
  <2> QED
    BY <2>1, <2>4
<1>8. PICK d \in Nat : d = Max({w1 + w2 + w3 + w4 + w5, 1}) /\ d > 0
  BY LargerOf
<1> DEFINE A == w1 * a1 + w2 * a2 + w3 * a3 + w4 * a4 + w5 * a5
           B == w1 * b1 + w2 * b2 + w3 * b3 + w4 * b4 + w5 * b5
<1>9. A \in Int /\ B \in Int /\ B <= A
  <2>1. w1 * a1 \in Int /\ w1 * b1 \in Int /\ w1 * b1 <= w1 * a1
    BY <1>2, TimesMore
  <2>2. w2 * a2 \in Int /\ w2 * b2 \in Int /\ w2 * b2 <= w2 * a2
    BY <1>3, TimesMore
  <2>3. w3 * a3 \in Int /\ w3 * b3 \in Int /\ w3 * b3 <= w3 * a3
    BY <1>4, TimesMore
  <2>4. w4 * a4 \in Int /\ w4 * b4 \in Int /\ w4 * b4 <= w4 * a4
    BY <1>5, TimesMore
  <2>5. w5 * a5 \in Int /\ w5 * b5 \in Int /\ w5 * b5 <= w5 * a5
    BY <1>6, TimesMore
  <2>6. \A x1, x2, x3, x4, x5, y1, y2, y3, y4, y5 \in Int :
          y1 <= x1 /\ y2 <= x2 /\ y3 <= x3 /\ y4 <= x4 /\ y5 <= x5 =>
            /\ x1 + x2 + x3 + x4 + x5 \in Int /\ y1 + y2 + y3 + y4 + y5 \in Int
            /\ y1 + y2 + y3 + y4 + y5 <= x1 + x2 + x3 + x4 + x5
    OBVIOUS
  <2> QED
    BY <2>1, <2>2, <2>3, <2>4, <2>5, <2>6
<1>10. /\ Score(q, l, rep, t) = Clamp(A \div d + (5 * a6) \div 100)
       /\ Score(q, m, rep, t) = Clamp(B \div d + (5 * b6) \div 100)
  BY <1>1, <1>2, <1>3, <1>4, <1>5, <1>6, <1>7, <1>8 DEF Score
<1> HIDE DEF A, B
<1>11. A \div d \in Int /\ B \div d \in Int /\ B \div d <= A \div d
  BY <1>8, <1>9, DivMore
<1>12. /\ (5 * a6) \div 100 \in Int /\ (5 * b6) \div 100 \in Int
       /\ (5 * b6) \div 100 <= (5 * a6) \div 100
  BY <1>7
<1>13. /\ A \div d + (5 * a6) \div 100 \in Int /\ B \div d + (5 * b6) \div 100 \in Int
       /\ B \div d + (5 * b6) \div 100 <= A \div d + (5 * a6) \div 100
  BY <1>11, <1>12
<1> QED
  BY <1>10, <1>13, ClampMore

(* Every score is a percentage.                                            *)
LEMMA ScorePercent ==
  ASSUME NEW q \in Query, NEW l \in Listing, NEW rep, NEW t \in Nat,
         rep[l.provider] \in ProviderReputation
  PROVE  Score(q, l, rep, t) \in 0..100
<1>1. NoWorse(q, l, l, rep)
  <2>1. l.price \in Nat /\ l.p95 \in Nat /\ l.stake \in Nat
    BY DEF Listing
  <2>2. rep[l.provider].trust \in 0..100 /\ rep[l.provider].settled \in Nat \cup {None}
    BY DEF ProviderReputation
  <2>3. rep[l.provider].settled # None => rep[l.provider].settled >= rep[l.provider].settled
    BY <2>2
  <2>4. rep[l.provider].trust >= rep[l.provider].trust
    BY <2>2
  <2> QED
    BY <2>1, <2>3, <2>4 DEF NoWorse
<1> QED
  BY <1>1, ScoreMore

-----------------------------------------------------------------------------
(* Registry: the order of the matches.                                     *)

(* Listings of different ids, as the registry stores them.                 *)
Distinct(S) == \A l, m \in S : l.id = m.id => l = m

(* The place of a candidate is its number in the order of the scores:      *)
(* it is one of 1..n, and no two candidates share one.                     *)
LEMMA PlacesDiffer ==
  ASSUME NEW S, IsFiniteSet(S), Distinct(S), \A l \in S : l.id \in Nat,
         NEW score \in [S -> Int]
  PROVE  /\ \A l \in S : Place(score, l) \in 1..Cardinality(S)
         /\ \A l, m \in S : Outranks(score, l, m) => Place(score, l) < Place(score, m)
         /\ \A l, m \in S : l = m \/ Outranks(score, l, m) \/ Outranks(score, m, l)
<1> DEFINE InFront(l) == {m \in S : Outranks(score, m, l)}
<1>1. ASSUME NEW l \in S
      PROVE  /\ IsFiniteSet(InFront(l)) /\ Cardinality(InFront(l)) \in Nat
             /\ Place(score, l) = 1 + Cardinality(InFront(l))
  <2>1. IsFiniteSet(InFront(l))
    BY FS_Subset
  <2>2. Place(score, l) = 1 + Cardinality(InFront(l))
    BY DEF Place
  <2> QED
    BY <2>1, <2>2, FS_CardinalityType
<1>2. ASSUME NEW l \in S
      PROVE  Place(score, l) \in 1..Cardinality(S)
  <2>1. InFront(l) \subseteq S \ {l}
    BY DEF Outranks
  <2>2. /\ IsFiniteSet(S \ {l}) /\ Cardinality(S \ {l}) = Cardinality(S) - 1
        /\ Cardinality(S) \in Nat
    BY FS_RemoveElement, FS_CardinalityType
  <2>3. Cardinality(InFront(l)) <= Cardinality(S \ {l})
    BY <2>1, <2>2, FS_Subset
  <2> HIDE DEF InFront
  <2> QED
    BY <1>1, <2>2, <2>3
<1>3. ASSUME NEW l \in S, NEW m \in S, Outranks(score, l, m)
      PROVE  Place(score, l) < Place(score, m)
  <2>1. InFront(l) \subseteq InFront(m)
    BY <1>3 DEF Outranks
  <2>2. l \in InFront(m) /\ l \notin InFront(l)
    BY <1>3 DEF Outranks
  <2> HIDE DEF InFront
  <2>3. Cardinality(InFront(l)) <= Cardinality(InFront(m))
    BY <1>1, <2>1, FS_Subset
  <2>4. Cardinality(InFront(m)) # Cardinality(InFront(l))
    BY <1>1, <2>1, <2>2, FS_Subset
  <2> QED
    BY <1>1, <2>3, <2>4
<1>4. ASSUME NEW l \in S, NEW m \in S, l # m
      PROVE  Outranks(score, l, m) \/ Outranks(score, m, l)
  <2>1. l.id # m.id /\ l.id \in Nat /\ m.id \in Nat
    BY <1>4 DEF Distinct
  <2> QED
    BY <2>1 DEF Outranks
<1> QED
  BY <1>2, <1>3, <1>4

(* Every place is taken.                                                   *)
LEMMA PlacesTaken ==
  ASSUME NEW S, IsFiniteSet(S), Distinct(S), \A l \in S : l.id \in Nat,
         NEW score \in [S -> Int], NEW i \in 1..Cardinality(S)
  PROVE  \E l \in S : Place(score, l) = i
<1> DEFINE n == Cardinality(S)
           F == [l \in S |-> Place(score, l)]
<1>1. n \in Nat
  BY FS_CardinalityType
<1>2. F \in [S -> 1..n]
  BY PlacesDiffer
<1>3. ASSUME NEW l \in S, NEW m \in S, F[l] = F[m]
      PROVE  l = m
  <2>1. F[l] \in Nat /\ F[m] \in Nat /\ F[l] = Place(score, l) /\ F[m] = Place(score, m)
    BY <1>1, <1>2
  <2>2. ~Outranks(score, l, m) /\ ~Outranks(score, m, l)
    BY <1>3, <2>1, PlacesDiffer
  <2> QED
    BY <2>2, PlacesDiffer
<1>4. IsFiniteSet(1..n) /\ Cardinality(1..n) = n
  BY <1>1, FS_Interval
<1> HIDE DEF F
<1>5. F \in Injection(S, 1..n)
  BY <1>2, <1>3 DEF Injection, IsInjective
<1>6. F \in Surjection(S, 1..n)
  BY <1>4, <1>5, FS_Injection
<1>7. \E l \in S : F[l] = i
  BY <1>6 DEF Surjection
<1> QED
  BY <1>7 DEF F

(* The matches are the first of the candidates in that order, each at its  *)
(* place.                                                                  *)
LEMMA RankedFacts ==
  ASSUME NEW q, q.max \in Nat \ {0}, NEW S, IsFiniteSet(S), Distinct(S),
         \A l \in S : l.id \in Nat, NEW rep, NEW t,
         NEW score \in [S -> Int], score = [l \in S |-> Score(q, l, rep, t)]
  PROVE  LET matches == Ranked(q, S, rep, t)
         IN  /\ matches \in Seq(S)
             /\ \A i \in DOMAIN matches :
                  i \in Nat /\ matches[i] \in S /\ Place(score, matches[i]) = i
             /\ \A l \in S, i \in DOMAIN matches :
                  Place(score, l) < i =>
                    Place(score, l) \in 1..i /\ matches[Place(score, l)] = l
<1> DEFINE n == Min({q.max, Cardinality(S)})
           matches == Ranked(q, S, rep, t)
           At(i) == CHOOSE l \in S : Place(score, l) = i
<1>1. n \in Nat /\ n <= Cardinality(S) /\ Cardinality(S) \in Nat
  <2>1. Cardinality(S) \in Nat
    BY FS_CardinalityType
  <2> QED
    BY <2>1, SmallerOf
<1>2. matches = [i \in 1..n |-> At(i)]
  BY DEF Ranked
<1>3. \A i \in 1..n : At(i) \in S /\ Place(score, At(i)) = i
  <2> TAKE i \in 1..n
  <2>1. i \in 1..Cardinality(S)
    BY <1>1
  <2> QED
    BY <2>1, PlacesTaken
<1> HIDE DEF n, At, matches
<1>4. \A i \in 1..n : matches[i] \in S /\ Place(score, matches[i]) = i
  BY <1>2, <1>3
<1>5. DOMAIN matches = 1..n
  BY <1>2
<1>6. matches \in Seq(S)
  <2>1. matches \in [1..n -> S]
    BY <1>2, <1>3
  <2> QED
    BY <1>1, <2>1, SeqDef
<1>7. ASSUME NEW l \in S, NEW i \in 1..n, Place(score, l) < i
      PROVE  Place(score, l) \in 1..i /\ matches[Place(score, l)] = l
  <2>1. Place(score, l) \in 1..Cardinality(S)
    BY PlacesDiffer
  <2>2. PICK k \in 1..n : k = Place(score, l) /\ k \in 1..i
    BY <1>1, <1>7, <2>1
  <2>3. matches[k] \in S /\ Place(score, matches[k]) = Place(score, l)
    BY <1>4, <2>2
  <2>4. matches[k] = l
    <3>1. Place(score, l) \in Nat
      BY <2>2
    <3> QED
      BY <2>3, <3>1, PlacesDiffer
  <2> QED
    BY <2>2, <2>4
<1> QED
  BY <1>1, <1>4, <1>5, <1>6, <1>7 DEF matches

-----------------------------------------------------------------------------
(* Registry: the invariant.                                                *)

(* What is stored is published under its own id; what was published is     *)
(* genuine, and the listing that has its id now is of the same provider.   *)
StoreOK ==
  /\ published \subseteq Listing
  /\ \A i \in ListingId : listings[i] # None => listings[i] \in published /\ listings[i].id = i
  /\ \A l \in published :
       /\ l.genuine /\ l.id \in ListingId /\ listings[l.id] # None
       /\ listings[l.id].provider = l.provider

(* A call goes on with listings of different ids that were all published.  *)
Asking == [phase : {"query"}, query : CapabilityQuery]
Publishing == [phase : {"publish"}, listing : Submission]
Resolving == [phase : {"resolve"}, query : CapabilityQuery, all : SUBSET published, at : Nat,
              rep : [Provider -> Reputations \cup {None}]]
Issuing == [phase : {"quote"}, matches : Seq(published) \ {<<>>}, issued : 0..now]

CallOK(p) ==
  \/ job[p] = Idle
  \/ job[p] \in Asking \/ job[p] \in Publishing \/ job[p] \in Issuing
  \/ job[p] \in Resolving /\ IsFiniteSet(job[p].all) /\ Distinct(job[p].all)

(* A quote is of one body that was published.                              *)
QuoteOK(quote) ==
  /\ \E l \in published :
       /\ l.genuine /\ l.id = quote.listing /\ l.version = quote.version
       /\ l.price = quote.price /\ l.currency = quote.currency /\ l.rails[1] = quote.rail
  /\ quote.issued <= now

RegistryInv ==
  /\ RegistryTypeOK /\ now \in Nat /\ StoreOK
  /\ job = [p \in Proc |-> job[p]] /\ \A p \in Proc : CallOK(p)
  /\ \A quote \in quotes : QuoteOK(quote)

(* What a call went on with is still there when more was published and     *)
(* time went by.                                                           *)
LEMMA CallStays ==
  ASSUME NEW p \in Proc, CallOK(p), published \subseteq published', now \in Nat, now' \in Nat,
         now <= now', job'[p] = job[p]
  PROVE  CallOK(p)'
<1>1. CASE job[p] = Idle
  BY <1>1 DEF CallOK, Idle
<1>2. CASE job[p] \in Asking \/ job[p] \in Publishing
  BY <1>2 DEF CallOK, Asking, Publishing
<1>3. CASE job[p] \in Issuing
  <2>1. Seq(published) \subseteq Seq(published')
    BY SeqDef
  <2>2. job[p] \in Issuing'
    BY <1>3, <2>1 DEF Issuing
  <2> QED
    BY <2>2 DEF CallOK
<1>4. CASE job[p] \in Resolving /\ IsFiniteSet(job[p].all) /\ Distinct(job[p].all)
  <2>1. job[p] \in Resolving'
    BY <1>4 DEF Resolving
  <2> QED
    BY <1>4, <2>1 DEF CallOK
<1> QED
  BY <1>1, <1>2, <1>3, <1>4 DEF CallOK

(* A step of one call leaves the others what they were.                    *)
LEMMA CallsStay ==
  ASSUME RegistryInv, NEW p \in Proc, NEW x, job' = [job EXCEPT ![p] = x],
         published \subseteq published', now' \in Nat, now <= now', CallOK(p)'
  PROVE  job' = [q \in Proc |-> job'[q]] /\ \A q \in Proc : CallOK(q)'
<1>1. job = [q \in Proc |-> job[q]] /\ \A q \in Proc : CallOK(q)
  BY DEF RegistryInv
<1>2. job' = [q \in Proc |-> job'[q]] /\ \A q \in Proc \ {p} : job'[q] = job[q]
  BY <1>1
<1>3. ASSUME NEW q \in Proc
      PROVE  CallOK(q)'
  <2>1. CASE q = p
    BY <2>1
  <2>2. CASE q # p
    <3>1. job'[q] = job[q] /\ CallOK(q) /\ now \in Nat
      BY <1>1, <1>2, <2>2 DEF RegistryInv
    <3> QED
      BY <3>1, CallStays
  <2> QED
    BY <2>1, <2>2
<1> QED
  BY <1>2, <1>3

(* A call that is as it should be is in a phase.                           *)
LEMMA CallPhase ==
  ASSUME NEW p \in Proc, CallOK(p)
  PROVE  job[p] = Idle \/ job[p].phase \in Phases
BY DEF CallOK, Asking, Publishing, Resolving, Issuing, Phases

(* The phase tells what a call goes on with.                               *)
LEMMA PhaseTells ==
  ASSUME NEW p \in Proc, CallOK(p)
  PROVE  /\ In(p, "publish") => job[p] \in Publishing
         /\ In(p, "query") => job[p] \in Asking
         /\ In(p, "quote") => job[p] \in Issuing
         /\ In(p, "resolve") =>
              job[p] \in Resolving /\ IsFiniteSet(job[p].all) /\ Distinct(job[p].all)
<1>1. Idle.phase = "idle"
  BY DEF Idle
<1> QED
  BY <1>1 DEF CallOK, Asking, Publishing, Resolving, Issuing, In

(* The listings that are stored are of different ids.                      *)
LEMMA StoredDistinct ==
  ASSUME RegistryInv
  PROVE  /\ Stored \subseteq published /\ IsFiniteSet(Stored) /\ Distinct(Stored)
         /\ \A l \in Stored : l \in Listing /\ l.id \in ListingId
<1> DEFINE J == {i \in ListingId : listings[i] # None}
           f == [i \in J |-> listings[i]]
<1>1. StoreOK
  BY DEF RegistryInv
<1>2. Stored = {listings[i] : i \in J}
  BY DEF Stored
<1>3. Stored \subseteq published /\ Distinct(Stored)
  BY <1>1, <1>2 DEF StoreOK, Distinct
<1>4. IsFiniteSet(J)
  <2>1. IsFiniteSet(ListingId)
    BY FS_Interval, RegistryAssumption DEF ListingId
  <2> QED
    BY <2>1, FS_Subset
<1>5. f \in Surjection(J, Stored)
  BY <1>2 DEF Surjection
<1>6. IsFiniteSet(Stored)
  BY <1>4, <1>5, FS_Surjection
<1> QED
  BY <1>1, <1>3, <1>6 DEF StoreOK

(* A step that stores nothing leaves the store as it should be.            *)
LEMMA StoreStays ==
  ASSUME StoreOK, UNCHANGED <<listings, published>>
  PROVE  StoreOK'
BY DEF StoreOK

(* Quotes stay good.                                                       *)
LEMMA QuotesStay ==
  ASSUME \A quote \in quotes : QuoteOK(quote), quotes \subseteq Quote, quotes' = quotes,
         published \subseteq published', now \in Nat, now' \in Nat, now <= now'
  PROVE  \A quote \in quotes' : QuoteOK(quote)'
BY DEF QuoteOK, Quote

(* Putting a genuine listing under an unused id, or one of the provider    *)
(* that has the id, keeps the store.                                       *)
LEMMA PutKeeps ==
  ASSUME RegistryInv, NEW l \in Listing, l.genuine,
         l.id \in ListingId, Put(l),
         listings[l.id] # None => listings[l.id].provider = l.provider
  PROVE  /\ StoreOK' /\ published \subseteq published'
         /\ listings' \in [ListingId -> Listing \cup {None}]
<1>1. StoreOK /\ listings \in [ListingId -> Listing \cup {None}]
  BY DEF RegistryInv, RegistryTypeOK
<1>2. /\ listings' = [listings EXCEPT ![l.id] = l] /\ published' = published \cup {l}
  BY DEF Put
<1>3. l # None
  BY RegistryAssumption
<1>4. /\ listings'[l.id] = l
      /\ \A i \in ListingId : i # l.id => listings'[i] = listings[i]
  BY <1>1, <1>2
<1>5. ASSUME NEW m \in published'
      PROVE  /\ m \in Listing /\ m.genuine /\ m.id \in ListingId /\ listings'[m.id] # None
             /\ listings'[m.id].provider = m.provider
  <2>1. CASE m = l
    BY <1>3, <1>4, <2>1
  <2>2. CASE m \in published /\ m.id = l.id
    BY <1>1, <1>3, <1>4, <2>2 DEF StoreOK
  <2>3. CASE m \in published /\ m.id # l.id
    BY <1>1, <1>4, <2>3 DEF StoreOK
  <2> QED
    BY <1>2, <2>1, <2>2, <2>3
<1>6. \A i \in ListingId : listings'[i] # None => listings'[i] \in published' /\ listings'[i].id = i
  BY <1>1, <1>2, <1>4 DEF StoreOK
<1> QED
  BY <1>1, <1>2, <1>5, <1>6 DEF StoreOK

(* What each step of a call does to the invariant: it leaves the store and *)
(* the quotes as they should be, and the call, too.                        *)
Kept(p) ==
  /\ \E x : job' = [job EXCEPT ![p] = x]
  /\ CallOK(p)' /\ StoreOK' /\ published \subseteq published' /\ now' = now
  /\ listings' \in [ListingId -> Listing \cup {None}]
  /\ quotes' \subseteq Quote /\ \A quote \in quotes' : QuoteOK(quote)'
  /\ asked' \subseteq CapabilityQuery /\ reputation' = reputation

(* Then the whole invariant holds.                                         *)
LEMMA KeptKeeps ==
  ASSUME RegistryInv, NEW p \in Proc, Kept(p)
  PROVE  RegistryInv'
<1>1. /\ now \in Nat /\ now' = now /\ published \subseteq published'
      /\ reputation \in [Provider -> Reputations]
  BY DEF RegistryInv, Kept, RegistryTypeOK
<1>2. PICK x : job' = [job EXCEPT ![p] = x]
  BY DEF Kept
<1>3. job' = [q \in Proc |-> job'[q]] /\ \A q \in Proc : CallOK(q)'
  <2>1. now' \in Nat /\ now <= now' /\ CallOK(p)'
    BY <1>1 DEF Kept
  <2> QED
    BY <1>1, <1>2, <2>1, CallsStay
<1>4. \A q \in Proc : job'[q] = Idle \/ job'[q].phase \in Phases
  <2> TAKE q \in Proc
  <2>1. CallOK(q)'
    BY <1>3
  <2> QED
    BY <2>1 DEF CallOK, Asking, Publishing, Resolving, Issuing, Phases, Idle
<1> QED
  BY <1>1, <1>3, <1>4 DEF RegistryInv, Kept, RegistryTypeOK

(* What a step that touches neither the store nor the quotes keeps.        *)
LEMMA KeptByCall ==
  ASSUME RegistryInv, NEW p \in Proc, NEW x, job' = [job EXCEPT ![p] = x],
         UNCHANGED <<listings, quotes, reputation, now, published>>,
         asked' \subseteq CapabilityQuery, CallOK(p)'
  PROVE  Kept(p)
<1>1. /\ StoreOK /\ now \in Nat /\ quotes \subseteq Quote /\ \A quote \in quotes : QuoteOK(quote)
      /\ listings \in [ListingId -> Listing \cup {None}]
  BY DEF RegistryInv, RegistryTypeOK
<1>2. StoreOK'
  BY <1>1, StoreStays
<1>3. \A quote \in quotes' : QuoteOK(quote)'
  BY <1>1, QuotesStay
<1> QED
  BY <1>1, <1>2, <1>3 DEF Kept

(* The requests: a submission, and a query with a new nonce.               *)
LEMMA RequestsKeep ==
  ASSUME RegistryInv, NEW p \in Proc, Receive(p)
  PROVE  Kept(p)
<1>1. job = [q \in Proc |-> job[q]] /\ asked \subseteq CapabilityQuery
  BY DEF RegistryInv, RegistryTypeOK
<1>2. CASE \E s \in Submission : Publish(p, s)
  <2>1. PICK s \in Submission : Publish(p, s)
    BY <1>2
  <2>2. job' = [job EXCEPT ![p] = [phase |-> "publish", listing |-> s]]
    BY <2>1 DEF Publish
  <2>3. job'[p] = [phase |-> "publish", listing |-> s]
    BY <1>1, <2>2
  <2>4. CallOK(p)'
    BY <2>3 DEF CallOK, Publishing
  <2> QED
    BY <1>1, <2>1, <2>2, <2>4, KeptByCall DEF Publish
<1>3. CASE \E query \in CapabilityQuery : Ask(p, query)
  <2>1. PICK query \in CapabilityQuery : Ask(p, query)
    BY <1>3
  <2>2. job' = [job EXCEPT ![p] = [phase |-> "query", query |-> query]]
    BY <2>1 DEF Ask
  <2>3. job'[p] = [phase |-> "query", query |-> query]
    BY <1>1, <2>2
  <2>4. CallOK(p)'
    BY <2>3 DEF CallOK, Asking
  <2>5. asked' \subseteq CapabilityQuery
    BY <1>1, <2>1 DEF Ask
  <2> QED
    BY <2>1, <2>2, <2>4, <2>5, KeptByCall DEF Ask
<1> QED
  BY <1>2, <1>3 DEF Receive

(* A submission that is stored was signed, and keeps the provider of the   *)
(* listing it names.                                                       *)
LEMMA StoreKeeps ==
  ASSUME RegistryInv, NEW p \in Proc, Store(p)
  PROVE  Kept(p)
<1>1. /\ job = [q \in Proc |-> job[q]] /\ asked \subseteq CapabilityQuery /\ CallOK(p)
      /\ now \in Nat /\ StoreOK /\ quotes \subseteq Quote /\ \A quote \in quotes : QuoteOK(quote)
      /\ listings \in [ListingId -> Listing \cup {None}]
  BY DEF RegistryInv, RegistryTypeOK
<1>2. job[p] \in Publishing
  BY <1>1, PhaseTells DEF Store
<1>3. PICK l \in Submission : l = job[p].listing
  BY <1>2 DEF Publishing
<1>4. l \in Listing
  BY RegistryAssumption
<1>5. /\ job' = [job EXCEPT ![p] = Idle]
      /\ UNCHANGED <<quotes, asked, reputation, now>>
      /\ \/ l.genuine /\ l.id = None /\ Unused # {} /\ Put([l EXCEPT !.id = Min(Unused)])
         \/ l.genuine /\ Updatable(l) /\ Put(l)
         \/ UNCHANGED <<listings, published>>
  BY <1>3 DEF Store
<1>6. CallOK(p)'
  <2>1. job'[p] = Idle
    BY <1>1, <1>5
  <2> QED
    BY <2>1 DEF CallOK, Idle
<1>7. /\ StoreOK' /\ published \subseteq published'
      /\ listings' \in [ListingId -> Listing \cup {None}]
  <2>1. CASE UNCHANGED <<listings, published>>
    BY <1>1, <2>1, StoreStays
  <2>2. CASE l.genuine /\ Updatable(l) /\ Put(l)
    <3>1. l.id \in ListingId /\ listings[l.id].provider = l.provider
      BY <1>4, <2>2 DEF Updatable, Listing
    <3> QED
      BY <1>4, <2>2, <3>1, PutKeeps
  <2>3. CASE /\ l.genuine /\ l.id = None /\ Unused # {}
             /\ Put([l EXCEPT !.id = Min(Unused)])
    <3>1. Unused \subseteq Nat
      BY DEF Unused, ListingId
    <3>2. Min(Unused) = Min(Unused)
      BY DEF Min, Min
    <3>3. PICK i : i = Min(Unused) /\ i \in Unused
      BY <2>3, <3>1, <3>2, MinNat
    <3>4. i \in ListingId /\ listings[i] = None
      BY <3>3 DEF Unused
    <3>5. PICK m : m = [l EXCEPT !.id = i]
      OBVIOUS
    <3>6. m \in Listing /\ m.id = i /\ m.genuine
      BY <1>4, <2>3, <3>4, <3>5 DEF Listing
    <3>7. Put(m)
      BY <2>3, <3>3, <3>5
    <3> QED
      BY <3>4, <3>6, <3>7, PutKeeps
  <2> QED
    BY <1>5, <2>1, <2>2, <2>3
<1>8. \A quote \in quotes' : QuoteOK(quote)'
  BY <1>1, <1>5, <1>7, QuotesStay
<1> QED
  BY <1>1, <1>5, <1>6, <1>7, <1>8 DEF Kept

(* A query reads what is stored,                                           *)
LEMMA ReadKeeps ==
  ASSUME RegistryInv, NEW p \in Proc, Read(p)
  PROVE  Kept(p)
<1>1. /\ job = [q \in Proc |-> job[q]] /\ asked \subseteq CapabilityQuery /\ CallOK(p)
      /\ now \in Nat
  BY DEF RegistryInv, RegistryTypeOK
<1>2. job[p] \in Asking
  BY <1>1, PhaseTells DEF Read
<1> DEFINE next == [phase |-> "resolve", query |-> job[p].query, all |-> Stored, at |-> now,
                    rep |-> [v \in Provider |-> None]]
           x == IF job[p].query.genuine THEN next ELSE Idle
<1>3. /\ job' = [job EXCEPT ![p] = x]
      /\ UNCHANGED <<listings, quotes, asked, reputation, now, published>>
  BY DEF Read
<1>4. next \in Resolving /\ IsFiniteSet(next.all) /\ Distinct(next.all)
  BY <1>1, <1>2, StoredDistinct DEF Resolving, Asking
<1>5. next \in Resolving' /\ job'[p] = x
  BY <1>1, <1>3, <1>4 DEF Resolving
<1> HIDE DEF next
<1>6. CallOK(p)'
  BY <1>4, <1>5 DEF CallOK, Idle
<1> HIDE DEF x
<1> QED
  BY <1>1, <1>3, <1>6, KeptByCall

(* asks reputation for the providers one by one,                           *)
LEMMA ResolveKeeps ==
  ASSUME RegistryInv, NEW p \in Proc, NEW v \in Provider, Resolve(p, v)
  PROVE  Kept(p)
<1>1. /\ job = [q \in Proc |-> job[q]] /\ asked \subseteq CapabilityQuery /\ CallOK(p)
      /\ reputation \in [Provider -> Reputations]
  BY DEF RegistryInv, RegistryTypeOK
<1>2. job[p] \in Resolving /\ IsFiniteSet(job[p].all) /\ Distinct(job[p].all)
  BY <1>1, PhaseTells DEF Resolve
<1>3. PICK x : x = [job[p] EXCEPT !.rep = [job[p].rep EXCEPT ![v] = reputation[v]]]
  OBVIOUS
<1>4. /\ job' = [job EXCEPT ![p] = x]
      /\ UNCHANGED <<listings, quotes, asked, reputation, now, published>>
  BY <1>3 DEF Resolve
<1>5. x \in Resolving /\ x.all = job[p].all
  BY <1>1, <1>2, <1>3 DEF Resolving
<1>6. x \in Resolving' /\ job'[p] = x
  BY <1>1, <1>4, <1>5 DEF Resolving
<1>7. CallOK(p)'
  BY <1>2, <1>5, <1>6 DEF CallOK
<1> QED
  BY <1>1, <1>4, <1>7, KeptByCall

(* Who is left after the hard filter is one of the candidates.             *)
LEMMA SurvivorsOf ==
  ASSUME NEW q, NEW S, NEW rep, NEW t
  PROVE  Survivors(q, S, rep, t) \subseteq S
BY DEF Survivors

(* The listings that are left after the hard filter are ranked by          *)
(* percentages.                                                            *)
LEMMA ScoresOf ==
  ASSUME NEW q \in Query, NEW S, NEW rep, NEW t \in Nat,
         \A l \in S : l \in Listing /\ rep[l.provider] \in ProviderReputation
  PROVE  [l \in S |-> Score(q, l, rep, t)] \in [S -> Int]
<1>1. \A l \in S : Score(q, l, rep, t) \in 0..100
  BY ScorePercent
<1> QED
  BY <1>1

(* ranks what it has read,                                                 *)
LEMMA RankKeeps ==
  ASSUME RegistryInv, NEW p \in Proc, Rank(p)
  PROVE  Kept(p)
<1>1. /\ job = [q \in Proc |-> job[q]] /\ asked \subseteq CapabilityQuery /\ CallOK(p)
      /\ now \in Nat /\ published \subseteq Listing
      /\ \A l \in published : l.id \in ListingId
  BY DEF RegistryInv, RegistryTypeOK, StoreOK
<1>2. job[p] \in Resolving /\ IsFiniteSet(job[p].all) /\ Distinct(job[p].all)
  BY <1>1, PhaseTells DEF Rank
<1>3. PICK q \in CapabilityQuery, t \in Nat, rep \in [Provider -> Reputations \cup {None}] :
        q = job[p].query /\ t = job[p].at /\ rep = job[p].rep
  BY <1>2 DEF Resolving
<1>4. PICK S : S = Survivors(q, job[p].all, rep, t)
  OBVIOUS
<1>5. S \subseteq job[p].all /\ S \subseteq published /\ IsFiniteSet(S) /\ Distinct(S)
  <2>1. S \subseteq job[p].all
    BY <1>4, SurvivorsOf
  <2>2. job[p].all \subseteq published
    BY <1>2 DEF Resolving
  <2> QED
    BY <1>2, <2>1, <2>2, FS_Subset DEF Distinct
<1>6. \A l \in S : l \in Listing /\ rep[l.provider] \in ProviderReputation /\ l.id \in Nat
  <2> TAKE l \in S
  <2>1. l \in Listing /\ l.provider \in Provider /\ l.id \in ListingId
    BY <1>1, <1>5 DEF Listing
  <2>2. l.provider \in Offering(job[p])
    BY <1>5 DEF Offering
  <2>3. rep[l.provider] # None
    BY <1>3, <2>2 DEF Rank
  <2>4. rep[l.provider] \in Reputations
    BY <2>1, <2>3
  <2> QED
    BY <2>1, <2>4, RegistryAssumption DEF ListingId
<1>7. q \in Query /\ q.max \in Nat \ {0}
  BY RegistryAssumption DEF Query
<1>8. PICK matches : matches = Ranked(q, S, rep, t)
  OBVIOUS
<1>9. matches \in Seq(published)
  <2>0. [l \in S |-> Score(q, l, rep, t)] \in [S -> Int]
    <3>1. t \in Nat /\ q \in Query
      BY <1>3, <1>7
    <3>2. \A l \in S : l \in Listing /\ rep[l.provider] \in ProviderReputation
      BY <1>6
    <3> QED
      BY <3>1, <3>2, ScoresOf
  <2>1. PICK score \in [S -> Int] : score = [l \in S |-> Score(q, l, rep, t)]
    BY <2>0
  <2>2. matches \in Seq(S)
    BY <1>5, <1>6, <1>7, <1>8, <2>1, RankedFacts
  <2> QED
    BY <1>5, <2>2, SeqDef
<1>10. /\ job' = [job EXCEPT ![p] = Quoting(matches)]
       /\ UNCHANGED <<listings, quotes, asked, reputation, now, published>>
  BY <1>3, <1>4, <1>8 DEF Rank
<1>11. CallOK(p)'
  <2>1. job'[p] = Quoting(matches)
    BY <1>1, <1>10
  <2>2. CASE matches = <<>>
    BY <2>1, <2>2 DEF Quoting, CallOK, Idle
  <2>3. CASE matches # <<>>
    <3>1. job'[p] = [phase |-> "quote", matches |-> matches, issued |-> now]
      BY <2>1, <2>3 DEF Quoting
    <3>2. job'[p] \in Issuing'
      BY <1>1, <1>9, <1>10, <2>3, <3>1 DEF Issuing
    <3> QED
      BY <3>2 DEF CallOK
  <2> QED
    BY <2>2, <2>3
<1> QED
  BY <1>1, <1>10, <1>11, KeptByCall

(* and quotes the matches, each of them as it was published.               *)
LEMMA IssueKeeps ==
  ASSUME RegistryInv, NEW p \in Proc, IssueQuote(p)
  PROVE  Kept(p)
<1>1. /\ job = [q \in Proc |-> job[q]] /\ asked \subseteq CapabilityQuery /\ CallOK(p)
      /\ now \in Nat /\ StoreOK /\ quotes \subseteq Quote /\ \A quote \in quotes : QuoteOK(quote)
      /\ listings \in [ListingId -> Listing \cup {None}]
  BY DEF RegistryInv, RegistryTypeOK
<1>2. job[p] \in Issuing
  BY <1>1, PhaseTells DEF IssueQuote
<1>3. PICK matches \in Seq(published), issued \in 0..now :
        matches # <<>> /\ matches = job[p].matches /\ issued = job[p].issued
  BY <1>2 DEF Issuing
<1>4. PICK l \in published : l = matches[1]
  BY <1>3
<1>5. PICK quote : quote = QuoteOf(l, issued)
  OBVIOUS
<1>6. /\ quotes' = quotes \cup {quote}
      /\ job' = [job EXCEPT ![p] = Quoting(Tail(matches))]
      /\ UNCHANGED <<listings, asked, reputation, now, published>>
  BY <1>3, <1>4, <1>5 DEF IssueQuote
<1>7. quote \in Quote /\ QuoteOK(quote)
  <2>1. l \in Listing /\ l.genuine /\ l.id \in ListingId
    BY <1>1 DEF StoreOK
  <2>2. l.rails[1] \in Rail
    BY <2>1 DEF Listing
  <2>3. QuoteTtl \in Nat
    BY RegistryAssumption
  <2>4. quote \in Quote
    BY <1>1, <1>5, <2>1, <2>2, <2>3 DEF Quote, QuoteOf, Listing
  <2> QED
    BY <1>1, <1>5, <2>1, <2>4 DEF QuoteOK, QuoteOf
<1>8. quotes' \subseteq Quote /\ \A other \in quotes' : QuoteOK(other)'
  BY <1>1, <1>6, <1>7 DEF QuoteOK
<1>9. CallOK(p)'
  <2>1. job'[p] = Quoting(Tail(matches))
    BY <1>1, <1>6
  <2>2. Tail(matches) \in Seq(published)
    BY <1>3
  <2>3. CASE Tail(matches) = <<>>
    BY <2>1, <2>3 DEF Quoting, CallOK, Idle
  <2>4. CASE Tail(matches) # <<>>
    <3>1. job'[p] = [phase |-> "quote", matches |-> Tail(matches), issued |-> now]
      BY <2>1, <2>4 DEF Quoting
    <3>2. PICK rest \in Seq(published) \ {<<>>} : rest = Tail(matches)
      BY <2>2, <2>4
    <3>3. job'[p] = [phase |-> "quote", matches |-> rest, issued |-> now] /\ now \in 0..now
      BY <1>1, <3>1, <3>2
    <3>4. job'[p] \in Issuing
      BY <3>3 DEF Issuing
    <3>5. Issuing' = Issuing
      BY <1>6 DEF Issuing
    <3> QED
      BY <3>4, <3>5 DEF CallOK
  <2> QED
    BY <2>3, <2>4
<1>10. StoreOK'
  BY <1>1, <1>6, StoreStays
<1> QED
  BY <1>1, <1>6, <1>8, <1>9, <1>10 DEF Kept

(* Reputation and the clock concern no call.                               *)
LEMMA AroundKeeps ==
  ASSUME RegistryInv, \/ \E v \in Provider, rep \in Reputations : Rate(v, rep)
                      \/ Tick \/ UNCHANGED registryVars
  PROVE  RegistryInv'
<1>1. /\ UNCHANGED <<listings, quotes, asked, job, published>>
      /\ reputation' = reputation \/ \E v \in Provider, rep \in Reputations :
           reputation' = [reputation EXCEPT ![v] = rep]
      /\ now' = now \/ now' = now + 1
  BY DEF Rate, Tick, registryVars
<1>2. /\ RegistryTypeOK /\ now \in Nat /\ StoreOK /\ quotes \subseteq Quote
      /\ job = [p \in Proc |-> job[p]] /\ \A p \in Proc : CallOK(p)
      /\ \A quote \in quotes : QuoteOK(quote)
  BY DEF RegistryInv, RegistryTypeOK
<1>3. now' \in Nat /\ now <= now'
  BY <1>1, <1>2
<1>4. reputation' \in [Provider -> Reputations]
  BY <1>1, <1>2 DEF RegistryTypeOK
<1>5. RegistryTypeOK' /\ StoreOK'
  BY <1>1, <1>2, <1>4, StoreStays DEF RegistryTypeOK
<1>6. \A p \in Proc : CallOK(p)'
  <2> TAKE p \in Proc
  <2>1. CallOK(p) /\ job'[p] = job[p] /\ published \subseteq published'
    BY <1>1, <1>2
  <2> QED
    BY <1>2, <1>3, <2>1, CallStays
<1>7. \A quote \in quotes' : QuoteOK(quote)'
  BY <1>1, <1>2, <1>3, QuotesStay
<1> QED
  BY <1>1, <1>2, <1>3, <1>5, <1>6, <1>7 DEF RegistryInv

(* The invariant is one.                                                   *)
LEMMA RegistryStep ==
  ASSUME RegistryInv, [RegistryNext]_registryVars
  PROVE  RegistryInv'
<1>1. ASSUME NEW p \in Proc, Receive(p) \/ Answer(p)
      PROVE  RegistryInv'
  <2>1. Kept(p)
    BY <1>1, RequestsKeep, StoreKeeps, ReadKeeps, ResolveKeeps, RankKeeps, IssueKeeps DEF Answer
  <2> QED
    BY <2>1, KeptKeeps
<1>2. CASE \/ \E v \in Provider, rep \in Reputations : Rate(v, rep)
           \/ Tick \/ UNCHANGED registryVars
  BY <1>2, AroundKeeps
<1> QED
  BY <1>1, <1>2 DEF RegistryNext

(* It holds at the start,                                                  *)
LEMMA RegistryStart ==
  ASSUME RegistryInit
  PROVE  RegistryInv
<1>1. /\ listings = [i \in ListingId |-> None]
      /\ quotes = {} /\ asked = {} /\ published = {}
      /\ reputation \in [Provider -> Reputations]
      /\ job = [p \in Proc |-> Idle] /\ now = 0
  BY DEF RegistryInit
<1>2. \A p \in Proc : job[p] = Idle
  BY <1>1
<1>3. RegistryTypeOK
  BY <1>1, <1>2 DEF RegistryTypeOK
<1>4. StoreOK
  BY <1>1 DEF StoreOK
<1> QED
  BY <1>1, <1>2, <1>3, <1>4 DEF RegistryInv, CallOK

(* and always.                                                             *)
LEMMA RegistryInvariant == RegistrySpec => []RegistryInv
<1>1. RegistryInit => RegistryInv
  BY RegistryStart
<1>2. RegistryInv /\ [RegistryNext]_registryVars => RegistryInv'
  BY RegistryStep
<1> QED
  BY <1>1, <1>2, PTL DEF RegistrySpec

(* QuotesBind, for every value of the constants: a quote binds what its    *)
(* provider signed (service.ts:248-275), however calls overlap: price,     *)
(* rail and version are those of one body it published; and a listing      *)
(* keeps its provider.                                                     *)
THEOREM QuotesAlwaysBind == RegistrySpec => []QuotesBind
<1>1. RegistryInv => QuotesBind
  <2> SUFFICES ASSUME RegistryInv PROVE QuotesBind
    OBVIOUS
  <2>1. RegistryTypeOK /\ \A quote \in quotes : QuoteOK(quote)
    BY DEF RegistryInv
  <2>2. \A l, m \in published : l.id = m.id => l.provider = m.provider
    BY DEF RegistryInv, StoreOK
  <2> QED
    BY <2>1, <2>2 DEF QuotesBind, QuoteOK
<1> QED
  BY <1>1, RegistryInvariant, PTL

(* A looser query keeps every survivor of the hard filter.                 *)
LEMMA LooserFinds ==
  ASSUME NEW q \in Query, NEW r \in Looser(q), NEW S, NEW rep, NEW t,
         NEW l \in Survivors(q, S, rep, t)
  PROVE  l \in Survivors(r, S, rep, t)
<1> USE DEF Query
<1>1. /\ l \in S /\ Active(l, t) /\ CapabilityMatches(q, l) /\ SchemaFits(q, l)
      /\ UnderCeiling(q, l) /\ FastEnough(q, l) /\ (q.private => ~l.retained)
      /\ Reputable(q, rep[l.provider])
  BY DEF Survivors
<1>2. CapabilityMatches(r, l)
  <2>1. /\ r.taxonomy = q.taxonomy /\ r.description = q.description
        /\ (q.semantic => r.semantic)
    BY DEF Looser
  <2> QED
    BY <1>1, <2>1 DEF CapabilityMatches
<1>3. SchemaFits(r, l)
  <2>1. r.input = q.input /\ r.output = q.output /\ (r.validated => q.validated)
    BY DEF Looser
  <2> QED
    BY <1>1, <2>1 DEF SchemaFits
<1>4. UnderCeiling(r, l)
  <2>1. r.ceiling = q.ceiling \/ r.ceiling = None
    BY DEF Looser
  <2> QED
    BY <1>1, <2>1 DEF UnderCeiling
<1>5. FastEnough(r, l)
  <2>1. r.target = q.target \/ r.target = None
    BY DEF Looser
  <2> QED
    BY <1>1, <2>1 DEF FastEnough
<1>6. (r.private => ~l.retained)
  <2>1. r.private = q.private
    BY DEF Looser
  <2> QED
    BY <1>1, <2>1
<1>7. Reputable(r, rep[l.provider])
  <2>1. r.minJobs = q.minJobs /\ (r.minTrust = q.minTrust \/ r.minTrust = None)
    BY DEF Looser
  <2> QED
    BY <1>1, <2>1 DEF Reputable
<1> QED
  BY <1>1, <1>2, <1>3, <1>4, <1>5, <1>6, <1>7 DEF Survivors

(* Who is nowhere worse than a match is ahead of it, or has its score and  *)
(* comes after it by id.                                                   *)
LEMMA NowhereBehind ==
  ASSUME NEW q \in Query, NEW S, IsFiniteSet(S), Distinct(S),
         NEW rep, NEW t \in Nat,
         \A x \in S : x \in Listing /\ rep[x.provider] \in ProviderReputation /\ x.id \in Nat,
         NEW matches, matches = Ranked(q, S, rep, t),
         NEW i \in DOMAIN matches, NEW l \in S, NoWorse(q, l, matches[i], rep)
  PROVE  \/ \E j \in 1..i : matches[j] = l
         \/ /\ Score(q, l, rep, t) = Score(q, matches[i], rep, t)
            /\ matches[i].id < l.id
<1>1. [x \in S |-> Score(q, x, rep, t)] \in [S -> Int]
  BY ScoresOf
<1>2. PICK score \in [S -> Int] : score = [x \in S |-> Score(q, x, rep, t)]
  BY <1>1
<1>3. q.max \in Nat \ {0}
  BY DEF Query
<1>4. /\ i \in Nat /\ matches[i] \in S /\ Place(score, matches[i]) = i
      /\ Place(score, l) < i => Place(score, l) \in 1..i /\ matches[Place(score, l)] = l
  <2>1. \A x \in S : x.id \in Nat
    OBVIOUS
  <2>2. /\ \A k \in DOMAIN matches : k \in Nat /\ matches[k] \in S /\ Place(score, matches[k]) = k
        /\ \A x \in S, k \in DOMAIN matches :
             Place(score, x) < k => Place(score, x) \in 1..k /\ matches[Place(score, x)] = x
    BY <1>2, <1>3, <2>1, RankedFacts
  <2> QED
    BY <2>2
<1>5. PICK m \in S : m = matches[i]
  BY <1>4
<1>6. score[m] <= score[l] /\ score[m] \in Int /\ score[l] \in Int
  <2>1. Score(q, m, rep, t) <= Score(q, l, rep, t)
    BY <1>5, ScoreMore
  <2> QED
    BY <1>2, <2>1
<1>7. CASE l = m
  <2>1. i \in 1..i
    <3>1. i \in 1..Cardinality(S)
      BY <1>4, PlacesDiffer
    <3> QED
      BY <1>4, <3>1
  <2> QED
    BY <1>5, <1>7, <2>1
<1>8. CASE Outranks(score, l, m)
  <2>1. Place(score, l) < i
    BY <1>4, <1>5, <1>8, PlacesDiffer
  <2> QED
    BY <1>4, <2>1
<1>9. CASE Outranks(score, m, l)
  <2>1. score[m] = score[l] /\ m.id < l.id
    BY <1>6, <1>9 DEF Outranks
  <2> QED
    BY <1>2, <1>5, <2>1
<1> QED
  BY <1>7, <1>8, <1>9, PlacesDiffer

(* DiscoveryFair, for every value of the constants: discovery is fair      *)
(* (ranking.ts:5-8, 66-70) to whoever is stored, whatever the weights and  *)
(* the reputations.                                                        *)
THEOREM DiscoveryIsFair == RegistrySpec => []DiscoveryFair
<1>1. RegistryInv => DiscoveryFair
  <2> SUFFICES ASSUME RegistryInv, NEW q \in CapabilityQuery
               PROVE  LET found == Survivors(q, Stored, reputation, now)
                          matches == Discovered(q)
                      IN  /\ \A i \in DOMAIN matches, l \in found :
                               NowhereWorse(q, l, matches[i]) =>
                                 \/ \E j \in 1..i : matches[j] = l
                                 \/ /\ Score(q, l, reputation, now)
                                         = Score(q, matches[i], reputation, now)
                                    /\ matches[i].id < l.id
                          /\ \A r \in Looser(q) :
                               found \subseteq Survivors(r, Stored, reputation, now)
    BY DEF DiscoveryFair
  <2> DEFINE found == Survivors(q, Stored, reputation, now)
             matches == Discovered(q)
  <2>1. q \in Query /\ now \in Nat
    BY RegistryAssumption DEF RegistryInv
  <2>2. IsFiniteSet(Stored) /\ Distinct(Stored) /\ Stored \subseteq published
    BY StoredDistinct DEF RegistryInv
  <2>3. found \subseteq Stored
    BY SurvivorsOf
  <2>4. IsFiniteSet(found) /\ Distinct(found)
    BY <2>2, <2>3, FS_Subset DEF Distinct
  <2>5. \A x \in found :
          x \in Listing /\ reputation[x.provider] \in ProviderReputation /\ x.id \in Nat
    <3> TAKE x \in found
    <3>1. x \in Listing /\ x.id \in ListingId
      BY <2>2, <2>3 DEF RegistryInv, StoreOK
    <3>2. x.provider \in Provider
      BY <3>1 DEF Listing
    <3>3. reputation[x.provider] \in Reputations
      BY <3>2 DEF RegistryInv, RegistryTypeOK
    <3> QED
      BY <3>1, <3>3, RegistryAssumption DEF ListingId
  <2>6. matches = Ranked(q, found, reputation, now)
    BY DEF Discovered
  <2>7. ASSUME NEW r \in Looser(q)
        PROVE  found \subseteq Survivors(r, Stored, reputation, now)
    BY <2>1, LooserFinds
  <2> HIDE DEF found, matches
  <2>8. ASSUME NEW i \in DOMAIN matches, NEW l \in found, NowhereWorse(q, l, matches[i])
        PROVE  \/ \E j \in 1..i : matches[j] = l
               \/ /\ Score(q, l, reputation, now) = Score(q, matches[i], reputation, now)
                  /\ matches[i].id < l.id
    <3>1. NoWorse(q, l, matches[i], reputation)
      BY <2>8 DEF NowhereWorse, NoWorse
    <3> QED
      BY <2>1, <2>4, <2>5, <2>6, <3>1, NowhereBehind
  <2> QED
    BY <2>7, <2>8 DEF found, matches
<1> QED
  BY <1>1, RegistryInvariant, PTL
=============================================================================
