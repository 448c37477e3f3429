------------------------------ MODULE Identity ------------------------------
(***************************************************************************)
(* Who may act, and who says so: the DID registry and the signed objects   *)
(* that change it (core/identity, shared/http/envelope.ts), the nonce      *)
(* store, the delegations and the governance plane that updates, revokes   *)
(* and rules on them and audits what it does (features/governance).        *)
(*                                                                         *)
(* A call is cut at the signature it verifies or makes; what it has read   *)
(* before that is what it goes on with.                                    *)
(***************************************************************************)
EXTENDS Policy, FiniteSets

CONSTANTS
  Pub, KeyId,   \* public keys, and their names in a passport
  Object,       \* signed objects that may be sent, each any number of times
  Nonce,
  KeyHeld,      \* public keys whose private half is in the keystore
  Policies, Action, Usage,  \* policies a supervisor may set, actions, spend so far
  Asked,        \* actions that are asked of the signer
  Delegation,   \* delegations there are at first: a set of <<did, credential>>
  ApprovalId,
  Skew,         \* SIGNATURE_SKEW_MS
  Proc,         \* calls that may overlap
  MaxEntries,   \* bound: ledger entries
  Horizon       \* bound: time goes from 0 to Horizon

VARIABLES
  passports, delegations, revoked,  \* the repositories of core/identity
  seen,      \* MemoryNonceStore.seen: the expiry of each nonce, 0 when it is not there
  entries,   \* the ledger
  approval,  \* the approval queue
  job,       \* the calls in progress
  now,
  taken      \* history: how often each object took effect

idVars == <<passports, delegations, revoked>>
vars == <<idVars, seen, entries, approval, job, now, taken>>

Role == {"agent", "org"}

(* A DID is its role and the hash of its first public key.                 *)
Did == Role \X Pub
Derived(role, pub) == <<role, pub>>

Key == [id : KeyId, pub : Pub]
Passport == [controller : Did, keys : Seq(Key)]
Credential == [issuer : Did, policy : Policies, issued : Nat, expires : Nat, signed : BOOLEAN]

(* The three bodies the routes take.                                       *)
Registration == [kind : {"register"}, did : Did, controller : Did, keys : Seq(Key) \ {<<>>},
                 by : Pub, nonce : Nonce, iat : Nat, exp : Nat]
Rotation == [kind : {"rotate"}, did : Did, new : Key, deprecate : KeyId,
             by : Pub, nonce : Nonce, iat : Nat, exp : Nat]
Revocation == [kind : {"revoke"}, did : Did, by : Pub, nonce : Nonce, iat : Nat, exp : Nat]

(* What the governance plane records.                                      *)
AuditKind == {"gov_policy_change", "gov_kill", "gov_approval"}

ASSUME IdentityAssumption ==
  /\ Object \subseteq Registration \cup Rotation \cup Revocation
  /\ Policies \subseteq DelegationPolicy
  /\ Asked \subseteq Action /\ Action \subseteq PolicyAction /\ Usage \subseteq SpendUsage
  /\ Delegation \subseteq Did \X Credential
  /\ KeyHeld \subseteq Pub
  /\ {Skew, MaxEntries, Horizon} \subseteq Nat
  /\ None \notin Did \cup AuditKind

A == INSTANCE ApprovalQueue WITH Subject <- Did \X Asked
L == INSTANCE Ledger

Idle == [phase |-> "idle"]
Verifying == [phase : {"verify"}, object : Object, key : Pub, passport : Passport \cup {None}]
Signing == [phase : {"sign"}, did : Did, credential : Credential, before : Policies \cup {None}]

TypeOK ==
  /\ passports \in [Did -> Passport \cup {None}]
  /\ delegations \in [Did -> Credential \cup {None}]
  /\ revoked \subseteq Did
  /\ seen \in [Nonce -> Nat]
  /\ job \in [Proc -> {Idle} \cup Verifying \cup Signing]
  /\ A!TypeOK

Busy(p) == job[p] # Idle
In(p, phase) == job[p].phase = phase
Finish(p) == job' = [job EXCEPT ![p] = Idle]

-----------------------------------------------------------------------------
(* The resolver.                                                           *)
Known(d) == passports[d] # None
Ids(d) == {passports[d].keys[i].id : i \in DOMAIN passports[d].keys}

(* publicKeyFor, without a key id: the first key.                          *)
KeyFor(d) == IF Known(d) THEN passports[d].keys[1].pub ELSE None

Expired(credential) == credential.expires <= now

ActiveDelegation(d) ==
  IF d \in revoked \/ delegations[d] = None THEN None
  ELSE IF Expired(delegations[d]) THEN None ELSE delegations[d]

-----------------------------------------------------------------------------
(* verifySignedObject, up to the signature.                                *)
SelfSigned(o) == o.kind = "register" /\ o.controller = o.did
Signer(o) == IF o.kind = "register" THEN o.controller ELSE passports[o.did].controller

(* A self-signed passport is verified against the key it declares.         *)
VerifyingKey(o) == IF SelfSigned(o) THEN o.keys[1].pub ELSE KeyFor(Signer(o))

Timely(o) == o.iat <= now + Skew /\ o.exp + Skew >= now

(* Mutant: the skew is granted to the nonce store, too.                    *)
PrunedEarly == [n \in Nonce |-> IF seen[n] <= now + Skew THEN 0 ELSE seen[n]]

(* The store forgets the nonces that have expired.                         *)
Pruned == [n \in Nonce |-> IF seen[n] <= now THEN 0 ELSE seen[n]]

FreshNonce(o) == o.exp > now /\ Pruned[o.nonce] = 0

(* The nonce is consumed first, whatever becomes of the object.            *)
Verify(p, o) ==
  /\ Timely(o)
  /\ \/ /\ ~FreshNonce(o)
        /\ seen' = Pruned
        /\ UNCHANGED job
     \/ /\ FreshNonce(o)
        /\ seen' = [Pruned EXCEPT ![o.nonce] = o.exp]
        /\ IF VerifyingKey(o) = None \/ (~SelfSigned(o) /\ Signer(o) \in revoked)
           THEN UNCHANGED job
           ELSE job' = [job EXCEPT ![p] = [phase |-> "verify", object |-> o,
                                           key |-> VerifyingKey(o),
                                           passport |-> passports[o.did]]]

-----------------------------------------------------------------------------
(* register, rotate, revoke: what each checks first.  A body that fails    *)
(* its checks changes nothing.                                             *)
Registrable(o) ==
  /\ o.kind = "register" /\ ~Known(o.did)
  /\ o.did[1] = "agent" <=> ~SelfSigned(o)
  /\ Derived(o.did[1], o.keys[1].pub) = o.did
  /\ SelfSigned(o) \/ Known(o.controller)

Rotatable(o) ==
  /\ o.kind = "rotate" /\ Known(o.did)
  /\ o.deprecate \in Ids(o.did) /\ o.new.id \notin Ids(o.did)

Revocable(o) == o.kind = "revoke" /\ Known(o.did)

Receive(p, o) ==
  /\ ~Busy(p)
  /\ Registrable(o) \/ Rotatable(o) \/ Revocable(o)
  /\ Verify(p, o)
  /\ UNCHANGED <<idVars, entries, approval, now, taken>>

(* The signature is not that of the key.                                   *)
Reject(p) ==
  /\ In(p, "verify") /\ job[p].object.by # job[p].key
  /\ Finish(p)
  /\ UNCHANGED <<idVars, seen, entries, approval, now, taken>>

(* The keys that are not deprecated, in their order.                       *)
KeysWithout(keys, id) ==
  LET kept[n \in 0..Len(keys)] ==
        IF n = 0 THEN <<>>
        ELSE IF keys[n].id = id THEN kept[n - 1] ELSE Append(kept[n - 1], keys[n])
  IN  kept[Len(keys)]

(* The new key goes last; the passport is the one read first.              *)
Rotated(passport, o) ==
  [passport EXCEPT !.keys = Append(KeysWithout(@, o.deprecate), o.new)]

Put(d, passport) ==
  /\ passports' = [passports EXCEPT ![d] = passport]
  /\ UNCHANGED <<delegations, revoked>>

(* Mutant: the delegation is dropped, and no revocation kept.              *)
RevokeDeletes(d) ==
  /\ delegations' = [delegations EXCEPT ![d] = None]
  /\ UNCHANGED <<passports, revoked>>

Revoke(d) ==
  /\ revoked' = revoked \cup {d}
  /\ UNCHANGED <<passports, delegations>>

Accept(p) ==
  /\ In(p, "verify") /\ job[p].object.by = job[p].key
  /\ LET o == job[p].object
     IN  /\ CASE o.kind = "register" ->
                   Put(o.did, [controller |-> o.controller, keys |-> o.keys])
              [] o.kind = "rotate" -> Put(o.did, Rotated(job[p].passport, o))
              [] o.kind = "revoke" -> Revoke(o.did)
         /\ taken' = [taken EXCEPT ![o] = @ + 1]
  /\ Finish(p)
  /\ UNCHANGED <<seen, entries, approval, now>>

-----------------------------------------------------------------------------
(* The governance plane.                                                   *)
Audit(kind, d, payload) ==
  /\ Len(entries) < MaxEntries
  /\ entries' = L!Appended(kind, d, payload)

(* The issuer signs when its private key is in the keystore.               *)
IssuerSigns(d) == KeyFor(delegations[d].issuer) \in KeyHeld

PolicyBefore(d) == IF ActiveDelegation(d) = None THEN None ELSE delegations[d].policy

(* The delegation with another policy, of the same issuer and expiry.      *)
Reissued(d, policy) ==
  [delegations[d] EXCEPT !.policy = policy, !.issued = now, !.signed = IssuerSigns(d)]

(* It is stored and recorded in one turn.                                  *)
Reissue(d, credential, before) ==
  /\ delegations' = [delegations EXCEPT ![d] = credential]
  /\ Audit("gov_policy_change", d, [before |-> before, after |-> credential.policy])
  /\ UNCHANGED <<passports, revoked>>

UpdatePolicy(p, d, policy) ==
  /\ ~Busy(p) /\ delegations[d] # None
  /\ IF IssuerSigns(d)
     THEN /\ job' = [job EXCEPT ![p] = [phase |-> "sign", did |-> d, before |-> PolicyBefore(d),
                                        credential |-> Reissued(d, policy)]]
          /\ UNCHANGED <<idVars, entries>>
     ELSE Reissue(d, Reissued(d, policy), PolicyBefore(d)) /\ UNCHANGED job
  /\ UNCHANGED <<seen, approval, now, taken>>

FinishUpdate(p) ==
  /\ In(p, "sign")
  /\ Reissue(job[p].did, job[p].credential, job[p].before)
  /\ Finish(p)
  /\ UNCHANGED <<seen, approval, now, taken>>

Kill(d) ==
  /\ Revoke(d)
  /\ Audit("gov_kill", d, None)
  /\ UNCHANGED <<seen, approval, job, now, taken>>

(* The same decision again is recorded again.                              *)
ResolveApproval(id, decision) ==
  /\ \/ A!Resolve(id, decision)
     \/ approval[id].status = decision /\ UNCHANGED approval
  /\ Audit("gov_approval", approval[id].subject[1], [id |-> id, decision |-> decision])
  /\ UNCHANGED <<idVars, seen, job, now, taken>>

(* signWithinPolicy decides; the caller parks what needs a ruling, and the *)
(* signer redeems the ruling.                                              *)
Decision(d, a, usage) ==
  IF ActiveDelegation(d) = None THEN "deny" ELSE Evaluate(delegations[d].policy, a, usage)

NeedsApproval(d, a) == \E usage \in Usage : Decision(d, a, usage) = "needs_approval"

Park(d, a, id) ==
  /\ NeedsApproval(d, a)
  /\ A!Enqueue(id, <<d, a>>)
  /\ UNCHANGED <<idVars, seen, entries, job, now, taken>>

Redeem(d, a, id) ==
  /\ NeedsApproval(d, a)
  /\ A!Consume(id, <<d, a>>)
  /\ UNCHANGED <<idVars, seen, entries, job, now, taken>>

Tick ==
  /\ now < Horizon /\ now' = now + 1
  /\ UNCHANGED <<idVars, seen, entries, approval, job, taken>>

-----------------------------------------------------------------------------
Init ==
  /\ passports = [d \in Did |-> None]
  /\ delegations = [d \in Did |-> IF \E c \in Delegation : c[1] = d
                                  THEN (CHOOSE c \in Delegation : c[1] = d)[2] ELSE None]
  /\ revoked = {} /\ seen = [n \in Nonce |-> 0]
  /\ entries = <<>> /\ A!Init
  /\ job = [p \in Proc |-> Idle]
  /\ now = 0
  /\ taken = [o \in Object |-> 0]

Delegated == {d \in Did : delegations[d] # None}

(* The supervisor's requests.                                              *)
Governing ==
  \/ \E p \in Proc, d \in Delegated, policy \in Policies : UpdatePolicy(p, d, policy)
  \/ \E d \in Delegated \cup {c \in Did : Known(c)} : Kill(d)
  \/ \E d \in Delegated, id \in ApprovalId, decision \in A!Decision :
       A!Parked(id) /\ approval[id].subject[1] = d /\ ResolveApproval(id, decision)

Acting == \E d \in Delegated, a \in Asked, id \in ApprovalId : Park(d, a, id) \/ Redeem(d, a, id)

Next ==
  \/ \E p \in Proc : \/ \E o \in Object : Receive(p, o)
                     \/ Reject(p) \/ Accept(p) \/ FinishUpdate(p)
  \/ Governing \/ Acting \/ Tick

Spec == Init /\ [][Next]_vars

-----------------------------------------------------------------------------
(* Properties.                                                             *)

(* A signed object takes effect once at most, however often and however    *)
(* late it is sent again, though the store forgets nonces (envelope.ts:    *)
(* 54-81, nonce-store.ts:9-24); and the variables have their types.        *)
AcceptedOnce ==
  /\ TypeOK
  /\ \A o \in Object : taken[o] <= 1

LastEntry(d, kind) == LET found == L!Listed(kind, d)
                      IN  entries[CHOOSE i \in found : \A j \in found : j <= i]

(* An agent that the ledger says was killed has no delegation any more,    *)
(* whatever update was being signed (governance/service.ts:123-136,        *)
(* identity-resolver.ts:36-42).                                            *)
KilledForGood ==
  \A d \in Did : L!Listed("gov_kill", d) # {} => ActiveDelegation(d) = None

(* The audit trail tells what is in force (governance/service.ts:17-24):   *)
(* the policy of a delegation is the one the last entry about it says, and *)
(* the entries of an approval all say its ruling.                          *)
AuditTells ==
  /\ \A d \in Delegated : L!Listed("gov_policy_change", d) # {} =>
       delegations[d].policy = LastEntry(d, "gov_policy_change").payload.after
  /\ \A id \in ApprovalId : A!Parked(id) =>
       LET ruled == {entries[i].payload.decision :
                       i \in {j \in L!Listed("gov_approval", None) : entries[j].payload.id = id}}
       IN  ruled = {approval[id].decision} \ {"none"}

(* What the governance plane did holds, and its ledger tells it.           *)
Governed == KilledForGood /\ AuditTells

NoMore(b, a) ==
  /\ [b EXCEPT !.amount = None] = [a EXCEPT !.amount = None]
  /\ b.amount = a.amount \/ /\ None \notin {a.amount, b.amount}
                            /\ b.amount.currency = a.amount.currency
                            /\ b.amount.amount <= a.amount.amount

LessSpent(v, u) ==
  \A window \in {"daily", "total"} :
    v[window].currency = u[window].currency /\ v[window].amount <= u[window].amount

Patterns == {[glob |-> "any", path |-> <<>>]}
            \cup {[glob |-> "below", path |-> a.counterparty] :
                    a \in {b \in Action : b.counterparty # None}}

Unbounded(policy, a) == [policy EXCEPT !.threshold.amount = a.amount.amount]

SoundPolicies ==
  {policy \in Policies : \A a \in Action, u \in Usage :
     LET answer == Evaluate(policy, a, u)
     IN  /\ answer = "needs_approval" => Evaluate(Unbounded(policy, a), a, u) = "allow"
         /\ answer = "allow" => \A b \in Action, v \in Usage :
              NoMore(b, a) /\ LessSpent(v, u) => Evaluate(policy, b, v) = "allow"
         /\ \A pattern \in Patterns :
              Evaluate([policy EXCEPT !.counterparties.deny = @ \cup {pattern}], a, u)
                \in {answer, "deny"}}

(* The mandate an agent is given bounds it (evaluator.ts:10-26, 106-122):  *)
(* a ruling lifts the approval threshold and no cap, who asks for less or  *)
(* has spent less is never worse off, and one more denial never allows.    *)
MandateHolds == \A d \in Delegated : delegations[d].policy \in SoundPolicies
=============================================================================
