---------------------------- MODULE InvoiceService ----------------------------
(***************************************************************************)
(* internal/service/service.go: the invoice lifecycle.  Creators are       *)
(* goroutines inside CreateInvoice (POST handlers); callers are goroutines *)
(* inside CheckStatus (GET .../status handlers and poller workers).  Each  *)
(* belongs to one server instance; instances share the store and nothing   *)
(* else.  Every store call, the toncenter round trip, the lock and the     *)
(* clock reading are separate steps, so all their interleavings occur.     *)
(*                                                                         *)
(* The payer, the TON ledger, toncenter and the clock are the environment. *)
(***************************************************************************)
EXTENDS Integers, InvoiceStore, Verifier

CONSTANTS
  Instances, Callers, Creators,
  NoId,                \* the id of a caller that has not been called yet
  InstanceOf,          \* goroutine -> the instance it runs in
  Pollers,             \* the callers that are poller workers
  Ttls,                \* requested lifetimes, zero and negative included
  DefaultTTL, MaxTTL,  \* effective service limits, both positive
  MaxPending, MaxPendingPerAddr,   \* caps on pending invoices, 0 = unlimited
  Attempts,            \* memo allocation attempts (5 in the code)
  VerifierMayFail,     \* may the toncenter round trip fail in this instance?
  MayCrash,            \* may an instance crash (and restart)?
  MaxTime,             \* bound: last clock value
  MaxTxs               \* bound: transactions on the ledger

ASSUME ServiceAssumption ==
  /\ InstanceOf \in [Callers \cup Creators -> Instances]
  /\ Pollers \subseteq Callers /\ IsFiniteSet(Creators)
  /\ Backend = "memory" => \A m, n \in Instances : m = n
  /\ Ttls \subseteq Int
  /\ DefaultTTL \in Nat \ {0} /\ MaxTTL \in Nat \ {0}
  /\ MaxPending \in Nat /\ MaxPendingPerAddr \in Nat
  /\ Attempts \in Nat \ {0}
  /\ VerifierMayFail \in BOOLEAN /\ MayCrash \in BOOLEAN
  /\ MaxTime \in Nat /\ MaxTxs \in Nat

VARIABLES
  chain,    \* the TON ledger as the Verifier module reads it
  now,      \* the wall clock, shared by all instances
  create,   \* per creator: the draft invoice and the attempt it is on
  check,    \* per caller: where it is in CheckStatus and its locals
  locks,    \* the held per-invoice mutexes: pairs <<instance, id>>
  fired     \* per invoice: the payloads given to webhook.Fire, in order

vars == <<invoices, orphans, chain, now, create, check, locks, fired>>

IdleCreate == [draft |-> NoInvoice, attempt |-> 0]

\* An idle caller keeps its last call and the reply to it: the invoice, or
\* NoInvoice for "not found" and for errors.
Idle(i, reply) ==
  [pc |-> "idle", id |-> i, inv |-> reply, tx |-> NoTx, err |-> FALSE, at |-> ZeroTime]

Init ==
  /\ StoreInit
  /\ chain = << >>
  /\ now = 1
  /\ create = [k \in Creators |-> IdleCreate]
  /\ check = [c \in Callers |-> Idle(NoId, NoInvoice)]
  /\ locks = {}
  /\ fired = [i \in Ids |-> << >>]

-----------------------------------------------------------------------------
(* Environment.                                                            *)

Tick ==
  /\ now < MaxTime
  /\ now' = now + 1
  /\ UNCHANGED <<storeVars, chain, create, check, locks, fired>>

\* Anybody may send any amount with any comment to any address; toncenter
\* reports the destination in some spelling of the receiving account.
Pay(dest, memo, value) ==
  /\ Len(chain) < MaxTxs
  /\ AccountOf[dest] # Unparsed
  /\ chain' = Append(chain, [to |-> AccountOf[dest], dest |-> dest, memo |-> memo,
                             value |-> value, utime |-> now])
  /\ UNCHANGED <<storeVars, now, create, check, locks, fired>>

LateCommit ==
  /\ \E s \in orphans : OrphanCommits(s)
  /\ UNCHANGED <<chain, now, create, check, locks, fired>>

\* An instance dies and restarts: its goroutines and mutexes are gone.
Crash(n) ==
  /\ MayCrash
  /\ create' = [k \in Creators |-> IF InstanceOf[k] = n THEN IdleCreate ELSE create[k]]
  /\ check' = [c \in Callers |->
                 IF InstanceOf[c] = n THEN Idle(NoId, NoInvoice) ELSE check[c]]
  /\ locks' = {l \in locks : l[1] # n}
  /\ UNCHANGED <<storeVars, chain, now, fired>>

-----------------------------------------------------------------------------
(* CreateInvoice.                                                          *)

\* Mutant: a zero or negative lifetime is not replaced by the default.
TTLWithoutDefault(ttl) == IF ttl > MaxTTL THEN MaxTTL ELSE ttl

EffectiveTTL(ttl) ==
  LET t == IF ttl <= 0 THEN DefaultTTL ELSE ttl
  IN  IF t > MaxTTL THEN MaxTTL ELSE t

\* Mutant: off by one.
AtOrBelowCaps(payTo) ==
  /\ MaxPending > 0 => PendingCounts(payTo).total <= MaxPending
  /\ MaxPendingPerAddr > 0 => PendingCounts(payTo).forAddr <= MaxPendingPerAddr

BelowCaps(payTo) ==
  /\ MaxPending > 0 => PendingCounts(payTo).total < MaxPending
  /\ MaxPendingPerAddr > 0 => PendingCounts(payTo).forAddr < MaxPendingPerAddr

\* Up to the allocation loop: count the pending invoices, then draft the new
\* one.  A rejected request (cap reached, failed count) changes nothing.  The
\* bound on the deadline leaves time for it to pass before MaxTime.
Draft(k, payTo, amount, ttl) ==
  /\ create[k] = IdleCreate
  /\ BelowCaps(payTo)
  /\ now + EffectiveTTL(ttl) < MaxTime
  /\ create' = [create EXCEPT ![k] =
       [draft |-> [payTo |-> payTo, amount |-> amount,
                   createdAt |-> now, expiresAt |-> now + EffectiveTTL(ttl)],
        attempt |-> 1]]
  /\ UNCHANGED <<storeVars, chain, now, check, locks, fired>>

NewInvoice(draft, memo) ==
  [payTo |-> draft.payTo, memo |-> memo, amount |-> draft.amount,
   status |-> "pending", txHash |-> NoTx, createdAt |-> draft.createdAt,
   paidAt |-> ZeroTime, expiresAt |-> draft.expiresAt]

AfterAttempt(local, reply) ==
  IF reply = "no" /\ local.attempt < Attempts
  THEN [local EXCEPT !.attempt = @ + 1]
  ELSE IdleCreate

\* One turn of the loop, with a random id and a random memo.  Only a taken
\* memo is retried.  In memory.go an id in use would be overwritten: idgen's 72
\* random bits are relied on not to repeat one.
Allocate(k, i, memo, reply) ==
  /\ create[k] # IdleCreate
  /\ Backend = "memory" => ~Exists(i)
  /\ Call(CreateInvoice(i, NewInvoice(create[k].draft, memo)), reply)
  /\ create' = [create EXCEPT ![k] = AfterAttempt(create[k], reply)]
  /\ UNCHANGED <<chain, now, check, locks, fired>>

-----------------------------------------------------------------------------
(* CheckStatus.                                                            *)

MutexOf(c) == <<InstanceOf[c], check[c].id>>

\* Mutant: a return path that keeps the mutex.
KeepLock(c) == UNCHANGED locks

\* The deferred unlock, on every return from under the lock.
Unlock(c) == locks' = locks \ {MutexOf(c)}

\* The goroutine's new place and locals.
Becomes(c, local) == check' = [check EXCEPT ![c] = local]

Reply(c, i, inv) == Becomes(c, Idle(i, inv))

Lookup(c, i) ==
  /\ check[c].pc = "idle"
  /\ \E inv \in GetInvoice(i) :
       IF inv # NoInvoice /\ inv.status = "pending"
       THEN Becomes(c, [Idle(i, inv) EXCEPT !.pc = "verify"])
       ELSE Reply(c, i, inv)
  /\ UNCHANGED <<storeVars, chain, now, create, locks, fired>>

\* The toncenter round trip, outside the lock, on the invoice read above.
Verify(c) ==
  /\ check[c].pc = "verify"
  /\ \/ \E k \in DOMAIN chain :
          /\ FirstMatch(check[c].inv, chain, k)
          /\ Becomes(c, [check[c] EXCEPT !.pc = "lock", !.tx = k])
     \/ /\ Matches(check[c].inv, chain) = {}
        /\ Becomes(c, [check[c] EXCEPT !.pc = "unpaid"])
     \/ /\ VerifierMayFail
        /\ Becomes(c, [check[c] EXCEPT !.pc = "unpaid", !.err = TRUE])
  /\ UNCHANGED <<storeVars, chain, now, create, locks, fired>>

Lock(c) ==
  /\ check[c].pc = "lock"
  /\ MutexOf(c) \notin locks
  /\ locks' = locks \cup {MutexOf(c)}
  /\ Becomes(c, [check[c] EXCEPT !.pc = "reread"])
  /\ UNCHANGED <<storeVars, chain, now, create, fired>>

\* The re-read under the lock, and settle's reading of the clock.
Reread(c) ==
  /\ check[c].pc = "reread"
  /\ \E inv \in GetInvoice(check[c].id) :
       IF inv # NoInvoice /\ inv.status = "pending"
       THEN /\ Becomes(c, [check[c] EXCEPT !.pc = "claim", !.inv = inv, !.at = now])
            /\ UNCHANGED locks
       ELSE /\ Reply(c, check[c].id, inv)
            /\ Unlock(c)
  /\ UNCHANGED <<storeVars, chain, now, create, fired>>

\* settle: only the winner of the claim goes on to the webhook.
Claim(c, reply) ==
  /\ check[c].pc = "claim"
  /\ Call(ClaimInvoiceForSettlement(check[c].id, check[c].tx, check[c].at), reply)
  /\ CASE reply = "ok" ->
            /\ Becomes(c, [check[c] EXCEPT !.pc = "fire",
                              !.inv = AsPaid(@, check[c].tx, check[c].at)])
            /\ UNCHANGED locks
       [] reply = "no" ->
            /\ Becomes(c, [check[c] EXCEPT !.pc = "lostClaim"])
            /\ UNCHANGED locks
       [] reply = "error" ->
            /\ Reply(c, check[c].id, NoInvoice)
            /\ Unlock(c)
  /\ UNCHANGED <<chain, now, create, fired>>

Fire(c) ==
  /\ check[c].pc = "fire"
  /\ fired' = [fired EXCEPT ![check[c].id] = Append(@, check[c].inv)]
  /\ Reply(c, check[c].id, check[c].inv)
  /\ Unlock(c)
  /\ UNCHANGED <<storeVars, chain, now, create>>

\* Mutant: off by one.
OverdueAtDeadline(c) == now >= check[c].inv.expiresAt

Overdue(c) == check[c].inv.expiresAt # ZeroTime /\ now > check[c].inv.expiresAt

\* Mutant: an overdue invoice is answered as expired and never stored so.
ExpiredInReplyOnly(c) ==
  /\ check[c].pc = "unpaid"
  /\ Reply(c, check[c].id, IF Overdue(c) THEN AsExpired(check[c].inv) ELSE check[c].inv)
  /\ UNCHANGED <<storeVars, chain, now, create, locks, fired>>

\* Not paid, or the verifier failed: only now does the deadline count.
CheckDeadline(c) ==
  /\ check[c].pc = "unpaid"
  /\ IF Overdue(c)
     THEN Becomes(c, [check[c] EXCEPT !.pc = "expire"])
     ELSE Reply(c, check[c].id, check[c].inv)
  /\ UNCHANGED <<storeVars, chain, now, create, locks, fired>>

Expire(c, reply) ==
  /\ check[c].pc = "expire"
  /\ Call(ExpireInvoice(check[c].id), reply)
  /\ CASE reply = "ok"    -> Reply(c, check[c].id, AsExpired(check[c].inv))
       [] reply = "no"    -> Becomes(c, [check[c] EXCEPT !.pc = "lostExpire"])
       [] reply = "error" -> Reply(c, check[c].id, NoInvoice)
  /\ UNCHANGED <<chain, now, create, locks, fired>>

\* A lost transition is answered with the stored invoice, or, when even that
\* read fails, with the caller's own copy.  A lost claim still holds the lock.
ReplyCurrent(c) ==
  /\ check[c].pc \in {"lostClaim", "lostExpire"}
  /\ \E inv \in GetInvoice(check[c].id) :
       Reply(c, check[c].id, IF inv # NoInvoice THEN inv ELSE check[c].inv)
  /\ IF check[c].pc = "lostClaim" THEN Unlock(c) ELSE UNCHANGED locks
  /\ UNCHANGED <<storeVars, chain, now, create, fired>>

-----------------------------------------------------------------------------
Replies == {"ok", "no", "error"}

CreateNext(k) ==
  \/ \E payTo \in Addrs, amount \in Amounts, ttl \in Ttls : Draft(k, payTo, amount, ttl)
  \/ \E i \in Ids, memo \in Memos, r \in Replies : Allocate(k, i, memo, r)

CheckNext(c) ==
  \/ Verify(c) \/ Lock(c) \/ Reread(c) \/ Fire(c) \/ CheckDeadline(c) \/ ReplyCurrent(c)
  \/ \E r \in Replies : Claim(c, r) \/ Expire(c, r)

Next ==
  \/ Tick
  \/ \E dest \in Addrs, memo \in Memos, value \in Amounts : Pay(dest, memo, value)
  \/ LateCommit
  \/ \E n \in Instances : Crash(n)
  \/ \E k \in Creators : CreateNext(k)
  \/ \E c \in Callers, i \in Ids : Lookup(c, i)
  \/ \E c \in Callers : CheckNext(c)

Spec == Init /\ [][Next]_vars

\* tick hands every pending invoice to a worker.
Poll(p, i) == i \in Pending /\ Lookup(p, i)

\* Scheduling the code justifies: goroutines run, a Go mutex does not starve a
\* waiter, the clock advances, poller workers look at every pending invoice again
\* and again (Run's ticker and tick's sweep), and the store does not fail a
\* poller's transition every single time.
Fairness ==
  /\ WF_vars(Tick)
  /\ \A c \in Callers : WF_vars(CheckNext(c)) /\ SF_vars(Lock(c))
  /\ \A p \in Pollers :
       /\ \A i \in Ids : SF_vars(Poll(p, i))
       /\ SF_vars(Claim(p, "ok"))
       /\ SF_vars(Expire(p, "ok"))

FairSpec == Spec /\ Fairness

-----------------------------------------------------------------------------
(* Properties.                                                             *)

Terms(inv) == <<inv.payTo, inv.memo, inv.amount, inv.createdAt, inv.expiresAt>>

\* The program points between acquiring the per-invoice mutex and returning.
Inside(c) == check[c].pc \in {"reread", "claim", "fire", "lostClaim"}

DraftRecord == [payTo : Addrs, amount : Amounts, createdAt : Nat, expiresAt : Nat]

LedgerEntry ==
  [to : {AccountOf[a] : a \in Addrs} \ {Unparsed}, dest : Addrs, memo : Memos,
   value : Amounts, utime : Nat \ {0}]

Active == {"verify", "lock", "reread", "claim", "fire", "lostClaim",
           "unpaid", "expire", "lostExpire"}

Caller ==
  [pc : Active \cup {"idle"}, id : Ids, inv : Invoice, tx : Nat, err : BOOLEAN, at : Nat]
  \cup {Idle(i, NoInvoice) : i \in Ids \cup {NoId}}

\* The type invariant of the service's state: the store, the goroutines' locals
\* and the mutexes.  A caller past its lookup holds a real invoice.
TypeOK ==
  /\ StoreTypeOK
  /\ chain \in Seq(LedgerEntry)
  /\ now \in Nat \ {0}
  /\ create \in [Creators -> [draft : DraftRecord, attempt : 1 .. Attempts] \cup {IdleCreate}]
  /\ check \in [Callers -> Caller]
  /\ locks \subseteq Instances \X Ids
  /\ fired \in [Ids -> Seq(Invoice)]

\* The ledger's transaction k is a payment of the invoice: to the very account
\* it names, with its memo, at least its amount, and not long before it existed.
Pays(ledger, k, inv) ==
  /\ k \in DOMAIN ledger
  /\ ledger[k].to = AccountOf[inv.payTo]
  /\ ledger[k].memo = inv.memo
  /\ ledger[k].value >= inv.amount
  /\ ledger[k].utime + Skew >= inv.createdAt

\* An invoice marked paid carries the hash of a transaction that pays it.
\* CheckStatus settles on a verdict reached before it took the lock, about an
\* invoice it read before the verdict, with a claim that may commit much later.
PaidByOwnPayment ==
  \A i \in Ids : HasStatus(i, "paid") => Pays(chain, invoices[i].txHash, invoices[i])

\* One on-chain payment settles at most one invoice (CreateInvoice's unique
\* (PayTo, Memo), Verify's memo and account match, settle's claim).
OnePaymentOneInvoice ==
  \A i, j \in Ids :
    HasStatus(i, "paid") /\ HasStatus(j, "paid") /\ i # j
      => invoices[i].txHash # invoices[j].txHash

\* webhook.Fire is called at most once per invoice, only after the settlement is
\* stored, and with exactly the stored invoice: settle's "only the claim winner
\* reaches here".
FiredOnceWithStoredInvoice ==
  \A i \in Ids : fired[i] # << >> => fired[i] = <<invoices[i]>> /\ HasStatus(i, "paid")

\* A paid invoice has been handed to the webhook or the claim's winner is about
\* to do so: nobody else will, so a winner that does not know it won loses it.
PaidIsNotified ==
  \A i \in Ids : HasStatus(i, "paid") =>
    \/ fired[i] # << >>
    \/ \E c \in Callers : check[c].pc = "fire" /\ check[c].id = i

\* CheckStatus answers "paid" or "expired" only with what the store holds for
\* good: settle and expire answer from a local copy they updated themselves.
TerminalRepliesTrue ==
  \A c \in Callers :
    check[c].pc = "idle" /\ check[c].inv # NoInvoice /\ check[c].inv.status # "pending"
      => check[c].inv = invoices[check[c].id]

\* Within an instance at most one caller is between taking an invoice's mutex
\* and returning, and a mutex is held only for such a caller: no leaked lock.
LocksMatchHolders ==
  /\ \A c, d \in Callers : Inside(c) /\ Inside(d) /\ c # d => MutexOf(c) # MutexOf(d)
  /\ locks = {MutexOf(c) : c \in {d \in Callers : Inside(d)}}

\* A mutex is asked for, and so entered for good into keyedLocks' map, only for an
\* invoice whose payment is on the ledger: nobody who merely asks for invoices
\* makes the map grow.
LocksOnlyForPayments ==
  \A c \in Callers :
    check[c].pc = "lock" \/ Inside(c) =>
      Exists(check[c].id) /\ Pays(chain, check[c].tx, invoices[check[c].id])

\* No invoice is expired before its deadline has passed, even by a transition
\* decided on an old copy or committed long after its caller gave up.
ExpiredAfterDeadline ==
  \A i \in Ids : HasStatus(i, "expired") => now > invoices[i].expiresAt

\* (PayTo, Memo) identifies an invoice: two allocations racing for a memo, or a
\* late insert, never produce two invoices the verifier cannot tell apart.
MemosUnique ==
  \A i, j \in Ids :
    Exists(i) /\ Exists(j) /\ i # j
      => <<invoices[i].payTo, invoices[i].memo>> # <<invoices[j].payTo, invoices[j].memo>>

\* Counting and inserting are separate store calls, so concurrent creators can
\* pass a cap together, and an insert whose caller was told "error" may still be
\* executed: the overshoot is at most one invoice per other creator and one per
\* statement of unknown fate.
PendingOvershootBounded ==
  LET Others == Cardinality(Creators) - 1
      Late   == IF Backend = "postgres" THEN MaxOrphans ELSE 0
  IN  /\ MaxPending > 0 => Cardinality(Pending) <= MaxPending + Others + Late
      /\ MaxPendingPerAddr > 0 => \A a \in Addrs :
           PendingCounts(a).forAddr <= MaxPendingPerAddr + Others + Late

\* A stored invoice's terms never change, and "paid" and "expired" are final: no
\* step of a stale caller, a racing instance or a late statement rewrites them.
TerminalIsFinal ==
  [][\A i \in Ids : Exists(i) =>
       /\ Exists(i)'
       /\ Terms(invoices'[i]) = Terms(invoices[i])
       /\ invoices[i].status # "pending" => invoices'[i] = invoices[i]]_vars

\* The service implements the promise of InvoiceLedger.
Ledger == INSTANCE InvoiceLedger WITH ledger <- invoices, announced <- fired

LedgerSpec == Ledger!Spec

\* Every CheckStatus call returns, lock contention and lost races included.
CallsReturn == \A c \in Callers : check[c].pc # "idle" ~> check[c].pc = "idle"

\* The verifier answers a poller's question about an invoice again and again,
\* however often it fails in between.
VerifierAnswers ==
  \A p \in Pollers, i \in Ids :
    SF_vars(check[p].id = i /\ Verify(p) /\ ~check'[p].err)

\* If the verifier keeps answering, the poller drives every pending invoice to
\* "paid" or "expired" in the store, whoever races it for the mutex or the claim:
\* no invoice is watched forever.
PendingIsResolved ==
  VerifierAnswers => \A i \in Ids :
    HasStatus(i, "pending") ~> Exists(i) /\ ~HasStatus(i, "pending")

-----------------------------------------------------------------------------
(* What the repository's documents say and the code does not keep.         *)

\* service.go:197 "Any verifier error leaves the invoice pending (fail closed)":
\* a caller whose verification failed changes no invoice.
VerifierErrorLeavesPending ==
  [][\A c \in Callers :
       check[c].err /\ check'[c] # check[c] => UNCHANGED invoices]_vars

\* service.go:195 "Payment takes priority over expiry": an invoice is not expired
\* while a payment that matches it and landed by its deadline is on the ledger
\* and within the verifier's reach.
PaymentBeatsExpiry ==
  [][\A i \in Ids : HasStatus(i, "pending") /\ HasStatus(i, "expired")' =>
       \A k \in Matches(invoices[i], chain) : chain[k].utime > invoices[i].expiresAt]_vars
=============================================================================
