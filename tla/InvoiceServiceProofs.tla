------------------------- MODULE InvoiceServiceProofs -------------------------
(***************************************************************************)
(* Proofs about InvoiceService, for every set of identifiers, addresses,   *)
(* goroutines and instances and every value of the limits: its types, its  *)
(* mutexes and, with the in-memory store, its notifications and its caps.  *)
(***************************************************************************)
EXTENDS InvoiceService, FiniteSetTheorems, TLAPS

-----------------------------------------------------------------------------
(* The operators of the store.                                             *)

\* The lifetime CreateInvoice computes is positive, whatever was requested.
LEMMA EffectiveTTLPositive ==
  \A ttl \in Ttls : EffectiveTTL(ttl) \in Nat \ {0}
BY ServiceAssumption DEF EffectiveTTL

\* A claimed or expired copy of an invoice is an invoice with the same terms.
LEMMA TransitionsKeepTerms ==
  ASSUME NEW inv \in Invoice, NEW tx \in Nat, NEW at \in Nat
  PROVE  /\ AsPaid(inv, tx, at) \in Invoice
         /\ Terms(AsPaid(inv, tx, at)) = Terms(inv)
         /\ AsPaid(inv, tx, at).status = "paid"
         /\ AsPaid(inv, tx, at).txHash = tx
         /\ AsExpired(inv) \in Invoice
         /\ Terms(AsExpired(inv)) = Terms(inv)
         /\ AsExpired(inv).status = "expired"
BY DEF Invoice, AsPaid, AsExpired, Terms

\* What the store may hold after a call or a late commit: the same invoices, or
\* a new pending row, or a pending invoice moved to a final status.
LEMMA AppliedRow ==
  ASSUME StoreTypeOK, NEW s \in Statement, Affects(s)
  PROVE  /\ NewRow(s) \in Invoice
         /\ s.id \in Ids
         /\ s.op = "create" => invoices[s.id] = NoInvoice /\ NewRow(s) = s.row
         /\ s.op = "claim"  => /\ invoices[s.id] \in Invoice
                               /\ invoices[s.id].status = "pending"
                               /\ NewRow(s) = AsPaid(invoices[s.id], s.tx, s.at)
         /\ s.op = "expire" => /\ invoices[s.id] \in Invoice
                               /\ invoices[s.id].status = "pending"
                               /\ NewRow(s) = AsExpired(invoices[s.id])
         /\ s.op \in {"create", "claim", "expire"}
<1>1. CASE s.op = "create"
  BY <1>1 DEF StoreTypeOK, Statement, Affects, NewRow, Exists
<1>2. CASE s.op = "claim"
  <2>1. s.id \in Ids /\ s.tx \in Nat /\ s.at \in Nat
    BY DEF Statement
  <2>2. invoices[s.id] \in Invoice /\ invoices[s.id].status = "pending"
    BY <1>2, <2>1 DEF StoreTypeOK, Affects, HasStatus, Exists
  <2>3. NewRow(s) = AsPaid(invoices[s.id], s.tx, s.at)
    BY <1>2 DEF NewRow
  <2>4. AsPaid(invoices[s.id], s.tx, s.at) \in Invoice
    BY <2>1, <2>2, TransitionsKeepTerms
  <2>5. NewRow(s) \in Invoice
    BY <2>3, <2>4
  <2> QED BY <1>2, <2>1, <2>2, <2>3, <2>5
<1>3. CASE s.op = "expire"
  <2>1. s.id \in Ids
    BY DEF Statement
  <2>2. invoices[s.id] \in Invoice /\ invoices[s.id].status = "pending"
    BY <1>3, <2>1 DEF StoreTypeOK, Affects, HasStatus, Exists
  <2>3. NewRow(s) = AsExpired(invoices[s.id])
    BY <1>3 DEF NewRow
  <2>4. AsExpired(invoices[s.id]) \in Invoice
    BY <2>2 DEF AsExpired, Invoice
  <2>5. NewRow(s) \in Invoice
    BY <2>3, <2>4
  <2> QED BY <1>3, <2>1, <2>2, <2>3, <2>5
<1>4. s.op \in {"create", "claim", "expire"}
  BY DEF Statement
<1> QED BY <1>1, <1>2, <1>3, <1>4

\* A store call and a late commit change at most the statement's row, and leave
\* behind at most the statement itself.
LEMMA CallEffect ==
  ASSUME StoreTypeOK, NEW s \in Statement, NEW reply, Call(s, reply)
  PROVE  /\ StoreTypeOK'
         /\ \/ reply = "ok" /\ Affects(s) /\ invoices' = [invoices EXCEPT ![s.id] = NewRow(s)]
            \/ reply # "ok" /\ invoices' = invoices
         /\ orphans' = orphans \/ (reply = "error" /\ orphans' = orphans \cup {s})
<1>1. CASE reply = "ok" /\ Affects(s) /\ Apply(s) /\ UNCHANGED orphans
  BY <1>1, AppliedRow DEF StoreTypeOK, Apply
<1>2. CASE reply # "ok" /\ UNCHANGED storeVars
  BY <1>2 DEF StoreTypeOK, storeVars
<1>3. CASE reply = "error" /\ orphans' = orphans \cup {s} /\ UNCHANGED invoices
  BY <1>3 DEF StoreTypeOK
<1> QED BY <1>1, <1>2, <1>3 DEF Call

LEMMA LateCommitEffect ==
  ASSUME StoreTypeOK, NEW s \in orphans, OrphanCommits(s)
  PROVE  /\ StoreTypeOK'
         /\ orphans' \subseteq orphans
         /\ s \in Statement
         /\ \/ Affects(s) /\ invoices' = [invoices EXCEPT ![s.id] = NewRow(s)]
            \/ invoices' = invoices
<1>1. s \in Statement
  BY DEF StoreTypeOK
<1>2. CASE Affects(s)
  BY <1>1, <1>2, AppliedRow DEF StoreTypeOK, OrphanCommits, Apply
<1>3. CASE ~Affects(s)
  BY <1>1, <1>3 DEF StoreTypeOK, OrphanCommits
<1> QED BY <1>2, <1>3

-----------------------------------------------------------------------------
(* Types.                                                                  *)

ActiveRecord ==
  [pc : Active \cup {"idle"}, id : Ids, inv : Invoice, tx : Nat, err : BOOLEAN, at : Nat]

\* A caller inside CheckStatus holds an invoice and knows its identifier.
LEMMA ActiveCaller ==
  ASSUME TypeOK, NEW c \in Callers, check[c].pc # "idle"
  PROVE  check[c] \in ActiveRecord
BY DEF TypeOK, Caller, Idle, ActiveRecord

LEMMA BecomesTyped ==
  ASSUME TypeOK, NEW c \in Callers, NEW local \in Caller, Becomes(c, local)
  PROVE  check' \in [Callers -> Caller]
BY DEF TypeOK, Becomes

\* Updating an active caller's locals within their types.
LEMMA LocalsTyped ==
  ASSUME NEW local \in ActiveRecord, NEW label \in Active
  PROVE  /\ [local EXCEPT !.pc = label] \in Caller
         /\ \A k \in Nat : [local EXCEPT !.pc = label, !.tx = k] \in Caller
         /\ [local EXCEPT !.pc = label, !.err = TRUE] \in Caller
         /\ \A inv \in Invoice : [local EXCEPT !.pc = label, !.inv = inv] \in Caller
         /\ \A inv \in Invoice, t \in Nat :
              [local EXCEPT !.pc = label, !.inv = inv, !.at = t] \in Caller
BY DEF ActiveRecord, Caller

LEMMA ReplyTyped ==
  ASSUME TypeOK, NEW c \in Callers, NEW i \in Ids, NEW inv \in Invoice \cup {NoInvoice},
         Reply(c, i, inv)
  PROVE  check' \in [Callers -> Caller]
<1>1. Idle(i, inv) \in Caller
  BY DEF Caller, Idle, NoTx, ZeroTime
<1> QED BY <1>1, BecomesTyped DEF Reply

LEMMA GetInvoiceTyped ==
  ASSUME TypeOK, NEW i \in Ids, NEW inv \in GetInvoice(i)
  PROVE  inv \in Invoice \cup {NoInvoice}
BY DEF TypeOK, StoreTypeOK, GetInvoice

\* The statements the service builds are statements.
LEMMA StatementsTyped ==
  ASSUME NEW i \in Ids
  PROVE  /\ \A inv \in Invoice : CreateInvoice(i, inv) \in Statement
         /\ \A tx \in Nat, at \in Nat : ClaimInvoiceForSettlement(i, tx, at) \in Statement
         /\ ExpireInvoice(i) \in Statement
BY DEF Statement, CreateInvoice, ClaimInvoiceForSettlement, ExpireInvoice, NoTx, ZeroTime

LEMMA DraftTyped ==
  ASSUME NEW draft \in DraftRecord, NEW memo \in Memos
  PROVE  NewInvoice(draft, memo) \in Invoice /\ NewInvoice(draft, memo).status = "pending"
BY DEF DraftRecord, NewInvoice, Invoice, NoTx, ZeroTime

LEMMA TypeInit == Init => TypeOK
<1> SUFFICES ASSUME Init PROVE TypeOK
  OBVIOUS
<1>1. StoreTypeOK
  BY DEF Init, StoreInit, StoreTypeOK
<1>2. Idle(NoId, NoInvoice) \in Caller
  BY DEF Caller
<1> QED BY <1>1, <1>2 DEF Init, TypeOK

LEMMA TypeNext == TypeOK /\ [Next]_vars => TypeOK'
<1> SUFFICES ASSUME TypeOK, [Next]_vars PROVE TypeOK'
  OBVIOUS
<1> USE DEF TypeOK
<1>1. CASE Tick
  BY <1>1 DEF Tick, storeVars, StoreTypeOK
<1>2. ASSUME NEW dest \in Addrs, NEW memo \in Memos, NEW value \in Amounts, Pay(dest, memo, value)
      PROVE  TypeOK'
  <2>1. [to |-> AccountOf[dest], dest |-> dest, memo |-> memo,
         value |-> value, utime |-> now] \in LedgerEntry
    BY <1>2 DEF Pay, LedgerEntry
  <2>2. chain' \in Seq(LedgerEntry)
    BY <1>2, <2>1 DEF Pay
  <2> QED BY <1>2, <2>2 DEF Pay, storeVars, StoreTypeOK
<1>3. CASE LateCommit
  <2>1. StoreTypeOK'
    BY <1>3, LateCommitEffect DEF LateCommit
  <2> QED BY <1>3, <2>1 DEF LateCommit
<1>4. ASSUME NEW n \in Instances, Crash(n)
      PROVE  TypeOK'
  <2>1. Idle(NoId, NoInvoice) \in Caller
    BY DEF Caller
  <2> QED BY <1>4, <2>1 DEF Crash, storeVars, StoreTypeOK
<1>5. ASSUME NEW k \in Creators, NEW payTo \in Addrs, NEW amount \in Amounts, NEW ttl \in Ttls,
             Draft(k, payTo, amount, ttl)
      PROVE  TypeOK'
  <2>1. now + EffectiveTTL(ttl) \in Nat
    BY EffectiveTTLPositive
  <2>2. [payTo |-> payTo, amount |-> amount, createdAt |-> now,
         expiresAt |-> now + EffectiveTTL(ttl)] \in DraftRecord
    BY <2>1 DEF DraftRecord
  <2>3. 1 \in 1 .. Attempts
    BY ServiceAssumption
  <2> QED BY <1>5, <2>2, <2>3 DEF Draft, storeVars, StoreTypeOK
<1>6. ASSUME NEW k \in Creators, NEW i \in Ids, NEW memo \in Memos, NEW r \in Replies,
             Allocate(k, i, memo, r)
      PROVE  TypeOK'
  <2>1. create[k] \in [draft : DraftRecord, attempt : 1 .. Attempts]
    BY <1>6 DEF Allocate
  <2>2. StoreTypeOK'
    BY <1>6, <2>1, DraftTyped, StatementsTyped, CallEffect DEF Allocate
  <2>3. create[k].attempt < Attempts => create[k].attempt + 1 \in 1 .. Attempts
    BY <2>1, ServiceAssumption
  <2>4. create' \in [Creators -> [draft : DraftRecord, attempt : 1 .. Attempts] \cup {IdleCreate}]
    <3>1. AfterAttempt(create[k], r) \in
            [draft : DraftRecord, attempt : 1 .. Attempts] \cup {IdleCreate}
      BY <2>1, <2>3 DEF AfterAttempt
    <3> QED BY <1>6, <3>1 DEF Allocate
  <2> QED BY <1>6, <2>2, <2>4 DEF Allocate
<1>7. ASSUME NEW c \in Callers, NEW i \in Ids, Lookup(c, i)
      PROVE  TypeOK'
  <2>1. PICK inv \in GetInvoice(i) :
          IF inv # NoInvoice /\ inv.status = "pending"
          THEN Becomes(c, [Idle(i, inv) EXCEPT !.pc = "verify"])
          ELSE Reply(c, i, inv)
    BY <1>7 DEF Lookup
  <2>2. inv \in Invoice \cup {NoInvoice}
    BY GetInvoiceTyped
  <2>3. CASE inv # NoInvoice /\ inv.status = "pending"
    <3>1. [Idle(i, inv) EXCEPT !.pc = "verify"] \in Caller
      BY <2>2, <2>3 DEF Caller, Idle, Active, NoTx, ZeroTime
    <3> QED BY <1>7, <2>1, <2>3, <3>1, BecomesTyped DEF Lookup, storeVars, StoreTypeOK
  <2>4. CASE ~(inv # NoInvoice /\ inv.status = "pending")
    BY <1>7, <2>1, <2>2, <2>4, ReplyTyped DEF Lookup, storeVars, StoreTypeOK
  <2> QED BY <2>3, <2>4
<1>8. ASSUME NEW c \in Callers, Verify(c)
      PROVE  TypeOK'
  <2>1. check[c] \in ActiveRecord
    BY <1>8, ActiveCaller DEF Verify
  <2>2. check' \in [Callers -> Caller]
    <3>1. \A k \in DOMAIN chain : k \in Nat
      OBVIOUS
    <3>2. "lock" \in Active /\ "unpaid" \in Active
      BY DEF Active
    <3> QED BY <1>8, <2>1, <3>1, <3>2, LocalsTyped, BecomesTyped DEF Verify
  <2> QED BY <1>8, <2>2 DEF Verify, storeVars, StoreTypeOK
<1>9. ASSUME NEW c \in Callers, Lock(c)
      PROVE  TypeOK'
  <2>1. check[c] \in ActiveRecord
    BY <1>9, ActiveCaller DEF Lock
  <2>2. check' \in [Callers -> Caller]
    BY <1>9, <2>1, LocalsTyped, BecomesTyped DEF Lock, Active
  <2>3. MutexOf(c) \in Instances \X Ids
    BY <2>1, ServiceAssumption DEF MutexOf, ActiveRecord
  <2> QED BY <1>9, <2>2, <2>3 DEF Lock, storeVars, StoreTypeOK
<1>10. ASSUME NEW c \in Callers, Reread(c)
       PROVE  TypeOK'
  <2>1. check[c] \in ActiveRecord
    BY <1>10, ActiveCaller DEF Reread
  <2>2. PICK inv \in GetInvoice(check[c].id) :
          IF inv # NoInvoice /\ inv.status = "pending"
          THEN /\ Becomes(c, [check[c] EXCEPT !.pc = "claim", !.inv = inv, !.at = now])
               /\ UNCHANGED locks
          ELSE Reply(c, check[c].id, inv) /\ Unlock(c)
    BY <1>10 DEF Reread
  <2>3. inv \in Invoice \cup {NoInvoice}
    BY <2>1, GetInvoiceTyped DEF ActiveRecord
  <2>4. check' \in [Callers -> Caller]
    <3>1. CASE inv # NoInvoice /\ inv.status = "pending"
      BY <2>1, <2>2, <2>3, <3>1, LocalsTyped, BecomesTyped DEF Active
    <3>2. CASE ~(inv # NoInvoice /\ inv.status = "pending")
      BY <2>1, <2>2, <2>3, <3>2, ReplyTyped DEF ActiveRecord
    <3> QED BY <3>1, <3>2
  <2>5. locks' \subseteq Instances \X Ids
    BY <2>2 DEF Unlock
  <2> QED BY <1>10, <2>4, <2>5 DEF Reread, storeVars, StoreTypeOK
<1>11. ASSUME NEW c \in Callers, NEW r \in Replies, Claim(c, r)
       PROVE  TypeOK'
  <2>1. check[c] \in ActiveRecord
    BY <1>11, ActiveCaller DEF Claim
  <2>2. StoreTypeOK'
    BY <1>11, <2>1, StatementsTyped, CallEffect DEF Claim, ActiveRecord
  <2>3. check' \in [Callers -> Caller] /\ locks' \subseteq Instances \X Ids
    <3>1. CASE r = "ok"
      <4>1. AsPaid(check[c].inv, check[c].tx, check[c].at) \in Invoice
        BY <2>1, TransitionsKeepTerms DEF ActiveRecord
      <4> QED BY <1>11, <2>1, <3>1, <4>1, LocalsTyped, BecomesTyped DEF Claim, Active
    <3>2. CASE r = "no"
      BY <1>11, <2>1, <3>2, LocalsTyped, BecomesTyped DEF Claim, Active
    <3>3. CASE r = "error"
      BY <1>11, <2>1, <3>3, ReplyTyped DEF Claim, ActiveRecord, Unlock
    <3> QED BY <3>1, <3>2, <3>3 DEF Replies
  <2> QED BY <1>11, <2>2, <2>3 DEF Claim
<1>12. ASSUME NEW c \in Callers, Fire(c)
       PROVE  TypeOK'
  <2>1. check[c] \in ActiveRecord
    BY <1>12, ActiveCaller DEF Fire
  <2>2. check' \in [Callers -> Caller]
    BY <1>12, <2>1, ReplyTyped DEF Fire, ActiveRecord
  <2>3. fired' \in [Ids -> Seq(Invoice)]
    BY <1>12, <2>1 DEF Fire, ActiveRecord
  <2> QED BY <1>12, <2>2, <2>3 DEF Fire, Unlock, storeVars, StoreTypeOK
<1>13. ASSUME NEW c \in Callers, CheckDeadline(c)
       PROVE  TypeOK'
  <2>1. check[c] \in ActiveRecord
    BY <1>13, ActiveCaller DEF CheckDeadline
  <2>2. check' \in [Callers -> Caller]
    <3>1. CASE Overdue(c)
      BY <1>13, <2>1, <3>1, LocalsTyped, BecomesTyped DEF CheckDeadline, Active
    <3>2. CASE ~Overdue(c)
      BY <1>13, <2>1, <3>2, ReplyTyped DEF CheckDeadline, ActiveRecord
    <3> QED BY <3>1, <3>2
  <2> QED BY <1>13, <2>2 DEF CheckDeadline, storeVars, StoreTypeOK
<1>14. ASSUME NEW c \in Callers, NEW r \in Replies, Expire(c, r)
       PROVE  TypeOK'
  <2>1. check[c] \in ActiveRecord
    BY <1>14, ActiveCaller DEF Expire
  <2>2. StoreTypeOK'
    BY <1>14, <2>1, StatementsTyped, CallEffect DEF Expire, ActiveRecord
  <2>3. check' \in [Callers -> Caller]
    <3>1. CASE r = "ok"
      <4>1. AsExpired(check[c].inv) \in Invoice
        BY <2>1 DEF ActiveRecord, AsExpired, Invoice
      <4> QED BY <1>14, <2>1, <3>1, <4>1, ReplyTyped DEF Expire, ActiveRecord
    <3>2. CASE r = "no"
      BY <1>14, <2>1, <3>2, LocalsTyped, BecomesTyped DEF Expire, Active
    <3>3. CASE r = "error"
      BY <1>14, <2>1, <3>3, ReplyTyped DEF Expire, ActiveRecord
    <3> QED BY <3>1, <3>2, <3>3 DEF Replies
  <2> QED BY <1>14, <2>2, <2>3 DEF Expire
<1>15. ASSUME NEW c \in Callers, ReplyCurrent(c)
       PROVE  TypeOK'
  <2>1. check[c] \in ActiveRecord
    BY <1>15, ActiveCaller DEF ReplyCurrent
  <2>2. check' \in [Callers -> Caller]
    BY <1>15, <2>1, GetInvoiceTyped, ReplyTyped DEF ReplyCurrent, ActiveRecord
  <2>3. locks' \subseteq Instances \X Ids
    BY <1>15 DEF ReplyCurrent, Unlock
  <2> QED BY <1>15, <2>2, <2>3 DEF ReplyCurrent, storeVars, StoreTypeOK
<1>16. CASE UNCHANGED vars
  BY <1>16 DEF vars, StoreTypeOK
<1> QED BY <1>1, <1>2, <1>3, <1>4, <1>5, <1>6, <1>7, <1>8, <1>9, <1>10, <1>11, <1>12,
          <1>13, <1>14, <1>15, <1>16 DEF Next, CreateNext, CheckNext

\* The type invariant of the service holds in every reachable state.
THEOREM TypeCorrect == Spec => []TypeOK
BY TypeInit, TypeNext, PTL DEF Spec

-----------------------------------------------------------------------------
(* The per-invoice mutexes.                                                *)

\* How one caller's move may go with the mutexes: it stays under its own or away
\* from any, takes it, or gives it up.
MutexMove(c) ==
  \/ /\ locks' = locks
     /\ Inside(c) <=> Inside(c)'
     /\ Inside(c) => check'[c].id = check[c].id
  \/ /\ ~Inside(c) /\ MutexOf(c) \notin locks
     /\ Inside(c)' /\ check'[c].id = check[c].id
     /\ locks' = locks \cup {MutexOf(c)}
  \/ /\ Inside(c) /\ ~Inside(c)'
     /\ locks' = locks \ {MutexOf(c)}

LEMMA MutexesFollow ==
  ASSUME LocksMatchHolders, NEW c \in Callers,
         \A d \in Callers \ {c} : check'[d] = check[d], MutexMove(c)
  PROVE  LocksMatchHolders'
<1>1. \A d \in Callers \ {c} : (Inside(d)' <=> Inside(d)) /\ MutexOf(d)' = MutexOf(d)
  BY DEF Inside, MutexOf
<1>2. /\ \A d, e \in Callers : Inside(d) /\ Inside(e) /\ d # e => MutexOf(d) # MutexOf(e)
      /\ \A m : m \in locks <=> \E d \in Callers : Inside(d) /\ m = MutexOf(d)
  BY DEF LocksMatchHolders
<1>3. check'[c].id = check[c].id => MutexOf(c)' = MutexOf(c)
  BY DEF MutexOf
<1>4. /\ \A d, e \in Callers : Inside(d)' /\ Inside(e)' /\ d # e => MutexOf(d)' # MutexOf(e)'
      /\ \A m : m \in locks' <=> \E d \in Callers : Inside(d)' /\ m = MutexOf(d)'
  <2>1. CASE /\ locks' = locks
             /\ Inside(c) <=> Inside(c)'
             /\ Inside(c) => check'[c].id = check[c].id
    BY <1>1, <1>2, <1>3, <2>1
  <2>2. CASE /\ ~Inside(c) /\ MutexOf(c) \notin locks
             /\ Inside(c)' /\ check'[c].id = check[c].id
             /\ locks' = locks \cup {MutexOf(c)}
    BY <1>1, <1>2, <1>3, <2>2
  <2>3. CASE /\ Inside(c) /\ ~Inside(c)'
             /\ locks' = locks \ {MutexOf(c)}
    BY <1>1, <1>2, <2>3
  <2>4. QED
    BY <2>1, <2>2, <2>3 DEF MutexMove
<1>5. QED
  BY <1>4 DEF LocksMatchHolders

\* Every step of CheckStatus moves its goroutine in one of these ways.
LEMMA CheckMovesMutex ==
  ASSUME TypeOK, NEW c \in Callers,
         CheckNext(c) \/ \E i \in Ids : Lookup(c, i)
  PROVE  (\A d \in Callers \ {c} : check'[d] = check[d]) /\ MutexMove(c)
<1> DEFINE Goal == (\A d \in Callers \ {c} : check'[d] = check[d]) /\ MutexMove(c)
<1>1. ASSUME NEW local, Becomes(c, local)
      PROVE  check'[c] = local /\ \A d \in Callers \ {c} : check'[d] = check[d]
  BY <1>1 DEF Becomes, TypeOK
<1>2. ASSUME NEW i, NEW inv, Reply(c, i, inv)
      PROVE  check'[c].pc = "idle" /\ \A d \in Callers \ {c} : check'[d] = check[d]
  BY <1>1, <1>2 DEF Reply, Idle
<1>3. ASSUME check[c].pc # "idle", NEW l, NEW k, NEW t,
             \/ Becomes(c, [check[c] EXCEPT !.pc = l])
             \/ Becomes(c, [check[c] EXCEPT !.pc = l, !.tx = k])
             \/ Becomes(c, [check[c] EXCEPT !.pc = l, !.err = TRUE])
             \/ Becomes(c, [check[c] EXCEPT !.pc = l, !.inv = k])
             \/ Becomes(c, [check[c] EXCEPT !.pc = l, !.inv = k, !.at = t])
      PROVE  /\ check'[c].pc = l /\ check'[c].id = check[c].id
             /\ \A d \in Callers \ {c} : check'[d] = check[d]
  <2>1. check[c] \in ActiveRecord
    BY <1>3, ActiveCaller
  <2>2. \E local : Becomes(c, local) /\ local.pc = l /\ local.id = check[c].id
    <3>1. CASE Becomes(c, [check[c] EXCEPT !.pc = l])
      BY <2>1, <3>1 DEF ActiveRecord
    <3>2. CASE Becomes(c, [check[c] EXCEPT !.pc = l, !.tx = k])
      <4> DEFINE local == [check[c] EXCEPT !.pc = l, !.tx = k]
      <4>1. local.pc = l /\ local.id = check[c].id
        BY <2>1 DEF ActiveRecord
      <4> HIDE DEF local
      <4>2. QED
        BY <3>2, <4>1 DEF local
    <3>3. CASE Becomes(c, [check[c] EXCEPT !.pc = l, !.err = TRUE])
      <4> DEFINE local == [check[c] EXCEPT !.pc = l, !.err = TRUE]
      <4>1. local.pc = l /\ local.id = check[c].id
        BY <2>1 DEF ActiveRecord
      <4> HIDE DEF local
      <4>2. QED
        BY <3>3, <4>1 DEF local
    <3>4. CASE Becomes(c, [check[c] EXCEPT !.pc = l, !.inv = k])
      <4> DEFINE local == [check[c] EXCEPT !.pc = l, !.inv = k]
      <4>1. local.pc = l /\ local.id = check[c].id
        BY <2>1 DEF ActiveRecord
      <4> HIDE DEF local
      <4>2. QED
        BY <3>4, <4>1 DEF local
    <3>5. CASE Becomes(c, [check[c] EXCEPT !.pc = l, !.inv = k, !.at = t])
      <4> DEFINE local == [check[c] EXCEPT !.pc = l, !.inv = k, !.at = t]
      <4>1. local.pc = l /\ local.id = check[c].id
        BY <2>1 DEF ActiveRecord
      <4> HIDE DEF local
      <4>2. QED
        BY <3>5, <4>1 DEF local
    <3>6. QED
      BY <1>3, <3>1, <3>2, <3>3, <3>4, <3>5
  <2>3. QED
    BY <1>1, <2>2
<1>4. ASSUME NEW i \in Ids, Lookup(c, i)
      PROVE  Goal
  <2>1. check[c].pc = "idle" /\ locks' = locks
    BY <1>4 DEF Lookup
  <2>2. /\ check'[c].pc \in {"idle", "verify"}
        /\ \A d \in Callers \ {c} : check'[d] = check[d]
    <3>1. \A inv : [Idle(i, inv) EXCEPT !.pc = "verify"].pc = "verify"
      BY DEF Idle
    <3>2. QED
      BY <1>1, <1>2, <1>4, <3>1 DEF Lookup
  <2>3. QED
    BY <2>1, <2>2 DEF MutexMove, Inside
<1>5. CASE Verify(c)
  <2>1. /\ check[c].pc = "verify" /\ locks' = locks
        /\ check'[c].pc \in {"lock", "unpaid"}
        /\ \A d \in Callers \ {c} : check'[d] = check[d]
    BY <1>1, <1>3, <1>5 DEF Verify
  <2>2. QED
    BY <2>1 DEF MutexMove, Inside
<1>6. CASE Lock(c)
  <2>1. /\ check[c].pc = "lock" /\ MutexOf(c) \notin locks
        /\ check'[c].pc = "reread" /\ check'[c].id = check[c].id
        /\ locks' = locks \cup {MutexOf(c)}
        /\ \A d \in Callers \ {c} : check'[d] = check[d]
    BY <1>1, <1>3, <1>6 DEF Lock
  <2>2. QED
    BY <2>1 DEF MutexMove, Inside
<1>7. CASE Reread(c)
  <2>1. /\ check[c].pc = "reread"
        /\ \/ check'[c].pc = "claim" /\ check'[c].id = check[c].id /\ locks' = locks
           \/ check'[c].pc = "idle" /\ locks' = locks \ {MutexOf(c)}
        /\ \A d \in Callers \ {c} : check'[d] = check[d]
    BY <1>1, <1>2, <1>3, <1>7 DEF Reread, Unlock
  <2>2. QED
    BY <2>1 DEF MutexMove, Inside
<1>8. ASSUME NEW r \in Replies, Claim(c, r)
      PROVE  Goal
  <2>1. /\ check[c].pc = "claim"
        /\ \/ check'[c].pc \in {"fire", "lostClaim"} /\ check'[c].id = check[c].id
              /\ locks' = locks
           \/ check'[c].pc = "idle" /\ locks' = locks \ {MutexOf(c)}
        /\ \A d \in Callers \ {c} : check'[d] = check[d]
    <3>1. CASE r = "ok"
      BY <1>1, <1>3, <1>8, <3>1 DEF Claim
    <3>2. CASE r = "no"
      BY <1>1, <1>3, <1>8, <3>2 DEF Claim
    <3>3. CASE r = "error"
      BY <1>2, <1>8, <3>3 DEF Claim, Unlock
    <3>4. QED
      BY <3>1, <3>2, <3>3 DEF Replies
  <2>2. QED
    BY <2>1 DEF MutexMove, Inside
<1>9. CASE Fire(c)
  <2>1. /\ check[c].pc = "fire" /\ check'[c].pc = "idle" /\ locks' = locks \ {MutexOf(c)}
        /\ \A d \in Callers \ {c} : check'[d] = check[d]
    BY <1>2, <1>9 DEF Fire, Unlock
  <2>2. QED
    BY <2>1 DEF MutexMove, Inside
<1>10. CASE CheckDeadline(c)
  <2>1. /\ check[c].pc = "unpaid" /\ locks' = locks
        /\ check'[c].pc \in {"expire", "idle"}
        /\ \A d \in Callers \ {c} : check'[d] = check[d]
    BY <1>1, <1>2, <1>3, <1>10 DEF CheckDeadline
  <2>2. QED
    BY <2>1 DEF MutexMove, Inside
<1>11. ASSUME NEW r \in Replies, Expire(c, r)
       PROVE  Goal
  <2>1. /\ check[c].pc = "expire" /\ locks' = locks
        /\ check'[c].pc \in {"lostExpire", "idle"}
        /\ \A d \in Callers \ {c} : check'[d] = check[d]
    <3>1. CASE r = "no"
      BY <1>1, <1>3, <1>11, <3>1 DEF Expire
    <3>2. CASE r # "no"
      BY <1>2, <1>11, <3>2 DEF Expire, Replies
    <3>3. QED
      BY <3>1, <3>2
  <2>2. QED
    BY <2>1 DEF MutexMove, Inside
<1>12. CASE ReplyCurrent(c)
  <2>1. /\ check'[c].pc = "idle"
        /\ \/ check[c].pc = "lostClaim" /\ locks' = locks \ {MutexOf(c)}
           \/ check[c].pc = "lostExpire" /\ locks' = locks
        /\ \A d \in Callers \ {c} : check'[d] = check[d]
    BY <1>2, <1>12 DEF ReplyCurrent, Unlock
  <2>2. QED
    BY <2>1 DEF MutexMove, Inside
<1>13. QED
  BY <1>4, <1>5, <1>6, <1>7, <1>8, <1>9, <1>10, <1>11, <1>12 DEF CheckNext

\* A crash takes an instance's goroutines and its mutexes together.
LEMMA CrashFreesMutexes ==
  ASSUME LocksMatchHolders, TypeOK, NEW n \in Instances, Crash(n)
  PROVE  LocksMatchHolders'
<1>1. /\ \A d \in Callers : Inside(d)' <=> Inside(d) /\ InstanceOf[d] # n
      /\ \A d \in Callers : InstanceOf[d] # n => MutexOf(d)' = MutexOf(d)
      /\ \A d \in Callers : MutexOf(d)[1] = InstanceOf[d]
      /\ locks' = {l \in locks : l[1] # n}
  BY DEF Crash, Inside, MutexOf, Idle
<1>2. /\ \A d, e \in Callers : Inside(d) /\ Inside(e) /\ d # e => MutexOf(d) # MutexOf(e)
      /\ \A m : m \in locks <=> \E d \in Callers : Inside(d) /\ m = MutexOf(d)
  BY DEF LocksMatchHolders
<1>3. /\ \A d, e \in Callers : Inside(d)' /\ Inside(e)' /\ d # e => MutexOf(d)' # MutexOf(e)'
      /\ \A m : m \in locks' <=> \E d \in Callers : Inside(d)' /\ m = MutexOf(d)'
  BY <1>1, <1>2
<1>4. QED
  BY <1>3 DEF LocksMatchHolders

LEMMA MutexNext == TypeOK /\ LocksMatchHolders /\ [Next]_vars => LocksMatchHolders'
<1> SUFFICES ASSUME TypeOK, LocksMatchHolders, [Next]_vars
             PROVE  LocksMatchHolders'
  OBVIOUS
<1>1. CASE UNCHANGED <<check, locks>>
  BY <1>1 DEF LocksMatchHolders, Inside, MutexOf
<1>2. CASE \E c \in Callers : CheckNext(c) \/ \E i \in Ids : Lookup(c, i)
  BY <1>2, CheckMovesMutex, MutexesFollow
<1>3. CASE \E n \in Instances : Crash(n)
  BY <1>3, CrashFreesMutexes
<1>4. CASE \E k \in Creators : CreateNext(k)
  BY <1>1, <1>4 DEF CreateNext, Draft, Allocate
<1>5. CASE Tick \/ LateCommit
           \/ \E dest \in Addrs, memo \in Memos, value \in Amounts : Pay(dest, memo, value)
  BY <1>1, <1>5 DEF Tick, LateCommit, Pay
<1>6. CASE UNCHANGED vars
  BY <1>1, <1>6 DEF vars
<1>7. QED
  BY <1>2, <1>3, <1>4, <1>5, <1>6 DEF Next

\* In every reachable state a mutex is held exactly for the one caller between
\* locking it and returning: none is leaked on any path out of CheckStatus, and
\* none is shared, crashes included.
THEOREM MutexesMatchHolders == Spec => []LocksMatchHolders
<1>1. Init => LocksMatchHolders
  <2> SUFFICES ASSUME Init PROVE LocksMatchHolders
    OBVIOUS
  <2>1. locks = {} /\ \A c \in Callers : ~Inside(c)
    BY DEF Init, Inside, Idle
  <2>2. QED
    BY <2>1 DEF LocksMatchHolders
<1>2. QED
  BY <1>1, MutexNext, TypeCorrect, PTL DEF Spec

-----------------------------------------------------------------------------
(* The in-memory store tells its callers the truth.                        *)

NoOrphans == orphans = {}

\* A call of it that reports an error had no effect, and has none later.
LEMMA MemoryCall ==
  ASSUME Backend = "memory", NEW s, NEW reply, Call(s, reply)
  PROVE  /\ orphans' = orphans
         /\ reply # "ok" => invoices' = invoices
         /\ reply = "ok" => Affects(s) /\ invoices' = [invoices EXCEPT ![s.id] = NewRow(s)]
BY DEF Call, Apply, storeVars

LEMMA NoOrphansNext == Backend = "memory" /\ NoOrphans /\ [Next]_vars => NoOrphans'
<1> SUFFICES ASSUME Backend = "memory", NoOrphans, [Next]_vars PROVE NoOrphans'
  OBVIOUS
<1>1. ~LateCommit
  BY DEF LateCommit, NoOrphans
<1>2. ASSUME NEW k \in Creators, CreateNext(k) PROVE orphans' = orphans
  BY <1>2, MemoryCall DEF CreateNext, Draft, Allocate, storeVars
<1>3. ASSUME NEW c \in Callers, CheckNext(c) PROVE orphans' = orphans
  BY <1>3, MemoryCall DEF CheckNext, Verify, Lock, Reread, Fire, CheckDeadline,
                          ReplyCurrent, Claim, Expire, storeVars
<1>4. ASSUME NEW c \in Callers, NEW i \in Ids, Lookup(c, i) PROVE orphans' = orphans
  BY <1>4 DEF Lookup, storeVars
<1>5. QED
  BY <1>1, <1>2, <1>3, <1>4 DEF Next, Tick, Pay, Crash, storeVars, vars, NoOrphans

\* A claim's winner stays at the webhook until it has fired.
LEMMA WinnerFires ==
  ASSUME TypeOK, MayCrash = FALSE, NEW c \in Callers, check[c].pc = "fire", Next
  PROVE  check'[c] = check[c] \/ Fire(c)
<1>1. ASSUME NEW d \in Callers, d # c, CheckNext(d) \/ \E i \in Ids : Lookup(d, i)
      PROVE  check'[c] = check[c]
  BY <1>1, CheckMovesMutex
<1>2. CASE CheckNext(c) \/ \E i \in Ids : Lookup(c, i)
  BY <1>2 DEF CheckNext, Lookup, Verify, Lock, Reread, CheckDeadline, ReplyCurrent, Claim, Expire
<1>3. ASSUME NEW k \in Creators, CreateNext(k) PROVE check' = check
  BY <1>3 DEF CreateNext, Draft, Allocate
<1>4. QED
  BY <1>1, <1>2, <1>3 DEF Next, Tick, Pay, LateCommit, Crash

\* Only Fire touches the announcements, and it adds to them.
LEMMA FiredGrows ==
  ASSUME TypeOK, Next, NEW i \in Ids, fired[i] # << >>
  PROVE  fired'[i] # << >>
<1>1. CASE fired' = fired
  BY <1>1
<1>2. ASSUME NEW c \in Callers, Fire(c) PROVE fired'[i] # << >>
  <2>1. fired' = [fired EXCEPT ![check[c].id] = Append(fired[check[c].id], check[c].inv)]
    BY <1>2 DEF Fire
  <2>2. fired[i] \in Seq(Invoice) /\ fired \in [Ids -> Seq(Invoice)]
    BY DEF TypeOK
  <2>3. \A q \in Seq(Invoice), e \in Invoice : Append(q, e) # << >>
    <3>1. \A q \in Seq(Invoice), e \in Invoice : Len(Append(q, e)) = Len(q) + 1 /\ Len(q) \in Nat
      OBVIOUS
    <3>2. QED
      BY <3>1
  <2>4. check[c].inv \in Invoice
    BY <1>2, ActiveCaller DEF Fire, ActiveRecord
  <2>5. QED
    BY <2>1, <2>2, <2>3, <2>4
<1>3. ASSUME NEW c \in Callers, CheckNext(c), ~Fire(c) PROVE fired' = fired
  BY <1>3 DEF CheckNext, Verify, Lock, Reread, CheckDeadline, ReplyCurrent, Claim, Expire
<1>4. ASSUME NEW k \in Creators, CreateNext(k) PROVE fired' = fired
  BY <1>4 DEF CreateNext, Draft, Allocate
<1>5. QED
  BY <1>1, <1>2, <1>3, <1>4 DEF Next, Tick, Pay, LateCommit, Crash, Lookup

\* Only a claim that was won makes an invoice paid, and its caller knows.
LEMMA PaidByWinner ==
  ASSUME TypeOK, NoOrphans, Backend = "memory", Next,
         NEW i \in Ids, HasStatus(i, "paid")', invoices'[i] # invoices[i]
  PROVE  \E c \in Callers : check'[c].pc = "fire" /\ check'[c].id = i
<1>1. ~LateCommit
  BY DEF LateCommit, NoOrphans
<1>2. ASSUME NEW k \in Creators, NEW id \in Ids, NEW memo \in Memos, NEW r \in Replies,
             Allocate(k, id, memo, r)
      PROVE  FALSE
  <2> DEFINE row == NewInvoice(create[k].draft, memo)
             s   == CreateInvoice(id, row)
  <2>1. row \in Invoice /\ row.status = "pending"
    BY <1>2, DraftTyped DEF Allocate, TypeOK
  <2>2. s \in Statement /\ s.op = "create" /\ s.row = row /\ s.id = id
    BY <2>1, StatementsTyped DEF CreateInvoice
  <2> HIDE DEF row
  <2>3. Call(s, r)
    BY <1>2 DEF Allocate, row
  <2> HIDE DEF s
  <2>4. Affects(s) /\ invoices' = [invoices EXCEPT ![id] = NewRow(s)]
    BY <2>2, <2>3, MemoryCall
  <2>5. NewRow(s) = row
    BY <2>2 DEF NewRow
  <2>6. QED
    BY <2>1, <2>4, <2>5 DEF HasStatus, Exists, TypeOK, StoreTypeOK
<1>3. ASSUME NEW c \in Callers, NEW r \in Replies, Expire(c, r)
      PROVE  FALSE
  <2> DEFINE s == ExpireInvoice(check[c].id)
  <2>1. check[c].id \in Ids
    BY <1>3, ActiveCaller DEF Expire, ActiveRecord
  <2>2. s \in Statement /\ s.op = "expire" /\ s.id = check[c].id
    BY <2>1, StatementsTyped DEF ExpireInvoice
  <2>3. Call(s, r)
    BY <1>3 DEF Expire
  <2> HIDE DEF s
  <2>4. Affects(s) /\ invoices' = [invoices EXCEPT ![s.id] = NewRow(s)]
    BY <2>3, MemoryCall
  <2>5. NewRow(s).status = "expired"
    BY <2>2, <2>4, AppliedRow, TransitionsKeepTerms, 0 \in Nat DEF TypeOK
  <2>6. QED
    BY <2>2, <2>4, <2>5 DEF HasStatus, Exists, TypeOK, StoreTypeOK
<1>4. ASSUME NEW c \in Callers, NEW r \in Replies, Claim(c, r)
      PROVE  check'[c].pc = "fire" /\ check'[c].id = i
  <2> DEFINE s == ClaimInvoiceForSettlement(check[c].id, check[c].tx, check[c].at)
             local == [check[c] EXCEPT !.pc = "fire",
                                !.inv = AsPaid(check[c].inv, check[c].tx, check[c].at)]
  <2>1. check[c] \in ActiveRecord
    BY <1>4, ActiveCaller DEF Claim
  <2>2. s.id = check[c].id
    BY DEF ClaimInvoiceForSettlement
  <2>3. Call(s, r)
    BY <1>4 DEF Claim
  <2> HIDE DEF s
  <2>4. r = "ok" /\ invoices' = [invoices EXCEPT ![s.id] = NewRow(s)]
    BY <2>3, MemoryCall
  <2>5. i = check[c].id
    BY <2>2, <2>4 DEF TypeOK, StoreTypeOK
  <2>6. Becomes(c, local)
    BY <1>4, <2>4 DEF Claim
  <2>7. local.pc = "fire" /\ local.id = check[c].id
    BY <2>1 DEF ActiveRecord
  <2> HIDE DEF local
  <2>8. QED
    BY <2>5, <2>6, <2>7 DEF Becomes, TypeOK
<1>5. QED
  BY <1>1, <1>2, <1>3, <1>4
     DEF Next, CreateNext, CheckNext, Draft, Tick, Pay, Crash, Lookup, Verify, Lock, Reread,
         Fire, CheckDeadline, ReplyCurrent, storeVars

LEMMA NotifiedNext ==
  ASSUME TypeOK, NoOrphans, Backend = "memory", MayCrash = FALSE, PaidIsNotified, [Next]_vars
  PROVE  PaidIsNotified'
<1>1. CASE UNCHANGED vars
  BY <1>1 DEF vars, PaidIsNotified, HasStatus, Exists
<1>2. CASE Next
  <2> SUFFICES ASSUME NEW i \in Ids, HasStatus(i, "paid")'
               PROVE  \/ fired'[i] # << >>
                      \/ \E c \in Callers : check'[c].pc = "fire" /\ check'[c].id = i
    BY DEF PaidIsNotified
  <2>1. CASE invoices'[i] # invoices[i]
    BY <1>2, <2>1, PaidByWinner
  <2>2. CASE invoices'[i] = invoices[i]
    <3>1. HasStatus(i, "paid")
      BY <2>2 DEF HasStatus, Exists
    <3>2. CASE fired[i] # << >>
      BY <1>2, <3>2, FiredGrows
    <3>3. ASSUME NEW c \in Callers, check[c].pc = "fire", check[c].id = i
          PROVE  fired'[i] # << >> \/ (check'[c].pc = "fire" /\ check'[c].id = i)
      <4>1. CASE check'[c] = check[c]
        BY <3>3, <4>1
      <4>2. CASE Fire(c)
        <5>1. fired' = [fired EXCEPT ![i] = Append(fired[i], check[c].inv)]
          BY <3>3, <4>2 DEF Fire
        <5>2. check[c].inv \in Invoice /\ fired \in [Ids -> Seq(Invoice)]
          BY <3>3, ActiveCaller DEF ActiveRecord, TypeOK
        <5>3. fired'[i] = Append(fired[i], check[c].inv) /\ Len(fired[i]) \in Nat
          BY <5>1, <5>2
        <5>4. Len(fired'[i]) = Len(fired[i]) + 1
          BY <5>2, <5>3
        <5>5. QED
          BY <5>3, <5>4
      <4>3. QED
        BY <1>2, <3>3, <4>1, <4>2, WinnerFires
    <3>4. QED
      BY <3>1, <3>2, <3>3 DEF PaidIsNotified
  <2>3. QED
    BY <2>1, <2>2
<1>3. QED
  BY <1>1, <1>2

\* With the in-memory store and as long as the process does not crash, a paid
\* invoice has been announced or its claim's winner is about to: the winner is
\* never told that it lost, and it is the only one who will announce.
THEOREM PaidAlwaysNotified ==
  ASSUME Backend = "memory", MayCrash = FALSE
  PROVE  Spec => []PaidIsNotified
<1>1. Init => NoOrphans /\ PaidIsNotified
  BY DEF Init, StoreInit, NoOrphans, PaidIsNotified, HasStatus, Exists
<1>2. TypeOK /\ NoOrphans /\ PaidIsNotified /\ [Next]_vars => NoOrphans' /\ PaidIsNotified'
  BY NoOrphansNext, NotifiedNext
<1>3. QED
  BY <1>1, <1>2, TypeCorrect, PTL DEF Spec

-----------------------------------------------------------------------------
(* The caps.                                                               *)

\* The statements of unknown fate the store can hold.
Reserve == IF Backend = "postgres" THEN MaxOrphans ELSE 0

OrphansBounded == IsFiniteSet(orphans) /\ Cardinality(orphans) <= Reserve

\* The pending invoices, the drafts and the inserts of unknown fate for some of the
\* addresses.
PendingAt(S) == {i \in Pending : invoices[i].payTo \in S}
Drafting(S)  == {k \in Creators : create[k] # IdleCreate /\ create[k].draft.payTo \in S}
Inserts(S)   == {s \in orphans : s.op = "create" /\ s.row.payTo \in S}

\* A draft and an insert count as the invoice they may become.  The creator that
\* drafts last read a count below the cap, so only the other ones are above it.
Budget(S, cap) ==
  /\ IsFiniteSet(PendingAt(S))
  /\ Cardinality(PendingAt(S)) + Cardinality(Drafting(S)) + Cardinality(Inserts(S))
       <= cap + Cardinality(Creators) - 1 + Reserve

CapsOK ==
  /\ MaxPending > 0 => Budget(Addrs, MaxPending)
  /\ MaxPendingPerAddr > 0 => \A a \in Addrs : Budget({a}, MaxPendingPerAddr)

\* A set that a step leaves or shrinks, one that it gives an element, and one that
\* it takes an element from.
Gains(A, B) == \E x : B \subseteq A \cup {x}
Loses(A, B) == \E x \in A : B \subseteq A \ {x}

LEMMA SetSizes ==
  ASSUME NEW A, NEW B, IsFiniteSet(A)
  PROVE  /\ Cardinality(A) \in Nat
         /\ B \subseteq A =>
              IsFiniteSet(B) /\ Cardinality(B) \in Nat /\ Cardinality(B) <= Cardinality(A)
         /\ Gains(A, B) =>
              IsFiniteSet(B) /\ Cardinality(B) \in Nat /\ Cardinality(B) <= Cardinality(A) + 1
         /\ Loses(A, B) =>
              IsFiniteSet(B) /\ Cardinality(B) \in Nat /\ Cardinality(B) <= Cardinality(A) - 1
<1>1. Cardinality(A) \in Nat
  BY FS_CardinalityType
<1>2. ASSUME NEW C, IsFiniteSet(C), B \subseteq C
      PROVE  IsFiniteSet(B) /\ Cardinality(B) \in Nat /\ Cardinality(B) <= Cardinality(C)
  BY <1>2, FS_Subset, FS_CardinalityType
<1>3. ASSUME NEW x, B \subseteq A \cup {x}
      PROVE  IsFiniteSet(B) /\ Cardinality(B) \in Nat /\ Cardinality(B) <= Cardinality(A) + 1
  <2>1. /\ IsFiniteSet(A \cup {x})
        /\ Cardinality(A \cup {x}) = Cardinality(A) \/ Cardinality(A \cup {x}) = Cardinality(A) + 1
    BY FS_AddElement
  <2>2. QED
    BY <1>1, <1>2, <1>3, <2>1
<1>4. ASSUME NEW x \in A, B \subseteq A \ {x}
      PROVE  IsFiniteSet(B) /\ Cardinality(B) \in Nat /\ Cardinality(B) <= Cardinality(A) - 1
  <2>1. IsFiniteSet(A \ {x}) /\ Cardinality(A \ {x}) = Cardinality(A) - 1
    BY FS_RemoveElement
  <2>2. QED
    BY <1>1, <1>2, <1>4, <2>1
<1>5. QED
  BY <1>1, <1>2, <1>3, <1>4 DEF Gains, Loses

LEMMA BudgetSizes ==
  ASSUME NEW S, OrphansBounded
  PROVE  /\ IsFiniteSet(Drafting(S)) /\ IsFiniteSet(Inserts(S))
         /\ Cardinality(Inserts(S)) \in Nat /\ Cardinality(Inserts(S)) <= Reserve
         /\ Cardinality(Creators) \in Nat /\ Reserve \in Nat
<1>1. IsFiniteSet(Drafting(S)) /\ Cardinality(Creators) \in Nat
  BY ServiceAssumption, FS_Subset, FS_CardinalityType DEF Drafting
<1>2. Reserve \in Nat
  BY StoreAssumption DEF Reserve
<1>3. Inserts(S) \subseteq orphans
  BY DEF Inserts
<1>4. /\ IsFiniteSet(Inserts(S)) /\ Cardinality(Inserts(S)) \in Nat /\ Cardinality(orphans) \in Nat
      /\ Cardinality(Inserts(S)) <= Cardinality(orphans)
  BY <1>3, SetSizes DEF OrphansBounded
<1>5. Cardinality(Inserts(S)) <= Reserve
  BY <1>2, <1>4 DEF OrphansBounded
<1>6. QED
  BY <1>1, <1>2, <1>4, <1>5

\* A budget is kept by whatever shrinks its sets, and by a draft that becomes an
\* invoice or an insert of unknown fate, and such an insert that becomes an invoice.
LEMMA BudgetMoves ==
  ASSUME NEW S, NEW cap \in Nat, OrphansBounded, Budget(S, cap),
         \/ /\ PendingAt(S)' \subseteq PendingAt(S)
            /\ Drafting(S)' \subseteq Drafting(S)
            /\ Inserts(S)' \subseteq Inserts(S)
         \/ /\ Gains(PendingAt(S), PendingAt(S)')
            /\ Loses(Drafting(S), Drafting(S)')
            /\ Inserts(S)' \subseteq Inserts(S)
         \/ /\ PendingAt(S)' \subseteq PendingAt(S)
            /\ Loses(Drafting(S), Drafting(S)')
            /\ Gains(Inserts(S), Inserts(S)')
         \/ /\ Gains(PendingAt(S), PendingAt(S)')
            /\ Drafting(S)' \subseteq Drafting(S)
            /\ Loses(Inserts(S), Inserts(S)')
  PROVE  Budget(S, cap)'
<1> DEFINE p == Cardinality(PendingAt(S))   pn == Cardinality(PendingAt(S)')
           d == Cardinality(Drafting(S))    dn == Cardinality(Drafting(S)')
           o == Cardinality(Inserts(S))     on == Cardinality(Inserts(S)')
<1>1. /\ IsFiniteSet(PendingAt(S)) /\ IsFiniteSet(Drafting(S)) /\ IsFiniteSet(Inserts(S))
      /\ Cardinality(Creators) \in Nat /\ Reserve \in Nat
  BY BudgetSizes DEF Budget
<1>2. p \in Nat /\ d \in Nat /\ o \in Nat
  BY <1>1, SetSizes
<1>3. /\ IsFiniteSet(PendingAt(S)')
      /\ pn \in Nat /\ dn \in Nat /\ on \in Nat
      /\ \/ pn <= p /\ dn <= d /\ on <= o
         \/ pn <= p + 1 /\ dn <= d - 1 /\ on <= o
         \/ pn <= p /\ dn <= d - 1 /\ on <= o + 1
         \/ pn <= p + 1 /\ dn <= d /\ on <= o - 1
  <2>1. ASSUME NEW A, NEW B, IsFiniteSet(A)
        PROVE  /\ B \subseteq A => Cardinality(B) <= Cardinality(A)
               /\ Gains(A, B) => Cardinality(B) <= Cardinality(A) + 1
               /\ Loses(A, B) => Cardinality(B) <= Cardinality(A) - 1
               /\ B \subseteq A \/ Gains(A, B) \/ Loses(A, B)
                    => IsFiniteSet(B) /\ Cardinality(B) \in Nat
    BY <2>1, SetSizes
  <2>2. QED
    BY <1>1, <2>1
<1>4. p + d + o <= cap + Cardinality(Creators) - 1 + Reserve
  BY DEF Budget
<1> HIDE DEF p, d, o, pn, dn, on
<1>5. pn + dn + on <= cap + Cardinality(Creators) - 1 + Reserve
  BY <1>1, <1>2, <1>3, <1>4
<1>6. QED
  BY <1>3, <1>5 DEF Budget, pn, dn, on

\* A creator that read a count below the cap adds its draft.
LEMMA BudgetDrafts ==
  ASSUME NEW S, NEW cap \in Nat, OrphansBounded, Budget(S, cap),
         Cardinality(PendingAt(S)) < cap,
         PendingAt(S)' = PendingAt(S), Drafting(S)' \subseteq Creators,
         Inserts(S)' = Inserts(S)
  PROVE  Budget(S, cap)'
<1>1. /\ Cardinality(Drafting(S)') \in Nat /\ Cardinality(Creators) \in Nat
      /\ Cardinality(Drafting(S)') <= Cardinality(Creators)
  BY ServiceAssumption, SetSizes
<1>2. IsFiniteSet(PendingAt(S)') /\ Cardinality(PendingAt(S)') \in Nat
      /\ Cardinality(PendingAt(S)') < cap
  BY FS_CardinalityType DEF Budget
<1>3. /\ Cardinality(Inserts(S)') \in Nat /\ Cardinality(Inserts(S)') <= Reserve
      /\ Reserve \in Nat
  BY BudgetSizes
<1>4. Cardinality(PendingAt(S)') + Cardinality(Drafting(S)') + Cardinality(Inserts(S)')
        <= cap + Cardinality(Creators) - 1 + Reserve
  BY <1>1, <1>2, <1>3
<1>5. QED
  BY <1>2, <1>4 DEF Budget

\* What a statement that is executed does to the pending invoices.
LEMMA RowsPending ==
  ASSUME TypeOK, NEW S, NEW s \in Statement, Affects(s),
         invoices' = [invoices EXCEPT ![s.id] = NewRow(s)]
  PROVE  /\ Gains(PendingAt(S), PendingAt(S)')
         /\ ~(s.op = "create" /\ s.row.payTo \in S) => PendingAt(S)' \subseteq PendingAt(S)
<1>1. s.id \in Ids /\ NewRow(s) \in Invoice
  BY AppliedRow DEF TypeOK
<1>2. \A j \in Ids : invoices'[j] = IF j = s.id THEN NewRow(s) ELSE invoices[j]
  BY <1>1 DEF TypeOK, StoreTypeOK
<1>3. PendingAt(S)' \subseteq PendingAt(S) \cup {s.id}
  BY <1>2 DEF PendingAt, Pending, HasStatus, Exists
<1>4. ASSUME s.id \notin PendingAt(S)'
      PROVE  PendingAt(S)' \subseteq PendingAt(S)
  BY <1>3, <1>4
<1>5. CASE s.op = "create" /\ s.row.payTo \notin S
  <2>1. NewRow(s) = s.row
    BY <1>5 DEF NewRow
  <2>2. invoices'[s.id].payTo \notin S
    BY <1>1, <1>2, <1>5, <2>1
  <2>3. s.id \notin PendingAt(S)'
    BY <2>2 DEF PendingAt
  <2>4. QED
    BY <1>3, <1>4, <2>3 DEF Gains
<1>6. CASE s.op # "create"
  <2>1. s.tx \in Nat /\ s.at \in Nat
    BY DEF Statement
  <2>2. NewRow(s).status # "pending"
    <3>1. CASE s.op = "claim"
      <4>1. invoices[s.id] \in Invoice /\ NewRow(s) = AsPaid(invoices[s.id], s.tx, s.at)
        BY <3>1, AppliedRow DEF TypeOK
      <4>2. QED
        BY <2>1, <4>1, TransitionsKeepTerms
    <3>2. CASE s.op = "expire"
      BY <2>1, <3>2, AppliedRow, TransitionsKeepTerms DEF TypeOK
    <3>3. QED
      BY <1>6, <3>1, <3>2, AppliedRow DEF TypeOK
  <2>3. s.id \notin PendingAt(S)'
    BY <1>1, <1>2, <2>2 DEF PendingAt, Pending, HasStatus
  <2>4. QED
    BY <1>3, <1>4, <2>3 DEF Gains
<1>7. QED
  BY <1>3, <1>5, <1>6 DEF Gains

\* What a call does: it is executed, or has no effect yet.
LEMMA CallOutcome ==
  ASSUME NEW s, NEW reply, Call(s, reply)
  PROVE  \/ /\ Affects(s) /\ invoices' = [invoices EXCEPT ![s.id] = NewRow(s)]
            /\ orphans' = orphans /\ reply = "ok"
         \/ invoices' = invoices /\ orphans' = orphans /\ reply # "ok"
         \/ /\ invoices' = invoices /\ orphans' = orphans \cup {s} /\ reply = "error"
            /\ Backend = "postgres" /\ Cardinality(orphans) < MaxOrphans
BY DEF Call, Apply, storeVars

\* The statements of unknown fate stay within their bound.
LEMMA OrphansNext ==
  ASSUME OrphansBounded, [Next]_vars
  PROVE  OrphansBounded'
<1>1. CASE orphans' = orphans
  BY <1>1 DEF OrphansBounded
<1>2. ASSUME NEW s, NEW r, Call(s, r)
      PROVE  OrphansBounded'
  <2>1. CASE orphans' = orphans \cup {s} /\ Backend = "postgres" /\ Cardinality(orphans) < MaxOrphans
    <3>1. Gains(orphans, orphans')
      BY <2>1 DEF Gains
    <3>2. /\ IsFiniteSet(orphans') /\ Cardinality(orphans') \in Nat /\ Cardinality(orphans) \in Nat
          /\ Cardinality(orphans') <= Cardinality(orphans) + 1
      BY <3>1, SetSizes DEF OrphansBounded
    <3>3. Cardinality(orphans') <= MaxOrphans
      BY <2>1, <3>2, StoreAssumption
    <3>4. QED
      BY <2>1, <3>2, <3>3 DEF OrphansBounded, Reserve
  <2>2. QED
    BY <1>1, <1>2, <2>1, CallOutcome
<1>3. CASE LateCommit
  <2>1. orphans' \subseteq orphans
    BY <1>3 DEF LateCommit, OrphanCommits
  <2>2. /\ IsFiniteSet(orphans') /\ Cardinality(orphans') \in Nat /\ Cardinality(orphans) \in Nat
        /\ Cardinality(orphans') <= Cardinality(orphans)
    BY <2>1, SetSizes DEF OrphansBounded
  <2>3. Reserve \in Nat
    BY StoreAssumption DEF Reserve
  <2>4. QED
    BY <2>2, <2>3 DEF OrphansBounded
<1>4. ASSUME NEW k \in Creators, CreateNext(k) PROVE OrphansBounded'
  BY <1>1, <1>2, <1>4 DEF CreateNext, Draft, Allocate, storeVars
<1>5. ASSUME NEW c \in Callers, CheckNext(c) PROVE OrphansBounded'
  BY <1>1, <1>2, <1>5 DEF CheckNext, Verify, Lock, Reread, Fire, CheckDeadline,
                          ReplyCurrent, Claim, Expire, storeVars
<1>6. QED
  BY <1>1, <1>3, <1>4, <1>5 DEF Next, vars, Tick, Pay, Crash, Lookup, storeVars

\* An allocation ends with an invoice, with an insert of unknown fate, or with
\* nothing; only a taken memo keeps the draft.
LEMMA BudgetAllocates ==
  ASSUME TypeOK, OrphansBounded, NEW S, NEW cap \in Nat, Budget(S, cap),
         NEW k \in Creators, NEW i \in Ids, NEW memo \in Memos, NEW r \in Replies,
         Allocate(k, i, memo, r)
  PROVE  Budget(S, cap)'
<1> DEFINE row == NewInvoice(create[k].draft, memo)
           s   == CreateInvoice(i, row)
<1>1. /\ create[k] \in [draft : DraftRecord, attempt : 1 .. Attempts]
      /\ create[k] # IdleCreate
  BY DEF Allocate, TypeOK
<1>2. row \in Invoice /\ row.payTo = create[k].draft.payTo
  BY <1>1, DraftTyped DEF NewInvoice
<1>3. s.op = "create" /\ s.row = row /\ s.id = i
  BY DEF CreateInvoice
<1>4. s \in Statement
  BY <1>2, StatementsTyped
<1> HIDE DEF row
<1>5. Call(s, r) /\ create' = [create EXCEPT ![k] = AfterAttempt(create[k], r)]
  BY DEF Allocate, row
<1> HIDE DEF s
<1>6. AfterAttempt(create[k], r) = IdleCreate \/ AfterAttempt(create[k], r).draft = create[k].draft
  BY <1>1 DEF AfterAttempt
<1>7. \A d \in Creators : create'[d] = IF d = k THEN AfterAttempt(create[k], r) ELSE create[d]
  BY <1>5 DEF TypeOK
<1>8. Drafting(S)' \subseteq Drafting(S)
  BY <1>1, <1>6, <1>7 DEF Drafting
<1>9. ASSUME r # "no", row.payTo \in S
      PROVE  Loses(Drafting(S), Drafting(S)')
  <2>1. create'[k] = IdleCreate
    BY <1>7, <1>9 DEF AfterAttempt
  <2>2. k \in Drafting(S) /\ Drafting(S)' \subseteq Drafting(S) \ {k}
    BY <1>1, <1>2, <1>8, <1>9, <2>1 DEF Drafting
  <2>3. QED
    BY <2>2 DEF Loses
<1>10. CASE /\ Affects(s) /\ invoices' = [invoices EXCEPT ![s.id] = NewRow(s)]
            /\ orphans' = orphans /\ r = "ok"
  <2>1. Inserts(S)' = Inserts(S)
    BY <1>10 DEF Inserts
  <2>2. /\ Gains(PendingAt(S), PendingAt(S)')
        /\ row.payTo \notin S => PendingAt(S)' \subseteq PendingAt(S)
    BY <1>3, <1>4, <1>10, RowsPending
  <2>3. QED
    BY <1>8, <1>9, <1>10, <2>1, <2>2, BudgetMoves
<1>11. CASE invoices' = invoices /\ orphans' = orphans
  <2>1. Inserts(S)' = Inserts(S) /\ PendingAt(S)' = PendingAt(S)
    BY <1>11 DEF Inserts, PendingAt, Pending, HasStatus, Exists
  <2>2. QED
    BY <1>8, <2>1, BudgetMoves
<1>12. CASE invoices' = invoices /\ orphans' = orphans \cup {s} /\ r = "error"
  <2>1. PendingAt(S)' = PendingAt(S)
    BY <1>12 DEF PendingAt, Pending, HasStatus, Exists
  <2>2. Inserts(S)' \subseteq Inserts(S) \cup {s}
    BY <1>12 DEF Inserts
  <2>3. CASE row.payTo \in S
    BY <1>9, <1>12, <2>1, <2>2, <2>3, BudgetMoves DEF Gains
  <2>4. CASE row.payTo \notin S
    <3>1. Inserts(S)' \subseteq Inserts(S)
      BY <1>3, <1>12, <2>4 DEF Inserts
    <3>2. QED
      BY <1>8, <2>1, <3>1, BudgetMoves
  <2>5. QED
    BY <2>3, <2>4
<1>13. QED
  BY <1>5, <1>10, <1>11, <1>12, CallOutcome

\* A late commit turns an insert of unknown fate into an invoice, or into nothing.
LEMMA BudgetCommits ==
  ASSUME TypeOK, OrphansBounded, NEW S, NEW cap \in Nat, Budget(S, cap), LateCommit
  PROVE  Budget(S, cap)'
<1>1. PICK s \in orphans : OrphanCommits(s)
  BY DEF LateCommit
<1>2. s \in Statement /\ orphans' = orphans \ {s} /\ create' = create
  BY <1>1 DEF LateCommit, OrphanCommits, TypeOK, StoreTypeOK
<1>3. Drafting(S)' = Drafting(S) /\ Inserts(S)' \subseteq Inserts(S)
  BY <1>2 DEF Drafting, Inserts
<1>4. ASSUME s.op = "create", s.row.payTo \in S
      PROVE  Loses(Inserts(S), Inserts(S)')
  <2>1. s \in Inserts(S) /\ Inserts(S)' \subseteq Inserts(S) \ {s}
    BY <1>2, <1>4 DEF Inserts
  <2>2. QED
    BY <2>1 DEF Loses
<1>5. CASE Affects(s)
  <2>1. invoices' = [invoices EXCEPT ![s.id] = NewRow(s)]
    BY <1>1, <1>5 DEF OrphanCommits, Apply
  <2>2. /\ Gains(PendingAt(S), PendingAt(S)')
        /\ ~(s.op = "create" /\ s.row.payTo \in S) => PendingAt(S)' \subseteq PendingAt(S)
    BY <1>2, <1>5, <2>1, RowsPending
  <2>3. QED
    BY <1>3, <1>4, <2>2, BudgetMoves
<1>6. CASE ~Affects(s)
  <2>1. invoices' = invoices
    BY <1>1, <1>6 DEF OrphanCommits
  <2>2. PendingAt(S)' = PendingAt(S)
    BY <2>1 DEF PendingAt, Pending, HasStatus, Exists
  <2>3. QED
    BY <1>3, <2>2, BudgetMoves
<1>7. QED
  BY <1>5, <1>6

\* Claims and expiries only take invoices out of the pending ones.
LEMMA BudgetTransitions ==
  ASSUME TypeOK, OrphansBounded, NEW S, NEW cap \in Nat, Budget(S, cap),
         NEW c \in Callers, NEW r \in Replies, Claim(c, r) \/ Expire(c, r)
  PROVE  Budget(S, cap)'
<1>1. check[c] \in ActiveRecord
  BY ActiveCaller DEF Claim, Expire
<1>2. PICK s \in Statement : s.op # "create" /\ Call(s, r)
  <2>1. CASE Claim(c, r)
    <3> DEFINE s == ClaimInvoiceForSettlement(check[c].id, check[c].tx, check[c].at)
    <3>1. s \in Statement /\ s.op # "create"
      BY <1>1, StatementsTyped DEF ActiveRecord, ClaimInvoiceForSettlement
    <3>2. Call(s, r)
      BY <2>1 DEF Claim
    <3> HIDE DEF s
    <3>3. QED
      BY <3>1, <3>2
  <2>2. CASE Expire(c, r)
    <3> DEFINE s == ExpireInvoice(check[c].id)
    <3>1. s \in Statement /\ s.op # "create"
      BY <1>1, StatementsTyped DEF ActiveRecord, ExpireInvoice
    <3>2. Call(s, r)
      BY <2>2 DEF Expire
    <3> HIDE DEF s
    <3>3. QED
      BY <3>1, <3>2
  <2>3. QED
    BY <2>1, <2>2
<1>3. create' = create
  BY DEF Claim, Expire
<1>4. Drafting(S)' = Drafting(S)
  BY <1>3 DEF Drafting
<1>5. Inserts(S)' \subseteq Inserts(S)
  BY <1>2, CallOutcome DEF Inserts
<1>6. PendingAt(S)' \subseteq PendingAt(S)
  <2>1. CASE invoices' = invoices
    BY <2>1 DEF PendingAt, Pending, HasStatus, Exists
  <2>2. CASE Affects(s) /\ invoices' = [invoices EXCEPT ![s.id] = NewRow(s)]
    BY <1>2, <2>2, RowsPending
  <2>3. QED
    BY <1>2, <2>1, <2>2, CallOutcome
<1>7. QED
  BY <1>4, <1>5, <1>6, BudgetMoves

\* What a step does to the sets of a budget.
LEMMA BudgetStep ==
  ASSUME TypeOK, OrphansBounded, Next, NEW S, NEW cap \in Nat, Budget(S, cap),
         \A k \in Creators, a \in Addrs, amount \in Amounts, ttl \in Ttls :
           Draft(k, a, amount, ttl) /\ a \in S => Cardinality(PendingAt(S)) < cap
  PROVE  Budget(S, cap)'
<1>1. ASSUME invoices' = invoices, orphans' = orphans
      PROVE  PendingAt(S)' = PendingAt(S) /\ Inserts(S)' = Inserts(S)
  BY <1>1 DEF PendingAt, Pending, HasStatus, Exists, Inserts
<1>2. CASE invoices' = invoices /\ orphans' = orphans /\ create' = create
  <2>1. Drafting(S)' = Drafting(S)
    BY <1>2 DEF Drafting
  <2>2. QED
    BY <1>1, <1>2, <2>1, BudgetMoves
<1>3. ASSUME NEW n \in Instances, Crash(n)
      PROVE  Budget(S, cap)'
  <2>1. Drafting(S)' \subseteq Drafting(S)
    BY <1>3 DEF Crash, Drafting
  <2>2. QED
    BY <1>1, <1>3, <2>1, BudgetMoves DEF Crash, storeVars
<1>4. ASSUME NEW k \in Creators, NEW a \in Addrs, NEW amount \in Amounts, NEW ttl \in Ttls,
             Draft(k, a, amount, ttl)
      PROVE  Budget(S, cap)'
  <2>1. PendingAt(S)' = PendingAt(S) /\ Inserts(S)' = Inserts(S)
    BY <1>1, <1>4 DEF Draft, storeVars
  <2>2. CASE a \in S
    <3>1. Drafting(S)' \subseteq Creators
      BY DEF Drafting
    <3>2. Cardinality(PendingAt(S)) < cap
      BY <1>4, <2>2
    <3>3. QED
      BY <2>1, <3>1, <3>2, BudgetDrafts
  <2>3. CASE a \notin S
    <3> DEFINE local == [draft |-> [payTo |-> a, amount |-> amount, createdAt |-> now,
                                    expiresAt |-> now + EffectiveTTL(ttl)],
                         attempt |-> 1]
    <3>1. create' = [create EXCEPT ![k] = local]
      BY <1>4 DEF Draft
    <3>2. local.draft.payTo = a
      OBVIOUS
    <3> HIDE DEF local
    <3>3. Drafting(S)' \subseteq Drafting(S)
      BY <2>3, <3>1, <3>2 DEF Drafting, TypeOK
    <3>4. QED
      BY <2>1, <3>3, BudgetMoves
  <2>4. QED
    BY <2>2, <2>3
<1>5. ASSUME NEW k \in Creators, CreateNext(k)
      PROVE  Budget(S, cap)'
  BY <1>4, <1>5, BudgetAllocates DEF CreateNext
<1>6. ASSUME NEW c \in Callers, CheckNext(c) \/ \E i \in Ids : Lookup(c, i)
      PROVE  Budget(S, cap)'
  BY <1>2, <1>6, BudgetTransitions
     DEF CheckNext, Lookup, Verify, Lock, Reread, Fire, CheckDeadline, ReplyCurrent, storeVars
<1>7. QED
  BY <1>2, <1>3, <1>5, <1>6, BudgetCommits DEF Next, Tick, Pay, storeVars

\* The counts CreateInvoice reads are those of the two budgets.
LEMMA CountsRead ==
  ASSUME TypeOK
  PROVE  /\ PendingAt(Addrs) = Pending
         /\ \A a \in Addrs : PendingAt({a}) = {i \in Pending : invoices[i].payTo = a}
<1>1. \A i \in Pending : invoices[i] \in Invoice
  BY DEF TypeOK, StoreTypeOK, Pending, HasStatus, Exists
<1>2. \A i \in Pending : invoices[i].payTo \in Addrs
  BY <1>1 DEF Invoice
<1>3. QED
  BY <1>2 DEF PendingAt

LEMMA CapsNext ==
  ASSUME TypeOK, OrphansBounded, CapsOK, [Next]_vars
  PROVE  CapsOK'
<1>0. MaxPending \in Nat /\ MaxPendingPerAddr \in Nat
  BY ServiceAssumption
<1>1. CASE UNCHANGED vars
  BY <1>1 DEF vars, CapsOK, Budget, PendingAt, Pending, HasStatus, Exists, Drafting, Inserts
<1>2. CASE Next
  <2>1. ASSUME MaxPending > 0 PROVE Budget(Addrs, MaxPending)'
    <3>1. Budget(Addrs, MaxPending)
      BY <2>1 DEF CapsOK
    <3>2. ASSUME NEW k \in Creators, NEW a \in Addrs, NEW amount \in Amounts, NEW ttl \in Ttls,
                 Draft(k, a, amount, ttl)
          PROVE  Cardinality(PendingAt(Addrs)) < MaxPending
      BY <2>1, <3>2, CountsRead DEF Draft, BelowCaps, PendingCounts
    <3>3. QED
      BY <1>0, <1>2, <3>1, <3>2, BudgetStep
  <2>2. ASSUME MaxPendingPerAddr > 0, NEW b \in Addrs PROVE Budget({b}, MaxPendingPerAddr)'
    <3>1. Budget({b}, MaxPendingPerAddr)
      BY <2>2 DEF CapsOK
    <3>2. ASSUME NEW k \in Creators, NEW amount \in Amounts, NEW ttl \in Ttls,
                 Draft(k, b, amount, ttl)
          PROVE  Cardinality(PendingAt({b})) < MaxPendingPerAddr
      BY <2>2, <3>2, CountsRead DEF Draft, BelowCaps, PendingCounts
    <3>3. QED
      BY <1>0, <1>2, <3>1, <3>2, BudgetStep
  <2>3. QED
    BY <2>1, <2>2 DEF CapsOK
<1>3. QED
  BY <1>1, <1>2

\* Creators that pass a cap together overshoot it by at most one invoice per other
\* creator, and with PostgreSQL by one more per insert whose fate its caller does
\* not know, for the total and for every address.
THEOREM OvershootBounded == Spec => []PendingOvershootBounded
<1>1. Init => OrphansBounded /\ CapsOK
  <2> SUFFICES ASSUME Init PROVE OrphansBounded /\ CapsOK
    OBVIOUS
  <2>1. \A S : PendingAt(S) = {} /\ Drafting(S) = {} /\ Inserts(S) = {}
    BY DEF Init, StoreInit, PendingAt, Pending, HasStatus, Exists, Drafting, Inserts
  <2>2. Reserve \in Nat /\ OrphansBounded
    BY FS_EmptySet, StoreAssumption DEF Init, StoreInit, OrphansBounded, Reserve
  <2>3. \A S : \A cap \in Nat \ {0} : Budget(S, cap)
    BY <2>1, <2>2, FS_EmptySet, BudgetSizes DEF Budget
  <2>4. QED
    BY <2>2, <2>3, ServiceAssumption DEF CapsOK
<1>2. TypeOK /\ OrphansBounded /\ CapsOK /\ [Next]_vars => OrphansBounded' /\ CapsOK'
  BY OrphansNext, CapsNext
<1>3. TypeOK /\ OrphansBounded /\ CapsOK => PendingOvershootBounded
  <2> SUFFICES ASSUME TypeOK, OrphansBounded, CapsOK PROVE PendingOvershootBounded
    OBVIOUS
  <2>1. ASSUME NEW S, NEW cap \in Nat, Budget(S, cap)
        PROVE  Cardinality(PendingAt(S)) <= cap + (Cardinality(Creators) - 1) + Reserve
    <3>1. Cardinality(PendingAt(S)) \in Nat
      BY <2>1, FS_CardinalityType DEF Budget
    <3>2. Cardinality(PendingAt(S)) + Cardinality(Drafting(S)) + Cardinality(Inserts(S))
            <= cap + Cardinality(Creators) - 1 + Reserve
      BY <2>1 DEF Budget
    <3>3. Cardinality(Drafting(S)) \in Nat
      BY BudgetSizes, FS_CardinalityType
    <3>4. QED
      BY <3>1, <3>2, <3>3, BudgetSizes
  <2>2. MaxPending > 0 =>
          Cardinality(Pending) <= MaxPending + (Cardinality(Creators) - 1) + Reserve
    BY <2>1, CountsRead, ServiceAssumption DEF CapsOK
  <2>3. MaxPendingPerAddr > 0 => \A a \in Addrs :
          PendingCounts(a).forAddr <= MaxPendingPerAddr + (Cardinality(Creators) - 1) + Reserve
    BY <2>1, CountsRead, ServiceAssumption DEF CapsOK, PendingCounts
  <2>4. QED
    BY <2>2, <2>3 DEF PendingOvershootBounded, Reserve
<1>4. QED
  BY <1>1, <1>2, <1>3, TypeCorrect, PTL DEF Spec
=============================================================================
