------------------------- MODULE InvoiceSafetyProofs --------------------------
(***************************************************************************)
(* The safety properties of InvoiceService, from one inductive invariant.  *)
(*                                                                         *)
(* The difficulty is that CheckStatus acts on what it read earlier: the    *)
(* verdict was reached about a copy of the invoice, before the lock; the   *)
(* claim and the expiry are sent later still and, with Postgres, may take  *)
(* effect when their caller has long returned.  The invariant says what    *)
(* each of those leftovers is still worth: a copy has the stored terms and *)
(* is the stored invoice as long as that is pending, a verdict names a     *)
(* transaction that pays the invoice, and every statement on its way to    *)
(* the store is backed by such a verdict or by a deadline that has passed. *)
(***************************************************************************)
EXTENDS InvoiceServiceProofs

-----------------------------------------------------------------------------
(* The invariant, in terms of values so that it can be stated of two states.*)

\* How the entry of one identifier may change in a step.
RowEvolves(old, new) ==
  \/ new = old
  \/ /\ old = NoInvoice
     /\ new \in Invoice
     /\ new.status = "pending"
  \/ /\ old \in Invoice
     /\ old.status = "pending"
     /\ new \in Invoice
     /\ new.status # "pending"
     /\ Terms(new) = Terms(old)

StoreEvolves == \A i \in Ids : RowEvolves(invoices[i], invoices'[i])

\* A caller's copy of an invoice whose stored entry is row.
SnapshotOK(local, row) ==
  /\ row # NoInvoice
  /\ Terms(local.inv) = Terms(row)
  /\ local.pc # "fire" => local.inv.status = "pending"
  /\ row.status = "pending" => local.inv = row

CallerOK(local, rows, ledger, time, announced) ==
  /\ local.pc # "idle" => SnapshotOK(local, rows[local.id])
  /\ local.pc \in {"lock", "reread", "claim", "fire", "lostClaim"}
       => Pays(ledger, local.tx, local.inv)
  /\ local.pc = "expire" => time > local.inv.expiresAt
  /\ local.pc = "fire" => /\ local.inv = rows[local.id]
                          /\ local.inv.status = "paid"
                          /\ announced[local.id] = << >>
  /\ local.pc = "idle" /\ local.inv # NoInvoice /\ local.inv.status # "pending"
       => local.inv = rows[local.id]

\* What a statement on its way to the store rests on.
Backed(s, rows, ledger, time) ==
  /\ s.op = "create" => s.row.status = "pending"
  /\ s.op = "claim"  => rows[s.id] # NoInvoice /\ Pays(ledger, s.tx, rows[s.id])
  /\ s.op = "expire" => rows[s.id] # NoInvoice /\ time > rows[s.id].expiresAt

CallersOK == \A c \in Callers : CallerOK(check[c], invoices, chain, now, fired)

OrphansBacked == \A s \in orphans : Backed(s, invoices, chain, now)

OneFirer ==
  \A c, d \in Callers :
    check[c].pc = "fire" /\ check[d].pc = "fire" /\ check[c].id = check[d].id => c = d

StoreOK == MemosUnique /\ PaidByOwnPayment /\ ExpiredAfterDeadline

IInv ==
  /\ TypeOK
  /\ StoreOK
  /\ OrphansBacked
  /\ CallersOK
  /\ OneFirer
  /\ FiredOnceWithStoredInvoice

-----------------------------------------------------------------------------
(* What the parts of the invariant survive.                                *)

\* The verdict depends on the terms only, and a growing ledger keeps it.
LEMMA PaysByTerms ==
  ASSUME NEW ledger, NEW k, NEW a \in Invoice, NEW b \in Invoice,
         Terms(a) = Terms(b), Pays(ledger, k, a)
  PROVE  Pays(ledger, k, b)
BY DEF Pays, Terms, Invoice

LEMMA PaysLater ==
  ASSUME NEW ledger \in Seq(LedgerEntry), NEW e, NEW k, NEW inv, Pays(ledger, k, inv)
  PROVE  Pays(Append(ledger, e), k, inv)
<1>1. k \in DOMAIN Append(ledger, e) /\ Append(ledger, e)[k] = ledger[k]
  BY DEF Pays
<1> QED BY <1>1 DEF Pays

LEMMA SnapshotSurvives ==
  ASSUME NEW local \in ActiveRecord, NEW old \in Invoice, NEW new, RowEvolves(old, new),
         SnapshotOK(local, old)
  PROVE  SnapshotOK(local, new)
BY NoInvoiceAssumption DEF SnapshotOK, RowEvolves

Rows == [Ids -> Invoice \cup {NoInvoice}]

\* A caller that does not move keeps its part of the invariant.
LEMMA CallerSurvives ==
  ASSUME NEW local \in Caller, NEW rows \in Rows, NEW rows2 \in Rows,
         \A i \in Ids : RowEvolves(rows[i], rows2[i]),
         NEW ledger, NEW ledger2,
         \A k, inv : Pays(ledger, k, inv) => Pays(ledger2, k, inv),
         NEW time \in Nat, NEW time2 \in Nat, time2 >= time,
         NEW announced, NEW announced2,
         local.pc = "fire" => announced2[local.id] = announced[local.id],
         CallerOK(local, rows, ledger, time, announced)
  PROVE  CallerOK(local, rows2, ledger2, time2, announced2)
<1>1. CASE local.pc = "idle"
  <2>1. local.inv # NoInvoice => local.id \in Ids /\ local.inv \in Invoice
    BY DEF Caller, Idle
  <2>2. ASSUME local.inv # NoInvoice, local.inv.status # "pending"
        PROVE  local.inv = rows2[local.id]
    <3>1. local.inv = rows[local.id] /\ RowEvolves(rows[local.id], rows2[local.id])
      BY <1>1, <2>1, <2>2 DEF CallerOK
    <3> QED BY <2>1, <2>2, <3>1 DEF RowEvolves
  <2> QED BY <1>1, <2>2 DEF CallerOK
<1>2. CASE local.pc # "idle"
  <2>1. local \in ActiveRecord
    BY <1>2 DEF Caller, Idle, ActiveRecord
  <2>2. local.id \in Ids /\ local.inv \in Invoice /\ local.inv.expiresAt \in Nat
    BY <2>1 DEF ActiveRecord, Invoice
  <2>3. SnapshotOK(local, rows[local.id]) /\ rows[local.id] \in Invoice
    BY <1>2, <2>2 DEF CallerOK, SnapshotOK, Rows
  <2>4. SnapshotOK(local, rows2[local.id])
    BY <2>1, <2>2, <2>3, SnapshotSurvives
  <2>5. local.pc \in {"lock", "reread", "claim"} => Pays(ledger2, local.tx, local.inv)
    BY DEF CallerOK
  <2>6. local.pc = "expire" => time2 > local.inv.expiresAt
    BY <2>2 DEF CallerOK
  <2>7. local.pc = "fire" => /\ local.inv = rows2[local.id]
                             /\ local.inv.status = "paid"
                             /\ announced2[local.id] = << >>
    <3> SUFFICES ASSUME local.pc = "fire"
                 PROVE  /\ local.inv = rows2[local.id]
                        /\ local.inv.status = "paid"
                        /\ announced2[local.id] = << >>
      OBVIOUS
    <3>1. local.inv = rows[local.id] /\ local.inv.status = "paid"
      BY DEF CallerOK
    <3>2. RowEvolves(rows[local.id], rows2[local.id])
      BY <2>2
    <3>3. rows2[local.id] = rows[local.id]
      BY <2>2, <3>1, <3>2, NoInvoiceAssumption DEF RowEvolves
    <3> QED BY <3>1, <3>3 DEF CallerOK
  <2> QED BY <1>2, <2>4, <2>5, <2>6, <2>7 DEF CallerOK
<1> QED BY <1>1, <1>2

\* So does a statement on its way.
LEMMA BackedSurvives ==
  ASSUME NEW s \in Statement, NEW rows \in Rows, NEW rows2 \in Rows,
         \A i \in Ids : RowEvolves(rows[i], rows2[i]),
         NEW ledger, NEW ledger2,
         \A k, inv : Pays(ledger, k, inv) => Pays(ledger2, k, inv),
         NEW time \in Nat, NEW time2 \in Nat, time2 >= time,
         Backed(s, rows, ledger, time)
  PROVE  Backed(s, rows2, ledger2, time2)
<1>1. s.id \in Ids
  BY DEF Statement
<1>2. CASE s.op = "create"
  BY <1>2 DEF Backed
<1>3. ASSUME rows[s.id] # NoInvoice
      PROVE  /\ rows[s.id] \in Invoice
             /\ rows2[s.id] \in Invoice
             /\ rows2[s.id] # NoInvoice
             /\ Terms(rows2[s.id]) = Terms(rows[s.id])
  BY <1>1, <1>3, NoInvoiceAssumption DEF Rows, RowEvolves
<1>4. CASE s.op = "claim"
  <2>1. rows[s.id] # NoInvoice /\ Pays(ledger2, s.tx, rows[s.id])
    BY <1>4 DEF Backed
  <2>2. Pays(ledger2, s.tx, rows2[s.id])
    BY <1>3, <2>1, PaysByTerms
  <2> QED BY <1>3, <1>4, <2>1, <2>2 DEF Backed
<1>5. CASE s.op = "expire"
  <2>1. rows[s.id] # NoInvoice /\ time > rows[s.id].expiresAt
    BY <1>5 DEF Backed
  <2>2. rows2[s.id].expiresAt = rows[s.id].expiresAt /\ rows[s.id].expiresAt \in Nat
    BY <1>3, <2>1 DEF Terms, Invoice
  <2> QED BY <1>3, <1>5, <2>1, <2>2 DEF Backed
<1> QED BY <1>2, <1>4, <1>5 DEF Statement

-----------------------------------------------------------------------------
(* Steps.                                                                  *)

\* A step that applies at most one backed statement to the store.
LEMMA StoreStep ==
  ASSUME TypeOK, StoreOK, OrphansBacked,
         NEW s \in Statement, Backed(s, invoices, chain, now),
         StoreTypeOK',
         \/ Affects(s) /\ invoices' = [invoices EXCEPT ![s.id] = NewRow(s)]
         \/ invoices' = invoices,
         orphans' \subseteq orphans \cup {s},
         chain' = chain, now' = now
  PROVE  StoreEvolves /\ StoreOK' /\ OrphansBacked'
<1>0. s.id \in Ids /\ StoreTypeOK /\ invoices \in Rows /\ invoices' \in Rows /\ now \in Nat
  BY DEF Statement, TypeOK, StoreTypeOK, Rows
<1>1. StoreEvolves
  <2>1. CASE invoices' = invoices
    BY <2>1 DEF StoreEvolves, RowEvolves
  <2>2. CASE Affects(s) /\ invoices' = [invoices EXCEPT ![s.id] = NewRow(s)]
    <3>1. RowEvolves(invoices[s.id], NewRow(s))
      <4>1. CASE s.op = "create"
        BY <1>0, <2>2, <4>1, AppliedRow DEF RowEvolves, Backed
      <4>2. CASE s.op = "claim"
        <5>1. s.tx \in Nat /\ s.at \in Nat
          BY DEF Statement
        <5>2. /\ invoices[s.id] \in Invoice
              /\ invoices[s.id].status = "pending"
              /\ NewRow(s) = AsPaid(invoices[s.id], s.tx, s.at)
              /\ NewRow(s) \in Invoice
          BY <1>0, <2>2, <4>2, AppliedRow
        <5>3. Terms(NewRow(s)) = Terms(invoices[s.id]) /\ NewRow(s).status = "paid"
          BY <5>1, <5>2, TransitionsKeepTerms
        <5> QED BY <5>2, <5>3 DEF RowEvolves
      <4>3. CASE s.op = "expire"
        <5>1. /\ invoices[s.id] \in Invoice
              /\ invoices[s.id].status = "pending"
              /\ NewRow(s) = AsExpired(invoices[s.id])
              /\ NewRow(s) \in Invoice
          BY <1>0, <2>2, <4>3, AppliedRow
        <5>2. Terms(NewRow(s)) = Terms(invoices[s.id]) /\ NewRow(s).status = "expired"
          BY <5>1, TransitionsKeepTerms, 0 \in Nat
        <5> QED BY <5>1, <5>2 DEF RowEvolves
      <4> QED BY <4>1, <4>2, <4>3 DEF Statement
    <3> QED BY <1>0, <2>2, <3>1 DEF StoreEvolves, RowEvolves, Rows
  <2> QED BY <2>1, <2>2
<1>2. MemosUnique'
  <2>1. CASE invoices' = invoices
    BY <2>1 DEF StoreOK, MemosUnique, Exists
  <2>2. CASE Affects(s) /\ invoices' = [invoices EXCEPT ![s.id] = NewRow(s)]
    <3>1. CASE s.op = "create"
      <4>1. \A j \in Ids : invoices[j] # NoInvoice =>
              <<invoices[j].payTo, invoices[j].memo>> # <<s.row.payTo, s.row.memo>>
        BY <2>2, <3>1 DEF Affects, MemoTaken, Exists
      <4>2. NewRow(s) = s.row
        BY <1>0, <2>2, <3>1, AppliedRow
      <4> QED BY <1>0, <2>2, <4>1, <4>2 DEF StoreOK, MemosUnique, Exists, Rows
    <3>2. CASE s.op # "create"
      <4>1. invoices[s.id] # NoInvoice
        BY <2>2, <3>2 DEF Affects, HasStatus, Exists
      <4>2. \A j \in Ids : invoices'[j] # NoInvoice =>
              /\ invoices[j] # NoInvoice
              /\ Terms(invoices'[j]) = Terms(invoices[j])
        BY <1>0, <1>1, <2>2, <4>1 DEF StoreEvolves, RowEvolves, Rows
      <4> QED BY <4>2 DEF StoreOK, MemosUnique, Exists, Terms
    <3> QED BY <3>1, <3>2
  <2> QED BY <2>1, <2>2
<1>3. ASSUME NEW i \in Ids, invoices'[i] # NoInvoice, invoices'[i].status = "paid"
      PROVE  Pays(chain', invoices'[i].txHash, invoices'[i])
  <2>1. CASE invoices'[i] = invoices[i]
    BY <1>3, <2>1 DEF StoreOK, PaidByOwnPayment, HasStatus, Exists
  <2>2. CASE invoices'[i] # invoices[i]
    <3>1. Affects(s) /\ i = s.id /\ invoices'[i] = NewRow(s)
      BY <1>0, <2>2 DEF Rows
    <3>2. s.op = "claim"
      <4>1. s.op = "expire" => NewRow(s).status = "expired"
        BY <1>0, <3>1, AppliedRow, TransitionsKeepTerms, 0 \in Nat
      <4>2. s.op = "create" => NewRow(s).status = "pending"
        BY <1>0, <3>1, AppliedRow DEF Backed
      <4> QED BY <1>3, <3>1, <4>1, <4>2 DEF Statement
    <3>3. s.tx \in Nat /\ s.at \in Nat
      BY DEF Statement
    <3>4. /\ invoices[i] \in Invoice
          /\ NewRow(s) = AsPaid(invoices[i], s.tx, s.at)
      BY <1>0, <3>1, <3>2, AppliedRow
    <3>5. /\ Terms(NewRow(s)) = Terms(invoices[i])
          /\ NewRow(s).txHash = s.tx
          /\ NewRow(s) \in Invoice
      BY <3>3, <3>4, TransitionsKeepTerms
    <3>6. Pays(chain, s.tx, invoices[i])
      BY <3>1, <3>2 DEF Backed
    <3> QED BY <3>1, <3>4, <3>5, <3>6, PaysByTerms
  <2> QED BY <2>1, <2>2
<1>4. ASSUME NEW i \in Ids, invoices'[i] # NoInvoice, invoices'[i].status = "expired"
      PROVE  now' > invoices'[i].expiresAt
  <2>1. CASE invoices'[i] = invoices[i]
    BY <1>4, <2>1 DEF StoreOK, ExpiredAfterDeadline, HasStatus, Exists
  <2>2. CASE invoices'[i] # invoices[i]
    <3>1. Affects(s) /\ i = s.id /\ invoices'[i] = NewRow(s)
      BY <1>0, <2>2 DEF Rows
    <3>2. s.tx \in Nat /\ s.at \in Nat
      BY DEF Statement
    <3>3. s.op = "expire"
      <4>1. s.op = "claim" => NewRow(s).status = "paid"
        <5>1. s.op = "claim" => /\ invoices[i] \in Invoice
                                /\ NewRow(s) = AsPaid(invoices[i], s.tx, s.at)
          BY <1>0, <3>1, AppliedRow
        <5> QED BY <3>2, <5>1, TransitionsKeepTerms
      <4>2. s.op = "create" => NewRow(s).status = "pending"
        BY <1>0, <3>1, AppliedRow DEF Backed
      <4> QED BY <1>4, <3>1, <4>1, <4>2 DEF Statement
    <3>4. invoices[i] \in Invoice /\ NewRow(s) = AsExpired(invoices[i])
      BY <1>0, <3>1, <3>3, AppliedRow
    <3>5. NewRow(s).expiresAt = invoices[i].expiresAt
      BY <3>4 DEF AsExpired, Invoice
    <3> QED BY <3>1, <3>3, <3>5 DEF Backed
  <2> QED BY <2>1, <2>2
<1>5. OrphansBacked'
  <2> SUFFICES ASSUME NEW o \in orphans'
               PROVE  Backed(o, invoices', chain', now')
    BY DEF OrphansBacked
  <2>1. o \in Statement /\ Backed(o, invoices, chain, now)
    BY DEF OrphansBacked, StoreTypeOK
  <2> QED BY <1>0, <1>1, <2>1, BackedSurvives DEF StoreEvolves
<1> QED BY <1>1, <1>2, <1>3, <1>4, <1>5
      DEF StoreOK, PaidByOwnPayment, ExpiredAfterDeadline, HasStatus, Exists

\* A caller that does not move in a step that fires no webhook.
LEMMA OthersKeep ==
  ASSUME IInv, TypeOK', StoreEvolves, fired' = fired, now' >= now,
         \A k, inv : Pays(chain, k, inv) => Pays(chain', k, inv),
         NEW d \in Callers, check'[d] = check[d]
  PROVE  CallerOK(check'[d], invoices', chain', now', fired')
<1>1. /\ check[d] \in Caller
      /\ invoices \in Rows /\ invoices' \in Rows
      /\ now \in Nat /\ now' \in Nat
      /\ \A i \in Ids : RowEvolves(invoices[i], invoices'[i])
      /\ CallerOK(check[d], invoices, chain, now, fired)
  BY DEF IInv, TypeOK, StoreTypeOK, Rows, CallersOK, StoreEvolves
<1> QED BY <1>1, CallerSurvives

LEMMA FiredSurvives ==
  ASSUME IInv, StoreEvolves, fired' = fired
  PROVE  FiredOnceWithStoredInvoice'
<1> SUFFICES ASSUME NEW i \in Ids, fired[i] # << >>
             PROVE  fired[i] = <<invoices'[i]>> /\ invoices'[i] # NoInvoice
                    /\ invoices'[i].status = "paid"
  BY DEF FiredOnceWithStoredInvoice, HasStatus, Exists
<1>1. fired[i] = <<invoices[i]>> /\ invoices[i] # NoInvoice /\ invoices[i].status = "paid"
  BY DEF IInv, FiredOnceWithStoredInvoice, HasStatus, Exists
<1>2. RowEvolves(invoices[i], invoices'[i])
  BY DEF StoreEvolves
<1> QED BY <1>1, <1>2 DEF RowEvolves

\* A step of the caller c alone: the store stays, c gets new locals and does not
\* start firing.
LEMMA CallerMoves ==
  ASSUME IInv, TypeOK', UNCHANGED <<invoices, orphans, chain, now, fired>>,
         NEW c \in Callers, NEW local, Becomes(c, local),
         local.pc # "fire",
         CallerOK(local, invoices, chain, now, fired)
  PROVE  IInv'
<1>1. StoreEvolves
  BY DEF StoreEvolves, RowEvolves
<1>2. \A d \in Callers : check'[d] = IF d = c THEN local ELSE check[d]
  BY DEF IInv, TypeOK, Becomes
<1>3. CallersOK'
  BY <1>2 DEF IInv, CallersOK
<1>4. OneFirer'
  BY <1>2 DEF IInv, OneFirer
<1>5. StoreOK' /\ OrphansBacked'
  BY DEF IInv, StoreOK, OrphansBacked, MemosUnique, PaidByOwnPayment, ExpiredAfterDeadline,
         HasStatus, Exists
<1> QED BY <1>1, <1>3, <1>4, <1>5, FiredSurvives DEF IInv

\* A step of the environment or of a creator that leaves the store alone.
LEMMA EnvironmentMoves ==
  ASSUME IInv, TypeOK', UNCHANGED <<invoices, orphans, check, fired>>, now' >= now,
         \A k, inv : Pays(chain, k, inv) => Pays(chain', k, inv)
  PROVE  IInv'
<1>1. StoreEvolves
  BY DEF StoreEvolves, RowEvolves
<1>2. CallersOK'
  BY <1>1, OthersKeep DEF CallersOK
<1>3. OrphansBacked'
  <2> SUFFICES ASSUME NEW s \in orphans
               PROVE  Backed(s, invoices', chain', now')
    BY DEF OrphansBacked
  <2>1. /\ s \in Statement /\ Backed(s, invoices, chain, now)
        /\ invoices \in Rows /\ invoices' \in Rows /\ now \in Nat /\ now' \in Nat
    BY DEF IInv, TypeOK, StoreTypeOK, Rows, OrphansBacked
  <2> QED BY <1>1, <2>1, BackedSurvives DEF StoreEvolves
<1>4. MemosUnique' /\ PaidByOwnPayment'
  BY DEF IInv, StoreOK, MemosUnique, PaidByOwnPayment, HasStatus, Exists
<1>5. ExpiredAfterDeadline'
  <2> SUFFICES ASSUME NEW i \in Ids, invoices[i] # NoInvoice, invoices[i].status = "expired"
               PROVE  now' > invoices[i].expiresAt
    BY DEF ExpiredAfterDeadline, HasStatus, Exists
  <2>1. now > invoices[i].expiresAt
    BY DEF IInv, StoreOK, ExpiredAfterDeadline, HasStatus, Exists
  <2>2. invoices[i].expiresAt \in Nat /\ now \in Nat /\ now' \in Nat
    BY DEF IInv, TypeOK, StoreTypeOK, Invoice
  <2> QED BY <2>1, <2>2
<1>6. OneFirer'
  BY DEF IInv, OneFirer
<1> QED BY <1>1, <1>2, <1>3, <1>4, <1>5, <1>6, FiredSurvives DEF IInv, StoreOK

\* A step that hands a backed statement to the store, while the callers either
\* stay or continue with locals that fit the new store.
LEMMA StoreMoves ==
  ASSUME IInv, TypeOK',
         NEW s \in Statement, Backed(s, invoices, chain, now),
         \/ Affects(s) /\ invoices' = [invoices EXCEPT ![s.id] = NewRow(s)]
         \/ invoices' = invoices,
         orphans' \subseteq orphans \cup {s},
         UNCHANGED <<chain, now, fired>>,
         \A d \in Callers : \/ check'[d] = check[d]
                            \/ CallerOK(check'[d], invoices', chain, now, fired),
         OneFirer'
  PROVE  IInv'
<1>1. StoreEvolves /\ StoreOK' /\ OrphansBacked'
  BY StoreStep DEF IInv, TypeOK
<1>2. CallersOK'
  <2> SUFFICES ASSUME NEW d \in Callers
               PROVE  CallerOK(check'[d], invoices', chain', now', fired')
    BY DEF CallersOK
  <2>1. now' >= now
    BY DEF IInv, TypeOK
  <2> QED BY <1>1, <2>1, OthersKeep
<1> QED BY <1>1, <1>2, FiredSurvives DEF IInv

\* What CheckStatus may answer.
LEMMA ReplyOK ==
  ASSUME NEW i, NEW inv, NEW rows, NEW ledger, NEW time, NEW announced,
         inv = NoInvoice \/ inv = rows[i] \/ inv.status = "pending"
  PROVE  CallerOK(Idle(i, inv), rows, ledger, time, announced) /\ Idle(i, inv).pc # "fire"
BY DEF CallerOK, Idle

\* A positive verdict names a transaction that pays the invoice.
LEMMA VerdictPays ==
  ASSUME NEW ledger \in Seq(LedgerEntry), NEW k, NEW inv \in Invoice,
         FirstMatch(inv, ledger, k)
  PROVE  Pays(ledger, k, inv)
<1>1. k \in DOMAIN ledger /\ ledger[k].to = AccountOf[inv.payTo] /\ Credits(inv, ledger[k])
  BY DEF FirstMatch, Matches, Response
<1>2. ledger[k] \in LedgerEntry
  BY <1>1
<1> QED BY <1>1, <1>2 DEF Pays, Credits, LedgerEntry

LEMMA SafetyInit == Init => IInv
<1> SUFFICES ASSUME Init PROVE IInv
  OBVIOUS
<1>1. TypeOK
  BY TypeInit
<1>2. StoreOK
  BY DEF Init, StoreInit, StoreOK, MemosUnique, PaidByOwnPayment, ExpiredAfterDeadline,
         HasStatus, Exists
<1>3. CallersOK
  BY DEF Init, CallersOK, CallerOK, Idle
<1>4. OrphansBacked /\ OneFirer /\ FiredOnceWithStoredInvoice
  BY DEF Init, StoreInit, OrphansBacked, OneFirer, FiredOnceWithStoredInvoice, Idle
<1> QED BY <1>1, <1>2, <1>3, <1>4 DEF IInv

\* The statements CheckStatus and CreateInvoice hand to the store are backed: the
\* claim by the verdict, the expiry by a deadline that has passed.
LEMMA ClaimBacked ==
  ASSUME IInv, NEW c \in Callers, check[c].pc = "claim"
  PROVE  LET s == ClaimInvoiceForSettlement(check[c].id, check[c].tx, check[c].at)
         IN  /\ s \in Statement /\ s.op = "claim" /\ s.id = check[c].id
             /\ s.tx = check[c].tx /\ s.at = check[c].at
             /\ Backed(s, invoices, chain, now)
<1> DEFINE i == check[c].id
           s == ClaimInvoiceForSettlement(i, check[c].tx, check[c].at)
<1>1. check[c] \in ActiveRecord
  BY ActiveCaller DEF IInv
<1>2. i \in Ids /\ check[c].inv \in Invoice /\ check[c].tx \in Nat /\ check[c].at \in Nat
  BY <1>1 DEF ActiveRecord
<1>3. SnapshotOK(check[c], invoices[i]) /\ Pays(chain, check[c].tx, check[c].inv)
  BY DEF IInv, CallersOK, CallerOK
<1>4. invoices[i] \in Invoice /\ Terms(check[c].inv) = Terms(invoices[i])
  BY <1>2, <1>3 DEF SnapshotOK, IInv, TypeOK, StoreTypeOK
<1>5. /\ s \in Statement
      /\ s.op = "claim" /\ s.id = i /\ s.tx = check[c].tx /\ s.at = check[c].at
  BY <1>2, StatementsTyped DEF ClaimInvoiceForSettlement
<1>6. Pays(chain, check[c].tx, invoices[i])
  BY <1>2, <1>3, <1>4, PaysByTerms
<1>7. Backed(s, invoices, chain, now)
  BY <1>3, <1>5, <1>6 DEF Backed, SnapshotOK
<1> QED BY <1>5, <1>7

LEMMA ExpireBacked ==
  ASSUME IInv, NEW c \in Callers, check[c].pc = "expire"
  PROVE  LET s == ExpireInvoice(check[c].id)
         IN  /\ s \in Statement /\ s.op = "expire" /\ s.id = check[c].id
             /\ Backed(s, invoices, chain, now)
<1> DEFINE i == check[c].id
           s == ExpireInvoice(i)
<1>1. check[c] \in ActiveRecord
  BY ActiveCaller DEF IInv
<1>2. i \in Ids /\ check[c].inv \in Invoice
  BY <1>1 DEF ActiveRecord
<1>3. SnapshotOK(check[c], invoices[i]) /\ now > check[c].inv.expiresAt
  BY DEF IInv, CallersOK, CallerOK
<1>4. invoices[i] \in Invoice /\ Terms(check[c].inv) = Terms(invoices[i])
  BY <1>2, <1>3 DEF SnapshotOK, IInv, TypeOK, StoreTypeOK
<1>5. s \in Statement /\ s.op = "expire" /\ s.id = i
  BY <1>2, StatementsTyped DEF ExpireInvoice
<1>6. Backed(s, invoices, chain, now)
  BY <1>3, <1>4, <1>5 DEF Backed, SnapshotOK, Terms
<1> QED BY <1>5, <1>6

LEMMA CreateBacked ==
  ASSUME IInv, NEW k \in Creators, create[k] # IdleCreate, NEW i \in Ids, NEW memo \in Memos
  PROVE  LET s == CreateInvoice(i, NewInvoice(create[k].draft, memo))
         IN  s \in Statement /\ Backed(s, invoices, chain, now)
<1> DEFINE row == NewInvoice(create[k].draft, memo)
           s   == CreateInvoice(i, row)
<1>1. create[k] \in [draft : DraftRecord, attempt : 1 .. Attempts]
  BY DEF IInv, TypeOK
<1>2. row \in Invoice /\ row.status = "pending"
  BY <1>1, DraftTyped
<1>3. s \in Statement /\ s.op = "create" /\ s.row = row
  BY <1>2, StatementsTyped DEF CreateInvoice
<1> QED BY <1>2, <1>3 DEF Backed

\* The claim: the winner's copy is the invoice it stored.
LEMMA SafetyClaim ==
  ASSUME IInv, TypeOK', NEW c \in Callers, NEW r \in Replies, Claim(c, r)
  PROVE  IInv'
<1> DEFINE i == check[c].id
           s == ClaimInvoiceForSettlement(i, check[c].tx, check[c].at)
<1>1. check[c] \in ActiveRecord
  BY ActiveCaller DEF IInv, Claim
<1>2. i \in Ids /\ check[c].inv \in Invoice /\ check[c].tx \in Nat /\ check[c].at \in Nat
  BY <1>1 DEF ActiveRecord
<1>3. /\ SnapshotOK(check[c], invoices[i])
      /\ check[c].inv.status = "pending"
      /\ Pays(chain, check[c].tx, check[c].inv)
  BY DEF IInv, CallersOK, CallerOK, SnapshotOK, Claim
<1>5. /\ s \in Statement
      /\ s.op = "claim" /\ s.id = i /\ s.tx = check[c].tx /\ s.at = check[c].at
      /\ Backed(s, invoices, chain, now)
  BY ClaimBacked DEF Claim
<1>7. StoreTypeOK /\ Call(s, r)
  BY DEF IInv, TypeOK, Claim
<1> HIDE DEF s
<1>8. /\ \/ r = "ok" /\ Affects(s) /\ invoices' = [invoices EXCEPT ![s.id] = NewRow(s)]
         \/ r # "ok" /\ invoices' = invoices
      /\ orphans' \subseteq orphans \cup {s}
  BY <1>5, <1>7, CallEffect
<1>9. UNCHANGED <<chain, now, fired>>
  BY DEF Claim
<1>10. ASSUME NEW local, Becomes(c, local)
       PROVE  \A d \in Callers : check'[d] = IF d = c THEN local ELSE check[d]
  BY <1>10 DEF Becomes, IInv, TypeOK
<1>11. CASE r = "ok"
  <2> DEFINE local == [check[c] EXCEPT !.pc = "fire",
                                       !.inv = AsPaid(check[c].inv, check[c].tx, check[c].at)]
  <2>1. \A d \in Callers : check'[d] = IF d = c THEN local ELSE check[d]
    BY <1>10, <1>11 DEF Claim
  <2>2. /\ invoices[i].status = "pending"
        /\ NewRow(s) = AsPaid(invoices[i], check[c].tx, check[c].at)
    BY <1>5, <1>7, <1>8, <1>11, AppliedRow
  <2>3. check[c].inv = invoices[i]
    BY <1>3, <2>2 DEF SnapshotOK
  <2>4. invoices'[i] = AsPaid(check[c].inv, check[c].tx, check[c].at)
    BY <1>2, <1>5, <1>8, <1>11, <2>2, <2>3 DEF IInv, TypeOK, StoreTypeOK
  <2>5. local.pc = "fire" /\ local.id = i /\ local.inv = invoices'[i] /\ local.tx = check[c].tx
    BY <1>1, <2>4 DEF ActiveRecord
  <2>6. /\ invoices'[i] \in Invoice /\ invoices'[i].status = "paid"
        /\ Terms(invoices'[i]) = Terms(check[c].inv)
    BY <1>2, <2>4, TransitionsKeepTerms
  <2>7. fired[i] = << >>
    BY <1>2, <2>2 DEF IInv, FiredOnceWithStoredInvoice, HasStatus
  <2> HIDE DEF local
  <2>8. CallerOK(local, invoices', chain, now, fired)
    <3>1. Pays(chain, local.tx, local.inv)
      BY <1>2, <1>3, <2>5, <2>6, PaysByTerms
    <3> QED BY <2>5, <2>6, <2>7, <3>1, NoInvoiceAssumption DEF CallerOK, SnapshotOK
  <2>9. \A d \in Callers : check[d].pc = "fire" => check[d].id # i
    BY <2>2 DEF IInv, CallersOK, CallerOK
  <2>10. OneFirer'
    BY <2>1, <2>5, <2>9 DEF IInv, OneFirer
  <2> QED BY <1>5, <1>8, <1>9, <2>1, <2>8, <2>10, StoreMoves
<1>12. CASE r = "no"
  <2> DEFINE local == [check[c] EXCEPT !.pc = "lostClaim"]
  <2>1. \A d \in Callers : check'[d] = IF d = c THEN local ELSE check[d]
    BY <1>10, <1>12 DEF Claim
  <2>2. /\ local.pc = "lostClaim" /\ local.id = i /\ local.inv = check[c].inv
        /\ local.tx = check[c].tx
    BY <1>1 DEF ActiveRecord
  <2> HIDE DEF local
  <2>3. CallerOK(local, invoices', chain, now, fired)
    BY <1>3, <1>8, <1>12, <2>2 DEF CallerOK, SnapshotOK
  <2>4. OneFirer'
    BY <2>1, <2>2 DEF IInv, OneFirer
  <2> QED BY <1>5, <1>8, <1>9, <2>1, <2>3, <2>4, StoreMoves
<1>13. CASE r = "error"
  <2>1. \A d \in Callers : check'[d] = IF d = c THEN Idle(i, NoInvoice) ELSE check[d]
    BY <1>10, <1>13 DEF Claim, Reply
  <2>2. CallerOK(Idle(i, NoInvoice), invoices', chain, now, fired)
    BY ReplyOK
  <2>3. OneFirer'
    BY <2>1, ReplyOK DEF IInv, OneFirer, Idle
  <2> QED BY <1>5, <1>8, <1>9, <2>1, <2>2, <2>3, StoreMoves
<1> QED BY <1>11, <1>12, <1>13 DEF Replies

\* The expiry: the winner answers with the invoice it stored.
LEMMA SafetyExpire ==
  ASSUME IInv, TypeOK', NEW c \in Callers, NEW r \in Replies, Expire(c, r)
  PROVE  IInv'
<1> DEFINE i == check[c].id
           s == ExpireInvoice(i)
<1>1. check[c] \in ActiveRecord
  BY ActiveCaller DEF IInv, Expire
<1>2. i \in Ids /\ check[c].inv \in Invoice
  BY <1>1 DEF ActiveRecord
<1>3. /\ SnapshotOK(check[c], invoices[i])
      /\ check[c].inv.status = "pending"
  BY DEF IInv, CallersOK, CallerOK, SnapshotOK, Expire
<1>5. /\ s \in Statement /\ s.op = "expire" /\ s.id = i
      /\ Backed(s, invoices, chain, now)
  BY ExpireBacked DEF Expire
<1>7. StoreTypeOK /\ Call(s, r)
  BY DEF IInv, TypeOK, Expire
<1> HIDE DEF s
<1>8. /\ \/ r = "ok" /\ Affects(s) /\ invoices' = [invoices EXCEPT ![s.id] = NewRow(s)]
         \/ r # "ok" /\ invoices' = invoices
      /\ orphans' \subseteq orphans \cup {s}
  BY <1>5, <1>7, CallEffect
<1>9. UNCHANGED <<chain, now, fired>>
  BY DEF Expire
<1>10. ASSUME NEW local, Becomes(c, local), local.pc # "fire",
              CallerOK(local, invoices', chain, now, fired)
       PROVE  IInv'
  <2>1. \A d \in Callers : check'[d] = IF d = c THEN local ELSE check[d]
    BY <1>10 DEF Becomes, IInv, TypeOK
  <2>2. OneFirer'
    BY <1>10, <2>1 DEF IInv, OneFirer
  <2> QED BY <1>5, <1>8, <1>9, <1>10, <2>1, <2>2, StoreMoves
<1>11. CASE r = "ok"
  <2>1. invoices[i].status = "pending" /\ NewRow(s) = AsExpired(invoices[i])
    BY <1>5, <1>7, <1>8, <1>11, AppliedRow
  <2>2. check[c].inv = invoices[i]
    BY <1>3, <2>1 DEF SnapshotOK
  <2>3. invoices'[i] = AsExpired(check[c].inv)
    BY <1>2, <1>5, <1>8, <1>11, <2>1, <2>2 DEF IInv, TypeOK, StoreTypeOK
  <2>4. Becomes(c, Idle(i, AsExpired(check[c].inv)))
    BY <1>11 DEF Expire, Reply
  <2> QED BY <1>10, <2>3, <2>4, ReplyOK
<1>12. CASE r = "no"
  <2> DEFINE local == [check[c] EXCEPT !.pc = "lostExpire"]
  <2>1. Becomes(c, local)
    BY <1>12 DEF Expire
  <2>2. local.pc = "lostExpire" /\ local.id = i /\ local.inv = check[c].inv
    BY <1>1 DEF ActiveRecord
  <2> HIDE DEF local
  <2>3. CallerOK(local, invoices', chain, now, fired)
    BY <1>3, <1>8, <1>12, <2>2 DEF CallerOK, SnapshotOK
  <2> QED BY <1>10, <2>1, <2>2, <2>3
<1>13. CASE r = "error"
  <2>1. Becomes(c, Idle(i, NoInvoice))
    BY <1>13 DEF Expire, Reply
  <2> QED BY <1>10, <2>1, ReplyOK
<1> QED BY <1>11, <1>12, <1>13 DEF Replies

\* The webhook: its firer is the only one, and hands over the stored invoice.
LEMMA SafetyFire ==
  ASSUME IInv, TypeOK', NEW c \in Callers, Fire(c)
  PROVE  IInv'
<1> DEFINE i == check[c].id
<1>1. check[c] \in ActiveRecord /\ i \in Ids /\ check[c].inv \in Invoice
  BY ActiveCaller DEF IInv, Fire, ActiveRecord
<1>2. check[c].inv = invoices[i] /\ invoices[i].status = "paid" /\ fired[i] = << >>
  BY DEF IInv, CallersOK, CallerOK, Fire
<1>3. UNCHANGED <<invoices, orphans, chain, now>>
  BY DEF Fire, storeVars
<1>4. \A d \in Callers : check'[d] = IF d = c THEN Idle(i, check[c].inv) ELSE check[d]
  BY DEF Fire, Reply, Becomes, IInv, TypeOK
<1>5. \A j \in Ids : fired'[j] = IF j = i THEN <<invoices[i]>> ELSE fired[j]
  BY <1>1, <1>2 DEF Fire, IInv, TypeOK
<1>6. CallersOK'
  <2> SUFFICES ASSUME NEW d \in Callers
               PROVE  CallerOK(check'[d], invoices, chain, now, fired')
    BY <1>3 DEF CallersOK
  <2>1. CASE d = c
    BY <1>2, <1>4, <2>1, ReplyOK
  <2>2. CASE d # c
    <3>1. check'[d] = check[d] /\ CallerOK(check[d], invoices, chain, now, fired)
      BY <1>4, <2>2 DEF IInv, CallersOK
    <3>2. check[d].pc = "fire" => check[d].id \in Ids /\ fired'[check[d].id] = fired[check[d].id]
      BY <1>5, <2>2, ActiveCaller DEF IInv, OneFirer, Fire, ActiveRecord
    <3> QED BY <3>1, <3>2 DEF CallerOK
  <2> QED BY <2>1, <2>2
<1>7. OneFirer'
  BY <1>4, ReplyOK DEF IInv, OneFirer, Idle
<1>8. FiredOnceWithStoredInvoice'
  BY <1>1, <1>2, <1>3, <1>5, NoInvoiceAssumption
     DEF IInv, FiredOnceWithStoredInvoice, HasStatus, Exists
<1>9. StoreOK' /\ OrphansBacked'
  BY <1>3 DEF IInv, StoreOK, OrphansBacked, MemosUnique, PaidByOwnPayment,
              ExpiredAfterDeadline, HasStatus, Exists
<1> QED BY <1>6, <1>7, <1>8, <1>9 DEF IInv

LEMMA SafetyNext == IInv /\ [Next]_vars => IInv'
<1> SUFFICES ASSUME IInv, [Next]_vars PROVE IInv'
  OBVIOUS
<1>0. TypeOK /\ TypeOK'
  BY TypeNext DEF IInv
<1>1. CASE Tick
  BY <1>0, <1>1, EnvironmentMoves DEF Tick, storeVars, TypeOK
<1>2. ASSUME NEW dest \in Addrs, NEW memo \in Memos, NEW value \in Amounts, Pay(dest, memo, value)
      PROVE  IInv'
  <2>1. \A k, inv : Pays(chain, k, inv) => Pays(chain', k, inv)
    BY <1>0, <1>2, PaysLater DEF Pay, TypeOK
  <2> QED BY <1>0, <1>2, <2>1, EnvironmentMoves DEF Pay, storeVars, TypeOK
<1>3. CASE LateCommit
  <2>1. PICK s \in orphans : OrphanCommits(s)
    BY <1>3 DEF LateCommit
  <2>2. /\ s \in Statement
        /\ \/ Affects(s) /\ invoices' = [invoices EXCEPT ![s.id] = NewRow(s)]
           \/ invoices' = invoices
        /\ orphans' \subseteq orphans \cup {s}
    BY <1>0, <2>1, LateCommitEffect DEF TypeOK
  <2>3. Backed(s, invoices, chain, now)
    BY DEF IInv, OrphansBacked
  <2>4. UNCHANGED <<chain, now, fired, check>> /\ OneFirer'
    BY <1>3 DEF LateCommit, IInv, OneFirer
  <2> QED BY <1>0, <2>2, <2>3, <2>4, StoreMoves
<1>4. ASSUME NEW n \in Instances, Crash(n)
      PROVE  IInv'
  <2>1. UNCHANGED <<invoices, orphans, chain, now, fired>>
    BY <1>4 DEF Crash, storeVars
  <2>2. \A d \in Callers : check'[d] = check[d] \/ check'[d] = Idle(NoId, NoInvoice)
    BY <1>4 DEF Crash
  <2>3. CallersOK'
    BY <2>1, <2>2, ReplyOK DEF IInv, CallersOK
  <2>4. OneFirer'
    BY <2>2 DEF IInv, OneFirer, Idle
  <2>5. StoreEvolves
    BY <2>1 DEF StoreEvolves, RowEvolves
  <2>6. StoreOK' /\ OrphansBacked'
    BY <2>1 DEF IInv, StoreOK, OrphansBacked, MemosUnique, PaidByOwnPayment,
                ExpiredAfterDeadline, HasStatus, Exists
  <2> QED BY <1>0, <2>1, <2>3, <2>4, <2>5, <2>6, FiredSurvives DEF IInv
<1>5. ASSUME NEW k \in Creators, NEW payTo \in Addrs, NEW amount \in Amounts, NEW ttl \in Ttls,
             Draft(k, payTo, amount, ttl)
      PROVE  IInv'
  BY <1>0, <1>5, EnvironmentMoves DEF Draft, storeVars, TypeOK
<1>6. ASSUME NEW k \in Creators, NEW i \in Ids, NEW memo \in Memos, NEW r \in Replies,
             Allocate(k, i, memo, r)
      PROVE  IInv'
  <2> DEFINE s == CreateInvoice(i, NewInvoice(create[k].draft, memo))
  <2>3. s \in Statement /\ Backed(s, invoices, chain, now)
    BY <1>6, CreateBacked DEF Allocate
  <2>5. StoreTypeOK /\ Call(s, r)
    BY <1>0, <1>6 DEF Allocate, TypeOK
  <2> HIDE DEF s
  <2>6. /\ \/ Affects(s) /\ invoices' = [invoices EXCEPT ![s.id] = NewRow(s)]
           \/ invoices' = invoices
        /\ orphans' \subseteq orphans \cup {s}
    BY <2>3, <2>5, CallEffect
  <2>7. UNCHANGED <<chain, now, fired, check>> /\ OneFirer'
    BY <1>6 DEF Allocate, IInv, OneFirer
  <2> QED BY <1>0, <2>3, <2>6, <2>7, StoreMoves
<1>7. ASSUME NEW c \in Callers, NEW i \in Ids, Lookup(c, i)
      PROVE  IInv'
  <2>1. PICK inv \in GetInvoice(i) :
          IF inv # NoInvoice /\ inv.status = "pending"
          THEN Becomes(c, [Idle(i, inv) EXCEPT !.pc = "verify"])
          ELSE Reply(c, i, inv)
    BY <1>7 DEF Lookup
  <2>2. inv = NoInvoice \/ inv = invoices[i]
    BY DEF GetInvoice
  <2>3. UNCHANGED <<invoices, orphans, chain, now, fired>>
    BY <1>7 DEF Lookup, storeVars
  <2>4. CASE inv # NoInvoice /\ inv.status = "pending"
    <3> DEFINE local == [Idle(i, inv) EXCEPT !.pc = "verify"]
    <3>1. local.pc = "verify" /\ local.id = i /\ local.inv = inv
      BY DEF Idle
    <3>2. Becomes(c, local)
      BY <2>1, <2>4
    <3> HIDE DEF local
    <3>3. CallerOK(local, invoices, chain, now, fired)
      BY <2>2, <2>4, <3>1 DEF CallerOK, SnapshotOK
    <3> QED BY <1>0, <2>3, <3>1, <3>2, <3>3, CallerMoves
  <2>5. CASE ~(inv # NoInvoice /\ inv.status = "pending")
    BY <1>0, <2>1, <2>2, <2>3, <2>5, ReplyOK, CallerMoves DEF Reply
  <2> QED BY <2>4, <2>5
<1>8. ASSUME NEW c \in Callers, Verify(c)
      PROVE  IInv'
  <2>1. check[c] \in ActiveRecord /\ check[c].inv \in Invoice
    BY <1>0, <1>8, ActiveCaller DEF Verify, ActiveRecord
  <2>2. CallerOK(check[c], invoices, chain, now, fired) /\ check[c].pc = "verify"
    BY <1>8 DEF IInv, CallersOK, Verify
  <2>3. UNCHANGED <<invoices, orphans, chain, now, fired>>
    BY <1>8 DEF Verify, storeVars
  <2> DEFINE Verdict(local) ==
               /\ Becomes(c, local)
               /\ local.id = check[c].id /\ local.inv = check[c].inv
               /\ \/ local.pc = "lock" /\ FirstMatch(check[c].inv, chain, local.tx)
                  \/ local.pc = "unpaid"
  <2>4. PICK local : Verdict(local)
    <3>1. ASSUME NEW k \in DOMAIN chain, FirstMatch(check[c].inv, chain, k),
                 Becomes(c, [check[c] EXCEPT !.pc = "lock", !.tx = k])
          PROVE  \E local : Verdict(local)
      <4> WITNESS [check[c] EXCEPT !.pc = "lock", !.tx = k]
      <4> QED BY <2>1, <3>1 DEF ActiveRecord
    <3>2. ASSUME Becomes(c, [check[c] EXCEPT !.pc = "unpaid"])
          PROVE  \E local : Verdict(local)
      <4> WITNESS [check[c] EXCEPT !.pc = "unpaid"]
      <4> QED BY <2>1, <3>2 DEF ActiveRecord
    <3>3. ASSUME Becomes(c, [check[c] EXCEPT !.pc = "unpaid", !.err = TRUE])
          PROVE  \E local : Verdict(local)
      <4> WITNESS [check[c] EXCEPT !.pc = "unpaid", !.err = TRUE]
      <4> QED BY <2>1, <3>3 DEF ActiveRecord
    <3> QED BY <1>8, <3>1, <3>2, <3>3 DEF Verify
  <2>5. local.pc = "lock" => Pays(chain, local.tx, local.inv)
    BY <1>0, <2>1, <2>4, VerdictPays DEF TypeOK
  <2>6. CallerOK(local, invoices, chain, now, fired)
    BY <2>2, <2>4, <2>5 DEF CallerOK, SnapshotOK
  <2> QED BY <1>0, <2>3, <2>4, <2>6, CallerMoves
<1>9. ASSUME NEW c \in Callers, Lock(c)
      PROVE  IInv'
  <2> DEFINE local == [check[c] EXCEPT !.pc = "reread"]
  <2>1. check[c] \in ActiveRecord
    BY <1>0, <1>9, ActiveCaller DEF Lock
  <2>2. /\ local.pc = "reread" /\ local.id = check[c].id
        /\ local.inv = check[c].inv /\ local.tx = check[c].tx
    BY <2>1 DEF ActiveRecord
  <2>3. CallerOK(check[c], invoices, chain, now, fired) /\ check[c].pc = "lock"
    BY <1>9 DEF IInv, CallersOK, Lock
  <2>4. Becomes(c, local) /\ UNCHANGED <<invoices, orphans, chain, now, fired>>
    BY <1>9 DEF Lock, storeVars
  <2> HIDE DEF local
  <2>5. CallerOK(local, invoices, chain, now, fired)
    BY <2>2, <2>3 DEF CallerOK, SnapshotOK
  <2> QED BY <1>0, <2>2, <2>4, <2>5, CallerMoves
<1>10. ASSUME NEW c \in Callers, Reread(c)
       PROVE  IInv'
  <2> DEFINE i == check[c].id
  <2>1. check[c] \in ActiveRecord /\ i \in Ids /\ check[c].inv \in Invoice
    BY <1>0, <1>10, ActiveCaller DEF Reread, ActiveRecord
  <2>2. PICK inv \in GetInvoice(i) :
          IF inv # NoInvoice /\ inv.status = "pending"
          THEN Becomes(c, [check[c] EXCEPT !.pc = "claim", !.inv = inv, !.at = now])
          ELSE Reply(c, i, inv)
    BY <1>10 DEF Reread
  <2>3. inv = NoInvoice \/ inv = invoices[i]
    BY DEF GetInvoice
  <2>4. UNCHANGED <<invoices, orphans, chain, now, fired>>
    BY <1>10 DEF Reread, storeVars
  <2>5. CASE inv # NoInvoice /\ inv.status = "pending"
    <3> DEFINE local == [check[c] EXCEPT !.pc = "claim", !.inv = inv, !.at = now]
    <3>1. /\ local.pc = "claim" /\ local.id = i
          /\ local.inv = inv /\ local.tx = check[c].tx
      BY <2>1 DEF ActiveRecord
    <3>2. Becomes(c, local)
      BY <2>2, <2>5
    <3> HIDE DEF local
    <3>3. Pays(chain, check[c].tx, check[c].inv) /\ Terms(check[c].inv) = Terms(invoices[i])
      BY <1>10 DEF IInv, CallersOK, CallerOK, SnapshotOK, Reread
    <3>4. inv = invoices[i] /\ inv \in Invoice
      BY <1>0, <2>1, <2>3, <2>5 DEF TypeOK, StoreTypeOK
    <3>5. Pays(chain, local.tx, local.inv)
      BY <2>1, <3>1, <3>3, <3>4, PaysByTerms
    <3>6. CallerOK(local, invoices, chain, now, fired)
      BY <2>5, <3>1, <3>4, <3>5 DEF CallerOK, SnapshotOK
    <3> QED BY <1>0, <2>4, <3>1, <3>2, <3>6, CallerMoves
  <2>6. CASE ~(inv # NoInvoice /\ inv.status = "pending")
    BY <1>0, <2>2, <2>3, <2>4, <2>6, ReplyOK, CallerMoves DEF Reply
  <2> QED BY <2>5, <2>6
<1>11. ASSUME NEW c \in Callers, CheckDeadline(c)
       PROVE  IInv'
  <2> DEFINE i == check[c].id
  <2>1. check[c] \in ActiveRecord /\ i \in Ids
    BY <1>0, <1>11, ActiveCaller DEF CheckDeadline, ActiveRecord
  <2>2. CallerOK(check[c], invoices, chain, now, fired) /\ check[c].pc = "unpaid"
    BY <1>11 DEF IInv, CallersOK, CheckDeadline
  <2>3. UNCHANGED <<invoices, orphans, chain, now, fired>>
    BY <1>11 DEF CheckDeadline, storeVars
  <2>4. CASE Overdue(c)
    <3> DEFINE local == [check[c] EXCEPT !.pc = "expire"]
    <3>1. local.pc = "expire" /\ local.id = i /\ local.inv = check[c].inv
      BY <2>1 DEF ActiveRecord
    <3>2. Becomes(c, local)
      BY <1>11, <2>4 DEF CheckDeadline
    <3> HIDE DEF local
    <3>3. CallerOK(local, invoices, chain, now, fired)
      BY <2>2, <2>4, <3>1 DEF CallerOK, SnapshotOK, Overdue
    <3> QED BY <1>0, <2>3, <3>1, <3>2, <3>3, CallerMoves
  <2>5. CASE ~Overdue(c)
    <3>1. check[c].inv.status = "pending"
      BY <2>2 DEF CallerOK, SnapshotOK
    <3>2. Becomes(c, Idle(i, check[c].inv))
      BY <1>11, <2>5 DEF CheckDeadline, Reply
    <3> QED BY <1>0, <2>3, <3>1, <3>2, ReplyOK, CallerMoves
  <2> QED BY <2>4, <2>5
<1>12. ASSUME NEW c \in Callers, ReplyCurrent(c)
       PROVE  IInv'
  <2> DEFINE i == check[c].id
  <2>1. check[c].inv.status = "pending"
    BY <1>12 DEF IInv, CallersOK, CallerOK, SnapshotOK, ReplyCurrent
  <2>2. PICK inv \in GetInvoice(i) :
          Becomes(c, Idle(i, IF inv # NoInvoice THEN inv ELSE check[c].inv))
    BY <1>12 DEF ReplyCurrent, Reply
  <2>3. inv = NoInvoice \/ inv = invoices[i]
    BY DEF GetInvoice
  <2>4. UNCHANGED <<invoices, orphans, chain, now, fired>>
    BY <1>12 DEF ReplyCurrent, storeVars
  <2> QED BY <1>0, <2>1, <2>2, <2>3, <2>4, ReplyOK, CallerMoves
<1>13. CASE UNCHANGED vars
  BY <1>0, <1>13, EnvironmentMoves DEF vars, TypeOK
<1> QED BY <1>0, <1>1, <1>2, <1>3, <1>4, <1>5, <1>6, <1>7, <1>8, <1>9, <1>10, <1>11, <1>12,
          <1>13, SafetyClaim, SafetyExpire, SafetyFire DEF Next, CreateNext, CheckNext

LEMMA Safety == Spec => []IInv
BY SafetyInit, SafetyNext, PTL DEF Spec

-----------------------------------------------------------------------------
(* The properties.                                                         *)

\* Every paid invoice carries a transaction that pays it.
THEOREM PaymentsAreReal == Spec => []PaidByOwnPayment
<1>1. IInv => PaidByOwnPayment
  BY DEF IInv, StoreOK
<1> QED BY <1>1, Safety, PTL

\* The map of mutexes is as large as the number of invoices with a payment at most.
THEOREM MutexesOnlyForPayments == Spec => []LocksOnlyForPayments
<1>1. IInv => LocksOnlyForPayments
  <2> SUFFICES ASSUME IInv, NEW c \in Callers, check[c].pc = "lock" \/ Inside(c)
               PROVE  Exists(check[c].id) /\ Pays(chain, check[c].tx, invoices[check[c].id])
    BY DEF LocksOnlyForPayments
  <2>1. check[c] \in ActiveRecord
    BY ActiveCaller DEF IInv, Inside
  <2>2. Pays(chain, check[c].tx, check[c].inv) /\ SnapshotOK(check[c], invoices[check[c].id])
    BY DEF IInv, CallersOK, CallerOK, Inside
  <2>3. invoices[check[c].id] \in Invoice /\ check[c].inv \in Invoice
    BY <2>1, <2>2 DEF IInv, TypeOK, StoreTypeOK, SnapshotOK, ActiveRecord
  <2> QED BY <2>2, <2>3, PaysByTerms DEF SnapshotOK, Exists
<1> QED BY <1>1, Safety, PTL

\* The webhook is fired at most once per invoice, with the invoice as stored.
THEOREM WebhookOnce == Spec => []FiredOnceWithStoredInvoice
<1>1. IInv => FiredOnceWithStoredInvoice
  BY DEF IInv
<1> QED BY <1>1, Safety, PTL

\* CheckStatus never answers with a final status the store does not hold.
THEOREM RepliesAreTrue == Spec => []TerminalRepliesTrue
<1>1. IInv => TerminalRepliesTrue
  BY DEF IInv, CallersOK, CallerOK, TerminalRepliesTrue
<1> QED BY <1>1, Safety, PTL

\* No invoice is expired before its deadline.
THEOREM NoEarlyExpiry == Spec => []ExpiredAfterDeadline
<1>1. IInv => ExpiredAfterDeadline
  BY DEF IInv, StoreOK
<1> QED BY <1>1, Safety, PTL

\* Two invoices never share address and memo.
THEOREM MemosStayUnique == Spec => []MemosUnique
<1>1. IInv => MemosUnique
  BY DEF IInv, StoreOK
<1> QED BY <1>1, Safety, PTL

-----------------------------------------------------------------------------
(* What a step does to the invoices: final statuses stay, one payment      *)
(* settles one invoice, and every step is a step of the abstract           *)
(* InvoiceLedger or leaves it unchanged.                                   *)

\* A statement that changes the store is backed.
Applies(s) ==
  /\ s \in Statement
  /\ Backed(s, invoices, chain, now)
  /\ Affects(s)
  /\ invoices' = [invoices EXCEPT ![s.id] = NewRow(s)]
  /\ UNCHANGED fired

\* Only such a statement changes the store, and only Fire the webhook's record.
LEMMA StepEffect ==
  ASSUME IInv, [Next]_vars
  PROVE  \/ UNCHANGED <<invoices, fired>>
         \/ \E s : Applies(s)
         \/ UNCHANGED invoices /\ \E c \in Callers : Fire(c)
<1>0. StoreTypeOK
  BY DEF IInv, TypeOK
<1>1. ASSUME NEW s \in Statement, Backed(s, invoices, chain, now), NEW r, Call(s, r),
             UNCHANGED fired
      PROVE  UNCHANGED <<invoices, fired>> \/ Applies(s)
  BY <1>0, <1>1, CallEffect DEF Applies
<1>2. CASE LateCommit
  <2>1. PICK s \in orphans : OrphanCommits(s)
    BY <1>2 DEF LateCommit
  <2>2. Backed(s, invoices, chain, now)
    BY DEF IInv, OrphansBacked
  <2> QED BY <1>0, <1>2, <2>1, <2>2, LateCommitEffect DEF LateCommit, Applies
<1>3. ASSUME NEW k \in Creators, NEW i \in Ids, NEW memo \in Memos, NEW r \in Replies,
             Allocate(k, i, memo, r)
      PROVE  UNCHANGED <<invoices, fired>> \/ \E s : Applies(s)
  <2>1. create[k] # IdleCreate /\ UNCHANGED fired
        /\ Call(CreateInvoice(i, NewInvoice(create[k].draft, memo)), r)
    BY <1>3 DEF Allocate
  <2> QED BY <1>1, <2>1, CreateBacked
<1>4. ASSUME NEW c \in Callers, NEW r \in Replies, Claim(c, r)
      PROVE  UNCHANGED <<invoices, fired>> \/ \E s : Applies(s)
  <2>1. check[c].pc = "claim" /\ UNCHANGED fired
        /\ Call(ClaimInvoiceForSettlement(check[c].id, check[c].tx, check[c].at), r)
    BY <1>4 DEF Claim
  <2> QED BY <1>1, <2>1, ClaimBacked
<1>5. ASSUME NEW c \in Callers, NEW r \in Replies, Expire(c, r)
      PROVE  UNCHANGED <<invoices, fired>> \/ \E s : Applies(s)
  <2>1. check[c].pc = "expire" /\ UNCHANGED fired /\ Call(ExpireInvoice(check[c].id), r)
    BY <1>5 DEF Expire
  <2> QED BY <1>1, <2>1, ExpireBacked
<1>6. ASSUME NEW c \in Callers, Fire(c)
      PROVE  UNCHANGED invoices
  BY <1>6 DEF Fire, storeVars
<1>7. CASE UNCHANGED vars
  BY <1>7 DEF vars
<1>8. CASE Tick
  BY <1>8 DEF Tick, storeVars
<1>9. ASSUME NEW dest \in Addrs, NEW memo \in Memos, NEW value \in Amounts, Pay(dest, memo, value)
      PROVE  UNCHANGED <<invoices, fired>>
  BY <1>9 DEF Pay, storeVars
<1>10. ASSUME NEW n \in Instances, Crash(n)
       PROVE  UNCHANGED <<invoices, fired>>
  BY <1>10 DEF Crash, storeVars
<1>11. ASSUME NEW k \in Creators, NEW payTo \in Addrs, NEW amount \in Amounts, NEW ttl \in Ttls,
              Draft(k, payTo, amount, ttl)
       PROVE  UNCHANGED <<invoices, fired>>
  BY <1>11 DEF Draft, storeVars
<1>12. ASSUME NEW c \in Callers, NEW i \in Ids, Lookup(c, i)
       PROVE  UNCHANGED <<invoices, fired>>
  BY <1>12 DEF Lookup, storeVars
<1>13. ASSUME NEW c \in Callers,
              Verify(c) \/ Lock(c) \/ Reread(c) \/ CheckDeadline(c) \/ ReplyCurrent(c)
       PROVE  UNCHANGED <<invoices, fired>>
  BY <1>13 DEF Verify, Lock, Reread, CheckDeadline, ReplyCurrent, storeVars
<1> QED BY <1>2, <1>3, <1>4, <1>5, <1>6, <1>7, <1>8, <1>9, <1>10, <1>11, <1>12, <1>13
        DEF Next, CreateNext, CheckNext

\* The row such a statement writes, by the kind of statement.
LEMMA AppliedCases ==
  ASSUME IInv, NEW s, Applies(s)
  PROVE  LET i == s.id IN
         /\ i \in Ids
         /\ \A j \in Ids \ {i} : invoices'[j] = invoices[j]
         /\ \/ invoices[i] = NoInvoice /\ invoices'[i].status = "pending"
               /\ invoices'[i] \in Invoice
            \/ /\ invoices[i] \in Invoice /\ invoices[i].status = "pending"
               /\ s.tx \in Nat /\ s.at \in Nat
               /\ invoices'[i] = AsPaid(invoices[i], s.tx, s.at)
            \/ /\ invoices[i] \in Invoice /\ invoices[i].status = "pending"
               /\ invoices'[i] = AsExpired(invoices[i])
<1>1. s \in Statement /\ s.id \in Ids /\ s.tx \in Nat /\ s.at \in Nat
  BY DEF Applies, Statement
<1>2. invoices' = [invoices EXCEPT ![s.id] = NewRow(s)] /\ StoreTypeOK /\ Affects(s)
  BY DEF Applies, IInv, TypeOK
<1>3. invoices'[s.id] = NewRow(s) /\ \A j \in Ids \ {s.id} : invoices'[j] = invoices[j]
  BY <1>1, <1>2 DEF StoreTypeOK
<1>4. s.op = "create" => s.row.status = "pending"
  BY DEF Applies, Backed
<1> QED BY <1>1, <1>2, <1>3, <1>4, AppliedRow

\* Terms are immutable, and "paid" and "expired" are final.
THEOREM FinalStatuses == Spec => TerminalIsFinal
<1>1. ASSUME IInv, [Next]_vars
      PROVE  [\A i \in Ids : Exists(i) =>
                /\ Exists(i)'
                /\ Terms(invoices'[i]) = Terms(invoices[i])
                /\ invoices[i].status # "pending" => invoices'[i] = invoices[i]]_vars
  <2> SUFFICES ASSUME NEW i \in Ids, invoices[i] # NoInvoice
               PROVE  /\ invoices'[i] # NoInvoice
                      /\ Terms(invoices'[i]) = Terms(invoices[i])
                      /\ invoices[i].status # "pending" => invoices'[i] = invoices[i]
    BY DEF Exists
  <2>1. CASE UNCHANGED invoices
    BY <2>1
  <2>2. ASSUME NEW s, Applies(s)
        PROVE  /\ invoices'[i] # NoInvoice
               /\ Terms(invoices'[i]) = Terms(invoices[i])
               /\ invoices[i].status # "pending" => invoices'[i] = invoices[i]
    BY <1>1, <2>2, AppliedCases, TransitionsKeepTerms, NoInvoiceAssumption, 0 \in Nat
  <2> QED BY <1>1, <2>1, <2>2, StepEffect
<1> QED BY <1>1, Safety, PTL DEF Spec, TerminalIsFinal

-----------------------------------------------------------------------------
(* One payment, one invoice.                                               *)

\* Every address string in use names another account: the uniqueness the store
\* enforces is of strings, the one the verifier needs is of accounts.
OneSpellingPerAccount ==
  \A a, b \in Addrs : AccountOf[a] = AccountOf[b] => a = b

LEMMA PaymentsDistinct ==
  ASSUME OneSpellingPerAccount, TypeOK, MemosUnique, PaidByOwnPayment
  PROVE  OnePaymentOneInvoice
<1> SUFFICES ASSUME NEW i \in Ids, NEW j \in Ids, HasStatus(i, "paid"), HasStatus(j, "paid"),
                    i # j, invoices[i].txHash = invoices[j].txHash
             PROVE  FALSE
  BY DEF OnePaymentOneInvoice
<1>1. invoices[i] \in Invoice /\ invoices[j] \in Invoice
  BY DEF TypeOK, StoreTypeOK, HasStatus, Exists
<1>2. /\ AccountOf[invoices[i].payTo] = AccountOf[invoices[j].payTo]
      /\ invoices[i].memo = invoices[j].memo
  BY DEF PaidByOwnPayment, Pays
<1>3. invoices[i].payTo = invoices[j].payTo
  BY <1>1, <1>2 DEF OneSpellingPerAccount, Invoice
<1> QED BY <1>2, <1>3 DEF MemosUnique, HasStatus

\* A transaction settles at most one invoice, if no account is spelled twice.
THEOREM NoDoubleCredit ==
  ASSUME OneSpellingPerAccount
  PROVE  Spec => []OnePaymentOneInvoice
<1>1. IInv => OnePaymentOneInvoice
  BY PaymentsDistinct DEF IInv, StoreOK
<1> QED BY <1>1, Safety, PTL

-----------------------------------------------------------------------------
(* The abstract ledger.                                                    *)

LEMMA LedgerStep ==
  ASSUME IInv, OnePaymentOneInvoice', [Next]_vars
  PROVE  [Ledger!Next]_(Ledger!ledgerVars)
<1>1. CASE UNCHANGED <<invoices, fired>>
  BY <1>1 DEF Ledger!ledgerVars
<1>2. ASSUME NEW c \in Callers, Fire(c), UNCHANGED invoices
      PROVE  Ledger!Next
  <2> DEFINE i == check[c].id
  <2>1. check[c] \in ActiveRecord /\ i \in Ids
    BY <1>2, ActiveCaller DEF IInv, Fire, ActiveRecord
  <2>2. /\ check[c].inv = invoices[i] /\ invoices[i].status = "paid" /\ fired[i] = << >>
        /\ invoices[i] # NoInvoice
    BY <1>2 DEF IInv, CallersOK, CallerOK, SnapshotOK, Fire
  <2>3. fired' = [fired EXCEPT ![i] = <<invoices[i]>>]
    BY <1>2, <2>1, <2>2 DEF Fire, IInv, TypeOK
  <2>4. Ledger!Announce(i)
    BY <1>2, <2>2, <2>3 DEF Ledger!Announce, Ledger!Is
  <2> QED BY <2>1, <2>4 DEF Ledger!Next
<1>3. ASSUME NEW s, Applies(s)
      PROVE  Ledger!Next
  <2> DEFINE i == s.id
  <2>1. i \in Ids /\ UNCHANGED fired
    BY <1>3, AppliedCases DEF Applies
  <2>2. invoices' = [invoices EXCEPT ![i] = invoices'[i]]
    BY <1>3, <2>1 DEF Applies, IInv, TypeOK, StoreTypeOK
  <2>3. Ledger!Touches(i)
    BY <2>1, <2>2 DEF Ledger!Touches
  <2>4. CASE invoices[i] = NoInvoice /\ invoices'[i].status = "pending" /\ invoices'[i] \in Invoice
    <3>1. invoices'[i] # NoInvoice
      BY <2>4, NoInvoiceAssumption
    <3>2. Ledger!Issue(i)
      BY <2>3, <2>4, <3>1 DEF Ledger!Issue, Ledger!Is
    <3> QED BY <2>1, <3>2 DEF Ledger!Next
  <2>5. CASE /\ invoices[i] \in Invoice /\ invoices[i].status = "pending"
             /\ s.tx \in Nat /\ s.at \in Nat
             /\ invoices'[i] = AsPaid(invoices[i], s.tx, s.at)
    <3>1. invoices[i] # NoInvoice /\ invoices'[i] \in Invoice /\ invoices'[i].status = "paid"
      <4>1. AsPaid(invoices[i], s.tx, s.at) \in Invoice /\ AsPaid(invoices[i], s.tx, s.at).status = "paid"
        BY <2>5 DEF AsPaid, Invoice
      <4> QED BY <2>5, <4>1, NoInvoiceAssumption
    <3>2. invoices'[i] = [invoices[i] EXCEPT !.status = "paid",
                            !.txHash = invoices'[i].txHash, !.paidAt = invoices'[i].paidAt]
      BY <2>5 DEF AsPaid, Invoice
    <3>4. \A j \in Ids \ {i} : invoices'[j] = invoices[j]
      BY <1>3, AppliedCases
    <3>5. \A j \in Ids \ {i} :
            invoices[j] # NoInvoice /\ invoices[j].status = "paid"
              => invoices[j].txHash # invoices'[i].txHash
      BY <2>1, <3>1, <3>4, NoInvoiceAssumption
         DEF OnePaymentOneInvoice, HasStatus, Exists
    <3>6. Ledger!Settle(i)
      BY <2>3, <2>5, <3>1, <3>2, <3>5 DEF Ledger!Settle, Ledger!Is
    <3> QED BY <2>1, <3>6 DEF Ledger!Next
  <2>6. CASE /\ invoices[i] \in Invoice /\ invoices[i].status = "pending"
             /\ invoices'[i] = AsExpired(invoices[i])
    <3>1. Ledger!Expire(i)
      BY <2>3, <2>6, NoInvoiceAssumption DEF Ledger!Expire, Ledger!Is, AsExpired
    <3> QED BY <2>1, <3>1 DEF Ledger!Next
  <2> QED BY <1>3, <2>4, <2>5, <2>6, AppliedCases
<1> QED BY <1>1, <1>2, <1>3, StepEffect

\* The service implements InvoiceLedger, if no account is spelled twice: every
\* interleaving, crash and late commit looks like issuing, settling, expiring or
\* announcing one invoice, or like nothing at all.
THEOREM ServiceImplementsLedger ==
  ASSUME OneSpellingPerAccount
  PROVE  Spec => LedgerSpec
<1>1. Init => Ledger!Init
  BY DEF Init, StoreInit, Ledger!Init
<1>2. IInv /\ OnePaymentOneInvoice' /\ [Next]_vars => [Ledger!Next]_(Ledger!ledgerVars)
  BY LedgerStep
<1>3. Spec => []OnePaymentOneInvoice
  BY NoDoubleCredit
<1> QED BY <1>1, <1>2, <1>3, Safety, PTL DEF Spec, LedgerSpec, Ledger!Spec
=============================================================================
