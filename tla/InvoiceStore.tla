----------------------------- MODULE InvoiceStore -----------------------------
(***************************************************************************)
(* The invoice record and the persistence contract of internal/store: the  *)
(* three mutating calls of the Store interface and its reads, as the rest  *)
(* of the service observes them.  Both implementations serialize mutations *)
(* (a write lock in memory.go, one guarded SQL statement in postgres.go),  *)
(* so a call is one step; they differ in what an error means:              *)
(*                                                                         *)
(*   "memory"    an error was rolled back: the call had no effect, ever;   *)
(*   "postgres"  an error (the 10 s context expired, the connection broke) *)
(*               says nothing: the statement may have been executed, may   *)
(*               still be, or may be lost.  It becomes an orphan that can  *)
(*               commit at any later time.  A read may fail too, and a     *)
(*               failed read is reported as "no such invoice".             *)
(***************************************************************************)
EXTENDS Naturals, FiniteSets

CONSTANTS
  Ids,         \* invoice identifiers idgen.New can return
  Addrs,       \* address strings an invoice can carry in PayTo
  Memos,       \* memos wallet.NewMemo can return
  Amounts,     \* amounts in nanoTON
  NoInvoice,   \* the absent map entry, row or result
  Backend,     \* which Store implementation is wired: "memory" or "postgres"
  MaxOrphans   \* bound: statements of unknown fate in flight at one time

ASSUME StoreAssumption ==
  /\ Backend \in {"memory", "postgres"}
  /\ Amounts \subseteq Nat \ {0}
  /\ MaxOrphans \in Nat

VARIABLES
  invoices,    \* id -> invoice, or NoInvoice
  orphans      \* statements whose caller was told "error" (postgres only)

storeVars == <<invoices, orphans>>

ZeroTime == 0       \* time.Time{}: stored as SQL NULL
NoTx     == 0       \* the empty TxHash

Invoice ==
  [payTo : Addrs, memo : Memos, amount : Amounts,
   status : {"pending", "paid", "expired"}, txHash : Nat,
   createdAt : Nat, paidAt : Nat, expiresAt : Nat]

ASSUME NoInvoiceAssumption == NoInvoice \notin Invoice

Exists(i)       == invoices[i] # NoInvoice
HasStatus(i, s) == Exists(i) /\ invoices[i].status = s
Pending         == {i \in Ids : HasStatus(i, "pending")}

\* Mutant: no uniqueness check.
MemoNeverTaken(payTo, memo) == FALSE

\* The uniqueness key is the pair of strings (PayTo, Memo).
MemoTaken(payTo, memo) ==
  \E j \in Ids : Exists(j) /\ invoices[j].payTo = payTo /\ invoices[j].memo = memo

-----------------------------------------------------------------------------
(* Mutations, as statements handed to the store.                           *)

Statement ==
  [op : {"create"}, id : Ids, row : Invoice, tx : Nat, at : Nat]
  \cup [op : {"claim", "expire"}, id : Ids, row : {NoInvoice}, tx : Nat, at : Nat]

CreateInvoice(i, inv) ==
  [op |-> "create", id |-> i, row |-> inv, tx |-> NoTx, at |-> ZeroTime]

ClaimInvoiceForSettlement(i, tx, paidAt) ==
  [op |-> "claim", id |-> i, row |-> NoInvoice, tx |-> tx, at |-> paidAt]

ExpireInvoice(i) ==
  [op |-> "expire", id |-> i, row |-> NoInvoice, tx |-> NoTx, at |-> ZeroTime]

AsPaid(inv, tx, paidAt) ==
  [inv EXCEPT !.status = "paid", !.txHash = tx, !.paidAt = paidAt]

AsExpired(inv) == [inv EXCEPT !.status = "expired"]

\* Mutant: the transitions are not guarded by the current status.
AffectsAnyStatus(s) ==
  IF s.op = "create"
  THEN ~Exists(s.id) /\ ~MemoTaken(s.row.payTo, s.row.memo)
  ELSE Exists(s.id)

\* Would the statement change a row now?  A create needs a free id and a free
\* (PayTo, Memo); the two transitions need a pending invoice.
Affects(s) ==
  IF s.op = "create"
  THEN ~Exists(s.id) /\ ~MemoTaken(s.row.payTo, s.row.memo)
  ELSE HasStatus(s.id, "pending")

\* Mutant: the claim does not store the payment time.
NewRowWithoutPaidAt(s) ==
  CASE s.op = "create" -> s.row
    [] s.op = "claim"  -> AsPaid(invoices[s.id], s.tx, ZeroTime)
    [] s.op = "expire" -> AsExpired(invoices[s.id])

NewRow(s) ==
  CASE s.op = "create" -> s.row
    [] s.op = "claim"  -> AsPaid(invoices[s.id], s.tx, s.at)
    [] s.op = "expire" -> AsExpired(invoices[s.id])

Apply(s) == invoices' = [invoices EXCEPT ![s.id] = NewRow(s)]

\* Mutant: a failed call is not rolled back.
CallWithoutRollback(s, reply) ==
  /\ reply = "no" <=> ~Affects(s)
  /\ IF Affects(s) THEN Apply(s) ELSE UNCHANGED invoices
  /\ UNCHANGED orphans

\* One call and its reply: "ok" (created, or this call won the transition),
\* "no" (ErrMemoExists, or claimed = false) or "error".
Call(s, reply) ==
  \/ /\ reply = "ok"
     /\ Affects(s)
     /\ Apply(s)
     /\ UNCHANGED orphans
  \/ /\ reply = "no"
     /\ ~Affects(s)
     /\ UNCHANGED storeVars
  \/ /\ reply = "error"
     /\ UNCHANGED storeVars
  \/ /\ reply = "error"
     /\ Backend = "postgres"
     /\ Cardinality(orphans) < MaxOrphans
     /\ orphans' = orphans \cup {s}
     /\ UNCHANGED invoices

\* An orphan reaches the database after its caller gave up on it.
OrphanCommits(s) ==
  /\ s \in orphans
  /\ orphans' = orphans \ {s}
  /\ IF Affects(s) THEN Apply(s) ELSE UNCHANGED invoices

-----------------------------------------------------------------------------
(* Reads.                                                                  *)

\* What GetInvoice can return: a database error is reported as absence.
GetInvoice(i) ==
  {invoices[i]} \cup (IF Backend = "postgres" THEN {NoInvoice} ELSE {})

PendingCounts(payTo) ==
  [total   |-> Cardinality(Pending),
   forAddr |-> Cardinality({i \in Pending : invoices[i].payTo = payTo})]

StoreTypeOK ==
  /\ invoices \in [Ids -> Invoice \cup {NoInvoice}]
  /\ orphans \subseteq Statement

StoreInit ==
  /\ invoices = [i \in Ids |-> NoInvoice]
  /\ orphans = {}
=============================================================================
