---------------------------- MODULE StoreContract -----------------------------
(***************************************************************************)
(* The Store interface as a specification of its own: concurrent goroutines*)
(* call the mutating methods, each call takes effect at one instant between*)
(* its invocation and its return, and an interrupted process forgets calls *)
(* but no invoice.  With a database an answer may be lost on its way back, *)
(* and what a stopped process had sent may still be executed.              *)
(* InvoiceService uses InvoiceStore's Call as one step; the store          *)
(* implementations are shown to implement this specification.              *)
(***************************************************************************)
EXTENDS InvoiceStore

CONSTANTS
  Writers,     \* goroutines calling mutating Store methods
  Processes    \* the sets of writers that run, and stop, together

VARIABLE calls       \* per writer: its statement and the outcome, once decided

contractVars == <<invoices, orphans, calls>>

NoCall == [stmt |-> NoInvoice, reply |-> "none"]

Init == StoreInit /\ calls = [w \in Writers |-> NoCall]

Invoke(w) ==
  /\ calls[w] = NoCall
  /\ calls'[w] \in [stmt : Statement, reply : {"none"}]
  /\ calls' = [calls EXCEPT ![w] = calls'[w]]
  /\ UNCHANGED storeVars

Perform(w, reply) ==
  /\ calls[w] # NoCall /\ calls[w].reply = "none"
  /\ Call(calls[w].stmt, reply)
  /\ calls' = [calls EXCEPT ![w].reply = reply]

Return(w) ==
  /\ calls[w].reply # "none"
  /\ calls' = [calls EXCEPT ![w] = NoCall]
  /\ UNCHANGED storeVars

LateCommit == (\E s \in orphans : OrphanCommits(s)) /\ UNCHANGED calls

\* The caller of a remote store is told "error" although the call was decided.
LoseReply(w) ==
  /\ Backend = "postgres"
  /\ calls[w].reply \in {"ok", "no"}
  /\ calls' = [calls EXCEPT ![w].reply = "error"]
  /\ UNCHANGED storeVars

Undecided(p) ==
  {calls[w].stmt : w \in {v \in p \cap Writers : calls[v] # NoCall /\ calls[v].reply = "none"}}

Restart(p) ==
  /\ calls' = [w \in Writers |-> IF w \in p THEN NoCall ELSE calls[w]]
  /\ \/ UNCHANGED orphans
     \/ /\ Backend = "postgres"
        /\ \E lost \in SUBSET Undecided(p) : orphans' = orphans \cup lost
        /\ Cardinality(orphans') <= MaxOrphans
  /\ UNCHANGED invoices

Next ==
  \/ \E w \in Writers :
       \/ Invoke(w)
       \/ \E reply \in {"ok", "no", "error"} : Perform(w, reply)
       \/ LoseReply(w)
       \/ Return(w)
  \/ LateCommit
  \/ \E p \in Processes : Restart(p)

Spec == Init /\ [][Next]_contractVars

-----------------------------------------------------------------------------
(* What the contract promises its callers.                                 *)

Terms(inv) == <<inv.payTo, inv.memo, inv.amount, inv.createdAt, inv.expiresAt>>

\* The store holds what the statement was to do.
Recorded(s) ==
  LET row == invoices[s.id] IN
  /\ row # NoInvoice
  /\ s.op = "create" => Terms(row) = Terms(s.row)
  /\ s.op = "claim"  => row.status = "paid" /\ row.txHash = s.tx /\ row.paidAt = s.at
  /\ s.op = "expire" => row.status = "expired"

Won(w) == calls[w].reply = "ok"

\* store.go:57 "reports whether THIS call won the transition, so settlement effects
\* (e.g. firing the webhook) happen exactly once": what is answered "ok" is in the
\* store until the caller has its answer, and of the creates of an invoice, as of
\* its claims and expiries together, only one is answered so.
WinnersKept ==
  /\ \A w \in Writers : Won(w) => Recorded(calls[w].stmt)
  /\ \A v, w \in Writers :
       Won(v) /\ Won(w) /\ v # w /\ calls[v].stmt.id = calls[w].stmt.id
         => (calls[v].stmt.op = "create") # (calls[w].stmt.op = "create")

\* store.go:62 "A paid invoice is never expired": no restart, no failed call and no
\* late statement removes an invoice, changes its terms or moves it out of a final
\* status.
RowsFinal ==
  [][\A i \in Ids : Exists(i) =>
       /\ Exists(i)'
       /\ Terms(invoices'[i]) = Terms(invoices[i])
       /\ invoices[i].status # "pending" => invoices'[i] = invoices[i]]_contractVars
=============================================================================
