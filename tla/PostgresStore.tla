---------------------------- MODULE PostgresStore -----------------------------
(***************************************************************************)
(* internal/store/postgres.go: each mutating method is one SQL statement,  *)
(* sent over a pooled connection under a 10 s context.  The callers may be *)
(* in several server processes, which share the database.                  *)
(*                                                                         *)
(* The database is external: it executes a statement atomically, under the *)
(* primary key and the unique index of schemaSQL, or refuses it; it may    *)
(* stall; it executes what it was sent although nobody waits any more.  A  *)
(* context that runs out in the middle of a call closes the connection.    *)
(*                                                                         *)
(* Reads change nothing; InvoiceStore's GetInvoice and PendingCounts are   *)
(* what callers see of them.  currency and metadata are left out.          *)
(***************************************************************************)
EXTENDS Naturals, FiniteSets

CONSTANTS
  Ids, Addrs, Memos, Amounts, NoInvoice,   \* as in InvoiceStore
  Writers, Processes,  \* callers, and the server processes they belong to
  MaxConns,            \* the size of the pool (per process)
  NULL,                \* SQL NULL
  Times,               \* bound: instants used in statements
  MaxOrphans           \* bound: statements nobody waits for

ASSUME PostgresAssumption ==
  /\ MaxConns \in Nat \ {0} /\ MaxOrphans \in Nat
  /\ Processes \subseteq SUBSET Writers
  /\ \A w \in Writers : \E p \in Processes : w \in p
  /\ \A p, q \in Processes : p # q => p \cap q = {}
  /\ IsFiniteSet(Writers)
  /\ NULL \notin Nat /\ Times \subseteq Nat /\ Amounts \subseteq Nat \ {0}

VARIABLES
  table,    \* id -> row, or NoInvoice
  conns,    \* the callers that hold a connection
  session,  \* per caller, at the database: "none", "running", or the result
  orphans,  \* statements that may still be executed, without a caller
  pc,       \* per caller: its place in the method
  calls     \* per caller: the statement and, once decided, the reply

vars == <<table, conns, session, orphans, pc, calls>>

-----------------------------------------------------------------------------
(* Conversions between an Invoice and a row.                               *)

\* Mutant: the zero time is stored as a time.
ntKeepsZero(t) == t

\* A zero time is stored as NULL (and a nanosecond time in microseconds: instants
\* here are what timestamptz can hold),
nt(t) == IF t = 0 THEN NULL ELSE t

\* and NULL is read back as the zero time.
ptr(v) == IF v = NULL THEN 0 ELSE v

Row(inv) ==
  [inv EXCEPT !.paidAt = nt(inv.paidAt), !.expiresAt = nt(inv.expiresAt)]

scanInvoice(row) ==
  [row EXCEPT !.paidAt = ptr(row.paidAt), !.expiresAt = ptr(row.expiresAt)]

\* The invoices a caller would read.
Invoices == [i \in Ids |-> IF table[i] = NoInvoice THEN NoInvoice ELSE scanInvoice(table[i])]

\* Mutant: a statement without an error has succeeded, however many rows it affected.
ReplyIgnoresRows(result) ==
  CASE result = "unique violation" -> "no"
    [] result = "failed"           -> "error"
    [] OTHER                       -> "ok"

\* What the caller will be told of a result that is on its way to it.
Reply(result) ==
  CASE result \in {"inserted", "one row"}         -> "ok"
    [] result \in {"unique violation", "no rows"} -> "no"
    [] result = "failed"                          -> "error"

Decided(w) == session[w] \notin {"none", "running"}

\* A call is decided when the database has, not when its caller hears of it.
Outcomes ==
  [w \in Writers |-> IF pc[w] = "wait" /\ Decided(w)
                     THEN [calls[w] EXCEPT !.reply = Reply(session[w])] ELSE calls[w]]

Contract == INSTANCE StoreContract WITH
  invoices <- Invoices, calls <- Outcomes, Backend <- "postgres"

Init ==
  /\ table = [i \in Ids |-> NoInvoice]
  /\ conns = {}
  /\ session = [w \in Writers |-> "none"]
  /\ orphans = {}
  /\ pc = [w \in Writers |-> "idle"]
  /\ calls = [w \in Writers |-> Contract!NoCall]

-----------------------------------------------------------------------------
(* The caller.                                                             *)

Goto(w, label) == pc' = [pc EXCEPT ![w] = label]

Decide(w, reply) ==
  /\ calls' = [calls EXCEPT ![w].reply = reply]
  /\ Goto(w, "return")

Invoke(w, s) ==
  /\ pc[w] = "idle"
  /\ calls' = [calls EXCEPT ![w].stmt = s]
  /\ Goto(w, "acquire")
  /\ UNCHANGED <<table, conns, session, orphans>>

\* pool.Exec takes a connection of its process's pool,
Acquire(w) ==
  /\ pc[w] = "acquire"
  /\ \E p \in Processes : w \in p /\ Cardinality(conns \cap p) < MaxConns
  /\ conns' = conns \cup {w}
  /\ Goto(w, "send")
  /\ UNCHANGED <<table, session, orphans, calls>>

\* and sends the statement.
Send(w) ==
  /\ pc[w] = "send"
  /\ session' = [session EXCEPT ![w] = "running"]
  /\ Goto(w, "wait")
  /\ UNCHANGED <<table, conns, orphans, calls>>

\* The result arrives and the connection goes back to the pool.
Receive(w) ==
  /\ pc[w] = "wait" /\ Decided(w)
  /\ Decide(w, Reply(session[w]))
  /\ session' = [session EXCEPT ![w] = "none"]
  /\ conns' = conns \ {w}
  /\ UNCHANGED <<table, orphans>>

\* Nobody waits for these statements any more: the database never executes them,
\* or it does so at some later time.
Abandon(stmts) ==
  \E late \in SUBSET stmts :
    /\ orphans' = orphans \cup late
    /\ late # {} => Cardinality(orphans') <= MaxOrphans

\* Mutant: a call that is bounded only while it waits for a connection.
TimeoutInPoolOnly(w) ==
  /\ pc[w] = "acquire"
  /\ Decide(w, "error")
  /\ UNCHANGED <<table, conns, session, orphans>>

\* The context's 10 s are over, or the connection breaks: wherever the call was,
\* the caller is told "error".  That the connection leaves the pool's count is
\* pgxpool's doing, inside Exec.
Timeout(w) ==
  /\ pc[w] \in {"acquire", "send", "wait"}
  /\ Abandon(IF session[w] = "running" THEN {calls[w].stmt} ELSE {})
  /\ Decide(w, "error")
  /\ session' = [session EXCEPT ![w] = "none"]
  /\ conns' = conns \ {w}
  /\ UNCHANGED table

Return(w) ==
  /\ pc[w] = "return"
  /\ calls' = [calls EXCEPT ![w] = Contract!NoCall]
  /\ Goto(w, "idle")
  /\ UNCHANGED <<table, conns, session, orphans>>

\* A server process stops and starts again; NewPostgres's schema statements leave
\* an existing table alone.  What the process had sent may still be executed.
Restart(p) ==
  /\ Abandon({calls[w].stmt : w \in {v \in p : session[v] = "running"}})
  /\ conns' = conns \ p
  /\ session' = [w \in Writers |-> IF w \in p THEN "none" ELSE session[w]]
  /\ pc' = [w \in Writers |-> IF w \in p THEN "idle" ELSE pc[w]]
  /\ calls' = [w \in Writers |-> IF w \in p THEN Contract!NoCall ELSE calls[w]]
  /\ UNCHANGED table

-----------------------------------------------------------------------------
(* The database.                                                           *)

\* A row another one is in the way of: PRIMARY KEY (id) and the unique index on
\* (pay_to, memo).
Conflicts(i, row) ==
  \/ table[i] # NoInvoice
  \/ \E j \in Ids : /\ table[j] # NoInvoice
                    /\ table[j].payTo = row.payTo /\ table[j].memo = row.memo

\* Mutant: the transitions look at the identifier only.
SelectedById(i) == table[i] # NoInvoice

\* WHERE id=$1 AND status='pending'.
Selected(i) == table[i] # NoInvoice /\ table[i].status = "pending"

\* SET of the two UPDATE statements.
Set(s) ==
  IF s.op = "claim"
  THEN [table[s.id] EXCEPT !.status = "paid", !.txHash = s.tx, !.paidAt = nt(s.at)]
  ELSE [table[s.id] EXCEPT !.status = "expired"]

\* The result of executing a statement now, and the table after it.
Result(s) ==
  IF s.op = "create"
  THEN IF Conflicts(s.id, s.row) THEN "unique violation" ELSE "inserted"
  ELSE IF Selected(s.id) THEN "one row" ELSE "no rows"

TableAfter(s) ==
  CASE Result(s) = "inserted" -> [table EXCEPT ![s.id] = Row(s.row)]
    [] Result(s) = "one row"  -> [table EXCEPT ![s.id] = Set(s)]
    [] OTHER                  -> table

Execute(w) ==
  /\ session[w] = "running"
  /\ session' = [session EXCEPT ![w] = Result(calls[w].stmt)]
  /\ table' = TableAfter(calls[w].stmt)
  /\ UNCHANGED <<conns, orphans, pc, calls>>

\* The database refuses or rolls back the statement.
Fail(w) ==
  /\ session[w] = "running"
  /\ session' = [session EXCEPT ![w] = "failed"]
  /\ UNCHANGED <<table, conns, orphans, pc, calls>>

ExecuteOrphan(s) ==
  /\ s \in orphans
  /\ orphans' = orphans \ {s}
  /\ table' = TableAfter(s)
  /\ UNCHANGED <<conns, session, pc, calls>>

-----------------------------------------------------------------------------
Draft(payTo, memo, amount) ==
  [payTo |-> payTo, memo |-> memo, amount |-> amount, status |-> "pending",
   txHash |-> 0, createdAt |-> 1, paidAt |-> 0, expiresAt |-> 2]

\* The statements service.go hands to the store.
Statements ==
  {Contract!CreateInvoice(i, Draft(a, m, v)) :
     i \in Ids, a \in Addrs, m \in Memos, v \in Amounts}
  \cup {Contract!ClaimInvoiceForSettlement(i, t, t) : i \in Ids, t \in Times}
  \cup {Contract!ExpireInvoice(i) : i \in Ids}

CallStep(w) == Acquire(w) \/ Send(w) \/ Receive(w) \/ Timeout(w) \/ Return(w)

Next ==
  \/ \E w \in Writers :
       \/ \E s \in Statements : Invoke(w, s)
       \/ CallStep(w) \/ Execute(w) \/ Fail(w)
  \/ \E s \in orphans : ExecuteOrphan(s)
  \/ \E p \in Processes : Restart(p)

Spec == Init /\ [][Next]_vars

\* A caller runs, and its context runs out; nothing is assumed of the database.
FairSpec == Spec /\ \A w \in Writers : WF_vars(CallStep(w))

-----------------------------------------------------------------------------
(* Properties.                                                             *)

StoredRow ==
  [payTo : Addrs, memo : Memos, amount : Amounts,
   status : {"pending", "paid", "expired"}, txHash : Nat,
   createdAt : Nat, paidAt : (Nat \ {0}) \cup {NULL}, expiresAt : (Nat \ {0}) \cup {NULL}]

ASSUME NoInvoiceAssumption ==
  NoInvoice \notin StoredRow /\ NoInvoice \notin Contract!Invoice /\ NoInvoice \notin Contract!Statement

\* The type invariant of the table and the calls: no column holds a zero time.
TypeOK ==
  /\ table \in [Ids -> StoredRow \cup {NoInvoice}]
  /\ conns \subseteq Writers
  /\ session \in [Writers -> {"none", "running", "inserted", "unique violation",
                              "one row", "no rows", "failed"}]
  /\ orphans \subseteq Contract!Statement
  /\ pc \in [Writers -> {"idle", "acquire", "send", "wait", "return"}]
  /\ calls \in [Writers -> [stmt : Contract!Statement \cup {NoInvoice},
                            reply : {"none", "ok", "no", "error"}]]

\* The store implements its contract: a call that answered "ok" changed the table,
\* one that answered "no" did not, one that answered "error" may have or may yet,
\* and what is read back is what was written, zero times included.
ContractSpec == Contract!Spec

\* What the database answered "ok" to is in the table, whether or not the answer
\* has reached its caller, and of two racing transitions, or two inserts, of one
\* invoice only one affects a row.
AcknowledgedIsDurable == Contract!WinnersKept

\* Through broken connections, stopped processes and statements that are executed
\* late, the table never loses an invoice nor takes back a payment or an expiry.
DurableIsFinal == Contract!RowsFinal

\* postgres.go:48 "a stalled database cannot block a request handler or the poller
\* goroutine indefinitely": every call returns.
CallsReturn == \A w \in Writers : pc[w] # "idle" ~> pc[w] = "idle"
=============================================================================
