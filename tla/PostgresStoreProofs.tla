------------------------- MODULE PostgresStoreProofs --------------------------
(***************************************************************************)
(* Proofs about PostgresStore, for any number of processes, callers and    *)
(* connections: what is stored is what is read, and the store implements   *)
(* StoreContract.                                                          *)
(***************************************************************************)
EXTENDS PostgresStore, FiniteSetTheorems, TLAPS

\* A caller outside the store has no statement, one inside has one, and it knows
\* its reply exactly when it is about to return.
CallsOK ==
  \A w \in Writers :
    /\ pc[w] = "idle" => calls[w] = Contract!NoCall
    /\ pc[w] # "idle" => /\ calls[w].stmt \in Contract!Statement
                         /\ calls[w].reply = "none" <=> pc[w] # "return"

\* The database works for the callers that wait for it.
SessionOK == \A w \in Writers : session[w] # "none" <=> pc[w] = "wait"

\* The inductive invariant.
IInv ==
  /\ TypeOK
  /\ CallsOK
  /\ SessionOK
  /\ IsFiniteSet(orphans)

-----------------------------------------------------------------------------
(* Conversions and statements.                                             *)

\* A time survives the trip through its nullable column.
LEMMA TimeRoundTrip ==
  ASSUME NEW t \in Nat
  PROVE  /\ nt(t) \in (Nat \ {0}) \cup {NULL}
         /\ ptr(nt(t)) = t
BY PostgresAssumption DEF nt, ptr

LEMMA PtrTyped ==
  ASSUME NEW v \in (Nat \ {0}) \cup {NULL}
  PROVE  ptr(v) \in Nat
BY DEF ptr

\* scanInvoice undoes the conversion of an insert: the zero time comes back as the
\* zero time and every other column as it was.
LEMMA RowRoundTrip ==
  ASSUME NEW inv \in Contract!Invoice
  PROVE  Row(inv) \in StoredRow /\ scanInvoice(Row(inv)) = inv
<1>1. inv.paidAt \in Nat /\ inv.expiresAt \in Nat
  BY DEF Contract!Invoice
<1>2. /\ nt(inv.paidAt) \in (Nat \ {0}) \cup {NULL} /\ ptr(nt(inv.paidAt)) = inv.paidAt
      /\ nt(inv.expiresAt) \in (Nat \ {0}) \cup {NULL} /\ ptr(nt(inv.expiresAt)) = inv.expiresAt
  BY <1>1, TimeRoundTrip
<1>3. Row(inv) \in StoredRow
  BY <1>2 DEF Row, StoredRow, Contract!Invoice
<1>4. scanInvoice(Row(inv)) = inv
  BY <1>2 DEF scanInvoice, Row, Contract!Invoice
<1> QED BY <1>3, <1>4

LEMMA ScanTyped ==
  ASSUME NEW row \in StoredRow
  PROVE  LET inv == scanInvoice(row)
         IN  /\ inv \in Contract!Invoice
             /\ inv.payTo = row.payTo /\ inv.memo = row.memo /\ inv.status = row.status
<1>1. ptr(row.paidAt) \in Nat /\ ptr(row.expiresAt) \in Nat
  BY PtrTyped DEF StoredRow
<1> QED BY <1>1 DEF scanInvoice, StoredRow, Contract!Invoice

\* The two UPDATE statements do to a row what the transitions do to the invoice.
LEMMA UpdateScanned ==
  ASSUME NEW row \in StoredRow, NEW tx \in Nat, NEW at \in Nat
  PROVE  LET paid    == [row EXCEPT !.status = "paid", !.txHash = tx, !.paidAt = nt(at)]
             expired == [row EXCEPT !.status = "expired"]
         IN  /\ paid \in StoredRow /\ expired \in StoredRow
             /\ scanInvoice(paid) = Contract!AsPaid(scanInvoice(row), tx, at)
             /\ scanInvoice(expired) = Contract!AsExpired(scanInvoice(row))
<1>1. nt(at) \in (Nat \ {0}) \cup {NULL} /\ ptr(nt(at)) = at
  BY TimeRoundTrip
<1>2. [row EXCEPT !.status = "paid", !.txHash = tx, !.paidAt = nt(at)] \in StoredRow
  BY <1>1 DEF StoredRow
<1>3. [row EXCEPT !.status = "expired"] \in StoredRow
  BY DEF StoredRow
<1>4. scanInvoice([row EXCEPT !.status = "paid", !.txHash = tx, !.paidAt = nt(at)])
        = Contract!AsPaid(scanInvoice(row), tx, at)
  BY <1>1 DEF scanInvoice, Contract!AsPaid, StoredRow
<1>5. scanInvoice([row EXCEPT !.status = "expired"]) = Contract!AsExpired(scanInvoice(row))
  BY DEF scanInvoice, Contract!AsExpired, StoredRow
<1> QED BY <1>2, <1>3, <1>4, <1>5

\* Every statement of the service is a statement of the contract.
LEMMA StatementsTyped == Statements \subseteq Contract!Statement
<1>1. \A a \in Addrs, m \in Memos, v \in Amounts : Draft(a, m, v) \in Contract!Invoice
  BY DEF Draft, Contract!Invoice
<1>2. \A i \in Ids, row \in Contract!Invoice :
        Contract!CreateInvoice(i, row) \in Contract!Statement
  BY DEF Contract!CreateInvoice, Contract!Statement, Contract!NoTx, Contract!ZeroTime
<1>3. \A i \in Ids, t \in Times :
        Contract!ClaimInvoiceForSettlement(i, t, t) \in Contract!Statement
  BY PostgresAssumption DEF Contract!ClaimInvoiceForSettlement, Contract!Statement
<1>4. \A i \in Ids : Contract!ExpireInvoice(i) \in Contract!Statement
  BY DEF Contract!ExpireInvoice, Contract!Statement, Contract!NoTx, Contract!ZeroTime
<1> QED BY <1>1, <1>2, <1>3, <1>4 DEF Statements

LEMMA StatementFields ==
  ASSUME NEW s \in Contract!Statement
  PROVE  /\ s.id \in Ids /\ s.tx \in Nat /\ s.at \in Nat
         /\ s.op \in {"create", "claim", "expire"}
         /\ s.op = "create" => s.row \in Contract!Invoice
BY DEF Contract!Statement

LEMMA InvoicesRead ==
  ASSUME TypeOK, NEW i \in Ids
  PROVE  /\ table[i] \in StoredRow \cup {NoInvoice}
         /\ Invoices[i] = IF table[i] = NoInvoice THEN NoInvoice ELSE scanInvoice(table[i])
         /\ Invoices[i] = NoInvoice <=> table[i] = NoInvoice
         /\ table[i] # NoInvoice => /\ table[i] \in StoredRow
                                    /\ Invoices[i].payTo = table[i].payTo
                                    /\ Invoices[i].memo = table[i].memo
                                    /\ Invoices[i].status = table[i].status
<1>1. table[i] \in StoredRow \cup {NoInvoice}
  BY DEF TypeOK
<1>2. Invoices[i] = IF table[i] = NoInvoice THEN NoInvoice ELSE scanInvoice(table[i])
  BY DEF Invoices
<1> QED BY <1>1, <1>2, ScanTyped, NoInvoiceAssumption

\* What the database does with a statement is what the contract says of it: it
\* changes a row exactly when the statement would, and to what it would.
LEMMA ExecutionAgrees ==
  ASSUME TypeOK, NEW s \in Contract!Statement
  PROVE  /\ Contract!Affects(s) => /\ Result(s) = IF s.op = "create" THEN "inserted" ELSE "one row"
                                   /\ \E row \in StoredRow :
                                        /\ TableAfter(s) = [table EXCEPT ![s.id] = row]
                                        /\ scanInvoice(row) = Contract!NewRow(s)
         /\ ~Contract!Affects(s) =>
              /\ Result(s) = IF s.op = "create" THEN "unique violation" ELSE "no rows"
              /\ TableAfter(s) = table
<1>1. /\ s.id \in Ids /\ s.tx \in Nat /\ s.at \in Nat
      /\ s.op \in {"create", "claim", "expire"}
      /\ s.op = "create" => s.row \in Contract!Invoice
  BY StatementFields
<1>2. CASE s.op = "create"
  <2>1. Conflicts(s.id, s.row) <=> ~Contract!Affects(s)
    <3>1. \A j \in Ids : /\ Invoices[j] = NoInvoice <=> table[j] = NoInvoice
                         /\ table[j] # NoInvoice => /\ Invoices[j].payTo = table[j].payTo
                                                    /\ Invoices[j].memo = table[j].memo
      BY InvoicesRead
    <3> QED BY <1>1, <1>2, <3>1
            DEF Conflicts, Contract!Affects, Contract!MemoTaken, Contract!Exists
  <2>2. CASE Contract!Affects(s)
    <3>1. Result(s) = "inserted"
      BY <1>2, <2>1, <2>2 DEF Result
    <3>2. TableAfter(s) = [table EXCEPT ![s.id] = Row(s.row)]
      BY <3>1 DEF TableAfter
    <3>3. Row(s.row) \in StoredRow /\ scanInvoice(Row(s.row)) = Contract!NewRow(s)
      BY <1>1, <1>2, RowRoundTrip DEF Contract!NewRow
    <3> QED BY <1>2, <2>2, <3>1, <3>2, <3>3
  <2>3. CASE ~Contract!Affects(s)
    BY <1>2, <2>1, <2>3 DEF Result, TableAfter
  <2> QED BY <2>2, <2>3
<1>3. CASE s.op # "create"
  <2>0. /\ Invoices[s.id] = IF table[s.id] = NoInvoice THEN NoInvoice ELSE scanInvoice(table[s.id])
        /\ Invoices[s.id] = NoInvoice <=> table[s.id] = NoInvoice
        /\ table[s.id] # NoInvoice => /\ table[s.id] \in StoredRow
                                      /\ Invoices[s.id].status = table[s.id].status
    BY <1>1, InvoicesRead
  <2>1. Selected(s.id) <=> Contract!Affects(s)
    BY <1>3, <2>0 DEF Selected, Contract!Affects, Contract!HasStatus, Contract!Exists
  <2>2. CASE Contract!Affects(s)
    <3>1. Result(s) = "one row" /\ table[s.id] # NoInvoice
      BY <1>3, <2>1, <2>2 DEF Result, Selected
    <3>2. TableAfter(s) = [table EXCEPT ![s.id] = Set(s)]
      BY <3>1 DEF TableAfter
    <3>3. CASE s.op = "claim"
      <4>1. Set(s) = [table[s.id] EXCEPT !.status = "paid", !.txHash = s.tx, !.paidAt = nt(s.at)]
        BY <3>3 DEF Set
      <4>2. Contract!NewRow(s) = Contract!AsPaid(scanInvoice(table[s.id]), s.tx, s.at)
        BY <2>0, <3>1, <3>3 DEF Contract!NewRow
      <4>3. /\ [table[s.id] EXCEPT !.status = "paid", !.txHash = s.tx, !.paidAt = nt(s.at)] \in StoredRow
            /\ scanInvoice([table[s.id] EXCEPT !.status = "paid", !.txHash = s.tx, !.paidAt = nt(s.at)])
                 = Contract!AsPaid(scanInvoice(table[s.id]), s.tx, s.at)
        BY <1>1, <2>0, <3>1, UpdateScanned, Zenon
      <4> QED BY <1>3, <2>2, <3>1, <3>2, <4>1, <4>2, <4>3
    <3>4. CASE s.op = "expire"
      <4>1. Set(s) = [table[s.id] EXCEPT !.status = "expired"]
        BY <3>4 DEF Set
      <4>2. Contract!NewRow(s) = Contract!AsExpired(scanInvoice(table[s.id]))
        BY <2>0, <3>1, <3>4 DEF Contract!NewRow
      <4>3. /\ [table[s.id] EXCEPT !.status = "expired"] \in StoredRow
            /\ scanInvoice([table[s.id] EXCEPT !.status = "expired"])
                 = Contract!AsExpired(scanInvoice(table[s.id]))
        BY <1>1, <2>0, <3>1, UpdateScanned, Zenon
      <4> QED BY <1>3, <2>2, <3>1, <3>2, <4>1, <4>2, <4>3
    <3> QED BY <1>1, <1>3, <3>3, <3>4
  <2>3. CASE ~Contract!Affects(s)
    BY <1>3, <2>1, <2>3 DEF Result, TableAfter
  <2> QED BY <2>2, <2>3
<1> QED BY <1>2, <1>3

\* The table stays a table of rows.
LEMMA TableTyped ==
  ASSUME TypeOK, NEW s \in Contract!Statement
  PROVE  TableAfter(s) \in [Ids -> StoredRow \cup {NoInvoice}]
<1>1. table \in [Ids -> StoredRow \cup {NoInvoice}]
  BY DEF TypeOK
<1> QED BY <1>1, ExecutionAgrees

Results == {"inserted", "unique violation", "one row", "no rows", "failed"}

LEMMA ResultTyped ==
  ASSUME NEW s
  PROVE  Result(s) \in Results \ {"failed"}
BY DEF Result, Results

LEMMA ReplyTyped ==
  ASSUME NEW r \in Results
  PROVE  Reply(r) \in {"ok", "no", "error"} /\ (Reply(r) = "error" <=> r = "failed")
BY DEF Reply, Results

-----------------------------------------------------------------------------
(* Every step keeps the invariant.                                         *)

LEMMA InitIInv == Init => IInv
<1> SUFFICES ASSUME Init PROVE IInv
  OBVIOUS
<1>1. TypeOK
  BY DEF Init, TypeOK, Contract!NoCall
<1>2. CallsOK /\ SessionOK
  BY DEF Init, CallsOK, SessionOK
<1>3. IsFiniteSet(orphans)
  BY FS_EmptySet DEF Init
<1> QED BY <1>1, <1>2, <1>3 DEF IInv

LEMMA InvokeKeeps ==
  ASSUME IInv, NEW w \in Writers, NEW s \in Statements, Invoke(w, s)
  PROVE  IInv'
<1>0. s \in Contract!Statement
  BY StatementsTyped
<1>1. /\ pc[w] = "idle" /\ pc' = [pc EXCEPT ![w] = "acquire"]
      /\ calls' = [calls EXCEPT ![w].stmt = s]
      /\ UNCHANGED <<table, conns, session, orphans>>
  BY DEF Invoke, Goto
<1>2. \A v \in Writers :
        /\ pc'[v] = IF v = w THEN "acquire" ELSE pc[v]
        /\ calls'[v] = IF v = w THEN [stmt |-> s, reply |-> "none"] ELSE calls[v]
  <2>1. calls[w] = [stmt |-> NoInvoice, reply |-> "none"]
    BY <1>1 DEF IInv, CallsOK, Contract!NoCall
  <2>2. \A v \in Writers : calls'[v] = IF v = w THEN [calls[w] EXCEPT !.stmt = s] ELSE calls[v]
    BY <1>1 DEF IInv, TypeOK
  <2>3. \A v \in Writers : pc'[v] = IF v = w THEN "acquire" ELSE pc[v]
    BY <1>1 DEF IInv, TypeOK
  <2> QED BY <2>1, <2>2, <2>3
<1>3. TypeOK'
  <2>1. calls' \in [Writers -> [stmt : Contract!Statement \cup {NoInvoice},
                               reply : {"none", "ok", "no", "error"}]]
    BY <1>0, <1>1 DEF IInv, TypeOK
  <2> QED BY <1>1, <2>1 DEF IInv, TypeOK
<1>4. CallsOK'
  BY <1>0, <1>2 DEF IInv, CallsOK, Contract!NoCall
<1>5. SessionOK'
  BY <1>1, <1>2 DEF IInv, SessionOK
<1>6. IsFiniteSet(orphans)'
  BY <1>1 DEF IInv
<1> QED BY <1>3, <1>4, <1>5, <1>6 DEF IInv

\* Taking a connection and sending the statement.
LEMMA AcquireSendKeeps ==
  ASSUME IInv, NEW w \in Writers, Acquire(w) \/ Send(w)
  PROVE  IInv'
<1>1. CASE Acquire(w)
  <2>1. /\ pc[w] = "acquire" /\ pc' = [pc EXCEPT ![w] = "send"] /\ conns' = conns \cup {w}
        /\ UNCHANGED <<table, session, orphans, calls>>
    BY <1>1 DEF Acquire, Goto
  <2>2. \A v \in Writers : pc'[v] = IF v = w THEN "send" ELSE pc[v]
    BY <2>1 DEF IInv, TypeOK
  <2>3. TypeOK'
    BY <2>1 DEF IInv, TypeOK
  <2>4. CallsOK' /\ SessionOK'
    BY <2>1, <2>2 DEF IInv, CallsOK, SessionOK
  <2>5. IsFiniteSet(orphans)'
    BY <2>1, <2>2 DEF IInv
  <2> QED BY <2>3, <2>4, <2>5 DEF IInv
<1>2. CASE Send(w)
  <2>1. /\ pc[w] = "send" /\ pc' = [pc EXCEPT ![w] = "wait"]
        /\ session' = [session EXCEPT ![w] = "running"]
        /\ UNCHANGED <<table, conns, orphans, calls>>
    BY <1>2 DEF Send, Goto
  <2>2. \A v \in Writers : /\ pc'[v] = IF v = w THEN "wait" ELSE pc[v]
                           /\ session'[v] = IF v = w THEN "running" ELSE session[v]
    BY <2>1 DEF IInv, TypeOK
  <2>3. TypeOK'
    BY <2>1 DEF IInv, TypeOK
  <2>4. CallsOK' /\ SessionOK'
    BY <2>1, <2>2 DEF IInv, CallsOK, SessionOK
  <2>5. IsFiniteSet(orphans)'
    BY <2>1, <2>2 DEF IInv
  <2> QED BY <2>3, <2>4, <2>5 DEF IInv
<1> QED BY <1>1, <1>2

\* A call that is decided: the session and the connection are gone with it.
LEMMA DecideKeeps ==
  ASSUME IInv, NEW w \in Writers, NEW r \in {"ok", "no", "error"}, Decide(w, r),
         pc[w] \in {"acquire", "send", "wait"},
         session' = [session EXCEPT ![w] = "none"], conns' = conns \ {w}, UNCHANGED table,
         orphans' \subseteq Contract!Statement, IsFiniteSet(orphans')
  PROVE  IInv'
<1>1. pc' = [pc EXCEPT ![w] = "return"] /\ calls' = [calls EXCEPT ![w].reply = r]
  BY DEF Decide, Goto
<1>2. \A v \in Writers :
        /\ pc'[v] = IF v = w THEN "return" ELSE pc[v]
        /\ session'[v] = IF v = w THEN "none" ELSE session[v]
        /\ calls'[v].stmt = calls[v].stmt
        /\ v # w => calls'[v] = calls[v]
        /\ calls'[w].reply = r
  BY <1>1 DEF IInv, TypeOK
<1>3. TypeOK'
  BY <1>1 DEF IInv, TypeOK
<1>4. CallsOK'
  BY <1>2 DEF IInv, CallsOK
<1>5. SessionOK'
  BY <1>2 DEF IInv, SessionOK
<1> QED BY <1>3, <1>4, <1>5 DEF IInv

LEMMA WaiterTyped ==
  ASSUME IInv, NEW w \in Writers, Decided(w)
  PROVE  session[w] \in Results
BY DEF Decided, IInv, TypeOK, Results

LEMMA ReceiveKeeps ==
  ASSUME IInv, NEW w \in Writers, Receive(w)
  PROVE  IInv'
<1>1. /\ pc[w] = "wait" /\ Decided(w) /\ Decide(w, Reply(session[w]))
      /\ session' = [session EXCEPT ![w] = "none"] /\ conns' = conns \ {w}
      /\ UNCHANGED <<table, orphans>>
  BY DEF Receive
<1>2. Reply(session[w]) \in {"ok", "no", "error"}
  BY <1>1, WaiterTyped, ReplyTyped
<1>3. orphans' \subseteq Contract!Statement /\ IsFiniteSet(orphans')
  BY <1>1 DEF IInv, TypeOK
<1> QED BY <1>1, <1>2, <1>3, DecideKeeps

\* What is abandoned are statements, finitely many.
LEMMA AbandonTyped ==
  ASSUME IInv, NEW stmts, stmts \subseteq Contract!Statement, IsFiniteSet(stmts), Abandon(stmts)
  PROVE  orphans' \subseteq Contract!Statement /\ IsFiniteSet(orphans')
<1>1. PICK late \in SUBSET stmts : orphans' = orphans \cup late
  BY DEF Abandon
<1>2. IsFiniteSet(late) /\ late \subseteq Contract!Statement
  BY <1>1, FS_Subset
<1>3. IsFiniteSet(orphans')
  BY <1>1, <1>2, FS_Union DEF IInv
<1> QED BY <1>1, <1>2, <1>3 DEF IInv, TypeOK

LEMMA TimeoutKeeps ==
  ASSUME IInv, NEW w \in Writers, Timeout(w)
  PROVE  IInv'
<1> DEFINE stmts == IF session[w] = "running" THEN {calls[w].stmt} ELSE {}
<1>1. /\ pc[w] \in {"acquire", "send", "wait"} /\ Abandon(stmts) /\ Decide(w, "error")
      /\ session' = [session EXCEPT ![w] = "none"] /\ conns' = conns \ {w}
      /\ UNCHANGED table
  BY DEF Timeout
<1>2. calls[w].stmt \in Contract!Statement
  BY <1>1 DEF IInv, CallsOK
<1>3. stmts \subseteq Contract!Statement /\ IsFiniteSet(stmts)
  BY <1>2, FS_EmptySet, FS_Singleton
<1> HIDE DEF stmts
<1>4. orphans' \subseteq Contract!Statement /\ IsFiniteSet(orphans')
  BY <1>1, <1>3, AbandonTyped
<1> QED BY <1>1, <1>4, DecideKeeps

LEMMA ReturnKeeps ==
  ASSUME IInv, NEW w \in Writers, Return(w)
  PROVE  IInv'
<1>1. /\ pc[w] = "return" /\ pc' = [pc EXCEPT ![w] = "idle"]
      /\ calls' = [calls EXCEPT ![w] = Contract!NoCall]
      /\ UNCHANGED <<table, conns, session, orphans>>
  BY DEF Return, Goto
<1>2. \A v \in Writers : /\ pc'[v] = IF v = w THEN "idle" ELSE pc[v]
                         /\ calls'[v] = IF v = w THEN Contract!NoCall ELSE calls[v]
  BY <1>1 DEF IInv, TypeOK
<1>3. TypeOK'
  BY <1>1 DEF IInv, TypeOK, Contract!NoCall
<1>4. CallsOK'
  BY <1>2 DEF IInv, CallsOK
<1>5. SessionOK' /\ IsFiniteSet(orphans)'
  BY <1>1, <1>2 DEF IInv, SessionOK
<1> QED BY <1>3, <1>4, <1>5 DEF IInv

LEMMA RestartKeeps ==
  ASSUME IInv, NEW p \in Processes, Restart(p)
  PROVE  IInv'
<1> DEFINE S == {v \in p : session[v] = "running"}
           stmts == {calls[w].stmt : w \in S}
<1>1. /\ Abandon(stmts) /\ conns' = conns \ p /\ UNCHANGED table
      /\ session' = [w \in Writers |-> IF w \in p THEN "none" ELSE session[w]]
      /\ pc' = [w \in Writers |-> IF w \in p THEN "idle" ELSE pc[w]]
      /\ calls' = [w \in Writers |-> IF w \in p THEN Contract!NoCall ELSE calls[w]]
  BY DEF Restart
<1>2. p \subseteq Writers /\ S \subseteq Writers
  BY PostgresAssumption
<1>3. stmts \subseteq Contract!Statement
  BY <1>2 DEF IInv, SessionOK, CallsOK
<1>4. IsFiniteSet(stmts)
  <2> DEFINE f == [w \in S |-> calls[w].stmt]
  <2>1. IsFiniteSet(S)
    BY <1>2, PostgresAssumption, FS_Subset
  <2>2. f \in Surjection(S, stmts)
    BY DEF Surjection
  <2> QED BY <2>1, <2>2, FS_Surjection
<1> HIDE DEF stmts, S
<1>5. orphans' \subseteq Contract!Statement /\ IsFiniteSet(orphans')
  BY <1>1, <1>3, <1>4, AbandonTyped
<1>6. TypeOK'
  <2>1. calls' \in [Writers -> [stmt : Contract!Statement \cup {NoInvoice},
                               reply : {"none", "ok", "no", "error"}]]
    BY <1>1 DEF IInv, TypeOK, Contract!NoCall
  <2>2. conns' \subseteq Writers
    BY <1>1 DEF IInv, TypeOK
  <2>3. session' \in [Writers -> {"none", "running", "inserted", "unique violation",
                                 "one row", "no rows", "failed"}]
    BY <1>1 DEF IInv, TypeOK
  <2>4. pc' \in [Writers -> {"idle", "acquire", "send", "wait", "return"}]
    BY <1>1 DEF IInv, TypeOK
  <2> QED BY <1>1, <1>5, <2>1, <2>2, <2>3, <2>4 DEF IInv, TypeOK
<1>7. CallsOK' /\ SessionOK'
  BY <1>1 DEF IInv, CallsOK, SessionOK
<1> QED BY <1>5, <1>6, <1>7 DEF IInv

LEMMA DatabaseKeeps ==
  ASSUME IInv, NEW w \in Writers, Execute(w) \/ Fail(w)
  PROVE  IInv'
<1>1. session[w] = "running" /\ UNCHANGED <<conns, orphans, pc, calls>>
  BY DEF Execute, Fail
<1>2. pc[w] = "wait" /\ calls[w].stmt \in Contract!Statement
  BY <1>1 DEF IInv, SessionOK, CallsOK
<1>3. table' \in [Ids -> StoredRow \cup {NoInvoice}]
  <2>1. TableAfter(calls[w].stmt) \in [Ids -> StoredRow \cup {NoInvoice}]
    BY <1>2, TableTyped DEF IInv
  <2> QED BY <2>1 DEF Execute, Fail, IInv, TypeOK
<1>4. \E r \in Results : session' = [session EXCEPT ![w] = r]
  <2>1. Result(calls[w].stmt) \in Results /\ "failed" \in Results
    BY ResultTyped DEF Results
  <2> QED BY <2>1 DEF Execute, Fail
<1>5. TypeOK'
  BY <1>1, <1>3, <1>4 DEF IInv, TypeOK, Results
<1>6. CallsOK' /\ IsFiniteSet(orphans)'
  BY <1>1 DEF IInv, CallsOK
<1>7. SessionOK'
  BY <1>1, <1>2, <1>4 DEF IInv, TypeOK, SessionOK, Results
<1> QED BY <1>5, <1>6, <1>7 DEF IInv

LEMMA ExecuteOrphanKeeps ==
  ASSUME IInv, NEW s \in orphans, ExecuteOrphan(s)
  PROVE  IInv'
<1>1. /\ orphans' = orphans \ {s} /\ table' = TableAfter(s)
      /\ UNCHANGED <<conns, session, pc, calls>>
  BY DEF ExecuteOrphan
<1>2. table' \in [Ids -> StoredRow \cup {NoInvoice}]
  BY <1>1, TableTyped DEF IInv, TypeOK
<1>3. TypeOK'
  BY <1>1, <1>2 DEF IInv, TypeOK
<1>4. CallsOK' /\ SessionOK'
  BY <1>1 DEF IInv, CallsOK, SessionOK
<1>5. IsFiniteSet(orphans')
  BY <1>1, FS_RemoveElement DEF IInv
<1> QED BY <1>3, <1>4, <1>5 DEF IInv

LEMMA IInvInductive == IInv /\ [Next]_vars => IInv'
<1> SUFFICES ASSUME IInv, [Next]_vars PROVE IInv'
  OBVIOUS
<1>1. ASSUME NEW w \in Writers, NEW s \in Statements, Invoke(w, s) PROVE IInv'
  BY <1>1, InvokeKeeps
<1>2. ASSUME NEW w \in Writers, CallStep(w) PROVE IInv'
  BY <1>2, AcquireSendKeeps, ReceiveKeeps, TimeoutKeeps, ReturnKeeps DEF CallStep
<1>3. ASSUME NEW w \in Writers, Execute(w) \/ Fail(w) PROVE IInv'
  BY <1>3, DatabaseKeeps
<1>4. ASSUME NEW s \in orphans, ExecuteOrphan(s) PROVE IInv'
  BY <1>4, ExecuteOrphanKeeps
<1>5. ASSUME NEW p \in Processes, Restart(p) PROVE IInv'
  BY <1>5, RestartKeeps
<1>6. CASE UNCHANGED vars
  BY <1>6 DEF vars, IInv, TypeOK, CallsOK, SessionOK
<1> QED BY <1>1, <1>2, <1>3, <1>4, <1>5, <1>6 DEF Next

LEMMA PostgresInvariant == Spec => []IInv
BY InitIInv, IInvInductive, PTL DEF Spec

-----------------------------------------------------------------------------
(* The properties.                                                         *)

\* The type invariant of the database store: no column ever holds a zero time (nt)
\* and every row can be read back (scanInvoice).
THEOREM PostgresTypeCorrect == Spec => []TypeOK
<1>1. IInv => TypeOK
  BY DEF IInv
<1> QED BY <1>1, PostgresInvariant, PTL

-----------------------------------------------------------------------------
(* The refinement.  A call takes effect when the database executes it,     *)
(* whether or not its caller hears of it; a time limit that runs out       *)
(* before is the contract's "error", which may leave an orphan, and one    *)
(* that runs out after is its LoseReply.                                   *)

\* StoreContract's Cardinality is the FiniteSets operator it extends.
LEMMA SameCardinality == \A S : Contract!Cardinality(S) = Cardinality(S)
BY DEF Contract!Cardinality, Cardinality

LEMMA SameTable == ASSUME UNCHANGED table PROVE Invoices' = Invoices
BY DEF Invoices, scanInvoice, ptr

LEMMA OutcomeOf ==
  ASSUME NEW w \in Writers
  PROVE  /\ pc[w] = "wait" /\ Decided(w) =>
              Outcomes[w] = [calls[w] EXCEPT !.reply = Reply(session[w])]
         /\ ~(pc[w] = "wait" /\ Decided(w)) => Outcomes[w] = calls[w]
BY DEF Outcomes

LEMMA OutcomeAfter ==
  ASSUME NEW w \in Writers
  PROVE  /\ pc'[w] = "wait" /\ Decided(w)' =>
              Outcomes'[w] = [calls'[w] EXCEPT !.reply = Reply(session[w])']
         /\ ~(pc'[w] = "wait" /\ Decided(w)') => Outcomes'[w] = calls'[w]
BY DEF Outcomes

\* A step of one caller, or of the database for it, changes its outcome only.
LEMMA OneOutcome ==
  ASSUME NEW w \in Writers,
         \A v \in Writers \ {w} : pc'[v] = pc[v] /\ session'[v] = session[v] /\ calls'[v] = calls[v]
  PROVE  Outcomes' = [Outcomes EXCEPT ![w] = Outcomes'[w]]
<1>1. ASSUME NEW v \in Writers \ {w}
      PROVE  Outcomes'[v] = Outcomes[v]
  <2>1. pc'[v] = pc[v] /\ session'[v] = session[v] /\ calls'[v] = calls[v]
    OBVIOUS
  <2>2. (Decided(v)' <=> Decided(v)) /\ Reply(session[v])' = Reply(session[v])
    BY <2>1 DEF Decided, Reply
  <2>3. CASE ~(pc[v] = "wait" /\ Decided(v))
    <3>1. Outcomes[v] = calls[v] /\ Outcomes'[v] = calls'[v]
      BY <2>1, <2>2, <2>3, OutcomeOf, OutcomeAfter
    <3> QED BY <2>1, <3>1
  <2>4. CASE pc[v] = "wait" /\ Decided(v)
    <3>1. Outcomes[v] = [calls[v] EXCEPT !.reply = Reply(session[v])]
      BY <2>4, OutcomeOf
    <3>2. Outcomes'[v] = [calls'[v] EXCEPT !.reply = Reply(session[v])']
      BY <2>1, <2>2, <2>4, OutcomeAfter
    <3> QED BY <2>1, <2>2, <3>1, <3>2
  <2> QED BY <2>3, <2>4
<1>2. Outcomes = [v \in Writers |-> Outcomes[v]] /\ Outcomes' = [v \in Writers |-> Outcomes'[v]]
  BY DEF Outcomes
<1> QED BY <1>1, <1>2

LEMMA Undecided ==
  ASSUME IInv, NEW w \in Writers, pc[w] # "idle", pc[w] # "return", ~Decided(w)
  PROVE  /\ calls[w].stmt \in Contract!Statement
         /\ Outcomes[w] = calls[w] /\ Outcomes[w] # Contract!NoCall
         /\ Outcomes[w].reply = "none"
<1>1. calls[w].stmt \in Contract!Statement /\ calls[w].reply = "none"
  BY DEF IInv, CallsOK
<1>2. Outcomes[w] = calls[w]
  BY OutcomeOf
<1>3. calls[w] # Contract!NoCall
  BY <1>1, NoInvoiceAssumption DEF Contract!NoCall
<1> QED BY <1>1, <1>2, <1>3

LEMMA InvokeRefines ==
  ASSUME IInv, NEW w \in Writers, NEW s \in Statements, Invoke(w, s)
  PROVE  Contract!Invoke(w)
<1>1. /\ pc[w] = "idle" /\ pc' = [pc EXCEPT ![w] = "acquire"]
      /\ calls' = [calls EXCEPT ![w].stmt = s]
      /\ UNCHANGED <<table, conns, session, orphans>>
      /\ s \in Contract!Statement
  BY StatementsTyped DEF Invoke, Goto
<1>2. calls[w] = [stmt |-> NoInvoice, reply |-> "none"] /\ Outcomes[w] = Contract!NoCall
  BY <1>1, OutcomeOf DEF IInv, CallsOK, Contract!NoCall
<1>3. /\ pc'[w] = "acquire" /\ calls'[w] = [calls[w] EXCEPT !.stmt = s]
      /\ \A v \in Writers \ {w} : pc'[v] = pc[v] /\ session'[v] = session[v] /\ calls'[v] = calls[v]
  BY <1>1 DEF IInv, TypeOK
<1>4. Outcomes'[w] = [stmt |-> s, reply |-> "none"]
  <2>1. calls'[w] = [stmt |-> s, reply |-> "none"]
    BY <1>2, <1>3
  <2>2. Outcomes'[w] = calls'[w]
    BY <1>3, OutcomeAfter
  <2> QED BY <2>1, <2>2
<1>5. Outcomes'[w] \in [stmt : Contract!Statement, reply : {"none"}]
  BY <1>1, <1>4
<1>6. Outcomes' = [Outcomes EXCEPT ![w] = Outcomes'[w]]
  BY <1>3, OneOutcome
<1> QED BY <1>1, <1>2, <1>5, <1>6, SameTable DEF Contract!Invoke, Contract!storeVars

\* Taking a connection, sending and receiving decide nothing.
LEMMA QuietSteps ==
  ASSUME IInv, NEW w \in Writers, Acquire(w) \/ Send(w) \/ Receive(w)
  PROVE  UNCHANGED Contract!contractVars
<1>1. UNCHANGED <<table, orphans>>
  BY DEF Acquire, Send, Receive
<1>2. \A v \in Writers \ {w} : pc'[v] = pc[v] /\ session'[v] = session[v] /\ calls'[v] = calls[v]
  BY DEF IInv, TypeOK, Acquire, Send, Receive, Decide, Goto
<1>3. Outcomes'[w] = Outcomes[w]
  <2>1. CASE Acquire(w)
    <3>1. pc[w] = "acquire" /\ pc'[w] = "send" /\ calls' = calls
      BY <2>1 DEF Acquire, Goto, IInv, TypeOK
    <3> QED BY <3>1, OutcomeOf, OutcomeAfter
  <2>2. CASE Send(w)
    <3>1. pc[w] = "send" /\ session'[w] = "running" /\ calls' = calls
      BY <2>2 DEF Send, IInv, TypeOK
    <3>2. ~Decided(w)'
      BY <3>1 DEF Decided
    <3> QED BY <3>1, <3>2, OutcomeOf, OutcomeAfter
  <2>3. CASE Receive(w)
    <3>1. /\ pc[w] = "wait" /\ Decided(w) /\ pc'[w] = "return"
          /\ calls'[w] = [calls[w] EXCEPT !.reply = Reply(session[w])]
      BY <2>3 DEF Receive, Decide, Goto, IInv, TypeOK
    <3> QED BY <3>1, OutcomeOf, OutcomeAfter
  <2> QED BY <2>1, <2>2, <2>3
<1>4. Outcomes' = [Outcomes EXCEPT ![w] = Outcomes[w]]
  BY <1>2, <1>3, OneOutcome
<1>5. Outcomes' = Outcomes
  BY <1>4 DEF Outcomes
<1> QED BY <1>1, <1>5, SameTable DEF Contract!contractVars

LEMMA ReturnRefines ==
  ASSUME IInv, NEW w \in Writers, Return(w)
  PROVE  Contract!Return(w)
<1>1. /\ pc[w] = "return" /\ pc' = [pc EXCEPT ![w] = "idle"]
      /\ calls' = [calls EXCEPT ![w] = Contract!NoCall]
      /\ UNCHANGED <<table, conns, session, orphans>>
  BY DEF Return, Goto
<1>2. Outcomes[w] = calls[w] /\ calls[w].reply # "none"
  BY <1>1, OutcomeOf DEF IInv, CallsOK
<1>3. /\ pc'[w] = "idle" /\ calls'[w] = Contract!NoCall
      /\ \A v \in Writers \ {w} : pc'[v] = pc[v] /\ session'[v] = session[v] /\ calls'[v] = calls[v]
  BY <1>1 DEF IInv, TypeOK
<1>4. Outcomes'[w] = Contract!NoCall
  BY <1>3, OutcomeAfter
<1>5. Outcomes' = [Outcomes EXCEPT ![w] = Contract!NoCall]
  BY <1>3, <1>4, OneOutcome
<1> QED BY <1>1, <1>2, <1>5, SameTable DEF Contract!Return, Contract!storeVars

\* A reply that is decided, by the database or by the lack of one.
LEMMA ReplySet ==
  ASSUME IInv, NEW w \in Writers, NEW r,
         \A v \in Writers \ {w} : pc'[v] = pc[v] /\ session'[v] = session[v] /\ calls'[v] = calls[v],
         Outcomes'[w] = [Outcomes[w] EXCEPT !.reply = r]
  PROVE  Outcomes' = [Outcomes EXCEPT ![w].reply = r]
<1>1. Outcomes' = [Outcomes EXCEPT ![w] = Outcomes'[w]]
  BY OneOutcome
<1> QED BY <1>1

LEMMA TimeoutRefines ==
  ASSUME IInv, NEW w \in Writers, Timeout(w)
  PROVE  \/ Contract!Perform(w, "error")
         \/ Contract!LoseReply(w)
         \/ UNCHANGED Contract!contractVars
<1> DEFINE stmts == IF session[w] = "running" THEN {calls[w].stmt} ELSE {}
<1>1. /\ pc[w] \in {"acquire", "send", "wait"} /\ Abandon(stmts)
      /\ pc' = [pc EXCEPT ![w] = "return"] /\ calls' = [calls EXCEPT ![w].reply = "error"]
      /\ session' = [session EXCEPT ![w] = "none"]
      /\ UNCHANGED table
  BY DEF Timeout, Decide, Goto
<1>2. PICK late \in SUBSET stmts :
        /\ orphans' = orphans \cup late
        /\ late # {} => Cardinality(orphans') <= MaxOrphans
  BY <1>1 DEF Abandon
<1>3. /\ pc'[w] = "return" /\ calls'[w] = [calls[w] EXCEPT !.reply = "error"]
      /\ \A v \in Writers \ {w} : pc'[v] = pc[v] /\ session'[v] = session[v] /\ calls'[v] = calls[v]
  BY <1>1 DEF IInv, TypeOK
<1>4. Outcomes'[w] = [calls[w] EXCEPT !.reply = "error"]
  BY <1>3, OutcomeAfter
<1>5. calls[w] \in [stmt : Contract!Statement \cup {NoInvoice}, reply : {"none", "ok", "no", "error"}]
  BY DEF IInv, TypeOK
<1>6. CASE Decided(w)
  <2>1. pc[w] = "wait" /\ session[w] # "running" /\ session[w] \in Results
    BY <1>6, WaiterTyped DEF IInv, SessionOK, Decided
  <2>2. UNCHANGED orphans
    BY <1>2, <2>1
  <2>3. Outcomes[w] = [calls[w] EXCEPT !.reply = Reply(session[w])]
    BY <1>6, <2>1, OutcomeOf
  <2>4. /\ Outcomes[w].reply = Reply(session[w])
        /\ Outcomes'[w] = [Outcomes[w] EXCEPT !.reply = "error"]
    BY <1>4, <1>5, <2>3
  <2>5. Outcomes' = [Outcomes EXCEPT ![w].reply = "error"]
    BY <1>3, <2>4, ReplySet
  <2>6. CASE Reply(session[w]) = "error"
    <3>1. Outcomes'[w] = Outcomes[w]
      BY <1>4, <2>3, <2>6
    <3>2. Outcomes' = [Outcomes EXCEPT ![w] = Outcomes[w]]
      BY <1>3, <3>1, OneOutcome
    <3>3. Outcomes' = Outcomes
      BY <3>2 DEF Outcomes
    <3> QED BY <1>1, <2>2, <3>3, SameTable DEF Contract!contractVars
  <2>7. CASE Reply(session[w]) # "error"
    <3>1. Outcomes[w].reply \in {"ok", "no"}
      BY <2>1, <2>4, <2>7, ReplyTyped
    <3>2. Contract!LoseReply(w)
      BY <1>1, <2>2, <2>5, <3>1, SameTable DEF Contract!LoseReply, Contract!storeVars
    <3> QED BY <3>2
  <2> QED BY <2>6, <2>7
<1>7. CASE ~Decided(w)
  <2>1. /\ calls[w].stmt \in Contract!Statement
        /\ Outcomes[w] = calls[w] /\ Outcomes[w] # Contract!NoCall
        /\ Outcomes[w].reply = "none"
    BY <1>1, <1>7, Undecided
  <2>2. Outcomes' = [Outcomes EXCEPT ![w].reply = "error"]
    BY <1>3, <1>4, <2>1, ReplySet
  <2>3. Contract!Call(calls[w].stmt, "error")
    <3>1. CASE orphans' = orphans
      BY <1>1, <3>1, SameTable DEF Contract!Call, Contract!storeVars
    <3>2. CASE orphans' # orphans
      <4>1. late = {calls[w].stmt} /\ calls[w].stmt \notin orphans
        BY <1>2, <3>2
      <4>2. /\ Cardinality(orphans') = Cardinality(orphans) + 1
            /\ Cardinality(orphans) \in Nat
        BY <1>2, <4>1, FS_AddElement, FS_CardinalityType DEF IInv
      <4>3. Cardinality(orphans) < MaxOrphans
        BY <1>2, <4>1, <4>2, PostgresAssumption
      <4>4. orphans' = orphans \cup {calls[w].stmt} /\ UNCHANGED Invoices
        BY <1>1, <1>2, <4>1, SameTable
      <4> QED BY <4>3, <4>4, SameCardinality DEF Contract!Call
    <3> QED BY <3>1, <3>2
  <2> QED BY <2>1, <2>2, <2>3 DEF Contract!Perform
<1> QED BY <1>6, <1>7

\* The table after a statement reads as the contract's invoices after it.
LEMMA ExecutionRefines ==
  ASSUME IInv, NEW s \in Contract!Statement, table' = TableAfter(s)
  PROVE  /\ Contract!Affects(s) => Contract!Apply(s)
         /\ ~Contract!Affects(s) => Invoices' = Invoices
<1>1. CASE Contract!Affects(s)
  <2>1. PICK row \in StoredRow : /\ TableAfter(s) = [table EXCEPT ![s.id] = row]
                                 /\ scanInvoice(row) = Contract!NewRow(s)
    BY <1>1, ExecutionAgrees DEF IInv
  <2>2. s.id \in Ids /\ row # NoInvoice
    BY StatementFields, NoInvoiceAssumption
  <2>3. \A i \in Ids : table'[i] = IF i = s.id THEN row ELSE table[i]
    BY <2>1, <2>2 DEF IInv, TypeOK
  <2>4. \A i \in Ids : Invoices'[i] = IF i = s.id THEN Contract!NewRow(s) ELSE Invoices[i]
    <3>1. \A i \in Ids :
            /\ Invoices'[i] = IF table'[i] = NoInvoice THEN NoInvoice ELSE scanInvoice(table'[i])
            /\ Invoices[i] = IF table[i] = NoInvoice THEN NoInvoice ELSE scanInvoice(table[i])
      BY DEF Invoices
    <3> QED BY <2>1, <2>2, <2>3, <3>1
  <2>5. /\ Invoices = [i \in Ids |-> Invoices[i]]
        /\ Invoices' = [i \in Ids |-> Invoices'[i]]
    BY DEF Invoices
  <2>6. Invoices' = [Invoices EXCEPT ![s.id] = Contract!NewRow(s)]
    BY <2>2, <2>4, <2>5
  <2> QED BY <1>1, <2>6 DEF Contract!Apply
<1>2. CASE ~Contract!Affects(s)
  BY <1>2, ExecutionAgrees, SameTable DEF IInv
<1> QED BY <1>1, <1>2

LEMMA DatabaseRefines ==
  ASSUME IInv, NEW w \in Writers, Execute(w) \/ Fail(w)
  PROVE  \E reply \in {"ok", "no", "error"} : Contract!Perform(w, reply)
<1> DEFINE s == calls[w].stmt
<1>1. session[w] = "running" /\ UNCHANGED <<conns, orphans, pc, calls>>
  BY DEF Execute, Fail
<1>2. pc[w] = "wait" /\ ~Decided(w)
  BY <1>1 DEF IInv, SessionOK, Decided
<1>3. /\ s \in Contract!Statement /\ Outcomes[w] = calls[w] /\ Outcomes[w] # Contract!NoCall
      /\ Outcomes[w].reply = "none"
  BY <1>2, Undecided
<1>4. ASSUME NEW x \in Results, session' = [session EXCEPT ![w] = x]
      PROVE  Outcomes' = [Outcomes EXCEPT ![w].reply = Reply(x)]
  <2>1. /\ session'[w] = x
        /\ \A v \in Writers \ {w} : pc'[v] = pc[v] /\ session'[v] = session[v] /\ calls'[v] = calls[v]
    BY <1>1, <1>4 DEF IInv, TypeOK
  <2>2. pc'[w] = "wait" /\ Decided(w)'
    BY <1>1, <1>2, <2>1 DEF Decided, Results
  <2>3. Outcomes'[w] = [calls'[w] EXCEPT !.reply = Reply(session[w])']
    BY <2>2, OutcomeAfter
  <2>4. Outcomes'[w] = [Outcomes[w] EXCEPT !.reply = Reply(x)]
    BY <1>1, <1>3, <2>1, <2>3
  <2> QED BY <2>1, <2>4, ReplySet
<1>5. CASE Fail(w)
  <2>1. session' = [session EXCEPT ![w] = "failed"] /\ UNCHANGED table
    BY <1>5 DEF Fail
  <2>2. Outcomes' = [Outcomes EXCEPT ![w].reply = "error"]
    BY <1>4, <2>1 DEF Results, Reply
  <2>3. Contract!Perform(w, "error")
    BY <1>1, <1>3, <2>1, <2>2, SameTable
       DEF Contract!Perform, Contract!Call, Contract!storeVars
  <2> QED BY <2>3
<1>6. CASE Execute(w)
  <2>1. session' = [session EXCEPT ![w] = Result(s)] /\ table' = TableAfter(s)
    BY <1>6 DEF Execute
  <2>2. Result(s) \in Results
    BY ResultTyped
  <2>3. Outcomes' = [Outcomes EXCEPT ![w].reply = Reply(Result(s))]
    BY <1>4, <2>1, <2>2
  <2>4. CASE Contract!Affects(s)
    <3>1. Reply(Result(s)) = "ok"
      BY <1>3, <2>4, ExecutionAgrees DEF IInv, Reply
    <3>2. Contract!Apply(s)
      BY <1>3, <2>1, <2>4, ExecutionRefines
    <3>3. Contract!Perform(w, "ok")
      BY <1>1, <1>3, <2>3, <2>4, <3>1, <3>2 DEF Contract!Perform, Contract!Call
    <3> QED BY <3>3
  <2>5. CASE ~Contract!Affects(s)
    <3>1. Reply(Result(s)) = "no"
      BY <1>3, <2>5, ExecutionAgrees DEF IInv, Reply
    <3>2. Invoices' = Invoices
      BY <1>3, <2>1, <2>5, ExecutionRefines
    <3>3. Contract!Perform(w, "no")
      BY <1>1, <1>3, <2>3, <2>5, <3>1, <3>2
         DEF Contract!Perform, Contract!Call, Contract!storeVars
    <3> QED BY <3>3
  <2> QED BY <2>4, <2>5
<1> QED BY <1>5, <1>6

LEMMA OrphanRefines ==
  ASSUME IInv, NEW s \in orphans, ExecuteOrphan(s)
  PROVE  Contract!LateCommit
<1>1. /\ orphans' = orphans \ {s} /\ table' = TableAfter(s)
      /\ UNCHANGED <<conns, session, pc, calls>>
  BY DEF ExecuteOrphan
<1>2. s \in Contract!Statement
  BY DEF IInv, TypeOK
<1>3. Outcomes' = Outcomes
  BY <1>1 DEF Outcomes, Decided, Reply
<1>4. Contract!OrphanCommits(s)
  BY <1>1, <1>2, ExecutionRefines DEF Contract!OrphanCommits
<1> QED BY <1>3, <1>4 DEF Contract!LateCommit

LEMMA RestartRefines ==
  ASSUME IInv, NEW p \in Processes, Restart(p)
  PROVE  Contract!Restart(p)
<1> DEFINE S == {v \in p : session[v] = "running"}
           stmts == {calls[w].stmt : w \in S}
<1>1. /\ Abandon(stmts) /\ UNCHANGED table
      /\ session' = [w \in Writers |-> IF w \in p THEN "none" ELSE session[w]]
      /\ pc' = [w \in Writers |-> IF w \in p THEN "idle" ELSE pc[w]]
      /\ calls' = [w \in Writers |-> IF w \in p THEN Contract!NoCall ELSE calls[w]]
  BY DEF Restart
<1>2. p \subseteq Writers
  BY PostgresAssumption
<1>3. PICK late \in SUBSET stmts :
        /\ orphans' = orphans \cup late
        /\ late # {} => Cardinality(orphans') <= MaxOrphans
  BY <1>1 DEF Abandon
<1>4. ASSUME NEW w \in Writers
      PROVE  Outcomes'[w] = IF w \in p THEN Contract!NoCall ELSE Outcomes[w]
  <2>1. CASE w \in p
    <3>1. pc'[w] = "idle" /\ calls'[w] = Contract!NoCall
      BY <1>1, <2>1
    <3> QED BY <2>1, <3>1, OutcomeAfter
  <2>2. CASE w \notin p
    <3>1. pc'[w] = pc[w] /\ session'[w] = session[w] /\ calls'[w] = calls[w]
      BY <1>1, <2>2
    <3>2. (Decided(w)' <=> Decided(w)) /\ Reply(session[w])' = Reply(session[w])
      BY <3>1 DEF Decided, Reply
    <3>3. CASE ~(pc[w] = "wait" /\ Decided(w))
      <4>1. Outcomes[w] = calls[w] /\ Outcomes'[w] = calls'[w]
        BY <3>1, <3>2, <3>3, OutcomeOf, OutcomeAfter
      <4> QED BY <2>2, <3>1, <4>1
    <3>4. CASE pc[w] = "wait" /\ Decided(w)
      <4>1. Outcomes[w] = [calls[w] EXCEPT !.reply = Reply(session[w])]
        BY <3>4, OutcomeOf
      <4>2. Outcomes'[w] = [calls'[w] EXCEPT !.reply = Reply(session[w])']
        BY <3>1, <3>2, <3>4, OutcomeAfter
      <4> QED BY <2>2, <3>1, <3>2, <4>1, <4>2
    <3> QED BY <3>3, <3>4
  <2> QED BY <2>1, <2>2
<1>5. Outcomes' = [w \in Writers |-> IF w \in p THEN Contract!NoCall ELSE Outcomes[w]]
  <2>1. Outcomes' = [w \in Writers |-> Outcomes'[w]]
    BY DEF Outcomes
  <2> QED BY <1>4, <2>1
<1>6. stmts \subseteq Contract!Undecided(p)
  <2> SUFFICES ASSUME NEW w \in p, session[w] = "running"
               PROVE  calls[w].stmt \in Contract!Undecided(p)
    OBVIOUS
  <2>1. w \in Writers /\ pc[w] = "wait" /\ ~Decided(w)
    BY <1>2 DEF IInv, SessionOK, Decided
  <2>2. Outcomes[w] = calls[w] /\ Outcomes[w] # Contract!NoCall /\ Outcomes[w].reply = "none"
    BY <2>1, Undecided
  <2> QED BY <2>1, <2>2 DEF Contract!Undecided
<1>7. CASE late = {}
  <2>1. UNCHANGED orphans
    BY <1>3, <1>7
  <2> QED BY <1>1, <1>5, <2>1, SameTable DEF Contract!Restart
<1>8. CASE late # {}
  <2>1. late \in SUBSET Contract!Undecided(p) /\ Cardinality(orphans') <= MaxOrphans
    BY <1>3, <1>6, <1>8
  <2>2. UNCHANGED Invoices
    BY <1>1, SameTable
  <2> QED BY <1>3, <1>5, <2>1, <2>2, SameCardinality DEF Contract!Restart
<1> QED BY <1>7, <1>8

LEMMA ContractStep ==
  ASSUME IInv, [Next]_vars
  PROVE  [Contract!Next]_(Contract!contractVars)
<1>1. ASSUME NEW w \in Writers, NEW s \in Statements, Invoke(w, s)
      PROVE  Contract!Next
  BY <1>1, InvokeRefines DEF Contract!Next
<1>2. ASSUME NEW w \in Writers, CallStep(w)
      PROVE  Contract!Next \/ UNCHANGED Contract!contractVars
  <2>1. CASE Acquire(w) \/ Send(w) \/ Receive(w)
    BY <2>1, QuietSteps
  <2>2. CASE Timeout(w)
    BY <2>2, TimeoutRefines DEF Contract!Next
  <2>3. CASE Return(w)
    BY <2>3, ReturnRefines DEF Contract!Next
  <2> QED BY <1>2, <2>1, <2>2, <2>3 DEF CallStep
<1>3. ASSUME NEW w \in Writers, Execute(w) \/ Fail(w)
      PROVE  Contract!Next
  BY <1>3, DatabaseRefines DEF Contract!Next
<1>4. ASSUME NEW s \in orphans, ExecuteOrphan(s)
      PROVE  Contract!Next
  BY <1>4, OrphanRefines DEF Contract!Next
<1>5. ASSUME NEW p \in Processes, Restart(p)
      PROVE  Contract!Next
  BY <1>5, RestartRefines DEF Contract!Next
<1>6. CASE UNCHANGED vars
  <2>1. UNCHANGED <<table, session, orphans, pc, calls>>
    BY <1>6 DEF vars
  <2>2. Outcomes' = Outcomes
    BY <2>1 DEF Outcomes, Decided, Reply
  <2> QED BY <2>1, <2>2, SameTable DEF Contract!contractVars
<1> QED BY <1>1, <1>2, <1>3, <1>4, <1>5, <1>6 DEF Next

\* The database store implements StoreContract, for any number of processes: "ok"
\* means the row changed, "no" that it did not, "error" that it may have or may
\* yet; a stopped process loses no row; and what is read back is what was written
\* (CreateInvoice, ClaimInvoiceForSettlement, ExpireInvoice and scanInvoice).
THEOREM PostgresImplementsContract == Spec => ContractSpec
<1>1. Init => Contract!Init
  <2> SUFFICES ASSUME Init PROVE Contract!Init
    OBVIOUS
  <2>1. Invoices = [i \in Ids |-> NoInvoice] /\ orphans = {}
    BY DEF Init, Invoices
  <2>2. Outcomes = [w \in Writers |-> Contract!NoCall]
    BY DEF Init, Outcomes
  <2> QED BY <2>1, <2>2 DEF Contract!Init, Contract!StoreInit
<1>2. IInv /\ [Next]_vars => [Contract!Next]_(Contract!contractVars)
  BY ContractStep
<1> QED BY <1>1, <1>2, PostgresInvariant, PTL DEF Spec, ContractSpec, Contract!Spec
-----------------------------------------------------------------------------
(* What the contract's theorems say of this store.                         *)

Promise == INSTANCE StoreContractProofs WITH
  invoices <- Invoices, calls <- Outcomes, Backend <- "postgres"

LEMMA PromiseAssumption ==
  /\ "postgres" \in {"memory", "postgres"} /\ Amounts \subseteq Nat \ {0} /\ MaxOrphans \in Nat
  /\ NoInvoice \notin Promise!Invoice
BY PostgresAssumption, NoInvoiceAssumption DEF Promise!Invoice, Contract!Invoice

\* Both instances are of the same specification.
LEMMA SameStatement ==
  ASSUME NEW s
  PROVE  /\ Contract!Affects(s) <=> Promise!Affects(s)
         /\ Contract!Apply(s) <=> Promise!Apply(s)
         /\ Contract!OrphanCommits(s) <=> Promise!OrphanCommits(s)
         /\ \A reply : Contract!Call(s, reply) <=> Promise!Call(s, reply)
BY DEF Contract!Affects, Promise!Affects, Contract!Exists, Promise!Exists,
       Contract!HasStatus, Promise!HasStatus, Contract!MemoTaken, Promise!MemoTaken,
       Contract!Apply, Promise!Apply, Contract!NewRow, Promise!NewRow,
       Contract!AsPaid, Promise!AsPaid, Contract!AsExpired, Promise!AsExpired,
       Contract!OrphanCommits, Promise!OrphanCommits, Contract!Call, Promise!Call,
       Contract!storeVars, Promise!storeVars, Contract!Cardinality, Promise!Cardinality,
       Contract!IsFiniteSet, Promise!IsFiniteSet

LEMMA SameContract ==
  /\ Contract!Init <=> Promise!Init
  /\ [Contract!Next]_(Contract!contractVars) <=> [Promise!Next]_(Promise!contractVars)
  /\ Contract!WinnersKept <=> Promise!WinnersKept
<1>1. Contract!Init <=> Promise!Init
  BY DEF Contract!Init, Promise!Init, Contract!StoreInit, Promise!StoreInit,
         Contract!NoCall, Promise!NoCall
<1>2. [Contract!Next]_(Contract!contractVars) <=> [Promise!Next]_(Promise!contractVars)
  BY SameStatement
     DEF Contract!Next, Promise!Next, Contract!contractVars, Promise!contractVars,
         Contract!Invoke, Promise!Invoke, Contract!Perform, Promise!Perform,
         Contract!Return, Promise!Return, Contract!LateCommit, Promise!LateCommit,
         Contract!LoseReply, Promise!LoseReply, Contract!Restart, Promise!Restart,
         Contract!Undecided, Promise!Undecided, Contract!NoCall, Promise!NoCall,
         Contract!Statement, Promise!Statement, Contract!Invoice, Promise!Invoice,
         Contract!storeVars, Promise!storeVars, Contract!Cardinality, Promise!Cardinality,
         Contract!IsFiniteSet, Promise!IsFiniteSet
<1>3. Contract!WinnersKept <=> Promise!WinnersKept
  BY DEF Contract!WinnersKept, Promise!WinnersKept, Contract!Won, Promise!Won,
         Contract!Recorded, Promise!Recorded, Contract!Terms, Promise!Terms
<1> QED BY <1>1, <1>2, <1>3

LEMMA PromiseHolds == ContractSpec => Promise!Spec
BY SameContract, PTL DEF ContractSpec, Contract!Spec, Promise!Spec

\* What the database answered "ok" to is in the table, and of the calls that race for
\* an invoice one wins.
THEOREM PostgresKeepsWinners == Spec => []AcknowledgedIsDurable
<1>1. Promise!Spec => []Promise!WinnersKept
  BY Promise!ContractKeepsWinners, PromiseAssumption, PTL
<1>2. Promise!WinnersKept => AcknowledgedIsDurable
  BY SameContract DEF AcknowledgedIsDurable
<1> QED BY <1>1, <1>2, PromiseHolds, PostgresImplementsContract, PTL

\* The table never loses an invoice nor takes back a payment or an expiry.
THEOREM PostgresKeepsRows == Spec => DurableIsFinal
<1>1. Promise!Spec => Promise!RowsFinal
  BY Promise!ContractKeepsRows, PromiseAssumption, PTL
<1>2. Promise!RowsFinal <=> DurableIsFinal
  BY PTL DEF DurableIsFinal, Promise!RowsFinal, Contract!RowsFinal, Promise!Exists,
             Contract!Exists, Promise!Terms, Contract!Terms, Promise!contractVars,
             Contract!contractVars
<1> QED BY <1>1, <1>2, PromiseHolds, PostgresImplementsContract, PTL
=============================================================================
