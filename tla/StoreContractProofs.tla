-------------------------- MODULE StoreContractProofs -------------------------
(***************************************************************************)
(* What StoreContract promises, for any invoices, writers and processes    *)
(* and either kind of store.  A winner's row can only be changed by a      *)
(* statement that wins itself, and a statement wins only on a row that no  *)
(* earlier winner of its kind can have left.                               *)
(***************************************************************************)
EXTENDS StoreContract, TLAPS

Replies == {"none", "ok", "no", "error"}

ContractTypeOK ==
  /\ StoreTypeOK
  /\ calls \in [Writers -> [stmt : Statement, reply : Replies] \cup {NoCall}]

-----------------------------------------------------------------------------
\* What executing a statement does to the rows.
LEMMA ExecutedRow ==
  ASSUME StoreTypeOK, NEW s \in Statement, Affects(s), Apply(s)
  PROVE  /\ s.id \in Ids /\ NewRow(s) \in Invoice
         /\ \A i \in Ids : invoices'[i] = IF i = s.id THEN NewRow(s) ELSE invoices[i]
         /\ invoices' \in [Ids -> Invoice \cup {NoInvoice}]
         /\ s.op = "create" => invoices[s.id] = NoInvoice
         /\ s.op # "create" => /\ invoices[s.id] \in Invoice
                               /\ invoices[s.id].status = "pending"
                               /\ NewRow(s).status # "pending"
                               /\ Terms(NewRow(s)) = Terms(invoices[s.id])
         /\ Recorded(s)'
<1>1. CASE s.op = "create"
  <2>1. s.id \in Ids /\ s.row \in Invoice /\ NewRow(s) = s.row /\ invoices[s.id] = NoInvoice
    BY <1>1 DEF Statement, NewRow, Affects, Exists
  <2>2. /\ \A i \in Ids : invoices'[i] = IF i = s.id THEN s.row ELSE invoices[i]
        /\ invoices' \in [Ids -> Invoice \cup {NoInvoice}]
    BY <2>1 DEF StoreTypeOK, Apply
  <2>3. invoices'[s.id] = s.row /\ s.row # NoInvoice
    BY <2>1, <2>2, NoInvoiceAssumption
  <2>4. Recorded(s)'
    BY <1>1, <2>3 DEF Recorded
  <2> QED BY <1>1, <2>1, <2>2, <2>4
<1>2. CASE s.op # "create"
  <2>1. /\ s.id \in Ids /\ s.tx \in Nat /\ s.at \in Nat
        /\ s.op \in {"claim", "expire"}
    BY <1>2 DEF Statement
  <2>2. invoices[s.id] \in Invoice /\ invoices[s.id].status = "pending"
    BY <1>2, <2>1 DEF StoreTypeOK, Affects, HasStatus, Exists
  <2>3. /\ NewRow(s) \in Invoice /\ Terms(NewRow(s)) = Terms(invoices[s.id])
        /\ NewRow(s).status # "pending"
        /\ s.op = "claim" => /\ NewRow(s).status = "paid"
                             /\ NewRow(s).txHash = s.tx /\ NewRow(s).paidAt = s.at
        /\ s.op = "expire" => NewRow(s).status = "expired"
    <3>1. CASE s.op = "claim"
      <4>1. NewRow(s) = [invoices[s.id] EXCEPT !.status = "paid", !.txHash = s.tx, !.paidAt = s.at]
        BY <3>1 DEF NewRow, AsPaid
      <4> QED BY <2>1, <2>2, <3>1, <4>1 DEF Invoice, Terms
    <3>2. CASE s.op = "expire"
      <4>1. NewRow(s) = [invoices[s.id] EXCEPT !.status = "expired"]
        BY <3>2 DEF NewRow, AsExpired
      <4> QED BY <2>1, <2>2, <3>2, <4>1 DEF Invoice, Terms
    <3> QED BY <2>1, <3>1, <3>2
  <2>4. /\ \A i \in Ids : invoices'[i] = IF i = s.id THEN NewRow(s) ELSE invoices[i]
        /\ invoices' \in [Ids -> Invoice \cup {NoInvoice}]
    BY <2>1, <2>3 DEF StoreTypeOK, Apply
  <2>5. invoices'[s.id] = NewRow(s) /\ NewRow(s) # NoInvoice
    BY <2>1, <2>3, <2>4, NoInvoiceAssumption
  <2>6. Recorded(s)'
    BY <1>2, <2>3, <2>5 DEF Recorded
  <2> QED BY <1>2, <2>1, <2>2, <2>3, <2>4, <2>6
<1> QED BY <1>1, <1>2

\* A row changes only when a statement is executed that wins on it.
Executes(s) == s \in Statement /\ Affects(s) /\ Apply(s)

LEMMA RowsMove ==
  ASSUME ContractTypeOK, [Next]_contractVars
  PROVE  /\ ContractTypeOK'
         /\ \/ invoices' = invoices
            \/ \E s : Executes(s)
<1>1. ASSUME NEW w \in Writers, Invoke(w)
      PROVE  ContractTypeOK' /\ invoices' = invoices
  BY <1>1 DEF Invoke, ContractTypeOK, StoreTypeOK, storeVars, Replies
<1>2. ASSUME NEW w \in Writers, NEW reply \in {"ok", "no", "error"}, Perform(w, reply)
      PROVE  /\ ContractTypeOK'
             /\ invoices' = invoices \/ Executes(calls[w].stmt)
  <2>1. calls[w] \in [stmt : Statement, reply : Replies]
    BY <1>2 DEF Perform, ContractTypeOK
  <2>2. calls' = [calls EXCEPT ![w].reply = reply] /\ Call(calls[w].stmt, reply)
    BY <1>2 DEF Perform
  <2>3. calls' \in [Writers -> [stmt : Statement, reply : Replies] \cup {NoCall}]
    BY <2>1, <2>2 DEF ContractTypeOK, Replies
  <2>4. invoices' = invoices \/ Executes(calls[w].stmt)
    BY <2>1, <2>2 DEF Call, storeVars, Executes
  <2>5. invoices' \in [Ids -> Invoice \cup {NoInvoice}]
    BY <2>4, ExecutedRow DEF ContractTypeOK, StoreTypeOK, Executes
  <2>6. orphans' \subseteq Statement
    BY <2>1, <2>2 DEF Call, storeVars, ContractTypeOK, StoreTypeOK
  <2> QED BY <2>3, <2>4, <2>5, <2>6 DEF ContractTypeOK, StoreTypeOK
<1>3. ASSUME NEW w \in Writers, LoseReply(w)
      PROVE  ContractTypeOK' /\ invoices' = invoices
  <2>1. calls[w] \in [stmt : Statement, reply : Replies]
    BY <1>3 DEF LoseReply, ContractTypeOK, NoCall
  <2>2. calls' \in [Writers -> [stmt : Statement, reply : Replies] \cup {NoCall}]
    BY <1>3, <2>1 DEF LoseReply, ContractTypeOK, Replies
  <2> QED BY <1>3, <2>2 DEF LoseReply, ContractTypeOK, StoreTypeOK, storeVars
<1>4. ASSUME NEW w \in Writers, Return(w)
      PROVE  ContractTypeOK' /\ invoices' = invoices
  BY <1>4 DEF Return, ContractTypeOK, StoreTypeOK, storeVars
<1>5. ASSUME NEW s \in orphans, OrphanCommits(s), UNCHANGED calls
      PROVE  ContractTypeOK' /\ (invoices' = invoices \/ Executes(s))
  <2>1. s \in Statement /\ orphans' \subseteq Statement
    BY <1>5 DEF ContractTypeOK, StoreTypeOK, OrphanCommits
  <2>2. invoices' = invoices \/ Executes(s)
    BY <1>5, <2>1 DEF OrphanCommits, Executes
  <2>3. invoices' \in [Ids -> Invoice \cup {NoInvoice}]
    BY <2>2, ExecutedRow DEF ContractTypeOK, StoreTypeOK, Executes
  <2> QED BY <1>5, <2>1, <2>2, <2>3 DEF ContractTypeOK, StoreTypeOK
<1>6. ASSUME NEW p \in Processes, Restart(p)
      PROVE  ContractTypeOK' /\ invoices' = invoices
  <2>1. calls' \in [Writers -> [stmt : Statement, reply : Replies] \cup {NoCall}]
    BY <1>6 DEF Restart, ContractTypeOK
  <2>2. Undecided(p) \subseteq Statement
    BY DEF Undecided, ContractTypeOK
  <2>3. orphans' \subseteq Statement
    BY <1>6, <2>2 DEF Restart, ContractTypeOK, StoreTypeOK
  <2> QED BY <1>6, <2>1, <2>3 DEF Restart, ContractTypeOK, StoreTypeOK
<1>7. CASE UNCHANGED contractVars
  BY <1>7 DEF contractVars, ContractTypeOK, StoreTypeOK
<1> QED BY <1>1, <1>2, <1>3, <1>4, <1>5, <1>6, <1>7 DEF Next, LateCommit

\* What an executed statement leaves of an earlier winner.
LEMMA RecordSurvives ==
  ASSUME ContractTypeOK, NEW s, Executes(s), NEW t \in Statement, Recorded(t)
  PROVE  /\ Recorded(t)'
         /\ t.id = s.id => (t.op = "create") # (s.op = "create")
<1>1. t.id \in Ids
  BY DEF Statement
<1>2. CASE t.id # s.id
  <2>1. invoices'[t.id] = invoices[t.id]
    BY <1>1, <1>2, ExecutedRow DEF ContractTypeOK, Executes
  <2> QED BY <1>2, <2>1 DEF Recorded
<1>3. CASE t.id = s.id
  <2>1. invoices[s.id] # NoInvoice
    BY <1>3 DEF Recorded
  <2>2. s.op # "create"
    BY <2>1, ExecutedRow DEF ContractTypeOK, Executes
  <2>3. /\ invoices[s.id].status = "pending" /\ invoices'[s.id] = NewRow(s)
        /\ NewRow(s) \in Invoice /\ Terms(NewRow(s)) = Terms(invoices[s.id])
    BY <1>1, <1>3, <2>2, ExecutedRow DEF ContractTypeOK, Executes
  <2>4. t.op = "create"
    BY <1>3, <2>3 DEF Recorded, Statement
  <2>5. Recorded(t)'
    BY <1>3, <2>3, <2>4, NoInvoiceAssumption DEF Recorded
  <2> QED BY <1>3, <2>2, <2>4, <2>5
<1> QED BY <1>2, <1>3

\* A winner is one that won before, or the caller whose statement is executed now.
LEMMA WinnersMove ==
  ASSUME ContractTypeOK, [Next]_contractVars, NEW w \in Writers, Won(w)'
  PROVE  \/ Won(w) /\ calls'[w].stmt = calls[w].stmt
         \/ /\ Executes(calls[w].stmt) /\ calls'[w].stmt = calls[w].stmt
            /\ \A v \in Writers \ {w} : calls'[v] = calls[v]
<1>1. CASE calls'[w] = calls[w]
  BY <1>1 DEF Won
<1>2. ASSUME calls'[w].reply \in {"none", "error"}
      PROVE  FALSE
  BY <1>2 DEF Won
<1>3. ASSUME NEW v \in Writers, Invoke(v) \/ LoseReply(v) \/ Return(v)
      PROVE  calls'[w] = calls[w]
  <2>1. CASE v = w
    BY <1>2, <1>3, <2>1 DEF Invoke, LoseReply, Return, NoCall, ContractTypeOK
  <2>2. CASE v # w
    BY <1>3, <2>2 DEF Invoke, LoseReply, Return, ContractTypeOK
  <2> QED BY <2>1, <2>2
<1>4. ASSUME NEW v \in Writers, NEW reply \in {"ok", "no", "error"}, Perform(v, reply)
      PROVE  \/ calls'[w] = calls[w]
             \/ /\ Executes(calls[w].stmt) /\ calls'[w].stmt = calls[w].stmt
                /\ \A u \in Writers \ {w} : calls'[u] = calls[u]
  <2>1. /\ calls[v] \in [stmt : Statement, reply : Replies]
        /\ calls' = [calls EXCEPT ![v].reply = reply] /\ Call(calls[v].stmt, reply)
    BY <1>4 DEF Perform, ContractTypeOK
  <2>2. \A u \in Writers \ {v} : calls'[u] = calls[u]
    BY <2>1 DEF ContractTypeOK
  <2>3. CASE v = w
    <3>1. calls'[w].reply = reply /\ calls'[w].stmt = calls[w].stmt
      BY <2>1, <2>3 DEF ContractTypeOK
    <3>2. reply = "ok"
      BY <3>1 DEF Won
    <3>3. Executes(calls[w].stmt)
      BY <2>1, <2>3, <3>2 DEF Call, Executes
    <3> QED BY <2>2, <2>3, <3>1, <3>3
  <2> QED BY <2>2, <2>3
<1>5. ASSUME NEW p \in Processes, Restart(p)
      PROVE  calls'[w] = calls[w]
  <2>1. calls'[w] = IF w \in p THEN NoCall ELSE calls[w]
    BY <1>5 DEF Restart
  <2> QED BY <1>2, <2>1 DEF NoCall
<1>6. CASE UNCHANGED calls
  BY <1>1, <1>6
<1> QED BY <1>1, <1>3, <1>4, <1>5, <1>6 DEF Next, LateCommit, contractVars

LEMMA WinnersStep ==
  ASSUME ContractTypeOK, WinnersKept, [Next]_contractVars
  PROVE  WinnersKept'
<1>1. ContractTypeOK' /\ (invoices' = invoices \/ \E s : Executes(s))
  BY RowsMove
<1>2. ASSUME NEW w \in Writers, Won(w)
      PROVE  calls[w].stmt \in Statement /\ Recorded(calls[w].stmt)
  BY <1>2 DEF WinnersKept, Won, ContractTypeOK, NoCall
<1>3. ASSUME NEW t \in Statement, Recorded(t)
      PROVE  Recorded(t)'
  <2>1. CASE invoices' = invoices
    BY <1>3, <2>1 DEF Recorded
  <2>2. ASSUME NEW s, Executes(s)
        PROVE  Recorded(t)'
    BY <1>3, <2>2, RecordSurvives
  <2> QED BY <1>1, <2>1, <2>2
<1>4. ASSUME NEW s, Executes(s)
      PROVE  Recorded(s)'
  BY <1>4, ExecutedRow DEF Executes, ContractTypeOK
<1>5. ASSUME NEW w \in Writers, Won(w)'
      PROVE  Recorded(calls[w].stmt)'
  <2>1. ASSUME NEW t, Recorded(t)', calls'[w].stmt = t
        PROVE  Recorded(calls[w].stmt)'
    BY <2>1 DEF Recorded
  <2>2. CASE Won(w) /\ calls'[w].stmt = calls[w].stmt
    <3>1. calls[w].stmt \in Statement /\ Recorded(calls[w].stmt)
      BY <1>2, <2>2
    <3>2. PICK t \in Statement : t = calls[w].stmt
      BY <3>1
    <3>3. Recorded(t)'
      BY <1>3, <3>1, <3>2
    <3> QED BY <2>1, <2>2, <3>2, <3>3
  <2>3. CASE Executes(calls[w].stmt) /\ calls'[w].stmt = calls[w].stmt
    <3>1. PICK t : t = calls[w].stmt
      OBVIOUS
    <3>2. Recorded(t)'
      BY <1>4, <2>3, <3>1
    <3> QED BY <2>1, <2>3, <3>1, <3>2
  <2> QED BY <1>5, <2>2, <2>3, WinnersMove
<1>6. ASSUME NEW v \in Writers, NEW w \in Writers, Won(v)', Won(w)', v # w,
             calls'[v].stmt.id = calls'[w].stmt.id
      PROVE  (calls'[v].stmt.op = "create") # (calls'[w].stmt.op = "create")
  <2>1. CASE Won(v) /\ Won(w) /\ calls'[v].stmt = calls[v].stmt /\ calls'[w].stmt = calls[w].stmt
    BY <1>6, <2>1 DEF WinnersKept
  <2>2. ASSUME NEW a \in Writers, NEW b \in Writers, a # b, Won(b)',
               Executes(calls[a].stmt), calls'[a].stmt = calls[a].stmt,
               \A u \in Writers \ {a} : calls'[u] = calls[u],
               calls'[a].stmt.id = calls'[b].stmt.id
        PROVE  (calls'[b].stmt.op = "create") # (calls'[a].stmt.op = "create")
    <3>1. calls'[b] = calls[b] /\ Won(b)
      BY <2>2 DEF Won
    <3>2. calls[b].stmt \in Statement /\ Recorded(calls[b].stmt)
      BY <1>2, <3>1
    <3> DEFINE s == calls[a].stmt
               t == calls[b].stmt
    <3>3. Executes(s) /\ t \in Statement /\ Recorded(t) /\ t.id = s.id
      BY <2>2, <3>1, <3>2
    <3> HIDE DEF s, t
    <3>4. (t.op = "create") # (s.op = "create")
      BY <3>3, RecordSurvives
    <3> QED BY <2>2, <3>1, <3>4 DEF s, t
  <2>3. CASE Won(v) /\ calls'[v].stmt = calls[v].stmt
    BY <1>6, <2>1, <2>2, <2>3, WinnersMove
  <2> QED BY <1>6, <2>2, <2>3, WinnersMove
<1> QED BY <1>5, <1>6 DEF WinnersKept, Won

\* A call answered "ok" is in the store until its caller returns, and nobody else is
\* told the same of the same invoice (ClaimInvoiceForSettlement, ExpireInvoice and
\* CreateInvoice of either store).
THEOREM ContractKeepsWinners == Spec => []WinnersKept
<1>1. Init => ContractTypeOK /\ WinnersKept
  BY DEF Init, StoreInit, ContractTypeOK, StoreTypeOK, WinnersKept, Won, NoCall
<1>2. ContractTypeOK /\ WinnersKept /\ [Next]_contractVars => ContractTypeOK' /\ WinnersKept'
  BY RowsMove, WinnersStep
<1> QED BY <1>1, <1>2, PTL DEF Spec

\* Stored invoices stay, with their terms, and final statuses are final.
THEOREM ContractKeepsRows == Spec => RowsFinal
<1> DEFINE Final ==
      \A i \in Ids : Exists(i) =>
        /\ Exists(i)'
        /\ Terms(invoices'[i]) = Terms(invoices[i])
        /\ invoices[i].status # "pending" => invoices'[i] = invoices[i]
<1>1. Init => ContractTypeOK
  BY DEF Init, StoreInit, ContractTypeOK, StoreTypeOK
<1>2. ContractTypeOK /\ [Next]_contractVars => ContractTypeOK'
  BY RowsMove
<1>3. ContractTypeOK /\ [Next]_contractVars => Final
  <2> SUFFICES ASSUME ContractTypeOK, [Next]_contractVars PROVE Final
    OBVIOUS
  <2>1. CASE invoices' = invoices
    BY <2>1 DEF Exists
  <2>2. ASSUME NEW s, Executes(s)
        PROVE  Final
    <3>1. StoreTypeOK /\ s \in Statement /\ Affects(s) /\ Apply(s)
      BY <2>2 DEF ContractTypeOK, Executes
    <3> SUFFICES ASSUME NEW i \in Ids, Exists(i)
                 PROVE  /\ invoices'[i] # NoInvoice
                        /\ Terms(invoices'[i]) = Terms(invoices[i])
                        /\ invoices[i].status # "pending" => invoices'[i] = invoices[i]
      BY DEF Exists
    <3>2. CASE i = s.id
      <4>1. s.op # "create"
        BY <3>1, <3>2, ExecutedRow DEF Exists
      <4> QED BY <3>1, <3>2, <4>1, ExecutedRow, NoInvoiceAssumption
    <3>3. CASE i # s.id
      BY <3>1, <3>3, ExecutedRow DEF Exists
    <3> QED BY <3>2, <3>3
  <2> QED BY <2>1, <2>2, RowsMove
<1>4. ContractTypeOK /\ [Next]_contractVars => [Final]_contractVars
  BY <1>3
<1> QED BY <1>1, <1>2, <1>4, PTL DEF Spec, RowsFinal
=============================================================================
