----------------------------- MODULE MemoryStore ------------------------------
(***************************************************************************)
(* internal/store/memory.go: the map and its memo index under an RWMutex,  *)
(* and persistence by rewriting store.json through a temporary file.  The  *)
(* process may stop at any step and is restarted, which loads store.json.  *)
(* Each of the file system calls persist makes is a step and may fail.     *)
(*                                                                         *)
(* A read (GetInvoice, ListPending, PendingCounts) is one step under the   *)
(* read lock and changes nothing: it sees mem while nobody holds the write *)
(* lock.  The JSON encoding keeps every field of an invoice this model has.*)
(***************************************************************************)
EXTENDS Naturals, FiniteSets

CONSTANTS
  Ids, Addrs, Memos, Amounts, NoInvoice,   \* as in InvoiceStore
  Writers,       \* goroutines calling mutating methods
  Nobody,        \* no writer; no id
  NoFile, Torn,  \* a file that does not exist; an incompletely written one
  Times          \* bound: instants used in statements

VARIABLES
  mem,     \* Memory.invoices: id -> invoice or NoInvoice
  memos,   \* Memory.memos: <<payTo, memo>> -> id or Nobody
  holder,  \* the writer that holds mu for writing
  disk,    \* store.json
  tmp,     \* store.json.tmp
  pc,      \* per writer: its place in the method and in persist
  cur,     \* per writer: the entry it replaced, kept for the roll-back
  calls    \* per writer: the statement and, once decided, the reply

vars == <<mem, memos, holder, disk, tmp, pc, cur, calls>>

Empty == [i \in Ids |-> NoInvoice]

\* What load makes of store.json.
Loaded(file) == IF file = NoFile THEN Empty ELSE file

Contract == INSTANCE StoreContract WITH
  invoices <- Loaded(disk), orphans <- {}, Processes <- {Writers},
  Backend <- "memory", MaxOrphans <- 0

Keys == Addrs \X Memos

memoKey(inv) == <<inv.payTo, inv.memo>>

\* load's rebuilding of the index.
Index(invoices) ==
  [key \in Keys |->
     IF \E i \in Ids : invoices[i] # NoInvoice /\ memoKey(invoices[i]) = key
     THEN CHOOSE i \in Ids : invoices[i] # NoInvoice /\ memoKey(invoices[i]) = key
     ELSE Nobody]

Init ==
  /\ mem = Empty
  /\ memos = [key \in Keys |-> Nobody]
  /\ holder = Nobody
  /\ disk = NoFile
  /\ tmp = NoFile
  /\ pc = [w \in Writers |-> "idle"]
  /\ cur = [w \in Writers |-> NoInvoice]
  /\ calls = [w \in Writers |-> Contract!NoCall]

-----------------------------------------------------------------------------
Goto(w, label) == pc' = [pc EXCEPT ![w] = label]

Decide(w, reply) ==
  /\ calls' = [calls EXCEPT ![w].reply = reply]
  /\ Goto(w, "return")

\* A method is called.  idgen never returns an identifier twice.
Invoke(w, s) ==
  /\ pc[w] = "idle"
  /\ s.op = "create" => /\ mem[s.id] = NoInvoice
                        /\ \A v \in Writers : pc[v] # "idle" => calls[v].stmt.id # s.id
  /\ calls' = [calls EXCEPT ![w].stmt = s]
  /\ Goto(w, "lock")
  /\ UNCHANGED <<mem, memos, holder, disk, tmp, cur>>

\* The guard of CreateInvoice (a free memo) and of the two transitions.
Applicable(s) ==
  IF s.op = "create"
  THEN memos[memoKey(s.row)] = Nobody
  ELSE mem[s.id] # NoInvoice /\ mem[s.id].status = "pending"

Updated(s) ==
  CASE s.op = "create" -> s.row
    [] s.op = "claim"  -> Contract!AsPaid(mem[s.id], s.tx, s.at)
    [] s.op = "expire" -> Contract!AsExpired(mem[s.id])

\* Under the lock: refuse, or change the map (and the index) and go on to persist.
Mutate(w) ==
  LET s == calls[w].stmt IN
  /\ pc[w] = "lock"
  /\ holder = Nobody
  /\ holder' = w
  /\ IF Applicable(s)
     THEN /\ mem' = [mem EXCEPT ![s.id] = Updated(s)]
          /\ memos' = IF s.op = "create"
                      THEN [memos EXCEPT ![memoKey(s.row)] = s.id] ELSE memos
          /\ cur' = [cur EXCEPT ![w] = mem[s.id]]
          /\ Goto(w, "open")
          /\ UNCHANGED calls
     ELSE /\ Decide(w, "no")
          /\ UNCHANGED <<mem, memos, cur>>
  /\ UNCHANGED <<disk, tmp>>

\* Mutants: only the map is restored, and nothing is.
RollBackMapOnly(w) ==
  /\ mem' = [mem EXCEPT ![calls[w].stmt.id] = cur[w]]
  /\ UNCHANGED memos
NoRollBack(w) == UNCHANGED <<mem, memos>>

\* Undo the change to the map and the index.
RollBack(w) ==
  LET s == calls[w].stmt IN
  /\ mem' = [mem EXCEPT ![s.id] = IF s.op = "create" THEN NoInvoice ELSE cur[w]]
  /\ memos' = IF s.op = "create" THEN [memos EXCEPT ![memoKey(s.row)] = Nobody] ELSE memos

\* Any of MkdirAll, MarshalIndent, WriteFile and Rename fails.
PersistFails(w) ==
  /\ pc[w] \in {"open", "write", "rename"}
  /\ RollBack(w)
  /\ Decide(w, "error")
  /\ UNCHANGED <<holder, disk, tmp, cur>>

\* WriteFile opens the temporary file truncated, then writes it.
Open(w) ==
  /\ pc[w] = "open"
  /\ tmp' = Torn
  /\ Goto(w, "write")
  /\ UNCHANGED <<mem, memos, holder, disk, cur, calls>>

\* Mutant: the file is not renamed.
WriteIsEnough(w) ==
  /\ pc[w] = "write"
  /\ tmp' = mem
  /\ Decide(w, "ok")
  /\ UNCHANGED <<mem, memos, holder, disk, cur>>

Write(w) ==
  /\ pc[w] = "write"
  /\ tmp' = mem
  /\ Goto(w, "rename")
  /\ UNCHANGED <<mem, memos, holder, disk, cur, calls>>

Rename(w) ==
  /\ pc[w] = "rename"
  /\ disk' = tmp
  /\ tmp' = NoFile
  /\ Decide(w, "ok")
  /\ UNCHANGED <<mem, memos, holder, cur>>

\* Mutant: the lock is released on success only.
ReturnLocked(w) ==
  /\ pc[w] = "return"
  /\ holder' = IF calls[w].reply = "ok" THEN Nobody ELSE holder
  /\ calls' = [calls EXCEPT ![w] = Contract!NoCall]
  /\ Goto(w, "idle")
  /\ UNCHANGED <<mem, memos, disk, tmp, cur>>

\* The deferred unlock, and the return to the caller.
Return(w) ==
  /\ pc[w] = "return"
  /\ holder' = Nobody
  /\ calls' = [calls EXCEPT ![w] = Contract!NoCall]
  /\ Goto(w, "idle")
  /\ UNCHANGED <<mem, memos, disk, tmp, cur>>

\* The process stops and NewMemory loads what the file holds.  A torn file would
\* not parse: the server would refuse to start.
Restart ==
  /\ disk # Torn
  /\ mem' = Loaded(disk)
  /\ memos' = Index(Loaded(disk))
  /\ holder' = Nobody
  /\ pc' = [w \in Writers |-> "idle"]
  /\ cur' = [w \in Writers |-> NoInvoice]
  /\ calls' = [w \in Writers |-> Contract!NoCall]
  /\ UNCHANGED <<disk, tmp>>

-----------------------------------------------------------------------------
Draft(payTo, memo, amount) ==
  [payTo |-> payTo, memo |-> memo, amount |-> amount, status |-> "pending",
   txHash |-> 0, createdAt |-> 1, paidAt |-> 0, expiresAt |-> 2]

\* The statements service.go hands to the store.
Statements ==
  {Contract!CreateInvoice(i, Draft(a, m, v)) :
     i \in Ids, a \in Addrs, m \in Memos, v \in Amounts}
  \cup {Contract!ClaimInvoiceForSettlement(i, t, t) : i \in Ids, t \in Times}
  \cup {Contract!ExpireInvoice(i) : i \in Ids}

Step(w) ==
  Mutate(w) \/ PersistFails(w) \/ Open(w) \/ Write(w) \/ Rename(w) \/ Return(w)

Next ==
  \/ \E w \in Writers : (\E s \in Statements : Invoke(w, s)) \/ Step(w)
  \/ Restart

Spec == Init /\ [][Next]_vars

\* A goroutine inside a method runs on, and Go's RWMutex starves no writer.
FairSpec == Spec /\ \A w \in Writers : WF_vars(Step(w)) /\ SF_vars(Mutate(w))

-----------------------------------------------------------------------------
(* Properties.                                                             *)

File == [Ids -> Contract!Invoice \cup {NoInvoice}]

ASSUME MemoryAssumption ==
  /\ Nobody \notin Writers /\ Nobody \notin Ids
  /\ NoInvoice \notin Contract!Invoice /\ NoInvoice \notin Contract!Statement
  /\ NoFile \notin File /\ Torn \notin File /\ NoFile # Torn
  /\ Times \subseteq Nat /\ Amounts \subseteq Nat \ {0}

\* The type invariant of Memory, its files and the goroutines inside it.
TypeOK ==
  /\ mem \in File
  /\ memos \in [Keys -> Ids \cup {Nobody}]
  /\ holder \in Writers \cup {Nobody}
  /\ disk \in File \cup {NoFile}
  /\ tmp \in File \cup {NoFile, Torn}
  /\ pc \in [Writers -> {"idle", "lock", "open", "write", "rename", "return"}]
  /\ cur \in [Writers -> Contract!Invoice \cup {NoInvoice}]
  /\ calls \in [Writers -> [stmt : Contract!Statement \cup {NoInvoice},
                            reply : {"none", "ok", "no", "error"}]]

\* memory.go:99 "roll back so memory and disk agree": whenever a reader can get
\* in, the map is what a restart would load, after any failed step of persist.
MemoryIsDurable == holder = Nobody => mem = Loaded(disk)

\* The index is exactly the (PayTo, Memo) pairs of the map's invoices, so the
\* duplicate test neither misses an invoice nor blocks a memo after a roll-back.
IndexMatchesMap ==
  \A key \in Keys, i \in Ids :
    memos[key] = i <=> mem[i] # NoInvoice /\ memoKey(mem[i]) = key

\* The store implements its contract: a call that answered "ok" is in the file,
\* one that answered "no" or "error" never is, and a restart loses neither.
ContractSpec == Contract!Spec

\* What a caller was told it did is in the file that a restart loads, and nobody else
\* is told the same of the same invoice (the Store interface's "won").
AcknowledgedIsDurable == Contract!WinnersKept

\* Through failing writes, roll-backs and restarts the file never loses an invoice
\* nor takes back a payment or an expiry.
DurableIsFinal == Contract!RowsFinal

\* Every call returns, however its steps fail: no path keeps the write lock.
CallsReturn == \A w \in Writers : pc[w] # "idle" ~> pc[w] = "idle"
=============================================================================
