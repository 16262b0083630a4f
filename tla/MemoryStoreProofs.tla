-------------------------- MODULE MemoryStoreProofs ---------------------------
(***************************************************************************)
(* Proofs about MemoryStore, for every set of identifiers, memos and       *)
(* writers: the map, the index and the file agree, and the store implements*)
(* StoreContract.                                                          *)
(***************************************************************************)
EXTENDS MemoryStore, TLAPS

\* The writer is inside persist: the map is ahead of the file.
InFlight(w) == pc[w] \in {"open", "write", "rename"}

\* A writer outside the store has no statement, one inside has one, and a reply
\* exactly when it is about to return.
CallsOK ==
  \A w \in Writers :
    /\ pc[w] = "idle" => calls[w] = Contract!NoCall
    /\ pc[w] # "idle" => /\ calls[w].stmt \in Contract!Statement
                         /\ calls[w].reply = "none" <=> pc[w] # "return"

\* The write lock belongs to the writer between Mutate and Return.
LockOK == \A w \in Writers : holder = w <=> InFlight(w) \/ pc[w] = "return"

\* The map is the file, or the file with the statement of the writer inside
\* persist carried out; cur is what RollBack needs.
FileOK ==
  /\ (\A w \in Writers : ~InFlight(w)) => mem = Loaded(disk)
  /\ \A w \in Writers : InFlight(w) =>
       LET s == calls[w].stmt IN
         /\ Contract!Affects(s)
         /\ mem = [Loaded(disk) EXCEPT ![s.id] = Contract!NewRow(s)]
         /\ cur[w] = Loaded(disk)[s.id]
  /\ \A w \in Writers : pc[w] = "rename" => tmp = mem

\* An identifier being created is nobody else's, and not yet in the map.
FreshOK ==
  /\ \A w \in Writers :
       pc[w] = "lock" /\ calls[w].stmt.op = "create" => mem[calls[w].stmt.id] = NoInvoice
  /\ \A v, w \in Writers :
       /\ pc[v] # "idle" /\ calls[v].stmt.op = "create"
       /\ pc[w] # "idle" /\ calls[w].stmt.op = "create"
       /\ calls[v].stmt.id = calls[w].stmt.id
       => v = w

\* No two invoices of a map share a memo key.
KeysUnique(invoices) ==
  \A i, j \in Ids :
    invoices[i] # NoInvoice /\ invoices[j] # NoInvoice
      /\ memoKey(invoices[i]) = memoKey(invoices[j]) => i = j

\* The inductive invariant.
IInv ==
  /\ TypeOK
  /\ CallsOK
  /\ LockOK
  /\ FileOK
  /\ FreshOK
  /\ IndexMatchesMap
  /\ KeysUnique(Loaded(disk))

-----------------------------------------------------------------------------
(* Operators.                                                              *)

LEMMA LoadedTyped ==
  ASSUME TypeOK
  PROVE  Loaded(disk) \in File
BY DEF TypeOK, Loaded, Empty, File

\* Every statement of the service is a statement of the contract.
LEMMA StatementsTyped == Statements \subseteq Contract!Statement
<1>1. \A a \in Addrs, m \in Memos, v \in Amounts : Draft(a, m, v) \in Contract!Invoice
  BY DEF Draft, Contract!Invoice
<1>2. \A i \in Ids, row \in Contract!Invoice :
        Contract!CreateInvoice(i, row) \in Contract!Statement
  BY DEF Contract!CreateInvoice, Contract!Statement, Contract!NoTx, Contract!ZeroTime
<1>3. \A i \in Ids, t \in Times :
        Contract!ClaimInvoiceForSettlement(i, t, t) \in Contract!Statement
  BY MemoryAssumption DEF Contract!ClaimInvoiceForSettlement, Contract!Statement
<1>4. \A i \in Ids : Contract!ExpireInvoice(i) \in Contract!Statement
  BY DEF Contract!ExpireInvoice, Contract!Statement, Contract!NoTx, Contract!ZeroTime
<1> QED BY <1>1, <1>2, <1>3, <1>4 DEF Statements

\* What a statement is made of.
LEMMA StatementFields ==
  ASSUME NEW s \in Contract!Statement
  PROVE  /\ s.id \in Ids /\ s.tx \in Nat /\ s.at \in Nat
         /\ s.op \in {"create", "claim", "expire"}
         /\ s.op = "create" => s.row \in Contract!Invoice
BY DEF Contract!Statement

\* The transitions make invoices of invoices and keep their memo key.
LEMMA TransitionsTyped ==
  ASSUME NEW inv \in Contract!Invoice, NEW tx \in Nat, NEW at \in Nat
  PROVE  /\ Contract!AsPaid(inv, tx, at) \in Contract!Invoice
         /\ Contract!AsExpired(inv) \in Contract!Invoice
         /\ memoKey(Contract!AsPaid(inv, tx, at)) = memoKey(inv)
         /\ memoKey(Contract!AsExpired(inv)) = memoKey(inv)
BY DEF Contract!AsPaid, Contract!AsExpired, Contract!Invoice, memoKey

LEMMA KeyTyped ==
  ASSUME NEW inv \in Contract!Invoice
  PROVE  memoKey(inv) \in Keys
BY DEF memoKey, Keys, Contract!Invoice

\* An effective statement writes an invoice: a new one into a free place, or
\* another status of the one that is there.
LEMMA EffectiveRow ==
  ASSUME TypeOK, NEW s \in Contract!Statement, Contract!Affects(s)
  PROVE  LET old == Loaded(disk)[s.id]
             new == Contract!NewRow(s)
         IN  /\ new \in Contract!Invoice
             /\ s.op = "create" => old = NoInvoice /\ new = s.row
             /\ s.op # "create" => old \in Contract!Invoice /\ memoKey(new) = memoKey(old)
<1>1. s.id \in Ids /\ Loaded(disk)[s.id] \in Contract!Invoice \cup {NoInvoice}
  BY LoadedTyped, StatementFields DEF File
<1>2. CASE s.op = "create"
  BY <1>2, StatementFields DEF Contract!Affects, Contract!Exists, Contract!NewRow
<1>3. CASE s.op # "create"
  <2>1. Loaded(disk)[s.id] \in Contract!Invoice
    BY <1>1, <1>3 DEF Contract!Affects, Contract!HasStatus, Contract!Exists
  <2>2. CASE s.op = "claim"
    BY <2>1, <2>2, StatementFields, TransitionsTyped DEF Contract!NewRow
  <2>3. CASE s.op = "expire"
    BY <2>1, <2>3, StatementFields, TransitionsTyped, 0 \in Nat DEF Contract!NewRow
  <2> QED BY <1>3, <2>1, <2>2, <2>3, StatementFields
<1> QED BY <1>2, <1>3

\* Whoever gets the lock sees what the file holds, and memory.go's guard and its
\* new entry are the contract's.
LEMMA UnderTheLock ==
  ASSUME IInv, NEW w \in Writers, pc[w] = "lock", holder = Nobody
  PROVE  LET s == calls[w].stmt
         IN  /\ s \in Contract!Statement
             /\ \A v \in Writers : ~InFlight(v) /\ pc[v] # "return"
             /\ mem = Loaded(disk)
             /\ Applicable(s) <=> Contract!Affects(s)
             /\ Updated(s) = Contract!NewRow(s)
<1> DEFINE s == calls[w].stmt
<1>1. s \in Contract!Statement
  BY DEF IInv, CallsOK
<1>2. \A v \in Writers : ~InFlight(v) /\ pc[v] # "return"
  BY MemoryAssumption DEF IInv, LockOK
<1>3. mem = Loaded(disk)
  BY <1>2 DEF IInv, FileOK
<1>4. Updated(s) = Contract!NewRow(s)
  BY <1>3 DEF Updated, Contract!NewRow
<1>5. Applicable(s) <=> Contract!Affects(s)
  <2>1. CASE s.op # "create"
    BY <1>3, <2>1 DEF Applicable, Contract!Affects, Contract!HasStatus, Contract!Exists
  <2>2. CASE s.op = "create"
    <3> DEFINE key == memoKey(s.row)
    <3>1. key \in Keys
      BY <1>1, <2>2, StatementFields, KeyTyped
    <3>2. ~Contract!Exists(s.id)
      BY <1>3, <2>2 DEF IInv, FreshOK, Contract!Exists
    <3>3. memos[key] \in Ids \cup {Nobody}
      BY <3>1 DEF IInv, TypeOK
    <3>4. memos[key] = Nobody <=> \A j \in Ids : mem[j] = NoInvoice \/ memoKey(mem[j]) # key
      BY <3>1, <3>3, MemoryAssumption DEF IInv, IndexMatchesMap
    <3>5. Contract!MemoTaken(s.row.payTo, s.row.memo)
            <=> \E j \in Ids : mem[j] # NoInvoice /\ memoKey(mem[j]) = key
      BY <1>3 DEF Contract!MemoTaken, Contract!Exists, memoKey
    <3> QED BY <2>2, <3>2, <3>4, <3>5 DEF Applicable, Contract!Affects
  <2> QED BY <2>1, <2>2
<1> QED BY <1>1, <1>2, <1>3, <1>4, <1>5

\* One effective statement keeps the keys of the map distinct.
LEMMA EffectKeepsKeysUnique ==
  ASSUME TypeOK, NEW s \in Contract!Statement, Contract!Affects(s), KeysUnique(Loaded(disk))
  PROVE  KeysUnique([Loaded(disk) EXCEPT ![s.id] = Contract!NewRow(s)])
<1> DEFINE old == Loaded(disk)
           new == [old EXCEPT ![s.id] = Contract!NewRow(s)]
<1>1. old \in File /\ s.id \in Ids
  BY LoadedTyped, StatementFields
<1>2. \A i \in Ids : new[i] = IF i = s.id THEN Contract!NewRow(s) ELSE old[i]
  BY <1>1 DEF File
<1>3. CASE s.op = "create"
  <2>1. \A j \in Ids : old[j] # NoInvoice => memoKey(old[j]) # memoKey(s.row)
    BY <1>3 DEF Contract!Affects, Contract!MemoTaken, Contract!Exists, memoKey
  <2>2. Contract!NewRow(s) = s.row
    BY <1>3, EffectiveRow
  <2> QED BY <1>2, <2>1, <2>2 DEF KeysUnique
<1>4. CASE s.op # "create"
  <2>1. old[s.id] # NoInvoice /\ memoKey(Contract!NewRow(s)) = memoKey(old[s.id])
    BY <1>4, EffectiveRow, MemoryAssumption
  <2>2. \A i \in Ids : (new[i] # NoInvoice => old[i] # NoInvoice)
                       /\ memoKey(new[i]) = memoKey(old[i])
    BY <1>2, <2>1
  <2> HIDE DEF old, new
  <2> QED BY <2>2 DEF KeysUnique, old, new
<1> QED BY <1>3, <1>4

-----------------------------------------------------------------------------
(* Every step keeps the invariant.                                         *)

LEMMA InitIInv == Init => IInv
<1> SUFFICES ASSUME Init PROVE IInv
  OBVIOUS
<1>1. TypeOK
  BY DEF Init, TypeOK, Empty, File, Contract!NoCall
<1>2. CallsOK /\ LockOK /\ FreshOK
  BY MemoryAssumption DEF Init, CallsOK, LockOK, FreshOK, InFlight
<1>3. FileOK
  BY DEF Init, FileOK, Loaded, InFlight
<1>4. IndexMatchesMap
  BY MemoryAssumption DEF Init, IndexMatchesMap, Empty
<1>5. KeysUnique(Loaded(disk))
  BY DEF Init, KeysUnique, Loaded, Empty
<1> QED BY <1>1, <1>2, <1>3, <1>4, <1>5 DEF IInv

\* What a statement would do depends on the file only.
LEMMA SameFile ==
  ASSUME UNCHANGED disk
  PROVE  /\ Loaded(disk)' = Loaded(disk)
         /\ \A s : Contract!Affects(s)' <=> Contract!Affects(s)
         /\ \A s : Contract!NewRow(s)' = Contract!NewRow(s)
BY DEF Contract!Affects, Contract!HasStatus, Contract!Exists, Contract!MemoTaken,
       Contract!NewRow, Loaded, Empty

LEMMA FileStays ==
  ASSUME FileOK, UNCHANGED <<mem, disk, cur>>,
         \A v \in Writers : InFlight(v)' <=> InFlight(v),
         \A v \in Writers : InFlight(v) => calls'[v].stmt = calls[v].stmt,
         \A v \in Writers : pc'[v] = "rename" => tmp' = mem'
  PROVE  FileOK'
<1>1. (\A v \in Writers : ~InFlight(v)') => mem' = Loaded(disk)'
  BY SameFile DEF FileOK
<1>2. ASSUME NEW v \in Writers, InFlight(v)'
      PROVE  /\ Contract!Affects(calls[v].stmt)'
             /\ mem' = [Loaded(disk)' EXCEPT ![calls'[v].stmt.id] = Contract!NewRow(calls[v].stmt)']
             /\ cur'[v] = Loaded(disk)'[calls'[v].stmt.id]
  <2>1. InFlight(v) /\ calls'[v].stmt = calls[v].stmt
    BY <1>2
  <2>2. /\ Contract!Affects(calls[v].stmt)
        /\ mem = [Loaded(disk) EXCEPT ![calls[v].stmt.id] = Contract!NewRow(calls[v].stmt)]
        /\ cur[v] = Loaded(disk)[calls[v].stmt.id]
    BY <2>1 DEF FileOK
  <2> QED BY <2>1, <2>2, SameFile
<1> QED BY <1>1, <1>2 DEF FileOK

LEMMA InvokeKeeps ==
  ASSUME IInv, NEW w \in Writers, NEW s \in Statements, Invoke(w, s)
  PROVE  IInv'
<1>0. s \in Contract!Statement /\ s.id \in Ids
  BY StatementsTyped, StatementFields
<1>1. /\ pc' = [pc EXCEPT ![w] = "lock"] /\ pc[w] = "idle"
      /\ calls' = [calls EXCEPT ![w].stmt = s]
      /\ UNCHANGED <<mem, memos, holder, disk, tmp, cur>>
  BY DEF Invoke, Goto
<1>2. \A v \in Writers :
        /\ pc'[v] = IF v = w THEN "lock" ELSE pc[v]
        /\ calls'[v] = IF v = w THEN [stmt |-> s, reply |-> "none"] ELSE calls[v]
  BY <1>1 DEF IInv, TypeOK, CallsOK, Contract!NoCall
<1>3. TypeOK'
  BY <1>0, <1>1 DEF IInv, TypeOK
<1>4. CallsOK'
  BY <1>0, <1>2 DEF IInv, CallsOK, Contract!NoCall
<1>5. LockOK'
  BY <1>1, <1>2 DEF IInv, LockOK, InFlight
<1>6. FileOK'
  <2>1. \A v \in Writers : /\ InFlight(v)' <=> InFlight(v)
                           /\ InFlight(v) => calls'[v].stmt = calls[v].stmt
                           /\ pc'[v] = "rename" => pc[v] = "rename"
    BY <1>1, <1>2 DEF InFlight
  <2>2. \A v \in Writers : pc'[v] = "rename" => tmp' = mem'
    BY <1>1, <2>1 DEF IInv, FileOK
  <2> QED BY <1>1, <2>1, <2>2, FileStays DEF IInv
<1>7. FreshOK'
  <2>1. s.op = "create" => /\ mem[s.id] = NoInvoice
                           /\ \A v \in Writers : pc[v] # "idle" => calls[v].stmt.id # s.id
    BY DEF Invoke
  <2> QED BY <1>1, <1>2, <2>1 DEF IInv, FreshOK
<1>8. IndexMatchesMap' /\ KeysUnique(Loaded(disk))'
  BY <1>1 DEF IInv, IndexMatchesMap, KeysUnique, Loaded, Empty
<1> QED BY <1>3, <1>4, <1>5, <1>6, <1>7, <1>8 DEF IInv

LEMMA MutateKeeps ==
  ASSUME IInv, NEW w \in Writers, Mutate(w)
  PROVE  IInv'
<1> DEFINE s == calls[w].stmt
<1>0. pc[w] = "lock" /\ holder = Nobody /\ holder' = w /\ UNCHANGED <<disk, tmp>>
  BY DEF Mutate
<1>1. /\ s \in Contract!Statement
      /\ \A v \in Writers : ~InFlight(v) /\ pc[v] # "return"
      /\ mem = Loaded(disk)
      /\ Applicable(s) <=> Contract!Affects(s)
      /\ Updated(s) = Contract!NewRow(s)
  BY <1>0, UnderTheLock
<1>2. s.id \in Ids /\ mem \in File
  BY <1>1, StatementFields DEF IInv, TypeOK
<1>3. CASE ~Applicable(s)
  <2>1. /\ pc' = [pc EXCEPT ![w] = "return"] /\ calls' = [calls EXCEPT ![w].reply = "no"]
        /\ UNCHANGED <<mem, memos, cur>>
    BY <1>3 DEF Mutate, Decide, Goto
  <2>2. \A v \in Writers :
          /\ pc'[v] = IF v = w THEN "return" ELSE pc[v]
          /\ calls'[v].stmt = calls[v].stmt
          /\ v # w => calls'[v] = calls[v]
          /\ calls'[w].reply = "no"
    BY <2>1 DEF IInv, TypeOK
  <2>3. TypeOK'
    BY <1>0, <2>1 DEF IInv, TypeOK
  <2>4. CallsOK'
    BY <1>0, <2>2 DEF IInv, CallsOK
  <2>5. LockOK'
    BY <1>0, <1>1, <2>2 DEF LockOK, InFlight
  <2>6. FileOK'
    BY <1>0, <1>1, <2>1, <2>2 DEF FileOK, InFlight, Loaded
  <2>7. FreshOK'
    BY <1>0, <2>1, <2>2 DEF IInv, FreshOK
  <2>8. IndexMatchesMap' /\ KeysUnique(Loaded(disk))'
    BY <1>0, <2>1 DEF IInv, IndexMatchesMap, KeysUnique, Loaded, Empty
  <2> QED BY <2>3, <2>4, <2>5, <2>6, <2>7, <2>8 DEF IInv
<1>4. CASE Applicable(s)
  <2>0. Contract!Affects(s)
    BY <1>1, <1>4
  <2>1. /\ pc' = [pc EXCEPT ![w] = "open"] /\ UNCHANGED calls
        /\ mem' = [mem EXCEPT ![s.id] = Contract!NewRow(s)]
        /\ cur' = [cur EXCEPT ![w] = mem[s.id]]
        /\ memos' = IF s.op = "create" THEN [memos EXCEPT ![memoKey(s.row)] = s.id] ELSE memos
    BY <1>1, <1>4 DEF Mutate, Goto
  <2>2. \A v \in Writers : pc'[v] = IF v = w THEN "open" ELSE pc[v]
    BY <2>1 DEF IInv, TypeOK
  <2>3. \A i \in Ids : mem'[i] = IF i = s.id THEN Contract!NewRow(s) ELSE mem[i]
    BY <1>2, <2>1 DEF File
  <2>4. /\ Contract!NewRow(s) \in Contract!Invoice
        /\ s.op = "create" => mem[s.id] = NoInvoice /\ Contract!NewRow(s) = s.row
        /\ s.op # "create" => /\ mem[s.id] \in Contract!Invoice
                              /\ memoKey(Contract!NewRow(s)) = memoKey(mem[s.id])
    BY <1>1, <2>0, EffectiveRow DEF IInv
  <2>5. s.op = "create" => memoKey(s.row) \in Keys
    BY <1>1, StatementFields, KeyTyped
  <2>6. TypeOK'
    <3>1. mem' \in File
      BY <1>2, <2>1, <2>4 DEF File
    <3>2. memos' \in [Keys -> Ids \cup {Nobody}]
      BY <1>2, <2>1, <2>5 DEF IInv, TypeOK
    <3>3. cur' \in [Writers -> Contract!Invoice \cup {NoInvoice}]
      BY <1>2, <2>1 DEF IInv, TypeOK, File
    <3> QED BY <1>0, <2>1, <3>1, <3>2, <3>3 DEF IInv, TypeOK
  <2>7. CallsOK'
    BY <1>0, <2>1, <2>2 DEF IInv, CallsOK
  <2>8. LockOK'
    BY <1>0, <1>1, <2>2 DEF LockOK, InFlight
  <2>9. FileOK'
    <3>1. InFlight(w)' /\ \A v \in Writers : v # w => ~InFlight(v)' /\ pc'[v] # "rename"
      BY <1>1, <2>2 DEF InFlight
    <3>2. /\ Contract!Affects(calls[w].stmt)'
          /\ mem' = [Loaded(disk)' EXCEPT ![calls'[w].stmt.id] = Contract!NewRow(calls[w].stmt)']
          /\ cur'[w] = Loaded(disk)'[calls'[w].stmt.id]
      BY <1>0, <1>1, <2>0, <2>1, SameFile DEF IInv, TypeOK
    <3> QED BY <2>2, <3>1, <3>2 DEF FileOK
  <2>10. FreshOK'
    <3>1. \A v \in Writers : /\ pc'[v] = "lock" /\ calls'[v].stmt.op = "create"
                            => mem'[calls'[v].stmt.id] = NoInvoice
      <4> SUFFICES ASSUME NEW v \in Writers, pc'[v] = "lock", calls[v].stmt.op = "create"
                   PROVE  mem'[calls[v].stmt.id] = NoInvoice
        BY <2>1
      <4>1. v # w /\ pc[v] = "lock" /\ mem[calls[v].stmt.id] = NoInvoice
        BY <2>2 DEF IInv, FreshOK
      <4>2. calls[v].stmt.id \in Ids
        BY <4>1, StatementFields DEF IInv, CallsOK
      <4>3. calls[v].stmt.id # s.id
        BY <1>0, <2>4, <4>1, MemoryAssumption DEF IInv, FreshOK
      <4> QED BY <2>3, <4>1, <4>2, <4>3
    <3> QED BY <1>0, <2>1, <2>2, <3>1 DEF IInv, FreshOK
  <2>11. IndexMatchesMap'
    <3>1. CASE s.op = "create"
      <4> DEFINE k == memoKey(s.row)
      <4>1. \A key \in Keys : memos'[key] = IF key = k THEN s.id ELSE memos[key]
        BY <2>1, <2>5, <3>1 DEF IInv, TypeOK
      <4>2. memos[k] = Nobody
        BY <1>4, <3>1 DEF Applicable
      <4> HIDE DEF k
      <4>3. SUFFICES ASSUME NEW key \in Keys, NEW i \in Ids
                     PROVE  memos'[key] = i <=> mem'[i] # NoInvoice /\ memoKey(mem'[i]) = key
        BY DEF IndexMatchesMap
      <4>4. memos[key] = i <=> mem[i] # NoInvoice /\ memoKey(mem[i]) = key
        BY DEF IInv, IndexMatchesMap
      <4>5. CASE i = s.id
        BY <2>3, <2>4, <3>1, <4>1, <4>4, <4>5, MemoryAssumption DEF k
      <4>6. CASE i # s.id
        BY <2>3, <4>1, <4>2, <4>4, <4>6, MemoryAssumption
      <4> QED BY <4>5, <4>6
    <3>2. CASE s.op # "create"
      <4>1. \A i \in Ids : /\ mem'[i] # NoInvoice <=> mem[i] # NoInvoice
                           /\ memoKey(mem'[i]) = memoKey(mem[i])
        BY <2>3, <2>4, <3>2, MemoryAssumption
      <4> QED BY <2>1, <3>2, <4>1 DEF IInv, IndexMatchesMap
    <3> QED BY <3>1, <3>2
  <2>12. KeysUnique(Loaded(disk))'
    BY <1>0 DEF IInv, KeysUnique, Loaded, Empty
  <2> QED BY <2>6, <2>7, <2>8, <2>9, <2>10, <2>11, <2>12 DEF IInv
<1> QED BY <1>3, <1>4

\* The writer inside persist is the only one, and holds the lock.
LEMMA InsidePersist ==
  ASSUME IInv, NEW w \in Writers, InFlight(w)
  PROVE  LET s == calls[w].stmt
         IN  /\ s \in Contract!Statement /\ s.id \in Ids
             /\ calls[w].reply = "none"
             /\ holder = w
             /\ \A v \in Writers : v # w => ~InFlight(v) /\ pc[v] # "return"
             /\ Contract!Affects(s)
             /\ mem = [Loaded(disk) EXCEPT ![s.id] = Contract!NewRow(s)]
             /\ cur[w] = Loaded(disk)[s.id]
<1>1. calls[w].stmt \in Contract!Statement /\ calls[w].reply = "none"
  BY DEF IInv, CallsOK, InFlight, TypeOK
<1>2. holder = w /\ \A v \in Writers : v # w => ~InFlight(v) /\ pc[v] # "return"
  BY DEF IInv, LockOK
<1>3. LET s == calls[w].stmt
      IN  /\ Contract!Affects(s)
          /\ mem = [Loaded(disk) EXCEPT ![s.id] = Contract!NewRow(s)]
          /\ cur[w] = Loaded(disk)[s.id]
  BY DEF IInv, FileOK
<1> QED BY <1>1, <1>2, <1>3, StatementFields

\* The roll-back restores the map the file holds.
LEMMA RollBackRestores ==
  ASSUME IInv, NEW w \in Writers, InFlight(w), RollBack(w)
  PROVE  mem' = Loaded(disk)
<1> DEFINE s == calls[w].stmt
           old == Loaded(disk)
<1>1. /\ s \in Contract!Statement /\ s.id \in Ids /\ Contract!Affects(s)
      /\ mem = [old EXCEPT ![s.id] = Contract!NewRow(s)]
      /\ cur[w] = old[s.id]
  BY InsidePersist
<1>2. old \in File
  BY LoadedTyped DEF IInv
<1>3. s.op = "create" => old[s.id] = NoInvoice
  BY <1>1, EffectiveRow DEF IInv
<1>4. mem' = [mem EXCEPT ![s.id] = old[s.id]]
  BY <1>1, <1>3 DEF RollBack
<1>5. ASSUME NEW f \in File, NEW i \in Ids, NEW x
      PROVE  [[f EXCEPT ![i] = x] EXCEPT ![i] = f[i]] = f
  BY <1>5 DEF File
<1> QED BY <1>1, <1>2, <1>4, <1>5

LEMMA PersistFailsKeeps ==
  ASSUME IInv, NEW w \in Writers, PersistFails(w)
  PROVE  IInv'
<1> DEFINE s == calls[w].stmt
<1>0. /\ InFlight(w) /\ RollBack(w) /\ UNCHANGED <<holder, disk, tmp, cur>>
      /\ pc' = [pc EXCEPT ![w] = "return"] /\ calls' = [calls EXCEPT ![w].reply = "error"]
  BY DEF PersistFails, InFlight, Decide, Goto
<1>1. /\ s \in Contract!Statement /\ s.id \in Ids /\ Contract!Affects(s)
      /\ holder = w
      /\ \A v \in Writers : v # w => ~InFlight(v) /\ pc[v] # "return"
      /\ mem = [Loaded(disk) EXCEPT ![s.id] = Contract!NewRow(s)]
  BY <1>0, InsidePersist
<1>2. mem' = Loaded(disk)
  BY <1>0, RollBackRestores
<1>3. \A v \in Writers :
        /\ pc'[v] = IF v = w THEN "return" ELSE pc[v]
        /\ calls'[v].stmt = calls[v].stmt
        /\ v # w => calls'[v] = calls[v]
        /\ calls'[w].reply = "error"
  BY <1>0 DEF IInv, TypeOK
<1>4. Loaded(disk) \in File /\ Loaded(disk)' = Loaded(disk)
  BY <1>0, LoadedTyped, SameFile DEF IInv
<1>5. TypeOK'
  <2>1. memos' \in [Keys -> Ids \cup {Nobody}]
    BY <1>0 DEF RollBack, IInv, TypeOK
  <2> QED BY <1>0, <1>2, <1>4, <2>1 DEF IInv, TypeOK
<1>6. CallsOK'
  BY <1>0, <1>3 DEF IInv, CallsOK, InFlight
<1>7. LockOK'
  BY <1>0, <1>1, <1>3 DEF LockOK, InFlight
<1>8. FileOK'
  <2>1. \A v \in Writers : ~InFlight(v)' /\ pc'[v] # "rename"
    BY <1>1, <1>3 DEF InFlight
  <2> QED BY <1>2, <1>4, <2>1 DEF FileOK
<1>9. \A i \in Ids : mem[i] = IF i = s.id THEN Contract!NewRow(s) ELSE mem'[i]
  BY <1>1, <1>2, <1>4 DEF File
<1>10. /\ Contract!NewRow(s) \in Contract!Invoice
       /\ s.op = "create" => mem'[s.id] = NoInvoice /\ Contract!NewRow(s) = s.row
       /\ s.op # "create" => /\ mem'[s.id] \in Contract!Invoice
                             /\ memoKey(Contract!NewRow(s)) = memoKey(mem'[s.id])
  BY <1>1, <1>2, EffectiveRow DEF IInv
<1>11. FreshOK'
  <2>1. \A v \in Writers : /\ pc'[v] = "lock" /\ calls'[v].stmt.op = "create"
                          => mem'[calls'[v].stmt.id] = NoInvoice
    <3> SUFFICES ASSUME NEW v \in Writers, pc'[v] = "lock", calls[v].stmt.op = "create"
                 PROVE  mem'[calls[v].stmt.id] = NoInvoice
      BY <1>3
    <3>1. v # w /\ pc[v] = "lock" /\ mem[calls[v].stmt.id] = NoInvoice
      BY <1>3 DEF IInv, FreshOK
    <3>2. calls[v].stmt.id \in Ids
      BY <3>1, StatementFields DEF IInv, CallsOK
    <3> QED BY <1>9, <1>10, <3>1, <3>2, MemoryAssumption
  <2> QED BY <1>0, <1>3, <2>1 DEF IInv, FreshOK, InFlight
<1>12. IndexMatchesMap'
  <2>1. CASE s.op = "create"
    <3> DEFINE k == memoKey(s.row)
    <3>1. k \in Keys
      BY <1>1, <2>1, StatementFields, KeyTyped
    <3>2. \A key \in Keys : memos'[key] = IF key = k THEN Nobody ELSE memos[key]
      BY <1>0, <2>1, <3>1 DEF IInv, TypeOK, RollBack
    <3>3. mem[s.id] # NoInvoice /\ memoKey(mem[s.id]) = k
      BY <1>1, <1>9, <1>10, <2>1, MemoryAssumption
    <3>4. memos[k] = s.id
      BY <1>1, <3>1, <3>3 DEF IInv, IndexMatchesMap
    <3> HIDE DEF k
    <3>5. SUFFICES ASSUME NEW key \in Keys, NEW i \in Ids
                   PROVE  memos'[key] = i <=> mem'[i] # NoInvoice /\ memoKey(mem'[i]) = key
      BY DEF IndexMatchesMap
    <3>6. memos[key] = i <=> mem[i] # NoInvoice /\ memoKey(mem[i]) = key
      BY DEF IInv, IndexMatchesMap
    <3>7. CASE i = s.id
      BY <1>10, <2>1, <3>2, <3>3, <3>6, <3>7, MemoryAssumption
    <3>8. CASE i # s.id
      BY <1>9, <3>2, <3>4, <3>6, <3>8, MemoryAssumption
    <3> QED BY <3>7, <3>8
  <2>2. CASE s.op # "create"
    <3>1. \A i \in Ids : /\ mem'[i] # NoInvoice <=> mem[i] # NoInvoice
                         /\ memoKey(mem'[i]) = memoKey(mem[i])
      BY <1>9, <1>10, <2>2, MemoryAssumption
    <3>2. UNCHANGED memos
      BY <1>0, <2>2 DEF RollBack
    <3> QED BY <3>1, <3>2 DEF IInv, IndexMatchesMap
  <2> QED BY <2>1, <2>2
<1>13. KeysUnique(Loaded(disk))'
  BY <1>4 DEF IInv, KeysUnique
<1> QED BY <1>5, <1>6, <1>7, <1>8, <1>11, <1>12, <1>13 DEF IInv

LEMMA OpenWriteKeeps ==
  ASSUME IInv, NEW w \in Writers, Open(w) \/ Write(w)
  PROVE  IInv'
<1>0. /\ InFlight(w) /\ UNCHANGED <<mem, memos, holder, disk, cur, calls>>
      /\ tmp' \in {Torn, mem}
      /\ \E label \in {"write", "rename"} :
           pc' = [pc EXCEPT ![w] = label] /\ (label = "rename" => tmp' = mem)
  BY DEF Open, Write, InFlight, Goto
<1>1. \A v \in Writers :
        /\ v # w => pc'[v] = pc[v]
        /\ pc'[w] \in {"write", "rename"}
        /\ pc'[w] = "rename" => tmp' = mem
  BY <1>0 DEF IInv, TypeOK
<1>2. \A v \in Writers : v # w => ~InFlight(v)
  BY <1>0, InsidePersist
<1>3. TypeOK'
  BY <1>0 DEF IInv, TypeOK
<1>4. CallsOK' /\ LockOK'
  BY <1>0, <1>1 DEF IInv, CallsOK, LockOK, InFlight
<1>5. FileOK'
  <2>1. \A v \in Writers : /\ InFlight(v)' <=> InFlight(v)
                           /\ InFlight(v) => calls'[v].stmt = calls[v].stmt
                           /\ pc'[v] = "rename" => tmp' = mem'
    BY <1>0, <1>1, <1>2 DEF InFlight
  <2> QED BY <1>0, <2>1, FileStays DEF IInv
<1>6. FreshOK'
  BY <1>0, <1>1 DEF IInv, FreshOK, InFlight
<1>7. IndexMatchesMap' /\ KeysUnique(Loaded(disk))'
  BY <1>0, SameFile DEF IInv, IndexMatchesMap, KeysUnique
<1> QED BY <1>3, <1>4, <1>5, <1>6, <1>7 DEF IInv

LEMMA RenameKeeps ==
  ASSUME IInv, NEW w \in Writers, Rename(w)
  PROVE  IInv'
<1> DEFINE s == calls[w].stmt
<1>0. /\ pc[w] = "rename" /\ disk' = tmp /\ tmp' = NoFile
      /\ UNCHANGED <<mem, memos, holder, cur>>
      /\ pc' = [pc EXCEPT ![w] = "return"] /\ calls' = [calls EXCEPT ![w].reply = "ok"]
  BY DEF Rename, Decide, Goto
<1>1. /\ s \in Contract!Statement /\ Contract!Affects(s)
      /\ holder = w
      /\ \A v \in Writers : v # w => ~InFlight(v) /\ pc[v] # "return"
      /\ mem = [Loaded(disk) EXCEPT ![s.id] = Contract!NewRow(s)]
  BY <1>0, InsidePersist DEF InFlight
<1>2. disk' = mem /\ Loaded(disk)' = mem /\ mem \in File
  BY <1>0, MemoryAssumption DEF IInv, TypeOK, FileOK, Loaded
<1>3. \A v \in Writers :
        /\ pc'[v] = IF v = w THEN "return" ELSE pc[v]
        /\ calls'[v].stmt = calls[v].stmt
        /\ v # w => calls'[v] = calls[v]
        /\ calls'[w].reply = "ok"
  BY <1>0 DEF IInv, TypeOK
<1>4. TypeOK'
  BY <1>0, <1>2 DEF IInv, TypeOK
<1>5. CallsOK'
  BY <1>0, <1>3 DEF IInv, CallsOK
<1>6. LockOK'
  BY <1>0, <1>1, <1>3 DEF LockOK, InFlight
<1>7. FileOK'
  <2>1. \A v \in Writers : ~InFlight(v)' /\ pc'[v] # "rename"
    BY <1>1, <1>3 DEF InFlight
  <2> QED BY <1>0, <1>2, <2>1 DEF FileOK
<1>8. FreshOK'
  BY <1>0, <1>3 DEF IInv, FreshOK
<1>9. IndexMatchesMap'
  BY <1>0 DEF IInv, IndexMatchesMap
<1>10. KeysUnique(Loaded(disk))'
  <2>1. KeysUnique(mem)
    BY <1>1, EffectKeepsKeysUnique DEF IInv
  <2> QED BY <1>2, <2>1 DEF KeysUnique
<1> QED BY <1>4, <1>5, <1>6, <1>7, <1>8, <1>9, <1>10 DEF IInv

LEMMA ReturnKeeps ==
  ASSUME IInv, NEW w \in Writers, Return(w)
  PROVE  IInv'
<1>0. /\ pc[w] = "return" /\ holder' = Nobody /\ UNCHANGED <<mem, memos, disk, tmp, cur>>
      /\ pc' = [pc EXCEPT ![w] = "idle"] /\ calls' = [calls EXCEPT ![w] = Contract!NoCall]
  BY DEF Return, Goto
<1>1. \A v \in Writers : v # w => ~InFlight(v) /\ pc[v] # "return"
  BY <1>0 DEF IInv, LockOK
<1>2. \A v \in Writers : /\ pc'[v] = IF v = w THEN "idle" ELSE pc[v]
                         /\ calls'[v] = IF v = w THEN Contract!NoCall ELSE calls[v]
  BY <1>0 DEF IInv, TypeOK
<1>3. TypeOK'
  BY <1>0 DEF IInv, TypeOK, Contract!NoCall
<1>4. CallsOK'
  BY <1>2 DEF IInv, CallsOK
<1>5. LockOK'
  BY <1>0, <1>1, <1>2, MemoryAssumption DEF LockOK, InFlight
<1>6. FileOK'
  <2>1. \A v \in Writers : /\ InFlight(v)' <=> InFlight(v)
                           /\ InFlight(v) => calls'[v].stmt = calls[v].stmt
                           /\ pc'[v] = "rename" => InFlight(v)
    BY <1>0, <1>1, <1>2 DEF InFlight
  <2> QED BY <1>0, <1>1, <2>1, FileStays DEF IInv, InFlight
<1>7. FreshOK'
  BY <1>0, <1>2 DEF IInv, FreshOK
<1>8. IndexMatchesMap' /\ KeysUnique(Loaded(disk))'
  BY <1>0, SameFile DEF IInv, IndexMatchesMap, KeysUnique
<1> QED BY <1>3, <1>4, <1>5, <1>6, <1>7, <1>8 DEF IInv

\* load rebuilds the index of a file whose keys are distinct.
LEMMA IndexOfFile ==
  ASSUME NEW f \in File, KeysUnique(f)
  PROVE  /\ Index(f) \in [Keys -> Ids \cup {Nobody}]
         /\ \A key \in Keys, i \in Ids :
              Index(f)[key] = i <=> f[i] # NoInvoice /\ memoKey(f[i]) = key
<1> DEFINE Has(i, key) == f[i] # NoInvoice /\ memoKey(f[i]) = key
<1>1. \A key \in Keys :
        Index(f)[key] = IF \E i \in Ids : Has(i, key)
                        THEN CHOOSE i \in Ids : Has(i, key) ELSE Nobody
  BY DEF Index
<1>2. \A key \in Keys : (\E i \in Ids : Has(i, key)) =>
        LET c == CHOOSE i \in Ids : Has(i, key) IN c \in Ids /\ Has(c, key)
  OBVIOUS
<1>3. \A key \in Keys, i, j \in Ids : Has(i, key) /\ Has(j, key) => i = j
  BY DEF KeysUnique
<1>4. \A key \in Keys : Index(f)[key] \in Ids \cup {Nobody}
  BY <1>1, <1>2
<1>5. Index(f) \in [Keys -> Ids \cup {Nobody}]
  BY <1>4 DEF Index
<1>6. \A key \in Keys, i \in Ids : Index(f)[key] = i <=> Has(i, key)
  <2> HIDE DEF Has
  <2> QED BY <1>1, <1>2, <1>3, MemoryAssumption
<1> QED BY <1>5, <1>6

LEMMA RestartKeeps ==
  ASSUME IInv, Restart
  PROVE  IInv'
<1>0. /\ mem' = Loaded(disk) /\ memos' = Index(Loaded(disk)) /\ holder' = Nobody
      /\ pc' = [w \in Writers |-> "idle"] /\ cur' = [w \in Writers |-> NoInvoice]
      /\ calls' = [w \in Writers |-> Contract!NoCall]
      /\ UNCHANGED <<disk, tmp>>
  BY DEF Restart
<1>1. Loaded(disk) \in File /\ Loaded(disk)' = Loaded(disk) /\ KeysUnique(Loaded(disk))
  BY <1>0, LoadedTyped, SameFile DEF IInv
<1>2. TypeOK'
  <2>1. memos' \in [Keys -> Ids \cup {Nobody}]
    BY <1>0, <1>1, IndexOfFile
  <2> QED BY <1>0, <1>1, <2>1 DEF IInv, TypeOK, Contract!NoCall
<1>3. CallsOK' /\ LockOK' /\ FreshOK'
  BY <1>0, MemoryAssumption DEF CallsOK, LockOK, FreshOK, InFlight
<1>4. FileOK'
  BY <1>0, <1>1 DEF FileOK, InFlight
<1>5. IndexMatchesMap'
  BY <1>0, <1>1, IndexOfFile DEF IndexMatchesMap
<1>6. KeysUnique(Loaded(disk))'
  BY <1>1 DEF KeysUnique
<1> QED BY <1>2, <1>3, <1>4, <1>5, <1>6 DEF IInv

LEMMA IInvInductive == IInv /\ [Next]_vars => IInv'
<1> SUFFICES ASSUME IInv, [Next]_vars PROVE IInv'
  OBVIOUS
<1>1. ASSUME NEW w \in Writers, NEW s \in Statements, Invoke(w, s) PROVE IInv'
  BY <1>1, InvokeKeeps
<1>2. ASSUME NEW w \in Writers, Step(w) PROVE IInv'
  BY <1>2, MutateKeeps, PersistFailsKeeps, OpenWriteKeeps, RenameKeeps, ReturnKeeps DEF Step
<1>3. CASE Restart
  BY <1>3, RestartKeeps
<1>4. CASE UNCHANGED vars
  <2>1. UNCHANGED <<mem, memos, holder, disk, tmp, pc, cur, calls>>
    BY <1>4 DEF vars
  <2>2. \A v \in Writers : InFlight(v)' <=> InFlight(v)
    BY <2>1 DEF InFlight
  <2>3. FileOK'
    BY <2>1, <2>2, FileStays DEF IInv, FileOK
  <2>4. TypeOK' /\ CallsOK' /\ FreshOK' /\ IndexMatchesMap'
    BY <2>1 DEF IInv, TypeOK, CallsOK, FreshOK, IndexMatchesMap
  <2>5. LockOK'
    BY <2>1, <2>2 DEF IInv, LockOK
  <2>6. KeysUnique(Loaded(disk))'
    BY <2>1, SameFile DEF IInv, KeysUnique
  <2> QED BY <2>3, <2>4, <2>5, <2>6 DEF IInv
<1> QED BY <1>1, <1>2, <1>3, <1>4 DEF Next

LEMMA MemoryInvariant == Spec => []IInv
BY InitIInv, IInvInductive, PTL DEF Spec

-----------------------------------------------------------------------------
(* The properties.                                                         *)

\* The type invariant of the in-memory store: store.json is never torn and every
\* entry of the map, the index and the files is what memory.go means it to be.
THEOREM MemoryTypeCorrect == Spec => []TypeOK
<1>1. IInv => TypeOK
  BY DEF IInv
<1> QED BY <1>1, MemoryInvariant, PTL

\* Whenever the write lock is free the map is what a restart would load, whichever
\* step of persist failed before (memory.go's roll-backs).
THEOREM MemoryStaysDurable == Spec => []MemoryIsDurable
<1>1. IInv => MemoryIsDurable
  BY MemoryAssumption DEF IInv, LockOK, FileOK, MemoryIsDurable
<1> QED BY <1>1, MemoryInvariant, PTL

\* memoKey's index and the map agree in every state, roll-backs and restarts
\* included.
THEOREM IndexStaysExact == Spec => []IndexMatchesMap
<1>1. IInv => IndexMatchesMap
  BY DEF IInv
<1> QED BY <1>1, MemoryInvariant, PTL

-----------------------------------------------------------------------------
(* The refinement.  A call takes effect at the rename, which is the        *)
(* contract's Perform with "ok"; a refusal and a roll-back are Perform with*)
(* "no" and "error"; changing the map and writing the temporary file are   *)
(* steps nobody can see.                                                   *)

LEMMA ContractStep ==
  ASSUME IInv, [Next]_vars
  PROVE  [Contract!Next]_(Contract!contractVars)
<1>1. ASSUME NEW w \in Writers, NEW s \in Statements, Invoke(w, s)
      PROVE  Contract!Next
  <2>1. /\ pc[w] = "idle" /\ calls' = [calls EXCEPT ![w].stmt = s] /\ UNCHANGED disk
        /\ s \in Contract!Statement
    BY <1>1, StatementsTyped DEF Invoke
  <2>2. calls[w] = Contract!NoCall /\ calls'[w] = [stmt |-> s, reply |-> "none"]
    BY <2>1 DEF IInv, CallsOK, TypeOK, Contract!NoCall
  <2>3. calls' = [calls EXCEPT ![w] = calls'[w]]
    BY <2>1 DEF IInv, TypeOK
  <2>4. Contract!Invoke(w)
    BY <2>1, <2>2, <2>3, SameFile DEF Contract!Invoke, Contract!storeVars
  <2> QED BY <2>4 DEF Contract!Next
<1>2. ASSUME NEW w \in Writers, Mutate(w)
      PROVE  Contract!Next \/ UNCHANGED Contract!contractVars
  <2> DEFINE s == calls[w].stmt
  <2>1. pc[w] = "lock" /\ UNCHANGED disk /\ (Applicable(s) <=> Contract!Affects(s))
        /\ s \in Contract!Statement /\ calls[w].reply = "none"
    BY <1>2, UnderTheLock DEF Mutate, IInv, CallsOK, TypeOK
  <2>2. CASE Applicable(s)
    <3>1. UNCHANGED calls
      BY <1>2, <2>2 DEF Mutate
    <3> QED BY <2>1, <3>1, SameFile DEF Contract!contractVars
  <2>3. CASE ~Applicable(s)
    <3>1. calls' = [calls EXCEPT ![w].reply = "no"]
      BY <1>2, <2>3 DEF Mutate, Decide
    <3>2. calls[w] # Contract!NoCall
      BY <2>1, MemoryAssumption DEF Contract!NoCall
    <3>3. Contract!Perform(w, "no")
      BY <2>1, <2>3, <3>1, <3>2, SameFile
         DEF Contract!Perform, Contract!Call, Contract!storeVars
    <3> QED BY <3>3 DEF Contract!Next
  <2> QED BY <2>2, <2>3
<1>3. ASSUME NEW w \in Writers, PersistFails(w)
      PROVE  Contract!Next
  <2>1. InFlight(w) /\ UNCHANGED disk /\ calls' = [calls EXCEPT ![w].reply = "error"]
    BY <1>3 DEF PersistFails, InFlight, Decide
  <2>2. calls[w].stmt \in Contract!Statement /\ calls[w].reply = "none"
    BY <2>1, InsidePersist
  <2>3. calls[w] # Contract!NoCall
    BY <2>2, MemoryAssumption DEF Contract!NoCall
  <2>4. Contract!Perform(w, "error")
    BY <2>1, <2>2, <2>3, SameFile DEF Contract!Perform, Contract!Call, Contract!storeVars
  <2> QED BY <2>4 DEF Contract!Next
<1>4. ASSUME NEW w \in Writers, Open(w) \/ Write(w)
      PROVE  UNCHANGED Contract!contractVars
  BY <1>4, SameFile DEF Open, Write, Contract!contractVars
<1>5. ASSUME NEW w \in Writers, Rename(w)
      PROVE  Contract!Next
  <2> DEFINE s == calls[w].stmt
  <2>1. pc[w] = "rename" /\ disk' = tmp /\ calls' = [calls EXCEPT ![w].reply = "ok"]
    BY <1>5 DEF Rename, Decide
  <2>2. /\ s \in Contract!Statement /\ calls[w].reply = "none" /\ Contract!Affects(s)
        /\ mem = [Loaded(disk) EXCEPT ![s.id] = Contract!NewRow(s)]
    BY <2>1, InsidePersist DEF InFlight
  <2>3. Loaded(disk)' = mem
    BY <2>1, MemoryAssumption DEF IInv, FileOK, TypeOK, Loaded
  <2>4. calls[w] # Contract!NoCall
    BY <2>2, MemoryAssumption DEF Contract!NoCall
  <2>5. Contract!Apply(s)
    BY <2>2, <2>3 DEF Contract!Apply
  <2>6. Contract!Perform(w, "ok")
    BY <2>1, <2>2, <2>4, <2>5 DEF Contract!Perform, Contract!Call
  <2> QED BY <2>6 DEF Contract!Next
<1>6. ASSUME NEW w \in Writers, Return(w)
      PROVE  Contract!Next
  <2>1. /\ pc[w] = "return" /\ UNCHANGED disk
        /\ calls' = [calls EXCEPT ![w] = Contract!NoCall]
    BY <1>6 DEF Return
  <2>2. calls[w].reply # "none"
    BY <2>1 DEF IInv, CallsOK
  <2>3. Contract!Return(w)
    BY <2>1, <2>2, SameFile DEF Contract!Return, Contract!storeVars
  <2> QED BY <2>3 DEF Contract!Next
<1>7. CASE Restart
  <2>1. calls' = [w \in Writers |-> Contract!NoCall] /\ UNCHANGED disk
    BY <1>7 DEF Restart
  <2>2. Contract!Restart(Writers)
    BY <2>1, SameFile DEF Contract!Restart
  <2> QED BY <2>2 DEF Contract!Next
<1>8. CASE UNCHANGED vars
  BY <1>8, SameFile DEF vars, Contract!contractVars
<1> QED BY <1>1, <1>2, <1>3, <1>4, <1>5, <1>6, <1>7, <1>8 DEF Next, Step

\* The in-memory store implements StoreContract: each call takes effect at one
\* instant or not at all, the answer says which, and a restart forgets no invoice
\* that was acknowledged (CreateInvoice, ClaimInvoiceForSettlement and
\* ExpireInvoice with persist and load).
THEOREM MemoryImplementsContract == Spec => ContractSpec
<1>1. Init => Contract!Init
  BY DEF Init, Contract!Init, Contract!StoreInit, Loaded, Empty
<1>2. IInv /\ [Next]_vars => [Contract!Next]_(Contract!contractVars)
  BY ContractStep
<1> QED BY <1>1, <1>2, MemoryInvariant, PTL DEF Spec, ContractSpec, Contract!Spec
-----------------------------------------------------------------------------
(* What the contract's theorems say of this store.                         *)

Promise == INSTANCE StoreContractProofs WITH
  invoices <- Loaded(disk), orphans <- {}, Processes <- {Writers},
  Backend <- "memory", MaxOrphans <- 0

LEMMA PromiseAssumption ==
  /\ "memory" \in {"memory", "postgres"} /\ Amounts \subseteq Nat \ {0} /\ 0 \in Nat
  /\ NoInvoice \notin Promise!Invoice
BY MemoryAssumption DEF Promise!Invoice, Contract!Invoice

\* Both instances are of the same specification.
LEMMA SameStatement ==
  ASSUME NEW s
  PROVE  /\ Contract!Affects(s) <=> Promise!Affects(s)
         /\ Contract!Apply(s) <=> Promise!Apply(s)
         /\ Contract!OrphanCommits(s) <=> Promise!OrphanCommits(s)
         /\ \A reply : Contract!Call(s, reply) <=> Promise!Call(s, reply)
BY DEF Contract!Affects, Promise!Affects, Contract!Exists, Promise!Exists,
       Contract!HasStatus, Promise!HasStatus, Contract!MemoTaken, Promise!MemoTaken,
       Contract!Apply, Promise!Apply, Contract!NewRow, Promise!NewRow,
       Contract!AsPaid, Promise!AsPaid, Contract!AsExpired, Promise!AsExpired,
       Contract!OrphanCommits, Promise!OrphanCommits, Contract!Call, Promise!Call,
       Contract!storeVars, Promise!storeVars, Contract!Cardinality, Promise!Cardinality,
       Contract!IsFiniteSet, Promise!IsFiniteSet

LEMMA SameContract ==
  /\ Contract!Init <=> Promise!Init
  /\ [Contract!Next]_(Contract!contractVars) <=> [Promise!Next]_(Promise!contractVars)
  /\ Contract!WinnersKept <=> Promise!WinnersKept
<1>1. Contract!Init <=> Promise!Init
  BY DEF Contract!Init, Promise!Init, Contract!StoreInit, Promise!StoreInit,
         Contract!NoCall, Promise!NoCall
<1>2. [Contract!Next]_(Contract!contractVars) <=> [Promise!Next]_(Promise!contractVars)
  BY SameStatement
     DEF Contract!Next, Promise!Next, Contract!contractVars, Promise!contractVars,
         Contract!Invoke, Promise!Invoke, Contract!Perform, Promise!Perform,
         Contract!Return, Promise!Return, Contract!LateCommit, Promise!LateCommit,
         Contract!LoseReply, Promise!LoseReply, Contract!Restart, Promise!Restart,
         Contract!Undecided, Promise!Undecided, Contract!NoCall, Promise!NoCall,
         Contract!Statement, Promise!Statement, Contract!Invoice, Promise!Invoice,
         Contract!storeVars, Promise!storeVars, Contract!Cardinality, Promise!Cardinality,
         Contract!IsFiniteSet, Promise!IsFiniteSet
<1>3. Contract!WinnersKept <=> Promise!WinnersKept
  BY DEF Contract!WinnersKept, Promise!WinnersKept, Contract!Won, Promise!Won,
         Contract!Recorded, Promise!Recorded, Contract!Terms, Promise!Terms
<1> QED BY <1>1, <1>2, <1>3

LEMMA PromiseHolds == ContractSpec => Promise!Spec
BY SameContract, PTL DEF ContractSpec, Contract!Spec, Promise!Spec

\* What a caller of the in-memory store was told it did is in the file, and nobody
\* else was told the same.
THEOREM MemoryKeepsWinners == Spec => []AcknowledgedIsDurable
<1>1. Promise!Spec => []Promise!WinnersKept
  BY Promise!ContractKeepsWinners, PromiseAssumption, PTL
<1>2. Promise!WinnersKept => AcknowledgedIsDurable
  BY SameContract DEF AcknowledgedIsDurable
<1> QED BY <1>1, <1>2, PromiseHolds, MemoryImplementsContract, PTL

\* The file never loses an invoice nor takes back a payment or an expiry.
THEOREM MemoryKeepsRows == Spec => DurableIsFinal
<1>1. Promise!Spec => Promise!RowsFinal
  BY Promise!ContractKeepsRows, PromiseAssumption, PTL
<1>2. Promise!RowsFinal <=> DurableIsFinal
  BY PTL DEF DurableIsFinal, Promise!RowsFinal, Contract!RowsFinal, Promise!Exists,
             Contract!Exists, Promise!Terms, Contract!Terms, Promise!contractVars,
             Contract!contractVars
<1> QED BY <1>1, <1>2, PromiseHolds, MemoryImplementsContract, PTL
=============================================================================
