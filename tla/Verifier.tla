------------------------------- MODULE Verifier -------------------------------
(***************************************************************************)
(* internal/wallet/ton.go: deciding from the toncenter response for an     *)
(* invoice's receiving address whether, and by which transaction, it was   *)
(* paid.  The ledger is a sequence of incoming transactions, oldest first; *)
(* a transaction's hash is its position.  An entry records                 *)
(*   to     the account that received it (toncenter's query scope),        *)
(*   dest   the destination string toncenter reports, or NoDest,           *)
(*   memo   the comment,                                                   *)
(*   value  nanoTON; 0 stands for a value strconv.ParseInt rejects, which  *)
(*          like 0 reaches no positive amount,                             *)
(*   utime  the block time, 0 when the response carries none.              *)
(***************************************************************************)
EXTENDS Naturals, Sequences, FiniteSets

CONSTANTS
  AccountOf,   \* address string -> account it names, or Unparsed
  Unparsed,    \* tonaddr.Parse failed
  NoDest,      \* in_msg.destination is empty
  Skew,        \* the one-hour allowance for clock differences
  Limit        \* getTransactions' limit=30

ASSUME VerifierAssumption == Skew \in Nat /\ Limit \in Nat \ {0}

\* toncenter's getTransactions: the newest Limit transactions of the account.
Response(ledger, account) ==
  {k \in DOMAIN ledger :
     /\ ledger[k].to = account
     /\ Cardinality({n \in DOMAIN ledger : n > k /\ ledger[n].to = account}) < Limit}

\* Mutants: the loop without its memo test, and without its amount test.
CreditsAnyMemo(inv, e)   == AccountOf[e.dest] = AccountOf[inv.payTo] /\ e.value >= inv.amount
CreditsAnyAmount(inv, e) == AccountOf[e.dest] = AccountOf[inv.payTo] /\ e.memo = inv.memo

\* The body of Verify's loop: does this entry pay this invoice?
Credits(inv, e) ==
  /\ e.memo = inv.memo
  /\ e.utime = 0 \/ e.utime + Skew >= inv.createdAt
  /\ \/ AccountOf[inv.payTo] = Unparsed
     \/ e.dest = NoDest
     \/ AccountOf[e.dest] = AccountOf[inv.payTo]
  /\ e.value >= inv.amount

Matches(inv, ledger) ==
  {k \in Response(ledger, AccountOf[inv.payTo]) : Credits(inv, ledger[k])}

\* Verify returns the first match of a response that lists the newest first.
FirstMatch(inv, ledger, k) ==
  k \in Matches(inv, ledger) /\ \A n \in Matches(inv, ledger) : n <= k
=============================================================================
