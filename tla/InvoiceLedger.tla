---------------------------- MODULE InvoiceLedger -----------------------------
(***************************************************************************)
(* What the service promises its users, without callers, locks, stores or  *)
(* a chain: an invoice is issued once, leaves "pending" at most once, is   *)
(* settled by a transaction that settles nothing else, and its settlement  *)
(* is announced at most once, with exactly the invoice that was settled.   *)
(* SECURITY.md ("Fail-closed verification", "What actually protects a      *)
(* payment") and the comments on the Store interface state these promises. *)
(***************************************************************************)
EXTENDS Sequences

CONSTANTS Ids, NoInvoice

VARIABLES
  ledger,      \* id -> invoice, or NoInvoice
  announced    \* id -> the announcements made, in order

ledgerVars == <<ledger, announced>>

Init ==
  /\ ledger = [i \in Ids |-> NoInvoice]
  /\ announced = [i \in Ids |-> << >>]

Is(i, status) == ledger[i] # NoInvoice /\ ledger[i].status = status

\* Nothing but the entry of i changes.
Touches(i) == ledger' = [ledger EXCEPT ![i] = ledger'[i]] /\ UNCHANGED announced

Issue(i) ==
  /\ ledger[i] = NoInvoice
  /\ Touches(i)
  /\ Is(i, "pending")'

\* Terms are kept; the settling transaction is recorded and was unspent.
Settle(i) ==
  /\ Is(i, "pending")
  /\ Touches(i)
  /\ ledger'[i] = [ledger[i] EXCEPT !.status = "paid", !.txHash = ledger'[i].txHash,
                                    !.paidAt = ledger'[i].paidAt]
  /\ \A j \in Ids \ {i} : Is(j, "paid") => ledger[j].txHash # ledger'[i].txHash

Expire(i) ==
  /\ Is(i, "pending")
  /\ Touches(i)
  /\ ledger'[i] = [ledger[i] EXCEPT !.status = "expired"]

Announce(i) ==
  /\ Is(i, "paid")
  /\ announced[i] = << >>
  /\ announced' = [announced EXCEPT ![i] = <<ledger[i]>>]
  /\ UNCHANGED ledger

Next == \E i \in Ids : Issue(i) \/ Settle(i) \/ Expire(i) \/ Announce(i)

Spec == Init /\ [][Next]_ledgerVars
=============================================================================
