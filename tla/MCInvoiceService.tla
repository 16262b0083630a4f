--------------------------- MODULE MCInvoiceService ---------------------------
(***************************************************************************)
(* Values for TLC's instances of InvoiceService.                           *)
(***************************************************************************)
EXTENDS InvoiceService, TLC

CONSTANTS i1, i2, i3, m1, m2, uq, eq, uqOther, c1, c2, k1, k2, n1, n2, acct, other

\* One spelling per account, and two spellings (UQ and EQ) of one account.
OneAccount    == uq :> acct
TwoAccounts   == (uq :> acct) @@ (uqOther :> other)
TwoSpellings  == (uq :> acct) @@ (eq :> acct)

\* One server process, or two processes with a caller in each.
OneInstance   == [g \in Callers \cup Creators |-> n1]
TwoInstances  == [g \in Callers \cup Creators |-> IF g = c2 THEN n2 ELSE n1]

\* A valid lifetime and one that the default replaces.
Lifetimes     == {1, -2}

\* Ids, memos and (within one instance) callers are interchangeable.
IdsAndMemos   == Permutations(Ids) \cup Permutations(Memos)
CallersToo    == IdsAndMemos \cup Permutations(Callers)

\* So are two accounts, each together with its address.
Swap          == (uq :> uqOther) @@ (uqOther :> uq) @@ (acct :> other) @@ (other :> acct)
AccountsToo   == CallersToo \cup {Swap}
EverythingToo == AccountsToo \cup Permutations(Creators)
=============================================================================
