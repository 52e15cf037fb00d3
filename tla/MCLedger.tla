------------------------------- MODULE MCLedger ------------------------------
(* Ledger for TLC: what is created, and which requests meet which. *)
EXTENDS Ledger, TLC

CONSTANTS p1, p2, a1, a2

MCOwner == (a1 :> p1) @@ (a2 :> p1)
Tx(type, value, from, to) ==
  [type |-> type, value |-> value, from |-> from, to |-> to, profile |-> p1]
Rent == Tx("expense", 2, a1, None)
Power == Tx("expense", 3, a1, None)
Saving == Tx("transfer", 1, a1, a2)
Bought == Tx("expense", 1, a1, None)
Earned == Tx("income", 4, a2, None)
\* An income to the account its category is named like, no account of its own.
Received == Tx("income", 1, None, a1)

Named3 == {Bought, Saving, Earned}
\* Incomes with and without an account, and with both.
Odd == {Received, Tx("income", 2, a1, a2)}
Every == Named3 \cup Odd
Five == {5}

Symmetry == Permutations(Req)

Written == {reqs[r].entry : r \in Req} \ {Missing}
Within ==
  CASE tour = "together"   -> Written \subseteq {Bought, Saving}
    [] tour = "one by one" -> Written \subseteq {Saving, Earned}
    [] tour = "drift"      -> Written \subseteq Odd

\* The tours of Ledger, with fewer rows to write.
LedgerTours == TourInit /\ [][TourNext /\ Within']_<<vars, tour>>
==============================================================================
