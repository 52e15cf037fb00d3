----------------------------- MODULE MCBilling -----------------------------
(* Billing for TLC: worlds, and the bounds within each of them. *)
EXTENDS Billing, TLC

\* Deliveries at once, in any order, with calls that fail.
Race == [sameSecond |-> FALSE, inOrder |-> FALSE, faults |-> FALSE, overlap |-> TRUE,
         alone |-> FALSE]
FaultyRace == [Race EXCEPT !.sameSecond = TRUE, !.faults = TRUE]
\* One delivery at a time.
Faulty == [Race EXCEPT !.faults = TRUE, !.alone = TRUE]
Orderly == [Race EXCEPT !.sameSecond = TRUE, !.inOrder = TRUE, !.alone = TRUE]
Separate == [Race EXCEPT !.overlap = FALSE, !.alone = TRUE]

All == {Race, FaultyRace, Faulty, Orderly, Separate}
Plain == {Race}
Trouble == {[Race EXCEPT !.faults = TRUE]}

Symmetry == Permutations(Subs) \cup Permutations(Customers) \cup Permutations(Tiers)
            \cup Permutations(Handlers) \cup Permutations(Checkouts)

\* Customers and tiers in use, and checkouts begun.
Buyers == {subscription[s].cust : s \in Subs} \ {NoCust}
Asked == {k \in Checkouts : checkout[k].pc # "idle"}
Chosen == {checkout[k].tier : k \in Checkouts}

\* Bounds of each world, next to those of the cfg.
Single ==
  /\ Cardinality((Buyers \cup {users.customer} \cup {checkout[k].cust : k \in Checkouts})
                 \ {NoCust}) <= 1
  /\ Cardinality(Chosen \cup {subscription[s].tier : s \in Subs}) = 1
  /\ \A s \in Subs : subscription[s].period <= 1
Within ==
  \/ world = Race /\ crashes = 0 /\ Single
  \/ world = FaultyRace /\ emitted <= 4 /\ Cardinality(Asked) <= 1 /\ Single
  \/ world = Faulty /\ emitted <= 5 /\ Cardinality(Buyers) <= 1 /\ Cardinality(Chosen) = 1
  \/ world = Orderly /\ crashes = 0 /\ Cardinality(Buyers) <= 1
  \/ world = Separate /\ crashes = 0 /\ Cardinality(Chosen) = 1
=============================================================================
