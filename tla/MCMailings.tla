----------------------------- MODULE MCMailings -----------------------------
(* Mailings for TLC: days, and how much the people do. *)
EXTENDS Mailings, TLC

\* Days shortened: day 2 is the first after, day 7 the second.
Days == ("day2" :> {1}) @@ ("day7" :> {2})
Halves == [d \in 0..MaxDay |-> d \div 2]
Symmetry == Permutations(Run)

\* Which mails a behaviour has had, and the three kinds of behaviour explored: the week-one
\* mails under every switch; reminders that overlap; and an account that moves meanwhile, to
\* another address and back.
Kinded == {run[r].kind : r \in {q \in Run : run[q].pc # "idle"}}
          \cup {slot[2][1] : slot \in slots} \cup {x[2][1] : x \in {y \in DOMAIN sent : sent[y] > 0}}
Switched(u) == {s \in {"off", "weekOff", "imported"} : people[u][s]} \cup
               {s \in {"wants"} : ~people[u][s]}
Still(u) == people[u].moves = 0 /\ Switched(u) = {}
Only == \A u \in User \ {1} : people[u].day0 = Unconfirmed /\ Still(u)
Week(kinds) ==
  /\ kinds \subseteq WeekOne
  /\ people[1].moves = 0 /\ Cardinality(Switched(1) \ {"imported"}) <= 1
  /\ today = MaxDay => Switched(1) \subseteq {"imported"}
  /\ \A u \in User \ {1} : Still(u)
Overlap(kinds) ==
  /\ kinds \subseteq {"bills", "report"} /\ today <= 1
  /\ Only /\ Still(1)
Moving(kinds) ==
  /\ kinds \subseteq {"bills", "preview"} /\ today = 0
  /\ Only /\ Switched(1) = {}
  /\ people[1].addr = people[1].moves % 2 /\ Cardinality(stops) <= 2
Within ==
  /\ \A x \in DOMAIN sent : sent[x] + unsure[x] <= 3
  /\ LET kinds == Kinded IN Week(kinds) \/ Overlap(kinds) \/ Moving(kinds)
=============================================================================
