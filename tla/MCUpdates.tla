----------------------------- MODULE MCUpdates -----------------------------
(* Updates for TLC: one tab among three builds, with room for the caches; one  *)
(* without room, or two tabs, between two.                                        *)
EXTENDS Updates, TLC

\* What the surroundings do, and no step under fairness, is what this holds back.
Seen == {origin, worker.active, worker.waiting, worker.installing}
        \cup {tab[t].build : t \in Tabs}
First == CHOOSE t \in Tabs : TRUE
Crowd == \E t \in Tabs \ {First} : ~PageAt(t, "closed")
Within ==
  /\ Crowd => used.outages = 0 /\ used.deploys < MaxDeploys
  /\ Crowd \/ ~network.room \/ used.outages > 0 => \A b \in Seen : b <= 2
MCSpec == UpdateInit /\ [][UpdateNext /\ Within']_updateVars /\ UpdateFairness
=============================================================================
