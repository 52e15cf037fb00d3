----------------------------- MODULE MCTwoFactor -----------------------------
(* TwoFactor for TLC: crowded behaviours, with two requests at a time that may  *)
(* die, next to those of one request after another.                             *)
EXTENDS TwoFactor, FiniteSets, TLC

\* Bounds of the crowded behaviours, next to those of the cfg.
Few ==
  /\ Cardinality(sessions) <= 1 /\ now <= 1 /\ version <= 1
  /\ \A c \in AppCodes : c.step > 1 => spent[c] = 0

MCSpec == Init /\ [][Next /\ (alone \/ Few')]_vars
RaceSpec == Init /\ alone = FALSE /\ [][Next]_vars

\* Requests and session ids are interchangeable; so are the codes of a sheet.
Symmetry == Permutations(Req) \cup Permutations(Sid) \cup Permutations(Sheet)
==============================================================================
