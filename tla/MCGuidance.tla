----------------------------- MODULE MCGuidance -----------------------------
(* Guidance for TLC: the two kinds of behaviour explored. *)
EXTENDS Guidance, TLC

Symmetry == Permutations(Req) \cup Permutations(Browsers)

\* The wizard and its card, or the tours: no step reads the tours and another row.  Once
\* there is something to read the pages start one at a time.  Two pages' decisions, a
\* fault and the second step each come alone.
Used == {k \in Keys : row[k].there} \cup {req[q].key : q \in {r \in Req : ~At(r, "free")}}
Decided == {flag[b] : b \in Browsers} \cup {row["onboarding"].outcome}
           \cup {req[q].body.outcome : q \in Req}
Reached == {row["onboarding"].step} \cup {req[q].body.step : q \in Req}
Apart ==
  /\ Used \subseteq {"tours"} \/ "tours" \notin Used
  /\ Used # {} => Cardinality({b \in Browsers : ~InPage(b, "open")}) <= 1
  /\ "skipped" \in Decided => "completed" \in Decided
  /\ Cardinality({x \in {"two", "fault", "step"} :
                    CASE x = "two"   -> \A b \in Browsers : made[b]
                      [] x = "fault" -> faults > 0
                      [] x = "step"  -> \E step \in Reached : step > 1}) <= 1
  /\ "skipped" \in Decided => \A b \in Browsers : made[b]

\* The wizard and its card alone, for the run that follows behaviours to their end.
SetupSpec == Init /\ [][Next /\ "tours" \notin Used']_guideVars /\ Fairness
=============================================================================
