------------------------------ MODULE MCImports ------------------------------
(* Imports for TLC: the statements, and which imports meet which. *)
EXTENDS Imports, TLC

CONSTANTS l1, l2, n1, n2

OneName == (l1 :> n1) @@ (l2 :> n1)
Statement(i, k) == (l1 :> i) @@ (l2 :> k)
\* A line twice; and a later statement that overlaps it.
Two == {Statement(2, 0), Statement(1, 1)}
One == {Statement(1, 0)}

Symmetry == Permutations(Job)

\* Bounds: alone, one import after another, with an account renamed or a transaction
\* entered in between; otherwise two imports of one statement, or undos, at once.
Typed == HowMany({0}, Line, Acct0)
Within ==
  /\ \A t \in Tag : logs[t] <= 1
  /\ IF alone
     THEN /\ \A j, k \in Job : j = k \/ At(j, "idle") \/ At(k, "idle")
          /\ \A j \in Job : /\ job[j].src # "mail"
                            /\ job[j].src = "page" => job[j].sheet # Statement(1, 1)
                            /\ job[j].src = "api" => job[j].offers
                            /\ job[j].src = "sync" => job[j].sheet # Statement(2, 0)
          /\ rows[0][l2] = [a \in Acct0 |-> 0]
          /\ (Called(n2) = {} \/ Called(n1) = {})
          /\ Typed + Cardinality(Accounts) <= 2
     ELSE \A j \in Job : job[j].sheet \in {Blank, Statement(1, 1)}
                        /\ (job[j].offers => crashes = 0)
ImportsSpec == Init /\ [][Next /\ (alone \/ ~Edit) /\ OwnIds' /\ Within']_vars

\* Undos that stop between their calls; imports that do not.
UndoStops ==
  crashes' # crashes => \E j \in Job : job[j].pc \in {"recount", "balance", "unlog"}
                                       /\ job[j].src \in Undos
UndoSpec == Init /\ alone = TRUE /\ [][Next /\ UndoStops]_vars
=============================================================================
