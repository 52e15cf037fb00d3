---------------------------- MODULE LedgerProofs -----------------------------
(* What holds of Ledger for any accounts, amounts, requests and bounds: that a  *)
(* period of a bill or a rule posts one transaction; where incomes have their   *)
(* accounts, that a transaction moves each balance by its effect and once, so   *)
(* that balances agree with the ledger; and that a recompute repairs them.      *)
EXTENDS Ledger, FiniteSetTheorems, TLAPS

LEMMA ReqsUpdated ==
  ASSUME reqs = [r \in Req |-> reqs[r]], NEW r \in Req, NEW rec, Put(r, rec)
  PROVE  /\ reqs' = [s \in Req |-> reqs'[s]]
         /\ reqs'[r] = rec
         /\ \A s \in Req : s # r => reqs'[s] = reqs[s]
  BY DEF Put
-----------------------------------------------------------------------------
(* A period is filed once                                                      *)

\* Nothing is posted for a period that is still to come, of the rule or the bill.
FiledInv ==
  /\ next \in Nat /\ paid \in Nat
  /\ filed \in [{"rule", "bill"} -> [Period -> Nat]]
  /\ \A p \in Period : p >= next => filed["rule"][p] = 0
  /\ \A p \in Period : p > paid => filed["bill"][p] = 0
  /\ FiledOnce

\* The periods requests work for are periods.
PeriodInv ==
  /\ reqs = [r \in Req |-> reqs[r]]
  /\ today \in Nat /\ next \in Nat
  /\ \A r \in Req : reqs[r].period \in Nat

LEMMA PutPeriod ==
  ASSUME PeriodInv, UNCHANGED <<today, next>>, NEW r \in Req, NEW rec, Put(r, rec),
         rec.period \in Nat
  PROVE  PeriodInv'
  BY ReqsUpdated DEF PeriodInv

LEMMA EndPeriod ==
  ASSUME PeriodInv, UNCHANGED <<today, next>>, NEW r \in Req, End(r)
  PROVE  PeriodInv'
  BY PutPeriod DEF End, Idle

LEMMA PeriodStep == PeriodInv /\ [Next]_vars => PeriodInv'
<1> SUFFICES ASSUME PeriodInv, [Next]_vars
             PROVE  PeriodInv'
  OBVIOUS
<1> USE DEF Due, Accounts, History
<1>1. ASSUME NEW r \in Req, RowStep(r)
      PROVE  PeriodInv'
  <2>1. CASE CreateCheck(r)
    BY <2>1, PutPeriod DEF CreateCheck, Idle
  <2>2. CASE EditRead(r)
    BY <2>2, PutPeriod DEF EditRead, Idle
  <2>3. CASE DeleteRead(r)
    BY <2>3, PutPeriod DEF DeleteRead, Idle
  <2>4. CASE Create(r) \/ Edit(r) \/ Delete(r)
    BY <2>4, EndPeriod DEF Create, Edit, Delete
  <2> QED BY <1>1, <2>1, <2>2, <2>3, <2>4 DEF RowStep
<1>2. ASSUME NEW r \in Req, DueStep(r)
      PROVE  PeriodInv'
  <2>1. CASE PopulateRead(r)
    BY <2>1, PutPeriod DEF PopulateRead, Idle, PeriodInv
  <2>2. CASE PayRead(r)
    BY <2>2, PutPeriod DEF PayRead, Idle, PeriodInv
  <2>3. CASE Populate(r)
    <3>1. /\ reqs' = [s \in Req |-> reqs'[s]] /\ reqs'[r] = Idle
          /\ \A s \in Req : s # r => reqs'[s] = reqs[s]
      BY <2>3, ReqsUpdated DEF Populate, End, PeriodInv
    <3>2. today' = today /\ next' \in Nat
      BY <2>3 DEF Populate, PeriodInv
    <3> QED BY <3>1, <3>2 DEF PeriodInv, Idle
  <2>4. CASE Pay(r)
    BY <2>4, EndPeriod DEF Pay
  <2> QED BY <1>2, <2>1, <2>2, <2>3, <2>4 DEF DueStep
<1>3. ASSUME NEW r \in Req, BulkStep(r)
      PROVE  PeriodInv'
  <2>1. CASE BulkRead(r)
    BY <2>1, PutPeriod DEF BulkRead, Idle
  <2>2. CASE BulkDelete(r) \/ BulkType(r)
    BY <2>2, EndPeriod DEF BulkDelete, BulkType
  <2> QED BY <1>3, <2>1, <2>2 DEF BulkStep
<1>4. ASSUME NEW r \in Req, AccountStep(r)
      PROVE  PeriodInv'
  <2>1. ASSUME NEW a \in Acct, OpenAccount(r, a)
        PROVE  PeriodInv'
    BY <2>1 DEF OpenAccount, PeriodInv
  <2>2. ASSUME NEW a \in Acct, CloseCheck(r, a)
        PROVE  PeriodInv'
    BY <2>2, PutPeriod DEF CloseCheck, Idle
  <2>3. CASE Close(r)
    BY <2>3, EndPeriod DEF Close
  <2> QED BY <1>4, <2>1, <2>2, <2>3 DEF AccountStep
<1>5. ASSUME NEW r \in Req, FormStep(r)
      PROVE  PeriodInv'
  <2>1. ASSUME NEW a \in Acct, OpenForm(r, a)
        PROVE  PeriodInv'
    BY <2>1, PutPeriod DEF OpenForm, Idle
  <2>2. CASE SaveForm(r)
    BY <2>2, EndPeriod DEF SaveForm
  <2> QED BY <1>5, <2>1, <2>2 DEF FormStep
<1>6. ASSUME NEW r \in Req, RecomputeStep(r)
      PROVE  PeriodInv'
  <2>1. CASE RecomputeBegin(r)
    BY <2>1, PutPeriod DEF RecomputeBegin, Idle
  <2>2. CASE RecomputeRead(r)
    <3>1. PICK part \in reqs[r].left :
            Put(r, [reqs[r] EXCEPT !.left = @ \ {part},
                                   !.sum = [a \in Acct |-> @[a] + Part(part, a)]])
      BY <2>2 DEF RecomputeRead
    <3> DEFINE rec == [reqs[r] EXCEPT !.left = @ \ {part},
                                      !.sum = [a \in Acct |-> @[a] + Part(part, a)]]
    <3>2. rec.period \in Nat
      BY DEF PeriodInv
    <3>3. Put(r, rec) /\ UNCHANGED <<today, next>>
      BY <2>2, <3>1 DEF RecomputeRead
    <3> HIDE DEF rec
    <3> QED BY <3>2, <3>3, PutPeriod
  <2>3. CASE Recompute(r)
    BY <2>3, EndPeriod DEF Recompute
  <2> QED BY <1>6, <2>1, <2>2, <2>3 DEF RecomputeStep
<1>7. ASSUME NEW r \in Req, NEW p \in Profile, NEW s, ClearAll(r, p, s)
      PROVE  PeriodInv'
  BY <1>7 DEF ClearAll, PeriodInv
<1>8. CASE Tick
  BY <1>8 DEF Tick, PeriodInv
<1>9. CASE UNCHANGED vars
  BY <1>9 DEF vars, PeriodInv
<1> QED
  BY <1>1, <1>2, <1>3, <1>4, <1>5, <1>6, <1>7, <1>8, <1>9
  DEF Next, Guarded, ClearOne, ClearSelected

\* Only posting for a period touches what was posted.
LEMMA NothingFiled ==
  [Next]_vars => \/ UNCHANGED <<next, paid, filed>>
                 \/ \E r \in Req : Populate(r) \/ Pay(r)
  BY DEF Next, Guarded, RowStep, DueStep, BulkStep, AccountStep, FormStep, RecomputeStep,
         ClearOne, ClearSelected, CreateCheck, Create, EditRead, Edit, DeleteRead, Delete,
         PopulateRead, PayRead, BulkRead, BulkDelete, BulkType, ClearAll, OpenAccount,
         CloseCheck, Close, OpenForm, SaveForm, RecomputeBegin, RecomputeRead, Recompute,
         Tick, Due, History, vars

LEMMA FileOne ==
  ASSUME filed \in [{"rule", "bill"} -> [Period -> Nat]],
         NEW kind \in {"rule", "bill"}, NEW n \in Nat, File(kind, n)
  PROVE  /\ filed' \in [{"rule", "bill"} -> [Period -> Nat]]
         /\ n \in Period => filed'[kind][n] = filed[kind][n] + 1
         /\ \A k \in {"rule", "bill"}, p \in Period :
              k # kind \/ p # n => filed'[k][p] = filed[k][p]
<1> DEFINE f == [filed[kind] EXCEPT ![n] = @ + 1]
<1>1. filed' = [filed EXCEPT ![kind] = f]
  BY DEF File
<1>2. filed[kind] \in [Period -> Nat]
  OBVIOUS
<1>3. f \in [Period -> Nat]
  <2>1. f = [p \in Period |-> IF p = n THEN filed[kind][n] + 1 ELSE filed[kind][p]]
    BY <1>2
  <2>2. \A p \in Period : (IF p = n THEN filed[kind][n] + 1 ELSE filed[kind][p]) \in Nat
    BY <1>2
  <2> QED BY <2>1, <2>2
<1>4. n \in Period => f[n] = filed[kind][n] + 1
  BY <1>2
<1>5. \A p \in Period : p # n => f[p] = filed[kind][p]
  BY <1>2
<1> HIDE DEF f
<1>6. filed'[kind] = f /\ \A k \in {"rule", "bill"} : k # kind => filed'[k] = filed[k]
  BY <1>1
<1>7. filed' \in [{"rule", "bill"} -> [Period -> Nat]]
  BY <1>1, <1>3
<1> QED BY <1>4, <1>5, <1>6, <1>7

LEMMA FiledStep == PeriodInv /\ FiledInv /\ [Next]_vars => FiledInv'
<1> SUFFICES ASSUME PeriodInv, FiledInv, [Next]_vars
             PROVE  FiledInv'
  OBVIOUS
<1>1. CASE UNCHANGED <<next, paid, filed>>
  BY <1>1 DEF FiledInv, FiledOnce
<1>2. ASSUME NEW r \in Req, Populate(r)
      PROVE  FiledInv'
  <2>1. CASE next = reqs[r].period
    <3>1. next' = next + 1 /\ paid' = paid /\ File("rule", next)
      BY <1>2, <2>1 DEF Populate
    <3>2. /\ filed' \in [{"rule", "bill"} -> [Period -> Nat]]
          /\ next \in Period => filed'["rule"][next] = filed["rule"][next] + 1
          /\ \A k \in {"rule", "bill"}, p \in Period :
               k # "rule" \/ p # next => filed'[k][p] = filed[k][p]
      BY <3>1, FileOne DEF FiledInv
    <3>3. next \in Period => filed["rule"][next] = 0
      BY DEF FiledInv
    <3>4. Period \subseteq Nat
      BY DEF Period
    <3>5. \A p \in Period : p >= next' => filed'["rule"][p] = 0
      BY <3>1, <3>2, <3>4 DEF FiledInv
    <3> QED BY <3>1, <3>2, <3>3, <3>5 DEF FiledInv, FiledOnce
  <2>2. CASE next # reqs[r].period
    BY <1>1, <1>2, <2>2 DEF Populate, History
  <2> QED BY <2>1, <2>2
<1>3. ASSUME NEW r \in Req, Pay(r)
      PROVE  FiledInv'
  <2> DEFINE n == reqs[r].period
  <2>1. CASE NotPaidSince(r)
    <3>1. paid' = n /\ next' = next /\ File("bill", n) /\ n > paid
      BY <1>3, <2>1 DEF Pay, NotPaidSince, PeriodInv, FiledInv
    <3>2. n \in Nat
      BY DEF PeriodInv
    <3> HIDE DEF n
    <3>3. /\ filed' \in [{"rule", "bill"} -> [Period -> Nat]]
          /\ n \in Period => filed'["bill"][n] = filed["bill"][n] + 1
          /\ \A k \in {"rule", "bill"}, p \in Period :
               k # "bill" \/ p # n => filed'[k][p] = filed[k][p]
      BY <3>1, <3>2, FileOne DEF FiledInv
    <3>4. n \in Period => filed["bill"][n] = 0
      BY <3>1 DEF FiledInv
    <3>5. Period \subseteq Nat
      BY DEF Period
    <3>6. \A p \in Period : p > paid' => filed'["bill"][p] = 0
      BY <3>1, <3>2, <3>3, <3>5 DEF FiledInv
    <3> QED BY <3>1, <3>2, <3>3, <3>4, <3>6 DEF FiledInv, FiledOnce
  <2>2. CASE ~NotPaidSince(r)
    BY <1>1, <1>3, <2>2 DEF Pay, History
  <2> QED BY <2>1, <2>2
<1> QED BY <1>1, <1>2, <1>3, NothingFiled

\* A period of a rule or of a bill posts one transaction, however the requests
\* that post it interleave with each other and with everything else.
THEOREM PostsOnce == Spec => []FiledOnce
<1>1. Init => PeriodInv /\ FiledInv
  BY DEF Init, PeriodInv, FiledInv, FiledOnce, Idle
<1>2. PeriodInv /\ FiledInv /\ [Next]_vars => (PeriodInv /\ FiledInv)'
  BY PeriodStep, FiledStep
<1>3. FiledInv => FiledOnce
  BY DEF FiledInv
<1> QED BY <1>1, <1>2, <1>3, PTL DEF Spec
-----------------------------------------------------------------------------
(* Sums over finite sets                                                       *)

\* A set of numbers has a least one.
LEMMA Least ==
  ASSUME NEW T, T \subseteq Nat, T # {}
  PROVE  \E n \in T : \A m \in T : n <= m
<1>1. \E R : /\ \A m, n \in Nat : m < n => <<m, n>> \in R
             /\ \E n \in T : \A m \in T : ~(<<m, n>> \in R)
  <2>1. \A m, n \in Nat : m < n => <<m, n>> \in OpToRel(<, Nat)
    BY DEF OpToRel
  <2>2. \E n \in T : \A m \in T : ~(<<m, n>> \in OpToRel(<, Nat))
    BY NatLessThanWellFounded, WFMin
  <2> QED BY <2>1, <2>2
<1>2. PICK R : /\ \A m, n \in Nat : m < n => <<m, n>> \in R
               /\ \E n \in T : \A m \in T : ~(<<m, n>> \in R)
  BY <1>1
<1>3. PICK n \in T : \A m \in T : ~(<<m, n>> \in R)
  BY <1>2
<1>4. ASSUME NEW m \in T
      PROVE  n <= m
  <2>1. m \in Nat /\ n \in Nat
    OBVIOUS
  <2>2. m < n => <<m, n>> \in R
    BY <1>2, <2>1, Zenon
  <2>3. ~(<<m, n>> \in R)
    BY <1>3
  <2> QED BY <2>1, <2>2, <2>3
<1> QED BY <1>4

\* What holds of a finite set when it holds of those with fewer elements.
LEMMA Fewer ==
  ASSUME NEW S, IsFiniteSet(S), NEW Good,
         \A s \in SUBSET S :
           (\A t \in SUBSET S : Cardinality(t) < Cardinality(s) => t \in Good) => s \in Good
  PROVE  \A s \in SUBSET S : s \in Good
<1> SUFFICES ASSUME NEW s \in SUBSET S, s \notin Good
             PROVE  FALSE
  OBVIOUS
<1>1. \A t \in SUBSET S : IsFiniteSet(t) /\ Cardinality(t) \in Nat
  BY FS_Subset, FS_CardinalityType
<1> DEFINE T == {Cardinality(t) : t \in (SUBSET S) \ Good}
<1>2. T \subseteq Nat /\ T # {}
  BY <1>1
<1>3. PICK n \in T : \A m \in T : n <= m
  BY <1>2, Least
<1>4. PICK t \in (SUBSET S) \ Good : Cardinality(t) = n
  BY <1>3
<1>5. ASSUME NEW u \in SUBSET S, Cardinality(u) < Cardinality(t)
      PROVE  u \in Good
  <2> SUFFICES ASSUME u \notin Good
               PROVE  FALSE
    OBVIOUS
  <2>1. u \in (SUBSET S) \ Good
    OBVIOUS
  <2>3. Cardinality(u) \in T
    BY <2>1
  <2>2. n <= Cardinality(u) /\ n \in Nat /\ Cardinality(u) \in Nat
    BY <1>1, <1>2, <1>3, <2>3
  <2> QED BY <1>4, <1>5, <2>2
<1>6. t \in Good
  BY <1>4, <1>5
<1> QED BY <1>4, <1>6

\* MapThenSumSet, spelled out: it adds what one element and the others give.
Any(s) == CHOOSE x \in s : TRUE
Added(f, S, it) ==
  it = [s \in SUBSET S |->
          IF s = {} THEN 0 ELSE LET x == CHOOSE x \in s : TRUE IN f[x] + it[s \ {x}]]
Adding(f, S) == CHOOSE it : Added(f, S, it)

LEMMA SumIs ==
  ASSUME NEW f, NEW S
  PROVE  Sum(f, S) = Adding(f, S)[S]
  BY DEF Sum, MapThenSumSet, MapThenFoldSet, Adding, Added

LEMMA AnyIn ==
  ASSUME NEW S, IsFiniteSet(S), NEW s \in SUBSET S, s # {}
  PROVE  /\ Any(s) \in s /\ s \ {Any(s)} \in SUBSET S
         /\ Cardinality(s \ {Any(s)}) < Cardinality(s)
         /\ Cardinality(s \ {Any(s)}) = Cardinality(s) - 1
         /\ Cardinality(s) \in Nat /\ Cardinality(s \ {Any(s)}) \in Nat
<1>1. Any(s) \in s
  BY DEF Any
<1>2. IsFiniteSet(s)
  BY FS_Subset
<1>3. Cardinality(s \ {Any(s)}) = Cardinality(s) - 1 /\ Cardinality(s) \in Nat
  BY <1>1, <1>2, FS_RemoveElement, FS_CardinalityType
<1>4. Cardinality(s \ {Any(s)}) \in Nat
  BY <1>2, FS_RemoveElement, FS_CardinalityType
<1> QED BY <1>1, <1>3, <1>4

\* The sums of the subsets can be had all at once, ...
LEMMA SumsExist ==
  ASSUME NEW f, NEW S, IsFiniteSet(S)
  PROVE  \E it : Added(f, S, it)
<1> DEFINE Small(n) == {s \in SUBSET S : Cardinality(s) <= n}
           Sums(n, g) == \A s \in Small(n) :
                           g[s] = IF s = {} THEN 0 ELSE f[Any(s)] + g[s \ {Any(s)}]
           Bad == {n \in Nat : ~ \E g : Sums(n, g)}
<1>1. Bad = {}
  <2> SUFFICES ASSUME Bad # {}
               PROVE  FALSE
    OBVIOUS
  <2>1. PICK n \in Bad : \A m \in Bad : n <= m
    BY Least
  <2>2. CASE n = 0
    <3>1. \A s \in Small(0) : s = {}
      BY FS_Subset, FS_EmptySet, FS_CardinalityType
    <3>2. Sums(0, [s \in Small(0) |-> 0])
      BY <3>1
    <3> QED BY <2>2, <3>2
  <2>3. CASE n # 0
    <3>0. n \in Nat /\ n - 1 \in Nat
      BY <2>3
    <3>1. n - 1 \notin Bad
      <4> HIDE DEF Bad
      <4> QED BY <2>1, <3>0
    <3>2. PICK g : Sums(n - 1, g)
      BY <3>0, <3>1
    <3> DEFINE h == [s \in Small(n) |-> IF s = {} THEN 0 ELSE f[Any(s)] + g[s \ {Any(s)}]]
    <3>3. ASSUME NEW s \in Small(n), s # {}
          PROVE  h[s] = f[Any(s)] + h[s \ {Any(s)}]
      <4>1. s \ {Any(s)} \in Small(n - 1)
        BY <3>3, AnyIn
      <4>2. s \ {Any(s)} \in Small(n)
        BY <3>3, AnyIn
      <4>3. h[s \ {Any(s)}] = g[s \ {Any(s)}]
        BY <3>2, <4>1, <4>2
      <4> QED BY <3>3, <4>3
    <3>4. \A s \in Small(n) : s = {} => h[s] = 0
      OBVIOUS
    <3> HIDE DEF h
    <3>5. Sums(n, h)
      BY <3>3, <3>4
    <3> QED BY <3>5
  <2> QED BY <2>2, <2>3
<1>2. Cardinality(S) \in Nat
  BY FS_CardinalityType
<1>3. PICK g : Sums(Cardinality(S), g)
  BY <1>1, <1>2
<1>4. \A s \in SUBSET S : s \in Small(Cardinality(S))
  BY FS_Subset
<1> DEFINE it == [s \in SUBSET S |-> g[s]]
<1>5. ASSUME NEW s \in SUBSET S
      PROVE  it[s] = IF s = {} THEN 0 ELSE f[Any(s)] + it[s \ {Any(s)}]
  BY <1>3, <1>4
<1>6. it = [s \in SUBSET S |-> it[s]]
  OBVIOUS
<1> HIDE DEF it
<1>7. it = [s \in SUBSET S |-> IF s = {} THEN 0 ELSE f[Any(s)] + it[s \ {Any(s)}]]
  BY <1>5, <1>6
<1> QED BY <1>7 DEF Added, Any

LEMMA Sums ==
  ASSUME NEW f, NEW S, IsFiniteSet(S)
  PROVE  \A s \in SUBSET S :
           Adding(f, S)[s] = IF s = {} THEN 0 ELSE f[Any(s)] + Adding(f, S)[s \ {Any(s)}]
<1>1. Added(f, S, Adding(f, S))
  BY SumsExist DEF Adding
<1> QED BY <1>1 DEF Added, Any

\* ... so sums are numbers, and the sum of two functions is that of their sums.
LEMMA SumAdds ==
  ASSUME NEW f, NEW g, NEW h, NEW S, IsFiniteSet(S),
         \A i \in S : f[i] \in Int /\ g[i] \in Int /\ h[i] = f[i] + g[i]
  PROVE  Sum(f, S) \in Int /\ Sum(g, S) \in Int /\ Sum(h, S) = Sum(f, S) + Sum(g, S)
<1> DEFINE Good == {s \in SUBSET S : /\ Adding(f, S)[s] \in Int /\ Adding(g, S)[s] \in Int
                                    /\ Adding(h, S)[s] = Adding(f, S)[s] + Adding(g, S)[s]}
<1>1. ASSUME NEW s \in SUBSET S,
             \A t \in SUBSET S : Cardinality(t) < Cardinality(s) => t \in Good
      PROVE  s \in Good
  <2>1. CASE s = {}
    <3>1. Adding(f, S)[s] = 0 /\ Adding(g, S)[s] = 0 /\ Adding(h, S)[s] = 0
      BY <2>1, Sums
    <3> QED BY <3>1
  <2>2. CASE s # {}
    <3> DEFINE t == s \ {Any(s)}
    <3>1. t \in Good /\ Any(s) \in S
      BY <1>1, <2>2, AnyIn
    <3>2. /\ Adding(f, S)[s] = f[Any(s)] + Adding(f, S)[t]
          /\ Adding(g, S)[s] = g[Any(s)] + Adding(g, S)[t]
          /\ Adding(h, S)[s] = h[Any(s)] + Adding(h, S)[t]
      BY <2>2, Sums
    <3> HIDE DEF t
    <3>3. /\ Adding(f, S)[t] \in Int /\ Adding(g, S)[t] \in Int
          /\ Adding(h, S)[t] = Adding(f, S)[t] + Adding(g, S)[t]
      BY <3>1
    <3>4. f[Any(s)] \in Int /\ g[Any(s)] \in Int /\ h[Any(s)] = f[Any(s)] + g[Any(s)]
      BY <3>1
    <3>5. \A a, b, c, d \in Int : a + b \in Int /\ (a + b) + (c + d) = (a + c) + (b + d)
      OBVIOUS
    <3>6. /\ Adding(f, S)[s] \in Int /\ Adding(g, S)[s] \in Int
          /\ Adding(h, S)[s] = Adding(f, S)[s] + Adding(g, S)[s]
      BY <3>2, <3>3, <3>4, <3>5
    <3> QED BY <3>6
  <2> QED BY <2>1, <2>2
<1>2. \A s \in SUBSET S : s \in Good
  <2> HIDE DEF Good
  <2> QED BY <1>1, Fewer
<1>3. S \in Good
  BY <1>2
<1> QED BY <1>3, SumIs

LEMMA SumZero ==
  ASSUME NEW f, NEW S, IsFiniteSet(S), \A i \in S : f[i] = 0
  PROVE  Sum(f, S) = 0
<1>1. Sum(f, S) \in Int /\ Sum(f, S) = Sum(f, S) + Sum(f, S)
  BY SumAdds
<1>2. \A n \in Int : n = n + n => n = 0
  OBVIOUS
<1> QED BY <1>1, <1>2, Zenon

LEMMA SumSame ==
  ASSUME NEW f, NEW g, NEW S, IsFiniteSet(S), \A i \in S : f[i] \in Int /\ f[i] = g[i]
  PROVE  Sum(f, S) \in Int /\ Sum(f, S) = Sum(g, S)
<1> DEFINE zero == [i \in S |-> 0]
<1>1. Sum(zero, S) = 0
  BY SumZero
<1>2. \A i \in S : zero[i] \in Int /\ g[i] = f[i] + zero[i]
  OBVIOUS
<1> HIDE DEF zero
<1>3. Sum(f, S) \in Int /\ Sum(g, S) = Sum(f, S) + Sum(zero, S)
  BY <1>2, SumAdds
<1> QED BY <1>1, <1>3
LEMMA SumType ==
  ASSUME NEW f, NEW S, IsFiniteSet(S), \A i \in S : f[i] \in Int
  PROVE  Sum(f, S) \in Int
<1>1. \A i \in S : f[i] \in Int /\ f[i] = f[i]
  OBVIOUS
<1> QED BY <1>1, SumSame

LEMMA IdFinite == IsFiniteSet(Id)
  BY LedgerAssumption, FS_Interval DEF Id
-----------------------------------------------------------------------------
(* Types                                                                       *)

LEMMA MissingRow == Missing \in Row
  BY DEF Missing, Row

LEMMA EntryRow ==
  ASSUME NEW e \in Entries \cup {RuleEntry, BillEntry}
  PROVE  e \in Row
  BY LedgerAssumption DEF Entry, Row

LEMMA IdleTyped == Idle \in ReqType
<1>1. NoRows \in [Id -> Row]
  BY MissingRow DEF NoRows
<1>2. [a \in Acct |-> 0] \in [Acct -> Int]
  OBVIOUS
<1> QED BY <1>1, <1>2, MissingRow DEF Idle, ReqType, Pcs, Parts

LEMMA PutTyped ==
  ASSUME reqs \in [Req -> ReqType], NEW r \in Req, NEW rec \in ReqType, Put(r, rec)
  PROVE  reqs' \in [Req -> ReqType]
  BY DEF Put

LEMMA EndTyped ==
  ASSUME reqs \in [Req -> ReqType], NEW r \in Req, End(r)
  PROVE  reqs' \in [Req -> ReqType]
  BY IdleTyped, PutTyped DEF End

\* What a row moves is a number, ...
LEMMA EffectNumber ==
  ASSUME NEW e \in Row, NEW a \in Acct
  PROVE  /\ Out(e, a) \in Int /\ In(e, a) \in Int /\ Into(e, a) \in Int
         /\ Effect(e, a) \in Int /\ EditEffect(e, a) \in Int
<1>1. e.value \in Int
  BY DEF Row
<1> QED BY <1>1 DEF Out, In, Into, Effect, EditEffect

\* ... and so is what many rows do.
LEMMA MovesTyped ==
  ASSUME NEW was \in [Id -> Row], NEW will \in [Id -> Row]
  PROVE  Moves(was, will) \in [Acct -> [Id -> Int]] /\ EditMoves(was, will) \in [Acct -> [Id -> Int]]
<1>1. \A a \in Acct, i \in Id :
        /\ Effect(was[i], a) \in Int /\ Effect(will[i], a) \in Int
        /\ EditEffect(was[i], a) \in Int /\ EditEffect(will[i], a) \in Int
  BY EffectNumber
<1>2. \A a \in Acct, i \in Id :
        /\ (IF a \in Open THEN Effect(will[i], a) - Effect(was[i], a) ELSE 0) \in Int
        /\ (IF a \in Open THEN EditEffect(will[i], a) - EditEffect(was[i], a) ELSE 0) \in Int
  BY <1>1
<1> QED BY <1>2 DEF Moves, EditMoves

LEMMA ShiftTyped ==
  ASSUME balance \in [Acct -> Int], moved \in [Acct -> [Id -> Int]],
         NEW moves \in [Acct -> [Id -> Int]], Shift(moves)
  PROVE  balance' \in [Acct -> Int] /\ moved' \in [Acct -> [Id -> Int]]
<1>1. \A a \in Acct : Sum(moves[a], Id) \in Int
  BY IdFinite, SumType
<1>2. \A a \in Acct : balance[a] + Sum(moves[a], Id) \in Int
  BY <1>1
<1>3. \A a \in Acct, i \in Id : moved[a][i] + moves[a][i] \in Int
  OBVIOUS
<1> QED BY <1>2, <1>3 DEF Shift

LEMMA InsertTyped ==
  ASSUME TypeOK, NEW e \in Row, Insert(e)
  PROVE  /\ rows' \in [Id -> Row] /\ last' \in Nat
         /\ balance' \in [Acct -> Int] /\ moved' \in [Acct -> [Id -> Int]]
<1> DEFINE will == [NoRows EXCEPT ![last'] = e]
<1>1. NoRows \in [Id -> Row]
  BY MissingRow DEF NoRows
<1>2. will \in [Id -> Row]
  BY <1>1
<1>3. Shift(Moves(NoRows, will))
  BY DEF Insert
<1> HIDE DEF will
<1>4. balance' \in [Acct -> Int] /\ moved' \in [Acct -> [Id -> Int]]
  BY <1>1, <1>2, <1>3, MovesTyped, ShiftTyped DEF TypeOK
<1>5. rows' = [rows EXCEPT ![last'] = e] /\ last' = last + 1
  BY DEF Insert
<1>6. rows' \in [Id -> Row]
  BY <1>5 DEF TypeOK
<1>7. last' \in Nat
  BY <1>5 DEF TypeOK
<1> QED BY <1>4, <1>6, <1>7

\* The rows a request is about to change, as it read them.
LEMMA ReadTyped ==
  ASSUME TypeOK, NEW ids
  PROVE  Read(ids) \in [Id -> Row]
  BY MissingRow DEF Read, TypeOK

\* Rows that go are typed, and so is what their reversal moves.
LEMMA ReversedTyped ==
  ASSUME TypeOK, NEW r \in Req,
         \/ /\ Shift(EditMoves(reqs[r].was, NoRows))
            /\ rows' = Replaced(reqs[r].ids, Missing)
         \/ UNCHANGED <<rows, balance, moved>>,
         End(r), UNCHANGED <<last, Accounts, Due, filed>>
  PROVE  TypeOK'
<1> USE DEF Accounts, Due
<1>1. reqs[r].was \in [Id -> Row] /\ NoRows \in [Id -> Row] /\ reqs[r] \in ReqType
  BY MissingRow DEF TypeOK, ReqType, NoRows
<1>2. Replaced(reqs[r].ids, Missing) \in [Id -> Row]
  BY MissingRow DEF Replaced, TypeOK
<1>3. balance' \in [Acct -> Int] /\ moved' \in [Acct -> [Id -> Int]] /\ rows' \in [Id -> Row]
  BY <1>1, <1>2, MovesTyped, ShiftTyped DEF TypeOK
<1>4. reqs' \in [Req -> ReqType]
  BY EndTyped DEF TypeOK
<1> QED BY <1>3, <1>4 DEF TypeOK

LEMMA RowTyped ==
  ASSUME TypeOK, NEW r \in Req, RowStep(r)
  PROVE  TypeOK'
<1> USE DEF Accounts, Due, History
<1>0. reqs \in [Req -> ReqType] /\ reqs[r] \in ReqType /\ Idle \in ReqType
  BY IdleTyped DEF TypeOK
<1>1. CASE CreateCheck(r)
  <2>1. PICK e \in Entries : Put(r, [Idle EXCEPT !.pc = "create", !.entry = e])
    BY <1>1 DEF CreateCheck
  <2>2. [Idle EXCEPT !.pc = "create", !.entry = e] \in ReqType
    BY <1>0, EntryRow DEF ReqType, Pcs
  <2> QED BY <1>0, <1>1, <2>1, <2>2, PutTyped DEF CreateCheck, TypeOK
<1>2. CASE Create(r)
  <2>1. reqs[r].entry \in Row /\ Insert(reqs[r].entry) /\ End(r)
    BY <1>0, <1>2 DEF Create, ReqType
  <2> QED BY <1>0, <1>2, <2>1, InsertTyped, EndTyped DEF Create, TypeOK
<1>3. CASE EditRead(r)
  <2>1. PICK i \in Id, e \in Entries :
          Put(r, [Idle EXCEPT !.pc = "edit", !.entry = e, !.ids = {i}, !.was = Read({i})])
    BY <1>3 DEF EditRead
  <2>2. [Idle EXCEPT !.pc = "edit", !.entry = e, !.ids = {i}, !.was = Read({i})] \in ReqType
    BY <1>0, EntryRow, ReadTyped DEF ReqType, Pcs
  <2> QED BY <1>0, <1>3, <2>1, <2>2, PutTyped DEF EditRead, TypeOK
<1>4. CASE DeleteRead(r)
  <2>1. PICK i \in Id : Put(r, [Idle EXCEPT !.pc = "delete", !.ids = {i}, !.was = Read({i})])
    BY <1>4 DEF DeleteRead
  <2>2. [Idle EXCEPT !.pc = "delete", !.ids = {i}, !.was = Read({i})] \in ReqType
    BY <1>0, ReadTyped DEF ReqType, Pcs
  <2> QED BY <1>0, <1>4, <2>1, <2>2, PutTyped DEF DeleteRead, TypeOK
<1>5. CASE Edit(r)
  <2> DEFINE q == reqs[r]
             will == [i \in Id |-> IF i \in q.ids THEN q.entry ELSE Missing]
  <2>1. q.was \in [Id -> Row] /\ will \in [Id -> Row] /\ q.entry \in Row
    BY <1>0, MissingRow DEF ReqType
  <2>2. Replaced(q.ids, q.entry) \in [Id -> Row]
    BY <2>1 DEF Replaced, TypeOK
  <2>3. \/ Shift(EditMoves(q.was, will)) /\ rows' = Replaced(q.ids, q.entry)
        \/ UNCHANGED <<rows, balance, moved>>
    BY <1>5 DEF Edit
  <2>4. UNCHANGED <<last, status, start, today, next, paid, filed>> /\ End(r)
    BY <1>5 DEF Edit
  <2> HIDE DEF q, will
  <2>5. balance' \in [Acct -> Int] /\ moved' \in [Acct -> [Id -> Int]] /\ rows' \in [Id -> Row]
    BY <2>1, <2>2, <2>3, MovesTyped, ShiftTyped DEF TypeOK
  <2> QED BY <1>0, <2>4, <2>5, EndTyped DEF TypeOK
<1>6. CASE Delete(r)
  <2>1. \/ /\ Shift(EditMoves(reqs[r].was, NoRows))
           /\ rows' = Replaced(reqs[r].ids, Missing)
        \/ UNCHANGED <<rows, balance, moved>>
    BY <1>6 DEF Delete
  <2>2. End(r) /\ UNCHANGED <<last, Accounts, Due, filed>>
    BY <1>6 DEF Delete
  <2> QED BY <2>1, <2>2, ReversedTyped
<1> QED BY <1>1, <1>2, <1>3, <1>4, <1>5, <1>6 DEF RowStep

LEMMA DueTyped ==
  ASSUME TypeOK, NEW r \in Req, DueStep(r)
  PROVE  TypeOK'
<1> USE DEF Accounts, Due, History
<1>0. reqs \in [Req -> ReqType] /\ reqs[r] \in ReqType /\ Idle \in ReqType
  BY IdleTyped DEF TypeOK
<1>1. CASE PopulateRead(r)
  <2>1. [Idle EXCEPT !.pc = "populate", !.period = next] \in ReqType
    BY <1>0 DEF ReqType, Pcs, TypeOK
  <2> QED BY <1>0, <1>1, <2>1, PutTyped DEF PopulateRead, TypeOK
<1>2. CASE PayRead(r)
  <2>1. [Idle EXCEPT !.pc = "pay", !.period = today] \in ReqType
    BY <1>0 DEF ReqType, Pcs, TypeOK
  <2> QED BY <1>0, <1>2, <2>1, PutTyped DEF PayRead, TypeOK
<1>3. CASE Populate(r)
  <2>1. End(r) /\ UNCHANGED <<status, start, today, paid>>
    BY <1>3 DEF Populate
  <2>2. CASE next = reqs[r].period
    <3>1. Insert(RuleEntry) /\ File("rule", next) /\ next' = next + 1
      BY <1>3, <2>2 DEF Populate
    <3>2. next \in Nat /\ filed \in [{"rule", "bill"} -> [Period -> Nat]]
      BY DEF TypeOK
    <3>3. next' \in Nat /\ filed' \in [{"rule", "bill"} -> [Period -> Nat]]
      BY <3>1, <3>2, FileOne
    <3> QED BY <1>0, <2>1, <3>1, <3>3, EntryRow, InsertTyped, EndTyped DEF TypeOK
  <2>3. CASE next # reqs[r].period
    BY <1>0, <1>3, <2>1, <2>3, EndTyped DEF Populate, TypeOK
  <2> QED BY <2>2, <2>3
<1>4. CASE Pay(r)
  <2>1. End(r) /\ UNCHANGED <<status, start, today, next>>
    BY <1>4 DEF Pay
  <2>2. CASE NotPaidSince(r)
    <3>1. Insert(BillEntry) /\ File("bill", reqs[r].period) /\ paid' = reqs[r].period
      BY <1>4, <2>2 DEF Pay
    <3>2. reqs[r].period \in Nat /\ filed \in [{"rule", "bill"} -> [Period -> Nat]]
      BY <1>0 DEF TypeOK, ReqType
    <3>3. paid' \in Nat /\ filed' \in [{"rule", "bill"} -> [Period -> Nat]]
      BY <3>1, <3>2, FileOne
    <3> QED BY <1>0, <2>1, <3>1, <3>3, EntryRow, InsertTyped, EndTyped DEF TypeOK
  <2>3. CASE ~NotPaidSince(r)
    BY <1>0, <1>4, <2>1, <2>3, EndTyped DEF Pay, TypeOK
  <2> QED BY <2>2, <2>3
<1> QED BY <1>1, <1>2, <1>3, <1>4 DEF DueStep

LEMMA BulkTyped ==
  ASSUME TypeOK, NEW r \in Req, BulkStep(r)
  PROVE  TypeOK'
<1> USE DEF Accounts, Due, History
<1>0. reqs \in [Req -> ReqType] /\ reqs[r] \in ReqType /\ Idle \in ReqType
  BY IdleTyped DEF TypeOK
<1>1. CASE BulkRead(r)
  <2>1. PICK ids \in SUBSET Id :
          \/ Put(r, [Idle EXCEPT !.pc = "bulkDelete", !.ids = ids, !.was = Read(ids)])
          \/ \E t \in Types \ {"transfer"} :
               Put(r, [Idle EXCEPT !.pc = "bulkType", !.ids = ids, !.was = Read(ids),
                                   !.entry = [Missing EXCEPT !.type = t]])
    BY <1>1 DEF BulkRead
  <2>2. Read(ids) \in [Id -> Row]
    BY ReadTyped
  <2>3. \A t \in Types : [Missing EXCEPT !.type = t] \in Row
    BY MissingRow DEF Row
  <2>4. [Idle EXCEPT !.pc = "bulkDelete", !.ids = ids, !.was = Read(ids)] \in ReqType
    BY <1>0, <2>2 DEF ReqType, Pcs
  <2>5. ASSUME NEW t \in Types
        PROVE  [Idle EXCEPT !.pc = "bulkType", !.ids = ids, !.was = Read(ids),
                            !.entry = [Missing EXCEPT !.type = t]] \in ReqType
    BY <1>0, <2>2, <2>3 DEF ReqType, Pcs
  <2>6. reqs' \in [Req -> ReqType]
    BY <1>0, <2>1, <2>4, <2>5, PutTyped
  <2> QED BY <1>1, <2>6 DEF BulkRead, TypeOK
<1>2. CASE BulkDelete(r)
  BY <1>2, ReversedTyped DEF BulkDelete
<1>3. CASE BulkType(r)
  <2> DEFINE q == reqs[r]
             will == [i \in Id |-> IF i \in q.ids THEN Typed(q, i) ELSE Missing]
  <2>1. q.was \in [Id -> Row] /\ q.entry.type \in Types \cup {"none"}
    BY <1>0 DEF ReqType, Row
  <2>2. \A i \in Id : Typed(q, i) \in Row
    BY <2>1 DEF Typed, Row
  <2>3. will \in [Id -> Row]
    BY <2>2, MissingRow
  <2>8. \A e \in Row, t \in Types \cup {"none"} : [e EXCEPT !.type = t, !.to = None] \in Row
    BY DEF Row
  <2>4. \A i \in Id : [rows[i] EXCEPT !.type = q.entry.type, !.to = None] \in Row
    BY <2>1, <2>8 DEF TypeOK
  <2>5. rows' \in [Id -> Row]
    BY <1>3, <2>4 DEF BulkType, TypeOK
  <2>6. Shift(Moves(q.was, will)) /\ End(r)
    BY <1>3 DEF BulkType
  <2> HIDE DEF q, will
  <2>7. balance' \in [Acct -> Int] /\ moved' \in [Acct -> [Id -> Int]]
    BY <2>1, <2>3, <2>6, MovesTyped, ShiftTyped DEF TypeOK
  <2> QED BY <1>0, <1>3, <2>5, <2>6, <2>7, EndTyped DEF BulkType, TypeOK
<1> QED BY <1>1, <1>2, <1>3 DEF BulkStep

LEMMA ClearTyped ==
  ASSUME TypeOK, NEW r \in Req, NEW p \in Profile, NEW s, ClearAll(r, p, s)
  PROVE  TypeOK'
<1>1. rows' \in [Id -> Row]
  BY MissingRow DEF ClearAll, TypeOK
<1>2. balance' \in [Acct -> Int] /\ moved' \in [Acct -> [Id -> Int]]
  BY DEF ClearAll, TypeOK
<1> QED BY <1>1, <1>2 DEF ClearAll, TypeOK, Accounts, Due

LEMMA AccountTyped ==
  ASSUME TypeOK, NEW r \in Req, AccountStep(r)
  PROVE  TypeOK'
<1> USE DEF Accounts, Due, History
<1>0. reqs \in [Req -> ReqType] /\ reqs[r] \in ReqType /\ Idle \in ReqType
  BY IdleTyped DEF TypeOK
<1>1. ASSUME NEW a \in Acct, OpenAccount(r, a)
      PROVE  TypeOK'
  <2>1. PICK b \in Amounts : start' = [start EXCEPT ![a] = b] /\ balance' = [balance EXCEPT ![a] = b]
    BY <1>1 DEF OpenAccount
  <2>2. start' \in [Acct -> Int] /\ balance' \in [Acct -> Int]
    BY <2>1, LedgerAssumption DEF TypeOK
  <2> QED BY <1>1, <2>2 DEF OpenAccount, TypeOK
<1>2. ASSUME NEW a \in Acct, CloseCheck(r, a)
      PROVE  TypeOK'
  <2>1. [Idle EXCEPT !.pc = "close", !.accts = {a}] \in ReqType
    BY <1>0 DEF ReqType, Pcs
  <2> QED BY <1>0, <1>2, <2>1, PutTyped DEF CloseCheck, TypeOK
<1>3. CASE Close(r)
  BY <1>0, <1>3, EndTyped DEF Close, TypeOK
<1> QED BY <1>1, <1>2, <1>3 DEF AccountStep

LEMMA FormTyped ==
  ASSUME TypeOK, NEW r \in Req, FormStep(r)
  PROVE  TypeOK'
<1> USE DEF Accounts, Due, History
<1>0. reqs \in [Req -> ReqType] /\ reqs[r] \in ReqType /\ Idle \in ReqType
  BY IdleTyped DEF TypeOK
<1>1. ASSUME NEW a \in Acct, OpenForm(r, a)
      PROVE  TypeOK'
  <2> DEFINE sum == [Idle.sum EXCEPT ![a] = balance[a] - start[a]]
             rec == [Idle EXCEPT !.pc = "form", !.accts = {a}, !.held = balance[a], !.sum = sum]
  <2>1. sum \in [Acct -> Int]
    BY <1>0 DEF ReqType, TypeOK
  <2>2. Put(r, rec)
    BY <1>1 DEF OpenForm
  <2> HIDE DEF sum
  <2>3. rec \in ReqType
    BY <1>0, <2>1 DEF ReqType, Pcs, TypeOK
  <2> HIDE DEF rec
  <2> QED BY <1>0, <1>1, <2>2, <2>3, PutTyped DEF OpenForm, TypeOK
<1>2. CASE SaveForm(r)
  <2>1. PICK desired \in Amounts :
          /\ balance' = [a \in Acct |-> IF a \in reqs[r].accts /\ a \in Open THEN desired
                                        ELSE balance[a]]
          /\ start' = [a \in Acct |-> IF a \in reqs[r].accts /\ a \in Open
                                      THEN desired - reqs[r].sum[a] ELSE start[a]]
    BY <1>2 DEF SaveForm
  <2>2. desired \in Int /\ reqs[r].sum \in [Acct -> Int]
    BY <1>0, LedgerAssumption DEF ReqType
  <2>3. start' \in [Acct -> Int] /\ balance' \in [Acct -> Int]
    BY <2>1, <2>2 DEF TypeOK
  <2> QED BY <1>0, <1>2, <2>3, EndTyped DEF SaveForm, TypeOK
<1> QED BY <1>1, <1>2 DEF FormStep

LEMMA PartNumber ==
  ASSUME TypeOK, NEW part \in Parts, NEW a \in Acct
  PROVE  Part(part, a) \in Int
<1> DEFINE out == [i \in Id |-> Out(rows[i], a)]
           in == [i \in Id |-> In(rows[i], a)]
           into == [i \in Id |-> Into(rows[i], a)]
<1>1. \A i \in Id : rows[i] \in Row
  BY DEF TypeOK
<1>2. \A i \in Id : out[i] \in Int /\ in[i] \in Int /\ into[i] \in Int
  BY <1>1, EffectNumber
<1>3. start[a] \in Int
  BY DEF TypeOK
<1>4. Part(part, a) = CASE part = "start" -> start[a]
                        [] part = "out"   -> -Sum(out, Id)
                        [] part = "in"    -> Sum(in, Id)
                        [] part = "into"  -> Sum(into, Id)
  BY DEF Part
<1> HIDE DEF out, in, into
<1>5. Sum(out, Id) \in Int /\ Sum(in, Id) \in Int /\ Sum(into, Id) \in Int
  BY <1>2, IdFinite, SumType
<1>6. part \in {"start", "out", "in", "into"}
  BY DEF Parts
<1> QED BY <1>3, <1>4, <1>5, <1>6

LEMMA RecomputeTyped ==
  ASSUME TypeOK, NEW r \in Req, RecomputeStep(r)
  PROVE  TypeOK'
<1> USE DEF Accounts, Due, History
<1>0. reqs \in [Req -> ReqType] /\ reqs[r] \in ReqType /\ Idle \in ReqType
  BY IdleTyped DEF TypeOK
<1>1. CASE RecomputeBegin(r)
  <2>1. PICK accts \in SUBSET Acct :
          Put(r, [Idle EXCEPT !.pc = "recompute", !.accts = accts, !.left = Parts])
    BY <1>1 DEF RecomputeBegin, Open
  <2>2. [Idle EXCEPT !.pc = "recompute", !.accts = accts, !.left = Parts] \in ReqType
    BY <1>0 DEF ReqType, Pcs
  <2> QED BY <1>0, <1>1, <2>1, <2>2, PutTyped DEF RecomputeBegin, TypeOK
<1>2. CASE RecomputeRead(r)
  <2>1. PICK part \in reqs[r].left :
          Put(r, [reqs[r] EXCEPT !.left = @ \ {part},
                                 !.sum = [a \in Acct |-> @[a] + Part(part, a)]])
    BY <1>2 DEF RecomputeRead
  <2> DEFINE sum == [a \in Acct |-> reqs[r].sum[a] + Part(part, a)]
             rec == [reqs[r] EXCEPT !.left = @ \ {part}, !.sum = sum]
  <2>2. sum \in [Acct -> Int]
    BY <1>0, PartNumber DEF ReqType
  <2>3. Put(r, rec)
    BY <2>1
  <2> HIDE DEF sum
  <2>4. rec \in ReqType
    BY <1>0, <2>2 DEF ReqType
  <2> HIDE DEF rec
  <2> QED BY <1>0, <1>2, <2>3, <2>4, PutTyped DEF RecomputeRead, TypeOK
<1>3. CASE Recompute(r)
  <2>1. reqs[r].sum \in [Acct -> Int]
    BY <1>0 DEF ReqType
  <2>2. balance' \in [Acct -> Int]
    BY <1>3, <2>1 DEF Recompute, TypeOK
  <2> QED BY <1>0, <1>3, <2>2, EndTyped DEF Recompute, TypeOK
<1> QED BY <1>1, <1>2, <1>3 DEF RecomputeStep

LEMMA TypeStep ==
  ASSUME TypeOK, [Next]_vars
  PROVE  TypeOK'
<1>1. CASE Tick
  BY <1>1 DEF Tick, TypeOK, Accounts, History
<1>2. CASE UNCHANGED vars
  BY <1>2 DEF vars, TypeOK, Accounts, Due, History
<1> QED
  BY <1>1, <1>2, RowTyped, DueTyped, BulkTyped, ClearTyped, AccountTyped, FormTyped,
     RecomputeTyped
  DEF Next, Guarded, ClearOne, ClearSelected

LEMMA TypeStart ==
  ASSUME Init
  PROVE  TypeOK
<1>1. NoRows \in [Id -> Row]
  BY MissingRow DEF NoRows
<1> QED BY <1>1, IdleTyped DEF Init, TypeOK

\* Rows, balances and requests keep their kinds under every request there is.
THEOREM LedgerTyped == Spec => []TypeOK
<1>1. Init => TypeOK
  BY TypeStart
<1>2. TypeOK /\ [Next]_vars => TypeOK'
  BY TypeStep
<1> QED BY <1>1, <1>2, PTL DEF Spec
-----------------------------------------------------------------------------
(* A transaction moves each balance once                                       *)

\* The rows edits and deletions count as creating them did: an income is paid to an
\* account of its own.
Kept == {e \in Entry : WellFormed(e) /\ Counted(e)}
KeptRow == Kept \cup {Missing}
AccountNamed == \A e \in Entries \cup {RuleEntry, BillEntry} : Counted(e)

\* The accounts a row names were there, as accounts stand in st.
Known(e, st) == \A a \in Acct : a \in Named(e) => st[a] # "new"

\* The rows are counted ones, the ids ahead are free, and the accounts that rows
\* name have been opened.
RowsInv ==
  /\ last \in Nat
  /\ rows \in [Id -> KeptRow]
  /\ moved \in [Acct -> [Id -> Int]]
  /\ status \in [Acct -> {"new", "open", "closed"}]
  /\ \A i \in Id : i > last => rows[i] = Missing
  /\ \A i \in Id : Known(rows[i], status)

\* What a request is about to post names opened accounts, and what it is about to
\* reverse was read of rows.
Ready(q, st) ==
  /\ q.pc \in {"create", "edit"} => q.entry \in Kept /\ Known(q.entry, st)
  /\ q.pc \in {"edit", "delete", "bulkDelete", "bulkType"} =>
       /\ q.ids \subseteq Id /\ q.was \in [Id -> KeptRow]
       /\ \A i \in Id : i \in q.ids <=> q.was[i] # Missing
  /\ q.pc = "bulkType" =>
       /\ q.entry.type \in Types \ {"transfer"}
       /\ \A i \in q.ids : Counted(Typed(q, i))
  /\ q.pc = "populate" => Known(RuleEntry, st)
  /\ q.pc = "pay" => Known(BillEntry, st)
ReadyInv ==
  /\ reqs = [r \in Req |-> reqs[r]]
  /\ \A r \in Req : Ready(reqs[r], status)

\* What transactions moved is their effect, of accounts yet to open none.
EffectInv == \A a \in Acct, i \in Id :
  status[a] # "closed" => moved[a][i] = Effect(rows[i], a)

LEMMA KeptFields ==
  ASSUME NEW e \in Kept
  PROVE  /\ e \in Entry /\ WellFormed(e) /\ Counted(e) /\ e.value \in Int
         /\ e.from \in Acct \cup {None} /\ e.to \in Acct \cup {None}
  BY DEF Kept, Entry

\* What is posted of the entries that count.
LEMMA PostedKept ==
  ASSUME NEW e \in Entries \cup {RuleEntry, BillEntry}, Counted(e)
  PROVE  e \in Kept
  BY LedgerAssumption DEF Kept

LEMMA MissingEffect ==
  ASSUME NEW a \in Acct
  PROVE  Effect(Missing, a) = 0 /\ EditEffect(Missing, a) = 0
  BY LedgerAssumption DEF Effect, EditEffect, Missing, Out, In, Into, Arrives

LEMMA EffectType ==
  ASSUME NEW e \in KeptRow, NEW a \in Acct
  PROVE  Effect(e, a) \in Int
<1>1. CASE e = Missing
  BY <1>1, MissingEffect
<1>2. CASE e \in Kept
  BY <1>2, KeptFields DEF Effect, Out, In, Into
<1> QED BY <1>1, <1>2 DEF KeptRow

\* An account a row does not name is not moved by it.
LEMMA Unnamed ==
  ASSUME NEW e \in KeptRow, NEW a \in Acct, a \notin Named(e)
  PROVE  Effect(e, a) = 0
<1>1. e.from # a /\ e.to # a
  BY LedgerAssumption DEF Named
<1> QED BY <1>1 DEF Effect, Out, In, Into

\* With an account to each income, edits count what creating counted.
LEMMA SameEffect ==
  ASSUME NEW e \in KeptRow, NEW a \in Acct
  PROVE  EditEffect(e, a) = Effect(e, a)
<1>1. CASE e = Missing
  BY <1>1, MissingEffect
<1>2. CASE e \in Kept /\ e.from = None /\ e.type # "transfer"
  <2>1. ~(e.type = "income" /\ e.from = None) \/ e.to = None
    BY <1>2, KeptFields DEF Counted
  <2>2. Out(e, a) = 0 /\ In(e, a) = 0 /\ Into(e, a) = 0
    BY <1>2, <2>1, LedgerAssumption DEF Out, In, Into, Arrives
  <2> QED BY <1>2, <2>2 DEF EditEffect, Effect
<1>3. CASE e \in Kept /\ ~(e.from = None /\ e.type # "transfer")
  BY <1>3 DEF EditEffect
<1> QED BY <1>1, <1>2, <1>3 DEF KeptRow

\* What Shift leaves in the history: each row's part of what is moved.
LEMMA ShiftMoves ==
  ASSUME RowsInv, NEW moves, Shift(moves), NEW a \in Acct, NEW i \in Id
  PROVE  moved'[a][i] = moved[a][i] + moves[a][i]
  BY DEF Shift

\* The history stays a history when what is moved is a number.
LEMMA ShiftType ==
  ASSUME RowsInv, NEW moves, Shift(moves), \A a \in Acct, i \in Id : moves[a][i] \in Int
  PROVE  moved' \in [Acct -> [Id -> Int]]
<1>1. \A a \in Acct, i \in Id : moved[a][i] + moves[a][i] \in Int
  BY DEF RowsInv
<1> QED BY <1>1 DEF Shift

LEMMA InsertRows ==
  ASSUME RowsInv, EffectInv, NEW e \in Kept, Known(e, status), Insert(e), UNCHANGED status
  PROVE  RowsInv' /\ EffectInv'
<1>1. last + 1 \in Id /\ last' = last + 1 /\ rows' = [rows EXCEPT ![last + 1] = e]
  BY LedgerAssumption DEF Insert, Id, RowsInv
<1>2. rows[last + 1] = Missing /\ rows'[last + 1] = e
      /\ \A i \in Id : i # last + 1 => rows'[i] = rows[i]
  BY <1>1 DEF RowsInv
<1> DEFINE will == [NoRows EXCEPT ![last'] = e]
<1> DEFINE moves == Moves(NoRows, will)
<1>3. Shift(moves)
  BY DEF Insert
<1>4. \A i \in Id : NoRows[i] = Missing /\ will[i] = IF i = last + 1 THEN e ELSE Missing
  BY <1>1 DEF NoRows
<1>11. \A a \in Acct, i \in Id :
         moves[a][i] = IF a \in Open THEN Effect(will[i], a) - Effect(NoRows[i], a) ELSE 0
  BY DEF Moves
<1> HIDE DEF will, moves
<1>5. e \in KeptRow /\ Missing \in KeptRow
  BY DEF KeptRow
<1>6. \A a \in Acct, i \in Id : Effect(will[i], a) - Effect(NoRows[i], a) \in Int
  BY <1>4, <1>5, EffectType
<1>7. moved' \in [Acct -> [Id -> Int]]
  BY <1>3, <1>6, <1>11, ShiftType
<1>8. rows' \in [Id -> KeptRow]
  BY <1>1, <1>5 DEF RowsInv
<1>9. RowsInv'
  BY <1>1, <1>2, <1>7, <1>8 DEF RowsInv, Known, Id
<1>10. ASSUME NEW a \in Acct, NEW i \in Id, status'[a] # "closed"
       PROVE  moved'[a][i] = Effect(rows'[i], a)
  <2>1. moved'[a][i] = moved[a][i] + (IF a \in Open THEN Effect(will[i], a) - Effect(NoRows[i], a) ELSE 0)
    BY <1>3, <1>11, ShiftMoves
  <2>2. moved[a][i] = Effect(rows[i], a)
    BY <1>10 DEF EffectInv
  <2>3. CASE i # last + 1
    BY <1>2, <1>4, <2>1, <2>2, <2>3, MissingEffect, EffectType DEF RowsInv
  <2>4. CASE i = last + 1 /\ a \in Open
    BY <1>2, <1>4, <1>5, <2>1, <2>2, <2>4, MissingEffect, EffectType
  <2>5. CASE i = last + 1 /\ a \notin Open
    <3>1. status[a] = "new"
      BY <1>10, <2>5 DEF Open, RowsInv
    <3>2. a \notin Named(e)
      BY <3>1 DEF Known
    <3>3. Effect(e, a) = 0
      BY <1>5, <3>2, Unnamed
    <3> QED BY <1>2, <2>1, <2>2, <2>5, <3>3, MissingEffect
  <2> QED BY <2>3, <2>4, <2>5
<1> QED BY <1>9, <1>10 DEF EffectInv

LEMMA ClearedRows ==
  ASSUME RowsInv, EffectInv, NEW r \in Req, NEW p \in Profile, ClearAll(r, p, {p})
  PROVE  RowsInv' /\ EffectInv'
<1>1. /\ rows' = [i \in Id |-> IF rows[i].profile = p THEN Missing ELSE rows[i]]
      /\ moved' = [a \in Acct |-> [i \in Id |-> IF a \in Open /\ Owner[a] = p THEN 0 ELSE moved[a][i]]]
      /\ last' = last /\ status' = status
  BY DEF ClearAll, Accounts
<1>2. \A i \in Id : rows'[i] \in {rows[i], Missing}
  BY <1>1
<1>3. Missing \in KeptRow /\ \A st : Known(Missing, st)
  BY LedgerAssumption DEF KeptRow, Known, Named, Missing
<1>4. RowsInv'
  BY <1>1, <1>2, <1>3 DEF RowsInv
<1>5. ASSUME NEW a \in Acct, NEW i \in Id, status'[a] # "closed"
      PROVE  moved'[a][i] = Effect(rows'[i], a)
  <2>1. moved[a][i] = Effect(rows[i], a) /\ rows[i] \in KeptRow
    BY <1>1, <1>5 DEF EffectInv, RowsInv
  <2>2. ASSUME a \in Named(rows[i])
        PROVE  rows[i] \in Kept /\ rows[i].profile = Owner[a]
    <3>1. rows[i] \in Kept
      BY <2>1, <2>2, LedgerAssumption DEF KeptRow, Named, Missing
    <3> QED BY <2>2, <3>1, KeptFields DEF WellFormed, Named
  <2>3. CASE a \in Named(rows[i])
    <3>1. status[a] = "open"
      BY <1>1, <1>5, <2>3 DEF RowsInv, Known
    <3>2. a \in Open
      BY <3>1 DEF Open
    <3> QED BY <1>1, <2>1, <2>2, <2>3, <3>2, MissingEffect
  <2>4. CASE a \notin Named(rows[i])
    <3>1. Effect(rows[i], a) = 0
      BY <2>1, <2>4, Unnamed
    <3>2. Effect(rows'[i], a) = 0
      BY <1>2, <3>1, MissingEffect
    <3> QED BY <1>1, <2>1, <3>1, <3>2
  <2> QED BY <2>3, <2>4
<1> QED BY <1>4, <1>5 DEF EffectInv

\* Going back from was to will on the rows a request read, when they are as read.
LEMMA RewrittenRows ==
  ASSUME RowsInv, EffectInv, NEW r \in Req, UnchangedSince(r),
         Ready(reqs[r], status), reqs[r].pc \in {"edit", "delete", "bulkDelete"},
         NEW e \in KeptRow, Known(e, status), NEW will \in [Id -> KeptRow],
         \A i \in Id : will[i] = IF i \in reqs[r].ids THEN e ELSE Missing,
         Shift(EditMoves(reqs[r].was, will)),
         rows' = Replaced(reqs[r].ids, e), UNCHANGED <<last, status>>
  PROVE  RowsInv' /\ EffectInv'
<1> DEFINE q == reqs[r]
           moves == EditMoves(q.was, will)
<1>1. Shift(moves)
  OBVIOUS
<1>2. \A a \in Acct, i \in Id :
        moves[a][i] = IF a \in Open THEN EditEffect(will[i], a) - EditEffect(q.was[i], a) ELSE 0
  BY DEF EditMoves
<1>3. /\ q.was \in [Id -> KeptRow] /\ q.ids \subseteq Id
      /\ \A i \in Id : i \in q.ids <=> q.was[i] # Missing
  BY DEF Ready
<1>4. \A i \in q.ids : rows[i] = q.was[i]
  BY DEF UnchangedSince
<1> HIDE DEF moves, q
<1>5. \A a \in Acct, i \in Id : /\ EditEffect(will[i], a) = Effect(will[i], a)
                                /\ EditEffect(q.was[i], a) = Effect(q.was[i], a)
                                /\ Effect(will[i], a) \in Int /\ Effect(q.was[i], a) \in Int
  BY <1>3, SameEffect, EffectType
<1>6. moved' \in [Acct -> [Id -> Int]]
  BY <1>1, <1>2, <1>5, ShiftType
<1>7. rows' = [i \in Id |-> IF i \in q.ids THEN e ELSE rows[i]]
  BY DEF Replaced, q
<1>8. \A i \in Id : i > last => i \notin q.ids
  BY <1>3, <1>4 DEF RowsInv
<1>9. RowsInv'
  <2>1. \A i \in Id : rows'[i] = rows[i] \/ rows'[i] = e
    BY <1>7
  <2>2. \A i \in Id : Known(rows'[i], status')
    BY <2>1 DEF RowsInv
  <2>3. rows' \in [Id -> KeptRow]
    BY <1>7 DEF RowsInv
  <2>4. \A i \in Id : i > last' => rows'[i] = Missing
    BY <1>7, <1>8 DEF RowsInv
  <2> QED BY <1>6, <2>2, <2>3, <2>4 DEF RowsInv
<1>10. ASSUME NEW a \in Acct, NEW i \in Id, status'[a] # "closed"
       PROVE  moved'[a][i] = Effect(rows'[i], a)
  <2>1. moved'[a][i] = moved[a][i] + moves[a][i]
    BY <1>1, ShiftMoves
  <2>2. moved[a][i] = Effect(rows[i], a) /\ rows[i] \in KeptRow
    BY <1>10 DEF EffectInv, RowsInv
  <2>3. Effect(rows[i], a) \in Int
    BY <2>2, EffectType
  <2>4. CASE i \notin q.ids
    <3>1. will[i] = Missing /\ q.was[i] = Missing /\ rows'[i] = rows[i]
      BY <1>3, <1>7, <2>4 DEF q
    <3>2. moves[a][i] = 0
      BY <1>2, <3>1, MissingEffect
    <3> QED BY <2>1, <2>2, <2>3, <3>1, <3>2
  <2>5. CASE i \in q.ids /\ a \in Open
    <3>1. will[i] = e /\ q.was[i] = rows[i] /\ rows'[i] = e
      BY <1>4, <1>7, <2>5 DEF q
    <3>2. moves[a][i] = Effect(e, a) - Effect(rows[i], a) /\ Effect(e, a) \in Int
      BY <1>2, <1>5, <2>5, <3>1
    <3> QED BY <2>1, <2>2, <2>3, <3>1, <3>2
  <2>6. CASE i \in q.ids /\ a \notin Open
    <3>1. status[a] = "new"
      BY <1>10, <2>6 DEF Open, RowsInv
    <3>2. a \notin Named(e) /\ a \notin Named(rows[i])
      BY <3>1 DEF Known, RowsInv
    <3>3. Effect(e, a) = 0 /\ Effect(rows[i], a) = 0
      BY <2>2, <3>2, Unnamed
    <3>4. moves[a][i] = 0 /\ rows'[i] = e
      BY <1>2, <1>7, <2>6
    <3> QED BY <2>1, <2>2, <3>3, <3>4
  <2> QED BY <2>4, <2>5, <2>6
<1> QED BY <1>9, <1>10 DEF EffectInv

LEMMA KnownStays ==
  ASSUME NEW e, NEW st, NEW st2, Known(e, st), \A a \in Acct : st[a] # "new" => st2[a] # "new"
  PROVE  Known(e, st2)
  BY DEF Known

\* Requests stay ready when no account goes back to new and the next value of
\* the one that moves is.
LEMMA PutReady ==
  ASSUME ReadyInv, NEW r \in Req, NEW rec, Put(r, rec), UNCHANGED status, Ready(rec, status)
  PROVE  ReadyInv'
  BY ReqsUpdated DEF ReadyInv

LEMMA IdleReady == \A st : Ready(Idle, st)
  BY DEF Ready, Idle

LEMMA EndReady ==
  ASSUME ReadyInv, NEW r \in Req, End(r), UNCHANGED status
  PROVE  ReadyInv'
  BY PutReady, IdleReady DEF End

MovedInv == RowsInv /\ EffectInv /\ ReadyInv

LEMMA SameRows ==
  ASSUME RowsInv, EffectInv, UNCHANGED <<rows, last, moved, status>>
  PROVE  RowsInv' /\ EffectInv'
  BY DEF RowsInv, EffectInv

\* What a request is put to write counts, where all entries do or requests write
\* such rows only.
LEMMA PutCounted ==
  ASSUME AccountNamed \/ Accounted', ReadyInv, NEW r \in Req, NEW rec, Put(r, rec),
         rec.entry \in Entries
  PROVE  Counted(rec.entry)
<1>1. reqs'[r] = rec
  BY ReqsUpdated DEF ReadyInv
<1> QED BY <1>1 DEF AccountNamed, Accounted

\* One transaction is created, edited or deleted.
LEMMA RowMoves ==
  ASSUME AccountNamed \/ Accounted', MovedInv, NEW r \in Req, RowStep(r)
  PROVE  MovedInv'
<1> USE DEF Accounts, Due, History
<1>0. RowsInv /\ EffectInv /\ ReadyInv /\ Ready(reqs[r], status)
  BY DEF MovedInv, ReadyInv
<1>1. CASE CreateCheck(r)
  <2>1. PICK e \in Entries : /\ Named(e) \subseteq Open
                             /\ Put(r, [Idle EXCEPT !.pc = "create", !.entry = e])
    BY <1>1 DEF CreateCheck
  <2> DEFINE rec == [Idle EXCEPT !.pc = "create", !.entry = e]
  <2>2. Known(e, status)
    BY <2>1 DEF Known, Open
  <2>4. Put(r, rec) /\ rec.entry = e /\ rec.pc = "create"
    BY <2>1 DEF Idle
  <2> HIDE DEF rec
  <2>5. Counted(e)
    BY <1>0, <2>4, PutCounted
  <2>3. Ready(rec, status)
    BY <2>2, <2>4, <2>5, PostedKept DEF Ready
  <2> QED BY <1>0, <1>1, <2>3, <2>4, PutReady, SameRows DEF CreateCheck, MovedInv
<1>2. CASE Create(r)
  <2>1. reqs[r].entry \in Kept /\ Known(reqs[r].entry, status)
    BY <1>0, <1>2 DEF Create, At, Ready
  <2>2. Insert(reqs[r].entry) /\ End(r) /\ UNCHANGED status
    BY <1>2 DEF Create
  <2> QED BY <1>0, <2>1, <2>2, InsertRows, EndReady DEF MovedInv
<1>3. CASE EditRead(r)
  <2>1. PICK i \in Id, e \in Entries :
          /\ rows[i] # Missing
          /\ e.from # rows[i].from => e.from \in Open \cup {None}
          /\ e.to # rows[i].to => e.to \in Open \cup {None}
          /\ Put(r, [Idle EXCEPT !.pc = "edit", !.entry = e, !.ids = {i}, !.was = Read({i})])
    BY <1>3 DEF EditRead
  <2> DEFINE rec == [Idle EXCEPT !.pc = "edit", !.entry = e, !.ids = {i}, !.was = Read({i})]
  <2>2. Known(e, status)
    BY <1>0, <2>1, LedgerAssumption DEF Known, Open, RowsInv, Named
  <2>3. Read({i}) \in [Id -> KeptRow] /\ \A j \in Id : j \in {i} <=> Read({i})[j] # Missing
    BY <1>0, <2>1 DEF Read, RowsInv, KeptRow
  <2>4. rec.pc = "edit" /\ rec.entry = e /\ rec.ids = {i} /\ rec.was = Read({i})
    BY DEF Idle
  <2>5. Put(r, rec)
    BY <2>1
  <2> HIDE DEF rec
  <2>7. Counted(e)
    BY <1>0, <2>4, <2>5, PutCounted
  <2>6. Ready(rec, status)
    BY <2>2, <2>3, <2>4, <2>7, PostedKept DEF Ready
  <2> QED BY <1>0, <1>3, <2>5, <2>6, PutReady, SameRows DEF EditRead, MovedInv
<1>4. CASE DeleteRead(r)
  <2>1. PICK i \in Id :
          /\ rows[i] # Missing
          /\ Put(r, [Idle EXCEPT !.pc = "delete", !.ids = {i}, !.was = Read({i})])
    BY <1>4 DEF DeleteRead
  <2> DEFINE rec == [Idle EXCEPT !.pc = "delete", !.ids = {i}, !.was = Read({i})]
  <2>2. Read({i}) \in [Id -> KeptRow] /\ \A j \in Id : j \in {i} <=> Read({i})[j] # Missing
    BY <1>0, <2>1 DEF Read, RowsInv, KeptRow
  <2>3. rec.pc = "delete" /\ rec.ids = {i} /\ rec.was = Read({i})
    BY DEF Idle
  <2>4. Put(r, rec)
    BY <2>1
  <2> HIDE DEF rec
  <2>5. Ready(rec, status)
    BY <2>2, <2>3 DEF Ready
  <2> QED BY <1>0, <1>4, <2>4, <2>5, PutReady, SameRows DEF DeleteRead, MovedInv
<1>5. CASE Edit(r)
  <2>1. End(r) /\ UNCHANGED <<last, status>> /\ reqs[r].pc = "edit"
    BY <1>5 DEF Edit, At
  <2>2. ReadyInv'
    BY <1>0, <2>1, EndReady
  <2>3. CASE UnchangedSince(r)
    <3> DEFINE e == reqs[r].entry
               will == [i \in Id |-> IF i \in reqs[r].ids THEN e ELSE Missing]
    <3>1. Shift(EditMoves(reqs[r].was, will)) /\ rows' = Replaced(reqs[r].ids, e)
      BY <1>5, <2>3 DEF Edit
    <3>2. e \in KeptRow /\ Known(e, status) /\ Missing \in KeptRow
      BY <1>0, <2>1 DEF Ready, KeptRow
    <3>3. will \in [Id -> KeptRow] /\ \A i \in Id : will[i] = IF i \in reqs[r].ids THEN e ELSE Missing
      BY <3>2
    <3> HIDE DEF e, will
    <3> QED BY <1>0, <2>1, <2>2, <2>3, <3>1, <3>2, <3>3, RewrittenRows DEF MovedInv
  <2>4. CASE ~UnchangedSince(r)
    BY <1>0, <1>5, <2>1, <2>2, <2>4, SameRows DEF Edit, MovedInv
  <2> QED BY <2>3, <2>4
<1>6. CASE Delete(r)
  <2>1. End(r) /\ UNCHANGED <<last, status>> /\ reqs[r].pc = "delete"
    BY <1>6 DEF Delete, At
  <2>2. ReadyInv'
    BY <1>0, <2>1, EndReady
  <2>3. CASE UnchangedSince(r)
    <3>1. Shift(EditMoves(reqs[r].was, NoRows)) /\ rows' = Replaced(reqs[r].ids, Missing)
      BY <1>6, <2>3 DEF Delete
    <3>2. Missing \in KeptRow /\ Known(Missing, status)
      BY LedgerAssumption DEF KeptRow, Known, Named, Missing
    <3>3. NoRows \in [Id -> KeptRow] /\ \A i \in Id : NoRows[i] = IF i \in reqs[r].ids THEN Missing ELSE Missing
      BY <3>2 DEF NoRows
    <3> QED BY <1>0, <2>1, <2>2, <2>3, <3>1, <3>2, <3>3, RewrittenRows DEF MovedInv
  <2>4. CASE ~UnchangedSince(r)
    BY <1>0, <1>6, <2>1, <2>2, <2>4, SameRows DEF Delete, MovedInv
  <2> QED BY <2>3, <2>4
<1> QED BY <1>1, <1>2, <1>3, <1>4, <1>5, <1>6 DEF RowStep

LEMMA DueMoves ==
  ASSUME Counted(RuleEntry), Counted(BillEntry), MovedInv, NEW r \in Req, DueStep(r)
  PROVE  MovedInv'
<1> USE DEF Accounts, Due, History
<1>0. RowsInv /\ EffectInv /\ ReadyInv /\ Ready(reqs[r], status)
  BY DEF MovedInv, ReadyInv
<1>1. RuleEntry \in Kept /\ BillEntry \in Kept
  BY PostedKept
<1>2. CASE PopulateRead(r)
  <2> DEFINE rec == [Idle EXCEPT !.pc = "populate", !.period = next]
  <2>1. Ready(rec, status)
    BY <1>2 DEF PopulateRead, Was, Ready, Known, Idle
  <2>2. Put(r, rec)
    BY <1>2 DEF PopulateRead
  <2> HIDE DEF rec
  <2> QED BY <1>0, <1>2, <2>1, <2>2, PutReady, SameRows DEF PopulateRead, MovedInv
<1>3. CASE PayRead(r)
  <2> DEFINE rec == [Idle EXCEPT !.pc = "pay", !.period = today]
  <2>1. Ready(rec, status)
    BY <1>3 DEF PayRead, Was, Ready, Known, Idle
  <2>2. Put(r, rec)
    BY <1>3 DEF PayRead
  <2> HIDE DEF rec
  <2> QED BY <1>0, <1>3, <2>1, <2>2, PutReady, SameRows DEF PayRead, MovedInv
<1>4. CASE Populate(r)
  <2>1. End(r) /\ UNCHANGED status /\ Known(RuleEntry, status)
    BY <1>0, <1>4 DEF Populate, At, Ready
  <2>2. CASE Insert(RuleEntry)
    BY <1>0, <1>1, <2>1, <2>2, InsertRows, EndReady DEF MovedInv
  <2>3. CASE UNCHANGED <<rows, last, moved>>
    BY <1>0, <2>1, <2>3, SameRows, EndReady DEF MovedInv
  <2> QED BY <1>4, <2>2, <2>3 DEF Populate
<1>5. CASE Pay(r)
  <2>1. End(r) /\ UNCHANGED status /\ Known(BillEntry, status)
    BY <1>0, <1>5 DEF Pay, At, Ready
  <2>2. CASE Insert(BillEntry)
    BY <1>0, <1>1, <2>1, <2>2, InsertRows, EndReady DEF MovedInv
  <2>3. CASE UNCHANGED <<rows, last, moved>>
    BY <1>0, <2>1, <2>3, SameRows, EndReady DEF MovedInv
  <2> QED BY <1>5, <2>2, <2>3 DEF Pay
<1> QED BY <1>2, <1>3, <1>4, <1>5 DEF DueStep

\* Accounts open and close: no account goes back to new, and one that opens has
\* had no row to move it.
LEMMA AccountMoves ==
  ASSUME MovedInv, NEW r \in Req, AccountStep(r)
  PROVE  MovedInv'
<1> USE DEF Accounts, Due, History
<1>0. RowsInv /\ EffectInv /\ ReadyInv
  BY DEF MovedInv
<1>1. ASSUME NEW a \in Acct, OpenAccount(r, a)
      PROVE  MovedInv'
  <2>1. /\ status' = [status EXCEPT ![a] = "open"] /\ status[a] = "new"
        /\ UNCHANGED <<rows, last, reqs, moved>>
    BY <1>1 DEF OpenAccount
  <2>2. \A b \in Acct : /\ status[b] # "new" => status'[b] # "new"
                        /\ status'[b] # "closed" => status[b] # "closed"
    BY <1>0, <2>1 DEF RowsInv
  <2>3. RowsInv'
    <3>1. \A i \in Id : Known(rows'[i], status')
      BY <1>0, <2>1, <2>2 DEF RowsInv, Known
    <3>2. status' \in [Acct -> {"new", "open", "closed"}]
      BY <1>0, <2>1 DEF RowsInv
    <3> QED BY <1>0, <2>1, <3>1, <3>2 DEF RowsInv
  <2>4. EffectInv'
    BY <1>0, <2>1, <2>2 DEF EffectInv
  <2>5. \A s \in Req : Ready(reqs[s], status')
    BY <1>0, <2>2, KnownStays DEF ReadyInv, Ready
  <2> QED BY <1>0, <2>1, <2>3, <2>4, <2>5 DEF MovedInv, ReadyInv
<1>2. ASSUME NEW a \in Acct, CloseCheck(r, a)
      PROVE  MovedInv'
  <2> DEFINE rec == [Idle EXCEPT !.pc = "close", !.accts = {a}]
  <2>1. Ready(rec, status)
    BY DEF Ready, Idle
  <2>2. Put(r, rec)
    BY <1>2 DEF CloseCheck
  <2> HIDE DEF rec
  <2> QED BY <1>0, <1>2, <2>1, <2>2, PutReady, SameRows DEF CloseCheck, MovedInv
<1>3. CASE Close(r)
  <2>1. /\ status' = [a \in Acct |-> IF a \in reqs[r].accts THEN "closed" ELSE status[a]]
        /\ UNCHANGED <<rows, last, moved>> /\ End(r)
    BY <1>3 DEF Close
  <2>2. \A b \in Acct : /\ status[b] # "new" => status'[b] # "new"
                        /\ status'[b] # "closed" => status[b] # "closed"
    BY <1>0, <2>1 DEF RowsInv
  <2>3. RowsInv'
    <3>1. \A i \in Id : Known(rows'[i], status')
      BY <1>0, <2>1, <2>2 DEF RowsInv, Known
    <3>2. status' \in [Acct -> {"new", "open", "closed"}]
      BY <1>0, <2>1 DEF RowsInv
    <3> QED BY <1>0, <2>1, <3>1, <3>2 DEF RowsInv
  <2>4. EffectInv'
    BY <1>0, <2>1, <2>2 DEF EffectInv
  <2>5. \A s \in Req : Ready(reqs[s], status')
    BY <1>0, <2>2, KnownStays DEF ReadyInv, Ready
  <2>6. /\ reqs' = [s \in Req |-> reqs'[s]] /\ reqs'[r] = Idle
        /\ \A s \in Req : s # r => reqs'[s] = reqs[s]
    BY <1>0, <2>1, ReqsUpdated DEF End, ReadyInv
  <2>7. ReadyInv'
    BY <2>5, <2>6, IdleReady DEF ReadyInv
  <2> QED BY <2>3, <2>4, <2>7 DEF MovedInv
<1> QED BY <1>1, <1>2, <1>3 DEF AccountStep

LEMMA MovedStart ==
  ASSUME Init
  PROVE  MovedInv
<1>1. Missing \in KeptRow /\ Known(Missing, status)
  BY LedgerAssumption DEF KeptRow, Known, Named, Missing
<1>2. RowsInv
  BY <1>1 DEF Init, RowsInv, NoRows
<1>3. EffectInv
  BY MissingEffect DEF Init, EffectInv, NoRows
<1>4. ReadyInv
  BY IdleReady DEF Init, ReadyInv
<1> QED BY <1>2, <1>3, <1>4 DEF MovedInv

LEMMA GuardedMoves ==
  ASSUME Counted(RuleEntry), Counted(BillEntry), AccountNamed \/ Accounted',
         MovedInv, [GuardedNext]_vars
  PROVE  MovedInv'
<1>1. ASSUME NEW r \in Req, ClearOne(r)
      PROVE  MovedInv'
  BY <1>1, ClearedRows DEF ClearOne, ClearAll, MovedInv, ReadyInv, Accounts
<1>2. CASE Tick \/ UNCHANGED vars
  <2>1. UNCHANGED <<rows, last, moved, status, reqs>>
    BY <1>2 DEF Tick, vars, Accounts, History
  <2> QED BY <2>1, SameRows DEF MovedInv, ReadyInv
<1> QED BY <1>1, <1>2, RowMoves, DueMoves, AccountMoves DEF GuardedNext, Guarded

\* Where every income has an account of its own, a transaction has moved each
\* open account by its effect and once, whatever guarded requests interleave.
THEOREM EachRowMovesOnce == AccountNamed => (GuardedSpec => []MovedOnce)
<1> SUFFICES ASSUME AccountNamed
             PROVE  GuardedSpec => []MovedOnce
  OBVIOUS
<1>1. Init => MovedInv
  BY MovedStart
<1>2. MovedInv /\ [GuardedNext]_vars => MovedInv'
  <2>1. Counted(RuleEntry) /\ Counted(BillEntry)
    BY DEF AccountNamed
  <2> QED BY <2>1, GuardedMoves
<1>3. MovedInv => MovedOnce
  BY DEF MovedInv, EffectInv, MovedOnce, Open
<1> QED BY <1>1, <1>2, <1>3, PTL DEF GuardedSpec
-----------------------------------------------------------------------------
(* Balances agree with the ledger                                              *)

\* A stored balance is where the account started plus what was moved of it.
Reconciled == \A a \in Open : balance[a] = start[a] + Sum(moved[a], Id)

\* What makes the two of them agree with the rows: what was moved is their effect.
LEMMA Agrees ==
  ASSUME TypeOK, MovedInv, Reconciled
  PROVE  BalanceAgrees
<1> SUFFICES ASSUME NEW a \in Open
             PROVE  balance[a] = start[a] + Ledger(a)
  BY DEF BalanceAgrees
<1> DEFINE effect == [i \in Id |-> Effect(rows[i], a)]
<1>1. a \in Acct /\ status[a] # "closed"
  BY DEF Open
<1>2. \A i \in Id : moved[a][i] \in Int /\ moved[a][i] = effect[i]
  BY <1>1 DEF TypeOK, MovedInv, EffectInv
<1>3. Ledger(a) = Sum(effect, Id)
  BY DEF Ledger
<1> HIDE DEF effect
<1> QED BY <1>2, <1>3, IdFinite, SumSame DEF Reconciled

\* A shift moves the balance by the sum of what it moves.
LEMMA ShiftReconciled ==
  ASSUME TypeOK, Reconciled, NEW moves \in [Acct -> [Id -> Int]], Shift(moves),
         UNCHANGED <<status, start>>
  PROVE  Reconciled'
<1> SUFFICES ASSUME NEW a \in Open
             PROVE  balance'[a] = start[a] + Sum(moved'[a], Id)
  BY DEF Reconciled, Open
<1>1. a \in Acct
  BY DEF Open
<1>2. \A i \in Id : /\ moved[a][i] \in Int /\ moves[a][i] \in Int
                    /\ moved'[a][i] = moved[a][i] + moves[a][i]
  BY <1>1 DEF TypeOK, Shift
<1>3. /\ Sum(moved[a], Id) \in Int /\ Sum(moves[a], Id) \in Int
      /\ Sum(moved'[a], Id) = Sum(moved[a], Id) + Sum(moves[a], Id)
  <2> DEFINE f == moved[a]
             g == moves[a]
             h == moved'[a]
  <2>1. \A i \in Id : f[i] \in Int /\ g[i] \in Int /\ h[i] = f[i] + g[i]
    BY <1>2
  <2> HIDE DEF f, g, h
  <2>2. Sum(f, Id) \in Int /\ Sum(g, Id) \in Int
    BY <2>1, IdFinite, SumType
  <2>3. Sum(h, Id) = Sum(f, Id) + Sum(g, Id)
    BY <2>1, IdFinite, SumAdds
  <2> QED BY <2>2, <2>3 DEF f, g, h
<1>4. balance'[a] = balance[a] + Sum(moves[a], Id) /\ balance[a] \in Int /\ start[a] \in Int
  BY <1>1 DEF Shift, TypeOK
<1>5. balance[a] = start[a] + Sum(moved[a], Id)
  BY DEF Reconciled
<1> QED BY <1>3, <1>4, <1>5

LEMMA InsertReconciled ==
  ASSUME TypeOK, Reconciled, NEW e \in Row, Insert(e), UNCHANGED <<status, start>>
  PROVE  Reconciled'
<1> DEFINE will == [NoRows EXCEPT ![last'] = e]
<1>1. NoRows \in [Id -> Row] /\ will \in [Id -> Row]
  BY MissingRow DEF NoRows
<1>2. Shift(Moves(NoRows, will))
  BY DEF Insert
<1> HIDE DEF will
<1> QED BY <1>1, <1>2, MovesTyped, ShiftReconciled

LEMMA SameReconciled ==
  ASSUME Reconciled, UNCHANGED <<balance, moved, status, start>>
  PROVE  Reconciled'
  BY DEF Reconciled, Open

LEMMA RowReconciled ==
  ASSUME TypeOK, Reconciled, NEW r \in Req, RowStep(r) \/ DueStep(r) \/ BulkStep(r)
  PROVE  Reconciled'
<1> USE DEF Accounts, Due, History
<1> DEFINE q == reqs[r]
<1>0. /\ q.was \in [Id -> Row] /\ q.entry \in Row /\ Missing \in Row /\ NoRows \in [Id -> Row]
      /\ RuleEntry \in Row /\ BillEntry \in Row
  BY MissingRow, EntryRow DEF TypeOK, ReqType, NoRows
<1>1. UNCHANGED <<status, start>>
  BY DEF RowStep, DueStep, BulkStep, CreateCheck, Create, EditRead, Edit, DeleteRead, Delete,
         PopulateRead, Populate, PayRead, Pay, BulkRead, BulkDelete, BulkType
<1>2. CASE CreateCheck(r) \/ EditRead(r) \/ DeleteRead(r) \/ PopulateRead(r) \/ PayRead(r)
           \/ BulkRead(r)
  BY <1>1, <1>2, SameReconciled
  DEF CreateCheck, EditRead, DeleteRead, PopulateRead, PayRead, BulkRead
<1>3. CASE Create(r)
  BY <1>0, <1>1, <1>3, InsertReconciled DEF Create
<1>4. CASE Edit(r)
  <2> DEFINE will == [i \in Id |-> IF i \in q.ids THEN q.entry ELSE Missing]
  <2>1. will \in [Id -> Row]
    BY <1>0
  <2>2. Shift(EditMoves(q.was, will)) \/ UNCHANGED <<balance, moved>>
    BY <1>4 DEF Edit
  <2> HIDE DEF will, q
  <2> QED BY <1>0, <1>1, <2>1, <2>2, MovesTyped, ShiftReconciled, SameReconciled
<1>5. CASE Delete(r) \/ BulkDelete(r)
  <2>1. Shift(EditMoves(q.was, NoRows)) \/ UNCHANGED <<balance, moved>>
    BY <1>5 DEF Delete, BulkDelete
  <2> HIDE DEF q
  <2> QED BY <1>0, <1>1, <2>1, MovesTyped, ShiftReconciled, SameReconciled
<1>6. CASE Populate(r)
  <2>1. Insert(RuleEntry) \/ UNCHANGED <<balance, moved>>
    BY <1>6 DEF Populate
  <2> QED BY <1>0, <1>1, <2>1, InsertReconciled, SameReconciled
<1>7. CASE Pay(r)
  <2>1. Insert(BillEntry) \/ UNCHANGED <<balance, moved>>
    BY <1>7 DEF Pay
  <2> QED BY <1>0, <1>1, <2>1, InsertReconciled, SameReconciled
<1>8. CASE BulkType(r)
  <2> DEFINE will == [i \in Id |-> IF i \in q.ids THEN Typed(q, i) ELSE Missing]
  <2>1. \A i \in Id : Typed(q, i) \in Row
    BY <1>0 DEF Typed, Row
  <2>2. will \in [Id -> Row]
    BY <1>0, <2>1
  <2>3. Shift(Moves(q.was, will))
    BY <1>8 DEF BulkType
  <2> HIDE DEF will, q
  <2> QED BY <1>0, <1>1, <2>2, <2>3, MovesTyped, ShiftReconciled
<1> QED
  BY <1>2, <1>3, <1>4, <1>5, <1>6, <1>7, <1>8 DEF RowStep, DueStep, BulkStep

\* An account opens at its starting balance, and no row has moved it before.
LEMMA AccountReconciled ==
  ASSUME TypeOK, MovedInv, Reconciled, NEW r \in Req, AccountStep(r)
  PROVE  Reconciled'
<1>1. ASSUME NEW a \in Acct, OpenAccount(r, a)
      PROVE  Reconciled'
  <2>1. PICK b \in Amounts : start' = [start EXCEPT ![a] = b] /\ balance' = [balance EXCEPT ![a] = b]
    BY <1>1 DEF OpenAccount
  <2>2. /\ status[a] = "new" /\ status' = [status EXCEPT ![a] = "open"] /\ moved' = moved
        /\ b \in Int
    BY <1>1, LedgerAssumption DEF OpenAccount, History
  <2>3. \A i \in Id : moved[a][i] = 0
    <3>1. \A i \in Id : rows[i] \in KeptRow /\ a \notin Named(rows[i])
      BY <2>2 DEF MovedInv, RowsInv, Known
    <3>2. \A i \in Id : Effect(rows[i], a) = 0
      BY <3>1, Unnamed
    <3> QED BY <2>2, <3>2 DEF MovedInv, EffectInv
  <2>4. Sum(moved[a], Id) = 0
    BY <2>3, IdFinite, SumZero
  <2>5. start'[a] = b /\ balance'[a] = b
    BY <2>1 DEF TypeOK
  <2>6. \A c \in Acct : c # a => /\ start'[c] = start[c] /\ balance'[c] = balance[c]
                                 /\ status'[c] = status[c]
    BY <2>1, <2>2 DEF TypeOK
  <2> QED BY <2>2, <2>4, <2>5, <2>6 DEF Reconciled, Open
<1>2. ASSUME NEW a \in Acct, CloseCheck(r, a)
      PROVE  Reconciled'
  BY <1>2, SameReconciled DEF CloseCheck, Accounts, History
<1>3. CASE Close(r)
  <2>1. UNCHANGED <<start, balance, moved>>
    BY <1>3 DEF Close, History
  <2>2. \A a \in Acct : status'[a] = "open" => status[a] = "open"
    BY <1>3 DEF Close
  <2> QED BY <2>1, <2>2 DEF Reconciled, Open
<1> QED BY <1>1, <1>2, <1>3 DEF AccountStep

\* Clearing a profile puts its accounts back where they started.
LEMMA ClearReconciled ==
  ASSUME TypeOK, Reconciled, NEW r \in Req, NEW p \in Profile, ClearAll(r, p, {p})
  PROVE  Reconciled'
<1> DEFINE reset(a) == a \in Open /\ Owner[a] = p
<1>1. /\ UNCHANGED <<status, start>>
      /\ balance' = [a \in Acct |-> IF reset(a) THEN start[a] ELSE balance[a]]
      /\ moved' = [a \in Acct |-> [i \in Id |-> IF reset(a) THEN 0 ELSE moved[a][i]]]
  BY DEF ClearAll, Accounts
<1> SUFFICES ASSUME NEW a \in Open
             PROVE  balance'[a] = start[a] + Sum(moved'[a], Id)
  BY <1>1 DEF Reconciled, Open
<1>2. a \in Acct /\ start[a] \in Int
  BY DEF Open, TypeOK
<1>3. CASE reset(a)
  <2>1. balance'[a] = start[a] /\ \A i \in Id : moved'[a][i] = 0
    BY <1>1, <1>2, <1>3
  <2>2. Sum(moved'[a], Id) = 0
    BY <2>1, IdFinite, SumZero
  <2> QED BY <1>2, <2>1, <2>2
<1>4. CASE ~reset(a)
  <2>1. balance'[a] = balance[a] /\ moved'[a] = [i \in Id |-> moved[a][i]]
    BY <1>1, <1>2, <1>4
  <2>2. moved'[a] = moved[a]
    BY <1>2, <2>1 DEF TypeOK
  <2> QED BY <2>1, <2>2 DEF Reconciled
<1> QED BY <1>3, <1>4

LEMMA GuardedReconciled ==
  ASSUME TypeOK, MovedInv, Reconciled, NEW r \in Req, Guarded(r)
  PROVE  Reconciled'
  BY RowReconciled, AccountReconciled, ClearReconciled DEF Guarded, ClearOne
-----------------------------------------------------------------------------
(* Bulk requests that nothing else meets                                       *)

\* A type change takes from each row what it moved and counts it anew: its
\* destination, which it loses, is one only a transfer pays into.
LEMMA TypedKept ==
  ASSUME NEW e \in Kept, NEW t \in Types \ {"transfer"}
  PROVE  /\ [e EXCEPT !.type = t, !.to = None] \in Kept
         /\ \A st : Known(e, st) => Known([e EXCEPT !.type = t, !.to = None], st)
<1> DEFINE will == [e EXCEPT !.type = t, !.to = None]
<1>1. e \in Entry /\ WellFormed(e)
  BY KeptFields
<1>2. /\ will.type = t /\ will.from = e.from /\ will.to = None /\ will.profile = e.profile
      /\ will \in Entry
  BY <1>1 DEF Entry
<1> HIDE DEF will
<1>3. WellFormed(will) /\ Counted(will)
  BY <1>1, <1>2 DEF WellFormed, Counted
<1>4. \A st : Known(e, st) => Known(will, st)
  BY <1>2 DEF Known, Named
<1>5. will \in Kept
  BY <1>2, <1>3 DEF Kept
<1> QED BY <1>4, <1>5 DEF will

LEMMA TypedEffect ==
  ASSUME NEW e \in Kept, NEW t \in Types \ {"transfer"}, Counted([e EXCEPT !.type = t]),
         NEW a \in Acct
  PROVE  /\ Effect([e EXCEPT !.type = t, !.to = None], a) = Effect([e EXCEPT !.type = t], a)
         /\ Effect([e EXCEPT !.type = t], a) \in Int
<1> DEFINE typed == [e EXCEPT !.type = t]
           will == [e EXCEPT !.type = t, !.to = None]
<1>1. e \in Entry
  BY KeptFields
<1>2. /\ typed.type = t /\ typed.value = e.value /\ typed.from = e.from /\ typed.to = e.to
      /\ will.type = t /\ will.value = e.value /\ will.from = e.from /\ will.to = None
      /\ e.value \in Int
  BY <1>1 DEF Entry
<1>3. Counted(typed)
  OBVIOUS
<1> HIDE DEF typed, will
<1>4. Into(typed, a) = 0 /\ Into(will, a) = 0
  BY <1>2, <1>3, LedgerAssumption DEF Into, Arrives, Counted
<1>5. Out(typed, a) = Out(will, a) /\ In(typed, a) = In(will, a)
  BY <1>2 DEF Out, In
<1>6. Out(typed, a) \in Int /\ In(typed, a) \in Int
  BY <1>2 DEF Out, In
<1>7. Effect(will, a) = Effect(typed, a) /\ Effect(typed, a) \in Int
  BY <1>4, <1>5, <1>6 DEF Effect
<1> QED BY <1>7 DEF typed, will

LEMMA TypedRows ==
  ASSUME TypeOK, RowsInv, EffectInv, NEW r \in Req, UnchangedSince(r), BulkType(r),
         Ready(reqs[r], status)
  PROVE  RowsInv' /\ EffectInv'
<1> DEFINE q == reqs[r]
           t == q.entry.type
           will == [i \in Id |-> IF i \in q.ids THEN Typed(q, i) ELSE Missing]
           moves == Moves(q.was, will)
           now(i) == [rows[i] EXCEPT !.type = t, !.to = None]
<1>1. Shift(moves) /\ UNCHANGED <<last, status>>
  BY DEF BulkType, Accounts
<1>2. \A a \in Acct, i \in Id :
        moves[a][i] = IF a \in Open THEN Effect(will[i], a) - Effect(q.was[i], a) ELSE 0
  BY DEF Moves
<1>3. /\ q.was \in [Id -> KeptRow] /\ q.ids \subseteq Id
      /\ \A i \in Id : i \in q.ids <=> q.was[i] # Missing
      /\ t \in Types \ {"transfer"} /\ \A i \in q.ids : Counted(Typed(q, i))
  BY DEF Ready, BulkType, At
<1>4. \A i \in q.ids : /\ rows[i] = q.was[i] /\ rows[i] \in Kept
                       /\ Typed(q, i) = [rows[i] EXCEPT !.type = t]
  BY <1>3 DEF UnchangedSince, KeptRow, Typed
<1>5. \A i \in Id : /\ i \in q.ids => rows'[i] = now(i) /\ will[i] = Typed(q, i)
                    /\ i \notin q.ids => rows'[i] = rows[i] /\ will[i] = Missing
  BY <1>3, <1>4 DEF BulkType, UnchangedSince
<1>6. ASSUME NEW i \in q.ids
      PROVE  /\ now(i) \in Kept /\ \A st : Known(rows[i], st) => Known(now(i), st)
             /\ \A a \in Acct : /\ Effect(now(i), a) = Effect(Typed(q, i), a)
                                /\ Effect(Typed(q, i), a) \in Int
  <2>1. /\ rows[i] \in Kept /\ t \in Types \ {"transfer"}
        /\ Counted([rows[i] EXCEPT !.type = t]) /\ Typed(q, i) = [rows[i] EXCEPT !.type = t]
    BY <1>3, <1>4
  <2> HIDE DEF t, q
  <2> DEFINE e == rows[i]
  <2>2. e \in Kept /\ Counted([e EXCEPT !.type = t])
    BY <2>1
  <2> HIDE DEF e
  <2>3. /\ [e EXCEPT !.type = t, !.to = None] \in Kept
        /\ \A st : Known(e, st) => Known([e EXCEPT !.type = t, !.to = None], st)
    BY <2>1, <2>2, TypedKept
  <2>4. \A a \in Acct :
          /\ Effect([e EXCEPT !.type = t, !.to = None], a) = Effect([e EXCEPT !.type = t], a)
          /\ Effect([e EXCEPT !.type = t], a) \in Int
    BY <2>1, <2>2, TypedEffect
  <2> QED BY <2>1, <2>3, <2>4 DEF e
<1>7. \A a \in Acct, i \in Id : Effect(will[i], a) \in Int /\ Effect(q.was[i], a) \in Int
  <2>1. \A a \in Acct : Effect(Missing, a) \in Int
    BY MissingEffect
  <2> HIDE DEF will, q
  <2> QED BY <1>3, <1>5, <1>6, <2>1, EffectType
<1>8. rows' = [i \in Id |-> rows'[i]]
  BY DEF BulkType
<1> HIDE DEF q, t, will, moves, now
<1>9. moved' \in [Acct -> [Id -> Int]]
  BY <1>1, <1>2, <1>7, ShiftType
<1>10. ASSUME NEW a \in Acct, NEW i \in Id, status'[a] # "closed"
       PROVE  moved'[a][i] = Effect(rows'[i], a)
  <2>1. moved'[a][i] = moved[a][i] + moves[a][i]
    BY <1>1, ShiftMoves
  <2>2. moved[a][i] = Effect(rows[i], a) /\ rows[i] \in KeptRow
    BY <1>1, <1>10 DEF EffectInv, RowsInv
  <2>3. Effect(rows[i], a) \in Int
    BY <2>2, EffectType
  <2>4. CASE i \notin q.ids
    <3>1. will[i] = Missing /\ q.was[i] = Missing /\ rows'[i] = rows[i]
      BY <1>3, <1>5, <2>4
    <3>2. moves[a][i] = 0
      BY <1>2, <3>1, MissingEffect
    <3> QED BY <2>1, <2>2, <2>3, <3>1, <3>2
  <2>5. CASE i \in q.ids /\ a \in Open
    <3>1. moves[a][i] = Effect(now(i), a) - Effect(rows[i], a) /\ rows'[i] = now(i)
      BY <1>2, <1>4, <1>5, <1>6, <2>5
    <3>2. Effect(now(i), a) \in Int
      BY <1>6, <2>5
    <3> QED BY <2>1, <2>2, <2>3, <3>1, <3>2
  <2>6. CASE i \in q.ids /\ a \notin Open
    <3>1. status[a] = "new"
      BY <1>1, <1>10, <2>6 DEF Open, RowsInv
    <3>2. Known(rows[i], status) /\ Known(now(i), status) /\ now(i) \in KeptRow
      BY <1>6, <2>6 DEF RowsInv, KeptRow
    <3>3. Effect(now(i), a) = 0 /\ Effect(rows[i], a) = 0
      BY <2>2, <3>1, <3>2, Unnamed DEF Known
    <3>4. moves[a][i] = 0 /\ rows'[i] = now(i)
      BY <1>2, <1>5, <2>6
    <3> QED BY <2>1, <2>2, <3>3, <3>4
  <2> QED BY <2>4, <2>5, <2>6
<1>11. RowsInv'
  <2>1. \A i \in Id : rows'[i] \in KeptRow /\ Known(rows'[i], status')
    BY <1>1, <1>5, <1>6 DEF RowsInv, KeptRow
  <2>2. rows' \in [Id -> KeptRow]
    BY <1>8, <2>1
  <2>3. \A i \in Id : i > last' => rows'[i] = Missing
    BY <1>1, <1>3, <1>4, <1>5 DEF RowsInv
  <2> QED BY <1>1, <1>9, <2>1, <2>2, <2>3 DEF RowsInv
<1> QED BY <1>10, <1>11 DEF EffectInv

\* A bulk request that finds the rows it read moves what they move.
LEMMA BulkMoves ==
  ASSUME TypeOK, MovedInv, Accounted', NEW r \in Req, BulkStep(r),
         reqs[r].pc \in {"bulkDelete", "bulkType"} => UnchangedSince(r)
  PROVE  MovedInv'
<1> USE DEF Accounts, Due, History
<1>0. RowsInv /\ EffectInv /\ ReadyInv /\ Ready(reqs[r], status)
  BY DEF MovedInv, ReadyInv
<1>1. CASE BulkRead(r)
  <2>1. PICK p \in Profile : \E ids \in SUBSET {i \in Id : rows[i].profile = p} :
          \/ Put(r, [Idle EXCEPT !.pc = "bulkDelete", !.ids = ids, !.was = Read(ids)])
          \/ \E t \in Types \ {"transfer"} :
               Put(r, [Idle EXCEPT !.pc = "bulkType", !.ids = ids, !.was = Read(ids),
                                   !.entry = [Missing EXCEPT !.type = t]])
    BY <1>1 DEF BulkRead
  <2>2. PICK ids \in SUBSET {i \in Id : rows[i].profile = p} :
          \/ Put(r, [Idle EXCEPT !.pc = "bulkDelete", !.ids = ids, !.was = Read(ids)])
          \/ \E t \in Types \ {"transfer"} :
               Put(r, [Idle EXCEPT !.pc = "bulkType", !.ids = ids, !.was = Read(ids),
                                   !.entry = [Missing EXCEPT !.type = t]])
    BY <2>1
  <2>3. /\ ids \subseteq Id /\ Read(ids) \in [Id -> KeptRow]
        /\ \A i \in Id : i \in ids <=> Read(ids)[i] # Missing
    BY <1>0, LedgerAssumption DEF Read, RowsInv, KeptRow, Missing
  <2>4. UNCHANGED <<rows, last, moved, status>>
    BY <1>1 DEF BulkRead
  <2>5. CASE Put(r, [Idle EXCEPT !.pc = "bulkDelete", !.ids = ids, !.was = Read(ids)])
    <3> DEFINE rec == [Idle EXCEPT !.pc = "bulkDelete", !.ids = ids, !.was = Read(ids)]
    <3>1. rec.pc = "bulkDelete" /\ rec.ids = ids /\ rec.was = Read(ids)
      BY DEF Idle
    <3>2. Put(r, rec)
      BY <2>5
    <3> HIDE DEF rec
    <3>3. Ready(rec, status)
      BY <2>3, <3>1 DEF Ready
    <3> QED BY <1>0, <2>4, <3>2, <3>3, PutReady, SameRows DEF MovedInv
  <2>6. ASSUME NEW t \in Types \ {"transfer"},
               Put(r, [Idle EXCEPT !.pc = "bulkType", !.ids = ids, !.was = Read(ids),
                                   !.entry = [Missing EXCEPT !.type = t]])
        PROVE  MovedInv'
    <3> DEFINE rec == [Idle EXCEPT !.pc = "bulkType", !.ids = ids, !.was = Read(ids),
                                   !.entry = [Missing EXCEPT !.type = t]]
    <3>1. rec.pc = "bulkType" /\ rec.ids = ids /\ rec.was = Read(ids) /\ rec.entry.type = t
      BY DEF Idle, Missing
    <3>2. Put(r, rec)
      BY <2>6
    <3> HIDE DEF rec
    <3>3. reqs'[r] = rec
      BY <1>0, <3>2, ReqsUpdated DEF ReadyInv
    <3>4. \A i \in rec.ids : Counted(Typed(rec, i))
      BY <3>1, <3>3 DEF Accounted, At
    <3>5. Ready(rec, status)
      BY <2>3, <3>1, <3>4 DEF Ready
    <3> QED BY <1>0, <2>4, <3>2, <3>5, PutReady, SameRows DEF MovedInv
  <2> QED BY <2>2, <2>5, <2>6
<1>2. CASE BulkDelete(r)
  <2>1. End(r) /\ UNCHANGED <<last, status>> /\ reqs[r].pc = "bulkDelete"
    BY <1>2 DEF BulkDelete, At
  <2>2. Shift(EditMoves(reqs[r].was, NoRows)) /\ rows' = Replaced(reqs[r].ids, Missing)
    BY <1>2 DEF BulkDelete
  <2>3. Missing \in KeptRow /\ Known(Missing, status)
    BY LedgerAssumption DEF KeptRow, Known, Named, Missing
  <2>4. /\ NoRows \in [Id -> KeptRow]
        /\ \A i \in Id : NoRows[i] = IF i \in reqs[r].ids THEN Missing ELSE Missing
    BY <2>3 DEF NoRows
  <2> QED BY <1>0, <2>1, <2>2, <2>3, <2>4, RewrittenRows, EndReady DEF MovedInv
<1>3. CASE BulkType(r)
  <2>1. End(r) /\ UNCHANGED <<last, status>> /\ reqs[r].pc = "bulkType"
    BY <1>3 DEF BulkType, At
  <2> QED BY <1>0, <1>3, <2>1, TypedRows, EndReady DEF MovedInv
<1> QED BY <1>1, <1>2, <1>3 DEF BulkStep
-----------------------------------------------------------------------------
(* Recomputing                                                                 *)

\* What a recompute has added up for an account: the parts it has read.
Done(q, part, a) == IF part \in q.left THEN 0 ELSE Part(part, a)
SoFar(q, a) == (Done(q, "start", a) + Done(q, "out", a)) + (Done(q, "in", a) + Done(q, "into", a))
RecomputeInv ==
  \A r \in Req : At(r, "recompute") =>
    /\ Alone(r) /\ reqs[r].accts \subseteq Open
    /\ \A a \in reqs[r].accts : reqs[r].sum[a] = SoFar(reqs[r], a)

\* The parts of the ledger add up to the effects of its rows.
LEMMA LedgerParts ==
  ASSUME TypeOK, NEW a \in Acct
  PROVE  /\ Ledger(a) \in Int
         /\ start[a] + Ledger(a)
              = (Part("start", a) + Part("out", a)) + (Part("in", a) + Part("into", a))
<1> DEFINE out == [i \in Id |-> Out(rows[i], a)]
           in == [i \in Id |-> In(rows[i], a)]
           into == [i \in Id |-> Into(rows[i], a)]
           effect == [i \in Id |-> Effect(rows[i], a)]
           credits == [i \in Id |-> in[i] + into[i]]
<1>1. \A i \in Id : /\ Out(rows[i], a) \in Int /\ In(rows[i], a) \in Int
                    /\ Into(rows[i], a) \in Int /\ Effect(rows[i], a) \in Int
  BY EffectNumber DEF TypeOK
<1>2. \A i \in Id : /\ out[i] \in Int /\ in[i] \in Int /\ into[i] \in Int /\ effect[i] \in Int
                    /\ effect[i] = In(rows[i], a) + Into(rows[i], a) - Out(rows[i], a)
  BY <1>1 DEF Effect
<1>3. \A i \in Id : /\ credits[i] = in[i] + into[i]
                    /\ credits[i] = effect[i] + out[i]
  BY <1>1, <1>2
<1>4. /\ Part("start", a) = start[a] /\ Part("out", a) = -Sum(out, Id)
      /\ Part("in", a) = Sum(in, Id) /\ Part("into", a) = Sum(into, Id)
      /\ Ledger(a) = Sum(effect, Id)
  BY DEF Part, Ledger
<1> HIDE DEF out, in, into, effect, credits
<1>5. /\ Sum(out, Id) \in Int /\ Sum(in, Id) \in Int /\ Sum(into, Id) \in Int
      /\ Sum(effect, Id) \in Int
  BY <1>2, IdFinite, SumType
<1>6. Sum(credits, Id) = Sum(in, Id) + Sum(into, Id)
  BY <1>2, <1>3, IdFinite, SumAdds
<1>7. Sum(credits, Id) = Sum(effect, Id) + Sum(out, Id)
  BY <1>2, <1>3, IdFinite, SumAdds
<1>8. start[a] \in Int
  BY DEF TypeOK
<1>9. \A s, o, i, t, e \in Int : i + t = e + o => s + e = (s + (-o)) + (i + t)
  OBVIOUS
<1>10. start[a] + Sum(effect, Id) = (start[a] + (-Sum(out, Id))) + (Sum(in, Id) + Sum(into, Id))
  BY <1>5, <1>6, <1>7, <1>8, <1>9
<1> QED BY <1>4, <1>5, <1>10

\* A part that is read counts, the others stay as they were.
LEMMA PartRead ==
  ASSUME TypeOK, NEW q, NEW p, NEW part \in q.left, q.left \subseteq Parts, NEW a \in Acct,
         p.left = q.left \ {part}
  PROVE  SoFar(p, a) = SoFar(q, a) + Part(part, a)
<1>1. \A x \in Parts : Part(x, a) \in Int
  BY PartNumber
<1>2. \A x \in Parts : Done(q, x, a) \in Int /\ Done(p, x, a) \in Int
  BY <1>1 DEF Done
<1>3. Done(q, part, a) = 0 /\ Done(p, part, a) = Part(part, a)
  BY DEF Done
<1>4. \A x \in Parts : x # part => Done(p, x, a) = Done(q, x, a)
  BY DEF Done
<1>5. part \in {"start", "out", "in", "into"} /\ Parts = {"start", "out", "in", "into"}
  BY DEF Parts
<1>6. Part(part, a) \in Int
  BY <1>1
<1> QED BY <1>2, <1>3, <1>4, <1>5, <1>6 DEF SoFar

\* A recompute that has read every part writes where its accounts started and what
\* their rows move.
LEMMA Repairs ==
  ASSUME TypeOK, RecomputeInv, NEW r \in Req, Recompute(r), NEW a \in reqs[r].accts
  PROVE  /\ balance'[a] = start[a] + Ledger(a)
         /\ reqs[r].sum[a] = start[a] + Ledger(a)
<1>1. At(r, "recompute") /\ reqs[r].left = {} /\ a \in Open /\ a \in Acct
  BY DEF Recompute, RecomputeInv, Open
<1>2. reqs[r].sum[a] = SoFar(reqs[r], a)
  BY <1>1 DEF RecomputeInv
<1>3. \A part \in Parts : Done(reqs[r], part, a) = Part(part, a)
  BY <1>1 DEF Done
<1>4. SoFar(reqs[r], a) = (Part("start", a) + Part("out", a)) + (Part("in", a) + Part("into", a))
  BY <1>3 DEF SoFar, Parts
<1>5. balance'[a] = reqs[r].sum[a]
  BY <1>1 DEF Recompute
<1> QED BY <1>1, <1>2, <1>4, <1>5, LedgerParts

\* The steps of a recompute that nothing else meets.
LEMMA RecomputeAdds ==
  ASSUME TypeOK, RecomputeInv, NEW r \in Req, Alone(r), RecomputeStep(r)
  PROVE  RecomputeInv'
<1> USE DEF Accounts, Due, History
<1>0. reqs = [s \in Req |-> reqs[s]] /\ reqs[r] \in ReqType
  BY DEF TypeOK
<1>1. ASSUME NEW s \in Req, s # r, \A z \in Req : z # r => reqs'[z] = reqs[z]
      PROVE  reqs'[s].pc = "idle"
  BY <1>1 DEF Alone, At
<1>2. CASE RecomputeBegin(r)
  <2>1. PICK accts \in SUBSET Open :
          Put(r, [Idle EXCEPT !.pc = "recompute", !.accts = accts, !.left = Parts])
    BY <1>2 DEF RecomputeBegin, Open
  <2> DEFINE rec == [Idle EXCEPT !.pc = "recompute", !.accts = accts, !.left = Parts]
  <2>2. /\ rec.accts = accts /\ rec.left = Parts /\ rec.pc = "recompute"
        /\ rec.sum = [a \in Acct |-> 0]
    BY DEF Idle
  <2>3. Put(r, rec)
    BY <2>1
  <2> HIDE DEF rec
  <2>4. reqs'[r] = rec /\ \A s \in Req : s # r => reqs'[s] = reqs[s]
    BY <1>0, <2>3, ReqsUpdated
  <2>5. \A s \in Req : s # r => reqs'[s].pc = "idle"
    BY <1>1, <2>4
  <2>6. UNCHANGED status
    BY <1>2 DEF RecomputeBegin
  <2>7. \A a \in accts : rec.sum[a] = 0 /\ a \in Acct
    BY <2>2 DEF Open
  <2>8. ASSUME NEW a \in accts
        PROVE  rec.sum[a] = SoFar(rec, a)'
    <3>1. rec.left = Parts
      BY <2>2
    <3>2. SoFar(rec, a)' = 0
      BY <3>1 DEF SoFar, Done, Parts
    <3> QED BY <2>7, <3>2
  <2> QED BY <2>2, <2>4, <2>5, <2>6, <2>8 DEF RecomputeInv, At, Alone, Open
<1>3. CASE RecomputeRead(r)
  <2>1. PICK part \in reqs[r].left :
          Put(r, [reqs[r] EXCEPT !.left = @ \ {part},
                                 !.sum = [a \in Acct |-> @[a] + Part(part, a)]])
    BY <1>3 DEF RecomputeRead
  <2> DEFINE q == reqs[r]
             rec == [q EXCEPT !.left = @ \ {part}, !.sum = [a \in Acct |-> @[a] + Part(part, a)]]
  <2>2. /\ rec.accts = q.accts /\ rec.left = q.left \ {part} /\ rec.pc = q.pc
        /\ \A a \in Acct : rec.sum[a] = q.sum[a] + Part(part, a)
    BY <1>0 DEF ReqType
  <2>3. Put(r, rec)
    BY <2>1
  <2>9. q.left \subseteq Parts /\ part \in q.left
    BY <1>0, <2>1 DEF ReqType
  <2> HIDE DEF rec
  <2>4. reqs'[r] = rec /\ \A s \in Req : s # r => reqs'[s] = reqs[s]
    BY <1>0, <2>3, ReqsUpdated
  <2>5. \A s \in Req : s # r => reqs'[s].pc = "idle"
    BY <1>1, <2>4
  <2>6. UNCHANGED <<status, rows, start>> /\ At(r, "recompute")
    BY <1>3 DEF RecomputeRead
  <2>7. q.accts \subseteq Open /\ \A a \in q.accts : q.sum[a] = SoFar(q, a)
    BY <2>6 DEF RecomputeInv
  <2> HIDE DEF q
  <2>8. ASSUME NEW a \in q.accts
        PROVE  rec.sum[a] = SoFar(reqs[r], a)'
    <3>1. a \in Acct
      BY <2>7 DEF Open
    <3>2. SoFar(rec, a) = SoFar(q, a) + Part(part, a)
      BY <2>2, <2>9, <3>1, PartRead
    <3>3. rec.sum[a] = SoFar(rec, a)
      BY <2>2, <2>7, <3>1, <3>2
    <3>4. SoFar(reqs[r], a)' = SoFar(rec, a)
      BY <2>4, <2>6 DEF SoFar, Done, Part, Sum
    <3> QED BY <3>3, <3>4
  <2> QED BY <2>2, <2>4, <2>5, <2>6, <2>7, <2>8 DEF RecomputeInv, At, Alone, Open
<1>4. CASE Recompute(r)
  <2>1. reqs'[r] = Idle /\ \A s \in Req : s # r => reqs'[s] = reqs[s]
    BY <1>0, <1>4, ReqsUpdated DEF Recompute, End
  <2>2. \A s \in Req : reqs'[s].pc = "idle"
    BY <1>1, <2>1 DEF Idle
  <2> QED BY <2>2 DEF RecomputeInv, At
<1> QED BY <1>2, <1>3, <1>4 DEF RecomputeStep
-----------------------------------------------------------------------------
(* The tours                                                                   *)

Bulk == {"bulkDelete", "bulkType"}
Unbound == Bulk \cup {"form", "recompute"}

\* What a bulk request or a form has read is still so.
AsRead(r) ==
  /\ reqs[r].pc \in Bulk => UnchangedSince(r)
  /\ At(r, "form") => \A a \in reqs[r].accts : reqs[r].sum[a] = balance[a] - start[a]

\* Requests that are not bound to what they read meet no other.
MeetInv ==
  /\ TypeOK /\ RecomputeInv
  /\ tour \in {"together", "one by one", "drift"}
  /\ tour = "together" => \A r \in Req : reqs[r].pc \notin Unbound
  /\ tour = "one by one" => \A r \in Req : At(r, "idle") \/ Alone(r)

\* Outside "drift" what was moved of the balances is the effect of the rows.
TourInv ==
  /\ MeetInv
  /\ tour = "one by one" => \A r \in Req : AsRead(r)
  /\ tour # "drift" => MovedInv /\ Reconciled

\* A request moves no other.
LEMMA OthersStay ==
  ASSUME TypeOK, NEW r \in Req,
         Guarded(r) \/ BulkStep(r) \/ FormStep(r) \/ RecomputeStep(r)
  PROVE  \A s \in Req : s # r => reqs'[s] = reqs[s]
<1>1. (\E rec : Put(r, rec)) \/ UNCHANGED reqs
  BY DEF Guarded, RowStep, DueStep, BulkStep, AccountStep, FormStep, RecomputeStep, ClearOne,
         CreateCheck, Create, EditRead, Edit, DeleteRead, Delete, PopulateRead, Populate,
         PayRead, Pay, BulkRead, BulkDelete, BulkType, ClearAll, OpenAccount, CloseCheck,
         Close, OpenForm, SaveForm, RecomputeBegin, RecomputeRead, Recompute, End
<1> QED BY <1>1, ReqsUpdated DEF TypeOK

LEMMA PutPc ==
  ASSUME TypeOK, NEW r \in Req, NEW rec, Put(r, rec)
  PROVE  reqs'[r].pc = rec.pc
  BY ReqsUpdated DEF TypeOK

LEMMA EndPc ==
  ASSUME TypeOK, NEW r \in Req, End(r)
  PROVE  reqs'[r].pc = "idle"
  BY PutPc DEF End, Idle

\* Guarded requests keep to states of their own, ...
LEMMA GuardedPc ==
  ASSUME TypeOK, NEW r \in Req, Guarded(r)
  PROVE  reqs[r].pc \notin Unbound /\ reqs'[r].pc \notin Unbound
<1> USE DEF Unbound, Bulk, At
<1>1. CASE Create(r) \/ Edit(r) \/ Delete(r) \/ Populate(r) \/ Pay(r) \/ Close(r)
  BY <1>1, EndPc DEF Create, Edit, Delete, Populate, Pay, Close
<1>2. CASE CreateCheck(r)
  <2>1. reqs'[r].pc = "create"
    BY <1>2 DEF CreateCheck, Put, Idle, TypeOK
  <2> QED BY <1>2, <2>1 DEF CreateCheck
<1>3. CASE EditRead(r)
  <2>1. reqs'[r].pc = "edit"
    BY <1>3 DEF EditRead, Put, Idle, TypeOK
  <2> QED BY <1>3, <2>1 DEF EditRead
<1>4. CASE DeleteRead(r)
  <2>1. reqs'[r].pc = "delete"
    BY <1>4 DEF DeleteRead, Put, Idle, TypeOK
  <2> QED BY <1>4, <2>1 DEF DeleteRead
<1>5. CASE PopulateRead(r)
  <2>1. reqs'[r].pc = "populate"
    BY <1>5 DEF PopulateRead, Put, Idle, TypeOK
  <2> QED BY <1>5, <2>1 DEF PopulateRead
<1>6. CASE PayRead(r)
  <2>1. reqs'[r].pc = "pay"
    BY <1>6 DEF PayRead, Put, Idle, TypeOK
  <2> QED BY <1>6, <2>1 DEF PayRead
<1>7. ASSUME NEW a \in Acct, CloseCheck(r, a)
      PROVE  reqs[r].pc \notin Unbound /\ reqs'[r].pc \notin Unbound
  <2>1. reqs'[r].pc = "close"
    BY <1>7 DEF CloseCheck, Put, Idle, TypeOK
  <2> QED BY <1>7, <2>1 DEF CloseCheck
<1>8. ASSUME NEW a \in Acct, OpenAccount(r, a)
      PROVE  reqs[r].pc \notin Unbound /\ reqs'[r].pc \notin Unbound
  BY <1>8 DEF OpenAccount
<1>9. CASE ClearOne(r)
  BY <1>9 DEF ClearOne, ClearAll
<1> QED
  BY <1>1, <1>2, <1>3, <1>4, <1>5, <1>6, <1>7, <1>8, <1>9
  DEF Guarded, RowStep, DueStep, AccountStep

\* ... and so do bulk requests, ...
LEMMA BulkPc ==
  ASSUME TypeOK, NEW r \in Req, BulkStep(r)
  PROVE  /\ reqs[r].pc \in Bulk \cup {"idle"} /\ reqs'[r].pc \in Bulk \cup {"idle"}
         /\ AsRead(r)'
<1> USE DEF Bulk, At
<1>1. CASE BulkDelete(r) \/ BulkType(r)
  <2>1. reqs'[r].pc = "idle"
    BY <1>1, EndPc DEF BulkDelete, BulkType
  <2>2. reqs[r].pc \in Bulk
    BY <1>1 DEF BulkDelete, BulkType
  <2>3. AsRead(r)'
    BY <2>1 DEF AsRead
  <2> QED BY <2>1, <2>2, <2>3
<1>2. CASE BulkRead(r)
  <2>1. PICK ids \in SUBSET Id :
          \/ Put(r, [Idle EXCEPT !.pc = "bulkDelete", !.ids = ids, !.was = Read(ids)])
          \/ \E t \in Types \ {"transfer"} :
               Put(r, [Idle EXCEPT !.pc = "bulkType", !.ids = ids, !.was = Read(ids),
                                   !.entry = [Missing EXCEPT !.type = t]])
    BY <1>2 DEF BulkRead
  <2>2. reqs'[r].pc \in Bulk /\ reqs'[r].ids = ids /\ reqs'[r].was = Read(ids)
    <3> DEFINE gone == [Idle EXCEPT !.pc = "bulkDelete", !.ids = ids, !.was = Read(ids)]
               typed(t) == [Idle EXCEPT !.pc = "bulkType", !.ids = ids, !.was = Read(ids),
                                        !.entry = [Missing EXCEPT !.type = t]]
    <3>1. Put(r, gone) \/ \E t : Put(r, typed(t))
      BY <2>1
    <3>2. gone.pc \in Bulk /\ gone.ids = ids /\ gone.was = Read(ids)
      BY DEF Idle
    <3>3. \A t : typed(t).pc \in Bulk /\ typed(t).ids = ids /\ typed(t).was = Read(ids)
      BY DEF Idle
    <3> HIDE DEF gone, typed
    <3>4. reqs'[r] = gone \/ \E t : reqs'[r] = typed(t)
      BY <3>1, ReqsUpdated DEF TypeOK
    <3> QED BY <3>2, <3>3, <3>4
  <2>4. rows' = rows /\ reqs[r].pc = "idle"
    BY <1>2 DEF BulkRead
  <2>5. UnchangedSince(r)'
    BY <2>2, <2>4 DEF UnchangedSince, Read
  <2>6. AsRead(r)'
    BY <2>2, <2>5 DEF AsRead
  <2> QED BY <2>2, <2>4, <2>6
<1> QED BY <1>1, <1>2 DEF BulkStep

\* ... forms, ...
LEMMA FormPc ==
  ASSUME TypeOK, NEW r \in Req, FormStep(r)
  PROVE  /\ reqs[r].pc \in {"idle", "form"} /\ reqs'[r].pc \in {"idle", "form"}
         /\ AsRead(r)' /\ UNCHANGED <<rows, last, moved, status>>
         /\ \E rec : Put(r, rec) /\ rec.pc \in {"idle", "form"}
<1> USE DEF At, Bulk, Accounts, History
<1>1. CASE SaveForm(r)
  <2>1. reqs'[r].pc = "idle" /\ reqs[r].pc = "form" /\ Put(r, Idle)
    BY <1>1, EndPc DEF SaveForm, End
  <2>2. AsRead(r)' /\ UNCHANGED <<rows, last, moved, status>>
    BY <1>1, <2>1 DEF AsRead, SaveForm
  <2> QED BY <2>1, <2>2 DEF Idle
<1>2. ASSUME NEW a \in Acct, OpenForm(r, a)
      PROVE  /\ reqs[r].pc \in {"idle", "form"} /\ reqs'[r].pc \in {"idle", "form"}
             /\ AsRead(r)' /\ UNCHANGED <<rows, last, moved, status>>
             /\ \E rec : Put(r, rec) /\ rec.pc \in {"idle", "form"}
  <2> DEFINE sum == [Idle.sum EXCEPT ![a] = balance[a] - start[a]]
             rec == [Idle EXCEPT !.pc = "form", !.accts = {a}, !.held = balance[a], !.sum = sum]
  <2>1. rec.pc = "form" /\ rec.accts = {a} /\ rec.sum[a] = balance[a] - start[a]
    BY DEF Idle
  <2>2. Put(r, rec)
    BY <1>2 DEF OpenForm
  <2> HIDE DEF sum, rec
  <2>3. reqs'[r] = rec
    BY <2>2, ReqsUpdated DEF TypeOK
  <2>4. UNCHANGED <<rows, last, moved, status, start, balance>> /\ reqs[r].pc = "idle"
    BY <1>2 DEF OpenForm
  <2>5. AsRead(r)'
    BY <2>1, <2>3, <2>4 DEF AsRead
  <2> QED BY <2>1, <2>2, <2>3, <2>4, <2>5
<1> QED BY <1>1, <1>2 DEF FormStep

\* ... and recomputes.
LEMMA RecomputePc ==
  ASSUME TypeOK, NEW r \in Req, RecomputeStep(r)
  PROVE  /\ reqs'[r].pc \in {"idle", "recompute"}
         /\ AsRead(r)' /\ UNCHANGED <<rows, last, moved, status, start>>
         /\ \E rec : Put(r, rec) /\ rec.pc \in {"idle", "recompute"}
<1> USE DEF At, Bulk, Accounts, History
<1>1. \E rec : Put(r, rec) /\ rec.pc \in {"idle", "recompute"}
  <2>1. CASE RecomputeBegin(r)
    <3>1. PICK accts :
            Put(r, [Idle EXCEPT !.pc = "recompute", !.accts = accts, !.left = Parts])
      BY <2>1 DEF RecomputeBegin
    <3> DEFINE rec == [Idle EXCEPT !.pc = "recompute", !.accts = accts, !.left = Parts]
    <3>2. rec.pc = "recompute" /\ Put(r, rec)
      BY <3>1 DEF Idle
    <3> HIDE DEF rec
    <3> QED BY <3>2
  <2>2. CASE RecomputeRead(r)
    <3>1. PICK part :
            Put(r, [reqs[r] EXCEPT !.left = @ \ {part},
                                   !.sum = [a \in Acct |-> @[a] + Part(part, a)]])
      BY <2>2 DEF RecomputeRead
    <3> DEFINE rec == [reqs[r] EXCEPT !.left = @ \ {part},
                                      !.sum = [a \in Acct |-> @[a] + Part(part, a)]]
    <3>2. rec.pc = "recompute" /\ Put(r, rec)
      BY <2>2, <3>1 DEF RecomputeRead, TypeOK, ReqType
    <3> HIDE DEF rec
    <3> QED BY <3>2
  <2>3. CASE Recompute(r)
    BY <2>3 DEF Recompute, End, Idle
  <2> QED BY <2>1, <2>2, <2>3 DEF RecomputeStep
<1>2. reqs'[r].pc \in {"idle", "recompute"}
  BY <1>1, PutPc
<1>3. AsRead(r)'
  BY <1>2 DEF AsRead
<1>4. UNCHANGED <<rows, last, moved, status, start>>
  BY DEF RecomputeStep, RecomputeBegin, RecomputeRead, Recompute
<1> QED BY <1>1, <1>2, <1>3, <1>4

\* A form or a recompute moves no row, so the rows, the history and what other
\* requests are ready for stay as they were.
LEMMA UnmovedRows ==
  ASSUME MovedInv, NEW r \in Req, NEW rec, Put(r, rec),
         rec.pc \in {"idle", "form", "recompute"}, UNCHANGED <<rows, last, moved, status>>
  PROVE  MovedInv'
<1>1. Ready(rec, status)
  BY DEF Ready
<1> QED BY <1>1, PutReady, SameRows DEF MovedInv

\* A form that is saved on the balance it opened with writes balance and starting
\* balance together.
LEMMA FormReconciled ==
  ASSUME TypeOK, Reconciled, NEW r \in Req, FormStep(r), AsRead(r)
  PROVE  Reconciled'
<1>1. ASSUME NEW a \in Acct, OpenForm(r, a)
      PROVE  Reconciled'
  BY <1>1, SameReconciled DEF OpenForm, Accounts, History
<1>2. CASE SaveForm(r)
  <2>1. PICK desired \in Amounts :
          /\ balance' = [a \in Acct |-> IF a \in reqs[r].accts /\ a \in Open THEN desired
                                        ELSE balance[a]]
          /\ start' = [a \in Acct |-> IF a \in reqs[r].accts /\ a \in Open
                                      THEN desired - reqs[r].sum[a] ELSE start[a]]
    BY <1>2 DEF SaveForm
  <2>2. UNCHANGED <<status, moved>> /\ desired \in Int
    BY <1>2, LedgerAssumption DEF SaveForm, History
  <2>3. ASSUME NEW a \in Open
        PROVE  balance'[a] = start'[a] + Sum(moved[a], Id)
    <3>1. a \in Acct /\ balance[a] = start[a] + Sum(moved[a], Id)
      BY DEF Open, Reconciled
    <3>2. balance[a] \in Int /\ start[a] \in Int /\ \A i \in Id : moved[a][i] \in Int
      BY <3>1 DEF TypeOK
    <3>3. Sum(moved[a], Id) \in Int
      BY <3>2, IdFinite, SumType
    <3>4. CASE a \in reqs[r].accts
      <4>1. reqs[r].sum[a] = balance[a] - start[a]
        BY <1>2, <3>4 DEF AsRead, SaveForm
      <4>2. balance'[a] = desired /\ start'[a] = desired - (balance[a] - start[a])
        BY <2>1, <3>1, <3>4, <4>1
      <4> QED BY <2>2, <3>1, <3>2, <3>3, <4>2
    <3>5. CASE a \notin reqs[r].accts
      BY <2>1, <3>1, <3>5
    <3> QED BY <3>4, <3>5
  <2> QED BY <2>2, <2>3 DEF Reconciled, Open
<1> QED BY <1>1, <1>2 DEF FormStep

\* A recompute writes what is there already.
LEMMA RecomputeReconciled ==
  ASSUME TypeOK, MovedInv, Reconciled, RecomputeInv, NEW r \in Req, RecomputeStep(r)
  PROVE  Reconciled'
<1>1. CASE RecomputeBegin(r) \/ RecomputeRead(r)
  BY <1>1, SameReconciled DEF RecomputeBegin, RecomputeRead, Accounts, History
<1>2. CASE Recompute(r)
  <2>1. BalanceAgrees
    BY Agrees
  <2>2. UNCHANGED <<status, start, moved>>
    BY <1>2 DEF Recompute, Accounts, History
  <2>3. ASSUME NEW a \in Open
        PROVE  balance'[a] = balance[a]
    <3>1. CASE a \in reqs[r].accts
      BY <1>2, <2>1, <3>1, Repairs DEF BalanceAgrees
    <3>2. CASE a \notin reqs[r].accts
      BY <1>2, <3>2 DEF Recompute, Open
    <3> QED BY <3>1, <3>2
  <2> QED BY <2>2, <2>3 DEF Reconciled, Open
<1> QED BY <1>1, <1>2 DEF RecomputeStep

LEMMA NoneRecomputes ==
  ASSUME \A r \in Req : reqs'[r].pc # "recompute"
  PROVE  RecomputeInv'
  BY DEF RecomputeInv, At

LEMMA TogetherMeet ==
  ASSUME MeetInv, Together, tour' = tour
  PROVE  MeetInv'
<1>1. tour = "together" /\ GuardedNext /\ TypeOK /\ \A r \in Req : reqs[r].pc \notin Unbound
  BY DEF MeetInv, Together
<1>2. TypeOK'
  BY <1>1, TypeStep DEF GuardedNext, Next
<1>3. \A s \in Req : reqs'[s].pc \notin Unbound
  <2>1. CASE Tick
    BY <1>1, <2>1 DEF Tick
  <2>2. ASSUME NEW r \in Req, Guarded(r)
        PROVE  \A s \in Req : reqs'[s].pc \notin Unbound
    BY <1>1, <2>2, OthersStay, GuardedPc
  <2> QED BY <1>1, <2>1, <2>2 DEF GuardedNext
<1>4. RecomputeInv'
  BY <1>3, NoneRecomputes DEF Unbound
<1> QED BY <1>1, <1>2, <1>3, <1>4 DEF MeetInv

LEMMA OneByOneMeet ==
  ASSUME MeetInv, OneByOne, tour' = tour
  PROVE  MeetInv'
<1>1. PICK r \in Req : /\ Alone(r)
                       /\ Guarded(r) \/ BulkStep(r) \/ FormStep(r) \/ RecomputeStep(r)
  BY DEF OneByOne
<1>2. tour = "one by one" /\ TypeOK /\ RecomputeInv
  BY DEF MeetInv, OneByOne
<1>3. TypeOK'
  BY <1>1, <1>2, TypeStep DEF Next
<1>4. \A s \in Req : s # r => reqs'[s].pc = "idle"
  BY <1>1, <1>2, OthersStay DEF Alone, At
<1>5. \A s \in Req : At(s, "idle")' \/ Alone(s)'
  BY <1>4 DEF At, Alone
<1>6. RecomputeInv'
  <2>1. CASE Guarded(r) \/ BulkStep(r) \/ FormStep(r)
    <3>1. reqs'[r].pc # "recompute"
      BY <1>2, <2>1, GuardedPc, BulkPc, FormPc DEF Unbound, Bulk
    <3> QED BY <1>4, <3>1, NoneRecomputes
  <2>2. CASE RecomputeStep(r)
    BY <1>1, <1>2, <2>2, RecomputeAdds
  <2> QED BY <1>1, <2>1, <2>2
<1> QED BY <1>2, <1>3, <1>5, <1>6 DEF MeetInv

LEMMA DriftMeet ==
  ASSUME MeetInv, Drifting, tour' = tour
  PROVE  MeetInv'
<1>1. tour = "drift" /\ TypeOK /\ RecomputeInv
  BY DEF MeetInv, Drifting
<1>2. PICK r \in Req :
        \/ /\ \A q \in Req : ~At(q, "recompute")
           /\ FormStep(r) \/ CreateCheck(r) \/ Create(r) \/ \E a \in Acct : OpenAccount(r, a)
        \/ Alone(r) /\ RecomputeStep(r)
  BY DEF Drifting
<1>3. Guarded(r) \/ FormStep(r) \/ RecomputeStep(r)
  BY <1>2 DEF Guarded, RowStep, AccountStep
<1>4. TypeOK'
  BY <1>1, <1>3, TypeStep DEF Next
<1>5. CASE Alone(r) /\ RecomputeStep(r)
  BY <1>1, <1>4, <1>5, RecomputeAdds DEF MeetInv
<1>6. CASE /\ \A q \in Req : ~At(q, "recompute")
           /\ Guarded(r) \/ FormStep(r)
  <2>1. \A s \in Req : s # r => reqs'[s] = reqs[s]
    BY <1>1, <1>6, OthersStay
  <2>2. reqs'[r].pc # "recompute"
    BY <1>1, <1>6, GuardedPc, FormPc DEF Unbound
  <2>3. RecomputeInv'
    BY <1>6, <2>1, <2>2, NoneRecomputes DEF At
  <2> QED BY <1>1, <1>4, <2>3 DEF MeetInv
<1> QED BY <1>2, <1>5, <1>6 DEF Guarded, RowStep, AccountStep

LEMMA SameRecompute ==
  ASSUME RecomputeInv, UNCHANGED <<rows, status, start, reqs>>
  PROVE  RecomputeInv'
<1>1. \A r \in Req, a \in Acct : SoFar(reqs[r], a)' = SoFar(reqs[r], a)
  BY DEF SoFar, Done, Part, Sum
<1>2. \A r \in Req : /\ At(r, "recompute")' = At(r, "recompute") /\ Alone(r)' = Alone(r)
                     /\ reqs'[r] = reqs[r]
  BY DEF At, Alone
<1>3. Open' = Open /\ Open \subseteq Acct
  BY DEF Open
<1> QED BY <1>1, <1>2, <1>3 DEF RecomputeInv

LEMMA MeetStep ==
  ASSUME MeetInv, [TourNext]_<<vars, tour>>
  PROVE  MeetInv'
<1>1. CASE TourNext
  BY <1>1, TogetherMeet, OneByOneMeet, DriftMeet DEF TourNext
<1>2. CASE UNCHANGED <<vars, tour>>
  <2>1. UNCHANGED <<rows, status, start, reqs, tour>> /\ UNCHANGED vars
    BY <1>2 DEF vars, Accounts
  <2>2. TypeOK' /\ RecomputeInv'
    BY <2>1, TypeStep, SameRecompute DEF MeetInv
  <2> QED BY <2>1, <2>2 DEF MeetInv, At, Alone
<1> QED BY <1>1, <1>2

\* Guarded requests interleave: what they read is bound to what they write.
LEMMA TogetherStep ==
  ASSUME Counted(RuleEntry), Counted(BillEntry), TourInv, Together, Accounted'
  PROVE  MovedInv' /\ Reconciled'
<1>1. tour = "together" /\ GuardedNext /\ TypeOK /\ MovedInv /\ Reconciled
  BY DEF TourInv, MeetInv, Together
<1>2. MovedInv'
  BY <1>1, GuardedMoves
<1>3. ASSUME Tick
      PROVE  Reconciled'
  BY <1>1, <1>3, SameReconciled DEF Tick, Accounts, History
<1> QED BY <1>1, <1>2, <1>3, GuardedReconciled DEF GuardedNext

\* One request after another: what it read is still so when it writes.
LEMMA OneByOneStep ==
  ASSUME Counted(RuleEntry), Counted(BillEntry), TourInv, OneByOne, Accounted'
  PROVE  MovedInv' /\ Reconciled' /\ \A r \in Req : AsRead(r)'
<1>1. PICK r \in Req : /\ Alone(r)
                       /\ Guarded(r) \/ BulkStep(r) \/ FormStep(r) \/ RecomputeStep(r)
  BY DEF OneByOne
<1>2. TypeOK /\ MovedInv /\ Reconciled /\ RecomputeInv /\ AsRead(r)
  BY DEF TourInv, MeetInv, OneByOne
<1>3. \A s \in Req : s # r => AsRead(s)'
  <2>1. \A s \in Req : s # r => reqs'[s].pc = "idle"
    BY <1>1, <1>2, OthersStay DEF Alone, At
  <2> QED BY <2>1 DEF AsRead, At, Bulk
<1>4. CASE Guarded(r)
  <2>1. reqs'[r].pc \notin Unbound
    BY <1>2, <1>4, GuardedPc
  <2>2. AsRead(r)'
    BY <2>1 DEF AsRead, At, Unbound, Bulk
  <2>3. MovedInv'
    BY <1>2, <1>4, GuardedMoves DEF GuardedNext
  <2> QED BY <1>2, <1>3, <1>4, <2>2, <2>3, GuardedReconciled
<1>5. CASE BulkStep(r)
  <2>1. AsRead(r)'
    BY <1>2, <1>5, BulkPc
  <2>2. MovedInv'
    BY <1>2, <1>5, BulkMoves DEF AsRead, Bulk
  <2> QED BY <1>2, <1>3, <1>5, <2>1, <2>2, RowReconciled
<1>6. CASE FormStep(r)
  <2>1. /\ AsRead(r)' /\ UNCHANGED <<rows, last, moved, status>>
        /\ \E rec : Put(r, rec) /\ rec.pc \in {"idle", "form"}
    BY <1>2, <1>6, FormPc
  <2>2. MovedInv'
    BY <1>2, <2>1, UnmovedRows
  <2> QED BY <1>2, <1>3, <1>6, <2>1, <2>2, FormReconciled
<1>7. CASE RecomputeStep(r)
  <2>1. /\ AsRead(r)' /\ UNCHANGED <<rows, last, moved, status>>
        /\ \E rec : Put(r, rec) /\ rec.pc \in {"idle", "recompute"}
    BY <1>2, <1>7, RecomputePc
  <2>2. MovedInv'
    BY <1>2, <2>1, UnmovedRows
  <2> QED BY <1>2, <1>3, <1>7, <2>1, <2>2, RecomputeReconciled
<1> QED BY <1>1, <1>4, <1>5, <1>6, <1>7

LEMMA TourStep ==
  ASSUME Counted(RuleEntry), Counted(BillEntry), TourInv, [TourNext]_<<vars, tour>>
  PROVE  TourInv'
<1>0. MeetInv'
  BY MeetStep DEF TourInv
<1>1. CASE TourNext
  <2>1. tour' = tour /\ (tour # "drift" => Accounted')
    BY <1>1 DEF TourNext
  <2>2. CASE Together
    BY <1>0, <2>1, <2>2, TogetherStep DEF Together, TourInv
  <2>3. CASE OneByOne
    BY <1>0, <2>1, <2>3, OneByOneStep DEF OneByOne, TourInv
  <2>4. CASE Drifting
    BY <1>0, <2>1, <2>4 DEF Drifting, TourInv
  <2> QED BY <1>1, <2>2, <2>3, <2>4 DEF TourNext
<1>2. CASE UNCHANGED <<vars, tour>>
  <2>1. UNCHANGED <<rows, last, status, start, balance, reqs, moved, tour>>
    BY <1>2 DEF vars, Accounts, History
  <2>2. MovedInv => MovedInv'
    BY <2>1, SameRows DEF MovedInv, ReadyInv
  <2>3. Reconciled => Reconciled'
    BY <2>1, SameReconciled
  <2>4. \A r \in Req : AsRead(r) => AsRead(r)'
    BY <2>1 DEF AsRead, At, UnchangedSince
  <2> QED BY <1>0, <2>1, <2>2, <2>3, <2>4 DEF TourInv
<1> QED BY <1>1, <1>2

LEMMA MeetStart ==
  ASSUME TourInit
  PROVE  MeetInv
<1>1. Init /\ tour \in {"together", "one by one", "drift"}
  BY DEF TourInit
<1>2. \A r \in Req : reqs[r].pc = "idle"
  BY <1>1 DEF Init, Idle
<1>3. RecomputeInv
  BY <1>2 DEF RecomputeInv, At
<1> QED BY <1>1, <1>2, <1>3, TypeStart DEF MeetInv, At, Unbound, Bulk

LEMMA TourStart ==
  ASSUME TourInit
  PROVE  TourInv
<1>1. Init
  BY DEF TourInit
<1>2. \A r \in Req : AsRead(r)
  BY <1>1 DEF Init, Idle, AsRead, At, Bulk
<1>3. Reconciled
  BY <1>1 DEF Init, Open, Reconciled
<1> QED BY <1>1, <1>2, <1>3, MeetStart, MovedStart DEF TourInv

\* While requests that are bound to what they read interleave, and while every kind of
\* request comes after another, balances are starting balance plus ledger, for any
\* accounts, rows and requests: the rows that requests write, and what the rule and the
\* bill post, are to count for edits what they count for creating.
THEOREM BalancesAgree ==
  Counted(RuleEntry) /\ Counted(BillEntry) => (TourSpec => []BalanceAgreesUndrifted)
<1> SUFFICES ASSUME Counted(RuleEntry), Counted(BillEntry)
             PROVE  TourSpec => []BalanceAgreesUndrifted
  OBVIOUS
<1>1. TourInit => TourInv
  BY TourStart
<1>2. TourInv /\ [TourNext]_<<vars, tour>> => TourInv'
  BY TourStep
<1>3. TourInv => BalanceAgreesUndrifted
  BY Agrees DEF TourInv, MeetInv, BalanceAgreesUndrifted
<1> QED BY <1>1, <1>2, <1>3, PTL DEF TourSpec

\* A recompute that runs alone writes starting balance plus ledger, whatever rows there
\* are and whatever the balances had drifted to.
THEOREM RecomputeWrites == TourSpec => RecomputeRepairs
<1>1. TourInit => MeetInv
  BY MeetStart
<1>2. MeetInv /\ [TourNext]_<<vars, tour>> => MeetInv'
  BY MeetStep
<1>3. MeetInv => [\A r \in Req : Recompute(r) =>
                    \A a \in reqs[r].accts : balance'[a] = start[a] + Ledger(a)]_vars
  BY Repairs DEF MeetInv
<1> QED BY <1>1, <1>2, <1>3, PTL DEF TourSpec, RecomputeRepairs
=============================================================================
