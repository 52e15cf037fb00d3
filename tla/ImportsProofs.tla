---------------------------- MODULE ImportsProofs ----------------------------
(* What holds of Imports for any statements, accounts and bounds: its types,    *)
(* that an import alone brings the balances back to the ledger and adds what    *)
(* its statement has and the ledger lacks, and whose rows a step touches.       *)
EXTENDS Imports, FiniteSetTheorems, TLAPS

Rows == [Tag0 -> [Line -> [Acct0 -> Nat]]]

\* Transactions are counted by a number.
LEMMA HowManyType ==
  ASSUME rows \in Rows, NEW tags \in SUBSET Tag0, NEW lines \in SUBSET Line,
         NEW accts \in SUBSET Acct0
  PROVE  HowMany(tags, lines, accts) \in Nat
<1> DEFINE S == tags \X lines \X accts
           f == [x \in S |-> Copies(x[1], x[2], x[3])]
           T == {Copies(x[1], x[2], x[3]) : x \in S}
<1>1. IsFiniteSet(Tag0) /\ IsFiniteSet(Acct0) /\ IsFiniteSet(Line)
  BY ImportsAssumption, FS_Interval DEF Tag0, Acct0
<1>2. IsFiniteSet(S)
  <2>1. IsFiniteSet(tags) /\ IsFiniteSet(lines) /\ IsFiniteSet(accts)
    BY <1>1, FS_Subset
  <2>2. IsFiniteSet((tags \X lines) \X accts)
    BY <2>1, FS_Product
  <2> DEFINE g == [x \in (tags \X lines) \X accts |-> <<x[1][1], x[1][2], x[2]>>]
  <2>3. g \in Surjection((tags \X lines) \X accts, S)
    <3>1. \A y \in S : \E x \in (tags \X lines) \X accts : g[x] = y
      <4> TAKE y \in S
      <4> WITNESS <<<<y[1], y[2]>>, y[3]>> \in (tags \X lines) \X accts
      <4> QED OBVIOUS
    <3> QED BY <3>1 DEF Surjection
  <2> QED BY <2>2, <2>3, FS_Surjection DEF ExistsSurjection
<1>3. IsFiniteSet(T)
  <2>1. f \in Surjection(S, T)
    BY DEF Surjection
  <2> QED BY <1>2, <2>1, FS_Surjection DEF ExistsSurjection
<1>4. \A U \in T : IsFiniteSet(U)
  <2> SUFFICES ASSUME NEW x \in S
               PROVE  IsFiniteSet(Copies(x[1], x[2], x[3]))
    OBVIOUS
  <2>1. rows[x[1]][x[2]][x[3]] \in Nat
    BY DEF Rows
  <2>2. IsFiniteSet(1..rows[x[1]][x[2]][x[3]])
    BY <2>1, FS_Interval
  <2>3. IsFiniteSet({<<x[1], x[2], x[3]>>})
    BY FS_Singleton
  <2> QED BY <2>2, <2>3, FS_Product DEF Copies
<1>5. IsFiniteSet(UNION T)
  BY <1>3, <1>4, FS_UNION
<1> QED BY <1>5, FS_CardinalityType DEF HowMany

LEMMA OwedType ==
  ASSUME TypeOK, NEW a \in Acct
  PROVE  Owed(a) \in Int
<1>1. Booked(a) \in Nat
  BY HowManyType DEF TypeOK, Rows, Booked, Acct, Acct0
<1> QED BY <1>1 DEF TypeOK, Owed

LEMMA NewType ==
  ASSUME TypeOK, NEW j \in Job, NEW l \in Line, job[j].tag \in Tag0
  PROVE  Resolved(j, l) \in Acct0 /\ New(j, l, job[j].tag) \in Nat
<1>1. job[j] \in JobType
  BY DEF TypeOK
<1>2. Resolved(j, l) \in Acct0
  BY <1>1, ImportsAssumption DEF Resolved, JobType, Acct0
<1>3. Elsewhere(l, Resolved(j, l), job[j].tag) \in Nat
  BY <1>2, HowManyType DEF TypeOK, Rows, Elsewhere
<1>4. job[j].sheet[l] \in Nat
  BY <1>1 DEF JobType
<1>5. job[j].sheet[l] - Elsewhere(l, Resolved(j, l), job[j].tag) \in Int
  BY <1>3, <1>4
<1>6. \A i \in Int : Bigger(0, i) \in Nat
  BY DEF Bigger
<1> QED BY <1>2, <1>5, <1>6 DEF New

LEMMA JobUpdated ==
  ASSUME job \in [Job -> JobType], NEW j \in Job, NEW rec, rec \in JobType, Put(j, rec)
  PROVE  /\ job' \in [Job -> JobType]
         /\ job'[j] = rec
         /\ \A k \in Job : k # j => job'[k] = job[k]
  BY DEF Put

LEMMA IdleType == Idle \in JobType
<1>1. 0 \in Tag0 /\ 0 \in Acct0 /\ "page" \in Sources \cup Undos
  BY ImportsAssumption DEF Tag0, Acct0, Sources
<1>2. /\ Blank \in [Line -> Nat] /\ Blank \in [Line -> Acct0]
      /\ [n \in Name |-> 0] \in [Name -> Acct0] /\ [a \in Acct |-> 0] \in [Acct -> Int]
  BY <1>1 DEF Blank
<1> QED BY <1>1, <1>2 DEF Idle, JobType

\* The next stage of an import keeps everything else it holds.
Stages == {"idle", "failed", "load", "openings", "apply", "create", "reload", "compare",
           "clear", "insert", "balance", "log", "undo", "recount", "unlog"}
LEMMA GoType ==
  ASSUME job \in [Job -> JobType], NEW j \in Job, NEW pc \in Stages, Go(j, pc)
  PROVE  /\ job' \in [Job -> JobType]
         /\ job'[j] = [job[j] EXCEPT !.pc = pc]
         /\ \A k \in Job : k # j => job'[k] = job[k]
<1> DEFINE rec == [job[j] EXCEPT !.pc = pc]
<1>0. job[j] \in JobType /\ Stages = {"idle", "failed", "load", "openings", "apply",
        "create", "reload", "compare", "clear", "insert", "balance", "log", "undo", "recount",
        "unlog"}
  BY DEF Stages
<1>1. rec \in JobType
  <2> HIDE DEF Stages
  <2> QED BY <1>0 DEF JobType
<1>2. Put(j, rec)
  BY DEF Go
<1> HIDE DEF rec
<1>3. /\ job' \in [Job -> JobType] /\ job'[j] = rec
      /\ \A k \in Job : k # j => job'[k] = job[k]
  BY <1>1, <1>2, JobUpdated
<1> QED BY <1>3 DEF rec

\* Every step keeps the types.
LEMMA TypeStep == TypeOK /\ [Next]_vars => TypeOK'
<1> SUFFICES ASSUME TypeOK, [Next]_vars
             PROVE  TypeOK'
  OBVIOUS
<1> USE DEF accounts
<1>0. /\ job \in [Job -> JobType] /\ Idle \in JobType
      /\ \A j \in Job : job[j].tag \in Tag0
  BY IdleType DEF TypeOK, JobType
<1>a. alone' \in BOOLEAN
  BY DEF TypeOK, Next, vars
<1>1. ASSUME NEW n \in Name, AddAccount(n)
      PROVE  TypeOK'
  BY <1>1, <1>a DEF TypeOK, AddAccount
<1>2. ASSUME NEW a \in Acct, NEW n \in Name, RenameAccount(a, n)
      PROVE  TypeOK'
  BY <1>2, <1>a DEF TypeOK, RenameAccount
<1>3. ASSUME NEW l \in Line, NEW a \in Acct, TypeIn(l, a)
      PROVE  TypeOK'
  <2>1. rows' \in Rows
    <3>1. 0 \in Tag0 /\ a \in Acct0
      BY ImportsAssumption DEF Tag0, Acct, Acct0
    <3>2. rows \in Rows /\ rows' = [rows EXCEPT ![0][l][a] = @ + 1]
      BY <1>3 DEF TypeIn, TypeOK, Rows
    <3> QED BY <3>1, <3>2 DEF Rows
  <2>2. balance' \in [Acct -> Int]
    BY <1>3 DEF TypeIn, TypeOK
  <2> QED BY <1>3, <1>a, <2>1, <2>2 DEF TypeOK, TypeIn, Rows
<1>4. ASSUME NEW j \in Job, NEW src \in Sources, NEW sheet \in Sheets, NEW offers \in BOOLEAN,
             Begin(j, src, sheet, offers)
      PROVE  TypeOK'
  <2> DEFINE rec == [Idle EXCEPT !.pc = "load", !.src = src, !.tag = issued', !.sheet = sheet,
                                 !.offers = offers]
  <2>1. issued' \in Tag0 /\ Put(j, rec)
    BY <1>4, ImportsAssumption DEF Begin, TypeOK, Tag0
  <2>2. rec \in JobType
    BY <1>0, <2>1, ImportsAssumption DEF JobType
  <2> HIDE DEF rec
  <2> QED BY <1>4, <1>0, <1>a, <2>1, <2>2, JobUpdated DEF Begin, TypeOK
<1>5. ASSUME NEW j \in Job, NEW tag \in Tag, NEW sheet \in Sheets, Replace(j, tag, sheet)
      PROVE  TypeOK'
  <2> DEFINE rec == [Idle EXCEPT !.pc = "load", !.src = "api", !.tag = tag, !.sheet = sheet,
                                 !.offers = TRUE]
  <2>1. rec \in JobType
    <3>1. tag \in Tag0 /\ "api" \in Sources \cup Undos /\ sheet \in [Line -> Nat]
      BY ImportsAssumption DEF Sources, Tag, Tag0
    <3> QED BY <1>0, <3>1 DEF JobType
  <2>2. Put(j, rec)
    BY <1>5 DEF Replace
  <2> HIDE DEF rec
  <2> QED BY <1>5, <1>0, <1>a, <2>1, <2>2, JobUpdated DEF Replace, TypeOK
<1>6. ASSUME NEW j \in Job, Retry(j)
      PROVE  TypeOK'
  <2> DEFINE rec == [Idle EXCEPT !.pc = "load", !.src = "page", !.tag = job[j].tag,
                                 !.sheet = job[j].sheet, !.offers = job[j].offers]
  <2>1. rec \in JobType
    BY <1>0 DEF JobType, Sources
  <2>2. Put(j, rec)
    BY <1>6 DEF Retry
  <2> HIDE DEF rec
  <2> QED BY <1>6, <1>0, <1>a, <2>1, <2>2, JobUpdated DEF Retry, TypeOK
<1>7. ASSUME NEW j \in Job, LoadAccounts(j)
      PROVE  TypeOK'
  <2>1. PICK map \in [Name -> Acct0] :
          Put(j, [job[j] EXCEPT !.pc = IF job[j].offers THEN "openings" ELSE "compare",
                                !.map = map])
    BY <1>7 DEF LoadAccounts
  <2>2. ASSUME NEW pc \in {"openings", "compare"}
        PROVE  [job[j] EXCEPT !.pc = pc, !.map = map] \in JobType
    BY ZenonT(40), <1>0 DEF JobType
  <2> DEFINE after == IF job[j].offers THEN "openings" ELSE "compare"
             rec == [job[j] EXCEPT !.pc = after, !.map = map]
  <2>3. Put(j, rec)
    BY <2>1
  <2>4. after \in {"openings", "compare"}
    OBVIOUS
  <2> HIDE DEF after
  <2>5. rec \in JobType
    BY <2>2, <2>4
  <2> HIDE DEF rec
  <2> QED BY <1>7, <1>0, <1>a, <2>3, <2>5, JobUpdated DEF LoadAccounts, TypeOK
<1>8. ASSUME NEW j \in Job, ReloadAccounts(j)
      PROVE  TypeOK'
  <2>1. PICK map \in [Name -> Acct0] : Put(j, [job[j] EXCEPT !.pc = "compare", !.map = map])
    BY <1>8 DEF ReloadAccounts
  <2>2. [job[j] EXCEPT !.pc = "compare", !.map = map] \in JobType
    BY ZenonT(40), <1>0 DEF JobType
  <2> QED BY <1>8, <1>0, <1>a, <2>1, <2>2, JobUpdated DEF ReloadAccounts, TypeOK
<1>9. ASSUME NEW j \in Job, ReadOpenings(j)
      PROVE  TypeOK'
  <2> DEFINE used == {a \in {job[j].map[n] : n \in Named(j)} \ {0} : Unused(a)}
             rec == [job[j] EXCEPT !.pc = "apply", !.apply = used]
  <2>1. Named(j) \subseteq Name
    BY ImportsAssumption DEF Named
  <2>2. used \subseteq Acct
    BY <1>0, <2>1, ImportsAssumption DEF JobType, Acct, Acct0
  <2>3. rec \in JobType
    <3> HIDE DEF used
    <3> QED BY ZenonT(40), <1>0, <2>2 DEF JobType
  <2>4. Put(j, rec)
    BY <1>9 DEF ReadOpenings
  <2> HIDE DEF rec
  <2> QED BY <1>9, <1>0, <1>a, <2>3, <2>4, JobUpdated DEF ReadOpenings, TypeOK
<1>10. ASSUME NEW j \in Job, ApplyOpenings(j)
       PROVE  TypeOK'
  <2>1. job' \in [Job -> JobType]
    <3>1. (IF Missing(j) = {} THEN "compare" ELSE "create") \in Stages
      BY DEF Stages
    <3> QED BY <1>10, <1>0, <3>1, GoType DEF ApplyOpenings
  <2>2. start' \in [Acct -> Int]
    BY <1>10, ImportsAssumption DEF ApplyOpenings, TypeOK
  <2> QED BY <1>10, <1>a, <2>1, <2>2 DEF ApplyOpenings, TypeOK
<1>11. ASSUME NEW j \in Job, Create(j)
       PROVE  TypeOK'
  <2>1. PICK f \in [Missing(j) -> Acct \ Accounts] :
          LET made(a) == \E n \in Missing(j) : f[n] = a
          IN  /\ name' = [a \in Acct |-> IF made(a) THEN CHOOSE n \in Missing(j) : f[n] = a
                                                   ELSE name[a]]
              /\ start' = [a \in Acct |-> IF made(a) THEN Opening ELSE start[a]]
              /\ balance' = [a \in Acct |-> IF made(a) THEN Opening ELSE balance[a]]
    BY <1>11 DEF Create
  <2>2. Missing(j) \subseteq Name
    BY ImportsAssumption DEF Missing, Named
  <2>3. name' \in [Acct -> Name \cup {NoName}]
    BY <2>1, <2>2 DEF TypeOK
  <2>4. start' \in [Acct -> Int] /\ balance' \in [Acct -> Int]
    BY <2>1, ImportsAssumption DEF TypeOK
  <2>5. job' \in [Job -> JobType]
    BY <1>11, <1>0, GoType DEF Create, Stages
  <2> QED BY <1>11, <1>a, <2>3, <2>4, <2>5 DEF Create, TypeOK
<1>12. ASSUME NEW j \in Job, Compare(j)
       PROVE  TypeOK'
  <2> DEFINE at == [l \in Line |-> Resolved(j, l)]
             todo == [l \in Line |-> New(j, l, job[j].tag)]
             rec == [job[j] EXCEPT !.pc = "clear", !.at = at, !.todo = todo,
                                   !.added = (todo # Blank)]
  <2>1. at \in [Line -> Acct0] /\ todo \in [Line -> Nat]
    BY <1>0, NewType
  <2>2. rec \in JobType
    <3> HIDE DEF at, todo
    <3> QED BY ZenonT(40), <1>0, <2>1 DEF JobType
  <2>3. Put(j, rec)
    BY <1>12 DEF Compare
  <2> HIDE DEF rec
  <2> QED BY <1>12, <1>0, <1>a, <2>2, <2>3, JobUpdated DEF Compare, TypeOK
<1>13. ASSUME NEW j \in Job, Clear(j)
       PROVE  TypeOK'
  <2>1. rows' \in Rows
    BY <1>13 DEF Clear, TypeOK, Rows, NoRows
  <2>2. job' \in [Job -> JobType]
    BY <1>13, <1>0, GoType DEF Clear, Stages
  <2> QED BY <1>13, <1>a, <2>1, <2>2 DEF Clear, TypeOK, Rows
<1>14. ASSUME NEW j \in Job, Insert(j)
       PROVE  TypeOK'
  <2>1. PICK l \in Line :
          /\ rows' = [rows EXCEPT ![job[j].tag][l][job[j].at[l]] = @ + job[j].todo[l]]
          /\ Put(j, [job[j] EXCEPT !.todo[l] = 0])
    BY <1>14 DEF Insert
  <2>2. /\ job[j].tag \in Tag0 /\ job[j].at[l] \in Acct0 /\ job[j].todo[l] \in Nat
        /\ [job[j] EXCEPT !.todo[l] = 0] \in JobType
    <3>1. job[j].todo \in [Line -> Nat] /\ job[j].at \in [Line -> Acct0]
      BY <1>0 DEF JobType
    <3>2. [job[j].todo EXCEPT ![l] = 0] \in [Line -> Nat]
      BY <3>1
    <3> DEFINE todo == [job[j].todo EXCEPT ![l] = 0]
    <3>3. [job[j] EXCEPT !.todo = todo] \in JobType
      <4> HIDE DEF todo
      <4> QED BY ZenonT(40), <1>0, <3>2 DEF JobType, todo
    <3> QED BY <1>0, <3>1, <3>3
  <2>3. rows' \in Rows
    BY <2>1, <2>2 DEF TypeOK, Rows
  <2> QED BY <1>14, <1>0, <1>a, <2>1, <2>2, <2>3, JobUpdated DEF Insert, TypeOK, Rows
<1>15. ASSUME NEW j \in Job, SumUp(j) \/ Recount(j)
       PROVE  TypeOK'
  <2>1. PICK accts \in SUBSET Acct :
          Put(j, [job[j] EXCEPT !.pc = "balance", !.accts = accts,
                                !.held = [a \in Acct |-> Owed(a)]])
    <3>1. {job[j].map[n] : n \in Name} \ {0} \subseteq Acct
      BY <1>0, ImportsAssumption DEF JobType, Acct, Acct0
    <3>2. Accounts \subseteq Acct
      BY DEF Accounts
    <3> QED BY <1>15, <3>1, <3>2 DEF SumUp, Recount
  <2>2. [a \in Acct |-> Owed(a)] \in [Acct -> Int]
    BY OwedType
  <2> DEFINE held == [a \in Acct |-> Owed(a)]
             rec == [job[j] EXCEPT !.pc = "balance", !.accts = accts, !.held = held]
  <2>3. rec \in JobType
    <3> HIDE DEF held
    <3> QED BY ZenonT(40), <1>0, <2>2 DEF JobType, held
  <2> HIDE DEF rec
  <2> QED BY <1>15, <1>0, <1>a, <2>1, <2>3, JobUpdated DEF SumUp, Recount, TypeOK, rec
<1>16. ASSUME NEW j \in Job, SetBalances(j)
       PROVE  TypeOK'
  <2>1. balance' \in [Acct -> Int]
    <3>1. job[j].held \in [Acct -> Int]
      BY <1>0 DEF JobType
    <3> QED BY <1>16, <3>1 DEF SetBalances, TypeOK
  <2>2. job' \in [Job -> JobType]
    <3>1. (IF job[j].src \in Undos THEN "unlog" ELSE "log") \in Stages
      BY DEF Stages
    <3> QED BY <1>16, <1>0, <3>1, GoType DEF SetBalances
  <2> QED BY <1>16, <1>a, <2>1, <2>2 DEF SetBalances, TypeOK
<1>17. ASSUME NEW j \in Job, Finish(j)
       PROVE  TypeOK'
  <2>1. job' \in [Job -> JobType]
    BY <1>17, <1>0, JobUpdated DEF Finish
  <2>2. logs' \in [Tag -> Nat]
    <3>1. \/ logs' = [logs EXCEPT ![job[j].tag] = @ + 1]
          \/ logs' = logs
      BY <1>17 DEF Finish
    <3>2. CASE logs' = logs
      BY <3>2 DEF TypeOK
    <3>3. CASE logs' = [logs EXCEPT ![job[j].tag] = @ + 1] /\ job[j].tag \in Tag
      BY <3>3 DEF TypeOK
    <3>4. CASE logs' = [logs EXCEPT ![job[j].tag] = @ + 1] /\ job[j].tag \notin Tag
      BY <3>4 DEF TypeOK
    <3> QED BY <3>1, <3>2, <3>3, <3>4
  <2>3. logged' \subseteq Tag0
    BY <1>17, <1>0 DEF Finish, TypeOK
  <2> QED BY <1>17, <1>a, <2>1, <2>2, <2>3 DEF Finish, TypeOK
<1>18. ASSUME NEW j \in Job, NEW tag \in Tag, NEW mcp \in BOOLEAN, UndoBegin(j, tag, mcp)
       PROVE  TypeOK'
  <2> DEFINE rec == [Idle EXCEPT !.pc = "undo", !.src = IF mcp THEN "mcp" ELSE "log",
                                 !.tag = tag]
  <2>1. rec \in JobType
    <3>1. tag \in Tag0 /\ (IF mcp THEN "mcp" ELSE "log") \in Sources \cup Undos
      BY ImportsAssumption DEF Undos, Tag, Tag0
    <3> QED BY <1>0, <3>1 DEF JobType
  <2>2. Put(j, rec)
    BY <1>18 DEF UndoBegin
  <2> HIDE DEF rec
  <2> QED BY <1>18, <1>0, <1>a, <2>1, <2>2, JobUpdated DEF UndoBegin, TypeOK
<1>19. ASSUME NEW j \in Job, UndoDelete(j)
       PROVE  TypeOK'
  <2>1. rows' \in Rows
    BY <1>19 DEF UndoDelete, TypeOK, Rows, NoRows
  <2>2. job' \in [Job -> JobType]
    <3>1. (IF rows[job[j].tag] = NoRows THEN "unlog" ELSE "recount") \in Stages
      BY DEF Stages
    <3> QED BY <1>19, <1>0, <3>1, GoType DEF UndoDelete
  <2> QED BY <1>19, <1>a, <2>1, <2>2 DEF UndoDelete, TypeOK, Rows
<1>20. ASSUME NEW j \in Job, Unlog(j)
       PROVE  TypeOK'
  <2>1. job' \in [Job -> JobType]
    BY <1>20, <1>0, JobUpdated DEF Unlog
  <2>2. logs' \in [Tag -> Nat]
    <3> DEFINE left(i) == IF job[j].src = "mcp" THEN 0 ELSE Bigger(0, i - 1)
    <3>1. \A i \in Nat : left(i) \in Nat
      BY DEF Bigger
    <3>2. logs' = [logs EXCEPT ![job[j].tag] = left(@)]
      BY <1>20 DEF Unlog
    <3> HIDE DEF left
    <3> QED BY <3>1, <3>2 DEF TypeOK
  <2> QED BY <1>20, <1>a, <2>1, <2>2 DEF Unlog, TypeOK
<1>21. ASSUME NEW j \in Job, Crash(j)
       PROVE  TypeOK'
  <2> DEFINE rec == IF job[j].src = "page"
                    THEN [Idle EXCEPT !.pc = "failed", !.tag = job[j].tag,
                                      !.sheet = job[j].sheet, !.offers = job[j].offers]
                    ELSE Idle
  <2>1. rec \in JobType
    BY <1>0 DEF JobType
  <2>2. Put(j, rec)
    BY <1>21 DEF Crash
  <2> HIDE DEF rec
  <2> QED BY <1>21, <1>0, <1>a, <2>1, <2>2, JobUpdated DEF Crash, TypeOK
<1>22. CASE UNCHANGED vars
  BY <1>22 DEF vars, TypeOK
<1> QED
  BY <1>1, <1>2, <1>3, <1>4, <1>5, <1>6, <1>7, <1>8, <1>9, <1>10, <1>11, <1>12, <1>13, <1>14,
     <1>15, <1>16, <1>17, <1>18, <1>19, <1>20, <1>21, <1>22
  DEF Next, Edit, Step, Ask, Import, Undo

LEMMA InitTypes == Init => TypeOK
  BY IdleType, ImportsAssumption DEF Init, TypeOK, NoRows, Tag, Tag0

\* Accounts, transactions, the log and every import hold values of their kinds.
THEOREM ImportTypes == Spec => []TypeOK
  BY InitTypes, TypeStep, PTL DEF Spec
-----------------------------------------------------------------------------
(* What runs alone                                                             *)

\* A step of one import or undo leaves every other where it was.
LEMMA OthersWait ==
  ASSUME TypeOK, NEW j \in Job, Step(j), NEW k \in Job, k # j
  PROVE  job'[k] = job[k]
<1>1. PICK rec : Put(j, rec)
  BY DEF Step, Ask, Import, Undo, Begin, Replace, Retry, UndoBegin, LoadAccounts, ReadOpenings,
     ApplyOpenings, Create, ReloadAccounts, Compare, Clear, Insert, SumUp, SetBalances, Finish,
     UndoDelete, Recount, Unlog, Crash, Go
<1> QED BY <1>1 DEF Put, TypeOK

\* Where an import stands after a step, and the step that brought it there.
LEMMA Stage ==
  ASSUME TypeOK, NEW j \in Job, Step(j)
  PROVE  /\ job'[j].pc = "clear" => Compare(j)
         /\ job'[j].pc = "insert" => Clear(j) \/ Insert(j)
         /\ job'[j].pc = "balance" => SumUp(j) \/ Recount(j)
         /\ job'[j].pc = "log" => SetBalances(j) /\ job[j].src \notin Undos
         /\ job'[j].pc = "undo" => \E tag \in Tag, mcp \in BOOLEAN : UndoBegin(j, tag, mcp)
         /\ job'[j].pc = "recount" => UndoDelete(j)
<1>0. job[j] \in JobType
  BY DEF TypeOK
<1>a. DOMAIN job = Job
  BY DEF TypeOK
<1>b. \A pc : Go(j, pc) => job'[j].pc = pc
  BY <1>0 DEF Put, Go, TypeOK, JobType
<1>1. CASE \/ \E src \in Sources, sheet \in Sheets, offers \in BOOLEAN : Begin(j, src, sheet, offers)
           \/ \E tag \in Tag, sheet \in Sheets : Replace(j, tag, sheet)
           \/ Retry(j)
  <2>1. job'[j].pc = "load"
    BY ZenonT(40), <1>1, <1>a DEF Put, Begin, Replace, Retry, Idle
  <2> QED BY <2>1
<1>2. CASE \E tag \in Tag, mcp \in BOOLEAN : UndoBegin(j, tag, mcp)
  <2>1. job'[j].pc = "undo"
    BY <1>2, <1>a DEF Put, UndoBegin, Idle
  <2> QED BY <1>2, <2>1
<1>3. CASE LoadAccounts(j)
  <2>1. job'[j].pc = IF job[j].offers THEN "openings" ELSE "compare"
    BY <1>0, <1>3, <1>a DEF Put, LoadAccounts, JobType
  <2> QED BY <2>1
<1>4. CASE ReloadAccounts(j)
  <2>1. job'[j].pc = "compare"
    BY <1>0, <1>4, <1>a DEF Put, ReloadAccounts, JobType
  <2> QED BY <2>1
<1>5. CASE ReadOpenings(j)
  <2>1. job'[j].pc = "apply"
    BY <1>0, <1>5, <1>a DEF Put, ReadOpenings, JobType
  <2> QED BY <2>1
<1>6. CASE ApplyOpenings(j) \/ Create(j)
  <2>1. job'[j].pc \in {"compare", "create", "reload"}
    BY <1>6, <1>b DEF ApplyOpenings, Create
  <2> QED BY <2>1
<1>7. CASE Compare(j)
  <2>1. job'[j].pc = "clear"
    BY <1>0, <1>7, <1>a DEF Put, Compare, JobType
  <2> QED BY <1>7, <2>1
<1>8. CASE Clear(j)
  <2>1. job'[j].pc = "insert"
    BY <1>8, <1>b DEF Clear
  <2> QED BY <1>8, <2>1
<1>9. CASE Insert(j)
  <2>1. job'[j].pc = "insert"
    BY <1>0, <1>9, <1>a DEF Put, Insert, At, JobType
  <2> QED BY <1>9, <2>1
<1>10. CASE SumUp(j) \/ Recount(j)
  <2>1. \E accts, held : Put(j, [job[j] EXCEPT !.pc = "balance", !.accts = accts, !.held = held])
    BY <1>10 DEF SumUp, Recount
  <2>2. job'[j].pc = "balance"
    BY <1>0, <1>a, <2>1 DEF Put, JobType
  <2> QED BY <1>10, <2>2
<1>11. CASE SetBalances(j)
  <2>1. job'[j].pc = IF job[j].src \in Undos THEN "unlog" ELSE "log"
    BY <1>11, <1>b DEF SetBalances
  <2> QED BY <1>11, <2>1
<1>12. CASE Finish(j) \/ Unlog(j)
  <2>1. job'[j].pc = "idle"
    BY <1>12, <1>a DEF Put, Finish, Unlog, Idle
  <2> QED BY <2>1
<1>13. CASE UndoDelete(j)
  <2>1. job'[j].pc \in {"unlog", "recount"}
    BY <1>13, <1>b DEF UndoDelete
  <2> QED BY <1>13, <2>1
<1>14. CASE Crash(j)
  <2>1. job'[j].pc \in {"failed", "idle"}
    BY <1>14, <1>a DEF Put, Crash, Idle
  <2> QED BY <2>1
<1> QED
  BY <1>1, <1>2, <1>3, <1>4, <1>5, <1>6, <1>7, <1>8, <1>9, <1>10, <1>11, <1>12, <1>13, <1>14
  DEF Step, Ask, Import, Undo

\* Of the imports and undos that run alone, one is at work.
AtMostOne == alone => \A j, k \in Job : Busy(j) /\ Busy(k) => j = k

LEMMA OneStep == ASSUME TypeOK, AtMostOne, [Next]_vars PROVE AtMostOne'
<1>1. CASE UNCHANGED vars
  BY <1>1 DEF vars, AtMostOne, Busy
<1>2. CASE Edit /\ alone' = alone
  <2>1. job' = job
    BY <1>2 DEF Edit, AddAccount, RenameAccount, TypeIn
  <2> QED BY <1>2, <2>1 DEF AtMostOne, Busy
<1>3. ASSUME NEW j \in Job, Step(j), alone' = alone, alone => \A k \in Job \ {j} : ~Busy(k)
      PROVE  AtMostOne'
  BY <1>3, OthersWait DEF AtMostOne, Busy
<1> QED BY <1>1, <1>2, <1>3 DEF Next

\* Alone, what an import has read of the ledger is what the ledger still says.
HealInv ==
  /\ TypeOK /\ AtMostOne
  /\ alone => \A j \in Job : At(j, "balance") => \A a \in Acct : job[j].held[a] = Owed(a)
  /\ BalancesHeal

LEMMA HealStep == HealInv /\ [Next]_vars => HealInv'
<1> SUFFICES ASSUME HealInv, [Next]_vars
             PROVE  HealInv'
  OBVIOUS
<1>0. TypeOK /\ AtMostOne
  BY DEF HealInv
<1>1. TypeOK' /\ AtMostOne'
  BY <1>0, TypeStep, OneStep
<1>2. CASE UNCHANGED vars
  BY <1>1, <1>2 DEF vars, accounts, HealInv, BalancesHeal, At, Owed, Booked, HowMany, Copies
<1>3. CASE Edit /\ alone' = alone /\ (alone => \A k \in Job : ~Busy(k))
  <2>1. job' = job
    BY <1>3 DEF Edit, AddAccount, RenameAccount, TypeIn
  <2>2. alone' => \A k \in Job : job'[k].pc \in {"idle", "failed"}
    BY <1>3, <2>1 DEF Busy
  <2> QED BY <1>1, <2>2 DEF HealInv, BalancesHeal, At
<1>4. ASSUME NEW j \in Job, Step(j), alone' = alone, alone => \A k \in Job \ {j} : ~Busy(k)
      PROVE  HealInv'
  <2> SUFFICES ASSUME alone
               PROVE  /\ \A k \in Job : At(k, "balance")' =>
                           \A a \in Acct : job'[k].held[a] = Owed(a)'
                      /\ \A k \in Job : At(k, "log")' =>
                           \A a \in job'[k].accts : balance'[a] = Owed(a)'
    BY <1>1, <1>4 DEF HealInv, BalancesHeal
  <2>1. \A k \in Job \ {j} : job'[k].pc \in {"idle", "failed"}
    BY <1>0, <1>4, OthersWait DEF Busy
  <2>2. ASSUME job'[j].pc = "balance"
        PROVE  \A a \in Acct : job'[j].held[a] = Owed(a)'
    <3>1. SumUp(j) \/ Recount(j)
      BY <1>0, <1>4, <2>2, Stage
    <3>2. rows' = rows /\ start' = start
      BY <3>1 DEF SumUp, Recount, accounts
    <3>3. job'[j].held = [a \in Acct |-> Owed(a)]
      <4>1. \E accts : Put(j, [job[j] EXCEPT !.pc = "balance", !.accts = accts,
                                             !.held = [a \in Acct |-> Owed(a)]])
        BY <3>1 DEF SumUp, Recount
      <4> QED BY <1>0, <4>1 DEF Put, TypeOK, JobType
    <3> QED BY <3>2, <3>3 DEF Owed, Booked, HowMany, Copies
  <2>3. ASSUME job'[j].pc = "log"
        PROVE  \A a \in job'[j].accts : balance'[a] = Owed(a)'
    <3>1. SetBalances(j)
      BY <1>0, <1>4, <2>3, Stage
    <3>2. rows' = rows /\ start' = start /\ job'[j].accts = job[j].accts
      BY <1>0, <3>1 DEF SetBalances, accounts, Go, Put, TypeOK, JobType
    <3>3. job[j].accts \subseteq Acct /\ \A a \in Acct : job[j].held[a] = Owed(a)
      BY <1>0, <3>1 DEF HealInv, SetBalances, TypeOK, JobType
    <3>4. \A a \in job[j].accts : balance'[a] = Owed(a)
      BY <3>1, <3>3 DEF SetBalances
    <3> QED BY <3>2, <3>4 DEF Owed, Booked, HowMany, Copies
  <2> QED BY <2>1, <2>2, <2>3 DEF At
<1> QED BY <1>2, <1>3, <1>4 DEF Next

\* An import that runs alone leaves the balance of every account it knows at what
\* the ledger says, whatever stopped before it.
THEOREM ImportsHeal == Spec => []BalancesHeal
<1>1. Init => HealInv
  <2>1. Init => TypeOK
    BY InitTypes
  <2>2. Init => \A j \in Job : job[j].pc = "idle"
    BY DEF Init, Idle
  <2> QED BY <2>1, <2>2 DEF HealInv, AtMostOne, Busy, BalancesHeal, At
<1>2. HealInv => BalancesHeal
  BY DEF HealInv
<1> QED BY <1>1, <1>2, HealStep, PTL DEF Spec

\* Which step changes rows: one of a job's three, and then its own import's and its own
\* record, or one of a person's, and then what was typed in.
LEMMA RowSteps ==
  ASSUME TypeOK, [Next]_vars
  PROVE  \/ rows' = rows
         \/ job' = job /\ \E new : rows' = [rows EXCEPT ![0] = new]
         \/ \E j \in Job : /\ job[j].pc \in {"clear", "insert", "undo"} /\ job'[j] # job[j]
                           /\ \E new : rows' = [rows EXCEPT ![job[j].tag] = new]
<1>0. job \in [Job -> JobType]
  BY DEF TypeOK
<1>1. ASSUME NEW j \in Job, Step(j)
      PROVE  \/ rows' = rows
             \/ /\ job[j].pc \in {"clear", "insert", "undo"} /\ job'[j] # job[j]
                /\ \E new : rows' = [rows EXCEPT ![job[j].tag] = new]
  <2>1. CASE Clear(j)
    <3>1. job'[j].pc = "insert" /\ job[j].pc = "clear"
      BY <1>0, <2>1 DEF Clear, At, Go, Put, JobType
    <3> QED BY <2>1, <3>1 DEF Clear
  <2>2. CASE UndoDelete(j)
    <3>1. job'[j].pc \in {"unlog", "recount"} /\ job[j].pc = "undo"
      BY <1>0, <2>2 DEF UndoDelete, At, Go, Put, JobType
    <3> QED BY <2>2, <3>1 DEF UndoDelete
  <2>3. CASE Insert(j)
    <3>1. PICK l \in Line :
            /\ job[j].todo[l] > 0
            /\ rows' = [rows EXCEPT ![job[j].tag][l][job[j].at[l]] = @ + job[j].todo[l]]
            /\ Put(j, [job[j] EXCEPT !.todo[l] = 0])
      BY <2>3 DEF Insert
    <3>2. job'[j].todo[l] = 0
      BY <1>0, <3>1 DEF Put, JobType
    <3>3. job'[j] # job[j]
      BY <3>1, <3>2
    <3>4. \E new : rows' = [rows EXCEPT ![job[j].tag] = new]
      BY <3>1
    <3> QED BY <2>3, <3>3, <3>4 DEF Insert, At
  <2>4. CASE ~(Clear(j) \/ UndoDelete(j) \/ Insert(j))
    BY <1>1, <2>4 DEF Step, Ask, Import, Undo, Begin, Replace, Retry, UndoBegin, LoadAccounts,
       ReadOpenings, ApplyOpenings, Create, ReloadAccounts, Compare, SumUp, SetBalances,
       Finish, Recount, Unlog, Crash
  <2> QED BY <2>1, <2>2, <2>3, <2>4
<1>2. CASE Edit
  BY <1>2 DEF Edit, AddAccount, RenameAccount, TypeIn
<1>3. CASE UNCHANGED vars
  BY <1>3 DEF vars
<1> QED BY <1>1, <1>2, <1>3 DEF Next

\* An import or undo that is not over has an import id.
HasTag == \A j \in Job : ~At(j, "idle") => job[j].tag \in Tag

LEMMA TagStep == TypeOK /\ HasTag /\ [Next]_vars => HasTag'
<1> SUFFICES ASSUME TypeOK, HasTag, [Next]_vars
             PROVE  HasTag'
  OBVIOUS
<1>1. CASE UNCHANGED vars \/ Edit
  BY <1>1 DEF vars, Edit, AddAccount, RenameAccount, TypeIn, HasTag, At
<1>2. ASSUME NEW j \in Job, Step(j)
      PROVE  HasTag'
  <2>0. job[j] \in JobType /\ DOMAIN job = Job /\ (job[j].pc # "idle" => job[j].tag \in Tag)
    BY DEF TypeOK, HasTag, At
  <2> SUFFICES ASSUME job'[j].pc # "idle"
               PROVE  job'[j].tag \in Tag
    BY <1>2, OthersWait DEF HasTag, At
  <2>1. CASE \E src \in Sources, sheet \in Sheets, offers \in BOOLEAN : Begin(j, src, sheet, offers)
    <3>1. issued + 1 \in Tag /\ job'[j].tag = issued + 1
      BY <2>0, <2>1, ImportsAssumption DEF Begin, Put, Idle, TypeOK, Tag, Tag0
    <3> QED BY <3>1
  <2>2. CASE \/ \E tag \in Tag, sheet \in Sheets : Replace(j, tag, sheet)
             \/ \E tag \in Tag, mcp \in BOOLEAN : UndoBegin(j, tag, mcp)
    BY <2>0, <2>2 DEF Replace, UndoBegin, Put, Idle
  <2>3. CASE Retry(j) \/ Crash(j)
    <3>1. CASE Retry(j)
      <4>1. job'[j].tag = job[j].tag
        BY <2>0, <3>1 DEF Retry, Put, Idle
      <4> QED BY <2>0, <3>1, <4>1 DEF Retry, At
    <3>2. CASE Crash(j)
      <4>1. job'[j].tag = job[j].tag \/ job'[j] = Idle
        BY <2>0, <3>2 DEF Crash, Put, Idle
      <4>2. job'[j] # Idle
        BY DEF Idle
      <4> QED BY <2>0, <3>2, <4>1, <4>2 DEF Crash
    <3> QED BY <2>3, <3>1, <3>2
  <2>4. CASE Import(j) \/ Undo(j)
    <3>1. CASE Finish(j) \/ Unlog(j)
      <4>1. job'[j] = Idle
        BY <2>0, <3>1 DEF Finish, Unlog, Put
      <4> QED BY <4>1 DEF Idle
    <3>2. CASE LoadAccounts(j)
      BY <2>0, <3>2 DEF LoadAccounts, At, Put, JobType
    <3>3. CASE ReadOpenings(j)
      BY <2>0, <3>3 DEF ReadOpenings, At, Put, JobType
    <3>4. CASE ApplyOpenings(j)
      BY <2>0, <3>4 DEF ApplyOpenings, At, Go, Put, JobType
    <3>5. CASE Create(j)
      BY <2>0, <3>5 DEF Create, At, Go, Put, JobType
    <3>6. CASE ReloadAccounts(j)
      BY <2>0, <3>6 DEF ReloadAccounts, At, Put, JobType
    <3>7. CASE Compare(j)
      BY <2>0, <3>7 DEF Compare, At, Put, JobType
    <3>8. CASE Clear(j)
      BY <2>0, <3>8 DEF Clear, At, Go, Put, JobType
    <3>9. CASE Insert(j)
      BY <2>0, <3>9 DEF Insert, At, Put, JobType
    <3>10. CASE SumUp(j)
      BY <2>0, <3>10 DEF SumUp, At, Put, JobType
    <3>11. CASE SetBalances(j)
      BY <2>0, <3>11 DEF SetBalances, At, Go, Put, JobType
    <3>12. CASE UndoDelete(j)
      BY <2>0, <3>12 DEF UndoDelete, At, Go, Put, JobType
    <3>13. CASE Recount(j)
      BY <2>0, <3>13 DEF Recount, At, Put, JobType
    <3> QED
      BY <2>4, <3>1, <3>2, <3>3, <3>4, <3>5, <3>6, <3>7, <3>8, <3>9, <3>10, <3>11, <3>12, <3>13
      DEF Import, Undo
  <2> QED BY <1>2, <2>1, <2>2, <2>3, <2>4 DEF Step, Ask
<1> QED BY <1>1, <1>2 DEF Next

\* The rows of an import change by steps of a job that has its id, and what was typed in
\* by none.
THEOREM OwnRows == Spec => OwnRowsOnly
<1> DEFINE Mine == \A t \in Tag : rows'[t] # rows[t] =>
             \E j \in Job : /\ job[j].tag = t /\ job[j].pc \in {"clear", "insert", "undo"}
                           /\ job'[j] # job[j]
           Typed == rows'[0] # rows[0] => UNCHANGED job
<1>1. ASSUME TypeOK, HasTag, [Next]_vars
      PROVE  Mine /\ Typed
  <2>0. /\ 0 \notin Tag /\ DOMAIN rows = Tag0 /\ Tag \subseteq Tag0 /\ 0 \in Tag0
        /\ rows = [t \in Tag0 |-> rows[t]]
    BY <1>1, ImportsAssumption DEF Tag, Tag0, TypeOK
  <2>1. CASE rows' = rows
    BY <2>1
  <2>2. CASE job' = job /\ \E new : rows' = [rows EXCEPT ![0] = new]
    <3>1. \A t \in Tag : rows'[t] = rows[t]
      BY <2>0, <2>2
    <3> QED BY <2>2, <3>1
  <2>3. CASE \E j \in Job : /\ job[j].pc \in {"clear", "insert", "undo"} /\ job'[j] # job[j]
                            /\ \E new : rows' = [rows EXCEPT ![job[j].tag] = new]
    <3>1. PICK j \in Job : /\ job[j].pc \in {"clear", "insert", "undo"} /\ job'[j] # job[j]
                           /\ \E new : rows' = [rows EXCEPT ![job[j].tag] = new]
      BY <2>3
    <3>2. \A t \in Tag0 : t # job[j].tag => rows'[t] = rows[t]
      BY <2>0, <3>1
    <3>3. job[j].tag # 0
      BY <1>1, <2>0, <3>1 DEF HasTag, At
    <3> QED BY <2>0, <3>1, <3>2, <3>3
  <2> QED BY <1>1, <2>1, <2>2, <2>3, RowSteps
<1>2. TypeOK /\ HasTag /\ [Next]_vars => [Mine /\ Typed]_vars
  BY <1>1
<1>3. Init => HasTag
  BY DEF Init, HasTag, Idle, At
<1> QED BY <1>2, <1>3, TagStep, ImportTypes, PTL DEF Spec, OwnRowsOnly
-----------------------------------------------------------------------------
(* What an import adds                                                         *)

\* Transactions are counted as before when the imports asked about are as before.
LEMMA CountKept ==
  ASSUME NEW tags, NEW lines, NEW accts, \A t \in tags : rows'[t] = rows[t]
  PROVE  HowMany(tags, lines, accts)' = HowMany(tags, lines, accts)
<1>1. \A x \in tags \X lines \X accts :
        Copies(x[1], x[2], x[3])' = Copies(x[1], x[2], x[3])
  BY DEF Copies
<1>2. {Copies(x[1], x[2], x[3])' : x \in tags \X lines \X accts}
        = {Copies(x[1], x[2], x[3]) : x \in tags \X lines \X accts}
  BY <1>1
<1> QED BY <1>2 DEF HowMany

\* What an import has to add does not change while its own rows do.
LEMMA NewKept ==
  ASSUME NEW j \in Job, NEW l \in Line, job'[j].tag = job[j].tag,
         job'[j].sheet = job[j].sheet, job'[j].map = job[j].map,
         \A t \in Tag0 \ {job[j].tag} : rows'[t] = rows[t]
  PROVE  /\ Resolved(j, l)' = Resolved(j, l)
         /\ New(j, l, job[j].tag)' = New(j, l, job[j].tag)
<1>1. Resolved(j, l)' = Resolved(j, l)
  BY DEF Resolved
<1>2. PICK tag, a : tag = job[j].tag /\ a = Resolved(j, l)
  OBVIOUS
<1>3. HowMany(Tag0 \ {tag}, {l}, {a})' = HowMany(Tag0 \ {tag}, {l}, {a})
  BY <1>2, CountKept
<1> QED BY <1>1, <1>2, <1>3 DEF New, Elsewhere, Bigger

\* An import between its comparison and the log, and an undo before its recompute.
Adding(j) == job[j].pc \in {"clear", "insert", "balance", "log"} /\ job[j].src \notin Undos
UndoSources ==
  \A j \in Job : /\ job[j].pc \in {"undo", "recount"} => job[j].src \in Undos
                 /\ job[j].pc = "log" => job[j].src \notin Undos

\* How far it is with a line: nothing of it added, or all.
None(j, l) == \A a \in Acct0 : rows[job[j].tag][l][a] = 0
All(j, l) ==
  \A a \in Acct0 : rows[job[j].tag][l][a] = IF a = job[j].at[l] THEN New(j, l, job[j].tag) ELSE 0
Progress(j, l) ==
  /\ job[j].at[l] = Resolved(j, l)
  /\ At(j, "clear") => job[j].todo[l] = New(j, l, job[j].tag)
  /\ At(j, "insert") => \/ None(j, l) /\ job[j].todo[l] = New(j, l, job[j].tag)
                        \/ All(j, l) /\ job[j].todo[l] = 0
  /\ job[j].pc \in {"balance", "log"} => All(j, l)

AddInv ==
  /\ TypeOK /\ AtMostOne /\ UndoSources
  /\ alone => \A j \in Job : Adding(j) => \A l \in Line : Progress(j, l)

LEMMA SourceStep == TypeOK /\ UndoSources /\ [Next]_vars => UndoSources'
<1> SUFFICES ASSUME TypeOK, UndoSources, [Next]_vars
             PROVE  UndoSources'
  OBVIOUS
<1>1. CASE UNCHANGED vars \/ Edit
  BY <1>1 DEF vars, Edit, AddAccount, RenameAccount, TypeIn, UndoSources
<1>2. ASSUME NEW j \in Job, Step(j)
      PROVE  UndoSources'
  <2>1. job[j] \in JobType /\ DOMAIN job = Job
    BY DEF TypeOK
  <2>2. job'[j].pc = "undo" => job'[j].src \in Undos
    <3>1. ASSUME NEW tag \in Tag, NEW mcp \in BOOLEAN, UndoBegin(j, tag, mcp)
          PROVE  job'[j].src \in Undos
      BY <2>1, <3>1 DEF UndoBegin, Put, Idle, Undos
    <3> QED BY <1>2, <3>1, Stage
  <2>3. job'[j].pc = "recount" => job'[j].src \in Undos
    <3>1. UndoDelete(j) => job'[j].src = job[j].src /\ job[j].pc = "undo"
      BY <2>1 DEF UndoDelete, Go, Put, At, JobType
    <3> QED BY <1>2, <3>1, Stage DEF UndoSources
  <2>4. job'[j].pc = "log" => job'[j].src \notin Undos
    <3>1. SetBalances(j) => job'[j].src = job[j].src
      BY <2>1 DEF SetBalances, Go, Put, JobType
    <3> QED BY <1>2, <3>1, Stage
  <2> QED BY <1>2, <2>2, <2>3, <2>4, OthersWait DEF UndoSources
<1> QED BY <1>1, <1>2 DEF Next

LEMMA AddStep == AddInv /\ [Next]_vars => AddInv'
<1> SUFFICES ASSUME AddInv, [Next]_vars
             PROVE  AddInv'
  OBVIOUS
<1>0. TypeOK /\ AtMostOne /\ UndoSources
  BY DEF AddInv
<1>1. TypeOK' /\ AtMostOne' /\ UndoSources'
  BY <1>0, TypeStep, OneStep, SourceStep
<1>2. CASE UNCHANGED vars
  <2>1. ASSUME NEW j \in Job, NEW l \in Line, Progress(j, l)
        PROVE  Progress(j, l)'
    <3>1. rows' = rows /\ job' = job
      BY <1>2 DEF vars
    <3>2. Resolved(j, l)' = Resolved(j, l) /\ New(j, l, job[j].tag)' = New(j, l, job[j].tag)
      BY <3>1, NewKept
    <3> QED BY <2>1, <3>1, <3>2 DEF Progress, None, All, At
  <2>2. \A j \in Job : Adding(j)' = Adding(j)
    BY <1>2 DEF vars, Adding
  <2>3. alone' = alone
    BY <1>2 DEF vars
  <2> QED BY <1>1, <2>1, <2>2, <2>3 DEF AddInv
<1>3. CASE Edit /\ alone' = alone /\ (alone => \A k \in Job : ~Busy(k))
  <2>1. job' = job
    BY <1>3 DEF Edit, AddAccount, RenameAccount, TypeIn
  <2>2. alone' => \A k \in Job : job'[k].pc \in {"idle", "failed"}
    BY <1>3, <2>1 DEF Busy
  <2> QED BY <1>1, <2>2 DEF AddInv, Adding
<1>4. ASSUME NEW j \in Job, Step(j), alone' = alone, alone => \A k \in Job \ {j} : ~Busy(k)
      PROVE  AddInv'
  <2> SUFFICES ASSUME alone, Adding(j)', NEW l \in Line
               PROVE  Progress(j, l)'
    <3>1. alone => \A k \in Job \ {j} : job'[k].pc \in {"idle", "failed"}
      BY <1>0, <1>4, OthersWait DEF Busy
    <3> QED BY <1>1, <1>4, <3>1 DEF AddInv, Adding
  <2>0. /\ job[j] \in JobType /\ DOMAIN job = Job
        /\ rows \in Rows /\ job[j].tag \in Tag0
        /\ job[j].at \in [Line -> Acct0] /\ job[j].todo \in [Line -> Nat]
    BY <1>0 DEF TypeOK, Rows, JobType
  <2>1. CASE job'[j].pc = "clear"
    <3>1. Compare(j)
      BY <1>0, <1>4, <2>1, Stage
    <3>2. /\ job'[j].tag = job[j].tag /\ job'[j].sheet = job[j].sheet
          /\ job'[j].map = job[j].map /\ rows' = rows
      BY <2>0, <3>1 DEF Compare, Put, JobType
    <3>3. job'[j].at[l] = Resolved(j, l) /\ job'[j].todo[l] = New(j, l, job[j].tag)
      BY <2>0, <3>1 DEF Compare, Put, JobType
    <3>4. Resolved(j, l)' = Resolved(j, l) /\ New(j, l, job[j].tag)' = New(j, l, job[j].tag)
      BY <3>2, NewKept
    <3> QED BY <2>1, <3>3, <3>4 DEF Progress, At
  <2>2. CASE job'[j].pc = "insert" /\ Clear(j)
    <3>1. /\ job'[j].tag = job[j].tag /\ job'[j].sheet = job[j].sheet
          /\ job'[j].map = job[j].map /\ job'[j].at = job[j].at /\ job'[j].todo = job[j].todo
          /\ job'[j].src = job[j].src
      BY <2>0, <2>2 DEF Clear, Go, Put, JobType
    <3>2. /\ \A t \in Tag0 \ {job[j].tag} : rows'[t] = rows[t]
          /\ rows'[job[j].tag] = NoRows
      BY <2>0, <2>2 DEF Clear, Rows
    <3>3. Progress(j, l) /\ At(j, "clear")
      BY <2>2, <3>1 DEF AddInv, Adding, Clear, At
    <3>4. Resolved(j, l)' = Resolved(j, l) /\ New(j, l, job[j].tag)' = New(j, l, job[j].tag)
      BY <3>1, <3>2, NewKept
    <3>5. \A a \in Acct0 : rows'[job[j].tag][l][a] = 0
      BY <3>2 DEF NoRows
    <3> QED BY <2>2, <3>1, <3>3, <3>4, <3>5 DEF Progress, None, At
  <2>3. CASE job'[j].pc = "insert" /\ Insert(j)
    <3>1. PICK m \in Line :
            /\ job[j].todo[m] > 0
            /\ rows' = [rows EXCEPT ![job[j].tag][m][job[j].at[m]] = @ + job[j].todo[m]]
            /\ Put(j, [job[j] EXCEPT !.todo[m] = 0])
      BY <2>3 DEF Insert
    <3>2. /\ job'[j].tag = job[j].tag /\ job'[j].sheet = job[j].sheet
          /\ job'[j].map = job[j].map /\ job'[j].at = job[j].at
          /\ job'[j].todo = [job[j].todo EXCEPT ![m] = 0]
          /\ job'[j].src = job[j].src
      BY <2>0, <3>1 DEF Put, JobType
    <3>3. \A t \in Tag0 \ {job[j].tag} : rows'[t] = rows[t]
      BY <2>0, <3>1 DEF Rows
    <3>4. Progress(j, l) /\ At(j, "insert")
      BY <2>3, <3>2 DEF AddInv, Adding, Insert, At
    <3>5. Resolved(j, l)' = Resolved(j, l) /\ New(j, l, job[j].tag)' = New(j, l, job[j].tag)
      BY <3>2, <3>3, NewKept
    <3>6. CASE l # m
      <4>1. rows'[job[j].tag][l] = rows[job[j].tag][l] /\ job'[j].todo[l] = job[j].todo[l]
        BY <2>0, <3>1, <3>2, <3>6 DEF Rows
      <4>2. (None(j, l) => None(j, l)') /\ (All(j, l) => All(j, l)')
        BY <3>2, <3>5, <4>1 DEF None, All
      <4> QED BY <2>3, <3>2, <3>4, <3>5, <4>1, <4>2 DEF Progress, At
    <3>7. CASE l = m
      <4>1. None(j, l) /\ job[j].todo[l] = New(j, l, job[j].tag)
        BY <2>0, <3>1, <3>4, <3>7 DEF Progress
      <4>2. \A a \in Acct0 : rows'[job[j].tag][l][a]
                             = IF a = job[j].at[l] THEN job[j].todo[l] ELSE 0
        <5>1. rows'[job[j].tag][l]
                = [rows[job[j].tag][l] EXCEPT ![job[j].at[l]] = @ + job[j].todo[l]]
          BY <2>0, <3>1, <3>7 DEF Rows
        <5>2. rows[job[j].tag][l] \in [Acct0 -> Nat]
          BY <2>0 DEF Rows
        <5> QED BY <2>0, <4>1, <5>1, <5>2 DEF None
      <4>3. All(j, l)'
        BY <3>2, <3>5, <4>1, <4>2 DEF All
      <4>4. job'[j].todo[l] = 0
        BY <2>0, <3>2, <3>7
      <4> QED BY <2>3, <3>2, <3>4, <3>5, <4>3, <4>4 DEF Progress, At
    <3> QED BY <3>6, <3>7
  <2>4. CASE job'[j].pc = "balance" /\ SumUp(j)
    <3>1. /\ job'[j].tag = job[j].tag /\ job'[j].sheet = job[j].sheet
          /\ job'[j].map = job[j].map /\ job'[j].at = job[j].at
          /\ job'[j].src = job[j].src /\ rows' = rows
      <4>1. \E accts, held :
              Put(j, [job[j] EXCEPT !.pc = "balance", !.accts = accts, !.held = held])
        BY <2>4 DEF SumUp
      <4>2. rows' = rows
        BY <2>4 DEF SumUp
      <4> QED BY <2>0, <4>1, <4>2 DEF Put, JobType
    <3>2. Progress(j, l) /\ At(j, "insert") /\ job[j].todo[l] = 0
      BY <2>4, <3>1 DEF AddInv, Adding, SumUp, At, Blank
    <3>3. Resolved(j, l)' = Resolved(j, l) /\ New(j, l, job[j].tag)' = New(j, l, job[j].tag)
      BY <3>1, NewKept
    <3>4. All(j, l)
      BY <3>2 DEF Progress, None, All
    <3> QED BY <2>4, <3>1, <3>2, <3>3, <3>4 DEF Progress, All, At
  <2>5. CASE job'[j].pc = "balance" /\ Recount(j)
    <3>1. job'[j].src = job[j].src /\ job[j].pc = "recount"
      <4>1. \E accts, held :
              Put(j, [job[j] EXCEPT !.pc = "balance", !.accts = accts, !.held = held])
        BY <2>5 DEF Recount
      <4>2. job[j].pc = "recount"
        BY <2>5 DEF Recount, At
      <4> QED BY <2>0, <4>1, <4>2 DEF Put, JobType
    <3> QED BY <1>0, <3>1 DEF UndoSources, Adding
  <2>6. CASE job'[j].pc = "log"
    <3>1. SetBalances(j) /\ job[j].src \notin Undos
      BY <1>0, <1>4, <2>6, Stage
    <3>2. /\ job'[j].tag = job[j].tag /\ job'[j].sheet = job[j].sheet
          /\ job'[j].map = job[j].map /\ job'[j].at = job[j].at /\ rows' = rows
      BY <2>0, <3>1 DEF SetBalances, Go, Put, JobType
    <3>3. Progress(j, l) /\ At(j, "balance")
      BY <3>1 DEF AddInv, Adding, SetBalances, At
    <3>4. Resolved(j, l)' = Resolved(j, l) /\ New(j, l, job[j].tag)' = New(j, l, job[j].tag)
      BY <3>2, NewKept
    <3> QED BY <2>6, <3>2, <3>3, <3>4 DEF Progress, All, At
  <2> QED BY <1>0, <1>4, <2>1, <2>2, <2>3, <2>4, <2>5, <2>6, Stage DEF Adding
<1> QED BY <1>2, <1>3, <1>4 DEF Next

\* An import that runs alone, whatever attempts of its own stopped before, has every
\* line where it resolves as often as its statement has it and the ledger did not.
THEOREM ImportsAdd == Spec => []NeitherLostNorDoubled
<1>1. Init => AddInv
  <2>1. Init => TypeOK
    BY InitTypes
  <2>2. Init => \A j \in Job : job[j].pc = "idle"
    BY DEF Init, Idle
  <2> QED BY <2>1, <2>2 DEF AddInv, AtMostOne, Busy, UndoSources, Adding
<1>2. AddInv => NeitherLostNorDoubled
  BY DEF AddInv, UndoSources, NeitherLostNorDoubled, Adding, Progress, All, At
<1> QED BY <1>1, <1>2, AddStep, PTL DEF Spec
-----------------------------------------------------------------------------
(* What the log remembers                                                      *)

ImportStages == {"load", "openings", "apply", "create", "reload", "compare", "clear", "insert",
                 "log"}

\* An import at work has an id that was issued and is not in the log (any more), and
\* an undo past its deletion finds no rows of its own.
Kept(j) ==
  /\ ~At(j, "idle") => job[j].tag \in 1..issued
  /\ job[j].pc \in ImportStages => job[j].src \notin Undos
  /\ job[j].pc \in {"undo", "recount", "unlog"} => job[j].src \in Undos
  /\ Busy(j) /\ job[j].src \notin Undos => job[j].tag \notin logged
  /\ job[j].pc \in {"recount", "balance", "unlog"} /\ job[j].src \in Undos =>
       rows[job[j].tag] = NoRows

LogInv ==
  /\ TypeOK /\ OwnIds /\ UndoableWhileThere
  /\ logged \subseteq 1..issued
  /\ \A j \in Job : Kept(j)

\* A step of one import leaves what holds of every other.
LEMMA OthersKept ==
  ASSUME LogInv, NEW j \in Job, Step(j), NEW k \in Job, k # j, OwnIds',
         issued' \in {issued, issued + 1},
         \/ logged' \subseteq logged
         \/ Busy(j) /\ logged' = logged \cup {job[j].tag},
         \/ rows' = rows
         \/ Busy(j) /\ \E new : rows' = [rows EXCEPT ![job[j].tag] = new]
  PROVE  Kept(k)'
<1>0. /\ TypeOK /\ OwnIds /\ Kept(k) /\ Kept(j) /\ issued \in Nat
      /\ job[k] \in JobType /\ DOMAIN rows = Tag0
  BY ImportsAssumption DEF LogInv, TypeOK, Tag0
<1>1. job'[k] = job[k]
  BY <1>0, OthersWait
<1>2. 1..issued \subseteq 1..issued'
  BY <1>0
<1>3. Busy(j) /\ Busy(k) => job[k].tag # job[j].tag
  BY <1>0 DEF OwnIds
<1>4. Busy(k) => (job[k].tag \in logged' => job[k].tag \in logged)
  BY <1>3
<1>5. Busy(k) => rows'[job[k].tag] = rows[job[k].tag]
  BY <1>0, <1>3 DEF JobType
<1> QED BY <1>0, <1>1, <1>2, <1>4, <1>5 DEF Kept, At, Busy

\* The log, the rows and the id of an import after a step of it, when the step
\* neither ends it nor begins it.
Middle(j) ==
  \/ LoadAccounts(j) \/ ReadOpenings(j) \/ ApplyOpenings(j) \/ Create(j) \/ ReloadAccounts(j)
  \/ Compare(j) \/ Clear(j) \/ Insert(j) \/ SumUp(j) \/ SetBalances(j) \/ UndoDelete(j)
  \/ Recount(j)
LEMMA MiddleKeeps ==
  ASSUME TypeOK, NEW j \in Job, Middle(j)
  PROVE  /\ Busy(j) /\ UNCHANGED <<issued, logged, logs>>
         /\ job'[j].tag = job[j].tag /\ job'[j].src = job[j].src
<1>0. job[j] \in JobType /\ DOMAIN job = Job
  BY DEF TypeOK
<1>1. Busy(j) /\ UNCHANGED <<issued, logged, logs>>
  BY DEF Middle, Busy, At, LoadAccounts, ReadOpenings, ApplyOpenings, Create, ReloadAccounts,
     Compare, Clear, Insert, SumUp, SetBalances, UndoDelete, Recount
<1>2. ASSUME NEW pc, Go(j, pc)
      PROVE  job'[j].tag = job[j].tag /\ job'[j].src = job[j].src
  BY <1>0, <1>2 DEF Go, Put, JobType
<1>3. CASE ApplyOpenings(j) \/ Create(j) \/ Clear(j) \/ SetBalances(j) \/ UndoDelete(j)
  BY <1>1, <1>2, <1>3 DEF ApplyOpenings, Create, Clear, SetBalances, UndoDelete
<1>4. CASE LoadAccounts(j) \/ ReloadAccounts(j)
  <2>1. \E pc, map : Put(j, [job[j] EXCEPT !.pc = pc, !.map = map])
    BY <1>4 DEF LoadAccounts, ReloadAccounts
  <2> QED BY <1>0, <1>1, <2>1 DEF Put, JobType
<1>5. CASE ReadOpenings(j)
  BY <1>0, <1>1, <1>5 DEF ReadOpenings, Put, JobType
<1>6. CASE Compare(j)
  <2>1. \E at, todo, added : Put(j, [job[j] EXCEPT !.pc = "clear", !.at = at, !.todo = todo,
                                                   !.added = added])
    BY <1>6 DEF Compare
  <2> QED BY <1>0, <1>1, <2>1 DEF Put, JobType
<1>7. CASE Insert(j)
  <2>1. \E l \in Line : Put(j, [job[j] EXCEPT !.todo[l] = 0])
    BY <1>7 DEF Insert
  <2> QED BY <1>0, <1>1, <2>1 DEF Put, JobType
<1>8. CASE SumUp(j) \/ Recount(j)
  <2>1. \E accts, held : Put(j, [job[j] EXCEPT !.pc = "balance", !.accts = accts, !.held = held])
    BY <1>8 DEF SumUp, Recount
  <2> QED BY <1>0, <1>1, <2>1 DEF Put, JobType
<1> QED BY <1>3, <1>4, <1>5, <1>6, <1>7, <1>8 DEF Middle

\* The stage such a step leads to.
LEMMA MiddleStage ==
  ASSUME TypeOK, NEW j \in Job, Middle(j), Kept(j)
  PROVE  \/ job[j].src \notin Undos /\ job'[j].pc \in ImportStages \cup {"balance"}
         \/ job[j].src \in Undos /\ job'[j].pc \in {"recount", "balance", "unlog"}
<1>0. job[j] \in JobType /\ DOMAIN job = Job
  BY DEF TypeOK
<1>1. \A pc : Go(j, pc) => job'[j].pc = pc
  BY <1>0 DEF Go, Put, JobType
<1>2. CASE SetBalances(j)
  BY <1>1, <1>2 DEF SetBalances, ImportStages
<1>3. CASE UndoDelete(j) \/ Recount(j)
  <2>1. job[j].src \in Undos
    BY <1>3 DEF UndoDelete, Recount, At, Kept
  <2>2. UndoDelete(j) => job'[j].pc \in {"recount", "unlog"}
    BY <1>1 DEF UndoDelete
  <2>3. ASSUME Recount(j)
        PROVE  job'[j].pc = "balance"
    <3>1. \E accts, held : Put(j, [job[j] EXCEPT !.pc = "balance", !.accts = accts, !.held = held])
      BY <2>3 DEF Recount
    <3> QED BY <1>0, <3>1 DEF Put, JobType
  <2> QED BY <1>3, <2>1, <2>2, <2>3
<1>4. CASE ~(SetBalances(j) \/ UndoDelete(j) \/ Recount(j))
  <2>1. job[j].pc \in ImportStages
    BY <1>4 DEF Middle, At, ImportStages, LoadAccounts, ReadOpenings, ApplyOpenings, Create,
       ReloadAccounts, Compare, Clear, Insert, SumUp
  <2>2. \/ job'[j].pc \in {"openings", "compare", "apply", "create", "reload", "clear", "insert"}
        \/ job'[j].pc = "balance"
    <3>1. CASE ApplyOpenings(j) \/ Create(j) \/ Clear(j)
      BY <1>1, <3>1 DEF ApplyOpenings, Create, Clear
    <3>2. CASE LoadAccounts(j) \/ ReloadAccounts(j)
      <4>1. \E pc \in {"openings", "compare"} : \E map : Put(j, [job[j] EXCEPT !.pc = pc, !.map = map])
        BY <3>2 DEF LoadAccounts, ReloadAccounts
      <4> QED BY <1>0, <4>1 DEF Put, JobType
    <3>3. CASE ReadOpenings(j)
      BY <1>0, <3>3 DEF ReadOpenings, Put, JobType
    <3>4. CASE Compare(j)
      <4>1. \E at, todo, added : Put(j, [job[j] EXCEPT !.pc = "clear", !.at = at, !.todo = todo,
                                                       !.added = added])
        BY <3>4 DEF Compare
      <4> QED BY <1>0, <4>1 DEF Put, JobType
    <3>5. CASE Insert(j)
      <4>1. \E l \in Line : Put(j, [job[j] EXCEPT !.todo[l] = 0])
        BY <3>5 DEF Insert
      <4> QED BY <1>0, <3>5, <4>1 DEF Insert, At, Put, JobType
    <3>6. CASE SumUp(j)
      <4>1. \E accts, held : Put(j, [job[j] EXCEPT !.pc = "balance", !.accts = accts, !.held = held])
        BY <3>6 DEF SumUp
      <4> QED BY <1>0, <4>1 DEF Put, JobType
    <3> QED BY <1>4, <3>1, <3>2, <3>3, <3>4, <3>5, <3>6 DEF Middle
  <2> QED BY <2>1, <2>2 DEF Kept, ImportStages
<1> QED BY <1>2, <1>3, <1>4

\* The rows of an import after a step of it.
LEMMA RowsAfter ==
  ASSUME TypeOK, NEW j \in Job, Step(j)
  PROVE  \/ rows' = rows
         \/ Insert(j) /\ \E new : rows' = [rows EXCEPT ![job[j].tag] = new]
         \/ (Clear(j) \/ UndoDelete(j)) /\ rows' = [rows EXCEPT ![job[j].tag] = NoRows]
<1>1. CASE Insert(j)
  BY <1>1 DEF Insert
<1>2. CASE Clear(j) \/ UndoDelete(j)
  BY <1>2 DEF Clear, UndoDelete
<1>3. CASE ~(Clear(j) \/ UndoDelete(j) \/ Insert(j))
  BY <1>3 DEF Step, Ask, Import, Undo, Begin, Replace, Retry, UndoBegin, LoadAccounts,
     ReadOpenings, ApplyOpenings, Create, ReloadAccounts, Compare, SumUp, SetBalances,
     Finish, Recount, Unlog, Crash
<1> QED BY <1>1, <1>2, <1>3

\* Until it ends, an import keeps its place in the log and an undo keeps its rows away.
LEMMA MiddleLog ==
  ASSUME LogInv, NEW j \in Job, Step(j), Middle(j)
  PROVE  Kept(j)' /\ UndoableWhileThere'
<1>0. /\ TypeOK /\ Kept(j) /\ job[j] \in JobType /\ DOMAIN rows = Tag0
      /\ UndoableWhileThere /\ job[j].tag \in 1..issued
  BY MiddleKeeps DEF LogInv, TypeOK, Kept, Busy, At
<1>1. /\ Busy(j) /\ UNCHANGED <<issued, logged, logs>>
      /\ job'[j].tag = job[j].tag /\ job'[j].src = job[j].src
  BY <1>0, MiddleKeeps
<1>2. \/ job[j].src \notin Undos /\ job'[j].pc \in ImportStages \cup {"balance"}
      \/ job[j].src \in Undos /\ job'[j].pc \in {"recount", "balance", "unlog"}
  BY <1>0, MiddleStage
<1>3. \/ rows' = rows
      \/ Insert(j) /\ \E new : rows' = [rows EXCEPT ![job[j].tag] = new]
      \/ rows' = [rows EXCEPT ![job[j].tag] = NoRows]
  BY <1>0, RowsAfter
<1>4. Insert(j) => job[j].src \notin Undos
  BY <1>0 DEF Insert, At, Kept, ImportStages
<1>5. job[j].src \in Undos => rows'[job[j].tag] = NoRows
  <2>1. CASE UndoDelete(j)
    BY <1>0, <2>1 DEF UndoDelete, JobType
  <2>2. CASE SetBalances(j) \/ Recount(j)
    BY <1>0, <2>2 DEF SetBalances, Recount, At, Kept
  <2>3. CASE ~(UndoDelete(j) \/ SetBalances(j) \/ Recount(j))
    <3>1. job[j].pc \in ImportStages
      BY <2>3 DEF Middle, At, ImportStages, LoadAccounts, ReadOpenings, ApplyOpenings, Create,
         ReloadAccounts, Compare, Clear, Insert, SumUp
    <3> QED BY <1>0, <3>1 DEF Kept
  <2> QED BY <2>1, <2>2, <2>3
<1>6. Kept(j)'
  BY <1>0, <1>1, <1>2, <1>5 DEF Kept, At, Busy, ImportStages
<1>7. ASSUME NEW t \in logged, rows'[t] # NoRows
      PROVE  logs[t] > 0
  <2>1. CASE rows' = rows
    BY <1>0, <1>7, <2>1 DEF UndoableWhileThere
  <2>2. CASE Insert(j) /\ \E new : rows' = [rows EXCEPT ![job[j].tag] = new]
    <3>1. t # job[j].tag
      BY <1>0, <1>1, <1>4, <2>2 DEF Kept
    <3>2. rows'[t] = rows[t]
      BY <1>0, <2>2, <3>1 DEF TypeOK
    <3> QED BY <1>0, <1>7, <3>2 DEF UndoableWhileThere
  <2>3. CASE rows' = [rows EXCEPT ![job[j].tag] = NoRows]
    <3>1. t # job[j].tag /\ rows'[t] = rows[t]
      BY <1>0, <1>7, <2>3 DEF TypeOK
    <3> QED BY <1>0, <1>7, <3>1 DEF UndoableWhileThere
  <2> QED BY <1>3, <2>1, <2>2, <2>3
<1> QED BY <1>1, <1>6, <1>7 DEF UndoableWhileThere

LEMMA LogStep == LogInv /\ [Next /\ OwnIds']_vars => LogInv'
<1> SUFFICES ASSUME LogInv, [Next /\ OwnIds']_vars
             PROVE  LogInv'
  OBVIOUS
<1>0. /\ TypeOK /\ OwnIds /\ UndoableWhileThere /\ logged \subseteq 1..issued
      /\ issued \in Nat /\ DOMAIN job = Job /\ 0 \notin logged
  BY ImportsAssumption DEF LogInv, TypeOK, Tag0
<1>1. TypeOK'
  BY <1>0, TypeStep
<1>2. CASE UNCHANGED vars
  BY <1>0, <1>1, <1>2 DEF LogInv, vars, accounts, OwnIds, UndoableWhileThere, Kept, At, Busy
<1>3. CASE Edit /\ OwnIds'
  <2>1. UNCHANGED <<logs, issued, job, logged>>
    BY <1>3 DEF Edit, AddAccount, RenameAccount, TypeIn
  <2>2. \A t \in 1..issued : rows'[t] = rows[t]
    <3>1. rows' = rows \/ \E new : rows' = [rows EXCEPT ![0] = new]
      BY <1>3 DEF Edit, AddAccount, RenameAccount, TypeIn
    <3>2. \A t \in 1..issued : t # 0 /\ t \in Tag0
      BY <1>0, ImportsAssumption DEF TypeOK, Tag0
    <3> QED BY <1>0, <3>1, <3>2 DEF TypeOK
  <2>3. UndoableWhileThere'
    BY <1>0, <2>1, <2>2 DEF UndoableWhileThere
  <2>4. \A j \in Job : Kept(j)'
    <3> SUFFICES ASSUME NEW j \in Job
                 PROVE  Kept(j)'
      OBVIOUS
    <3>1. Kept(j)
      BY DEF LogInv
    <3> QED BY <2>1, <2>2, <3>1 DEF Kept, At, Busy
  <2> QED BY <1>0, <1>1, <1>3, <2>1, <2>3, <2>4 DEF LogInv
<1>4. ASSUME NEW j \in Job, Step(j), OwnIds'
      PROVE  LogInv'
  <2>0. Kept(j) /\ job[j] \in JobType
    BY <1>0 DEF LogInv, TypeOK
  <2>a. ASSUME NEW tag \in 1..issued', job'[j].pc = "load", job'[j].tag = tag,
               job'[j].src \notin Undos, logged' = logged \ {tag}, UNCHANGED <<rows, logs>>,
               issued' \in {issued, issued + 1}
        PROVE  LogInv'
    <3>1. Kept(j)'
      BY <2>a DEF Kept, At, Busy, ImportStages
    <3>2. \A k \in Job : Kept(k)'
      BY <1>4, <2>a, <3>1, OthersKept
    <3>3. UndoableWhileThere' /\ logged' \subseteq 1..issued'
      BY <1>0, <2>a DEF UndoableWhileThere
    <3> QED BY <1>1, <1>4, <3>2, <3>3 DEF LogInv
  <2>1. ASSUME NEW src \in Sources, NEW sheet \in Sheets, NEW offers \in BOOLEAN,
               Begin(j, src, sheet, offers)
        PROVE  LogInv'
    <3>1. /\ issued' = issued + 1 /\ job'[j].pc = "load" /\ job'[j].tag = issued'
          /\ job'[j].src = src /\ UNCHANGED <<rows, logs, logged>>
      BY <1>0, <2>1 DEF Begin, Put, Idle
    <3>2. logged' = logged \ {issued'} /\ issued' \in 1..issued' /\ src \notin Undos
      BY <1>0, <3>1 DEF Sources, Undos
    <3> QED BY <2>a, <3>1, <3>2
  <2>2. ASSUME NEW tag \in Tag, NEW sheet \in Sheets, Replace(j, tag, sheet)
        PROVE  LogInv'
    <3>1. /\ job'[j].pc = "load" /\ job'[j].tag = tag /\ job'[j].src = "api"
          /\ UNCHANGED <<rows, logs, issued>> /\ logged' = logged \ {tag} /\ tag \in 1..issued
      BY <1>0, <2>2 DEF Replace, Put, Idle
    <3> QED BY <2>a, <3>1 DEF Undos
  <2>3. CASE Retry(j)
    <3>1. /\ job'[j].pc = "load" /\ job'[j].tag = job[j].tag /\ job'[j].src = "page"
          /\ UNCHANGED <<rows, logs, issued>> /\ logged' = logged \ {job[j].tag}
          /\ job[j].tag \in 1..issued
      BY <1>0, <2>0, <2>3 DEF Retry, Put, Idle, Kept, At
    <3> QED BY <2>a, <3>1 DEF Undos
  <2>4. ASSUME NEW tag \in Tag, NEW mcp \in BOOLEAN, UndoBegin(j, tag, mcp)
        PROVE  LogInv'
    <3>1. /\ job'[j].pc = "undo" /\ job'[j].tag = tag /\ job'[j].src \in Undos
          /\ UNCHANGED <<rows, logs, issued, logged>> /\ tag \in 1..issued
      BY <1>0, <2>4 DEF UndoBegin, Put, Idle, Undos
    <3>2. Kept(j)'
      BY <3>1 DEF Kept, At, Busy, ImportStages
    <3>3. \A k \in Job : Kept(k)'
      BY <1>4, <3>1, <3>2, OthersKept
    <3> QED BY <1>0, <1>1, <1>4, <3>1, <3>3 DEF LogInv, UndoableWhileThere
  <2>5. CASE Middle(j)
    <3>1. Kept(j)' /\ UndoableWhileThere'
      BY <1>4, <2>5, MiddleLog
    <3>2. Busy(j) /\ UNCHANGED <<issued, logged, logs>>
      BY <1>0, <2>5, MiddleKeeps
    <3>a. rows' = rows \/ \E new : rows' = [rows EXCEPT ![job[j].tag] = new]
      BY <1>0, <1>4, RowsAfter
    <3>3. \A k \in Job : Kept(k)'
      <4>1. issued' = issued /\ logged' \subseteq logged
        BY <3>2
      <4> QED BY <1>4, <3>1, <3>2, <3>a, <4>1, OthersKept
    <3> QED BY <1>0, <1>1, <1>4, <3>1, <3>2, <3>3 DEF LogInv
  <2>6. CASE Finish(j)
    <3>1. /\ Busy(j) /\ job'[j].pc = "idle" /\ UNCHANGED <<rows, issued>>
          /\ \/ /\ logs' = [logs EXCEPT ![job[j].tag] = @ + 1]
                /\ logged' = logged \cup {job[j].tag}
             \/ UNCHANGED <<logs, logged>>
      BY <1>0, <2>6 DEF Finish, Put, Idle, At, Busy
    <3>2. Kept(j)'
      BY <3>1 DEF Kept, At, Busy, ImportStages
    <3>3. \A k \in Job : Kept(k)'
      BY <1>4, <3>1, <3>2, OthersKept
    <3>4. job[j].tag \in 1..issued /\ 1..issued \subseteq Tag
      BY <1>0, <2>0, <3>1, ImportsAssumption DEF Kept, At, Busy, TypeOK, Tag, Tag0
    <3>5. UndoableWhileThere'
      <4>1. CASE UNCHANGED <<logs, logged>>
        BY <1>0, <3>1, <4>1 DEF UndoableWhileThere
      <4>2. CASE /\ logs' = [logs EXCEPT ![job[j].tag] = @ + 1]
                 /\ logged' = logged \cup {job[j].tag}
        <5>1. logs \in [Tag -> Nat] /\ logged \subseteq Tag /\ job[j].tag \in Tag
          BY <1>0, <3>4 DEF TypeOK
        <5>2. \A t \in Tag : logs'[t] = IF t = job[j].tag THEN logs[t] + 1 ELSE logs[t]
          BY <4>2, <5>1
        <5> QED BY <1>0, <3>1, <4>2, <5>1, <5>2 DEF UndoableWhileThere
      <4> QED BY <3>1, <4>1, <4>2
    <3> QED BY <1>0, <1>1, <1>4, <3>1, <3>3, <3>4, <3>5 DEF LogInv
  <2>7. CASE Unlog(j)
    <3>1. /\ Busy(j) /\ job'[j].pc = "idle" /\ UNCHANGED <<rows, issued, logged>>
          /\ \E new : logs' = [logs EXCEPT ![job[j].tag] = new]
      BY <1>0, <2>7 DEF Unlog, Put, Idle, At, Busy
    <3>2. rows[job[j].tag] = NoRows
      BY <2>0, <2>7 DEF Unlog, Kept, At
    <3>3. Kept(j)'
      BY <3>1 DEF Kept, At, Busy, ImportStages
    <3>4. \A k \in Job : Kept(k)'
      BY <1>4, <3>1, <3>3, OthersKept
    <3>5. UndoableWhileThere'
      <4> SUFFICES ASSUME NEW t \in logged, rows[t] # NoRows
                   PROVE  logs'[t] > 0
        BY <3>1 DEF UndoableWhileThere
      <4>1. t # job[j].tag /\ logs[t] > 0
        BY <1>0, <3>2 DEF UndoableWhileThere
      <4>2. logs'[t] = logs[t]
        <5>1. t \in Tag
          BY <1>0, ImportsAssumption DEF TypeOK, Tag, Tag0
        <5> QED BY <1>0, <3>1, <4>1, <5>1 DEF TypeOK
      <4> QED BY <4>1, <4>2
    <3> QED BY <1>0, <1>1, <1>4, <3>1, <3>4, <3>5 DEF LogInv
  <2>8. CASE Crash(j)
    <3>1. /\ Busy(j) /\ UNCHANGED <<rows, issued, logged, logs>>
          /\ \/ job'[j].pc = "failed" /\ job'[j].tag = job[j].tag /\ job'[j].src = "page"
             \/ job'[j].pc = "idle"
      BY <1>0, <2>8 DEF Crash, Put, Idle, Busy
    <3>2. Kept(j)'
      BY <2>0, <3>1 DEF Kept, At, Busy, ImportStages
    <3>3. \A k \in Job : Kept(k)'
      BY <1>4, <3>1, <3>2, OthersKept
    <3> QED BY <1>0, <1>1, <1>4, <3>1, <3>3 DEF LogInv, UndoableWhileThere
  <2> QED BY <1>4, <2>1, <2>2, <2>3, <2>4, <2>5, <2>6, <2>7, <2>8
          DEF Step, Ask, Import, Undo, Middle
<1> QED BY <1>2, <1>3, <1>4 DEF Next

\* What the import log has had, and the ledger still holds rows of, is in the log to be
\* undone, as long as nobody undoes or uploads again an import that is at work.
THEOREM Undoable == OwnSpec => []UndoableWhileThere
<1>1. Init => LogInv
  <2>1. Init => TypeOK
    BY InitTypes
  <2>2. Init => (\A j \in Job : job[j].pc = "idle") /\ logged = {}
    BY DEF Init, Idle
  <2> QED BY <2>1, <2>2 DEF LogInv, OwnIds, UndoableWhileThere, Kept, At, Busy, ImportStages
<1>2. LogInv => UndoableWhileThere
  BY DEF LogInv
<1> QED BY <1>1, <1>2, LogStep, PTL DEF OwnSpec
=============================================================================
