------------------------------- MODULE Ledger --------------------------------
(* Transactions and the stored balances of accounts: creating, editing and     *)
(* deleting one transaction or many, bills and recurring rules that post one,  *)
(* correcting and recomputing balances.  A request reads, decides and writes   *)
(* one batch, and requests interleave between the two.  Amounts are whole and  *)
(* in the base currency (amount_local, or amount without one).                 *)
EXTENDS Integers, FiniteSets, FiniteSetsExt

CONSTANTS Req,            \* requests in flight at once
          Acct,           \* account ids
          Profile,        \* profiles of the user
          Owner,          \* Owner[a]: the profile of an account
          None,           \* NULL
          Entries,        \* the transactions requests create, or edit one to
          RuleEntry,      \* what the recurring rule posts
          BillEntry,      \* what paying the bill posts
          Amounts,        \* balances accounts are opened with or corrected to
          MaxRows,        \* bound on transactions
          MaxPeriod       \* bound on the periods of the bill and the rule

VARIABLES
  rows,         \* transactions, by id: Missing is no row
  last,         \* last id given out
  status,       \* accounts: "new", "open" or "closed" (deleted)
  start,        \* accounts.starting_balance
  balance,      \* accounts.balance
  reqs,         \* the requests in flight
  today,        \* the period it is
  next,         \* recurring_transactions.next_date: the period to post
  paid,         \* bills.last_paid_date: the last period paid, 0 for NULL
  moved,        \* history: how much each transaction has moved each balance by
  filed,        \* history: transactions posted for a period
  tour          \* which requests a behaviour lets meet

History == <<moved, filed>>
Accounts == <<status, start>>
Due == <<today, next, paid>>
vars == <<rows, last, Accounts, balance, reqs, Due, History>>

Id == 1..MaxRows
Period == 1..MaxPeriod
Types == {"income", "expense", "transfer", "deduction"}
Missing == [type |-> "none", value |-> 0, from |-> None, to |-> None, profile |-> None]
NoRows == [i \in Id |-> Missing]
Parts == {"start", "out", "in", "into"}

\* A row the shared checks accept, its accounts of its own profile.
Entry == [type : Types, value : Nat, from : Acct \cup {None}, to : Acct \cup {None},
          profile : Profile]
WellFormed(e) ==
  /\ e.from # None => Owner[e.from] = e.profile
  /\ e.to # None => Owner[e.to] = e.profile
  /\ e.type = "transfer" => e.from # None /\ e.to # None /\ e.from # e.to

ASSUME LedgerAssumption ==
  /\ None \notin Acct \cup Profile
  /\ Owner \in [Acct -> Profile] /\ Amounts \subseteq Int
  /\ MaxRows \in Nat /\ MaxPeriod \in Nat
  /\ Entries \cup {RuleEntry, BillEntry} \subseteq Entry
  /\ \A e \in Entries \cup {RuleEntry, BillEntry} : WellFormed(e)

\* What a row takes from an account, pays into the one it names, and pays into
\* its destination: an income without an account of its own pays there.
Out(row, a) == IF row.from = a /\ row.type \in {"expense", "transfer"} THEN row.value ELSE 0
In(row, a) == IF row.from = a /\ row.type = "income" THEN row.value ELSE 0
Arrives(row) == row.type = "transfer" \/ (row.type = "income" /\ row.from = None)
Into(row, a) == IF row.to = a /\ Arrives(row) THEN row.value ELSE 0

\* What creating a row, and every recompute, counts for an account.
Effect(row, a) == In(row, a) + Into(row, a) - Out(row, a)
\* What edits and deletions count: of rows without an account only transfers.
EditEffect(row, a) ==
  IF row.from = None /\ row.type # "transfer" THEN 0 ELSE Effect(row, a)

Sum(f, S) == MapThenSumSet(LAMBDA i : f[i], S)
Ledger(a) == Sum([i \in Id |-> Effect(rows[i], a)], Id)

Open == {a \in Acct : status[a] = "open"}
Named(e) == {e.from, e.to} \ {None}

Idle == [pc |-> "idle", entry |-> Missing, ids |-> {}, was |-> NoRows, accts |-> {},
         left |-> {}, sum |-> [a \in Acct |-> 0], held |-> 0, period |-> 0]
At(r, pc) == reqs[r].pc = pc
Put(r, rec) == reqs' = [reqs EXCEPT ![r] = rec]
End(r) == Put(r, Idle)

\* UPDATE accounts SET balance = balance + ?, which finds open accounts only:
\* every row of was goes back, every row of will is applied.
Moves(was, will) ==
  [a \in Acct |-> [i \in Id |-> IF a \in Open THEN Effect(will[i], a) - Effect(was[i], a) ELSE 0]]
EditMoves(was, will) ==
  [a \in Acct |-> [i \in Id |-> IF a \in Open THEN EditEffect(will[i], a) - EditEffect(was[i], a)
                                            ELSE 0]]
Shift(moves) ==
  /\ balance' = [a \in Acct |-> balance[a] + Sum(moves[a], Id)]
  /\ moved' = [a \in Acct |-> [i \in Id |-> moved[a][i] + moves[a][i]]]

\* INSERT INTO transactions with the balances it moves.
Insert(e) ==
  /\ last < MaxRows
  /\ last' = last + 1
  /\ rows' = [rows EXCEPT ![last'] = e]
  /\ Shift(Moves(NoRows, [NoRows EXCEPT ![last'] = e]))

Init ==
  /\ rows = NoRows /\ last = 0
  /\ status = [a \in Acct |-> "new"]
  /\ start = [a \in Acct |-> 0] /\ balance = [a \in Acct |-> 0]
  /\ reqs = [r \in Req |-> Idle]
  /\ today = 1 /\ next = 1 /\ paid = 0
  /\ moved = [a \in Acct |-> [i \in Id |-> 0]]
  /\ filed = [k \in {"rule", "bill"} |-> [p \in Period |-> 0]]
-----------------------------------------------------------------------------
(* One transaction                                                             *)

\* POST /api/transactions: the checks, the accounts it names among them.
CreateCheck(r) ==
  /\ At(r, "idle")
  /\ \E e \in Entries :
       /\ Named(e) \subseteq Open
       /\ Put(r, [Idle EXCEPT !.pc = "create", !.entry = e])
  /\ UNCHANGED <<rows, last, Accounts, balance, Due, History>>

Create(r) ==
  /\ At(r, "create")
  /\ Insert(reqs[r].entry)
  /\ End(r)
  /\ UNCHANGED <<Accounts, Due, filed>>

\* PUT and DELETE /api/transactions/:id: the row is read, and the edit checked.
Read(ids) == [i \in Id |-> IF i \in ids THEN rows[i] ELSE Missing]
EditRead(r) ==
  /\ At(r, "idle")
  /\ \E i \in Id, e \in Entries :
       /\ rows[i] # Missing /\ e # rows[i]
       /\ e.profile = rows[i].profile
       /\ e.from # rows[i].from => e.from \in Open \cup {None}
       /\ e.to # rows[i].to => e.to \in Open \cup {None}
       /\ Put(r, [Idle EXCEPT !.pc = "edit", !.entry = e, !.ids = {i}, !.was = Read({i})])
  /\ UNCHANGED <<rows, last, Accounts, balance, Due, History>>

DeleteRead(r) ==
  /\ At(r, "idle")
  /\ \E i \in Id :
       /\ rows[i] # Missing
       /\ Put(r, [Idle EXCEPT !.pc = "delete", !.ids = {i}, !.was = Read({i})])
  /\ UNCHANGED <<rows, last, Accounts, balance, Due, History>>

\* Mutant: the guard asks for the row, not for what the reversal was computed from.
StillThere(r) == \A i \in reqs[r].ids : rows[i] # Missing

\* unchangedSince, which every statement of the two batches below carries.
UnchangedSince(r) == \A i \in reqs[r].ids : rows[i] = reqs[r].was[i]
Replaced(ids, row) == [i \in Id |-> IF i \in ids THEN row ELSE rows[i]]

Edit(r) ==
  /\ At(r, "edit")
  /\ LET q == reqs[r]
     IN  IF UnchangedSince(r)
         THEN /\ Shift(EditMoves(q.was, [i \in Id |-> IF i \in q.ids THEN q.entry ELSE Missing]))
              /\ rows' = Replaced(q.ids, q.entry)
         ELSE UNCHANGED <<rows, balance, moved>>
  /\ End(r)
  /\ UNCHANGED <<last, Accounts, Due, filed>>

\* Mutant: only the DELETE is bound to the row as it was read, the reversal is not.
DeleteUnbound(r) ==
  /\ At(r, "delete")
  /\ Shift(EditMoves(reqs[r].was, NoRows))
  /\ rows' = IF UnchangedSince(r) THEN Replaced(reqs[r].ids, Missing) ELSE rows
  /\ End(r)
  /\ UNCHANGED <<last, Accounts, Due, filed>>

Delete(r) ==
  /\ At(r, "delete")
  /\ IF UnchangedSince(r)
     THEN /\ Shift(EditMoves(reqs[r].was, NoRows))
          /\ rows' = Replaced(reqs[r].ids, Missing)
     ELSE UNCHANGED <<rows, balance, moved>>
  /\ End(r)
  /\ UNCHANGED <<last, Accounts, Due, filed>>
-----------------------------------------------------------------------------
(* Bills and recurring rules                                                   *)

File(kind, p) == filed' = [filed EXCEPT ![kind][p] = @ + 1]

\* A bill and a rule name accounts that were there when they were saved.
Was(e) == \A a \in Named(e) : status[a] # "new"

\* POST /api/recurring/:id/populate, and the batch bound to the date it read.
PopulateRead(r) ==
  /\ At(r, "idle")
  /\ next <= today /\ Was(RuleEntry)
  /\ Put(r, [Idle EXCEPT !.pc = "populate", !.period = next])
  /\ UNCHANGED <<rows, last, Accounts, balance, Due, History>>

\* Mutant: the batch of a recurring rule is not bound to the date it was computed from.
PopulateUnbound(r) ==
  /\ At(r, "populate")
  /\ Insert(RuleEntry) /\ File("rule", reqs[r].period) /\ next' = reqs[r].period + 1
  /\ End(r)
  /\ UNCHANGED <<Accounts, today, paid>>

Populate(r) ==
  /\ At(r, "populate")
  /\ IF next = reqs[r].period
     THEN Insert(RuleEntry) /\ File("rule", next) /\ next' = next + 1
     ELSE UNCHANGED <<rows, last, balance, next, History>>
  /\ End(r)
  /\ UNCHANGED <<Accounts, today, paid>>

\* POST /api/bills/:id/mark-paid, and the batch for a bill not paid this period.
PayRead(r) ==
  /\ At(r, "idle")
  /\ paid < today /\ Was(BillEntry)
  /\ Put(r, [Idle EXCEPT !.pc = "pay", !.period = today])
  /\ UNCHANGED <<rows, last, Accounts, balance, Due, History>>

NotPaidSince(r) == paid < reqs[r].period
Pay(r) ==
  /\ At(r, "pay")
  /\ IF NotPaidSince(r)
     THEN Insert(BillEntry) /\ File("bill", reqs[r].period) /\ paid' = reqs[r].period
     ELSE UNCHANGED <<rows, last, balance, paid, History>>
  /\ End(r)
  /\ UNCHANGED <<Accounts, today, next>>
-----------------------------------------------------------------------------
(* Many transactions                                                           *)

\* PUT /api/transactions/bulk: one chunk of ids, its rows read first.
BulkRead(r) ==
  /\ At(r, "idle")
  /\ \E p \in Profile : \E ids \in SUBSET {i \in Id : rows[i].profile = p} :
       /\ ids # {}
       /\ \/ Put(r, [Idle EXCEPT !.pc = "bulkDelete", !.ids = ids, !.was = Read(ids)])
          \/ \E t \in Types \ {"transfer"} :
               Put(r, [Idle EXCEPT !.pc = "bulkType", !.ids = ids, !.was = Read(ids),
                                   !.entry = [Missing EXCEPT !.type = t]])
  /\ UNCHANGED <<rows, last, Accounts, balance, Due, History>>

BulkDelete(r) ==
  /\ At(r, "bulkDelete")
  /\ Shift(EditMoves(reqs[r].was, NoRows))
  /\ rows' = Replaced(reqs[r].ids, Missing)
  /\ End(r)
  /\ UNCHANGED <<last, Accounts, Due, filed>>

\* The rows lose their destination, which the correction still counts.
Typed(q, i) == [q.was[i] EXCEPT !.type = q.entry.type]
BulkType(r) ==
  /\ At(r, "bulkType")
  /\ LET q == reqs[r]
     IN  /\ Shift(Moves(q.was, [i \in Id |-> IF i \in q.ids THEN Typed(q, i) ELSE Missing]))
         /\ rows' = [i \in Id |-> IF i \in q.ids /\ rows[i] # Missing
                                  THEN [rows[i] EXCEPT !.type = q.entry.type, !.to = None]
                                  ELSE rows[i]]
  /\ End(r)
  /\ UNCHANGED <<last, Accounts, Due, filed>>

\* DELETE /api/transactions: the rows of the profile written to, the balances of
\* all the profiles selected.
ClearAll(r, p, selected) ==
  /\ At(r, "idle")
  /\ rows' = [i \in Id |-> IF rows[i].profile = p THEN Missing ELSE rows[i]]
  /\ LET reset(a) == a \in Open /\ Owner[a] \in selected
     IN  /\ balance' = [a \in Acct |-> IF reset(a) THEN start[a] ELSE balance[a]]
         /\ moved' = [a \in Acct |-> [i \in Id |-> IF reset(a) THEN 0 ELSE moved[a][i]]]
  /\ UNCHANGED <<last, Accounts, reqs, Due, filed>>
-----------------------------------------------------------------------------
(* Accounts                                                                    *)

\* POST /api/accounts: it opens at its starting balance.
OpenAccount(r, a) ==
  /\ At(r, "idle")
  /\ status[a] = "new"
  /\ status' = [status EXCEPT ![a] = "open"]
  /\ \E b \in Amounts : start' = [start EXCEPT ![a] = b] /\ balance' = [balance EXCEPT ![a] = b]
  /\ UNCHANGED <<rows, last, reqs, Due, History>>

\* DELETE /api/accounts/:id: refused while a transaction names the account.
CloseCheck(r, a) ==
  /\ At(r, "idle")
  /\ a \in Open /\ \A i \in Id : a \notin Named(rows[i])
  /\ Put(r, [Idle EXCEPT !.pc = "close", !.accts = {a}])
  /\ UNCHANGED <<rows, last, Accounts, balance, Due, History>>

Close(r) ==
  /\ At(r, "close")
  /\ status' = [a \in Acct |-> IF a \in reqs[r].accts THEN "closed" ELSE status[a]]
  /\ End(r)
  /\ UNCHANGED <<rows, last, start, balance, Due, History>>

\* The Accounts form: it opens with the balance and the ledger behind it, and a
\* corrected balance is sent with the starting balance it takes.
OpenForm(r, a) ==
  /\ At(r, "idle")
  /\ a \in Open
  /\ Put(r, [Idle EXCEPT !.pc = "form", !.accts = {a}, !.held = balance[a],
                         !.sum = [Idle.sum EXCEPT ![a] = balance[a] - start[a]]])
  /\ UNCHANGED <<rows, last, Accounts, balance, Due, History>>

SaveForm(r) ==
  /\ At(r, "form")
  /\ \E desired \in Amounts \ {reqs[r].held} :
       LET saved(a) == a \in reqs[r].accts /\ a \in Open
       IN  /\ balance' = [a \in Acct |-> IF saved(a) THEN desired ELSE balance[a]]
           /\ start' = [a \in Acct |-> IF saved(a) THEN desired - reqs[r].sum[a] ELSE start[a]]
  /\ End(r)
  /\ UNCHANGED <<rows, last, status, Due, History>>

\* POST /api/accounts/recompute-balances: four reads, in any order, then a batch
\* that writes the balances they add up to.
RecomputeBegin(r) ==
  /\ At(r, "idle")
  /\ \E p \in Profile :
       LET accts == {a \in Open : Owner[a] = p}
       IN  accts # {} /\ Put(r, [Idle EXCEPT !.pc = "recompute", !.accts = accts, !.left = Parts])
  /\ UNCHANGED <<rows, last, Accounts, balance, Due, History>>

\* Mutant: the recompute credits the destination of every income.
PartOfAll(part, a) ==
  CASE part = "start" -> start[a]
    [] part = "out"   -> -Sum([i \in Id |-> Out(rows[i], a)], Id)
    [] part = "in"    -> Sum([i \in Id |-> In(rows[i], a)], Id)
    [] part = "into"  -> Sum([i \in Id |-> IF rows[i].to = a THEN rows[i].value ELSE 0], Id)

Part(part, a) ==
  CASE part = "start" -> start[a]
    [] part = "out"   -> -Sum([i \in Id |-> Out(rows[i], a)], Id)
    [] part = "in"    -> Sum([i \in Id |-> In(rows[i], a)], Id)
    [] part = "into"  -> Sum([i \in Id |-> Into(rows[i], a)], Id)

RecomputeRead(r) ==
  /\ At(r, "recompute")
  /\ \E part \in reqs[r].left :
       Put(r, [reqs[r] EXCEPT !.left = @ \ {part},
                              !.sum = [a \in Acct |-> @[a] + Part(part, a)]])
  /\ UNCHANGED <<rows, last, Accounts, balance, Due, History>>

Recompute(r) ==
  /\ At(r, "recompute") /\ reqs[r].left = {}
  /\ balance' = [a \in Acct |-> IF a \in reqs[r].accts /\ a \in Open
                                THEN reqs[r].sum[a] ELSE balance[a]]
  /\ End(r)
  /\ UNCHANGED <<rows, last, Accounts, Due, History>>
-----------------------------------------------------------------------------
Tick ==
  /\ today < MaxPeriod
  /\ today' = today + 1
  /\ UNCHANGED <<rows, last, Accounts, balance, reqs, next, paid, History>>

RowStep(r) == \/ CreateCheck(r) \/ Create(r) \/ EditRead(r) \/ Edit(r)
              \/ DeleteRead(r) \/ Delete(r)
DueStep(r) == PopulateRead(r) \/ Populate(r) \/ PayRead(r) \/ Pay(r)
BulkStep(r) == BulkRead(r) \/ BulkDelete(r) \/ BulkType(r)
AccountStep(r) == (\E a \in Acct : OpenAccount(r, a) \/ CloseCheck(r, a)) \/ Close(r)
FormStep(r) == (\E a \in Acct : OpenForm(r, a)) \/ SaveForm(r)
RecomputeStep(r) == RecomputeBegin(r) \/ RecomputeRead(r) \/ Recompute(r)
ClearOne(r) == \E p \in Profile : ClearAll(r, p, {p})
ClearSelected(r) == \E p \in Profile, s \in SUBSET Profile : p \in s /\ ClearAll(r, p, s)

\* What is bound to the rows it read, or is one batch.
Guarded(r) == RowStep(r) \/ DueStep(r) \/ AccountStep(r) \/ ClearOne(r)
Next == \/ \E r \in Req : \/ Guarded(r) \/ BulkStep(r) \/ FormStep(r)
                          \/ RecomputeStep(r) \/ ClearSelected(r)
        \/ Tick
Spec == Init /\ [][Next]_vars

GuardedNext == (\E r \in Req : Guarded(r)) \/ Tick
GuardedSpec == Init /\ [][GuardedNext]_vars

\* Requests that are bound to what they read, at any time; every kind of request, one
\* after another, with one profile selected; forms saved after rows were added, which lets
\* balances drift, and a recompute that runs alone.
Alone(r) == \A q \in Req \ {r} : At(q, "idle")
Together == tour = "together" /\ GuardedNext
OneByOne ==
  /\ tour = "one by one"
  /\ \E r \in Req : Alone(r) /\ (Guarded(r) \/ BulkStep(r) \/ FormStep(r) \/ RecomputeStep(r))
Drifting ==
  /\ tour = "drift"
  /\ \E r \in Req :
       \/ /\ \A q \in Req : ~At(q, "recompute")
          /\ FormStep(r) \/ CreateCheck(r) \/ Create(r) \/ \E a \in Acct : OpenAccount(r, a)
       \/ Alone(r) /\ RecomputeStep(r)

\* Edits, deletions and bulk requests leave out what an income without an account of its
\* own paid its destination: outside "drift" requests write no such income.
Counted(e) == e.type = "income" /\ e.from = None => e.to = None
Accounted ==
  \A r \in Req :
    /\ Counted(reqs[r].entry)
    /\ At(r, "bulkType") => \A i \in reqs[r].ids : Counted(Typed(reqs[r], i))

TourInit == Init /\ tour \in {"together", "one by one", "drift"}
TourNext ==
  /\ Together \/ OneByOne \/ Drifting
  /\ UNCHANGED tour
  /\ tour # "drift" => Accounted'
TourSpec == TourInit /\ [][TourNext]_<<vars, tour>>
-----------------------------------------------------------------------------
(* Properties                                                                  *)

Pcs == {"idle", "create", "edit", "delete", "populate", "pay", "bulkDelete", "bulkType",
        "close", "form", "recompute"}
Row == [type : Types \cup {"none"}, value : Nat, from : Acct \cup {None},
        to : Acct \cup {None}, profile : Profile \cup {None}]
ReqType ==
  [pc : Pcs, entry : Row, ids : SUBSET Id, was : [Id -> Row], accts : SUBSET Acct,
   left : SUBSET Parts, sum : [Acct -> Int], held : Int, period : Nat]

\* Every row, balance and request holds values of its kind.
TypeOK ==
  /\ rows \in [Id -> Row] /\ last \in Nat
  /\ status \in [Acct -> {"new", "open", "closed"}]
  /\ start \in [Acct -> Int] /\ balance \in [Acct -> Int]
  /\ reqs \in [Req -> ReqType]
  /\ today \in Nat /\ next \in Nat /\ paid \in Nat
  /\ moved \in [Acct -> [Id -> Int]]
  /\ filed \in [{"rule", "bill"} -> [Period -> Nat]]

\* "`balance` is starting_balance + the ledger" (routes/accounts.ts): the stored
\* balance of an account is where it started plus what its transactions move.
BalanceAgrees == \A a \in Open : balance[a] = start[a] + Ledger(a)

\* Without a form that is saved on what it read earlier, stored balances never drift.
BalanceAgreesUndrifted == tour # "drift" => BalanceAgrees

\* A transaction has moved each balance by its own effect, once, and a deleted
\* one by nothing: whatever requests created, edited and deleted it.
MovedOnce == \A a \in Open, i \in Id : moved[a][i] = Effect(rows[i], a)

\* "Never populates the same period twice", and "takes the money once" (tests of
\* concurrent writes): a period of a rule or a bill posts one transaction.
FiledOnce == \A k \in {"rule", "bill"}, p \in Period : filed[k][p] <= 1

\* Recomputing repairs: whatever the balances were, afterwards they agree with
\* the ledger, when nothing else is in flight (POST /recompute-balances).
RecomputeRepairs ==
  [][\A r \in Req : Recompute(r) =>
       \A a \in reqs[r].accts : balance'[a] = start[a] + Ledger(a)]_vars

\* A transaction that names an account finds it: deleting the account "would
\* strand those rows" (routes/accounts.ts).
NoStrandedRow == \A i \in Id : \A a \in Named(rows[i]) : status[a] = "open"
=============================================================================
