------------------------------- MODULE Imports -------------------------------
(* Statement imports into the cloud ledger: the Import page, the daily sheet   *)
(* sync, statements by e-mail and the public API, all through executeImport,   *)
(* and the undo of an import.  An import is one call to the database after     *)
(* another, and stops between any two of them.  A line of a statement is an    *)
(* expense of one unit; lines equal in every field the duplicate check         *)
(* compares are one line, repeated.                                            *)
EXTENDS Integers, FiniteSets

CONSTANTS Job,        \* imports and undos in flight at once
          Line,       \* lines of statements
          Name,       \* what accounts are called
          NameOf,     \* NameOf[l]: the Means of Payment of a line
          NoName,     \* no account: neither its name nor its id
          Sheets,     \* statements: how often each has a line
          Opening,    \* the starting balance a statement gives for its accounts
          MaxTag,     \* bound on import ids
          MaxAcct,    \* bound on accounts
          MaxCrashes  \* bound on imports and undos that stop half-way

VARIABLES
  name,     \* accounts.name, by id: NoName is no row
  start,    \* accounts.starting_balance
  balance,  \* accounts.balance
  rows,     \* transactions: how many, by import_id, line and account_id
  logs,     \* import_logs: how many rows an import_id has
  issued,   \* import ids handed out
  job,      \* what is in flight
  crashes,  \* how often it has stopped
  logged,   \* history: import ids the log has had since they were last begun
  alone     \* whether one import or undo runs at a time, and nothing beside it

accounts == <<name, start>>
vars == <<accounts, balance, rows, logs, issued, job, crashes, logged, alone>>

Acct == 1..MaxAcct
Acct0 == 0..MaxAcct     \* 0 is NULL
Tag == 1..MaxTag
Tag0 == 0..MaxTag       \* 0 is a transaction of no import
Sources == {"page", "sync", "mail", "api"}
Undos == {"log", "mcp"}

ASSUME ImportsAssumption ==
  /\ MaxTag \in Nat /\ MaxAcct \in Nat /\ MaxCrashes \in Nat /\ Opening \in Int
  /\ NoName \notin Name /\ NameOf \in [Line -> Name \cup {NoName}]
  /\ Sheets \subseteq [Line -> Nat] /\ Sheets # {} /\ IsFiniteSet(Line)

Bigger(i, j) == IF i > j THEN i ELSE j

\* The transactions of an import with a line and an account, one by one.
Copies(t, l, a) == {<<t, l, a>>} \X (1..rows[t][l][a])
HowMany(tags, lines, accts) ==
  Cardinality(UNION {Copies(x[1], x[2], x[3]) : x \in tags \X lines \X accts})

\* What they take from an account; how often the ledger has a line under an import,
\* and outside of it.
Booked(a) == HowMany(Tag0, Line, {a})
Own(l, tag) == HowMany({tag}, {l}, Acct0)
Others(l, tag) == HowMany(Tag0 \ {tag}, {l}, Acct0)
Elsewhere(l, a, tag) == HowMany(Tag0 \ {tag}, {l}, {a})
Owed(a) == start[a] - Booked(a)

Accounts == {a \in Acct : name[a] # NoName}
Called(n) == {a \in Acct : name[a] = n}
NoRows == [l \in Line |-> [a \in Acct0 |-> 0]]

Blank == [l \in Line |-> 0]
Idle == [pc |-> "idle", src |-> "page", tag |-> 0, sheet |-> Blank, offers |-> FALSE,
         map |-> [n \in Name |-> 0], apply |-> {}, at |-> Blank, todo |-> Blank,
         accts |-> {}, held |-> [a \in Acct |-> 0], added |-> FALSE]
At(j, pc) == job[j].pc = pc
Put(j, rec) == job' = [job EXCEPT ![j] = rec]
Go(j, pc) == Put(j, [job[j] EXCEPT !.pc = pc])

Init ==
  /\ name = [a \in Acct |-> NoName]
  /\ start = [a \in Acct |-> 0] /\ balance = [a \in Acct |-> 0]
  /\ rows = [t \in Tag0 |-> NoRows]
  /\ logs = [t \in Tag |-> 0] /\ issued = 0
  /\ job = [j \in Job |-> Idle] /\ crashes = 0
  /\ logged = {}
  /\ alone \in BOOLEAN
-----------------------------------------------------------------------------
(* What people do meanwhile                                                    *)

\* POST /api/accounts, and the new name of PUT /api/accounts/:id.
AddAccount(n) ==
  /\ \E a \in Acct \ Accounts :
       /\ \A b \in Acct \ Accounts : a <= b
       /\ name' = [name EXCEPT ![a] = n]
  /\ UNCHANGED <<start, balance, rows, logs, issued, job, crashes, logged>>

RenameAccount(a, n) ==
  /\ a \in Accounts /\ Called(n) = {}
  /\ name' = [name EXCEPT ![a] = n]
  /\ UNCHANGED <<start, balance, rows, logs, issued, job, crashes, logged>>

\* A transaction entered by hand, with the balance it moves.
TypeIn(l, a) ==
  /\ a \in Accounts /\ name[a] = NameOf[l]
  /\ rows' = [rows EXCEPT ![0][l][a] = @ + 1]
  /\ balance' = [balance EXCEPT ![a] = @ - 1]
  /\ UNCHANGED <<accounts, logs, issued, job, crashes, logged>>
-----------------------------------------------------------------------------
(* An import                                                                   *)

\* A fresh import id, from the page, the sync, a message or an upload.  Only the
\* page and an upload name accounts to create, and their starting balances.
Begin(j, src, sheet, offers) ==
  /\ At(j, "idle")
  /\ offers => src \in {"page", "api"}
  /\ issued < MaxTag
  /\ issued' = issued + 1
  /\ Put(j, [Idle EXCEPT !.pc = "load", !.src = src, !.tag = issued', !.sheet = sheet,
                         !.offers = offers])
  /\ UNCHANGED <<accounts, balance, rows, logs, crashes, logged>>

\* An upload that names the id of an import there was (importId), and the page
\* again after a failure, under the id of the failed attempt.
Replace(j, tag, sheet) ==
  /\ At(j, "idle")
  /\ tag \in 1..issued
  /\ Put(j, [Idle EXCEPT !.pc = "load", !.src = "api", !.tag = tag, !.sheet = sheet,
                         !.offers = TRUE])
  /\ logged' = logged \ {tag}
  /\ UNCHANGED <<accounts, balance, rows, logs, issued, crashes>>

Retry(j) ==
  /\ At(j, "failed")
  /\ Put(j, [Idle EXCEPT !.pc = "load", !.src = "page", !.tag = job[j].tag,
                         !.sheet = job[j].sheet, !.offers = job[j].offers])
  /\ logged' = logged \ {job[j].tag}
  /\ UNCHANGED <<accounts, balance, rows, logs, issued, crashes>>

\* loadAccounts: the last of the accounts of one name is the one it stands for,
\* and a name read before keeps its account when no account has it now.
Loads(map, old) ==
  \A n \in Name : IF Called(n) = {} THEN map[n] = old[n]
                  ELSE map[n] \in Called(n) /\ \A b \in Called(n) : b <= map[n]
LoadAccounts(j) ==
  /\ At(j, "load")
  /\ \E map \in [Name -> Acct0] :
       /\ Loads(map, job[j].map)
       /\ Put(j, [job[j] EXCEPT !.pc = IF job[j].offers THEN "openings" ELSE "compare",
                                !.map = map])
  /\ UNCHANGED <<accounts, balance, rows, logs, issued, crashes, logged>>

Named(j) == {NameOf[l] : l \in {m \in Line : job[j].sheet[m] > 0}} \ {NoName}
Missing(j) == {n \in Named(j) : job[j].map[n] = 0}

\* existingAccountStartingBalance, for every account of the statement there is.
Unused(a) == start[a] = 0 /\ Booked(a) = 0
ReadOpenings(j) ==
  /\ At(j, "openings")
  /\ Put(j, [job[j] EXCEPT !.pc = "apply",
                           !.apply = {a \in {job[j].map[n] : n \in Named(j)} \ {0} : Unused(a)}])
  /\ UNCHANGED <<accounts, balance, rows, logs, issued, crashes, logged>>

ApplyOpenings(j) ==
  /\ At(j, "apply")
  /\ start' = [a \in Acct |-> IF a \in job[j].apply THEN Opening ELSE start[a]]
  /\ Go(j, IF Missing(j) = {} THEN "compare" ELSE "create")
  /\ UNCHANGED <<name, balance, rows, logs, issued, crashes, logged>>

\* The accounts of the statement that are missing, in one batch.
Create(j) ==
  /\ At(j, "create")
  /\ \E f \in [Missing(j) -> Acct \ Accounts] :
       LET made(a) == \E n \in Missing(j) : f[n] = a
       IN  /\ \A n, m \in Missing(j) : f[n] = f[m] => n = m
           /\ \A a, b \in Acct \ Accounts : made(b) /\ a < b => made(a)
           /\ name' = [a \in Acct |-> IF made(a) THEN CHOOSE n \in Missing(j) : f[n] = a
                                                 ELSE name[a]]
           /\ start' = [a \in Acct |-> IF made(a) THEN Opening ELSE start[a]]
           /\ balance' = [a \in Acct |-> IF made(a) THEN Opening ELSE balance[a]]
  /\ Go(j, "reload")
  /\ UNCHANGED <<rows, logs, issued, crashes, logged>>

ReloadAccounts(j) ==
  /\ At(j, "reload")
  /\ \E map \in [Name -> Acct0] :
       Loads(map, job[j].map) /\ Put(j, [job[j] EXCEPT !.pc = "compare", !.map = map])
  /\ UNCHANGED <<accounts, balance, rows, logs, issued, crashes, logged>>

\* The accounts the rows resolve to, and the rows that are not there yet: each of
\* the other transactions of the profile stands for one row it equals.
Resolved(j, l) == IF NameOf[l] = NoName THEN 0 ELSE job[j].map[NameOf[l]]

New(j, l, tag) == Bigger(0, job[j].sheet[l] - Elsewhere(l, Resolved(j, l), tag))

\* Mutant: the rows of this import's earlier attempt count as duplicates.
CompareAll(j) ==
  /\ At(j, "compare")
  /\ LET all(l) == Bigger(0, job[j].sheet[l] - HowMany(Tag0, {l}, {Resolved(j, l)}))
     IN  Put(j, [job[j] EXCEPT !.pc = "clear", !.at = [l \in Line |-> Resolved(j, l)],
                               !.todo = [l \in Line |-> all(l)]])
  /\ UNCHANGED <<accounts, balance, rows, logs, issued, crashes, logged>>

Compare(j) ==
  /\ At(j, "compare")
  /\ LET todo == [l \in Line |-> New(j, l, job[j].tag)]
     IN  Put(j, [job[j] EXCEPT !.pc = "clear", !.at = [l \in Line |-> Resolved(j, l)],
                               !.todo = todo, !.added = (todo # Blank)])
  /\ UNCHANGED <<accounts, balance, rows, logs, issued, crashes, logged>>

\* Mutant: clearing goes by the lines of the statement, so it takes what was typed in too.
ClearAlike(j) ==
  /\ At(j, "clear")
  /\ rows' = [rows EXCEPT ![0] = [l \in Line |-> IF job[j].sheet[l] > 0 THEN NoRows[l] ELSE @[l]],
                         ![job[j].tag] = NoRows]
  /\ Go(j, "insert")
  /\ UNCHANGED <<accounts, balance, logs, issued, crashes, logged>>

\* The rows an earlier attempt left under this import id.
Clear(j) ==
  /\ At(j, "clear")
  /\ rows' = [rows EXCEPT ![job[j].tag] = NoRows]
  /\ Go(j, "insert")
  /\ UNCHANGED <<accounts, balance, logs, issued, crashes, logged>>

\* A chunk of the rows: here, those of one line.
Insert(j) ==
  /\ At(j, "insert")
  /\ \E l \in Line :
       /\ job[j].todo[l] > 0
       /\ rows' = [rows EXCEPT ![job[j].tag][l][job[j].at[l]] = @ + job[j].todo[l]]
       /\ Put(j, [job[j] EXCEPT !.todo[l] = 0])
  /\ UNCHANGED <<accounts, balance, logs, issued, crashes, logged>>

\* recomputeBalancesForAccounts over the accounts loaded: the reads (of which the
\* rows here need the starting balances and what goes out), then the batch.
SumUp(j) ==
  /\ At(j, "insert") /\ job[j].todo = Blank
  /\ Put(j, [job[j] EXCEPT !.pc = "balance", !.accts = {job[j].map[n] : n \in Name} \ {0},
                           !.held = [a \in Acct |-> Owed(a)]])
  /\ UNCHANGED <<accounts, balance, rows, logs, issued, crashes, logged>>

\* Mutant: a run that added nothing leaves the balances alone.
SetIfAdded(j) ==
  /\ At(j, "balance")
  /\ balance' = [a \in Acct |-> IF a \in job[j].accts /\ job[j].added
                                THEN job[j].held[a] ELSE balance[a]]
  /\ Go(j, IF job[j].src \in Undos THEN "unlog" ELSE "log")
  /\ UNCHANGED <<accounts, rows, logs, issued, crashes, logged>>

SetBalances(j) ==
  /\ At(j, "balance")
  /\ balance' = [a \in Acct |-> IF a \in job[j].accts THEN job[j].held[a] ELSE balance[a]]
  /\ Go(j, IF job[j].src \in Undos THEN "unlog" ELSE "log")
  /\ UNCHANGED <<accounts, rows, logs, issued, crashes, logged>>

\* The import log: an upload writes it always, the sync when rows were added, a
\* message when it had rows, the page in a call of its own that may fail.
Logs(j, lost) ==
  CASE job[j].src = "page" -> ~lost
    [] job[j].src = "api"  -> TRUE
    [] job[j].src = "sync" -> job[j].added
    [] job[j].src = "mail" -> job[j].sheet # Blank
Finish(j) ==
  /\ At(j, "log")
  /\ \E lost \in BOOLEAN :
       IF Logs(j, lost)
       THEN /\ logs' = [logs EXCEPT ![job[j].tag] = @ + 1]
            /\ logged' = logged \cup {job[j].tag}
       ELSE UNCHANGED <<logs, logged>>
  /\ Put(j, Idle)
  /\ UNCHANGED <<accounts, balance, rows, issued, crashes>>
-----------------------------------------------------------------------------
(* Undoing an import                                                           *)

\* Mutant: the log goes first, and the rows after it.
UnlogFirst(j, tag, mcp) ==
  /\ At(j, "idle")
  /\ tag \in 1..issued /\ (mcp \/ logs[tag] > 0)
  /\ logs' = [logs EXCEPT ![tag] = IF mcp THEN 0 ELSE Bigger(0, @ - 1)]
  /\ Put(j, [Idle EXCEPT !.pc = "undo", !.src = IF mcp THEN "mcp" ELSE "log", !.tag = tag])
  /\ UNCHANGED <<accounts, balance, rows, issued, crashes, logged>>

\* DELETE /api/import-logs/:id reads a row of the log; the MCP server's
\* undo_import takes the import id as it comes.
UndoBegin(j, tag, mcp) ==
  /\ At(j, "idle")
  /\ tag \in 1..issued /\ (mcp \/ logs[tag] > 0)
  /\ Put(j, [Idle EXCEPT !.pc = "undo", !.src = IF mcp THEN "mcp" ELSE "log",
                         !.tag = tag])
  /\ UNCHANGED <<accounts, balance, rows, logs, issued, crashes, logged>>

\* Its transactions, and a recompute when there were any.
UndoDelete(j) ==
  /\ At(j, "undo")
  /\ rows' = [rows EXCEPT ![job[j].tag] = NoRows]
  /\ Go(j, IF rows[job[j].tag] = NoRows THEN "unlog" ELSE "recount")
  /\ UNCHANGED <<accounts, balance, logs, issued, crashes, logged>>

Recount(j) ==
  /\ At(j, "recount")
  /\ Put(j, [job[j] EXCEPT !.pc = "balance", !.accts = Accounts,
                           !.held = [a \in Acct |-> Owed(a)]])
  /\ UNCHANGED <<accounts, balance, rows, logs, issued, crashes, logged>>

\* The row of the log, or with the MCP server every row of this import id.
Unlog(j) ==
  /\ At(j, "unlog")
  /\ logs' = [logs EXCEPT ![job[j].tag] = IF job[j].src = "mcp" THEN 0 ELSE Bigger(0, @ - 1)]
  /\ Put(j, Idle)
  /\ UNCHANGED <<accounts, balance, rows, issued, crashes, logged>>
-----------------------------------------------------------------------------
\* The Worker stops, or a call to the database fails: the page keeps its import
\* id and can try again, even when only the answer was lost.
Crash(j) ==
  /\ job[j].pc \notin {"idle", "failed"}
  /\ crashes < MaxCrashes
  /\ crashes' = crashes + 1
  /\ Put(j, IF job[j].src = "page"
            THEN [Idle EXCEPT !.pc = "failed", !.tag = job[j].tag, !.sheet = job[j].sheet,
                              !.offers = job[j].offers]
            ELSE Idle)
  /\ UNCHANGED <<accounts, balance, rows, logs, issued, logged>>

Ask(j) ==
  \/ \E src \in Sources, sheet \in Sheets, offers \in BOOLEAN : Begin(j, src, sheet, offers)
  \/ \E tag \in Tag, sheet \in Sheets : Replace(j, tag, sheet)
  \/ \E tag \in Tag, mcp \in BOOLEAN : UndoBegin(j, tag, mcp)
  \/ Retry(j)
Import(j) ==
  \/ LoadAccounts(j) \/ ReadOpenings(j) \/ ApplyOpenings(j) \/ Create(j) \/ ReloadAccounts(j)
  \/ Compare(j) \/ Clear(j) \/ Insert(j) \/ SumUp(j) \/ SetBalances(j) \/ Finish(j)
Undo(j) == UndoDelete(j) \/ Recount(j) \/ Unlog(j)
Edit ==
  \/ \E n \in Name : AddAccount(n)
  \/ \E a \in Acct, n \in Name : RenameAccount(a, n)
  \/ \E l \in Line, a \in Acct : TypeIn(l, a)
Step(j) == Ask(j) \/ Import(j) \/ Undo(j) \/ Crash(j)

Busy(j) == job[j].pc \notin {"idle", "failed"}
Next ==
  /\ \/ Edit /\ (alone => \A j \in Job : ~Busy(j))
     \/ \E j \in Job : Step(j) /\ (alone => \A k \in Job \ {j} : ~Busy(k))
  /\ UNCHANGED alone
Spec == Init /\ [][Next]_vars

\* Imports and undos that run at once have ids of their own, unless somebody undoes or
\* uploads again an import that is at work.
OwnIds == \A j, k \in Job : j # k /\ Busy(j) /\ Busy(k) => job[j].tag # job[k].tag
OwnSpec == Init /\ [][Next /\ OwnIds']_vars
-----------------------------------------------------------------------------
(* Properties                                                                  *)

JobType ==
  [pc : {"idle", "failed", "load", "openings", "apply", "create", "reload", "compare",
         "clear", "insert", "balance", "log", "undo", "recount", "unlog"},
   src : Sources \cup Undos, tag : Tag0, sheet : [Line -> Nat], offers : BOOLEAN,
   map : [Name -> Acct0], apply : SUBSET Acct, at : [Line -> Acct0], todo : [Line -> Nat],
   accts : SUBSET Acct, held : [Acct -> Int], added : BOOLEAN]

\* Every account, count and import holds values of its kind.
TypeOK ==
  /\ name \in [Acct -> Name \cup {NoName}]
  /\ start \in [Acct -> Int] /\ balance \in [Acct -> Int]
  /\ rows \in [Tag0 -> [Line -> [Acct0 -> Nat]]]
  /\ logs \in [Tag -> Nat] /\ issued \in Tag0
  /\ job \in [Job -> JobType]
  /\ crashes \in Nat /\ logged \subseteq Tag0 /\ alone \in BOOLEAN

\* An import that ran alone, after whatever attempts of its own stopped half-way,
\* has put every line where it resolves as often as its statement has it, less
\* the transactions there were already: nothing is lost, nothing counted twice.
NeitherLostNorDoubled ==
  alone => \A j \in Job : At(j, "log") => \A l \in Line : \A a \in Acct0 :
    rows[job[j].tag][l][a] = IF a = job[j].at[l] THEN New(j, l, job[j].tag) ELSE 0

\* It leaves the balance of every account it knows at what the ledger says, even
\* when imports before it stopped with theirs unwritten ("self-healing").
BalancesHeal ==
  alone => \A j \in Job : At(j, "log") => \A a \in job[j].accts : balance[a] = Owed(a)

\* What the import log has had, and the ledger still holds rows of, is in the log
\* to be undone, wherever an undo stopped.
UndoableWhileThere == \A t \in logged : rows[t] # NoRows => logs[t] > 0

\* Rows of an import come and go only by a step of a job with its id, a retry or an undo
\* included, and what was typed in by no job's step: each leaves the rest as it is.
OwnRowsOnly ==
  [][/\ \A t \in Tag : rows'[t] # rows[t] =>
          \E j \in Job : /\ job[j].tag = t /\ job[j].pc \in {"clear", "insert", "undo"}
                        /\ job'[j] # job[j]
     /\ rows'[0] # rows[0] => UNCHANGED job]_vars

\* "The execute-side dedup lands only genuinely new rows, never duplicates"
\* (import-sync.ts): a line is there as often as other imports had it, or as the
\* statement has it.
NeverDuplicates ==
  alone => \A j \in Job : At(j, "log") => \A l \in Line :
    Own(l, job[j].tag) + Others(l, job[j].tag) = Bigger(Others(l, job[j].tag), job[j].sheet[l])

\* Deleting rows without a recompute "leaves every touched account silently wrong"
\* (mcp/tools-import.ts): when an undo ends, the balances agree with the ledger.
UndoBalances ==
  [][\A j \in Job : alone /\ Unlog(j) => \A a \in Accounts : balance[a] = Owed(a)]_vars
=============================================================================
