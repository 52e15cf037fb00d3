------------------------------ MODULE Storage ------------------------------
(* Where an account's data is: its profiles and their rows in D1, receipts as a  *)
(* row there and a file in R2, and what replaces or removes them whole: uploads  *)
(* and deletes (routes/receipts.ts), clearing and deleting a profile             *)
(* (profileData.ts, routes/profiles.ts), restoring a backup (backup.ts) and      *)
(* deleting the account (routes/account.ts).  No transaction spans the two       *)
(* stores; every await is a step boundary, and each call may fail, or may be      *)
(* done without the answer arriving, and a request may end anywhere.             *)
EXTENDS Integers, FiniteSets

CONSTANTS Job,        \* requests in progress at once
          Names,      \* what profiles are called
          MaxProfile, \* bound on profile ids
          MaxKey,     \* bound on files
          Limit,      \* receipts a profile may have: a backup's one at least
          Cap,        \* profiles an account may have
          MaxAsked    \* bound on requests

ASSUME StorageAssumption ==
  /\ MaxProfile \in Nat \ {0} /\ MaxKey \in Nat \ {0} /\ Limit \in Nat \ {0} /\ Cap \in Nat
  /\ MaxAsked \in Nat
  /\ Names # {} /\ IsFiniteSet(Names)

VARIABLES account,    \* whether the account is there
          profile,    \* [1..MaxProfile -> the row of profiles, and whether it has rows of data]
          receipts,   \* rows of receipts
          files,      \* the keys there is a file for
          job,        \* [Job -> a request's local state]
          minted,     \* the keys used
          asked,      \* requests begun
          faults,     \* history: what has gone wrong
          overlapped  \* history: whether two requests were ever in progress at once

stores == <<account, profile, receipts, files>>
storageVars == <<account, profile, receipts, files, job, minted, asked, faults, overlapped>>

ProfileId == 1..MaxProfile
KeyId == 1..MaxKey
NoTx == 0
\* A profile has one transaction a receipt may belong to, named by the profile.
Receipt == [key : KeyId, profile : ProfileId, tx : {NoTx} \cup ProfileId]
Own == {p \in ProfileId : profile[p].state = "own"}
Free == {p \in ProfileId : profile[p].state = "free"}
ReceiptsOf(ps) == {row \in receipts : row.profile \in ps}
KeysOf(ps) == {row.key : row \in ReceiptsOf(ps)}

Idle == [pc |-> "idle", ps |-> {}, keys |-> {}, tx |-> NoTx, names |-> {}, old |-> {},
         oldKeys |-> {}, ends |-> "clear"]
At(j, pc) == job[j].pc = pc
Put(j, rec) == job' = [job EXCEPT ![j] = rec]
Go(j, pc) == Put(j, [job[j] EXCEPT !.pc = pc])
End(j) == Put(j, Idle)
Note(fault) == faults' = faults \cup {fault}

\* A call is done, refused, or done and never answered.
Heard(outcome) ==
  /\ outcome \in {"done", "refused", "unheard"}
  /\ faults' = IF outcome = "done" THEN faults ELSE faults \cup {outcome}
\* A call to R2: a delete that fails removed nothing.
Files(outcome) ==
  /\ outcome \in {"done", "r2"}
  /\ faults' = IF outcome = "done" THEN faults ELSE faults \cup {outcome}
Begin(j, rec) ==
  /\ At(j, "idle") /\ account /\ asked < MaxAsked
  /\ asked' = asked + 1
  /\ Put(j, rec)
  /\ overlapped' = (overlapped \/ \E k \in Job \ {j} : ~At(k, "idle"))
  /\ UNCHANGED <<account, profile, receipts, files, minted, faults>>

\* An account with some profiles, one of them with a receipt or none.
StorageInit ==
  /\ account = TRUE
  /\ \E own \in 1..MaxProfile, with \in 0..1 :
       /\ own <= Cap
       /\ \E name \in [1..own -> Names] :
            /\ \A p, q \in 1..own : p # q => name[p] # name[q]
            /\ profile = [p \in ProfileId |->
                 IF p <= own THEN [state |-> "own", name |-> name[p], data |-> TRUE]
                 ELSE [state |-> "free", name |-> name[1], data |-> FALSE]]
       /\ receipts = {[key |-> k, profile |-> k, tx |-> k] : k \in 1..with}
       /\ files = 1..with /\ minted = 1..with
  /\ faults = {} /\ job = [j \in Job |-> Idle] /\ asked = 0 /\ overlapped = FALSE
-----------------------------------------------------------------------------
(* Profiles                                                                    *)

\* POST /api/profiles, and ensureProfile when there is none: one statement under the cap.
CreateProfile(n) ==
  /\ account
  /\ Cardinality(Own) < Cap \/ Own = {}
  /\ \A p \in Own : profile[p].name # n
  /\ \E new \in Free :
       /\ \A p \in Free : new <= p
       /\ profile' = [profile EXCEPT ![new] = [state |-> "own", name |-> n, data |-> TRUE]]
  /\ overlapped' = (overlapped \/ \E k \in Job : ~At(k, "idle"))
  /\ UNCHANGED <<account, receipts, files, job, minted, asked, faults>>

\* An entry of the person's, after a clear.
AddData(p) ==
  /\ p \in Own /\ ~profile[p].data
  /\ profile' = [profile EXCEPT ![p].data = TRUE]
  /\ overlapped' = (overlapped \/ \E k \in Job : ~At(k, "idle"))
  /\ UNCHANGED <<account, receipts, files, job, minted, asked, faults>>

\* DELETE /api/profile/data, DELETE /api/clear-all, DELETE /api/profiles/:id (never the
\* last one) and DELETE /api/account: which profiles, as they are read.
ClearBegin(j, ends) ==
  /\ \/ ends = "clear" /\ \E ps \in ({{p} : p \in Own} \cup {Own}) \ {{}} :
          Begin(j, [Idle EXCEPT !.pc = "keys", !.ps = ps, !.ends = ends])
     \/ ends = "remove" /\ Cardinality(Own) > 1 /\ \E p \in Own :
          Begin(j, [Idle EXCEPT !.pc = "keys", !.ps = {p}, !.ends = ends])
     \/ ends = "erase" /\ Begin(j, [Idle EXCEPT !.pc = "keys", !.ps = Own, !.ends = ends])

\* receiptKeys.
ReadKeys(j) ==
  /\ At(j, "keys")
  /\ Put(j, [job[j] EXCEPT !.pc = "clearFiles", !.keys = KeysOf(job[j].ps)])
  /\ UNCHANGED <<stores, minted, asked, faults, overlapped>>

\* deleteReceiptObjects: the files first; a failure ends the request.
ClearFiles(j) ==
  /\ At(j, "clearFiles")
  /\ \E outcome \in {"done", "r2"} :
       /\ Files(outcome)
       /\ IF outcome = "done" THEN files' = files \ job[j].keys /\ Go(j, "clearRows")
                              ELSE files' = files /\ End(j)
  /\ UNCHANGED <<account, profile, receipts, minted, asked, overlapped>>

\* The rows of the profiles, in one batch; the profiles with them, or the account's.
Cleared(j) ==
  LET ps   == job[j].ps  ends == job[j].ends
      gone == CASE ends = "remove" -> ps \cap Own [] ends = "erase" -> Own [] OTHER -> {}
  IN  /\ receipts' = receipts \ ReceiptsOf(ps)
      /\ profile' = [p \in ProfileId |->
                      [profile[p] EXCEPT !.data = @ /\ p \notin ps,
                                         !.state = IF p \in gone THEN "gone" ELSE @]]
      /\ account' = (account /\ ends # "erase")
ClearRows(j) ==
  /\ At(j, "clearRows")
  /\ \E outcome \in {"done", "refused", "unheard"} :
       /\ Heard(outcome)
       /\ IF outcome = "refused" THEN UNCHANGED <<account, profile, receipts>> ELSE Cleared(j)
  /\ End(j)
  /\ UNCHANGED <<files, minted, asked, overlapped>>
-----------------------------------------------------------------------------
(* Receipts                                                                    *)

\* The pre-flight: the count, and the transaction when the receipt is for one.
UploadBegin(j, p, tx) ==
  /\ p \in Own /\ Cardinality(ReceiptsOf({p})) < Limit
  /\ tx \in {NoTx, p} /\ (tx = p => profile[p].data)
  /\ Begin(j, [Idle EXCEPT !.pc = IF tx = NoTx THEN "put" ELSE "prev", !.ps = {p}, !.tx = tx])

\* The receipt the transaction has is replaced: its file, then its row.
UploadPrev(j) ==
  /\ At(j, "prev")
  /\ LET prev == {row \in ReceiptsOf(job[j].ps) : row.tx = job[j].tx}
     IN  Put(j, [job[j] EXCEPT !.pc = IF prev = {} THEN "put" ELSE "dropFile",
                               !.keys = {row.key : row \in prev}, !.ends = "upload"])
  /\ UNCHANGED <<stores, minted, asked, faults, overlapped>>

\* DELETE /api/receipts/:id reads its row.
DeleteBegin(j, key) ==
  /\ key \in KeysOf(Own)
  /\ Begin(j, [Idle EXCEPT !.pc = "dropFile", !.keys = {key}])

\* The file of a deleted or replaced receipt: a failure is logged and passed over.
DropFile(j) ==
  /\ At(j, "dropFile")
  /\ \E outcome \in {"done", "r2"} :
       Files(outcome) /\ files' = IF outcome = "done" THEN files \ job[j].keys ELSE files
  /\ Go(j, "dropRow")
  /\ UNCHANGED <<account, profile, receipts, minted, asked, overlapped>>
DropRow(j) ==
  /\ At(j, "dropRow")
  /\ \E outcome \in {"done", "refused", "unheard"} :
       /\ Heard(outcome)
       /\ receipts' = IF outcome = "refused" THEN receipts
                      ELSE {row \in receipts : row.key \notin job[j].keys}
       /\ IF outcome = "done" /\ job[j].ends = "upload"
          THEN Put(j, [job[j] EXCEPT !.pc = "put", !.keys = {}])
          ELSE End(j)
  /\ UNCHANGED <<account, profile, files, minted, asked, overlapped>>

\* R2 takes the file under a new key, fails, or takes it and does not answer.
PutFile(j, key) ==
  /\ At(j, "put") /\ key \in KeyId \ minted /\ \A k \in KeyId \ minted : key <= k
  /\ minted' = minted \cup {key}
  /\ \E outcome \in {"done", "r2", "unheard"} :
       /\ faults' = IF outcome = "done" THEN faults ELSE faults \cup {outcome}
       /\ files' = IF outcome = "r2" THEN files ELSE files \cup {key}
       /\ IF outcome = "done" THEN Put(j, [job[j] EXCEPT !.pc = "insert", !.keys = {key}])
                              ELSE End(j)
  /\ UNCHANGED <<account, profile, receipts, asked, overlapped>>

\* Mutant: the row goes in whatever the count is by then.
InsertAnyway(j) ==
  /\ At(j, "insert")
  /\ receipts' = receipts \cup [key : job[j].keys, profile : job[j].ps, tx : {job[j].tx}]
  /\ End(j)
  /\ UNCHANGED <<account, profile, files, minted, asked, faults, overlapped>>

\* Mutant: a refused insert leaves the file it put.
InsertNoUndo(j) ==
  /\ At(j, "insert")
  /\ \E outcome \in {"done", "refused"} :
       /\ Heard(outcome)
       /\ receipts' = IF outcome = "refused" THEN receipts
                      ELSE receipts \cup [key : job[j].keys, profile : job[j].ps, tx : {job[j].tx}]
  /\ End(j)
  /\ UNCHANGED <<account, profile, files, minted, asked, overlapped>>

\* INSERT ... SELECT ... WHERE the count is under the limit; transaction_id is UNIQUE and
\* a foreign key.
Insert(j) ==
  /\ At(j, "insert")
  /\ LET taken == \/ Cardinality(ReceiptsOf(job[j].ps)) >= Limit
                  \/ job[j].tx # NoTx /\ \E row \in receipts : row.tx = job[j].tx
                  \/ job[j].tx # NoTx /\ ~profile[job[j].tx].data
     IN  \E outcome \in {"done", "refused", "unheard"} :
           IF taken
           THEN outcome = "done" /\ Go(j, "undo") /\ UNCHANGED <<receipts, faults>>
           ELSE /\ Heard(outcome)
                /\ receipts' = IF outcome = "refused" THEN receipts
                               ELSE receipts \cup [key : job[j].keys, profile : job[j].ps,
                                                   tx : {job[j].tx}]
                /\ IF outcome = "done" THEN End(j) ELSE Go(j, "undo")
  /\ UNCHANGED <<account, profile, files, minted, asked, overlapped>>

\* "Don't orphan the R2 object if the metadata insert fails."
Undo(j) ==
  /\ At(j, "undo")
  /\ \E outcome \in {"done", "r2"} :
       Files(outcome) /\ files' = IF outcome = "done" THEN files \ job[j].keys ELSE files
  /\ End(j)
  /\ UNCHANGED <<account, profile, receipts, minted, asked, overlapped>>
-----------------------------------------------------------------------------
(* Restoring a backup: restoreBackup                                           *)

RestoreBegin(j, names) ==
  /\ names # {} /\ Cardinality(names) <= IF Cardinality(Own) > Cap THEN Cardinality(Own) ELSE Cap
  /\ Begin(j, [Idle EXCEPT !.pc = "stage", !.names = names])

\* An error goes to the clean-up of what is staged.
Fail(j) == Go(j, "cleanup")

\* The profiles of the backup, owned by nobody yet.
Stage(j) ==
  /\ At(j, "stage")
  /\ \E ps \in SUBSET Free :
       /\ Cardinality(ps) = Cardinality(job[j].names)
       /\ \A p \in ps, q \in Free \ ps : p < q
       /\ \E outcome \in {"done", "refused", "unheard"} :
            /\ Heard(outcome)
            /\ profile' = IF outcome = "refused" THEN profile
                          ELSE [p \in ProfileId |->
                                 IF p \in ps THEN [profile[p] EXCEPT !.state = "staged"]
                                 ELSE profile[p]]
            /\ IF outcome = "done" THEN Put(j, [job[j] EXCEPT !.pc = "fill", !.ps = ps])
                                   ELSE Fail(j)
  /\ UNCHANGED <<account, receipts, files, minted, asked, overlapped>>

\* Mutant: a chunk that fails is passed over.
FillOn(j) ==
  /\ At(j, "fill")
  /\ \E outcome \in {"done", "refused"}, some \in SUBSET job[j].ps :
       /\ Heard(outcome)
       /\ outcome = "done" => some = job[j].ps
       /\ profile' = [p \in ProfileId |-> [profile[p] EXCEPT !.data = @ \/ p \in some]]
  /\ Go(j, "putFiles")
  /\ UNCHANGED <<account, receipts, files, minted, asked, overlapped>>

\* Every table in chunks of 100; a chunk that fails leaves the ones before it.
Fill(j) ==
  /\ At(j, "fill")
  /\ \E outcome \in {"done", "refused", "unheard"}, some \in SUBSET job[j].ps :
       /\ Heard(outcome)
       /\ outcome = "done" => some = job[j].ps
       /\ profile' = [p \in ProfileId |-> [profile[p] EXCEPT !.data = @ \/ p \in some]]
       /\ IF outcome = "done" THEN Go(j, "putFiles") ELSE Fail(j)
  /\ UNCHANGED <<account, receipts, files, minted, asked, overlapped>>

\* One receipt for each profile of the backup: the files, one after another.
Puts(j) == Cardinality(job[j].keys) < Cardinality(job[j].ps)
PutFiles(j, key) ==
  /\ At(j, "putFiles") /\ Puts(j)
  /\ key \in KeyId \ minted /\ \A k \in KeyId \ minted : key <= k
  /\ minted' = minted \cup {key}
  /\ \E outcome \in {"done", "r2", "unheard"} :
       /\ faults' = IF outcome = "done" THEN faults ELSE faults \cup {outcome}
       /\ files' = IF outcome = "r2" THEN files ELSE files \cup {key}
       /\ IF outcome = "done" THEN Put(j, [job[j] EXCEPT !.keys = @ \cup {key}]) ELSE Fail(j)
  /\ UNCHANGED <<account, profile, receipts, asked, overlapped>>

\* Then the rows that name them, and each profile's transaction with its own.
Ordered(f) == \A p, q \in DOMAIN f : p < q => f[p] < f[q]
PutRows(j) ==
  /\ At(j, "putFiles") /\ ~Puts(j)
  /\ \E outcome \in {"done", "refused", "unheard"}, key \in [job[j].ps -> job[j].keys] :
       /\ Heard(outcome) /\ Ordered(key)
       /\ receipts' = IF outcome = "refused" THEN receipts
                      ELSE receipts \cup {[key |-> key[p], profile |-> p, tx |-> p] : p \in job[j].ps}
       /\ IF outcome = "done" THEN Go(j, "readOld") ELSE Fail(j)
  /\ UNCHANGED <<account, profile, files, minted, asked, overlapped>>

\* What it replaces, as it is read: the profiles, and then the files.
ReadOld(j) ==
  /\ At(j, "readOld")
  /\ Put(j, [job[j] EXCEPT !.pc = "readOldKeys", !.old = Own])
  /\ UNCHANGED <<stores, minted, asked, faults, overlapped>>
ReadOldKeys(j) ==
  /\ At(j, "readOldKeys")
  /\ Put(j, [job[j] EXCEPT !.pc = "cutover", !.oldKeys = KeysOf(job[j].old)])
  /\ UNCHANGED <<stores, minted, asked, faults, overlapped>>

\* The cutover: one batch deletes the old profiles with their rows and gives the staged
\* ones to the account under their names, unique among its own.
Named(j) == {f \in [job[j].ps -> job[j].names] : \A p, q \in job[j].ps : p # q => f[p] # f[q]}
Fits(j) ==
  /\ account
  /\ \A p \in Own \ job[j].old : profile[p].name \notin job[j].names
Switched(j, name) ==
  /\ receipts' = receipts \ ReceiptsOf(job[j].old)
  /\ profile' = [p \in ProfileId |->
       IF p \in job[j].ps THEN [profile[p] EXCEPT !.state = "own", !.name = name[p]]
       ELSE IF p \in job[j].old THEN [profile[p] EXCEPT !.state = "gone", !.data = FALSE]
       ELSE profile[p]]
\* Mutant: the old profiles go in a batch before the one that brings the new.
CutoverInTwo(j) ==
  /\ At(j, "cutover")
  /\ profile' = [p \in ProfileId |->
       IF p \in job[j].old THEN [profile[p] EXCEPT !.state = "gone", !.data = FALSE]
       ELSE profile[p]]
  /\ receipts' = receipts \ ReceiptsOf(job[j].old)
  /\ Fail(j) /\ Note("refused")
  /\ UNCHANGED <<account, files, minted, asked, overlapped>>

Cutover(j) ==
  /\ At(j, "cutover")
  /\ \E outcome \in {"done", "refused", "unheard"}, name \in Named(j) :
       IF Fits(j)
       THEN /\ Heard(outcome)
            /\ IF outcome = "refused" THEN UNCHANGED <<profile, receipts>> ELSE Switched(j, name)
            /\ IF outcome = "done" THEN Go(j, "dropOld") ELSE Fail(j)
       ELSE outcome = "done" /\ Fail(j) /\ UNCHANGED <<profile, receipts, faults>>
  /\ UNCHANGED <<account, files, minted, asked, overlapped>>

\* Mutant: the clean-up's keys are deleted, the new ones.
DropStaged(j) ==
  /\ At(j, "dropOld")
  /\ files' = files \ job[j].keys
  /\ End(j)
  /\ UNCHANGED <<account, profile, receipts, minted, asked, faults, overlapped>>

\* The replaced receipts' files: a failure is logged.
DropOld(j) ==
  /\ At(j, "dropOld")
  /\ \E outcome \in {"done", "r2"} :
       Files(outcome) /\ files' = IF outcome = "done" THEN files \ job[j].oldKeys ELSE files
  /\ End(j)
  /\ UNCHANGED <<account, profile, receipts, minted, asked, overlapped>>

\* cleanupProfiles: the staged profiles by their ids, with their rows.
Cleanup(j) ==
  /\ At(j, "cleanup")
  /\ \E outcome \in {"done", "refused", "unheard"} :
       /\ Heard(outcome)
       /\ IF outcome = "refused" THEN UNCHANGED <<profile, receipts>>
          ELSE /\ receipts' = receipts \ ReceiptsOf(job[j].ps)
               /\ profile' = [p \in ProfileId |->
                    IF p \in job[j].ps THEN [profile[p] EXCEPT !.state = "gone", !.data = FALSE]
                    ELSE profile[p]]
  /\ Go(j, "undo")
  /\ UNCHANGED <<account, files, minted, asked, overlapped>>

\* The Worker stops, or a read fails: the request ends where it is.
Die(j) ==
  /\ ~At(j, "idle")
  /\ End(j) /\ Note("died")
  /\ UNCHANGED <<stores, minted, asked, overlapped>>

Ask(j) ==
  \/ \E ends \in {"clear", "remove", "erase"} : ClearBegin(j, ends)
  \/ \E p \in Own, tx \in {NoTx} \cup ProfileId : UploadBegin(j, p, tx)
  \/ \E key \in KeyId : DeleteBegin(j, key)
  \/ \E names \in SUBSET Names : RestoreBegin(j, names)
Step(j) ==
  \/ ReadKeys(j) \/ ClearFiles(j) \/ ClearRows(j)
  \/ UploadPrev(j) \/ DropFile(j) \/ DropRow(j) \/ Insert(j) \/ Undo(j)
  \/ Stage(j) \/ Fill(j) \/ PutRows(j) \/ ReadOld(j) \/ ReadOldKeys(j) \/ Cutover(j)
  \/ DropOld(j) \/ Cleanup(j) \/ Die(j)
  \/ \E key \in KeyId : PutFile(j, key) \/ PutFiles(j, key)
StorageNext ==
  \/ \E n \in Names : CreateProfile(n)
  \/ \E p \in ProfileId : AddData(p)
  \/ \E j \in Job : Ask(j) \/ Step(j)
StorageSpec == StorageInit /\ [][StorageNext]_storageVars
-----------------------------------------------------------------------------
(* Properties                                                                  *)

JobType ==
  [pc : {"idle", "keys", "clearFiles", "clearRows", "prev", "dropFile", "dropRow", "put",
         "insert", "undo", "stage", "fill", "putFiles", "readOld", "readOldKeys", "cutover",
         "dropOld", "cleanup"},
   ps : SUBSET ProfileId, keys : SUBSET KeyId, tx : {NoTx} \cup ProfileId,
   names : SUBSET Names, old : SUBSET ProfileId, oldKeys : SUBSET KeyId,
   ends : {"clear", "remove", "erase", "upload"}]

\* Every row, file and request holds values of its kind: a profile's name is unique in the
\* account, and a receipt's file is its own.
StorageTypes ==
  /\ account \in BOOLEAN
  /\ profile \in [ProfileId -> [state : {"free", "staged", "own", "gone"}, name : Names,
                                data : BOOLEAN]]
  /\ \A p, q \in Own : p # q => profile[p].name # profile[q].name
  /\ receipts \subseteq Receipt
  /\ \A r, q \in receipts : r # q => r.key # q.key
  /\ files \subseteq minted /\ minted \subseteq KeyId
  /\ job \in [Job -> JobType]
  /\ asked \in 0..MaxAsked
  /\ faults \subseteq {"refused", "r2", "unheard", "died"} /\ overlapped \in BOOLEAN

\* Whether the step is a request of the person's that takes p away.
Asked(p) ==
  \E j \in Job : /\ At(j, "clearRows") /\ job'[j] # job[j]
                 /\ job[j].ends = "erase" \/ (job[j].ends = "remove" /\ p \in job[j].ps)
\* A profile is the account's no more.
Leaves(p) == p \in Own /\ profile'[p].state # "own"
\* A backup's profiles are the account's.
Arrives(p) == profile[p].state = "staged" /\ profile'[p].state = "own"

\* "Existing profiles are replaced only by the final atomic D1 cutover batch": a profile
\* leaves by the person's request, or in the step that brings the backup's.  It holds
\* but for a call that was done and never answered.
OnlyReplaced ==
  [][\A p \in ProfileId :
       Leaves(p) => Asked(p) \/ (\E q \in ProfileId : Arrives(q)) \/ "unheard" \in faults]_storageVars

\* The same of every call (routes/exports.ts).
OnlyReplacedEver ==
  [][\A p \in ProfileId : Leaves(p) => Asked(p) \/ \E q \in ProfileId : Arrives(q)]_storageVars

\* What a cutover brings is the backup whole: all its profiles at once, each with its
\* rows and a receipt whose file is there, and none of the profiles it read is left.
CutoverWhole ==
  [][\A p \in ProfileId : Arrives(p) =>
       \E j \in Job :
         /\ p \in job[j].ps /\ Cardinality(job[j].ps) = Cardinality(job[j].names)
         /\ \A q \in job[j].ps :
              /\ Arrives(q) /\ profile'[q].data
              /\ \E row \in receipts' : row.profile = q /\ row.key \in files'
         /\ \A q \in job[j].old : profile'[q].state # "own"]_storageVars

\* A receipt that is listed can be opened, whatever requests overlap and however R2
\* fails: its file is there, or its delete is under way.
Openable ==
  \/ faults \ {"r2"} # {}
  \/ \A row \in ReceiptsOf(Own) :
       \/ row.key \in files
       \/ \E j \in Job : row.key \in job[j].keys /\ job[j].pc \in {"dropRow", "clearRows"}

\* One request at a time, whichever of its D1 calls are refused, leaves no file that no
\* receipt names.
NoOrphans ==
  overlapped \/ faults \ {"refused"} # {} \/ (\E j \in Job : ~At(j, "idle"))
    \/ files \subseteq {row.key : row \in receipts}

\* Uploads that overlap stay within the receipts a profile may have.
WithinLimit == \A p \in Own : Cardinality(ReceiptsOf({p})) <= Limit
=============================================================================
