--------------------------- MODULE StorageProofs ---------------------------
(* What holds of Storage for any number of requests, names, profiles and files:  *)
(* its types, that a profile goes only by request or for a backup, that a backup *)
(* arrives whole, that a listed receipt can be opened, that one request at a time *)
(* leaves no file nobody names, and the limit.                                    *)
EXTENDS Storage, FiniteSetTheorems, TLAPS

Settled(p) == profile[p].state \in {"own", "gone"}
AllKeys == {row.key : row \in receipts}
Known(j) == job[j].keys \cup job[j].oldKeys
In(j, pcs) == job[j].pc \in pcs

\* Where a request is.  Staging: a restore's profiles are staged; Receipted: their receipts
\* too; Private: it has put files nobody else knows of; Settling: it is about profiles that
\* are the account's, or were.
Receipted == {"readOld", "readOldKeys", "cutover"}
Staging == {"fill", "putFiles"} \cup Receipted
Staged == Staging \cup {"cleanup"}
Putting == {"insert", "putFiles"}
Private == Putting \cup Receipted
Uploading == {"prev", "put", "insert"}
Settling == {"keys", "clearFiles", "clearRows", "dropFile", "dropRow"} \cup Uploading

\* The profiles a request works on: the account's, or those of the backup, nobody's yet.
ProfilesFit(j) ==
  /\ \A p \in job[j].old : Settled(p)
  /\ In(j, Settling) => \A p \in job[j].ps : Settled(p)
  /\ In(j, Staging) => /\ \A p \in job[j].ps : profile[p].state = "staged"
                       /\ Cardinality(job[j].ps) = Cardinality(job[j].names)
                       /\ job[j].ps # {}
  /\ In(j, Staged) => \A p \in job[j].ps : profile[p].state # "free"
  /\ At(j, "stage") => job[j].names # {}
  /\ At(j, "cleanup") /\ "unheard" \notin faults =>
       \A p \in job[j].ps : profile[p].state = "staged"

\* What a restore has written so far, and what an upload is about.
RowsFit(j) ==
  /\ In(j, {"stage", "fill"}) => job[j].keys = {}
  /\ At(j, "stage") => job[j].ps = {}
  /\ At(j, "putFiles") => Cardinality(job[j].keys) <= Cardinality(job[j].ps)
  /\ In(j, {"fill", "putFiles"}) => ReceiptsOf(job[j].ps) = {}
  /\ In(j, Receipted \cup {"putFiles"}) => \A p \in job[j].ps : profile[p].data
  /\ In(j, Receipted) =>
       /\ \A p \in job[j].ps : \E row \in receipts : row.profile = p
       /\ \A row \in receipts : row.key \in job[j].keys <=> row.profile \in job[j].ps
  /\ In(j, Uploading) \/ job[j].ends = "upload" =>
       \E p \in ProfileId : job[j].ps = {p} /\ job[j].tx \in {NoTx, p}
  /\ At(j, "insert") => \E key \in KeyId : job[j].keys = {key}

\* Whose files the keys a request holds are.
KeysFit(j) ==
  /\ Known(j) \subseteq minted
  /\ In(j, Private) => job[j].keys \subseteq files
  /\ In(j, Putting) => job[j].keys \cap AllKeys = {}
  /\ In(j, {"clearFiles", "clearRows", "cleanup"}) =>
       \A row \in receipts : row.key \in job[j].keys => row.profile \in job[j].ps
  /\ At(j, "cutover") =>
       \A row \in receipts : row.key \in job[j].oldKeys => row.profile \in job[j].old
  /\ At(j, "dropOld") => job[j].oldKeys \cap AllKeys = {}
  /\ At(j, "undo") /\ faults \subseteq {"r2"} => job[j].keys \cap AllKeys = {}

\* Two restores have their own profiles, and nobody knows a file that is private.
Apart(j, k) ==
  /\ In(j, Staged) /\ In(k, Staged) => job[j].ps \cap job[k].ps = {}
  /\ In(j, Private) => job[j].keys \cap Known(k) = {}

\* No row is of a profile that is not there yet, and no profile has more than the limit.
TableFits ==
  /\ \A row \in receipts : profile[row.profile].state # "free"
  /\ AllKeys \subseteq minted
  /\ IsFiniteSet(receipts)
  /\ \A p \in ProfileId : Cardinality(ReceiptsOf({p})) <= Limit

\* One request at a time: the files no row names are the ones it is about to see to.
Spare(j) ==
  IF In(j, Putting \cup {"undo", "cleanup"}) THEN job[j].keys
  ELSE IF At(j, "dropOld") THEN job[j].oldKeys ELSE {}
SeenTo(j) ==
  /\ At(j, "clearFiles") => KeysOf(job[j].ps) \subseteq job[j].keys
  /\ At(j, "clearRows") => KeysOf(job[j].ps) \cap files = {}
  /\ At(j, "dropRow") => job[j].keys \cap files = {}
  /\ At(j, "cutover") => KeysOf(job[j].old) \subseteq job[j].oldKeys
  /\ At(j, "cleanup") => KeysOf(job[j].ps) \subseteq job[j].keys
Quiet == ~overlapped /\ faults \subseteq {"refused"}
Alone ==
  Quiet => /\ \A j, k \in Job : ~At(j, "idle") /\ ~At(k, "idle") => j = k
           /\ \A key \in files \ AllKeys : \E j \in Job : key \in Spare(j)
           /\ \A j \in Job : SeenTo(j)

Fit(j) == ProfilesFit(j) /\ RowsFit(j) /\ KeysFit(j)
IInv ==
  /\ StorageTypes /\ TableFits
  /\ \A j \in Job : Fit(j)
  /\ \A j, k \in Job : j # k => Apart(j, k)
  /\ Openable /\ Alone
-----------------------------------------------------------------------------
(* What steps have in common                                                   *)

LEMMA Ids ==
  /\ NoTx \notin ProfileId /\ Idle \in JobType /\ Idle.pc = "idle" /\ Idle.ps = {}
  /\ Idle.keys = {} /\ Idle.old = {} /\ Idle.oldKeys = {} /\ Idle.ends = "clear"
  /\ Idle.tx = NoTx /\ Idle.names = {}
BY StorageAssumption DEF NoTx, ProfileId, Idle, JobType

LEMMA OneMore ==
  ASSUME NEW S, IsFiniteSet(S), NEW x, NEW n \in Nat, Cardinality(S) < n
  PROVE  Cardinality(S \cup {x}) <= n
<1>1. Cardinality(S) \in Nat
  BY FS_CardinalityType
<1>2. Cardinality(S \cup {x}) = IF x \in S THEN Cardinality(S) ELSE Cardinality(S) + 1
  BY FS_AddElement
<1> QED BY <1>1, <1>2

LEMMA OneRow ==
  ASSUME NEW key, NEW p, NEW tx
  PROVE  [key : {key}, profile : {p}, tx : {tx}] = {[key |-> key, profile |-> p, tx |-> tx]}
<1>1. \A row \in [key : {key}, profile : {p}, tx : {tx}] :
        row = [key |-> key, profile |-> p, tx |-> tx]
  OBVIOUS
<1>2. [key |-> key, profile |-> p, tx |-> tx] \in [key : {key}, profile : {p}, tx : {tx}]
  OBVIOUS
<1> QED BY <1>1, <1>2

LEMMA FewIds ==
  /\ \A ids \in SUBSET ProfileId : IsFiniteSet(ids) /\ Cardinality(ids) \in Nat
  /\ \A ids \in SUBSET KeyId : IsFiniteSet(ids) /\ Cardinality(ids) \in Nat
<1>1. MaxProfile \in Int /\ MaxKey \in Int
  BY StorageAssumption
<1>2. IsFiniteSet(ProfileId) /\ IsFiniteSet(KeyId)
  BY <1>1, FS_Interval DEF ProfileId, KeyId
<1> QED BY <1>2, FS_Subset, FS_CardinalityType

ProfileRow == [state : {"free", "staged", "own", "gone"}, name : Names, data : BOOLEAN]

\* A request's record is replaced, its place alone, or it ends.
LEMMA Putting1 ==
  ASSUME StorageTypes, NEW j \in Job, NEW rec \in JobType, Put(j, rec)
  PROVE  /\ job' \in [Job -> JobType] /\ job'[j] = rec
         /\ \A k \in Job \ {j} : job'[k] = job[k]
BY DEF Put, StorageTypes

LEMMA Going ==
  ASSUME StorageTypes, NEW j \in Job, NEW pc, Go(j, pc),
         pc \in {"clearRows", "dropRow", "undo", "putFiles", "readOld", "dropOld", "cleanup"}
  PROVE  /\ job' \in [Job -> JobType] /\ \A k \in Job \ {j} : job'[k] = job[k]
         /\ job'[j].pc = pc /\ job'[j].ps = job[j].ps /\ job'[j].keys = job[j].keys
         /\ job'[j].tx = job[j].tx /\ job'[j].names = job[j].names /\ job'[j].old = job[j].old
         /\ job'[j].oldKeys = job[j].oldKeys /\ job'[j].ends = job[j].ends
<1>1. job[j] \in JobType
  BY DEF StorageTypes
<1>2. [job[j] EXCEPT !.pc = pc] \in JobType
  BY <1>1 DEF JobType
<1>3. /\ job' \in [Job -> JobType] /\ job'[j] = [job[j] EXCEPT !.pc = pc]
      /\ \A k \in Job \ {j} : job'[k] = job[k]
  BY <1>2, Putting1 DEF Go
<1> QED BY <1>1, <1>3 DEF JobType

LEMMA Ending ==
  ASSUME StorageTypes, NEW j \in Job, End(j)
  PROVE  /\ job' \in [Job -> JobType] /\ job'[j] = Idle
         /\ \A k \in Job \ {j} : job'[k] = job[k]
BY Ids, Putting1 DEF End

\* A step leaves request k what is its own.
Spares(k) ==
  /\ job'[k] = job[k]
  /\ faults \subseteq faults' /\ minted \subseteq minted'
  /\ \A p \in ProfileId : Settled(p) => Settled(p)'
  /\ \A p \in ProfileId : profile[p].state # "free" => profile'[p].state # "free"
  /\ In(k, Staged) => \A p \in job[k].ps : profile[p].state = "staged" =>
       profile'[p].state = "staged" /\ (profile[p].data => profile'[p].data)
  /\ \A row \in receipts' \ receipts :
       row.key \notin Known(k) /\ (In(k, Staging) => row.profile \notin job[k].ps)
  /\ In(k, Staging) => \A row \in receipts \ receipts' : row.profile \notin job[k].ps
  /\ In(k, Private) => job[k].keys \cap (files \ files') = {}

LEMMA Spared ==
  ASSUME StorageTypes, NEW k \in Job, Fit(k), Spares(k)
  PROVE  Fit(k)'
<1>1. job[k] \in JobType /\ job[k].ps \subseteq ProfileId /\ job[k].old \subseteq ProfileId
  BY DEF StorageTypes, JobType
<1>2. ProfilesFit(k)'
  BY <1>1 DEF Fit, ProfilesFit, Spares, In, At, Staged, Staging
<1>3. RowsFit(k)'
  <2>1. In(k, {"fill", "putFiles"}) => ReceiptsOf(job[k].ps)' = {}
    BY DEF Fit, RowsFit, Spares, In, Staging, ReceiptsOf
  <2>2. In(k, Receipted \cup {"putFiles"}) => \A p \in job[k].ps : profile'[p].data
    BY DEF Fit, RowsFit, ProfilesFit, Spares, In, Staging, Staged
  <2>3. In(k, Receipted) =>
          /\ \A p \in job[k].ps : \E row \in receipts' : row.profile = p
          /\ \A row \in receipts' : row.key \in job[k].keys <=> row.profile \in job[k].ps
    BY DEF Fit, RowsFit, Spares, In, Staging, Known
  <2> QED BY <2>1, <2>2, <2>3 DEF Fit, RowsFit, Spares, In, At, ReceiptsOf
<1>4. KeysFit(k)'
  BY DEF Fit, KeysFit, Spares, In, At, Known, AllKeys
<1> QED BY <1>2, <1>3, <1>4 DEF Fit

\* What is left to show of a step of j.
LEMMA Holds ==
  ASSUME IInv, NEW j \in Job, StorageTypes', TableFits', Fit(j)', Openable', Alone',
         \A k \in Job \ {j} : Spares(k) /\ Apart(j, k)' /\ Apart(k, j)'
  PROVE  IInv'
<1>1. \A k \in Job : Fit(k)'
  BY Spared DEF IInv
<1>2. \A k, l \in Job : k # l => Apart(k, l)'
  <2> SUFFICES ASSUME NEW k \in Job, NEW l \in Job, k # l, k # j, l # j
               PROVE  Apart(k, l)'
    OBVIOUS
  <2>1. Apart(k, l) /\ job'[k] = job[k] /\ job'[l] = job[l]
    BY DEF IInv, Spares
  <2> QED BY <2>1 DEF Apart, In, Known
<1> QED BY <1>1, <1>2 DEF IInv

\* A step of a request under way, alone.
LEMMA StaysAlone ==
  ASSUME IInv, NEW j \in Job, ~At(j, "idle"), \A k \in Job \ {j} : job'[k] = job[k],
         overlapped' = overlapped, faults \subseteq faults',
         Quiet' => SeenTo(j)' /\ \A key \in files' \ AllKeys' : key \in Spare(j)'
  PROVE  Alone'
<1> SUFFICES ASSUME Quiet' PROVE Alone'
  BY DEF Alone
<1>1. \A k \in Job \ {j} : At(k, "idle") /\ At(k, "idle")'
  BY DEF IInv, Alone, Quiet, At
<1>2. \A k, l \in Job : ~At(k, "idle")' /\ ~At(l, "idle")' => k = l
  BY <1>1
<1>3. \A k \in Job : SeenTo(k)'
  BY <1>1 DEF SeenTo, At
<1> QED BY <1>2, <1>3 DEF Alone

LEMMA WasAlone ==
  ASSUME IInv, NEW j \in Job, ~At(j, "idle"), Quiet
  PROVE  SeenTo(j) /\ \A key \in files \ AllKeys : key \in Spare(j)
<1>1. \A k \in Job \ {j} : At(k, "idle")
  BY DEF IInv, Alone
<1>2. \A k \in Job \ {j} : Spare(k) = {}
  BY <1>1 DEF Spare, At, In, Putting
<1> QED BY <1>2 DEF IInv, Alone

\* What listed receipts still need of a step of j.
LEMMA StaysOpen ==
  ASSUME IInv, NEW j \in Job, \A k \in Job \ {j} : job'[k] = job[k], faults \subseteq faults',
         ASSUME faults' \subseteq {"r2"}, NEW row \in receipts', row.profile \in Own'
         PROVE  \/ row.key \in files'
                \/ row.key \in job'[j].keys /\ job'[j].pc \in {"dropRow", "clearRows"}
                \/ /\ row \in receipts /\ row.profile \in Own /\ row.key \notin files
                   /\ ~(row.key \in job[j].keys /\ job[j].pc \in {"dropRow", "clearRows"})
  PROVE  Openable'
<1> SUFFICES ASSUME faults' \subseteq {"r2"}, NEW row \in receipts', row.profile \in Own'
             PROVE  \/ row.key \in files'
                    \/ \E k \in Job : row.key \in job'[k].keys /\ job'[k].pc \in {"dropRow", "clearRows"}
  BY DEF Openable, ReceiptsOf
<1> QED BY DEF IInv, Openable, ReceiptsOf
\* Rows that go leave no profile with more.
LEMMA FewerRows ==
  ASSUME TableFits, receipts' \subseteq receipts
  PROVE  IsFiniteSet(receipts)' /\ \A p \in ProfileId : Cardinality(ReceiptsOf({p})') <= Limit
<1>1. IsFiniteSet(receipts')
  BY FS_Subset DEF TableFits
<1>2. ASSUME NEW p \in ProfileId PROVE Cardinality(ReceiptsOf({p})') <= Limit
  <2>1. ReceiptsOf({p})' \subseteq ReceiptsOf({p}) /\ ReceiptsOf({p}) \subseteq receipts
    BY DEF ReceiptsOf
  <2>2. IsFiniteSet(ReceiptsOf({p}))
    BY <2>1, FS_Subset DEF TableFits
  <2>3. Cardinality(ReceiptsOf({p})') <= Cardinality(ReceiptsOf({p}))
    BY <2>1, <2>2, FS_Subset
  <2>4. Cardinality(ReceiptsOf({p})') \in Nat /\ Cardinality(ReceiptsOf({p})) \in Nat
    BY <2>1, <2>2, FS_Subset, FS_CardinalityType
  <2> QED BY <2>3, <2>4, StorageAssumption DEF TableFits
<1> QED BY <1>1, <1>2

Faults == {"refused", "r2", "unheard", "died"}

\* A step that changes no profile and adds no row.
LEMMA Lessens ==
  ASSUME IInv, job' \in [Job -> JobType], profile' = profile, account' = account,
         receipts' \subseteq receipts, files' \subseteq minted', minted \subseteq minted',
         minted' \subseteq KeyId, asked' \in 0..MaxAsked, faults' \subseteq Faults,
         overlapped' \in BOOLEAN
  PROVE  StorageTypes' /\ TableFits'
<1>1. StorageTypes'
  BY DEF IInv, StorageTypes, Own, Faults
<1>2. TableFits'
  BY FewerRows DEF IInv, TableFits, AllKeys
<1> QED BY <1>1, <1>2

\* A step that changes profiles otherwise than by giving the account one.
LEMMA Retypes ==
  ASSUME StorageTypes, job' \in [Job -> JobType], profile' \in [ProfileId -> ProfileRow],
         \A p \in ProfileId : profile'[p].name = profile[p].name, Own' \subseteq Own,
         account' \in BOOLEAN, receipts' \subseteq receipts,
         UNCHANGED <<files, minted, asked, overlapped>>, faults' \subseteq Faults
  PROVE  StorageTypes'
<1>1. \A p, q \in Own' : p # q => profile'[p].name # profile'[q].name
  BY DEF StorageTypes, Own
<1>2. receipts' \subseteq Receipt /\ \A r, q \in receipts' : r # q => r.key # q.key
  BY DEF StorageTypes
<1>3. files' \subseteq minted' /\ minted' \subseteq KeyId /\ asked' \in 0..MaxAsked /\ overlapped' \in BOOLEAN
  BY DEF StorageTypes
<1> QED BY <1>1, <1>2, <1>3 DEF StorageTypes, ProfileRow, Faults

LEMMA Hearing ==
  ASSUME StorageTypes, NEW outcome, Heard(outcome) \/ Files(outcome)
  PROVE  faults \subseteq faults' /\ faults' \subseteq Faults
BY DEF Heard, Files, StorageTypes, Faults

\* Nobody but a restore or an upload knows its files, ...
LEMMA Hidden ==
  ASSUME IInv, NEW k \in Job, In(k, Private), NEW row \in receipts, Settled(row.profile)
  PROVE  row.key \notin job[k].keys
<1>1. Fit(k) /\ row.profile \in ProfileId
  BY DEF IInv, StorageTypes, Receipt
<1> QED BY <1>1 DEF Fit, ProfilesFit, RowsFit, KeysFit, In, Private, Putting, Receipted, Staging,
                    Settled, AllKeys

\* ... so what another request deletes is not a restore's.
LEMMA Another ==
  ASSUME IInv, NEW j \in Job, NEW k \in Job, j # k, In(k, Staging), NEW row \in receipts,
         row.key \in Known(j)
  PROVE  row.profile \notin job[k].ps
<1>1. Fit(k) /\ Apart(k, j)
  BY DEF IInv
<1>2. CASE In(k, Receipted)
  BY <1>1, <1>2 DEF Fit, RowsFit, Apart, In, Private
<1>3. CASE ~In(k, Receipted)
  BY <1>1, <1>3 DEF Fit, RowsFit, In, Staging, ReceiptsOf
<1> QED BY <1>2, <1>3

\* A request that ends knows nothing.
LEMMA Ended ==
  ASSUME IInv, NEW j \in Job, \A k \in Job \ {j} : job'[k] = job[k], job'[j] = Idle
  PROVE  Fit(j)' /\ SeenTo(j)' /\ \A k \in Job \ {j} : Apart(j, k)' /\ Apart(k, j)'
<1>1. /\ job'[j].pc = "idle" /\ job'[j].ps = {} /\ job'[j].keys = {} /\ job'[j].old = {}
      /\ job'[j].oldKeys = {} /\ job'[j].ends = "clear"
  BY Ids
<1>2. ProfilesFit(j)'
  BY <1>1 DEF ProfilesFit, In, At, Staged, Settling, Staging, Uploading, Receipted
<1>3. RowsFit(j)'
  BY <1>1 DEF RowsFit, In, At, Uploading, Receipted
<1>4. KeysFit(j)'
  BY <1>1 DEF KeysFit, In, At, Private, Putting, Receipted, Known
<1>5. SeenTo(j)' /\ \A k \in Job \ {j} : Apart(j, k)' /\ Apart(k, j)'
  BY <1>1 DEF SeenTo, At, Apart, In, Known, Staged, Staging, Private, Putting, Receipted
<1> QED BY <1>2, <1>3, <1>4, <1>5 DEF Fit

\* A request that keeps to its profiles and learns of no other file.
LEMMA StaysApart ==
  ASSUME IInv, NEW j \in Job, \A k \in Job \ {j} : job'[k] = job[k],
         In(j, Staged)' => In(j, Staged) /\ job'[j].ps = job[j].ps,
         In(j, Private)' => In(j, Private) /\ job'[j].keys = job[j].keys,
         Known(j)' \subseteq Known(j)
  PROVE  \A k \in Job \ {j} : Apart(j, k)' /\ Apart(k, j)'
BY DEF IInv, Apart, In, Known
-----------------------------------------------------------------------------
(* Steps                                                                       *)

LEMMA DieStep == ASSUME IInv, NEW j \in Job, Die(j) PROVE IInv'
<1>1. /\ job' \in [Job -> JobType] /\ job'[j] = Idle /\ \A k \in Job \ {j} : job'[k] = job[k]
      /\ faults \subseteq faults' /\ "died" \in faults' /\ faults' \subseteq Faults
      /\ UNCHANGED <<stores, minted, asked, overlapped>>
  BY Ending DEF IInv, Die, Note, StorageTypes, Faults
<1>2. StorageTypes' /\ TableFits'
  BY <1>1, Lessens DEF IInv, StorageTypes, stores
<1>3. \A k \in Job \ {j} : Spares(k)
  BY <1>1 DEF Spares, Settled, stores
<1>4. Openable' /\ Alone'
  BY <1>1 DEF Openable, Alone, Quiet
<1> QED BY <1>1, <1>2, <1>3, <1>4, Ended, Holds

\* A request begins: what it is about is the account's.
LEMMA BeginStep ==
  ASSUME IInv, NEW j \in Job, NEW rec \in JobType, Begin(j, rec),
         rec.pc \in {"keys", "prev", "put", "dropFile", "stage"},
         rec.ps \subseteq Own, rec.keys \subseteq KeysOf(Own), rec.old = {}, rec.oldKeys = {},
         rec.pc = "stage" => rec.names # {} /\ rec.keys = {} /\ rec.ps = {}, rec.ends # "upload",
         rec.pc \in {"prev", "put"} =>
           \E p \in ProfileId : rec.ps = {p} /\ rec.tx \in {NoTx, p}
  PROVE  IInv'
<1>1. /\ job' \in [Job -> JobType] /\ job'[j] = rec /\ \A k \in Job \ {j} : job'[k] = job[k]
      /\ UNCHANGED <<stores, minted, faults>> /\ asked' \in 0..MaxAsked
      /\ overlapped' \in BOOLEAN /\ At(j, "idle")
  <2>1. StorageTypes /\ Put(j, rec)
    BY DEF IInv, Begin
  <2>2. asked' \in 0..MaxAsked
    BY <2>1, StorageAssumption DEF Begin, StorageTypes
  <2>3. overlapped' \in BOOLEAN
    BY <2>1 DEF Begin, StorageTypes
  <2> QED BY <2>1, <2>2, <2>3, Putting1 DEF Begin, stores
<1>2. StorageTypes' /\ TableFits'
  BY <1>1, Lessens DEF IInv, StorageTypes, stores, Faults
<1>3. \A k \in Job \ {j} : Spares(k)
  BY <1>1 DEF Spares, Settled, stores
<1>4. Fit(j)'
  <2>1. ProfilesFit(j)'
    BY <1>1 DEF ProfilesFit, In, At, Staged, Staging, Receipted, Settled, stores, Own
  <2>2. RowsFit(j)'
    BY <1>1 DEF RowsFit, In, At, Uploading, Receipted
  <2>3. Known(j)' \subseteq minted'
    BY <1>1 DEF Known, IInv, TableFits, AllKeys, KeysOf, ReceiptsOf, stores
  <2>4. KeysFit(j)'
    BY <1>1, <2>3 DEF KeysFit, In, At, Private, Putting, Receipted
  <2> QED BY <2>1, <2>2, <2>4 DEF Fit
<1>5. \A k \in Job \ {j} : Apart(j, k)' /\ Apart(k, j)'
  <2>1. \A k \in Job : In(k, Private) => job[k].keys \cap rec.keys = {}
    BY Hidden DEF KeysOf, ReceiptsOf, Own, Settled
  <2> QED BY <1>1, <2>1 DEF Apart, In, Known, Staged, Staging, Private, Putting, Receipted
<1>6. Openable'
  BY <1>1, StaysOpen DEF stores, Own, At
<1>7. Alone'
  <2> SUFFICES ASSUME Quiet' PROVE Alone'
    BY DEF Alone
  <2>1. Quiet /\ \A k \in Job \ {j} : At(k, "idle") /\ At(k, "idle")'
    BY <1>1 DEF Begin, Quiet, At
  <2>2. \A k \in Job : Spare(k) = {}
    BY <1>1, <2>1 DEF Spare, At, In, Putting
  <2>3. files' \ AllKeys' = {}
    BY <1>1, <2>1, <2>2 DEF IInv, Alone, stores, AllKeys
  <2>4. \A k \in Job : SeenTo(k)'
    BY <1>1, <2>1 DEF SeenTo, At
  <2> QED BY <2>1, <2>3, <2>4 DEF Alone
<1> QED BY <1>1, <1>2, <1>3, <1>4, <1>5, <1>6, <1>7, Holds

LEMMA AskStep == ASSUME IInv, NEW j \in Job, Ask(j) PROVE IInv'
<1>1. ASSUME NEW ends \in {"clear", "remove", "erase"}, ClearBegin(j, ends) PROVE IInv'
  <2>1. PICK ps \in SUBSET Own : Begin(j, [Idle EXCEPT !.pc = "keys", !.ps = ps, !.ends = ends])
    BY <1>1 DEF ClearBegin
  <2> DEFINE rec == [Idle EXCEPT !.pc = "keys", !.ps = ps, !.ends = ends]
  <2>2. /\ rec \in JobType /\ rec.pc = "keys" /\ rec.ps = ps /\ rec.keys = {} /\ rec.old = {}
        /\ rec.oldKeys = {} /\ rec.ends = ends
    BY Ids DEF JobType, Own
  <2> HIDE DEF rec
  <2> QED BY <2>1, <2>2, BeginStep DEF rec
<1>2. ASSUME NEW p \in Own, NEW tx \in {NoTx} \cup ProfileId, UploadBegin(j, p, tx) PROVE IInv'
  <2> DEFINE rec == [Idle EXCEPT !.pc = IF tx = NoTx THEN "put" ELSE "prev", !.ps = {p}, !.tx = tx]
  <2>1. Begin(j, rec) /\ tx \in {NoTx, p} /\ p \in ProfileId
    BY <1>2 DEF UploadBegin, Own
  <2>2. /\ rec \in JobType /\ rec.pc \in {"put", "prev"} /\ rec.ps = {p} /\ rec.keys = {}
        /\ rec.old = {} /\ rec.oldKeys = {} /\ rec.ends = "clear" /\ rec.tx = tx
    BY <2>1, Ids DEF JobType
  <2> HIDE DEF rec
  <2> QED BY <2>1, <2>2, BeginStep
<1>3. ASSUME NEW key \in KeyId, DeleteBegin(j, key) PROVE IInv'
  <2> DEFINE rec == [Idle EXCEPT !.pc = "dropFile", !.keys = {key}]
  <2>1. Begin(j, rec) /\ key \in KeysOf(Own)
    BY <1>3 DEF DeleteBegin
  <2>2. /\ rec \in JobType /\ rec.pc = "dropFile" /\ rec.ps = {} /\ rec.keys = {key}
        /\ rec.old = {} /\ rec.oldKeys = {} /\ rec.ends = "clear"
    BY Ids DEF JobType
  <2> HIDE DEF rec
  <2> QED BY <2>1, <2>2, BeginStep
<1>4. ASSUME NEW names \in SUBSET Names, RestoreBegin(j, names) PROVE IInv'
  <2> DEFINE rec == [Idle EXCEPT !.pc = "stage", !.names = names]
  <2>1. Begin(j, rec) /\ names # {}
    BY <1>4 DEF RestoreBegin
  <2>2. /\ rec \in JobType /\ rec.pc = "stage" /\ rec.ps = {} /\ rec.keys = {}
        /\ rec.old = {} /\ rec.oldKeys = {} /\ rec.ends = "clear" /\ rec.names = names
    BY Ids DEF JobType
  <2> HIDE DEF rec
  <2> QED BY <2>1, <2>2, BeginStep
<1> QED BY <1>1, <1>2, <1>3, <1>4 DEF Ask
\* A request ends, having deleted no file but ones it knows and no row names.
LEMMA EndStep ==
  ASSUME IInv, NEW j \in Job, End(j), ~At(j, "idle"), ~At(j, "dropRow"), ~At(j, "clearRows"),
         UNCHANGED <<account, profile, receipts, minted, asked, overlapped>>,
         faults \subseteq faults', faults' \subseteq Faults,
         files' \subseteq files, files \ files' \subseteq Known(j),
         faults' \subseteq {"r2"} => (files \ files') \cap AllKeys = {},
         Quiet' => files' \subseteq AllKeys
  PROVE  IInv'
<1>1. /\ job' \in [Job -> JobType] /\ job'[j] = Idle /\ \A k \in Job \ {j} : job'[k] = job[k]
      /\ StorageTypes
  BY Ending DEF IInv
<1>2. StorageTypes' /\ TableFits'
  BY <1>1, Lessens DEF StorageTypes
<1>3. \A k \in Job \ {j} : Spares(k)
  BY <1>1 DEF Spares, Settled, IInv, Apart
<1>4. Openable'
  <2>1. ASSUME faults' \subseteq {"r2"}, NEW row \in receipts', row.key \notin files'
        PROVE  row.key \notin files
    BY <2>1 DEF AllKeys
  <2>2. Own' = Own /\ job[j].pc \notin {"dropRow", "clearRows"}
    BY DEF Own, At
  <2> QED BY <1>1, <2>1, <2>2, StaysOpen
<1>5. Alone'
  BY <1>1, Ended, StaysAlone DEF AllKeys
<1> QED BY <1>1, <1>2, <1>3, <1>4, <1>5, Ended, Holds

\* A request goes on with what it has read: no store changes.
LEMMA ReadStep ==
  ASSUME IInv, NEW j \in Job, NEW rec \in JobType, Put(j, rec), ~At(j, "idle"),
         ~At(j, "dropRow"), ~At(j, "clearRows"),
         UNCHANGED <<stores, minted, asked, faults, overlapped>>,
         Fit(j)', \A k \in Job \ {j} : Apart(j, k)' /\ Apart(k, j)',
         Quiet => SeenTo(j)' /\ Spare(j) = {}
  PROVE  IInv'
<1>0. StorageTypes
  BY DEF IInv
<1>1. /\ job' \in [Job -> JobType] /\ \A k \in Job \ {j} : job'[k] = job[k]
  BY <1>0, Putting1
<1>2. StorageTypes' /\ TableFits'
  <2>1. /\ files \subseteq minted /\ minted \subseteq KeyId /\ asked \in 0..MaxAsked
        /\ faults \subseteq Faults /\ overlapped \in BOOLEAN
    BY <1>0 DEF StorageTypes, Faults
  <2>2. UNCHANGED <<account, profile, receipts, files, minted, asked, faults, overlapped>>
    BY DEF stores
  <2> QED BY <1>1, <2>1, <2>2, Lessens
<1>3. \A k \in Job \ {j} : Spares(k)
  BY <1>1 DEF Spares, Settled, stores
<1>4. Openable'
  BY <1>1, StaysOpen DEF stores, Own, At
<1>5. Alone'
  BY <1>1, WasAlone, StaysAlone DEF Quiet, stores, AllKeys
<1> QED BY <1>1, <1>2, <1>3, <1>4, <1>5, Holds

\* Clearing: the keys are those of the profiles' rows, and stay so.
LEMMA ReadKeysStep == ASSUME IInv, NEW j \in Job, ReadKeys(j) PROVE IInv'
<1> DEFINE rec == [job[j] EXCEPT !.pc = "clearFiles", !.keys = KeysOf(job[j].ps)]
<1>1. /\ job[j] \in JobType /\ KeysOf(job[j].ps) \subseteq KeyId /\ StorageTypes
      /\ KeysOf(job[j].ps) \subseteq AllKeys
  BY DEF IInv, StorageTypes, KeysOf, ReceiptsOf, Receipt, AllKeys
<1>2. /\ rec \in JobType /\ rec.pc = "clearFiles" /\ rec.keys = KeysOf(job[j].ps)
      /\ rec.ps = job[j].ps /\ rec.old = job[j].old /\ rec.oldKeys = job[j].oldKeys
      /\ rec.ends = job[j].ends /\ rec.tx = job[j].tx
  BY <1>1 DEF JobType
<1>3. /\ Put(j, rec) /\ UNCHANGED <<stores, minted, asked, faults, overlapped>>
      /\ At(j, "keys")
  BY DEF ReadKeys
<1> HIDE DEF rec
<1>4. /\ job' \in [Job -> JobType] /\ job'[j] = rec /\ \A k \in Job \ {j} : job'[k] = job[k]
  BY <1>1, <1>2, <1>3, Putting1
<1>7. Fit(j)'
  <2>0. Fit(j)
    BY DEF IInv
  <2>1. ProfilesFit(j)'
    BY <2>0, <1>2, <1>3, <1>4 DEF Fit, ProfilesFit, In, At, Staged, Settled, Staging, Receipted, Settling, stores
  <2>2. RowsFit(j)'
    BY <2>0, <1>2, <1>3, <1>4 DEF Fit, RowsFit, In, At, Uploading, Receipted
  <2>3. Known(j)' \subseteq minted'
    BY <2>0, <1>1, <1>2, <1>3, <1>4 DEF Fit, KeysFit, Known, IInv, TableFits
  <2>4. \A row \in receipts : row.key \in KeysOf(job[j].ps) => row.profile \in job[j].ps
    BY DEF IInv, StorageTypes, KeysOf, ReceiptsOf
  <2>5. KeysFit(j)'
    BY <1>2, <1>3, <1>4, <2>3, <2>4 DEF KeysFit, In, At, Private, Putting, Receipted, stores
  <2> QED BY <2>1, <2>2, <2>5 DEF Fit
<1>8. \A k \in Job \ {j} : Apart(j, k)' /\ Apart(k, j)'
  <2>1. \A p \in job[j].ps : Settled(p)
    BY <1>3 DEF IInv, Fit, ProfilesFit, In, At, Staged, Settling
  <2>2. \A k \in Job : In(k, Private) => job[k].keys \cap KeysOf(job[j].ps) = {}
    BY <2>1, Hidden DEF KeysOf, ReceiptsOf
  <2> QED BY <1>2, <1>3, <1>4, <2>2 DEF IInv, Apart, In, Known, Staged, Staging, Private, Putting, Receipted
<1>9. SeenTo(j)' /\ Spare(j) = {}
  BY <1>2, <1>3, <1>4 DEF SeenTo, Spare, In, At, Putting, KeysOf, ReceiptsOf, stores
<1> QED BY <1>2, <1>3, <1>7, <1>8, <1>9, ReadStep DEF At

LEMMA ClearFilesStep == ASSUME IInv, NEW j \in Job, ClearFiles(j) PROVE IInv'
<1>1. /\ UNCHANGED <<account, profile, receipts, minted, asked, overlapped>>
      /\ At(j, "clearFiles") /\ StorageTypes /\ Fit(j)
  BY DEF ClearFiles, IInv
<1>2. PICK outcome \in {"done", "r2"} :
        /\ Files(outcome)
        /\ outcome = "done" => files' = files \ job[j].keys /\ Go(j, "clearRows")
        /\ outcome = "r2" => files' = files /\ End(j)
  BY DEF ClearFiles
<1>3. faults \subseteq faults' /\ faults' \subseteq Faults
  BY <1>1, <1>2, Hearing
<1>4. CASE outcome = "done"
  <2>1. /\ job' \in [Job -> JobType] /\ \A k \in Job \ {j} : job'[k] = job[k]
        /\ job'[j].pc = "clearRows" /\ job'[j].ps = job[j].ps /\ job'[j].keys = job[j].keys
        /\ job'[j].tx = job[j].tx /\ job'[j].old = job[j].old
        /\ job'[j].oldKeys = job[j].oldKeys /\ job'[j].ends = job[j].ends
    BY <1>1, <1>2, <1>4, Going
  <2>2. files' = files \ job[j].keys
    BY <1>2, <1>4
  <2>3. StorageTypes' /\ TableFits'
    BY <1>1, <1>3, <2>1, <2>2, Lessens DEF StorageTypes
  <2>4. \A k \in Job \ {j} : Spares(k)
    BY <1>1, <1>3, <2>1, <2>2 DEF Spares, Settled, IInv, Apart, Known
  <2>5. Fit(j)'
    <3>1. ProfilesFit(j)'
      BY <1>1, <2>1 DEF Fit, ProfilesFit, In, At, Staged, Settled, Staging, Receipted, Settling
    <3>2. RowsFit(j)'
      BY <1>1, <2>1 DEF Fit, RowsFit, In, At, Uploading, Receipted
    <3>3. KeysFit(j)'
      BY <1>1, <2>1 DEF Fit, KeysFit, In, At, Private, Putting, Receipted, Known
    <3> QED BY <3>1, <3>2, <3>3 DEF Fit
  <2>6. \A k \in Job \ {j} : Apart(j, k)' /\ Apart(k, j)'
    BY <2>1, StaysApart DEF In, Known, Staged, Staging, Private, Putting, Receipted
  <2>7. Openable'
    BY <1>1, <1>3, <2>1, <2>2, StaysOpen DEF Own, At
  <2>8. Alone'
    <3>1. Quiet => files \ AllKeys = {} /\ KeysOf(job[j].ps) \subseteq job[j].keys
      BY <1>1, WasAlone DEF Spare, SeenTo, At, In, Putting
    <3>2. Quiet => SeenTo(j)'
      BY <1>1, <2>1, <2>2, <3>1 DEF SeenTo, At, KeysOf, ReceiptsOf
    <3> QED BY <1>1, <1>3, <2>1, <2>2, <3>1, <3>2, StaysAlone DEF Quiet, At, AllKeys
  <2> QED BY <2>1, <2>3, <2>4, <2>5, <2>6, <2>7, <2>8, Holds
<1>5. CASE outcome = "r2"
  <2>1. End(j) /\ files' = files /\ ~Quiet'
    BY <1>2, <1>5 DEF Files, Quiet
  <2> QED BY <1>1, <1>3, <2>1, EndStep DEF At
<1> QED BY <1>4, <1>5

LEMMA ClearRowsStep == ASSUME IInv, NEW j \in Job, ClearRows(j) PROVE IInv'
<1>1. /\ UNCHANGED <<files, minted, asked, overlapped>> /\ At(j, "clearRows")
      /\ StorageTypes /\ Fit(j) /\ End(j) /\ TableFits
  BY DEF ClearRows, IInv
<1>2. PICK outcome \in {"done", "refused", "unheard"} :
        /\ Heard(outcome)
        /\ outcome = "refused" => UNCHANGED <<account, profile, receipts>>
        /\ outcome # "refused" => Cleared(j)
  BY DEF ClearRows
<1>3. faults \subseteq faults' /\ faults' \subseteq Faults
  BY <1>1, <1>2, Hearing
<1>4. job' \in [Job -> JobType] /\ job'[j] = Idle /\ \A k \in Job \ {j} : job'[k] = job[k]
  BY <1>1, Ending
<1>5. CASE outcome = "refused"
  <2>1. UNCHANGED <<account, profile, receipts>> /\ ~(faults' \subseteq {"r2"})
    BY <1>2, <1>5 DEF Heard
  <2>2. StorageTypes' /\ TableFits'
    BY <1>1, <1>3, <1>4, <2>1, Lessens DEF StorageTypes
  <2>3. \A k \in Job \ {j} : Spares(k)
    BY <1>1, <1>3, <1>4, <2>1 DEF Spares, Settled
  <2>4. Openable'
    BY <2>1 DEF Openable
  <2>5. Alone'
    <3>1. Quiet => files \ AllKeys = {}
      BY <1>1, WasAlone DEF Spare, At, In, Putting
    <3> QED BY <1>1, <1>3, <1>4, <2>1, <3>1, Ended, StaysAlone DEF Quiet, At, AllKeys
  <2> QED BY <1>4, <2>2, <2>3, <2>4, <2>5, Ended, Holds
<1>6. CASE outcome # "refused"
  <2> DEFINE ps == job[j].ps
  <2>1. /\ receipts' = receipts \ ReceiptsOf(ps) /\ account' \in BOOLEAN
        /\ profile' \in [ProfileId -> [state : {"free", "staged", "own", "gone"}, name : Names,
                                       data : BOOLEAN]]
        /\ \A p \in ProfileId :
             /\ profile'[p].name = profile[p].name
             /\ profile'[p].state # profile[p].state =>
                  profile[p].state = "own" /\ profile'[p].state = "gone"
             /\ profile'[p].data = (profile[p].data /\ p \notin ps)
    <3>1. Cleared(j)
      BY <1>2, <1>6
    <3>2. account' \in BOOLEAN
      BY <1>1, <3>1 DEF Cleared, StorageTypes
    <3>3. PICK gone \in SUBSET Own :
            profile' = [p \in ProfileId |->
                         [profile[p] EXCEPT !.data = @ /\ p \notin ps,
                                            !.state = IF p \in gone THEN "gone" ELSE @]]
      BY <3>1 DEF Cleared
    <3>4. ASSUME NEW p \in ProfileId
          PROVE  /\ profile[p] \in [state : {"free", "staged", "own", "gone"}, name : Names,
                                    data : BOOLEAN]
                 /\ p \in gone => profile[p].state = "own"
      BY <1>1 DEF StorageTypes, Own
    <3>5. ASSUME NEW p \in ProfileId
          PROVE  /\ profile'[p] \in [state : {"free", "staged", "own", "gone"}, name : Names,
                                     data : BOOLEAN]
                 /\ profile'[p].name = profile[p].name
                 /\ profile'[p].state # profile[p].state =>
                      profile[p].state = "own" /\ profile'[p].state = "gone"
                 /\ profile'[p].data = (profile[p].data /\ p \notin ps)
      <4>1. profile'[p] = [profile[p] EXCEPT !.data = @ /\ p \notin ps,
                                             !.state = IF p \in gone THEN "gone" ELSE @]
        BY <3>3
      <4> HIDE DEF ps
      <4> QED BY <3>4, <4>1
    <3>6. profile' \in [ProfileId -> [state : {"free", "staged", "own", "gone"}, name : Names,
                                      data : BOOLEAN]]
      BY <3>3, <3>5
    <3>7. receipts' = receipts \ ReceiptsOf(ps)
      BY <3>1 DEF Cleared
    <3> QED BY <3>2, <3>5, <3>6, <3>7
  <2>2. \A p \in ps : Settled(p)
    BY <1>1 DEF Fit, ProfilesFit, In, At, Staged, Settling
  <2>3. StorageTypes'
    BY <1>1, <1>3, <1>4, <2>1 DEF StorageTypes, Own, Faults
  <2>4. TableFits'
    <3>1. receipts \subseteq Receipt
      BY <1>1 DEF StorageTypes
    <3> QED BY <1>1, <2>1, <3>1, FewerRows DEF TableFits, AllKeys, Receipt
  <2>5. \A k \in Job \ {j} : Spares(k)
    <3> SUFFICES ASSUME NEW k \in Job \ {j} PROVE Spares(k)
      OBVIOUS
    <3>1. Fit(k) /\ job[k].ps \subseteq ProfileId
      BY <1>1 DEF IInv, StorageTypes, JobType
    <3>2. \A p \in ProfileId : Settled(p) => Settled(p)'
      BY <2>1 DEF Settled
    <3>3. In(k, Staging) => \A p \in job[k].ps : ~Settled(p)
      BY <3>1 DEF Fit, ProfilesFit, Settled
    <3>4. \A p \in job[k].ps : profile[p].state = "staged" =>
            profile'[p].state = "staged" /\ (profile[p].data => profile'[p].data)
      BY <2>1, <2>2, <3>1 DEF Settled
    <3> QED BY <1>1, <1>3, <1>4, <2>1, <2>2, <3>2, <3>3, <3>4 DEF Spares, ReceiptsOf
  <2>6. Openable'
    <3>1. \A row \in receipts' : row.key \notin job[j].keys
      BY <1>1, <2>1 DEF Fit, KeysFit, In, At, ReceiptsOf
    <3>2. receipts' \subseteq receipts /\ Own' \subseteq Own
      BY <2>1 DEF Own
    <3> QED BY <1>1, <1>3, <1>4, <3>1, <3>2, StaysOpen
  <2>7. Alone'
    <3>1. Quiet => files \ AllKeys = {} /\ KeysOf(ps) \cap files = {}
      BY <1>1, WasAlone DEF Spare, SeenTo, At, In, Putting
    <3>2. Quiet => files' \ AllKeys' = {}
      BY <1>1, <2>1, <3>1 DEF AllKeys, KeysOf, ReceiptsOf
    <3> QED BY <1>1, <1>3, <1>4, <3>2, Ended, StaysAlone DEF Quiet, At
  <2> QED BY <1>4, <2>3, <2>4, <2>5, <2>6, <2>7, Ended, Holds
<1> QED BY <1>5, <1>6
\* What ends an upload that put its file for nothing, and a restore that failed.
LEMMA UndoStep == ASSUME IInv, NEW j \in Job, Undo(j) PROVE IInv'
<1>1. /\ UNCHANGED <<account, profile, receipts, minted, asked, overlapped>> /\ End(j)
      /\ At(j, "undo") /\ StorageTypes /\ Fit(j)
  BY DEF Undo, IInv
<1>2. PICK outcome \in {"done", "r2"} :
        Files(outcome) /\ files' = IF outcome = "done" THEN files \ job[j].keys ELSE files
  BY DEF Undo
<1>3. faults \subseteq faults' /\ faults' \subseteq Faults
  BY <1>1, <1>2, Hearing
<1>4. faults' \subseteq {"r2"} => job[j].keys \cap AllKeys = {}
  BY <1>1, <1>3 DEF Fit, KeysFit
<1>5. Quiet' => files' \subseteq AllKeys
  <2>1. Quiet' => outcome = "done" /\ Quiet
    BY <1>1, <1>2, <1>3 DEF Quiet, Files
  <2>2. Quiet => files \ AllKeys \subseteq job[j].keys
    BY <1>1, WasAlone DEF Spare, At, In, Putting
  <2> QED BY <1>2, <2>1, <2>2
<1> QED BY <1>1, <1>2, <1>3, <1>4, <1>5, EndStep DEF At, Known

LEMMA DropOldStep == ASSUME IInv, NEW j \in Job, DropOld(j) PROVE IInv'
<1>1. /\ UNCHANGED <<account, profile, receipts, minted, asked, overlapped>> /\ End(j)
      /\ At(j, "dropOld") /\ StorageTypes /\ Fit(j)
  BY DEF DropOld, IInv
<1>2. PICK outcome \in {"done", "r2"} :
        Files(outcome) /\ files' = IF outcome = "done" THEN files \ job[j].oldKeys ELSE files
  BY DEF DropOld
<1>3. faults \subseteq faults' /\ faults' \subseteq Faults
  BY <1>1, <1>2, Hearing
<1>4. job[j].oldKeys \cap AllKeys = {}
  BY <1>1 DEF Fit, KeysFit
<1>5. Quiet' => files' \subseteq AllKeys
  <2>1. Quiet' => outcome = "done" /\ Quiet
    BY <1>1, <1>2, <1>3 DEF Quiet, Files
  <2>2. Quiet => files \ AllKeys \subseteq job[j].oldKeys
    BY <1>1, WasAlone DEF Spare, At, In, Putting
  <2> QED BY <1>2, <2>1, <2>2
<1> QED BY <1>1, <1>2, <1>3, <1>4, <1>5, EndStep DEF At, Known

LEMMA UploadPrevStep == ASSUME IInv, NEW j \in Job, UploadPrev(j) PROVE IInv'
<1> DEFINE prev == {row \in ReceiptsOf(job[j].ps) : row.tx = job[j].tx}
           keys == {row.key : row \in prev}
           rec == [job[j] EXCEPT !.pc = IF prev = {} THEN "put" ELSE "dropFile",
                                 !.keys = keys, !.ends = "upload"]
<1>1. /\ job[j] \in JobType /\ keys \subseteq KeysOf(job[j].ps) /\ StorageTypes
      /\ KeysOf(job[j].ps) \subseteq AllKeys /\ AllKeys \subseteq KeyId
      /\ At(j, "prev") /\ Put(j, rec) /\ UNCHANGED <<stores, minted, asked, faults, overlapped>>
      /\ Fit(j)
  BY DEF IInv, StorageTypes, KeysOf, ReceiptsOf, Receipt, AllKeys, UploadPrev
<1>2. /\ rec \in JobType /\ rec.pc \in {"put", "dropFile"} /\ rec.keys = keys
      /\ rec.ps = job[j].ps /\ rec.old = job[j].old /\ rec.oldKeys = job[j].oldKeys
      /\ rec.tx = job[j].tx
  BY <1>1 DEF JobType
<1> HIDE DEF rec, keys
<1>3. /\ job'[j] = rec /\ \A k \in Job \ {j} : job'[k] = job[k]
  BY <1>1, <1>2, Putting1
<1>4. Fit(j)'
  <2>1. ProfilesFit(j)'
    BY <1>1, <1>2, <1>3 DEF Fit, ProfilesFit, In, At, Staged, Settled, Staging, Receipted, Settling,
                            Uploading, stores
  <2>2. RowsFit(j)'
    BY <1>1, <1>2, <1>3 DEF Fit, RowsFit, In, At, Uploading, Receipted
  <2>3. Known(j)' \subseteq minted'
    BY <1>1, <1>2, <1>3 DEF Fit, KeysFit, Known, IInv, TableFits
  <2>4. KeysFit(j)'
    BY <1>2, <1>3, <2>3 DEF KeysFit, In, At, Private, Putting, Receipted
  <2> QED BY <2>1, <2>2, <2>4 DEF Fit
<1>5. \A k \in Job \ {j} : Apart(j, k)' /\ Apart(k, j)'
  <2>1. \A p \in job[j].ps : Settled(p)
    BY <1>1 DEF Fit, ProfilesFit, In, At, Staged, Settling, Uploading
  <2>2. \A k \in Job : In(k, Private) => job[k].keys \cap keys = {}
    BY <1>1, <2>1, Hidden DEF KeysOf, ReceiptsOf
  <2> QED BY <1>2, <1>3, <2>2 DEF IInv, Apart, In, Known, Staged, Staging, Private, Putting, Receipted
<1>6. SeenTo(j)' /\ Spare(j) = {}
  BY <1>1, <1>2, <1>3 DEF SeenTo, Spare, In, At, Putting
<1> QED BY <1>1, <1>2, <1>4, <1>5, <1>6, ReadStep DEF At

\* What a restore replaces is the account's, with its files.
LEMMA ReadOldStep == ASSUME IInv, NEW j \in Job, ReadOld(j) PROVE IInv'
<1> DEFINE rec == [job[j] EXCEPT !.pc = "readOldKeys", !.old = Own]
<1>1. /\ job[j] \in JobType /\ StorageTypes /\ Own \subseteq ProfileId
      /\ At(j, "readOld") /\ Put(j, rec) /\ UNCHANGED <<stores, minted, asked, faults, overlapped>>
      /\ Fit(j)
  BY DEF IInv, StorageTypes, ReadOld, Own
<1>2. /\ rec \in JobType /\ rec.pc = "readOldKeys" /\ rec.keys = job[j].keys
      /\ rec.ps = job[j].ps /\ rec.old = Own /\ rec.oldKeys = job[j].oldKeys
      /\ rec.tx = job[j].tx /\ rec.names = job[j].names /\ rec.ends = job[j].ends
  BY <1>1 DEF JobType
<1> HIDE DEF rec
<1>3. /\ job'[j] = rec /\ \A k \in Job \ {j} : job'[k] = job[k]
  BY <1>1, <1>2, Putting1
<1>4. Fit(j)'
  <2>1. ProfilesFit(j)'
    BY <1>1, <1>2, <1>3 DEF Fit, ProfilesFit, In, At, Staged, Settled, Staging, Receipted, Settling,
                            Uploading, stores, Own
  <2>2. RowsFit(j)'
    BY <1>1, <1>2, <1>3 DEF Fit, RowsFit, In, At, Uploading, Receipted, stores
  <2>3. KeysFit(j)'
    BY <1>1, <1>2, <1>3 DEF Fit, KeysFit, Known, In, At, Private, Putting, Receipted, stores
  <2> QED BY <2>1, <2>2, <2>3 DEF Fit
<1>5. \A k \in Job \ {j} : Apart(j, k)' /\ Apart(k, j)'
  BY <1>1, <1>2, <1>3, StaysApart DEF In, At, Known, Staged, Staging, Private, Putting, Receipted
<1>6. SeenTo(j)' /\ Spare(j) = {}
  BY <1>1, <1>2, <1>3 DEF SeenTo, Spare, In, At, Putting
<1> QED BY <1>1, <1>2, <1>4, <1>5, <1>6, ReadStep DEF At

LEMMA ReadOldKeysStep == ASSUME IInv, NEW j \in Job, ReadOldKeys(j) PROVE IInv'
<1> DEFINE oldKeys == KeysOf(job[j].old)
           rec == [job[j] EXCEPT !.pc = "cutover", !.oldKeys = oldKeys]
<1>1. /\ job[j] \in JobType /\ StorageTypes /\ oldKeys \subseteq AllKeys /\ AllKeys \subseteq KeyId
      /\ At(j, "readOldKeys") /\ Put(j, rec) /\ Fit(j)
      /\ UNCHANGED <<stores, minted, asked, faults, overlapped>>
  BY DEF IInv, StorageTypes, ReadOldKeys, KeysOf, ReceiptsOf, Receipt, AllKeys
<1>2. /\ rec \in JobType /\ rec.pc = "cutover" /\ rec.keys = job[j].keys
      /\ rec.ps = job[j].ps /\ rec.old = job[j].old /\ rec.oldKeys = oldKeys
      /\ rec.tx = job[j].tx /\ rec.names = job[j].names /\ rec.ends = job[j].ends
  BY <1>1 DEF JobType
<1>3. \A row \in receipts : row.key \in oldKeys => row.profile \in job[j].old
  BY <1>1 DEF StorageTypes, KeysOf, ReceiptsOf
<1> HIDE DEF rec, oldKeys
<1>5. /\ job'[j] = rec /\ \A k \in Job \ {j} : job'[k] = job[k]
  BY <1>1, <1>2, Putting1
<1>6. Fit(j)'
  <2>1. ProfilesFit(j)'
    BY <1>1, <1>2, <1>5 DEF Fit, ProfilesFit, In, At, Staged, Settled, Staging, Receipted, Settling,
                            Uploading, stores, Own
  <2>2. RowsFit(j)'
    BY <1>1, <1>2, <1>5 DEF Fit, RowsFit, In, At, Uploading, Receipted, stores
  <2>3. Known(j)' \subseteq minted'
    BY <1>1, <1>2, <1>5 DEF Fit, KeysFit, Known, IInv, TableFits
  <2>4. KeysFit(j)'
    BY <1>1, <1>2, <1>3, <1>5, <2>3 DEF Fit, KeysFit, In, At, Private, Putting, Receipted, stores
  <2> QED BY <2>1, <2>2, <2>4 DEF Fit
<1>7. \A k \in Job \ {j} : Apart(j, k)' /\ Apart(k, j)'
  <2>1. \A p \in job[j].old : Settled(p)
    BY <1>1 DEF Fit, ProfilesFit
  <2>2. \A k \in Job : In(k, Private) => job[k].keys \cap oldKeys = {}
    BY <2>1, Hidden DEF KeysOf, ReceiptsOf, oldKeys
  <2> QED BY <1>1, <1>2, <1>5, <2>2 DEF IInv, Apart, In, At, Known, Staged, Staging, Private,
                                        Putting, Receipted
<1>8. SeenTo(j)' /\ Spare(j) = {}
  BY <1>1, <1>2, <1>5 DEF SeenTo, Spare, In, At, Putting, oldKeys, KeysOf, ReceiptsOf, stores
<1> QED BY <1>1, <1>2, <1>6, <1>7, <1>8, ReadStep DEF At
\* A receipt that is deleted or replaced: its file, then its row.
LEMMA DropFileStep == ASSUME IInv, NEW j \in Job, DropFile(j) PROVE IInv'
<1>1. /\ UNCHANGED <<account, profile, receipts, minted, asked, overlapped>>
      /\ At(j, "dropFile") /\ StorageTypes /\ Fit(j) /\ Go(j, "dropRow")
  BY DEF DropFile, IInv
<1>2. PICK outcome \in {"done", "r2"} :
        Files(outcome) /\ files' = IF outcome = "done" THEN files \ job[j].keys ELSE files
  BY DEF DropFile
<1>3. faults \subseteq faults' /\ faults' \subseteq Faults
  BY <1>1, <1>2, Hearing
<1>4. /\ job' \in [Job -> JobType] /\ \A k \in Job \ {j} : job'[k] = job[k]
      /\ job'[j].pc = "dropRow" /\ job'[j].ps = job[j].ps /\ job'[j].keys = job[j].keys
      /\ job'[j].tx = job[j].tx /\ job'[j].old = job[j].old
      /\ job'[j].oldKeys = job[j].oldKeys /\ job'[j].ends = job[j].ends
  BY <1>1, Going
<1>5. StorageTypes' /\ TableFits'
  BY <1>1, <1>2, <1>3, <1>4, Lessens DEF StorageTypes
<1>6. \A k \in Job \ {j} : Spares(k)
  BY <1>1, <1>2, <1>3, <1>4 DEF Spares, Settled, IInv, Apart, Known
<1>7. Fit(j)'
  <2>1. ProfilesFit(j)'
    BY <1>1, <1>4 DEF Fit, ProfilesFit, In, At, Staged, Settled, Staging, Receipted, Settling
  <2>2. RowsFit(j)'
    BY <1>1, <1>4 DEF Fit, RowsFit, In, At, Uploading, Receipted
  <2>3. KeysFit(j)'
    BY <1>1, <1>4 DEF Fit, KeysFit, In, At, Private, Putting, Receipted, Known
  <2> QED BY <2>1, <2>2, <2>3 DEF Fit
<1>8. \A k \in Job \ {j} : Apart(j, k)' /\ Apart(k, j)'
  BY <1>4, StaysApart DEF In, Known, Staged, Staging, Private, Putting, Receipted
<1>9. Openable'
  BY <1>1, <1>2, <1>3, <1>4, StaysOpen DEF Own, At
<1>10. Alone'
  <2>1. Quiet => files \ AllKeys = {}
    BY <1>1, WasAlone DEF Spare, At, In, Putting
  <2>2. Quiet' => outcome = "done" /\ Quiet
    BY <1>1, <1>2, <1>3 DEF Quiet, Files
  <2>3. Quiet' => SeenTo(j)'
    BY <1>2, <1>4, <2>2 DEF SeenTo, At
  <2> QED BY <1>1, <1>2, <1>3, <1>4, <2>1, <2>2, <2>3, StaysAlone DEF At, AllKeys
<1> QED BY <1>4, <1>5, <1>6, <1>7, <1>8, <1>9, <1>10, Holds

LEMMA DropRowStep == ASSUME IInv, NEW j \in Job, DropRow(j) PROVE IInv'
<1> DEFINE rec == [job[j] EXCEPT !.pc = "put", !.keys = {}]
<1>1. /\ UNCHANGED <<account, profile, files, minted, asked, overlapped>>
      /\ At(j, "dropRow") /\ StorageTypes /\ Fit(j)
  BY DEF DropRow, IInv
<1>2. PICK outcome \in {"done", "refused", "unheard"} :
        /\ Heard(outcome)
        /\ receipts' = IF outcome = "refused" THEN receipts
                       ELSE {row \in receipts : row.key \notin job[j].keys}
        /\ \/ outcome = "done" /\ job[j].ends = "upload" /\ Put(j, rec)
           \/ End(j)
  BY DEF DropRow
<1>3. faults \subseteq faults' /\ faults' \subseteq Faults
  BY <1>1, <1>2, Hearing
<1>4. /\ job[j] \in JobType /\ rec \in JobType /\ rec.pc = "put" /\ rec.keys = {}
      /\ rec.ps = job[j].ps /\ rec.old = job[j].old /\ rec.oldKeys = job[j].oldKeys
      /\ rec.tx = job[j].tx
  BY <1>1 DEF StorageTypes, JobType
<1> HIDE DEF rec
<1>5. /\ job' \in [Job -> JobType] /\ \A k \in Job \ {j} : job'[k] = job[k]
      /\ job'[j] = Idle \/ (job'[j] = rec /\ job[j].ends = "upload")
  <2>1. CASE End(j)
    BY <1>1, <2>1, Ending
  <2>2. CASE job[j].ends = "upload" /\ Put(j, rec)
    BY <1>1, <1>4, <2>2, Putting1
  <2> QED BY <1>2, <2>1, <2>2
<1>6. StorageTypes' /\ TableFits'
  BY <1>1, <1>2, <1>3, <1>5, Lessens DEF StorageTypes
<1>7. \A k \in Job \ {j} : Spares(k)
  <2> SUFFICES ASSUME NEW k \in Job \ {j} PROVE Spares(k)
    OBVIOUS
  <2>1. In(k, Staging) => \A row \in receipts \ receipts' : row.profile \notin job[k].ps
    BY <1>2, Another DEF Known
  <2> QED BY <1>1, <1>2, <1>3, <1>5, <2>1 DEF Spares, Settled
<1>8. CASE job'[j] = Idle
  <2>1. Openable'
    BY <1>1, <1>2, <1>3, <1>5, StaysOpen DEF Own, Heard
  <2>2. Alone'
    <3>1. Quiet => files \ AllKeys = {} /\ job[j].keys \cap files = {}
      BY <1>1, WasAlone DEF Spare, SeenTo, At, In, Putting
    <3>2. Quiet => files' \ AllKeys' = {}
      BY <1>1, <1>2, <3>1 DEF AllKeys
    <3> QED BY <1>1, <1>3, <1>5, <1>8, <3>2, Ended, StaysAlone DEF Quiet, At
  <2> QED BY <1>5, <1>6, <1>7, <1>8, <2>1, <2>2, Ended, Holds
<1>9. CASE job'[j] = rec /\ job[j].ends = "upload"
  <2>1. Fit(j)'
    <3>1. ProfilesFit(j)'
      BY <1>1, <1>4, <1>9 DEF Fit, ProfilesFit, In, At, Staged, Settled, Staging, Receipted, Settling, Uploading
    <3>2. RowsFit(j)'
      BY <1>1, <1>4, <1>9 DEF Fit, RowsFit, In, At, Uploading, Receipted
    <3>3. KeysFit(j)'
      BY <1>1, <1>4, <1>9 DEF Fit, KeysFit, In, At, Private, Putting, Receipted, Known
    <3> QED BY <3>1, <3>2, <3>3 DEF Fit
  <2>2. \A k \in Job \ {j} : Apart(j, k)' /\ Apart(k, j)'
    BY <1>4, <1>5, <1>9, StaysApart DEF In, Known, Staged, Staging, Private, Putting, Receipted
  <2>3. Openable'
    BY <1>1, <1>2, <1>3, <1>5, StaysOpen DEF Own, Heard
  <2>4. Alone'
    <3>1. Quiet => files \ AllKeys = {} /\ job[j].keys \cap files = {}
      BY <1>1, WasAlone DEF Spare, SeenTo, At, In, Putting
    <3>2. Quiet => files' \ AllKeys' = {}
      BY <1>1, <1>2, <3>1 DEF AllKeys
    <3>3. SeenTo(j)'
      BY <1>4, <1>9 DEF SeenTo, At
    <3> QED BY <1>1, <1>3, <1>5, <3>2, <3>3, StaysAlone DEF Quiet, At
  <2> QED BY <1>5, <1>6, <1>7, <2>1, <2>2, <2>3, <2>4, Holds
<1> QED BY <1>5, <1>8, <1>9

\* A new file: nobody knows it, and no row names it.
LEMMA NewFile ==
  ASSUME IInv, NEW j \in Job, NEW key \in KeyId \ minted, NEW outcome \in {"done", "r2", "unheard"},
         NEW rec \in JobType, Put(j, rec), In(j, {"put", "putFiles"}),
         minted' = minted \cup {key},
         faults' = IF outcome = "done" THEN faults ELSE faults \cup {outcome},
         files' = IF outcome = "r2" THEN files ELSE files \cup {key},
         UNCHANGED <<account, profile, receipts, asked, overlapped>>,
         Fit(j)', rec.oldKeys \subseteq job[j].oldKeys,
         rec.pc \in Staged => In(j, Staged) /\ rec.ps = job[j].ps,
         IF outcome = "done"
         THEN \/ At(j, "put") /\ rec.pc = "insert" /\ rec.keys = {key}
              \/ At(j, "putFiles") /\ rec.pc = "putFiles" /\ rec.keys = job[j].keys \cup {key}
         ELSE rec.pc \in {"idle", "cleanup"} /\ rec.keys \subseteq job[j].keys
  PROVE  IInv'
<1>1. /\ job' \in [Job -> JobType] /\ job'[j] = rec /\ \A k \in Job \ {j} : job'[k] = job[k]
      /\ StorageTypes
  BY Putting1 DEF IInv
<1>2. faults \subseteq faults' /\ faults' \subseteq Faults
  BY <1>1 DEF StorageTypes, Faults
<1>3. StorageTypes' /\ TableFits'
  BY <1>1, <1>2, Lessens DEF StorageTypes
<1>4. \A k \in Job \ {j} : Spares(k)
  BY <1>1, <1>2 DEF Spares, Settled
<1>5. \A k \in Job \ {j} : Apart(j, k)' /\ Apart(k, j)'
  <2> SUFFICES ASSUME NEW k \in Job \ {j} PROVE Apart(j, k)' /\ Apart(k, j)'
    OBVIOUS
  <2>1. Apart(j, k) /\ Apart(k, j) /\ Known(k) \subseteq minted
    BY DEF IInv, Fit, KeysFit
  <2>2. key \notin Known(k)
    BY <2>1
  <2>3. job'[j].pc \in Private => rec.keys \subseteq {key} \/ (In(j, Private) /\ rec.keys \subseteq job[j].keys \cup {key})
    BY <1>1 DEF In, At, Private, Putting, Receipted
  <2>4. rec.keys \subseteq job[j].keys \cup {key}
    OBVIOUS
  <2>5. Apart(j, k)'
    BY <1>1, <2>1, <2>2, <2>3 DEF Apart, In, Known
  <2>6. Apart(k, j)'
    BY <1>1, <2>1, <2>2, <2>4 DEF Apart, In, Known
  <2> QED BY <2>5, <2>6
<1>6. Openable'
  BY <1>1, <1>2, StaysOpen DEF Own, In
<1>7. Alone'
  <2>0. ~At(j, "idle")
    BY DEF In, At
  <2> SUFFICES ASSUME Quiet' PROVE SeenTo(j)' /\ \A f \in files' \ AllKeys' : f \in Spare(j)'
    BY <1>1, <1>2, <2>0, StaysAlone
  <2>1. outcome = "done" /\ Quiet
    BY DEF Quiet
  <2>2. \A f \in files \ AllKeys : f \in job[j].keys /\ At(j, "putFiles")
    BY <2>0, <2>1, WasAlone DEF Spare, At, In, Putting
  <2>3. Spare(j)' = rec.keys /\ SeenTo(j)'
    BY <1>1, <2>1 DEF Spare, SeenTo, At, In, Putting
  <2>4. \A f \in files \ AllKeys : f \in rec.keys
    BY <2>1, <2>2 DEF At
  <2> QED BY <2>1, <2>3, <2>4 DEF AllKeys
<1> QED BY <1>1, <1>3, <1>4, <1>5, <1>6, <1>7, Holds

LEMMA PutFileStep == ASSUME IInv, NEW j \in Job, NEW key \in KeyId, PutFile(j, key) PROVE IInv'
<1> DEFINE put == [job[j] EXCEPT !.pc = "insert", !.keys = {key}]
<1>1. /\ At(j, "put") /\ key \in KeyId \ minted /\ minted' = minted \cup {key}
      /\ UNCHANGED <<account, profile, receipts, asked, overlapped>> /\ StorageTypes /\ Fit(j)
  BY DEF PutFile, IInv
<1>2. PICK outcome \in {"done", "r2", "unheard"} :
        /\ faults' = IF outcome = "done" THEN faults ELSE faults \cup {outcome}
        /\ files' = IF outcome = "r2" THEN files ELSE files \cup {key}
        /\ IF outcome = "done" THEN Put(j, put) ELSE End(j)
  BY DEF PutFile
<1>3. /\ job[j] \in JobType /\ put \in JobType /\ put.pc = "insert" /\ put.keys = {key}
      /\ put.ps = job[j].ps /\ put.old = job[j].old /\ put.oldKeys = job[j].oldKeys
      /\ put.tx = job[j].tx
  BY <1>1 DEF StorageTypes, JobType
<1> HIDE DEF put
<1>4. CASE outcome = "done"
  <2>1. Put(j, put) /\ job'[j] = put /\ \A k \in Job \ {j} : job'[k] = job[k]
    BY <1>1, <1>2, <1>3, <1>4, Putting1
  <2>2. ProfilesFit(j)'
    BY <1>1, <1>3, <2>1 DEF Fit, ProfilesFit, In, At, Staged, Settled, Staging, Receipted, Settling, Uploading
  <2>3. RowsFit(j)'
    BY <1>1, <1>3, <2>1 DEF Fit, RowsFit, In, At, Uploading, Receipted
  <2>4. KeysFit(j)'
    <3>1. key \in files' /\ key \notin AllKeys'
      BY <1>1, <1>2, <1>4 DEF IInv, TableFits, AllKeys
    <3>2. Known(j)' \subseteq minted'
      BY <1>1, <1>3, <2>1 DEF Known, Fit, KeysFit
    <3> QED BY <1>3, <2>1, <3>1, <3>2 DEF KeysFit, In, At, Private, Putting, Receipted
  <2>5. Fit(j)'
    BY <2>2, <2>3, <2>4 DEF Fit
  <2> QED BY <1>1, <1>2, <1>3, <1>4, <2>1, <2>5, NewFile DEF In, At, Staged, Staging, Receipted
<1>5. CASE outcome # "done"
  <2>1. Put(j, Idle) /\ Idle \in JobType /\ Fit(j)'
    BY <1>1, <1>2, <1>5, Ids, Ending, Ended DEF End
  <2> QED BY <1>1, <1>2, <1>5, <2>1, Ids, NewFile DEF In, At, Staged, Staging, Receipted
<1> QED BY <1>4, <1>5

\* The files of a restore; what it has put is cleaned up when it fails.
LEMMA PutFilesStep == ASSUME IInv, NEW j \in Job, NEW key \in KeyId, PutFiles(j, key) PROVE IInv'
<1> DEFINE put == [job[j] EXCEPT !.keys = @ \cup {key}]
           fail == [job[j] EXCEPT !.pc = "cleanup"]
<1>1. /\ At(j, "putFiles") /\ key \in KeyId \ minted /\ minted' = minted \cup {key}
      /\ UNCHANGED <<account, profile, receipts, asked, overlapped>> /\ StorageTypes /\ Fit(j)
  BY DEF PutFiles, IInv
<1>2. PICK outcome \in {"done", "r2", "unheard"} :
        /\ faults' = IF outcome = "done" THEN faults ELSE faults \cup {outcome}
        /\ files' = IF outcome = "r2" THEN files ELSE files \cup {key}
        /\ IF outcome = "done" THEN Put(j, put) ELSE Put(j, fail)
  BY DEF PutFiles, Fail, Go
<1>3. job[j] \in JobType
  BY <1>1 DEF StorageTypes
<1>4. /\ put \in JobType /\ put.pc = job[j].pc /\ put.keys = job[j].keys \cup {key}
      /\ put.ps = job[j].ps /\ put.old = job[j].old /\ put.oldKeys = job[j].oldKeys
      /\ put.tx = job[j].tx /\ put.names = job[j].names /\ put.ends = job[j].ends
  BY <1>3 DEF JobType
<1>5. /\ fail \in JobType /\ fail.pc = "cleanup" /\ fail.keys = job[j].keys
      /\ fail.ps = job[j].ps /\ fail.old = job[j].old /\ fail.oldKeys = job[j].oldKeys
      /\ fail.tx = job[j].tx /\ fail.names = job[j].names /\ fail.ends = job[j].ends
  BY <1>3 DEF JobType
<1> HIDE DEF put, fail
<1>6. CASE outcome = "done"
  <2>1. Put(j, put) /\ job'[j] = put /\ \A k \in Job \ {j} : job'[k] = job[k]
    BY <1>1, <1>2, <1>4, <1>6, Putting1
  <2>2. ProfilesFit(j)'
    BY <1>1, <1>4, <2>1 DEF Fit, ProfilesFit, In, At, Staged, Settled, Staging, Receipted, Settling, Uploading
  <2>3. RowsFit(j)'
    <3>1. /\ job[j].keys \subseteq KeyId /\ job[j].ps \subseteq ProfileId
          /\ IsFiniteSet(job[j].keys) /\ IsFiniteSet(job[j].ps)
      BY <1>3, FewIds DEF JobType
    <3>2. Cardinality(job[j].ps) \in Nat
      BY <3>1, FS_CardinalityType
    <3>3. Cardinality(put.keys) <= Cardinality(put.ps)
      BY <1>4, <3>1, <3>2, OneMore DEF PutFiles, Puts
    <3> QED BY <1>1, <1>4, <2>1, <3>3 DEF Fit, RowsFit, In, At, Uploading, Receipted, ReceiptsOf
  <2>4. KeysFit(j)'
    <3>1. key \in files' /\ key \notin AllKeys' /\ files \subseteq files' /\ AllKeys' = AllKeys
      BY <1>1, <1>2, <1>6 DEF IInv, TableFits, AllKeys
    <3>2. Known(j)' \subseteq minted'
      BY <1>1, <1>4, <2>1 DEF Known, Fit, KeysFit
    <3> QED BY <1>1, <1>4, <2>1, <3>1, <3>2 DEF Fit, KeysFit, In, At, Private, Putting, Receipted
  <2>5. Fit(j)'
    BY <2>2, <2>3, <2>4 DEF Fit
  <2> QED BY <1>1, <1>2, <1>4, <1>6, <2>1, <2>5, NewFile DEF In, At, Staged, Staging, Receipted
<1>7. CASE outcome # "done"
  <2>1. Put(j, fail) /\ job'[j] = fail /\ \A k \in Job \ {j} : job'[k] = job[k]
    BY <1>1, <1>2, <1>5, <1>7, Putting1
  <2>2. ProfilesFit(j)'
    BY <1>1, <1>5, <2>1 DEF Fit, ProfilesFit, In, At, Staged, Settled, Staging, Receipted, Settling, Uploading
  <2>3. RowsFit(j)'
    BY <1>1, <1>5, <2>1 DEF Fit, RowsFit, In, At, Uploading, Receipted, ReceiptsOf
  <2>4. KeysFit(j)'
    BY <1>1, <1>5, <2>1 DEF Fit, KeysFit, In, At, Private, Putting, Receipted, Known, AllKeys
  <2>5. Fit(j)'
    BY <2>2, <2>3, <2>4 DEF Fit
  <2> QED BY <1>1, <1>2, <1>5, <1>7, <2>1, <2>5, NewFile DEF In, At, Staged, Staging, Receipted
<1> QED BY <1>6, <1>7
\* Rows that come are a request's own, one at most for a profile that had room.
LEMMA MoreRows ==
  ASSUME IInv, NEW j \in Job, In(j, Putting), NEW new \in SUBSET Receipt, IsFiniteSet(new),
         receipts' = receipts \cup new,
         \A row \in new : /\ row.key \in job[j].keys
                          /\ Cardinality(ReceiptsOf({row.profile})) < Limit
                          /\ \/ Settled(row.profile)
                             \/ row.profile \in job[j].ps /\ In(j, Staging),
         \A row, q \in new : row # q => row.key # q.key /\ row.profile # q.profile,
         UNCHANGED <<account, profile, files, minted, asked, overlapped>>,
         job' \in [Job -> JobType], \A k \in Job \ {j} : job'[k] = job[k],
         faults \subseteq faults', faults' \subseteq Faults
  PROVE  StorageTypes' /\ TableFits' /\ \A k \in Job \ {j} : Spares(k)
<1>1. StorageTypes /\ TableFits /\ Fit(j) /\ receipts \subseteq Receipt
  BY DEF IInv, StorageTypes
<1>2. \A row \in new : row.key \notin AllKeys /\ row.key \in minted
  BY <1>1 DEF Fit, KeysFit, Known
<1>3. StorageTypes'
  <2>1. \A r, q \in receipts' : r # q => r.key # q.key
    BY <1>1, <1>2 DEF StorageTypes, AllKeys
  <2> QED BY <1>1, <2>1 DEF StorageTypes, Own, Faults
<1>4. TableFits'
  <2>1. IsFiniteSet(receipts)'
    BY <1>1, FS_Union DEF TableFits
  <2>2. ASSUME NEW p \in ProfileId PROVE Cardinality(ReceiptsOf({p})') <= Limit
    <3>0. IsFiniteSet(ReceiptsOf({p})) /\ Cardinality(ReceiptsOf({p})) <= Limit
      <4>1. ReceiptsOf({p}) \subseteq receipts
        BY DEF ReceiptsOf
      <4> QED BY <4>1, <1>1, FS_Subset DEF TableFits
    <3>1. CASE \E row \in new : row.profile = p
      <4>1. PICK row \in new : row.profile = p
        BY <3>1
      <4>2. ReceiptsOf({p})' = ReceiptsOf({p}) \cup {row}
        BY <4>1 DEF ReceiptsOf
      <4>3. Cardinality(ReceiptsOf({p})) < Limit
        BY <4>1
      <4> QED BY <3>0, <4>2, <4>3, OneMore, StorageAssumption
    <3>2. CASE \A row \in new : row.profile # p
      <4>1. ReceiptsOf({p})' = ReceiptsOf({p})
        BY <3>2 DEF ReceiptsOf
      <4> QED BY <3>0, <4>1
    <3> QED BY <3>1, <3>2
  <2>3. \A row \in receipts' : profile[row.profile].state # "free"
    <3>1. \A row \in new : profile[row.profile].state # "free"
      BY <1>1 DEF Fit, ProfilesFit, Settled
    <3> QED BY <1>1, <3>1 DEF TableFits
  <2>4. AllKeys' \subseteq minted
    BY <1>1, <1>2 DEF TableFits, AllKeys
  <2> QED BY <2>1, <2>2, <2>3, <2>4 DEF TableFits
<1>5. ASSUME NEW k \in Job \ {j} PROVE Spares(k)
  <2>1. Apart(j, k) /\ Fit(k)
    BY DEF IInv
  <2>2. \A row \in new : row.key \notin Known(k)
    BY <2>1 DEF Apart, In, Private
  <2>3. In(k, Staging) => \A row \in new : row.profile \notin job[k].ps
    BY <2>1 DEF Apart, In, Staged, Fit, ProfilesFit, Settled
  <2> QED BY <2>2, <2>3 DEF Spares, Settled
<1> QED BY <1>3, <1>4, <1>5

LEMMA InsertStep == ASSUME IInv, NEW j \in Job, Insert(j) PROVE IInv'
<1>1. /\ UNCHANGED <<account, profile, files, minted, asked, overlapped>>
      /\ At(j, "insert") /\ StorageTypes /\ Fit(j) /\ TableFits
  BY DEF Insert, IInv
<1>2. PICK p \in ProfileId, key \in KeyId :
        job[j].ps = {p} /\ job[j].keys = {key} /\ job[j].tx \in {NoTx, p} /\ Settled(p)
  BY <1>1 DEF Fit, RowsFit, ProfilesFit, In, At, Staged, Uploading, Settling
<1> DEFINE row == [key |-> key, profile |-> p, tx |-> job[j].tx]
           taken == \/ Cardinality(ReceiptsOf(job[j].ps)) >= Limit
                    \/ job[j].tx # NoTx /\ \E r \in receipts : r.tx = job[j].tx
                    \/ job[j].tx # NoTx /\ ~profile[job[j].tx].data
<1>3. PICK outcome \in {"done", "refused", "unheard"} :
        IF taken
        THEN outcome = "done" /\ Go(j, "undo") /\ UNCHANGED <<receipts, faults>>
        ELSE /\ Heard(outcome)
             /\ receipts' = IF outcome = "refused" THEN receipts
                            ELSE receipts \cup [key : job[j].keys, profile : job[j].ps,
                                                tx : {job[j].tx}]
             /\ IF outcome = "done" THEN End(j) ELSE Go(j, "undo")
  BY DEF Insert
<1>4. faults \subseteq faults' /\ faults' \subseteq Faults
  BY <1>1, <1>3, Hearing DEF StorageTypes, Faults
<1>5. \/ receipts' = receipts
      \/ receipts' = receipts \cup {row} /\ ~taken /\ outcome # "refused"
  <2>1. [key : {key}, profile : {p}, tx : {job[j].tx}] = {row}
    BY OneRow
  <2>2. [key : job[j].keys, profile : job[j].ps, tx : {job[j].tx}] = {row}
    BY <1>2, <2>1, Zenon
  <2> HIDE DEF row, taken
  <2> QED BY <1>3, <2>2
<1>6. row \in Receipt /\ row.key = key /\ row.profile = p
  BY <1>2 DEF Receipt
<1> HIDE DEF row
<1>7. /\ job' \in [Job -> JobType] /\ \A k \in Job \ {j} : job'[k] = job[k]
  BY <1>1, <1>3, Going, Ending
<1>8. StorageTypes' /\ TableFits' /\ \A k \in Job \ {j} : Spares(k)
  <2>1. CASE receipts' = receipts
    <3>1. StorageTypes' /\ TableFits'
      BY <1>1, <1>4, <1>7, <2>1, Lessens DEF StorageTypes
    <3> QED BY <1>1, <1>4, <1>7, <2>1, <3>1 DEF Spares, Settled
  <2>2. CASE receipts' = receipts \cup {row} /\ ~taken
    <3>1. IsFiniteSet({row}) /\ In(j, Putting)
      BY <1>1, FS_Singleton DEF In, At, Putting
    <3>2. Cardinality(ReceiptsOf({p})) < Limit
      <4>1. ReceiptsOf({p}) \subseteq receipts
        BY DEF ReceiptsOf
      <4>2. Cardinality(ReceiptsOf({p})) \in Nat
        BY <4>1, <1>1, FS_Subset, FS_CardinalityType DEF TableFits
      <4> QED BY <1>2, <2>2, <4>2, StorageAssumption
    <3> HIDE DEF taken
    <3> QED BY <1>1, <1>2, <1>4, <1>6, <1>7, <2>2, <3>1, <3>2, MoreRows
  <2> QED BY <1>5, <2>1, <2>2
<1>9. CASE Go(j, "undo")
  <2>1. /\ job'[j].pc = "undo" /\ job'[j].ps = job[j].ps /\ job'[j].keys = job[j].keys
        /\ job'[j].tx = job[j].tx /\ job'[j].old = job[j].old
        /\ job'[j].oldKeys = job[j].oldKeys /\ job'[j].ends = job[j].ends
    BY <1>1, <1>9, Going
  <2>2. \/ receipts' = receipts
        \/ receipts' = receipts \cup {row} /\ "unheard" \in faults'
    <3>1. outcome # "done" \/ taken
      <4>1. End(j) => job'[j].pc = "idle"
        BY <1>1, Ending, Ids
      <4> HIDE DEF taken
      <4> QED BY <1>3, <2>1, <4>1
    <3> HIDE DEF taken
    <3> QED BY <1>3, <1>5, <3>1 DEF Heard
  <2>3. Fit(j)'
    <3>1. ProfilesFit(j)'
      BY <1>1, <2>1 DEF Fit, ProfilesFit, In, At, Staged, Settled, Staging, Receipted, Settling, Uploading
    <3>2. RowsFit(j)'
      BY <1>1, <2>1 DEF Fit, RowsFit, In, At, Uploading, Receipted
    <3>3. KeysFit(j)'
      BY <1>1, <2>1, <2>2 DEF Fit, KeysFit, In, At, Private, Putting, Receipted, Known, AllKeys
    <3> QED BY <3>1, <3>2, <3>3 DEF Fit
  <2>4. \A k \in Job \ {j} : Apart(j, k)' /\ Apart(k, j)'
    BY <1>7, <2>1, StaysApart DEF In, Known, Staged, Staging, Private, Putting, Receipted
  <2>5. Openable'
    BY <1>1, <1>4, <1>7, <2>2, StaysOpen DEF Own, At
  <2>6. Alone'
    <3>1. Quiet => \A f \in files \ AllKeys : f \in job[j].keys
      BY <1>1, WasAlone DEF Spare, At, In, Putting
    <3>2. Quiet' => Quiet /\ receipts' = receipts
      BY <1>1, <1>4, <2>2 DEF Quiet
    <3>3. SeenTo(j)' /\ Spare(j)' = job[j].keys
      BY <2>1 DEF SeenTo, Spare, In, At, Putting
    <3> QED BY <1>1, <1>4, <1>7, <3>1, <3>2, <3>3, StaysAlone DEF At, AllKeys
  <2> QED BY <1>7, <1>8, <2>3, <2>4, <2>5, <2>6, Holds
<1>10. CASE End(j) /\ ~taken /\ outcome = "done"
  <2>1. job'[j] = Idle /\ faults' = faults /\ receipts' = receipts \cup {row}
    <3>0. [key : {key}, profile : {p}, tx : {job[j].tx}] = {row}
      BY OneRow DEF row
    <3>1. [key : job[j].keys, profile : job[j].ps, tx : {job[j].tx}] = {row}
      BY <1>2, <3>0, Zenon
    <3> HIDE DEF taken
    <3> QED BY <1>1, <1>3, <1>10, <3>1, Ending DEF Heard
  <2>2. key \in files
    BY <1>1, <1>2 DEF Fit, KeysFit, In, At, Private, Putting
  <2>3. Openable'
    BY <1>1, <1>4, <1>6, <1>7, <2>1, <2>2, StaysOpen DEF Own, At
  <2>4. Alone'
    <3>1. Quiet => \A f \in files \ AllKeys : f = key
      BY <1>1, <1>2, WasAlone DEF Spare, At, In, Putting
    <3>2. Quiet' => files' \ AllKeys' = {}
      BY <1>1, <1>6, <2>1, <3>1 DEF AllKeys, Quiet
    <3> QED BY <1>1, <1>4, <1>7, <2>1, <3>2, Ended, StaysAlone DEF At
  <2> QED BY <1>7, <1>8, <2>1, <2>3, <2>4, Ended, Holds
<1> HIDE DEF taken
<1> QED BY <1>3, <1>9, <1>10
LEMMA PutRowsStep == ASSUME IInv, NEW j \in Job, PutRows(j) PROVE IInv'
<1> DEFINE ps == job[j].ps
           keys == job[j].keys
<1>1. /\ UNCHANGED <<account, profile, files, minted, asked, overlapped>>
      /\ At(j, "putFiles") /\ ~Puts(j) /\ StorageTypes /\ Fit(j) /\ job[j] \in JobType
  BY DEF PutRows, IInv, StorageTypes
<1>2. PICK outcome \in {"done", "refused", "unheard"}, key \in [ps -> keys] :
        /\ Heard(outcome) /\ Ordered(key)
        /\ receipts' = IF outcome = "refused" THEN receipts
                       ELSE receipts \cup {[key |-> key[p], profile |-> p, tx |-> p] : p \in ps}
        /\ IF outcome = "done" THEN Go(j, "readOld") ELSE Go(j, "cleanup")
  BY DEF PutRows, Fail
<1> DEFINE new == {[key |-> key[p], profile |-> p, tx |-> p] : p \in ps}
<1>3. faults \subseteq faults' /\ faults' \subseteq Faults
  BY <1>1, <1>2, Hearing
<1>4. /\ job' \in [Job -> JobType] /\ \A k \in Job \ {j} : job'[k] = job[k]
      /\ job'[j].pc = (IF outcome = "done" THEN "readOld" ELSE "cleanup")
      /\ job'[j].ps = job[j].ps /\ job'[j].keys = job[j].keys
      /\ job'[j].tx = job[j].tx /\ job'[j].names = job[j].names /\ job'[j].old = job[j].old
      /\ job'[j].oldKeys = job[j].oldKeys /\ job'[j].ends = job[j].ends
  BY <1>1, <1>2, Going
<1>5. /\ ps \subseteq ProfileId /\ keys \subseteq KeyId /\ IsFiniteSet(ps) /\ IsFiniteSet(keys)
      /\ ReceiptsOf(ps) = {} /\ keys \cap AllKeys = {} /\ keys \subseteq files
      /\ \A p \in ps : profile[p].state = "staged" /\ profile[p].data
      /\ Cardinality(keys) <= Cardinality(ps)
  BY <1>1, FewIds DEF JobType, Fit, ProfilesFit, RowsFit, KeysFit, In, At, Private, Putting, Staging
<1>6. \A p, q \in ps : key[p] = key[q] => p = q
  BY <1>2, <1>5 DEF Ordered, ProfileId, KeyId
<1>7. \A f \in keys : \E p \in ps : key[p] = f
  <2>1. key \in Injection(ps, keys)
    BY <1>6 DEF Injection, IsInjective
  <2>2. Cardinality(ps) <= Cardinality(keys) /\ (Cardinality(ps) = Cardinality(keys) <=> key \in Surjection(ps, keys))
    BY <1>5, <2>1, FS_Injection
  <2>3. Cardinality(ps) \in Nat /\ Cardinality(keys) \in Nat
    BY <1>5, FS_CardinalityType
  <2>4. key \in Surjection(ps, keys)
    BY <1>5, <2>2, <2>3
  <2> QED BY <2>4 DEF Surjection
<1>8. /\ new \in SUBSET Receipt /\ IsFiniteSet(new)
      /\ \A row \in new : row.key \in keys /\ row.profile \in ps /\ row.key = key[row.profile]
      /\ \A row, q \in new : row # q => row.key # q.key /\ row.profile # q.profile
      /\ \A p \in ps : \E row \in new : row.profile = p /\ row.key = key[p]
  <2>1. new \in SUBSET Receipt
    BY <1>5 DEF Receipt
  <2>2. IsFiniteSet(new)
    <3> DEFINE rowOf == [p \in ps |-> [key |-> key[p], profile |-> p, tx |-> p]]
    <3>1. rowOf \in Surjection(ps, new)
      BY DEF Surjection
    <3> QED BY <1>5, <3>1, FS_Surjection
  <2>3. \A row \in new : row.key \in keys /\ row.profile \in ps /\ row.key = key[row.profile]
    OBVIOUS
  <2>4. \A row, q \in new : row # q => row.key # q.key /\ row.profile # q.profile
    <3>1. \A row \in new : row = [key |-> key[row.profile], profile |-> row.profile, tx |-> row.profile]
      OBVIOUS
    <3> HIDE DEF new
    <3>2. \A row, q \in new : row.profile = q.profile => row = q
      BY <3>1, Zenon
    <3>3. \A row, q \in new : row.key = q.key => row.profile = q.profile
      BY <1>6, <2>3
    <3> QED BY <3>2, <3>3
  <2>5. ASSUME NEW p \in ps PROVE \E row \in new : row.profile = p /\ row.key = key[p]
    <3>1. [key |-> key[p], profile |-> p, tx |-> p] \in new
      OBVIOUS
    <3> HIDE DEF new
    <3> QED BY <3>1
  <2> QED BY <2>1, <2>2, <2>3, <2>4, <2>5
<1>9. receipts' = IF outcome = "refused" THEN receipts ELSE receipts \cup new
  BY <1>2
<1> HIDE DEF new, ps, keys
<1>10. StorageTypes' /\ TableFits' /\ \A k \in Job \ {j} : Spares(k)
  <2>1. CASE outcome = "refused"
    <3>1. StorageTypes' /\ TableFits'
      BY <1>1, <1>3, <1>4, <1>9, <2>1, Lessens DEF StorageTypes
    <3> QED BY <1>1, <1>3, <1>4, <1>9, <2>1, <3>1 DEF Spares, Settled
  <2>2. CASE outcome # "refused"
    <3>1. \A row \in new : Cardinality(ReceiptsOf({row.profile})) < Limit
      <4> SUFFICES ASSUME NEW row \in new PROVE Cardinality(ReceiptsOf({row.profile})) < Limit
        OBVIOUS
      <4>1. ReceiptsOf({row.profile}) = {}
        BY <1>5, <1>8 DEF ReceiptsOf
      <4> QED BY <4>1, FS_EmptySet, StorageAssumption
    <3>2. In(j, Putting) /\ In(j, Staging)
      BY <1>1 DEF In, At, Putting, Staging
    <3>3. receipts' = receipts \cup new
      BY <1>9, <2>2
    <3> QED BY <1>1, <1>3, <1>4, <1>8, <3>1, <3>2, <3>3, MoreRows DEF keys, ps
  <2> QED BY <2>1, <2>2
<1>11. outcome = "done" =>
         /\ \A p \in ps : \E row \in receipts' : row.profile = p
         /\ \A row \in receipts' : row.key \in keys <=> row.profile \in ps
  BY <1>5, <1>8, <1>9 DEF AllKeys, ReceiptsOf
<1>12. \A row \in receipts' : row.key \in keys => row.profile \in ps
  BY <1>5, <1>8, <1>9 DEF AllKeys
<1>13. Fit(j)'
  <2>1. ProfilesFit(j)'
    BY <1>1, <1>4 DEF Fit, ProfilesFit, In, At, Staged, Settled, Staging, Receipted, Settling, Uploading
  <2>2. RowsFit(j)'
    BY <1>1, <1>4, <1>5, <1>11 DEF Fit, RowsFit, In, At, Uploading, Receipted, ps, keys
  <2>3. KeysFit(j)'
    <3>1. Known(j)' \subseteq minted'
      BY <1>1, <1>4 DEF Fit, KeysFit, Known
    <3> QED BY <1>1, <1>4, <1>5, <1>12, <3>1 DEF KeysFit, In, At, Private, Putting, Receipted, ps, keys
  <2> QED BY <2>1, <2>2, <2>3 DEF Fit
<1>14. \A k \in Job \ {j} : Apart(j, k)' /\ Apart(k, j)'
  BY <1>1, <1>4, StaysApart DEF In, At, Known, Staged, Staging, Private, Putting, Receipted
<1>15. Openable'
  <2>1. faults' \subseteq {"r2"} => outcome = "done"
    BY <1>2 DEF Heard
  <2>2. outcome = "done" => \A row \in receipts' : row.profile \in Own' => row \in receipts
    BY <1>1, <1>5, <1>8, <1>9 DEF Own
  <2>3. Own' = Own
    BY <1>1 DEF Own
  <2> QED BY <1>1, <1>3, <1>4, <2>1, <2>2, <2>3, StaysOpen DEF At
<1>16. Alone'
  <2>1. Quiet => \A f \in files \ AllKeys : f \in keys
    BY <1>1, WasAlone DEF Spare, At, In, Putting, keys
  <2>2. CASE outcome = "done"
    <3>1. keys \subseteq AllKeys'
      <4> SUFFICES ASSUME NEW f \in keys PROVE f \in AllKeys'
        OBVIOUS
      <4>1. PICK p \in ps : key[p] = f
        BY <1>7 DEF keys, ps
      <4>2. PICK row \in new : row.key = f
        BY <1>8, <4>1
      <4> QED BY <1>9, <2>2, <4>2 DEF AllKeys
    <3>2. AllKeys \subseteq AllKeys'
      BY <1>9 DEF AllKeys
    <3>3. SeenTo(j)'
      BY <1>4, <2>2 DEF SeenTo, At
    <3> QED BY <1>1, <1>3, <1>4, <2>1, <3>1, <3>2, <3>3, StaysAlone DEF Quiet, At
  <2>3. CASE outcome # "done"
    <3>1. Quiet' => Quiet /\ receipts' = receipts
      BY <1>1, <1>2, <1>3, <1>9, <2>3 DEF Quiet, Heard
    <3>2. Quiet' => SeenTo(j)'
      BY <1>4, <1>5, <3>1 DEF SeenTo, At, KeysOf, ReceiptsOf, ps
    <3>3. Spare(j)' = keys
      BY <1>4, <2>3 DEF Spare, In, Putting, keys
    <3> QED BY <1>1, <1>3, <1>4, <2>1, <3>1, <3>2, <3>3, StaysAlone DEF At, AllKeys
  <2> QED BY <2>2, <2>3
<1> QED BY <1>4, <1>10, <1>13, <1>14, <1>15, <1>16, Holds
\* A restore stages profiles nobody has, and fills them.
LEMMA StageStep == ASSUME IInv, NEW j \in Job, Stage(j) PROVE IInv'
<1>1. /\ UNCHANGED <<account, receipts, files, minted, asked, overlapped>>
      /\ At(j, "stage") /\ StorageTypes /\ Fit(j) /\ job[j] \in JobType /\ TableFits
  BY DEF Stage, IInv, StorageTypes
<1>2. PICK ps \in SUBSET Free, outcome \in {"done", "refused", "unheard"} :
        /\ Cardinality(ps) = Cardinality(job[j].names)
        /\ Heard(outcome)
        /\ profile' = IF outcome = "refused" THEN profile
                      ELSE [p \in ProfileId |->
                             IF p \in ps THEN [profile[p] EXCEPT !.state = "staged"]
                             ELSE profile[p]]
        /\ IF outcome = "done" THEN Put(j, [job[j] EXCEPT !.pc = "fill", !.ps = ps])
                               ELSE Go(j, "cleanup")
  BY DEF Stage, Fail
<1>3. faults \subseteq faults' /\ faults' \subseteq Faults
  BY <1>1, <1>2, Hearing
<1> DEFINE rec == [job[j] EXCEPT !.pc = "fill", !.ps = ps]
<1>4. /\ rec \in JobType /\ rec.pc = "fill" /\ rec.ps = ps /\ rec.keys = job[j].keys
      /\ rec.tx = job[j].tx /\ rec.names = job[j].names /\ rec.old = job[j].old
      /\ rec.oldKeys = job[j].oldKeys /\ rec.ends = job[j].ends
  BY <1>1 DEF JobType, Free
<1>5. outcome = "done" => Put(j, rec)
  BY <1>2
<1> HIDE DEF rec
<1>6. /\ job' \in [Job -> JobType] /\ \A k \in Job \ {j} : job'[k] = job[k]
      /\ job'[j].pc = (IF outcome = "done" THEN "fill" ELSE "cleanup")
      /\ job'[j].ps = (IF outcome = "done" THEN ps ELSE {}) /\ job'[j].keys = {}
      /\ job'[j].tx = job[j].tx /\ job'[j].names = job[j].names /\ job'[j].old = job[j].old
      /\ job'[j].oldKeys = job[j].oldKeys /\ job'[j].ends = job[j].ends
  <2>1. job[j].ps = {} /\ job[j].keys = {}
    BY <1>1 DEF Fit, RowsFit, In, At
  <2>2. CASE outcome = "done"
    BY <1>1, <1>4, <1>5, <2>1, <2>2, Putting1
  <2>3. CASE outcome # "done"
    BY <1>1, <1>2, <2>1, <2>3, Going
  <2> QED BY <2>2, <2>3
<1>7. /\ profile' \in [ProfileId -> ProfileRow]
      /\ \A p \in ProfileId :
           /\ profile'[p].name = profile[p].name /\ profile'[p].data = profile[p].data
           /\ profile'[p].state = (IF p \in ps /\ outcome # "refused" THEN "staged" ELSE profile[p].state)
           /\ p \in ps => profile[p].state = "free"
  <2>1. \A p \in ProfileId : profile[p] \in ProfileRow
    BY <1>1 DEF StorageTypes, ProfileRow
  <2>2. profile \in [ProfileId -> ProfileRow]
    BY <1>1 DEF StorageTypes, ProfileRow
  <2>3. CASE outcome = "refused"
    BY <1>2, <2>2, <2>3 DEF Free
  <2>4. CASE outcome # "refused"
    BY <1>2, <2>1, <2>4 DEF Free, ProfileRow
  <2> QED BY <2>3, <2>4
<1>8. Own' = Own
  BY <1>7 DEF Own
<1>9. StorageTypes'
  BY <1>1, <1>3, <1>6, <1>7, <1>8, Retypes DEF StorageTypes
<1>10. TableFits'
  <2>1. \A row \in receipts : row.profile \in ProfileId
    BY <1>1 DEF StorageTypes, Receipt
  <2> QED BY <1>1, <1>7, <2>1, FewerRows DEF TableFits, AllKeys
<1>11. \A k \in Job \ {j} : Spares(k)
  <2> SUFFICES ASSUME NEW k \in Job \ {j} PROVE Spares(k)
    OBVIOUS
  <2>1. job[k].ps \subseteq ProfileId
    BY <1>1 DEF StorageTypes, JobType
  <2> QED BY <1>1, <1>3, <1>6, <1>7, <2>1 DEF Spares, Settled
<1>12. Fit(j)'
  <2>0. /\ job'[j].ps \subseteq ProfileId /\ job'[j].old \subseteq ProfileId
        /\ \A p \in ProfileId : Settled(p) => Settled(p)'
    BY <1>6, <1>7 DEF Settled, JobType
  <2>1. outcome = "done" => ps # {}
    <3>1. job[j].names # {} /\ IsFiniteSet(job[j].names)
      BY <1>1, FS_Subset, StorageAssumption DEF Fit, ProfilesFit, At, JobType
    <3> QED BY <1>2, <3>1, FS_EmptySet
  <2>2. ProfilesFit(j)'
    BY <1>1, <1>2, <1>6, <1>7, <2>0, <2>1 DEF Fit, ProfilesFit, In, At, Staged, Staging, Receipted,
                                              Settling, Uploading
  <2>3. RowsFit(j)'
    <3>1. outcome = "done" => ReceiptsOf(ps)' = {}
      BY <1>1, <1>7 DEF TableFits, ReceiptsOf, Free
    <3> QED BY <1>1, <1>6, <3>1 DEF Fit, RowsFit, In, At, Uploading, Receipted
  <2>4. KeysFit(j)'
    BY <1>1, <1>6 DEF Fit, KeysFit, In, At, Private, Putting, Receipted, Known
  <2> QED BY <2>2, <2>3, <2>4 DEF Fit
<1>13. \A k \in Job \ {j} : Apart(j, k)' /\ Apart(k, j)'
  <2> SUFFICES ASSUME NEW k \in Job \ {j} PROVE Apart(j, k)' /\ Apart(k, j)'
    OBVIOUS
  <2>1. Fit(k) /\ Apart(k, j) /\ job[k].ps \subseteq ProfileId
    BY <1>1 DEF IInv, StorageTypes, JobType
  <2>2. In(k, Staged) => job[k].ps \cap job'[j].ps = {}
    BY <1>6, <1>7, <2>1 DEF Fit, ProfilesFit
  <2>3. ~(job'[j].pc \in Private) /\ Known(j)' \subseteq Known(j)
    BY <1>6 DEF Private, Putting, Receipted, Known
  <2> QED BY <1>6, <2>1, <2>2, <2>3 DEF Apart, In, Known
<1>14. Openable'
  BY <1>1, <1>3, <1>6, <1>8, StaysOpen DEF At
<1>15. Alone'
  <2>1. Quiet => files \ AllKeys = {}
    BY <1>1, WasAlone DEF Spare, At, In, Putting
  <2>2. SeenTo(j)'
    BY <1>6 DEF SeenTo, At, KeysOf, ReceiptsOf
  <2> QED BY <1>1, <1>3, <1>6, <2>1, <2>2, StaysAlone DEF Quiet, At, AllKeys
<1> QED BY <1>6, <1>9, <1>10, <1>11, <1>12, <1>13, <1>14, <1>15, Holds

LEMMA FillStep == ASSUME IInv, NEW j \in Job, Fill(j) PROVE IInv'
<1>1. /\ UNCHANGED <<account, receipts, files, minted, asked, overlapped>>
      /\ At(j, "fill") /\ StorageTypes /\ Fit(j) /\ job[j] \in JobType /\ TableFits
  BY DEF Fill, IInv, StorageTypes
<1>2. PICK outcome \in {"done", "refused", "unheard"}, some \in SUBSET job[j].ps :
        /\ Heard(outcome)
        /\ outcome = "done" => some = job[j].ps
        /\ profile' = [p \in ProfileId |-> [profile[p] EXCEPT !.data = @ \/ p \in some]]
        /\ IF outcome = "done" THEN Go(j, "putFiles") ELSE Go(j, "cleanup")
  BY DEF Fill, Fail
<1>3. faults \subseteq faults' /\ faults' \subseteq Faults
  BY <1>1, <1>2, Hearing
<1>4. /\ job' \in [Job -> JobType] /\ \A k \in Job \ {j} : job'[k] = job[k]
      /\ job'[j].pc = (IF outcome = "done" THEN "putFiles" ELSE "cleanup")
      /\ job'[j].ps = job[j].ps /\ job'[j].keys = job[j].keys
      /\ job'[j].tx = job[j].tx /\ job'[j].names = job[j].names /\ job'[j].old = job[j].old
      /\ job'[j].oldKeys = job[j].oldKeys /\ job'[j].ends = job[j].ends
  BY <1>1, <1>2, Going
<1>5. /\ profile' \in [ProfileId -> ProfileRow]
      /\ \A p \in ProfileId :
           /\ profile'[p].name = profile[p].name /\ profile'[p].state = profile[p].state
           /\ profile'[p].data = (profile[p].data \/ p \in some)
  <2>1. \A p \in ProfileId : profile[p] \in ProfileRow
    BY <1>1 DEF StorageTypes, ProfileRow
  <2>2. ASSUME NEW p \in ProfileId
        PROVE  /\ profile'[p] \in ProfileRow
               /\ profile'[p].name = profile[p].name /\ profile'[p].state = profile[p].state
               /\ profile'[p].data = (profile[p].data \/ p \in some)
    <3>1. profile'[p] = [profile[p] EXCEPT !.data = @ \/ p \in some]
      BY <1>2
    <3> QED BY <2>1, <3>1 DEF ProfileRow
  <2> QED BY <1>2, <2>2
<1>6. Own' = Own
  BY <1>5 DEF Own
<1>7. StorageTypes'
  BY <1>1, <1>3, <1>4, <1>5, <1>6, Retypes DEF StorageTypes
<1>8. TableFits'
  <2>1. \A row \in receipts : row.profile \in ProfileId
    BY <1>1 DEF StorageTypes, Receipt
  <2> QED BY <1>1, <1>5, <2>1, FewerRows DEF TableFits, AllKeys
<1>9. \A k \in Job \ {j} : Spares(k)
  <2> SUFFICES ASSUME NEW k \in Job \ {j} PROVE Spares(k)
    OBVIOUS
  <2>1. job[k].ps \subseteq ProfileId
    BY <1>1 DEF StorageTypes, JobType
  <2> QED BY <1>1, <1>3, <1>4, <1>5, <2>1 DEF Spares, Settled
<1>10. Fit(j)'
  <2>0. /\ job[j].ps \subseteq ProfileId /\ job[j].old \subseteq ProfileId
        /\ job[j].keys = {} /\ Cardinality({}) <= Cardinality(job[j].ps)
    <3>1. /\ job[j].ps \subseteq ProfileId /\ job[j].old \subseteq ProfileId /\ job[j].keys = {}
      BY <1>1 DEF JobType, Fit, RowsFit, In, At
    <3> QED BY <3>1, FewIds, FS_EmptySet
  <2>1. ProfilesFit(j)'
    BY <1>1, <1>4, <1>5, <2>0 DEF Fit, ProfilesFit, In, At, Staged, Settled, Staging, Receipted,
                                  Settling, Uploading
  <2>2. RowsFit(j)'
    <3>1. ReceiptsOf(job[j].ps) = {}
      BY <1>1 DEF Fit, RowsFit, In, At
    <3>2. outcome = "done" => \A p \in job[j].ps : profile'[p].data
      BY <1>2, <1>5, <2>0
    <3> QED BY <1>1, <1>4, <2>0, <3>1, <3>2 DEF Fit, RowsFit, In, At, Uploading, Receipted, ReceiptsOf
  <2>3. KeysFit(j)'
    BY <1>1, <1>4, <2>0 DEF Fit, KeysFit, In, At, Private, Putting, Receipted, Known
  <2> QED BY <2>1, <2>2, <2>3 DEF Fit
<1>11. \A k \in Job \ {j} : Apart(j, k)' /\ Apart(k, j)'
  <2> SUFFICES ASSUME NEW k \in Job \ {j} PROVE Apart(j, k)' /\ Apart(k, j)'
    OBVIOUS
  <2>1. Apart(k, j) /\ Apart(j, k) /\ job[j].keys = {} /\ In(j, Staged)
    BY <1>1 DEF IInv, Fit, RowsFit, In, At, Staged, Staging
  <2> QED BY <1>4, <2>1 DEF Apart, In, Known
<1>12. Openable'
  BY <1>1, <1>3, <1>4, <1>6, StaysOpen DEF At
<1>13. Alone'
  <2>1. Quiet => files \ AllKeys = {}
    BY <1>1, WasAlone DEF Spare, At, In, Putting
  <2>2. SeenTo(j)'
    BY <1>1, <1>4 DEF SeenTo, At, In, KeysOf, Fit, RowsFit, ReceiptsOf
  <2> QED BY <1>1, <1>3, <1>4, <2>1, <2>2, StaysAlone DEF Quiet, At, AllKeys
<1> QED BY <1>4, <1>7, <1>8, <1>9, <1>10, <1>11, <1>12, <1>13, Holds

\* The cutover that is not done changes nothing; ...
LEMMA NoCutover ==
  ASSUME IInv, NEW j \in Job, At(j, "cutover"), UNCHANGED <<stores, minted, asked, overlapped>>,
         faults \subseteq faults', faults' \subseteq Faults, Go(j, "cleanup")
  PROVE  IInv'
<1>1. /\ StorageTypes /\ Fit(j) /\ job[j] \in JobType /\ In(j, Receipted)
      /\ UNCHANGED <<account, profile, receipts, files>>
  BY DEF IInv, StorageTypes, stores, In, At, Receipted
<1>2. /\ job' \in [Job -> JobType] /\ \A k \in Job \ {j} : job'[k] = job[k]
      /\ job'[j].pc = "cleanup" /\ job'[j].ps = job[j].ps /\ job'[j].keys = job[j].keys
      /\ job'[j].tx = job[j].tx /\ job'[j].names = job[j].names /\ job'[j].old = job[j].old
      /\ job'[j].oldKeys = job[j].oldKeys /\ job'[j].ends = job[j].ends
  BY <1>1, Going
<1>3. StorageTypes' /\ TableFits'
  BY <1>1, <1>2, Lessens DEF StorageTypes
<1>4. \A k \in Job \ {j} : Spares(k)
  BY <1>1, <1>2 DEF Spares, Settled
<1>5. Fit(j)'
  <2>1. ProfilesFit(j)'
    BY <1>1, <1>2 DEF Fit, ProfilesFit, In, At, Staged, Settled, Staging, Receipted, Settling, Uploading
  <2>2. RowsFit(j)'
    BY <1>1, <1>2 DEF Fit, RowsFit, In, At, Uploading, Receipted
  <2>3. KeysFit(j)'
    BY <1>1, <1>2 DEF Fit, RowsFit, KeysFit, In, At, Private, Putting, Receipted, Known
  <2> QED BY <2>1, <2>2, <2>3 DEF Fit
<1>6. \A k \in Job \ {j} : Apart(j, k)' /\ Apart(k, j)'
  BY <1>1, <1>2, StaysApart DEF In, Known, Staged, Staging, Private, Putting, Receipted
<1>7. Openable'
  BY <1>1, <1>2, StaysOpen DEF Own, At
<1>8. Alone'
  <2>1. Quiet => files \ AllKeys = {}
    BY WasAlone DEF Spare, At, In, Putting
  <2>2. SeenTo(j)'
    BY <1>1, <1>2 DEF SeenTo, At, KeysOf, ReceiptsOf, Fit, RowsFit
  <2> QED BY <1>1, <1>2, <2>1, <2>2, StaysAlone DEF Quiet, At, AllKeys
<1> QED BY <1>2, <1>3, <1>4, <1>5, <1>6, <1>7, <1>8, Holds

\* ... what it changes when it is.
LEMMA Switching ==
  ASSUME IInv, NEW j \in Job, At(j, "cutover"), NEW name \in Named(j), Switched(j, name)
  PROVE  /\ profile' \in [ProfileId -> ProfileRow]
         /\ receipts' \subseteq receipts
         /\ \A row \in receipts : row \in receipts' <=> row.profile \notin job[j].old
         /\ \A p \in ProfileId :
              /\ p \in job[j].ps => profile[p].state = "staged" /\ profile'[p].state = "own"
                                    /\ profile'[p].name = name[p] /\ p \notin job[j].old
                                    /\ profile'[p].data = profile[p].data
              /\ p \in job[j].old => Settled(p) /\ profile'[p].state = "gone"
              /\ p \notin job[j].ps \cup job[j].old => profile'[p] = profile[p]
<1>1. /\ Fit(j) /\ job[j] \in JobType /\ profile \in [ProfileId -> ProfileRow]
  BY DEF IInv, StorageTypes, ProfileRow
<1>2. \A p \in job[j].ps : profile[p].state = "staged" /\ name[p] \in Names
  BY <1>1 DEF Fit, ProfilesFit, In, At, Staging, Receipted, Named, JobType
<1>3. \A p \in job[j].old : Settled(p)
  BY <1>1 DEF Fit, ProfilesFit
<1>4. ASSUME NEW p \in ProfileId
      PROVE  /\ profile'[p] \in ProfileRow
             /\ p \in job[j].ps => profile[p].state = "staged" /\ profile'[p].state = "own"
                                   /\ profile'[p].name = name[p] /\ p \notin job[j].old
                                   /\ profile'[p].data = profile[p].data
             /\ p \in job[j].old => Settled(p) /\ profile'[p].state = "gone"
             /\ p \notin job[j].ps \cup job[j].old => profile'[p] = profile[p]
  <2>1. profile'[p] = IF p \in job[j].ps THEN [profile[p] EXCEPT !.state = "own", !.name = name[p]]
                      ELSE IF p \in job[j].old THEN [profile[p] EXCEPT !.state = "gone", !.data = FALSE]
                      ELSE profile[p]
    BY DEF Switched
  <2>2. profile[p] \in ProfileRow
    BY <1>1
  <2>3. CASE p \in job[j].ps
    <3>1. p \notin job[j].old
      BY <1>2, <1>3, <2>3 DEF Settled
    <3> QED BY <1>2, <2>1, <2>2, <2>3, <3>1 DEF ProfileRow
  <2>4. CASE p \notin job[j].ps /\ p \in job[j].old
    BY <1>3, <2>1, <2>2, <2>4 DEF ProfileRow
  <2>5. CASE p \notin job[j].ps /\ p \notin job[j].old
    BY <2>1, <2>2, <2>5
  <2> QED BY <2>3, <2>4, <2>5
<1>5. profile' \in [ProfileId -> ProfileRow]
  BY <1>4 DEF Switched
<1>6. /\ receipts' \subseteq receipts
      /\ \A row \in receipts : row \in receipts' <=> row.profile \notin job[j].old
  BY DEF Switched, ReceiptsOf
<1> QED BY <1>4, <1>5, <1>6

LEMMA CutoverDone ==
  ASSUME IInv, NEW j \in Job, At(j, "cutover"), NEW name \in Named(j), Switched(j, name), Fits(j),
         UNCHANGED <<account, files, minted, asked, overlapped>>,
         faults \subseteq faults', faults' \subseteq Faults,
         \/ Go(j, "dropOld")
         \/ Go(j, "cleanup") /\ "unheard" \in faults'
  PROVE  IInv'
<1> DEFINE ps == job[j].ps
           old == job[j].old
<1>1. /\ StorageTypes /\ TableFits /\ Fit(j) /\ job[j] \in JobType /\ In(j, Receipted)
      /\ ps \subseteq ProfileId /\ old \subseteq ProfileId
  BY DEF IInv, StorageTypes, In, At, Receipted, JobType
<1>2. /\ job' \in [Job -> JobType] /\ \A k \in Job \ {j} : job'[k] = job[k]
      /\ job'[j].pc \in {"dropOld", "cleanup"} /\ job'[j].ps = ps /\ job'[j].keys = job[j].keys
      /\ job'[j].tx = job[j].tx /\ job'[j].names = job[j].names /\ job'[j].old = old
      /\ job'[j].oldKeys = job[j].oldKeys /\ job'[j].ends = job[j].ends
      /\ job'[j].pc = "cleanup" => "unheard" \in faults'
  BY <1>1, Going
<1>3. /\ profile' \in [ProfileId -> ProfileRow] /\ receipts' \subseteq receipts
      /\ \A row \in receipts : row \in receipts' <=> row.profile \notin old
      /\ \A p \in ProfileId :
           /\ p \in ps => profile[p].state = "staged" /\ profile'[p].state = "own"
                          /\ profile'[p].name = name[p] /\ p \notin old
                          /\ profile'[p].data = profile[p].data
           /\ p \in old => Settled(p) /\ profile'[p].state = "gone"
           /\ p \notin ps \cup old => profile'[p] = profile[p]
  BY Switching
<1>4. \A row \in receipts : row.profile \in ProfileId
  BY <1>1 DEF StorageTypes, Receipt
<1> HIDE DEF ps, old
<1>5. StorageTypes'
  <2>1. \A p \in Own' : p \in ps \/ (p \in Own \ old /\ profile'[p].name = profile[p].name)
    BY <1>3 DEF Own
  <2>2. \A p \in ps : name[p] \in job[j].names /\ \A q \in ps : p # q => name[p] # name[q]
    BY DEF Named, ps
  <2>3. \A p \in ps : \A q \in Own \ old : name[p] # profile[q].name
    BY <2>2 DEF Fits, old
  <2>4. ASSUME NEW p \in Own', NEW q \in Own', p # q PROVE profile'[p].name # profile'[q].name
    <3>1. p \in ProfileId /\ q \in ProfileId
      BY DEF Own
    <3>2. CASE p \in ps /\ q \in ps
      BY <1>3, <2>2, <2>4, <3>1, <3>2
    <3>3. CASE p \in ps /\ q \notin ps
      BY <1>3, <2>1, <2>3, <3>1, <3>3
    <3>4. CASE p \notin ps /\ q \in ps
      BY <1>3, <2>1, <2>3, <3>1, <3>4
    <3>5. CASE p \notin ps /\ q \notin ps
      BY <1>1, <2>1, <2>4, <3>5 DEF StorageTypes
    <3> QED BY <3>2, <3>3, <3>4, <3>5
  <2>5. receipts' \subseteq Receipt /\ \A r, q \in receipts' : r # q => r.key # q.key
    BY <1>1, <1>3 DEF StorageTypes
  <2>6. account' \in BOOLEAN /\ files' \subseteq minted' /\ minted' \subseteq KeyId
        /\ asked' \in 0..MaxAsked /\ overlapped' \in BOOLEAN
    BY <1>1 DEF StorageTypes
  <2> QED BY <1>2, <1>3, <2>4, <2>5, <2>6 DEF StorageTypes, ProfileRow, Faults
<1>6. TableFits'
  <2>1. \A row \in receipts' : profile'[row.profile].state # "free"
    BY <1>1, <1>3, <1>4 DEF TableFits
  <2> QED BY <1>1, <1>3, <2>1, FewerRows DEF TableFits, AllKeys
<1>7. \A k \in Job \ {j} : Spares(k)
  <2> SUFFICES ASSUME NEW k \in Job \ {j} PROVE Spares(k)
    OBVIOUS
  <2>1. job[k].ps \subseteq ProfileId /\ Apart(j, k) /\ Fit(k)
    BY <1>1 DEF IInv, StorageTypes, JobType
  <2>2. In(j, Staged) /\ (In(k, Staged) => ps \cap job[k].ps = {})
    BY <1>1, <2>1 DEF Apart, In, Staged, Staging, ps
  <2>3. /\ \A p \in ProfileId : Settled(p) => Settled(p)'
        /\ \A p \in ProfileId : profile[p].state # "free" => profile'[p].state # "free"
    BY <1>3 DEF Settled
  <2>4. In(k, Staged) => \A p \in job[k].ps : profile[p].state = "staged" =>
          profile'[p].state = "staged" /\ (profile[p].data => profile'[p].data)
    BY <1>3, <2>1, <2>2 DEF Settled
  <2>5. In(k, Staging) => \A row \in receipts \ receipts' : row.profile \notin job[k].ps
    BY <1>3, <1>4, <2>1 DEF Fit, ProfilesFit, Settled
  <2> QED BY <1>2, <1>3, <2>3, <2>4, <2>5 DEF Spares
<1>8. Fit(j)'
  <2>1. ProfilesFit(j)'
    <3>1. /\ \A p \in job'[j].old : Settled(p)'
          /\ \A p \in job'[j].ps : profile'[p].state # "free"
      BY <1>1, <1>2, <1>3 DEF Settled
    <3> QED BY <1>2, <3>1 DEF ProfilesFit, In, At, Settled, Staging, Receipted, Settling, Uploading
  <2>2. RowsFit(j)'
    BY <1>1, <1>2 DEF Fit, RowsFit, In, At, Uploading, Receipted, ps
  <2>3. KeysFit(j)'
    <3>1. job[j].oldKeys \cap AllKeys' = {}
      BY <1>1, <1>3 DEF Fit, KeysFit, AllKeys, old
    <3>2. \A row \in receipts' : row.key \in job[j].keys => row.profile \in ps
      BY <1>1, <1>3 DEF Fit, RowsFit, ps
    <3>3. Known(j)' \subseteq minted'
      BY <1>1, <1>2 DEF Fit, KeysFit, Known
    <3> QED BY <1>2, <3>1, <3>2, <3>3 DEF KeysFit, In, At, Private, Putting, Receipted
  <2> QED BY <2>1, <2>2, <2>3 DEF Fit
<1>9. \A k \in Job \ {j} : Apart(j, k)' /\ Apart(k, j)'
  BY <1>1, <1>2, StaysApart DEF In, Known, Staged, Staging, Private, Putting, Receipted, ps
<1>10. Openable'
  <2>1. \A row \in receipts' : row.profile \in ps => row.key \in files'
    BY <1>1, <1>3 DEF Fit, RowsFit, KeysFit, In, Private, ps
  <2>2. \A row \in receipts' : row.profile \in Own' => row \in receipts /\ (row.profile \in Own \/ row.profile \in ps)
    BY <1>3 DEF Own
  <2> QED BY <1>2, <2>1, <2>2, StaysOpen DEF At
<1>11. Alone'
  <2> SUFFICES ASSUME Quiet' PROVE SeenTo(j)' /\ \A f \in files' \ AllKeys' : f \in Spare(j)'
    BY <1>2, StaysAlone DEF At
  <2>1. Quiet /\ job'[j].pc = "dropOld"
    BY <1>2 DEF Quiet
  <2>2. files \ AllKeys = {} /\ KeysOf(old) \subseteq job[j].oldKeys
    BY <2>1, WasAlone DEF Spare, SeenTo, At, In, Putting, old
  <2>3. \A f \in files' \ AllKeys' : f \in job[j].oldKeys
    BY <1>3, <2>2 DEF AllKeys, KeysOf, ReceiptsOf
  <2>4. Spare(j)' = job[j].oldKeys
    BY <1>2, <2>1 DEF Spare, In, At, Putting
  <2> QED BY <2>1, <2>3, <2>4 DEF SeenTo, At
<1> QED BY <1>2, <1>5, <1>6, <1>7, <1>8, <1>9, <1>10, <1>11, Holds

LEMMA CutoverStep == ASSUME IInv, NEW j \in Job, Cutover(j) PROVE IInv'
<1>1. /\ At(j, "cutover") /\ UNCHANGED <<account, files, minted, asked, overlapped>> /\ StorageTypes
  BY DEF Cutover, IInv
<1>2. PICK outcome \in {"done", "refused", "unheard"}, name \in Named(j) :
        IF Fits(j)
        THEN /\ Heard(outcome)
             /\ IF outcome = "refused" THEN UNCHANGED <<profile, receipts>> ELSE Switched(j, name)
             /\ IF outcome = "done" THEN Go(j, "dropOld") ELSE Go(j, "cleanup")
        ELSE outcome = "done" /\ Go(j, "cleanup") /\ UNCHANGED <<profile, receipts, faults>>
  BY DEF Cutover, Fail
<1>3. faults \subseteq faults' /\ faults' \subseteq Faults
  BY <1>1, <1>2, Hearing DEF StorageTypes, Faults
<1>4. CASE ~Fits(j) \/ outcome = "refused"
  <2>1. UNCHANGED <<stores, minted, asked, overlapped>> /\ Go(j, "cleanup")
    BY <1>1, <1>2, <1>4 DEF stores
  <2> QED BY <1>1, <1>3, <2>1, NoCutover
<1>5. CASE Fits(j) /\ outcome # "refused"
  <2>1. Switched(j, name) /\ (Go(j, "dropOld") \/ (Go(j, "cleanup") /\ "unheard" \in faults'))
    BY <1>2, <1>5 DEF Heard
  <2> QED BY <1>1, <1>3, <1>5, <2>1, CutoverDone
<1> QED BY <1>4, <1>5

\* The clean-up: rows of nobody's, and the staged profiles.
LEMMA CleanupStep == ASSUME IInv, NEW j \in Job, Cleanup(j) PROVE IInv'
<1> DEFINE ps == job[j].ps
<1>1. /\ UNCHANGED <<account, files, minted, asked, overlapped>> /\ At(j, "cleanup")
      /\ StorageTypes /\ TableFits /\ Fit(j) /\ job[j] \in JobType /\ ps \subseteq ProfileId
      /\ Go(j, "undo") /\ profile \in [ProfileId -> ProfileRow]
  BY DEF IInv, Cleanup, StorageTypes, JobType, ProfileRow
<1>2. PICK outcome \in {"done", "refused", "unheard"} :
        /\ Heard(outcome)
        /\ IF outcome = "refused" THEN UNCHANGED <<profile, receipts>>
           ELSE /\ receipts' = receipts \ ReceiptsOf(job[j].ps)
                /\ profile' = [p \in ProfileId |->
                     IF p \in job[j].ps THEN [profile[p] EXCEPT !.state = "gone", !.data = FALSE]
                     ELSE profile[p]]
  BY DEF Cleanup
<1>3. faults \subseteq faults' /\ faults' \subseteq Faults
  BY <1>1, <1>2, Hearing
<1>4. /\ job' \in [Job -> JobType] /\ \A k \in Job \ {j} : job'[k] = job[k]
      /\ job'[j].pc = "undo" /\ job'[j].ps = ps /\ job'[j].keys = job[j].keys
      /\ job'[j].tx = job[j].tx /\ job'[j].names = job[j].names /\ job'[j].old = job[j].old
      /\ job'[j].oldKeys = job[j].oldKeys /\ job'[j].ends = job[j].ends
  BY <1>1, Going
<1>5. /\ profile' \in [ProfileId -> ProfileRow]
      /\ \A p \in ProfileId :
           /\ profile'[p].name = profile[p].name
           /\ profile'[p] = profile[p]
              \/ (p \in ps /\ profile[p].state # "free" /\ profile'[p].state = "gone")
  <2>1. \A p \in ps : profile[p].state # "free"
    BY <1>1 DEF Fit, ProfilesFit, In, At, Staged
  <2>2. ASSUME NEW p \in ProfileId, outcome # "refused"
        PROVE  /\ profile'[p] \in ProfileRow /\ profile'[p].name = profile[p].name
               /\ profile'[p] = profile[p]
                  \/ (p \in ps /\ profile[p].state # "free" /\ profile'[p].state = "gone")
    <3>1. profile'[p] = IF p \in ps THEN [profile[p] EXCEPT !.state = "gone", !.data = FALSE]
                        ELSE profile[p]
      BY <1>2, <2>2
    <3> QED BY <1>1, <2>1, <3>1 DEF ProfileRow
  <2>3. CASE outcome = "refused"
    BY <1>1, <1>2, <2>3
  <2>4. CASE outcome # "refused"
    <3>1. profile' = [p \in ProfileId |-> profile'[p]]
      BY <1>2, <2>4
    <3> QED BY <2>2, <2>4, <3>1
  <2> QED BY <2>3, <2>4
<1>6. /\ receipts' \subseteq receipts
      /\ \A row \in receipts \ receipts' : row.profile \in ps
      /\ outcome # "refused" => \A row \in receipts' : row.profile \notin ps
  BY <1>2 DEF ReceiptsOf
<1>7. \A row \in receipts : row.profile \in ProfileId
  BY <1>1 DEF StorageTypes, Receipt
<1> HIDE DEF ps
<1>8. Own' \subseteq Own /\ \A p \in ProfileId : Settled(p) => Settled(p)'
  BY <1>5 DEF Own, Settled
<1>9. StorageTypes'
  BY <1>1, <1>3, <1>4, <1>5, <1>6, <1>8, Retypes DEF StorageTypes
<1>10. TableFits'
  <2>1. \A row \in receipts' : profile'[row.profile].state # "free"
    BY <1>1, <1>5, <1>6, <1>7 DEF TableFits
  <2> QED BY <1>1, <1>6, <2>1, FewerRows DEF TableFits, AllKeys
<1>11. \A k \in Job \ {j} : Spares(k)
  <2> SUFFICES ASSUME NEW k \in Job \ {j} PROVE Spares(k)
    OBVIOUS
  <2>1. job[k].ps \subseteq ProfileId /\ Apart(j, k)
    BY <1>1 DEF IInv, StorageTypes, JobType
  <2>2. In(k, Staged) => ps \cap job[k].ps = {}
    BY <1>1, <2>1 DEF Apart, In, At, Staged, ps
  <2>3. In(k, Staging) => In(k, Staged)
    BY DEF In, Staged
  <2>4. In(k, Staged) => \A p \in job[k].ps : profile[p].state = "staged" =>
          profile'[p].state = "staged" /\ (profile[p].data => profile'[p].data)
    BY <1>5, <2>1, <2>2
  <2>5. \A p \in ProfileId : profile[p].state # "free" => profile'[p].state # "free"
    BY <1>5
  <2>6. In(k, Staging) => \A row \in receipts \ receipts' : row.profile \notin job[k].ps
    BY <1>6, <2>2, <2>3
  <2> QED BY <1>1, <1>3, <1>4, <1>6, <1>8, <2>4, <2>5, <2>6 DEF Spares
<1>12. Fit(j)'
  <2>1. ProfilesFit(j)'
    <3>1. \A p \in job'[j].old : Settled(p)'
      BY <1>1, <1>4, <1>8 DEF Fit, ProfilesFit, JobType
    <3> QED BY <1>4, <3>1 DEF ProfilesFit, In, At, Settled, Staged, Staging, Receipted, Settling, Uploading
  <2>2. RowsFit(j)'
    BY <1>1, <1>4 DEF Fit, RowsFit, In, At, Uploading, Receipted, ps
  <2>3. KeysFit(j)'
    <3>1. faults' \subseteq {"r2"} => job[j].keys \cap AllKeys' = {}
      <4>1. faults' \subseteq {"r2"} => outcome # "refused"
        BY <1>2 DEF Heard
      <4>2. \A row \in receipts' : row.key \in job[j].keys => row.profile \in ps
        BY <1>1, <1>6 DEF Fit, KeysFit, In, At, ps
      <4> QED BY <1>6, <4>1, <4>2 DEF AllKeys
    <3>2. Known(j)' \subseteq minted'
      BY <1>1, <1>4 DEF Fit, KeysFit, Known
    <3> QED BY <1>4, <3>1, <3>2 DEF KeysFit, In, At, Private, Putting, Receipted
  <2> QED BY <2>1, <2>2, <2>3 DEF Fit
<1>13. \A k \in Job \ {j} : Apart(j, k)' /\ Apart(k, j)'
  BY <1>1, <1>4, StaysApart DEF In, Known, Staged, Staging, Private, Putting, Receipted, ps
<1>14. Openable'
  BY <1>1, <1>3, <1>4, <1>6, <1>8, StaysOpen DEF At
<1>15. Alone'
  <2> SUFFICES ASSUME Quiet' PROVE SeenTo(j)' /\ \A f \in files' \ AllKeys' : f \in Spare(j)'
    BY <1>1, <1>3, <1>4, StaysAlone DEF At
  <2>1. Quiet
    BY <1>1, <1>3 DEF Quiet
  <2>2. (\A f \in files \ AllKeys : f \in job[j].keys) /\ KeysOf(ps) \subseteq job[j].keys
    BY <1>1, <2>1, WasAlone DEF Spare, SeenTo, At, In, Putting, ps
  <2>3. \A f \in files' \ AllKeys' : f \in job[j].keys
    BY <1>1, <1>6, <2>2 DEF AllKeys, KeysOf, ReceiptsOf
  <2>4. Spare(j)' = job[j].keys
    BY <1>4 DEF Spare, In, Putting
  <2> QED BY <1>4, <2>3, <2>4 DEF SeenTo, At
<1> QED BY <1>4, <1>9, <1>10, <1>11, <1>12, <1>13, <1>14, <1>15, Holds

\* The person's own: no request's step.
LEMMA OwnStep ==
  ASSUME IInv, UNCHANGED <<account, receipts, files, job, minted, asked, faults>>,
         overlapped' = (overlapped \/ \E k \in Job : ~At(k, "idle")),
         profile' \in [ProfileId -> ProfileRow],
         \A p, q \in Own' : p # q => profile'[p].name # profile'[q].name,
         \A p \in ProfileId :
           /\ profile[p].state = "free" => profile'[p].state \in {"free", "own"}
           /\ profile[p].state # "free" => profile'[p].state = profile[p].state
                                           /\ (profile[p].data => profile'[p].data)
  PROVE  IInv'
<1>1. /\ StorageTypes /\ TableFits /\ \A row \in receipts : row.profile \in ProfileId
      /\ profile \in [ProfileId -> ProfileRow]
  BY DEF IInv, StorageTypes, Receipt, ProfileRow
<1>2. StorageTypes'
  BY <1>1 DEF StorageTypes, ProfileRow
<1>3. TableFits'
  BY <1>1, FewerRows DEF TableFits, AllKeys
<1>4. \A k \in Job : Fit(k)'
  <2> SUFFICES ASSUME NEW k \in Job PROVE Fit(k)'
    OBVIOUS
  <2>1. job[k].ps \subseteq ProfileId /\ Fit(k)
    BY <1>1 DEF IInv, StorageTypes, JobType
  <2>2. Spares(k)
    BY <2>1 DEF Spares, Settled
  <2> QED BY <1>1, <2>1, <2>2, Spared
<1>5. \A k, l \in Job : k # l => Apart(k, l)'
  BY DEF IInv, Apart, In, Known
<1>6. Openable'
  <2>1. \A row \in receipts : row.profile \in Own' => row.profile \in Own
    BY <1>1 DEF TableFits, Own
  <2> QED BY <2>1 DEF IInv, Openable, ReceiptsOf
<1>7. Alone'
  <2> SUFFICES ASSUME Quiet' PROVE Alone'
    BY DEF Alone
  <2>1. Quiet /\ \A k \in Job : At(k, "idle") /\ At(k, "idle")'
    BY DEF Quiet, At
  <2>2. \A k \in Job : SeenTo(k)'
    BY <2>1 DEF SeenTo, At
  <2>3. files' \ AllKeys' = {}
    BY <2>1 DEF IInv, Alone, AllKeys, Spare, At, In, Putting
  <2> QED BY <2>1, <2>2, <2>3 DEF Alone
<1> QED BY <1>2, <1>3, <1>4, <1>5, <1>6, <1>7 DEF IInv

LEMMA CreateProfileStep == ASSUME IInv, NEW n \in Names, CreateProfile(n) PROVE IInv'
<1>1. StorageTypes /\ profile \in [ProfileId -> ProfileRow]
  BY DEF IInv, StorageTypes, ProfileRow
<1>2. PICK new \in Free : profile' = [profile EXCEPT ![new] = [state |-> "own", name |-> n, data |-> TRUE]]
  BY DEF CreateProfile
<1>3. /\ profile' \in [ProfileId -> ProfileRow]
      /\ new \in ProfileId /\ profile[new].state = "free"
      /\ profile'[new].state = "own" /\ profile'[new].name = n
      /\ \A p \in ProfileId \ {new} : profile'[p] = profile[p]
  BY <1>1, <1>2 DEF Free, ProfileRow
<1>4. Own' = Own \cup {new}
  BY <1>3 DEF Own
<1>5. \A p, q \in Own' : p # q => profile'[p].name # profile'[q].name
  <2>1. \A p, q \in Own : p # q => profile[p].name # profile[q].name
    BY <1>1 DEF StorageTypes
  <2>2. \A p \in Own : p \in ProfileId /\ p # new /\ profile[p].name # n
    BY <1>3 DEF CreateProfile, Own
  <2> QED BY <1>3, <1>4, <2>1, <2>2
<1>6. \A p \in ProfileId :
        /\ profile[p].state = "free" => profile'[p].state \in {"free", "own"}
        /\ profile[p].state # "free" => profile'[p].state = profile[p].state
                                        /\ (profile[p].data => profile'[p].data)
  BY <1>3
<1> QED BY <1>3, <1>5, <1>6, OwnStep DEF CreateProfile

LEMMA AddDataStep == ASSUME IInv, NEW p \in ProfileId, AddData(p) PROVE IInv'
<1>1. StorageTypes /\ profile \in [ProfileId -> ProfileRow]
  BY DEF IInv, StorageTypes, ProfileRow
<1>2. /\ profile' \in [ProfileId -> ProfileRow]
      /\ \A q \in ProfileId : /\ profile'[q].state = profile[q].state
                              /\ profile'[q].name = profile[q].name
                              /\ profile[q].data => profile'[q].data
  BY <1>1 DEF AddData, ProfileRow
<1>3. \A q, r \in Own' : q # r => profile'[q].name # profile'[r].name
  BY <1>1, <1>2 DEF StorageTypes, Own
<1> QED BY <1>2, <1>3, OwnStep DEF AddData

LEMMA InvInit == StorageInit => IInv
<1> SUFFICES ASSUME StorageInit PROVE IInv
  OBVIOUS
<1>1. 1 \in ProfileId /\ 1 \in KeyId /\ 1..0 = {} /\ 1..1 = {1} /\ 0..1 = {0, 1}
  BY StorageAssumption DEF ProfileId, KeyId
<1>2. PICK own \in 1..MaxProfile, with \in 0..1 :
        /\ \E name \in [1..own -> Names] :
             /\ \A p, q \in 1..own : p # q => name[p] # name[q]
             /\ profile = [p \in ProfileId |->
                  IF p <= own THEN [state |-> "own", name |-> name[p], data |-> TRUE]
                  ELSE [state |-> "free", name |-> name[1], data |-> FALSE]]
        /\ receipts = {[key |-> k, profile |-> k, tx |-> k] : k \in 1..with}
        /\ files = 1..with /\ minted = 1..with
  BY DEF StorageInit
<1>3. PICK name \in [1..own -> Names] :
        /\ \A p, q \in 1..own : p # q => name[p] # name[q]
        /\ profile = [p \in ProfileId |->
             IF p <= own THEN [state |-> "own", name |-> name[p], data |-> TRUE]
             ELSE [state |-> "free", name |-> name[1], data |-> FALSE]]
  BY <1>2
<1>4. /\ files \subseteq {1} /\ minted = files
      /\ receipts \subseteq {[key |-> 1, profile |-> 1, tx |-> 1]}
      /\ files = AllKeys
  <2>1. CASE with = 0
    BY <1>1, <1>2, <2>1 DEF AllKeys
  <2>2. CASE with = 1
    <3>1. files = {1} /\ minted = {1} /\ receipts = {[key |-> 1, profile |-> 1, tx |-> 1]}
      BY <1>1, <1>2, <2>2
    <3> QED BY <3>1 DEF AllKeys
  <2> QED BY <1>1, <1>2, <2>1, <2>2
<1>5. own \in 1..MaxProfile /\ ProfileId = 1..MaxProfile /\ 1 \in 1..own
      /\ \A p \in ProfileId : p <= own => p \in 1..own
  BY StorageAssumption DEF ProfileId
<1>6. profile \in [ProfileId -> ProfileRow]
  <2>1. \A p \in ProfileId : p <= own => name[p] \in Names
    BY <1>5
  <2>2. name[1] \in Names
    BY <1>5
  <2> QED BY <1>3, <2>1, <2>2 DEF ProfileRow
<1>7. /\ \A p \in Own : p \in 1..own /\ profile[p].name = name[p]
      /\ profile[1].state = "own"
  <2>1. \A p \in ProfileId : ~(p <= own) => profile[p].state = "free"
    BY <1>3
  <2>2. \A p \in ProfileId : p <= own => profile[p].state = "own" /\ profile[p].name = name[p]
    BY <1>3
  <2> QED BY <1>1, <1>5, <2>1, <2>2 DEF Own
<1>8. /\ job \in [Job -> JobType] /\ faults = {} /\ overlapped = FALSE
      /\ \A j \in Job : /\ job[j] = Idle /\ job[j].pc = "idle" /\ job[j].ps = {} /\ job[j].keys = {}
                        /\ job[j].old = {} /\ job[j].oldKeys = {} /\ job[j].ends = "clear"
  <2>1. job = [j \in Job |-> Idle] /\ faults = {} /\ overlapped = FALSE
    BY DEF StorageInit
  <2>2. \A j \in Job : job[j] = Idle
    BY <2>1
  <2>3. job \in [Job -> JobType]
    BY <2>1, Ids
  <2> QED BY <2>1, <2>2, <2>3, Ids
<1>9. StorageTypes
  <2>1. \A p, q \in Own : p # q => profile[p].name # profile[q].name
    <3>1. \A p, q \in 1..own : p # q => name[p] # name[q]
      BY <1>3
    <3> QED BY <1>7, <3>1
  <2>2. receipts \subseteq Receipt
    BY <1>1, <1>4 DEF Receipt
  <2>3. asked \in 0..MaxAsked /\ account \in BOOLEAN
    BY StorageAssumption DEF StorageInit
  <2>4. \A r, q \in receipts : r # q => r.key # q.key
    BY <1>4
  <2> QED BY <1>1, <1>4, <1>6, <1>8, <2>1, <2>2, <2>3, <2>4 DEF StorageTypes, ProfileRow
<1>10. TableFits
  <2>1. IsFiniteSet({[key |-> 1, profile |-> 1, tx |-> 1]})
        /\ Cardinality({[key |-> 1, profile |-> 1, tx |-> 1]}) = 1
    BY FS_Singleton
  <2>2. IsFiniteSet(receipts)
    BY <1>4, <2>1, FS_Subset
  <2>3. ASSUME NEW p \in ProfileId PROVE Cardinality(ReceiptsOf({p})) <= Limit
    <3>1. ReceiptsOf({p}) \subseteq {[key |-> 1, profile |-> 1, tx |-> 1]}
      BY <1>4 DEF ReceiptsOf
    <3>2. Cardinality(ReceiptsOf({p})) <= 1 /\ Cardinality(ReceiptsOf({p})) \in Nat
      BY <2>1, <3>1, FS_Subset, FS_CardinalityType
    <3> QED BY <3>2, StorageAssumption
  <2>4. \A row \in receipts : profile[row.profile].state # "free"
    BY <1>4, <1>7
  <2> QED BY <1>4, <2>2, <2>3, <2>4 DEF TableFits
<1>11. \A j \in Job : Fit(j)
  <2> SUFFICES ASSUME NEW j \in Job PROVE Fit(j)
    OBVIOUS
  <2>1. ProfilesFit(j)
    BY <1>8 DEF ProfilesFit, In, At, Staged, Settling, Staging, Uploading, Receipted
  <2>2. RowsFit(j)
    BY <1>8 DEF RowsFit, In, At, Uploading, Receipted
  <2>3. KeysFit(j)
    BY <1>8 DEF KeysFit, In, At, Private, Putting, Receipted, Known
  <2> QED BY <2>1, <2>2, <2>3 DEF Fit
<1>12. \A j, k \in Job : j # k => Apart(j, k)
  BY <1>8 DEF Apart, In, Known, Staged, Staging, Private, Putting, Receipted
<1>13. Openable
  BY <1>4 DEF Openable, ReceiptsOf, AllKeys
<1>14. Alone
  BY <1>4, <1>8 DEF Alone, SeenTo, At
<1> QED BY <1>9, <1>10, <1>11, <1>12, <1>13, <1>14 DEF IInv

LEMMA InvStep == ASSUME IInv, [StorageNext]_storageVars PROVE IInv'
<1>1. CASE UNCHANGED storageVars
  <2>1. /\ UNCHANGED <<account, profile, receipts, files, job, minted, asked, faults, overlapped>>
    BY <1>1 DEF storageVars
  <2>2. StorageTypes' /\ TableFits' /\ Openable' /\ Alone'
    BY <2>1 DEF IInv, StorageTypes, Own, TableFits, AllKeys, ReceiptsOf, Openable, Alone, Quiet, At,
                Spare, In, SeenTo, KeysOf
  <2>3. \A j \in Job : Fit(j)'
    BY <2>1 DEF IInv, Fit, ProfilesFit, RowsFit, KeysFit, In, At, Settled, ReceiptsOf, Known, AllKeys
  <2>4. \A j, k \in Job : j # k => Apart(j, k)'
    BY <2>1 DEF IInv, Apart, In, Known
  <2> QED BY <2>2, <2>3, <2>4 DEF IInv
<1>2. ASSUME NEW n \in Names, CreateProfile(n) PROVE IInv'
  BY <1>2, CreateProfileStep
<1>3. ASSUME NEW p \in ProfileId, AddData(p) PROVE IInv'
  BY <1>3, AddDataStep
<1>4. ASSUME NEW j \in Job, Ask(j) PROVE IInv'
  BY <1>4, AskStep
<1>5. ASSUME NEW j \in Job, Step(j) PROVE IInv'
  <2>1. CASE ReadKeys(j) \/ ClearFiles(j) \/ ClearRows(j) \/ UploadPrev(j) \/ DropFile(j) \/ DropRow(j)
             \/ Insert(j) \/ Undo(j)
    BY <2>1, ReadKeysStep, ClearFilesStep, ClearRowsStep, UploadPrevStep, DropFileStep, DropRowStep,
       InsertStep, UndoStep
  <2>2. CASE Stage(j) \/ Fill(j) \/ PutRows(j) \/ ReadOld(j) \/ ReadOldKeys(j) \/ Cutover(j)
             \/ DropOld(j) \/ Cleanup(j) \/ Die(j)
    BY <2>2, StageStep, FillStep, PutRowsStep, ReadOldStep, ReadOldKeysStep, CutoverStep, DropOldStep,
       CleanupStep, DieStep
  <2>3. CASE \E key \in KeyId : PutFile(j, key) \/ PutFiles(j, key)
    BY <2>3, PutFileStep, PutFilesStep
  <2> QED BY <1>5, <2>1, <2>2, <2>3 DEF Step
<1> QED BY <1>1, <1>2, <1>3, <1>4, <1>5 DEF StorageNext

LEMMA Kept == StorageSpec => []IInv
BY InvInit, InvStep, PTL DEF StorageSpec
-----------------------------------------------------------------------------
(* What follows                                                                *)

\* Every row, file and request holds values of its kind; names are unique among an
\* account's profiles, and no two receipts share a file.
THEOREM StorageTyped == StorageSpec => []StorageTypes
<1>1. IInv => StorageTypes
  BY DEF IInv
<1> QED BY <1>1, Kept, PTL

\* However uploads, restores and deletes overlap, no profile has more receipts than
\* it may have.
THEOREM LimitHolds == StorageSpec => []WithinLimit
<1>1. IInv => WithinLimit
  BY DEF IInv, TableFits, WithinLimit, Own
<1> QED BY <1>1, Kept, PTL

\* A receipt that is listed can be opened, whatever requests overlap and however
\* R2 fails.
THEOREM ListedOpens == StorageSpec => []Openable
<1>1. IInv => Openable
  BY DEF IInv
<1> QED BY <1>1, Kept, PTL

\* One request at a time, whichever of its D1 calls are refused, leaves no file that
\* no receipt names.
THEOREM LeavesNoOrphans == StorageSpec => []NoOrphans
<1>1. IInv => NoOrphans
  <2> SUFFICES ASSUME IInv, Quiet, \A j \in Job : At(j, "idle") PROVE files \subseteq AllKeys
    BY DEF NoOrphans, Quiet, AllKeys
  <2>1. \A j \in Job : Spare(j) = {}
    BY DEF Spare, At, In, Putting
  <2> QED BY <2>1 DEF IInv, Alone
<1> QED BY <1>1, Kept, PTL

\* How a profile's owner changes: it is created, its deletion or the account's is asked
\* for, what a restore staged is dropped, or a backup is cut over.
LEMMA Moves ==
  ASSUME IInv, [StorageNext]_storageVars, NEW p \in ProfileId, profile'[p].state # profile[p].state
  PROVE  \/ profile[p].state = "free"
         \/ profile'[p].state = "gone" /\ (Leaves(p) => Asked(p) \/ "unheard" \in faults)
         \/ \E j \in Job : /\ At(j, "cutover") /\ files' = files
                           /\ \E name \in Named(j) : Switched(j, name)
<1>1. StorageTypes /\ profile[p] \in ProfileRow
  BY DEF IInv, StorageTypes, ProfileRow
<1>2. profile' # profile
  OBVIOUS
<1>3. CASE \E n \in Names : CreateProfile(n)
  BY <1>1, <1>3 DEF CreateProfile, Free, StorageTypes
<1>4. ASSUME NEW q \in ProfileId, AddData(q) PROVE FALSE
  BY <1>1, <1>4 DEF AddData, ProfileRow, StorageTypes
<1>5. ASSUME NEW j \in Job, Ask(j) PROVE FALSE
  BY <1>2, <1>5 DEF Ask, ClearBegin, UploadBegin, DeleteBegin, RestoreBegin, Begin
<1>6. ASSUME NEW j \in Job, ClearRows(j)
      PROVE  profile'[p].state = "gone" /\ (Leaves(p) => Asked(p))
  <2>1. Cleared(j) /\ At(j, "clearRows") /\ End(j)
    BY <1>2, <1>6 DEF ClearRows
  <2>2. job'[j] # job[j]
    BY <1>1, <2>1, Ending, Ids DEF At
  <2> DEFINE gone == CASE job[j].ends = "remove" -> job[j].ps \cap Own
                       [] job[j].ends = "erase" -> Own [] OTHER -> {}
  <2>3. profile'[p] = [profile[p] EXCEPT !.data = @ /\ p \notin job[j].ps,
                                         !.state = IF p \in gone THEN "gone" ELSE @]
    BY <2>1 DEF Cleared
  <2>4. p \in gone => job[j].ends = "erase" \/ (job[j].ends = "remove" /\ p \in job[j].ps)
    OBVIOUS
  <2> HIDE DEF gone
  <2>5. p \in gone /\ profile'[p].state = "gone"
    BY <1>1, <2>3 DEF ProfileRow
  <2> QED BY <2>1, <2>2, <2>4, <2>5 DEF Asked
<1>7. ASSUME NEW j \in Job, Stage(j) PROVE profile[p].state = "free"
  BY <1>1, <1>7 DEF Stage, Free
<1>8. ASSUME NEW j \in Job, Fill(j) PROVE FALSE
  BY <1>1, <1>8 DEF Fill, ProfileRow
<1>9. ASSUME NEW j \in Job, Cutover(j)
      PROVE  At(j, "cutover") /\ files' = files /\ \E name \in Named(j) : Switched(j, name)
  BY <1>2, <1>9 DEF Cutover
<1>10. ASSUME NEW j \in Job, Cleanup(j)
       PROVE  profile'[p].state = "gone" /\ (Leaves(p) => "unheard" \in faults)
  <2>1. p \in job[j].ps /\ profile'[p].state = "gone"
    <3>1. profile' = [q \in ProfileId |->
            IF q \in job[j].ps THEN [profile[q] EXCEPT !.state = "gone", !.data = FALSE]
            ELSE profile[q]]
      BY <1>2, <1>10 DEF Cleanup
    <3> QED BY <1>1, <3>1 DEF ProfileRow
  <2>2. "unheard" \notin faults => profile[p].state = "staged"
    BY <1>10, <2>1 DEF IInv, Fit, ProfilesFit, Cleanup
  <2> QED BY <2>1, <2>2 DEF Leaves, Own
<1>11. ASSUME NEW j \in Job, Step(j), ~ClearRows(j), ~Stage(j), ~Fill(j), ~Cutover(j), ~Cleanup(j)
       PROVE  FALSE
  <2>1. CASE ReadKeys(j) \/ ClearFiles(j) \/ UploadPrev(j) \/ DropFile(j) \/ DropRow(j) \/ Insert(j)
             \/ Undo(j)
    BY <1>2, <2>1 DEF ReadKeys, ClearFiles, UploadPrev, DropFile, DropRow, Insert, Undo, stores
  <2>2. CASE PutRows(j) \/ ReadOld(j) \/ ReadOldKeys(j) \/ DropOld(j) \/ Die(j)
    BY <1>2, <2>2 DEF PutRows, ReadOld, ReadOldKeys, DropOld, Die, stores
  <2>3. CASE \E key \in KeyId : PutFile(j, key) \/ PutFiles(j, key)
    BY <1>2, <2>3 DEF PutFile, PutFiles
  <2> QED BY <1>11, <2>1, <2>2, <2>3 DEF Step
<1>12. StorageNext
  BY DEF storageVars
<1>13. CASE \E j \in Job : Step(j)
  BY <1>6, <1>7, <1>8, <1>9, <1>10, <1>11, <1>13
<1> QED BY <1>3, <1>4, <1>5, <1>12, <1>13 DEF StorageNext

\* A profile leaves by the person's request, or in the step that brings the backup's,
\* but for a call that was done and never answered.
THEOREM LeavesByRequest == StorageSpec => OnlyReplaced
<1>1. ASSUME IInv, [StorageNext]_storageVars, NEW p \in ProfileId, Leaves(p)
      PROVE  Asked(p) \/ (\E q \in ProfileId : Arrives(q)) \/ "unheard" \in faults
  <2>1. profile[p].state = "own" /\ profile'[p].state # "own"
    BY <1>1 DEF Leaves, Own
  <2>2. ASSUME NEW j \in Job, At(j, "cutover"), NEW name \in Named(j), Switched(j, name)
        PROVE  \E q \in ProfileId : Arrives(q)
    <3>1. job[j].ps # {} /\ job[j].ps \subseteq ProfileId
      BY <1>1, <2>2 DEF IInv, Fit, ProfilesFit, In, At, Staging, Receipted, StorageTypes, JobType
    <3> QED BY <1>1, <2>2, <3>1, Switching DEF Arrives
  <2> QED BY <1>1, <2>1, <2>2, Moves
<1>2. IInv /\ [StorageNext]_storageVars =>
        [\A p \in ProfileId :
           Leaves(p) => Asked(p) \/ (\E q \in ProfileId : Arrives(q)) \/ "unheard" \in faults]_storageVars
  BY <1>1
<1> QED BY <1>2, Kept, PTL DEF StorageSpec, OnlyReplaced

\* What a cutover brings is the backup whole: all its profiles at once, each with its
\* rows and a receipt whose file is there, and none of the profiles it read is left.
THEOREM ArrivesWhole == StorageSpec => CutoverWhole
<1> DEFINE Whole(p) == \E j \in Job :
             /\ p \in job[j].ps /\ Cardinality(job[j].ps) = Cardinality(job[j].names)
             /\ \A q \in job[j].ps :
                  /\ Arrives(q) /\ profile'[q].data
                  /\ \E row \in receipts' : row.profile = q /\ row.key \in files'
             /\ \A q \in job[j].old : profile'[q].state # "own"
<1>1. ASSUME IInv, [StorageNext]_storageVars, NEW p \in ProfileId, Arrives(p) PROVE Whole(p)
  <2>1. profile[p].state = "staged" /\ profile'[p].state = "own"
    BY <1>1 DEF Arrives
  <2>2. PICK j \in Job : /\ At(j, "cutover") /\ files' = files
                         /\ \E name \in Named(j) : Switched(j, name)
    BY <1>1, <2>1, Moves
  <2>3. PICK name \in Named(j) : Switched(j, name)
    BY <2>2
  <2>4. /\ job[j].ps \subseteq ProfileId /\ job[j].old \subseteq ProfileId /\ Fit(j)
        /\ In(j, Receipted) /\ In(j, Staging) /\ In(j, Private)
    BY <1>1, <2>2 DEF IInv, StorageTypes, JobType, In, At, Receipted, Staging, Private
  <2>5. /\ \A row \in receipts : row \in receipts' <=> row.profile \notin job[j].old
        /\ \A q \in ProfileId :
             /\ q \in job[j].ps => profile[q].state = "staged" /\ profile'[q].state = "own"
                                   /\ q \notin job[j].old /\ profile'[q].data = profile[q].data
             /\ q \in job[j].old => profile'[q].state = "gone"
             /\ q \notin job[j].ps \cup job[j].old => profile'[q] = profile[q]
    BY <1>1, <2>2, <2>3, Switching
  <2>6. p \in job[j].ps /\ Cardinality(job[j].ps) = Cardinality(job[j].names)
    BY <2>1, <2>4, <2>5 DEF Fit, ProfilesFit
  <2>7. ASSUME NEW q \in job[j].ps
        PROVE  /\ Arrives(q) /\ profile'[q].data
               /\ \E row \in receipts' : row.profile = q /\ row.key \in files'
    <3>1. profile[q].data /\ \E row \in receipts : row.profile = q /\ row.key \in files
      BY <2>4 DEF Fit, RowsFit, KeysFit, In
    <3> QED BY <2>2, <2>4, <2>5, <3>1 DEF Arrives
  <2>8. \A q \in job[j].old : profile'[q].state # "own"
    BY <2>4, <2>5
  <2> QED BY <2>6, <2>7, <2>8
<1>2. IInv /\ [StorageNext]_storageVars => [\A p \in ProfileId : Arrives(p) => Whole(p)]_storageVars
  <2> HIDE DEF Whole
  <2> QED BY <1>1
<1> QED BY <1>2, Kept, PTL DEF StorageSpec, CutoverWhole
=============================================================================
