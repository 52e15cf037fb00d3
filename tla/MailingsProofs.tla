--------------------------- MODULE MailingsProofs ---------------------------
(* What holds of Mailings for any accounts, runs, days and moves: its types,    *)
(* that runs never repeat each other's mails, and that the stop link of a mail   *)
(* is the account's until the account's address next changes.                    *)
EXTENDS Mailings, TLAPS

Pcs == {"idle", "next", "compose", "token", "quota", "claim", "send", "release", "record"}
Slot == User \X Keys

\* A mail's key is one there is.
LEMMA KeyType ==
  ASSUME NEW kind \in Kinds, today \in 0..MaxDay
  PROVE  Key(kind) \in Keys /\ Key(kind)[1] = kind
<1>1. HalfOf[today] \in 0..MaxDay /\ 0 \in 0..MaxDay
  BY MailingsAssumption
<1>2. CASE kind \in WeekOne
  <2>1. Key(kind) = <<kind, 0>>
    BY <1>2 DEF Key, WeekOne
  <2> QED BY <1>1, <1>2, <2>1 DEF Keys
<1>3. CASE kind = "report"
  <2>1. Key(kind) = <<"report", HalfOf[today]>>
    BY <1>3 DEF Key, WeekOne
  <2> QED BY <1>1, <1>3, <2>1 DEF Keys, Reminders
<1>4. CASE kind \in Reminders \ {"report"}
  <2>1. Key(kind) = <<kind, today>>
    BY <1>4 DEF Key, WeekOne, Reminders
  <2> QED BY <1>4, <2>1 DEF Keys, Reminders
<1> QED BY <1>2, <1>3, <1>4 DEF Kinds, Reminders, WeekOne

LEMMA RowTypes ==
  ASSUME people \in [User -> Person]
  PROVE  /\ NoRow \in RowType /\ \A u \in User : Row(u) \in RowType
         /\ NoToken \notin Tokens /\ 0 \in Addresses /\ 0 \in Moves /\ User \subseteq 0..Users
<1>1. 0 \in 0..Users /\ User \subseteq 0..Users /\ 0 \in Addresses /\ 0 \in Moves
  BY MailingsAssumption DEF User, Addresses, Moves
<1>2. NoToken \notin Tokens
  BY DEF NoToken, Tokens
<1>3. ASSUME NEW u \in User
      PROVE  Row(u) \in RowType
  BY <1>1 DEF Row, RowType, Person
<1> QED BY <1>1, <1>2, <1>3 DEF NoRow, RowType

LEMMA FreshRun ==
  ASSUME NEW due \in SUBSET RowType, NEW kind \in Kinds \cup {"preview"}, NEW day \in 0..MaxDay
  PROVE  /\ Next0(due, kind, day) \in RunType
         /\ Next0(due, kind, day).pc = "next" /\ Next0(due, kind, day).row = NoRow
         /\ Next0(due, kind, day).due = due /\ Next0(due, kind, day).kind = kind
<1>1. <<"bills", 0>> \in Keys /\ NoRow \in RowType
  BY MailingsAssumption DEF Keys, Reminders, NoRow, RowType, Addresses, Moves
<1> HIDE DEF NoRow, RowType, Keys, Kinds
<1> QED BY <1>1 DEF Next0, RunType

LEMMA IdleType ==
  /\ Idle \in RunType /\ Idle.pc = "idle" /\ Idle.row = NoRow /\ Idle.due = {}
<1>1. "bills" \in Kinds \cup {"preview"} /\ 0 \in 0..MaxDay /\ {} \in SUBSET RowType
  BY MailingsAssumption DEF Kinds, Reminders
<1>2. /\ Next0({}, "bills", 0) \in RunType /\ Next0({}, "bills", 0).row = NoRow
      /\ Next0({}, "bills", 0).due = {}
  BY <1>1, FreshRun
<1> HIDE DEF Next0
<1> QED BY <1>2 DEF Idle, RunType

\* A run's record after a step.
LEMMA RunUpdated ==
  ASSUME run \in [Run -> RunType], NEW r \in Run, NEW rec \in RunType, Put(r, rec)
  PROVE  /\ run' \in [Run -> RunType] /\ run'[r] = rec
         /\ \A q \in Run : q # r => run'[q] = run[q]
  BY DEF Put

\* Which of a run's fields a step may change, and that they keep their types.
LEMMA RunEdits ==
  ASSUME run \in [Run -> RunType], NEW r \in Run
  PROVE  /\ run[r] \in RunType /\ run[r].row \in RowType /\ run[r].due \subseteq RowType
         /\ \A pc \in Pcs : [run[r] EXCEPT !.pc = pc] \in RunType
         /\ \A due \in SUBSET RowType : [run[r] EXCEPT !.due = due] \in RunType
         /\ \A due \in SUBSET RowType, row \in RowType, pc \in Pcs :
              [run[r] EXCEPT !.due = due, !.row = row, !.pc = pc] \in RunType
         /\ \A row \in RowType, pc \in Pcs : [run[r] EXCEPT !.row = row, !.pc = pc] \in RunType
         /\ \A key \in Keys, pc \in Pcs : [run[r] EXCEPT !.pc = pc, !.key = key] \in RunType
         /\ \A pc \in Pcs, ends \in BOOLEAN :
              [run[r] EXCEPT !.pc = pc, !.ends = ends] \in RunType
<1> HIDE DEF RowType, Keys, Kinds
<1> QED BY ZenonT(40) DEF RunType, Pcs
-----------------------------------------------------------------------------
(* The rows runs go by                                                         *)

Working == {"token", "quota", "claim", "send", "release", "record"}

\* A row is no newer than its account, and has its token until the account moves.
RowOk(row, accounts) ==
  /\ row.who \in User
  /\ row.moves <= accounts[row.who].moves
  /\ row.moves = accounts[row.who].moves /\ row.token # NoToken => row.token = accounts[row.who].token

RunOk(rec, accounts) ==
  /\ \A row \in rec.due : RowOk(row, accounts)
  /\ rec.pc \in Working => RowOk(rec.row, accounts)
  /\ rec.pc \in Working \ {"token"} => rec.row.token # NoToken
  /\ rec.pc \in {"quota", "claim", "release", "record"} => rec.kind \in Kinds

RunsFit == \A r \in Run : RunOk(run[r], people)
LinksFit == \A s \in stops : s.moves <= people[s.who].moves
Fits == MailTypes /\ RunsFit /\ LinksFit /\ StopLinksWork

\* What a step of r may have done to the runs.
Changed(r) ==
  /\ run' \in [Run -> RunType]
  /\ \A q \in Run \ {r} : run'[q] = run[q]
  /\ RunOk(run'[r], people)

LEMMA Written ==
  ASSUME run \in [Run -> RunType], NEW r \in Run, NEW rec \in RunType,
         RunOk(rec, people), Put(r, rec)
  PROVE  Changed(r) /\ run'[r] = rec
<1>1. /\ run' \in [Run -> RunType] /\ run'[r] = rec
      /\ \A q \in Run : q # r => run'[q] = run[q]
  BY RunUpdated
<1> HIDE DEF RunOk
<1> QED BY <1>1 DEF Changed

\* A row read now is good.
LEMMA RowNow ==
  ASSUME people \in [User -> Person], NEW u \in User
  PROVE  RowOk(Row(u), people) /\ Row(u) \in RowType
<1>1. Row(u) \in RowType
  BY RowTypes
<1>2. people[u].moves \in Int
  BY DEF Person, Moves
<1> QED BY <1>1, <1>2 DEF RowOk, Row

\* To the next account, or to the end.
LEMMA GoesOn ==
  ASSUME MailTypes, RunsFit, NEW r \in Run, GoOn(r)
  PROVE  Changed(r) /\ run'[r].pc = "next"
<1> DEFINE rec == Next0(run[r].due, run[r].kind, run[r].day)
<1>1. /\ run \in [Run -> RunType] /\ run[r].due \in SUBSET RowType
      /\ run[r].kind \in Kinds \cup {"preview"} /\ run[r].day \in 0..MaxDay
  <2> HIDE DEF RowType, Kinds
  <2> QED BY DEF MailTypes, RunType
<1>2. /\ rec \in RunType /\ rec.pc = "next" /\ rec.due = run[r].due
  BY <1>1, FreshRun
<1>3. Put(r, rec)
  BY DEF GoOn
<1>4. RunOk(rec, people)
  <2>1. \A row \in rec.due : RowOk(row, people)
    BY <1>2 DEF RunsFit, RunOk
  <2> HIDE DEF rec, RowOk
  <2> QED BY <1>2, <2>1 DEF RunOk, Working
<1> HIDE DEF rec
<1> QED BY <1>1, <1>2, <1>3, <1>4, Written

LEMMA Ends ==
  ASSUME MailTypes, NEW r \in Run, Stop(r)
  PROVE  Changed(r) /\ run'[r].pc = "idle"
<1>1. /\ Idle \in RunType /\ Idle.pc = "idle" /\ Idle.due = {}
  BY IdleType
<1> HIDE DEF Idle, RowOk
<1>2. RunOk(Idle, people)
  BY <1>1 DEF RunOk, Working
<1>3. run \in [Run -> RunType] /\ Put(r, Idle)
  BY DEF Stop, MailTypes
<1> QED BY <1>1, <1>2, <1>3, Written

\* A fresh list of rows.
LEMMA Begins ==
  ASSUME MailTypes, NEW r \in Run, NEW due \in SUBSET RowType, \A row \in due : RowOk(row, people),
         NEW kind \in Kinds \cup {"preview"}, NEW day \in 0..MaxDay,
         Put(r, Next0(due, kind, day))
  PROVE  Changed(r) /\ run'[r].pc = "next"
<1> DEFINE rec == Next0(due, kind, day)
<1>1. rec \in RunType /\ rec.pc = "next" /\ rec.due = due
  BY FreshRun
<1>2. run \in [Run -> RunType] /\ Put(r, rec)
  BY DEF MailTypes
<1> HIDE DEF rec, RowOk
<1>3. RunOk(rec, people)
  BY <1>1 DEF RunOk, Working
<1> QED BY <1>1, <1>2, <1>3, Written

\* The lists of rows a run goes by are rows read now.
LEMMA RowLists ==
  ASSUME people \in [User -> Person], NEW mail, NEW day
  PROVE  /\ DueOf(mail, day) \in SUBSET RowType /\ \A row \in DueOf(mail, day) : RowOk(row, people)
         /\ Everyone \in SUBSET RowType /\ \A row \in Everyone : RowOk(row, people)
<1>1. \A u \in User : RowOk(Row(u), people) /\ Row(u) \in RowType
  BY RowNow
<1>2. \A row \in DueOf(mail, day) : \E u \in User : row = Row(u)
  BY DEF DueOf, Candidates
<1>3. \A row \in Everyone : \E u \in User : row = Row(u)
  BY DEF Everyone
<1> HIDE DEF RowOk, RowType, Row, DueOf, Everyone
<1> QED BY <1>1, <1>2, <1>3

\* What a step of the run r, other than the minting of a token, makes of the runs.
Calm(r) == Changed(r) /\ run'[r].pc \notin {"send", "release"}

LEMMA Starts ==
  ASSUME MailTypes, RunsFit, NEW r \in Run, Start(r)
  PROVE  Calm(r) /\ UNCHANGED <<people, slots, counted, today, sent, unsure, stops>>
<1>1. people \in [User -> Person] /\ run \in [Run -> RunType] /\ today \in 0..MaxDay
  BY DEF MailTypes
<1>2. ASSUME NEW kind \in Kinds, Fire(r, kind)
      PROVE  Calm(r) /\ UNCHANGED <<people, slots, counted, today, sent, unsure, stops>>
  <2>1. CASE kind \in WeekOne
    <3>1. Put(r, Next0(DueOf(kind, today), kind, today))
      BY <1>2, <2>1 DEF Fire
    <3>2. Changed(r) /\ run'[r].pc = "next"
      <4> HIDE DEF RowOk, RowType, DueOf, Put, Next0, MailTypes, Kinds
      <4> QED BY <1>1, <3>1, RowLists, Begins
    <3> QED BY <1>2, <3>2 DEF Fire, Calm
  <2>2. CASE kind \notin WeekOne
    <3>1. Put(r, Next0(Everyone, kind, today))
      BY <1>2, <2>2 DEF Fire
    <3>2. Changed(r) /\ run'[r].pc = "next"
      <4> HIDE DEF RowOk, RowType, Everyone, Put, Next0, MailTypes, Kinds
      <4> QED BY <1>1, <3>1, RowLists, Begins
    <3> QED BY <1>2, <3>2 DEF Fire, Calm
  <2> QED BY <2>1, <2>2
<1>3. ASSUME NEW kind \in Kinds, NEW u \in User, Trigger(r, kind, u)
      PROVE  Calm(r) /\ UNCHANGED <<people, slots, counted, today, sent, unsure, stops>>
  <2>1. Put(r, Next0({Row(u)}, kind, today))
    BY <1>3 DEF Trigger
  <2>2. {Row(u)} \in SUBSET RowType /\ \A row \in {Row(u)} : RowOk(row, people)
    BY <1>1, RowNow
  <2>3. Changed(r) /\ run'[r].pc = "next"
    <3> HIDE DEF RowOk, RowType, Row, Put, Next0, MailTypes, Kinds
    <3> QED BY <1>1, <2>1, <2>2, Begins
  <2> QED BY <1>3, <2>3 DEF Trigger, Calm
<1>4. ASSUME NEW u \in User, Preview(r, u)
      PROVE  Calm(r) /\ UNCHANGED <<people, slots, counted, today, sent, unsure, stops>>
  <2> DEFINE base == Next0({Row(u)}, "preview", today)
             rec  == [base EXCEPT !.pc = "compose"]
  <2>1. Put(r, rec) /\ UNCHANGED <<people, slots, counted, today, sent, unsure, stops>>
    BY <1>4 DEF Preview
  <2>2. {Row(u)} \in SUBSET RowType /\ \A row \in {Row(u)} : RowOk(row, people)
    BY <1>1, RowNow
  <2>3. base \in RunType /\ base.due = {Row(u)}
    <3> HIDE DEF RowType, Row, Next0, Kinds
    <3> QED BY <1>1, <2>2, FreshRun
  <2>4. rec \in RunType /\ rec.due = base.due /\ rec.pc = "compose"
    <3> HIDE DEF base, RowType, Keys, Kinds
    <3> QED BY <2>3 DEF RunType
  <2> HIDE DEF base, rec, RowOk, Row
  <2>5. RunOk(rec, people)
    BY <2>2, <2>3, <2>4 DEF RunOk, Working
  <2> QED BY <1>1, <2>1, <2>4, <2>5, Written DEF Calm
<1> QED BY <1>2, <1>3, <1>4 DEF Start

LEMMA Composes ==
  ASSUME MailTypes, RunsFit, NEW r \in Run, Compose(r)
  PROVE  Calm(r) /\ UNCHANGED <<people, slots, counted, today, sent, unsure, stops>>
<1>1. PICK row \in run[r].due :
        Put(r, [run[r] EXCEPT !.due = {}, !.pc = "token",
                              !.row = [row EXCEPT !.token = people[row.who].token]])
  BY DEF Compose
<1> DEFINE new == [row EXCEPT !.token = people[row.who].token]
           rec == [run[r] EXCEPT !.due = {}, !.pc = "token", !.row = new]
<1>2. people \in [User -> Person] /\ run \in [Run -> RunType]
  BY DEF MailTypes
<1>3. row \in RowType /\ RowOk(row, people)
  BY <1>2, RunEdits DEF RunsFit, RunOk
<1>4. /\ new \in RowType /\ new.who = row.who /\ new.moves = row.moves
      /\ new.token = people[row.who].token
  BY <1>2, <1>3 DEF RowType, Person, RowOk
<1>5. RowOk(new, people)
  BY <1>3, <1>4 DEF RowOk
<1> HIDE DEF new, RowOk, RowType
<1>6. rec \in RunType /\ rec.due = {} /\ rec.row = new /\ rec.pc = "token"
  <2>1. run[r] \in RunType
    BY <1>2
  <2> HIDE DEF Kinds, Keys
  <2> QED BY <1>4, <2>1 DEF RunType
<1> HIDE DEF rec
<1>7. RunOk(rec, people)
  BY <1>5, <1>6 DEF RunOk, Working
<1>8. Put(r, rec)
  BY <1>1 DEF rec, new
<1> QED BY <1>2, <1>6, <1>7, <1>8, Written DEF Calm, Compose

LEMMA Picks ==
  ASSUME MailTypes, RunsFit, NEW r \in Run, Pick(r)
  PROVE  Calm(r) /\ UNCHANGED <<people, slots, counted, today, sent, unsure, stops>>
<1>1. PICK row \in run[r].due :
        \/ Put(r, [run[r] EXCEPT !.due = @ \ {row}, !.row = row, !.pc = "token"])
        \/ Put(r, [run[r] EXCEPT !.due = @ \ {row}])
  BY DEF Pick
<1>2. /\ people \in [User -> Person] /\ run \in [Run -> RunType] /\ run[r] \in RunType
      /\ run[r].pc = "next"
  BY DEF MailTypes, Pick, At
<1>3. row \in RowType /\ RowOk(row, people) /\ \A other \in run[r].due : RowOk(other, people)
  BY <1>2, RunEdits DEF RunsFit, RunOk
<1> HIDE DEF RowOk, RowType, Kinds, Keys
<1>4. ASSUME Put(r, [run[r] EXCEPT !.due = @ \ {row}, !.row = row, !.pc = "token"])
      PROVE  Calm(r)
  <2> DEFINE rec == [run[r] EXCEPT !.due = @ \ {row}, !.row = row, !.pc = "token"]
  <2>1. rec \in RunType /\ rec.due \subseteq run[r].due /\ rec.row = row /\ rec.pc = "token"
    BY <1>2, <1>3 DEF RunType
  <2>2. Put(r, rec)
    BY <1>4
  <2> HIDE DEF rec
  <2>3. RunOk(rec, people)
    BY <1>3, <2>1 DEF RunOk, Working
  <2> QED BY <1>2, <2>1, <2>2, <2>3, Written DEF Calm
<1>5. ASSUME Put(r, [run[r] EXCEPT !.due = @ \ {row}])
      PROVE  Calm(r)
  <2> DEFINE rec == [run[r] EXCEPT !.due = @ \ {row}]
  <2>1. rec \in RunType /\ rec.due \subseteq run[r].due /\ rec.pc = "next"
    BY <1>2, <1>3 DEF RunType
  <2>2. Put(r, rec)
    BY <1>5
  <2> HIDE DEF rec
  <2>3. RunOk(rec, people)
    BY <1>3, <2>1 DEF RunOk, Working
  <2> QED BY <1>2, <2>1, <2>2, <2>3, Written DEF Calm
<1> QED BY <1>1, <1>4, <1>5 DEF Pick

\* A run that goes on with the same row, to a later place.
LEMMA Advances ==
  ASSUME MailTypes, RunsFit, NEW r \in Run, run[r].pc \in Working \ {"token"},
         NEW pc \in Working, NEW key \in Keys, NEW ends \in BOOLEAN,
         pc \in {"quota", "claim", "release", "record"} => run[r].kind \in Kinds,
         Put(r, [run[r] EXCEPT !.pc = pc, !.key = key, !.ends = ends])
  PROVE  /\ Changed(r) /\ run'[r].pc = pc /\ run'[r].key = key
         /\ run'[r].row = run[r].row /\ run'[r].kind = run[r].kind
<1> DEFINE rec == [run[r] EXCEPT !.pc = pc, !.key = key, !.ends = ends]
<1>1. run \in [Run -> RunType] /\ run[r] \in RunType /\ RunOk(run[r], people)
  BY DEF MailTypes, RunsFit
<1> HIDE DEF RowOk, RowType, Kinds, Keys
<1>2. /\ rec \in RunType /\ rec.due = run[r].due /\ rec.row = run[r].row /\ rec.pc = pc
      /\ rec.key = key /\ rec.kind = run[r].kind
  BY <1>1 DEF RunType, Working
<1>3. Put(r, rec)
  OBVIOUS
<1> HIDE DEF rec
<1>4. RunOk(rec, people)
  BY <1>1, <1>2 DEF RunOk, Working
<1> QED BY <1>1, <1>2, <1>3, <1>4, Written

LEMMA SameKey ==
  ASSUME run \in [Run -> RunType], NEW r \in Run, NEW pc
  PROVE  /\ run[r].key \in Keys /\ run[r].ends \in BOOLEAN
         /\ [run[r] EXCEPT !.pc = pc]
              = [run[r] EXCEPT !.pc = pc, !.key = run[r].key, !.ends = run[r].ends]
         /\ \A key : [run[r] EXCEPT !.pc = pc, !.key = key]
                    = [run[r] EXCEPT !.pc = pc, !.key = key, !.ends = run[r].ends]
         /\ \A ends : [run[r] EXCEPT !.pc = pc, !.ends = ends]
                     = [run[r] EXCEPT !.pc = pc, !.key = run[r].key, !.ends = ends]
<1>1. run[r] \in RunType
  OBVIOUS
<1> HIDE DEF RowType, Kinds, Keys
<1> QED BY <1>1 DEF RunType

LEMMA Quotas ==
  ASSUME MailTypes, RunsFit, NEW r \in Run, Quota(r)
  PROVE  Calm(r) /\ UNCHANGED <<people, slots, counted, today, sent, unsure, stops>>
<1>1. CASE Go(r, "claim")
  <2>1. /\ run \in [Run -> RunType] /\ run[r].pc \in Working \ {"token"} /\ "claim" \in Working
        /\ run[r].kind \in Kinds
    BY DEF MailTypes, Quota, At, Working, RunsFit, RunOk
  <2>2. Put(r, [run[r] EXCEPT !.pc = "claim", !.key = run[r].key, !.ends = run[r].ends])
    BY <1>1, <2>1, SameKey DEF Go
  <2>3. Changed(r) /\ run'[r].pc = "claim"
    <3> HIDE DEF MailTypes, RunsFit, Put
    <3> QED BY <2>1, <2>2, SameKey, Advances
  <2> QED BY <2>3 DEF Calm, Quota
<1>2. CASE GoOn(r)
  BY <1>2, GoesOn DEF Calm, Quota
<1> QED BY <1>1, <1>2 DEF Quota

\* A claim that finds its slot free.
Claimed(r) ==
  LET x == <<run[r].row.who, run'[r].key>>
  IN  /\ run[r].kind \in Kinds /\ run'[r].kind = run[r].kind /\ run'[r].row = run[r].row
      /\ run'[r].pc = "send" /\ run'[r].key[1] = run[r].kind
      /\ x \in Slot /\ x \notin slots /\ slots' = slots \cup {x}

LEMMA Claims ==
  ASSUME MailTypes, RunsFit, NEW r \in Run, Claim(r)
  PROVE  /\ UNCHANGED <<people, counted, today, sent, unsure, stops>>
         /\ \/ Calm(r) /\ slots' = slots
            \/ Changed(r) /\ Claimed(r)
<1> DEFINE key == Key(run[r].kind)
<1>1. CASE Free(run[r].row.who, run[r].kind)
  <2>1. /\ run \in [Run -> RunType] /\ run[r].pc \in Working \ {"token"} /\ "send" \in Working
        /\ run[r].kind \in Kinds /\ run[r].row.who \in User /\ today \in 0..MaxDay
    BY DEF MailTypes, Claim, At, Working, RunsFit, RunOk, RowOk
  <2>2. key \in Keys /\ key[1] = run[r].kind
    BY <2>1, KeyType
  <2>3. Put(r, [run[r] EXCEPT !.pc = "send", !.key = key, !.ends = run[r].ends])
    <3>1. Put(r, [run[r] EXCEPT !.pc = "send", !.key = key])
      BY <1>1 DEF Claim
    <3> HIDE DEF key
    <3> QED BY <2>1, <3>1, SameKey
  <2> HIDE DEF key
  <2>4. /\ Changed(r) /\ run'[r].pc = "send" /\ run'[r].key = key
        /\ run'[r].row = run[r].row /\ run'[r].kind = run[r].kind
    <3> HIDE DEF MailTypes, RunsFit, Put
    <3> QED BY <2>1, <2>2, <2>3, SameKey, Advances
  <2>5. /\ <<run[r].row.who, key>> \notin slots
        /\ slots' = slots \cup {<<run[r].row.who, key>>}
    BY <1>1 DEF Claim, Free, key
  <2> QED BY <2>1, <2>2, <2>4, <2>5 DEF Claimed, Claim, Slot
<1>2. CASE ~Free(run[r].row.who, run[r].kind)
  BY <1>2, GoesOn DEF Calm, Claim
<1> QED BY <1>1, <1>2

LEMMA Releases ==
  ASSUME MailTypes, RunsFit, NEW r \in Run, Release(r)
  PROVE  /\ Calm(r) /\ UNCHANGED <<people, counted, today, sent, unsure, stops>>
         /\ slots' = slots \ {<<run[r].row.who, run[r].key>>}
         /\ run[r].pc = "release" /\ run[r].kind \in Kinds
<1>1. GoOn(r) \/ Stop(r)
  BY DEF Release
<1>2. Changed(r) /\ run'[r].pc \in {"next", "idle"}
  BY <1>1, GoesOn, Ends
<1>3. run[r].pc = "release" /\ run[r].kind \in Kinds
  BY DEF Release, At, RunsFit, RunOk
<1> QED BY <1>2, <1>3 DEF Calm, Release

LEMMA Quits ==
  ASSUME MailTypes, RunsFit, NEW r \in Run, GiveUp(r) \/ RecordSend(r)
  PROVE  Calm(r) /\ UNCHANGED <<people, slots, today, sent, unsure, stops>>
<1>1. GoOn(r) \/ Stop(r)
  BY DEF GiveUp, RecordSend
<1>2. Changed(r) /\ run'[r].pc \in {"next", "idle"}
  BY <1>1, GoesOn, Ends
<1> QED BY <1>2 DEF Calm, GiveUp, RecordSend

LEMMA Dones ==
  ASSUME MailTypes, RunsFit, NEW r \in Run, Done(r)
  PROVE  Calm(r) /\ UNCHANGED <<people, slots, counted, today, sent, unsure, stops>>
<1>1. CASE run[r].kind = "day2"
  <2>1. Put(r, Next0(DueOf("day7", run[r].day), "day7", run[r].day))
    BY <1>1 DEF Done
  <2>2. people \in [User -> Person] /\ run[r].day \in 0..MaxDay /\ "day7" \in Kinds \cup {"preview"}
    BY DEF MailTypes, RunType, Kinds, WeekOne
  <2>3. Changed(r) /\ run'[r].pc = "next"
    <3> HIDE DEF RowOk, RowType, DueOf, Put, Next0, MailTypes, Kinds
    <3> QED BY <2>1, <2>2, RowLists, Begins
  <2> QED BY <2>3 DEF Calm, Done
<1>2. CASE run[r].kind # "day2"
  BY <1>2, Ends DEF Calm, Done
<1> QED BY <1>1, <1>2

LEMMA AfterIs ==
  ASSUME NEW kind \in Kinds \cup {"preview"}, NEW answer \in Answers
  PROVE  /\ After(kind, answer) \in {"next", "record", "release"}
         /\ After(kind, answer) = "record" => kind \in Reminders
         /\ After(kind, answer) = "release" =>
              /\ kind \in Kinds /\ answer # "taken"
              /\ kind \in WeekOne => answer \in {"refused", "busy"}
  BY DEF After, Answers, Kinds, Reminders, WeekOne

\* What a send leaves: the mail taken or not, and the run with its slot to give back or not.
Outcome(r, answer, went) ==
  LET row == run[r].row  kind == run[r].kind  x == <<row.who, run[r].key>>
  IN  /\ answer = "taken" => went
      /\ answer \in {"refused", "busy"} => ~went
      /\ sent' = IF went /\ kind \in Kinds THEN [sent EXCEPT ![x] = @ + 1] ELSE sent
      /\ unsure' = IF went /\ kind \in Kinds /\ answer = "failed"
                   THEN [unsure EXCEPT ![x] = @ + 1] ELSE unsure
      /\ stops' = IF went THEN stops \cup {Link(row)} ELSE stops
      /\ \/ Calm(r)
         \/ /\ Changed(r) /\ run'[r].pc = "release" /\ run'[r].key = run[r].key
            /\ run'[r].row = row /\ run'[r].kind = kind
            /\ kind \in Kinds /\ answer # "taken"
            /\ kind \in WeekOne => answer \in {"refused", "busy"}

LEMMA Sends ==
  ASSUME MailTypes, RunsFit, NEW r \in Run, Send(r)
  PROVE  /\ run[r].pc = "send" /\ run[r].row.who \in User /\ run[r].row.token \in Tokens
         /\ run[r].row.moves <= people[run[r].row.who].moves
         /\ UNCHANGED <<people, slots, counted, today>>
         /\ \E answer \in Answers, went \in BOOLEAN : Outcome(r, answer, went)
<1> DEFINE row == run[r].row
           kind == run[r].kind
           x == <<row.who, run[r].key>>
<1>1. /\ run \in [Run -> RunType] /\ run[r].pc = "send" /\ run[r].pc \in Working \ {"token"}
      /\ RowOk(row, people) /\ row.token # NoToken
  BY DEF MailTypes, Send, At, Working, RunsFit, RunOk
<1>2. row \in RowType /\ kind \in Kinds \cup {"preview"}
  <2> HIDE DEF RowType, Kinds
  <2> QED BY <1>1 DEF RunType
<1>3. row.who \in User /\ row.token \in Tokens /\ row.moves <= people[row.who].moves
  BY <1>1, <1>2 DEF RowOk, RowType
<1>4. PICK answer \in Answers, went \in BOOLEAN :
           /\ answer = "taken" => went
           /\ answer \in {"refused", "busy"} => ~went
           /\ sent' = IF went /\ kind \in Kinds THEN [sent EXCEPT ![x] = @ + 1] ELSE sent
           /\ unsure' = IF went /\ kind \in Kinds /\ answer = "failed"
                        THEN [unsure EXCEPT ![x] = @ + 1] ELSE unsure
           /\ stops' = IF went THEN stops \cup {Link(row)} ELSE stops
           /\ IF After(kind, answer) = "next" THEN GoOn(r)
              ELSE Put(r, [run[r] EXCEPT !.pc = After(kind, answer),
                                         !.ends = kind \in WeekOne /\ answer = "busy"])
  BY Zenon DEF Send
<1>5. \/ Calm(r)
      \/ /\ Changed(r) /\ run'[r].pc = "release" /\ run'[r].key = run[r].key
         /\ run'[r].row = row /\ run'[r].kind = kind
         /\ kind \in Kinds /\ answer # "taken"
         /\ kind \in WeekOne => answer \in {"refused", "busy"}
  <2>1. CASE After(kind, answer) = "next"
    <3>1. GoOn(r)
      BY <1>4, <2>1
    <3> QED BY <3>1, GoesOn DEF Calm
  <2>2. CASE After(kind, answer) # "next"
    <3> DEFINE pc == After(kind, answer)
               ends == kind \in WeekOne /\ answer = "busy"
    <3>1. /\ pc \in {"record", "release"} /\ pc \in Working
          /\ pc = "release" => /\ kind \in Kinds /\ answer # "taken"
                               /\ kind \in WeekOne => answer \in {"refused", "busy"}
          /\ kind \in Kinds
      BY <1>2, <2>2, AfterIs DEF Working, Kinds
    <3>2. Put(r, [run[r] EXCEPT !.pc = pc, !.ends = ends]) /\ ends \in BOOLEAN
      BY <1>4, <2>2
    <3> HIDE DEF pc, ends
    <3>3. Put(r, [run[r] EXCEPT !.pc = pc, !.key = run[r].key, !.ends = ends])
      BY <1>1, <3>2, SameKey
    <3>4. /\ Changed(r) /\ run'[r].pc = pc /\ run'[r].key = run[r].key
          /\ run'[r].row = row /\ run'[r].kind = kind
      <4> HIDE DEF MailTypes, RunsFit, Put
      <4> QED BY <1>1, <3>1, <3>2, <3>3, SameKey, Advances
    <3> QED BY <3>1, <3>4 DEF Calm
  <2> QED BY <2>1, <2>2
<1>6. Outcome(r, answer, went)
  BY <1>4, <1>5 DEF Outcome
<1> QED BY <1>1, <1>3, <1>6 DEF Send

\* How the accounts' addresses and tokens may change.
Grown ==
  \A v \in User :
    /\ people[v].moves <= people'[v].moves
    /\ people'[v].moves = people[v].moves /\ people[v].token # NoToken =>
         people'[v].token = people[v].token

LEMMA Carried ==
  ASSUME people \in [User -> Person], people' \in [User -> Person], Grown
  PROVE  \A rec \in RunType : RunOk(rec, people) => RunOk(rec, people')
<1>1. \A v \in User : people[v].moves \in Int /\ people'[v].moves \in Int
  BY DEF Person, Moves
<1>2. \A row \in RowType : row.moves \in Int
  BY DEF RowType, Moves
<1>3. \A row \in RowType : RowOk(row, people) => RowOk(row, people')
  BY <1>1, <1>2 DEF Grown, RowOk
<1>4. \A rec \in RunType : rec.due \subseteq RowType /\ rec.row \in RowType
  <2> HIDE DEF RowType, Keys, Kinds
  <2> QED BY DEF RunType
<1>5. ASSUME NEW rec \in RunType, RunOk(rec, people)
      PROVE  RunOk(rec, people')
  BY <1>3, <1>4, <1>5 DEF RunOk
<1> QED BY <1>5

\* What people do leaves the links they hold theirs, or moves them on.
LEMMA Lives ==
  ASSUME people \in [User -> Person], today \in 0..MaxDay, NEW u \in User, Live(u)
  PROVE  /\ people' \in [User -> Person] /\ Grown
         /\ \A v \in User : people'[v].token \in {people[v].token, NoToken}
         /\ UNCHANGED <<slots, counted, run, today, sent, unsure, stops>>
<1>1. \A v \in User : people[v].moves \in Int /\ people[v] \in Person
  BY DEF Person, Moves
<1>2. CASE Confirm(u)
  <2> DEFINE rec == [people[u] EXCEPT !.day0 = today]
  <2>1. rec \in Person /\ rec.moves = people[u].moves /\ rec.token = people[u].token
    BY <1>1 DEF Person
  <2>2. people' = [people EXCEPT ![u] = rec]
    BY <1>2 DEF Confirm
  <2> HIDE DEF rec
  <2> QED BY <1>1, <1>2, <2>1, <2>2 DEF Confirm, Grown
<1>3. ASSUME NEW address \in Addresses, Move(u, address)
      PROVE  /\ people' \in [User -> Person] /\ Grown
             /\ \A v \in User : people'[v].token \in {people[v].token, NoToken}
             /\ UNCHANGED <<slots, counted, run, today, sent, unsure, stops>>
  <2> DEFINE day0  == IF people[u].day0 = Unconfirmed THEN today ELSE people[u].day0
             moves == people[u].moves + 1
             rec   == [people[u] EXCEPT !.addr = address, !.moves = moves, !.token = NoToken,
                                        !.day0 = day0]
  <2>1. day0 \in {Unconfirmed} \cup 0..MaxDay /\ moves \in Moves
    BY <1>1, <1>3, MailingsAssumption DEF Person, Move, Moves
  <2>2. people' = [people EXCEPT ![u] = rec]
    BY <1>3 DEF Move
  <2>3. moves = people[u].moves + 1
    OBVIOUS
  <2> HIDE DEF moves, day0
  <2>4. rec \in Person /\ rec.moves = moves /\ rec.token = NoToken
    BY <1>1, <2>1 DEF Person
  <2> HIDE DEF rec
  <2>5. /\ people' \in [User -> Person] /\ people'[u] = rec
        /\ \A v \in User \ {u} : people'[v] = people[v]
    BY <2>2, <2>4
  <2>6. Grown
    BY <1>1, <2>3, <2>4, <2>5 DEF Grown
  <2> QED BY <1>3, <2>4, <2>5, <2>6 DEF Move
<1>4. ASSUME NEW switch \in {"off", "weekOff", "wants", "imported"}, NEW on \in BOOLEAN,
             Turn(u, switch, on)
      PROVE  /\ people' \in [User -> Person] /\ Grown
             /\ \A v \in User : people'[v].token = people[v].token
             /\ UNCHANGED <<slots, counted, run, today, sent, unsure, stops>>
  <2> DEFINE rec == [people[u] EXCEPT ![switch] = on]
  <2>1. rec \in Person /\ rec.moves = people[u].moves /\ rec.token = people[u].token
    <3>1. CASE switch = "off"
      BY <1>1, <3>1 DEF Person
    <3>2. CASE switch = "weekOff"
      BY <1>1, <3>2 DEF Person
    <3>3. CASE switch = "wants"
      BY <1>1, <3>3 DEF Person
    <3>4. CASE switch = "imported"
      BY <1>1, <3>4 DEF Person
    <3> QED BY <3>1, <3>2, <3>3, <3>4
  <2>2. people' = [people EXCEPT ![u] = rec]
    BY <1>4 DEF Turn
  <2> HIDE DEF rec
  <2>3. /\ people' \in [User -> Person] /\ people'[u] = rec
        /\ \A v \in User \ {u} : people'[v] = people[v]
    BY <2>1, <2>2
  <2>4. Grown
    BY <1>1, <2>1, <2>3 DEF Grown
  <2> QED BY <1>4, <2>1, <2>3, <2>4 DEF Turn
<1> QED BY <1>2, <1>3, <1>4 DEF Live

\* The token a run goes by: the one its row had, else the one stored, else the new one.
LEMMA Mints ==
  ASSUME MailTypes, RunsFit, NEW r \in Run, NEW new \in Tokens, EnsureToken(r, new)
  PROVE  /\ people' \in [User -> Person] /\ Grown
         /\ run' \in [Run -> RunType] /\ \A q \in Run \ {r} : run'[q] = run[q]
         /\ RunOk(run'[r], people')
         /\ run'[r].pc = "release" \/ run'[r].pc = "send" => run'[r].kind \notin Kinds
         /\ \A v \in User : people'[v].token \in {people[v].token, new}
         /\ \A s \in stops : s.token # new
         /\ UNCHANGED <<slots, counted, today, sent, unsure, stops>>
<1> DEFINE row  == run[r].row
           u    == row.who
           kind == run[r].kind
           kept == IF row.token # NoToken THEN row.token
                   ELSE IF people[u].token # NoToken THEN people[u].token ELSE new
           pc   == AfterToken(kind)
           newRow == [row EXCEPT !.token = kept]
           rec  == [run[r] EXCEPT !.row = newRow, !.pc = pc]
           person == [people[u] EXCEPT !.token = kept]
<1>1. /\ people \in [User -> Person] /\ run \in [Run -> RunType] /\ run[r] \in RunType
      /\ RunOk(run[r], people) /\ RowOk(row, people) /\ run[r].pc = "token" /\ u \in User
  BY DEF MailTypes, EnsureToken, At, Working, RunsFit, RunOk, RowOk
<1>2. row \in RowType /\ kind \in Kinds \cup {"preview"} /\ run[r].due \subseteq RowType
  <2> HIDE DEF RowType, Kinds, Keys
  <2> QED BY <1>1 DEF RunType
<1>3. people[u] \in Person /\ people[u].token \in {NoToken} \cup Tokens /\ kept \in Tokens
      /\ row.token \in {NoToken} \cup Tokens /\ people[u].moves \in Int /\ row.moves \in Int
      /\ kept # NoToken
  BY <1>1, <1>2, RowTypes DEF Person, RowType, Moves
<1>4. /\ pc \in {"quota", "claim", "send"}
      /\ pc \in {"quota", "claim"} => kind \in Kinds
      /\ pc = "send" => kind \notin Kinds
  BY <1>2 DEF AfterToken, Kinds, Reminders, WeekOne
<1>5. /\ people' = IF row.token # NoToken THEN people ELSE [people EXCEPT ![u] = person]
      /\ run' = [run EXCEPT ![r] = rec] /\ Fresh(new)
      /\ UNCHANGED <<slots, counted, today, sent, unsure, stops>>
  BY DEF EnsureToken, Put
<1>6. \/ row.token # NoToken /\ kept = row.token
      \/ row.token = NoToken /\ people[u].token # NoToken /\ kept = people[u].token
      \/ row.token = NoToken /\ people[u].token = NoToken /\ kept = new
  OBVIOUS
<1> HIDE DEF kept, pc
<1>7. /\ newRow \in RowType /\ newRow.who = u /\ newRow.moves = row.moves /\ newRow.token = kept
  BY <1>2, <1>3 DEF RowType
<1>8. /\ person \in Person /\ person.token = kept /\ person.moves = people[u].moves
  BY <1>3 DEF Person
<1> HIDE DEF newRow, person
<1>9. /\ rec \in RunType /\ rec.row = newRow /\ rec.pc = pc /\ rec.kind = kind
      /\ rec.due = run[r].due
  <2> HIDE DEF RowType, Kinds, Keys
  <2> QED BY <1>1, <1>4, <1>7 DEF RunType
<1> HIDE DEF rec
<1>10. /\ run' \in [Run -> RunType] /\ run'[r] = rec
       /\ \A q \in Run \ {r} : run'[q] = run[q]
  BY <1>1, <1>5, <1>9
<1>11. /\ people' \in [User -> Person]
       /\ \A v \in User \ {u} : people'[v] = people[v]
       /\ people'[u] = IF row.token # NoToken THEN people[u] ELSE person
  BY <1>1, <1>5, <1>8
<1>12. Grown
  <2>1. \A v \in User : people[v].moves \in Int
    BY <1>1 DEF Person, Moves
  <2> QED BY <1>6, <1>8, <1>11, <2>1 DEF Grown
<1>13. RunOk(rec, people')
  <2>1. RowOk(newRow, people')
    <3>1. newRow.who \in User /\ newRow.moves <= people'[u].moves
      BY <1>1, <1>7, <1>8, <1>11 DEF RowOk
    <3>2. newRow.moves = people'[u].moves => newRow.token = people'[u].token
      BY <1>1, <1>3, <1>6, <1>7, <1>8, <1>11 DEF RowOk
    <3> QED BY <1>7, <3>1, <3>2 DEF RowOk
  <2>2. RunOk(run[r], people) => \A other \in run[r].due : RowOk(other, people)
    BY DEF RunOk
  <2>3. \A other \in run[r].due : RowOk(other, people')
    <3>1. \A v \in User : people[v].moves \in Int /\ people'[v].moves \in Int
      BY <1>1, <1>11 DEF Person, Moves
    <3>2. \A other \in RowType : other.moves \in Int
      BY DEF RowType, Moves
    <3>3. \A other \in RowType : RowOk(other, people) => RowOk(other, people')
      BY <1>12, <3>1, <3>2 DEF Grown, RowOk
    <3> QED BY <1>1, <1>2, <2>2, <3>3
  <2> HIDE DEF RowOk
  <2> QED BY <1>3, <1>4, <1>7, <1>9, <2>1, <2>3 DEF RunOk, Working
<1>14. \A v \in User : people'[v].token \in {people[v].token, new}
  BY <1>6, <1>8, <1>11
<1>15. \A s \in stops : s.token # new
  BY <1>5 DEF Fresh, Used
<1> QED BY <1>4, <1>5, <1>9, <1>10, <1>11, <1>12, <1>13, <1>14, <1>15
-----------------------------------------------------------------------------
(* Types and links                                                             *)

LEMMA OneMore ==
  ASSUME NEW S, NEW f \in [S -> Nat], NEW x
  PROVE  /\ [f EXCEPT ![x] = f[x] + 1] \in [S -> Nat]
         /\ x \in S => [f EXCEPT ![x] = f[x] + 1][x] = f[x] + 1
         /\ \A y \in S : y # x => [f EXCEPT ![x] = f[x] + 1][y] = f[y]
<1>1. CASE x \in S
  <2>1. f[x] + 1 \in Nat
    BY <1>1
  <2> QED BY <1>1, <2>1
<1>2. CASE x \notin S
  <2>1. [f EXCEPT ![x] = f[x] + 1] = f
    BY <1>2
  <2> QED BY <1>2, <2>1
<1> QED BY <1>1, <1>2

LEMMA RunsKept ==
  ASSUME RunsFit, NEW r \in Run, Changed(r), people' = people
  PROVE  run' \in [Run -> RunType] /\ RunsFit'
<1> HIDE DEF RunOk, RunType
<1> QED BY DEF RunsFit, Changed

LEMMA LinksKept ==
  ASSUME Fits, people' = people, stops' = stops
  PROVE  LinksFit' /\ StopLinksWork'
  BY DEF Fits, LinksFit, StopLinksWork

\* What a step that mints, moves or ends a link may do to the others.
LEMMA LinksGrow ==
  ASSUME Fits, Grown, people' \in [User -> Person], stops' = stops
  PROVE  LinksFit' /\ StopLinksWork'
<1>1. \A s \in stops : s.who \in User /\ s.moves \in Int /\ s.token # NoToken
                     /\ people[s.who].moves \in Int /\ people'[s.who].moves \in Int
  BY RowTypes DEF Fits, MailTypes, LinkType, Person, Moves
<1>2. ASSUME NEW s \in stops
      PROVE  /\ s.moves <= people'[s.who].moves
             /\ s.moves = people'[s.who].moves => s.token = people'[s.who].token
  <2>1. s.moves = people[s.who].moves => s.token = people[s.who].token
    BY DEF Fits, StopLinksWork
  <2>2. people[s.who].moves <= people'[s.who].moves
    BY <1>1 DEF Grown
  <2>3. s.moves <= people[s.who].moves
    BY DEF Fits, LinksFit
  <2> QED BY <1>1, <2>1, <2>2, <2>3 DEF Grown
<1> QED BY <1>2 DEF LinksFit, StopLinksWork

StillEnded == \A s \in stops : s.token # people[s.who].token => s.token # people'[s.who].token

LEMMA FitsStep ==
  ASSUME Fits, [MailNext]_mailVars
  PROVE  Fits' /\ StillEnded
<1>1. MailTypes /\ RunsFit /\ run \in [Run -> RunType] /\ people \in [User -> Person]
  BY DEF Fits, MailTypes
<1>2. ASSUME NEW r \in Run, Changed(r), UNCHANGED <<people, stops>>,
             UNCHANGED <<today, sent, unsure>>,
             slots' \subseteq Slot, counted' \in [User -> Nat]
      PROVE  Fits' /\ StillEnded
  <2>1. run' \in [Run -> RunType] /\ RunsFit'
    BY <1>1, <1>2, RunsKept
  <2>2. LinksFit' /\ StopLinksWork'
    BY <1>2, LinksKept
  <2>3. MailTypes'
    <3> HIDE DEF RunType, Person, Keys
    <3> QED BY <1>1, <1>2, <2>1 DEF MailTypes, Slot
  <2> QED BY <1>2, <2>1, <2>2, <2>3 DEF Fits, StillEnded
<1>3. ASSUME UNCHANGED mailVars
      PROVE  Fits' /\ StillEnded
  <2> HIDE DEF RunOk, RunType, Person, Keys
  <2> QED BY <1>3 DEF mailVars, Fits, MailTypes, RunsFit, LinksFit, StopLinksWork, StillEnded
<1>4. ASSUME NextDay
      PROVE  Fits' /\ StillEnded
  <2>1. today' \in 0..MaxDay
    BY <1>1, <1>4, MailingsAssumption DEF NextDay, MailTypes
  <2> HIDE DEF RunOk, RunType, Person, Keys
  <2> QED BY <1>4, <2>1 DEF NextDay, Fits, MailTypes, RunsFit, LinksFit, StopLinksWork, StillEnded
<1>5. ASSUME NEW u \in User, Live(u)
      PROVE  Fits' /\ StillEnded
  <2>1. /\ people' \in [User -> Person] /\ Grown
        /\ \A v \in User : people'[v].token \in {people[v].token, NoToken}
        /\ UNCHANGED <<slots, counted, run, today, sent, unsure, stops>>
    <3> HIDE DEF Live
    <3> QED BY <1>1, <1>5, Lives DEF MailTypes
  <2>2. RunsFit'
    <3>1. \A rec \in RunType : RunOk(rec, people) => RunOk(rec, people')
      BY <1>1, <2>1, Carried
    <3> HIDE DEF RunOk, RunType
    <3> QED BY <1>1, <2>1, <3>1 DEF RunsFit
  <2>3. LinksFit' /\ StopLinksWork'
    BY <2>1, LinksGrow
  <2>4. MailTypes'
    <3> HIDE DEF RunType, Person, Keys
    <3> QED BY <1>1, <2>1 DEF MailTypes
  <2>5. StillEnded
    BY <1>1, <2>1, RowTypes DEF MailTypes, LinkType, StillEnded
  <2> QED BY <2>2, <2>3, <2>4, <2>5 DEF Fits
<1>6. ASSUME NEW r \in Run, Start(r) \/ Compose(r) \/ Pick(r) \/ Quota(r) \/ Done(r) \/ GiveUp(r)
      PROVE  Fits' /\ StillEnded
  <2>1. Changed(r) /\ UNCHANGED <<people, slots, counted, today, sent, unsure, stops>>
    <3>1. GiveUp(r) => UNCHANGED counted
      BY DEF GiveUp
    <3> HIDE DEF Start, Compose, Pick, Quota, Done, GiveUp
    <3> QED BY <1>1, <1>6, <3>1, Starts, Composes, Picks, Quotas, Dones, Quits DEF Calm
  <2>2. slots' \subseteq Slot /\ counted' \in [User -> Nat]
    BY <1>1, <2>1 DEF MailTypes, Slot
  <2> QED BY <1>2, <2>1, <2>2
<1>7. ASSUME NEW r \in Run, Claim(r)
      PROVE  Fits' /\ StillEnded
  <2>1. /\ Changed(r) /\ UNCHANGED <<people, counted, today, sent, unsure, stops>>
        /\ (slots' = slots) \/ Claimed(r)
    BY <1>1, <1>7, Claims DEF Calm
  <2>2. slots' \subseteq Slot /\ counted' \in [User -> Nat]
    BY <1>1, <2>1 DEF MailTypes, Slot, Claimed
  <2> QED BY <1>2, <2>1, <2>2
<1>8. ASSUME NEW r \in Run, Release(r)
      PROVE  Fits' /\ StillEnded
  <2>1. /\ Changed(r) /\ UNCHANGED <<people, counted, today, sent, unsure, stops>>
        /\ slots' \subseteq slots
    BY <1>1, <1>8, Releases DEF Calm
  <2>2. slots' \subseteq Slot /\ counted' \in [User -> Nat]
    BY <1>1, <2>1 DEF MailTypes, Slot
  <2> QED BY <1>2, <2>1, <2>2
<1>9. ASSUME NEW r \in Run, RecordSend(r)
      PROVE  Fits' /\ StillEnded
  <2>1. Changed(r) /\ UNCHANGED <<people, slots, today, sent, unsure, stops>>
    BY <1>1, <1>9, Quits DEF Calm
  <2>2. slots' \subseteq Slot
    BY <1>1, <2>1 DEF MailTypes, Slot
  <2>3. counted' \in [User -> Nat]
    <3>1. counted \in [User -> Nat]
      BY <1>1 DEF MailTypes
    <3>2. counted' = [counted EXCEPT ![run[r].row.who] = counted[run[r].row.who] + 1]
      BY <1>9 DEF RecordSend
    <3> QED BY <3>1, <3>2, OneMore
  <2> QED BY <1>2, <2>1, <2>2, <2>3
<1>10. ASSUME NEW r \in Run, Send(r)
       PROVE  Fits' /\ StillEnded
  <2> DEFINE row == run[r].row
             link == Link(row)
  <2>1. /\ row.who \in User /\ row.token \in Tokens /\ run[r].pc \in Working
        /\ row.moves <= people[row.who].moves
        /\ UNCHANGED <<people, slots, counted, today>>
    BY <1>1, <1>10, Sends DEF Working
  <2>2. PICK answer \in Answers, went \in BOOLEAN : Outcome(r, answer, went)
    BY <1>1, <1>10, Sends
  <2>3. Changed(r)
    BY <2>2 DEF Outcome, Calm
  <2>4. /\ stops' \in {stops, stops \cup {link}}
        /\ sent' \in {sent, [sent EXCEPT ![<<row.who, run[r].key>>] = @ + 1]}
        /\ unsure' \in {unsure, [unsure EXCEPT ![<<row.who, run[r].key>>] = @ + 1]}
    BY <2>2 DEF Outcome
  <2>5. row \in RowType /\ row.moves \in Moves /\ row.addr \in Addresses
    <3>1. row \in RowType
      BY <1>1, RunEdits
    <3> QED BY <3>1 DEF RowType
  <2>6. row.moves = people[row.who].moves => row.token = people[row.who].token
    BY <1>1, <2>1, RowTypes DEF RunsFit, RunOk, RowOk
  <2>7. /\ link \in LinkType /\ link.who = row.who /\ link.moves = row.moves
        /\ link.token = row.token
    BY <2>1, <2>5 DEF Link, LinkType
  <2>8. run' \in [Run -> RunType] /\ RunsFit'
    BY <1>1, <2>1, <2>3, RunsKept
  <2>9. LinksFit' /\ StopLinksWork'
    <3>1. \A s \in stops' : s \in stops \/ s = link
      BY <2>4
    <3> HIDE DEF link
    <3> QED BY <2>1, <2>6, <2>7, <3>1 DEF Fits, LinksFit, StopLinksWork
  <2>10. sent' \in [Slot -> Nat] /\ unsure' \in [Slot -> Nat]
    <3>1. sent \in [Slot -> Nat] /\ unsure \in [Slot -> Nat]
      BY <1>1 DEF MailTypes, Slot
    <3> QED BY <2>4, <3>1, OneMore
  <2>11. MailTypes'
    <3>1. stops' \subseteq LinkType
      BY <1>1, <2>4, <2>7 DEF MailTypes
    <3> HIDE DEF RunType, Person, Keys
    <3> QED BY <1>1, <2>1, <2>8, <2>10, <3>1 DEF MailTypes, Slot
  <2> QED BY <2>1, <2>8, <2>9, <2>11 DEF Fits, StillEnded
<1>11. ASSUME NEW r \in Run, NEW new \in Tokens, EnsureToken(r, new)
       PROVE  Fits' /\ StillEnded
  <2>1. /\ people' \in [User -> Person] /\ Grown
        /\ run' \in [Run -> RunType] /\ \A q \in Run \ {r} : run'[q] = run[q]
        /\ RunOk(run'[r], people')
        /\ \A v \in User : people'[v].token \in {people[v].token, new}
        /\ \A s \in stops : s.token # new
        /\ UNCHANGED <<slots, counted, today, sent, unsure, stops>>
    <3> HIDE DEF EnsureToken
    <3> QED BY <1>1, <1>11, Mints
  <2>2. RunsFit'
    <3>1. \A rec \in RunType : RunOk(rec, people) => RunOk(rec, people')
      BY <1>1, <2>1, Carried
    <3> HIDE DEF RunOk, RunType
    <3> QED BY <1>1, <2>1, <3>1 DEF RunsFit
  <2>3. LinksFit' /\ StopLinksWork'
    BY <2>1, LinksGrow
  <2>4. MailTypes'
    <3> HIDE DEF RunType, Person, Keys
    <3> QED BY <1>1, <2>1 DEF MailTypes
  <2>5. StillEnded
    BY <1>1, <2>1 DEF MailTypes, LinkType, StillEnded
  <2> QED BY <2>2, <2>3, <2>4, <2>5 DEF Fits
<1>12. ASSUME NEW r \in Run, Start(r) \/ Step(r)
       PROVE  Fits' /\ StillEnded
  <2>1. CASE Start(r) \/ Compose(r) \/ Pick(r) \/ Quota(r) \/ Done(r) \/ GiveUp(r)
    BY <1>6, <2>1
  <2>2. CASE \E new \in Tokens : EnsureToken(r, new)
    BY <1>11, <2>2
  <2>3. CASE Claim(r) \/ Release(r) \/ RecordSend(r) \/ Send(r)
    BY <1>7, <1>8, <1>9, <1>10, <2>3
  <2> QED BY <1>12, <2>1, <2>2, <2>3 DEF Step
<1> QED BY <1>3, <1>4, <1>5, <1>12 DEF MailNext
-----------------------------------------------------------------------------
(* Slots                                                                       *)

\* A run between its claim and its answer, or giving its slot back, and the slot.
Holds(rec) == rec.kind \in Kinds /\ rec.pc \in {"send", "release"}
SlotIn(rec) == <<rec.row.who, rec.key>>

\* Nothing stands in the way of another mail: each that went, a run took for failed.
Clear(x, took, lost) == took[x] <= lost[x] /\ (x[2][1] \in WeekOne => took[x] = 0)

HoldersFit ==
  \A r \in Run : Holds(run[r]) =>
    /\ SlotIn(run[r]) \in slots /\ run[r].key[1] = run[r].kind
    /\ Clear(SlotIn(run[r]), sent, unsure)
OneHolder ==
  \A q, r \in Run : q # r /\ Holds(run[q]) /\ Holds(run[r]) => SlotIn(run[q]) # SlotIn(run[r])
FreeIsClear == \A x \in Slot : x \notin slots => Clear(x, sent, unsure)
AtMostOne ==
  \A x \in Slot : sent[x] <= 1 + unsure[x] /\ (x[2][1] \in WeekOne => sent[x] <= 1)
Once == HoldersFit /\ OneHolder /\ FreeIsClear /\ AtMostOne

LEMMA OnceHolds ==
  ASSUME Once
  PROVE  OnceUnlessUnsure /\ WeekOneOnce
<1>1. OnceUnlessUnsure
  BY DEF Once, AtMostOne, OnceUnlessUnsure, Slot
<1>2. ASSUME NEW u \in User, NEW mail \in WeekOne
      PROVE  sent[<<u, <<mail, 0>>>>] <= 1
  <2> DEFINE x == <<u, <<mail, 0>>>>
  <2>1. x \in Slot /\ x[2][1] = mail
    BY DEF Slot, Keys
  <2> HIDE DEF x
  <2>2. sent[x] <= 1
    BY <2>1 DEF Once, AtMostOne
  <2> QED BY <2>2 DEF x
<1> QED BY <1>1, <1>2 DEF WeekOneOnce

\* A step after which the run holds no slot, and that leaves the slots and counts alone.
LEMMA CalmKeepsOnce ==
  ASSUME Once, NEW r \in Run, \A q \in Run \ {r} : run'[q] = run[q], ~Holds(run'[r]),
         UNCHANGED <<slots, sent, unsure>>
  PROVE  Once'
<1> HIDE DEF Holds, SlotIn, Clear
<1>1. HoldersFit' /\ OneHolder'
  BY DEF Once, HoldersFit, OneHolder
<1>2. FreeIsClear' /\ AtMostOne'
  BY DEF Once, FreeIsClear, AtMostOne
<1> QED BY <1>1, <1>2 DEF Once

LEMMA ClaimKeepsOnce ==
  ASSUME Once, NEW r \in Run, Changed(r), Claimed(r), UNCHANGED <<sent, unsure>>
  PROVE  Once'
<1> DEFINE x == SlotIn(run'[r])
<1>1. /\ x \in Slot /\ x \notin slots /\ slots' = slots \cup {x} /\ Holds(run'[r])
      /\ run'[r].key[1] = run'[r].kind /\ \A q \in Run \ {r} : run'[q] = run[q]
  BY DEF Claimed, Changed, SlotIn, Holds
<1>2. Clear(x, sent, unsure)
  BY <1>1 DEF Once, FreeIsClear
<1>3. \A q \in Run \ {r} : Holds(run[q]) => SlotIn(run[q]) \in slots
  BY DEF Once, HoldersFit
<1> HIDE DEF Holds, SlotIn, Clear
<1>4. HoldersFit'
  BY <1>1, <1>2 DEF Once, HoldersFit
<1>5. OneHolder'
  BY <1>1, <1>3 DEF Once, OneHolder
<1>6. FreeIsClear' /\ AtMostOne'
  BY <1>1 DEF Once, FreeIsClear, AtMostOne
<1> QED BY <1>4, <1>5, <1>6 DEF Once

LEMMA ReleaseKeepsOnce ==
  ASSUME Once, NEW r \in Run, Calm(r), UNCHANGED <<sent, unsure>>, Holds(run[r]),
         slots' = slots \ {SlotIn(run[r])}
  PROVE  Once'
<1> DEFINE x == SlotIn(run[r])
<1>1. ~Holds(run'[r]) /\ \A q \in Run \ {r} : run'[q] = run[q]
  BY DEF Calm, Changed, Holds
<1>2. Clear(x, sent, unsure) /\ \A q \in Run \ {r} : Holds(run[q]) => SlotIn(run[q]) # x
  BY DEF Once, HoldersFit, OneHolder
<1> HIDE DEF Holds, SlotIn, Clear
<1>3. HoldersFit' /\ OneHolder'
  BY <1>1, <1>2 DEF Once, HoldersFit, OneHolder
<1>4. FreeIsClear' /\ AtMostOne'
  BY <1>2 DEF Once, FreeIsClear, AtMostOne
<1> QED BY <1>3, <1>4 DEF Once

LEMMA SendKeepsOnce ==
  ASSUME MailTypes, Once, NEW r \in Run, run[r].pc = "send", run[r].row.who \in User,
         UNCHANGED slots, NEW answer \in Answers, NEW went \in BOOLEAN, Outcome(r, answer, went)
  PROVE  Once'
<1> DEFINE x == SlotIn(run[r])
           kind == run[r].kind
<1>1. sent \in [Slot -> Nat] /\ unsure \in [Slot -> Nat] /\ run \in [Run -> RunType]
  BY DEF MailTypes, Slot
<1>2. x \in Slot /\ x[2] = run[r].key
  <2>1. run[r].key \in Keys
    BY <1>1, SameKey
  <2> QED BY <2>1 DEF SlotIn, Slot
<1>3. Changed(r) /\ \A q \in Run \ {r} : run'[q] = run[q]
  BY DEF Outcome, Calm, Changed
<1>4. CASE kind \notin Kinds
  <2>1. ~Holds(run'[r]) /\ UNCHANGED <<slots, sent, unsure>>
    BY <1>4 DEF Outcome, Calm, Holds
  <2> QED BY <1>3, <2>1, CalmKeepsOnce
<1>5. CASE kind \in Kinds
  <2>1. Holds(run[r]) /\ x \in slots /\ run[r].key[1] = kind /\ Clear(x, sent, unsure)
    BY <1>5 DEF Holds, Once, HoldersFit
  <2>2. /\ sent' = IF went THEN [sent EXCEPT ![x] = sent[x] + 1] ELSE sent
        /\ unsure' = IF went /\ answer = "failed" THEN [unsure EXCEPT ![x] = unsure[x] + 1]
                     ELSE unsure
        /\ answer = "taken" => went
        /\ answer \in {"refused", "busy"} => ~went
        /\ answer \in {"taken", "refused", "busy", "failed"}
    BY <1>5 DEF Outcome, SlotIn, Answers
  <2>3. /\ \A y \in Slot : y # x => sent'[y] = sent[y] /\ unsure'[y] = unsure[y]
        /\ sent'[x] = IF went THEN sent[x] + 1 ELSE sent[x]
        /\ unsure'[x] = IF went /\ answer = "failed" THEN unsure[x] + 1 ELSE unsure[x]
        /\ sent[x] \in Nat /\ unsure[x] \in Nat
    BY <1>1, <1>2, <2>2, OneMore
  <2>4. x[2][1] = kind
    BY <1>2, <2>1
  <2>5. ASSUME Holds(run'[r])
        PROVE  SlotIn(run'[r]) = x /\ run'[r].key[1] = run'[r].kind /\ Clear(x, sent', unsure')
    <3>1. /\ run'[r].pc = "release" /\ run'[r].key = run[r].key
          /\ run'[r].row = run[r].row /\ run'[r].kind = kind
          /\ answer # "taken" /\ (kind \in WeekOne => answer \in {"refused", "busy"})
      BY <2>5 DEF Outcome, Calm, Holds
    <3>2. Clear(x, sent', unsure')
      BY <2>1, <2>2, <2>3, <2>4, <3>1 DEF Clear
    <3> QED BY <2>1, <3>1, <3>2 DEF SlotIn
  <2>6. sent'[x] <= 1 + unsure'[x] /\ (x[2][1] \in WeekOne => sent'[x] <= 1)
    BY <2>1, <2>3 DEF Clear
  <2>7. \A y \in Slot : y # x => (Clear(y, sent, unsure) => Clear(y, sent', unsure'))
    BY <2>3 DEF Clear
  <2>8. AtMostOne'
    BY <2>3, <2>6 DEF Once, AtMostOne
  <2>9. \A q \in Run \ {r} : Holds(run[q]) => SlotIn(run[q]) # x /\ SlotIn(run[q]) \in Slot
    <3>1. slots \subseteq Slot
      BY DEF MailTypes, Slot
    <3> QED BY <2>1, <3>1 DEF Once, HoldersFit, OneHolder
  <2> HIDE DEF Holds, SlotIn, Clear
  <2>10. HoldersFit'
    BY <1>3, <2>1, <2>5, <2>7, <2>9 DEF Once, HoldersFit
  <2>11. OneHolder'
    BY <1>3, <2>5, <2>9 DEF Once, OneHolder
  <2>12. FreeIsClear'
    BY <2>1, <2>7 DEF Once, FreeIsClear
  <2> QED BY <2>8, <2>10, <2>11, <2>12 DEF Once
<1> QED BY <1>4, <1>5

LEMMA OnceStep ==
  ASSUME Fits, Once, [MailNext]_mailVars
  PROVE  Once'
<1>1. MailTypes /\ RunsFit
  BY DEF Fits
<1>2. ASSUME run' = run, UNCHANGED <<slots, sent, unsure>>
      PROVE  Once'
  <2> HIDE DEF Holds, SlotIn, Clear
  <2> QED BY <1>2 DEF Once, HoldersFit, OneHolder, FreeIsClear, AtMostOne
<1>3. ASSUME NEW r \in Run, Calm(r), UNCHANGED <<slots, sent, unsure>>
      PROVE  Once'
  <2>1. ~Holds(run'[r]) /\ \A q \in Run \ {r} : run'[q] = run[q]
    BY <1>3 DEF Calm, Changed, Holds
  <2> QED BY <1>3, <2>1, CalmKeepsOnce
<1>4. ASSUME NEW u \in User, Live(u)
      PROVE  Once'
  <2>1. run' = run /\ UNCHANGED <<slots, sent, unsure>>
    BY <1>1, <1>4, Lives DEF MailTypes
  <2> QED BY <1>2, <2>1
<1>5. ASSUME NextDay \/ UNCHANGED mailVars
      PROVE  Once'
  BY <1>2, <1>5 DEF NextDay, mailVars
<1>6. ASSUME NEW r \in Run, \/ Start(r) \/ Compose(r) \/ Pick(r) \/ Quota(r) \/ Done(r)
                            \/ GiveUp(r) \/ RecordSend(r)
      PROVE  Once'
  <2>1. Calm(r) /\ UNCHANGED <<slots, sent, unsure>>
    BY <1>1, <1>6, Starts, Composes, Picks, Quotas, Dones, Quits
  <2> QED BY <1>3, <2>1
<1>7. ASSUME NEW r \in Run, Claim(r)
      PROVE  Once'
  <2>1. /\ UNCHANGED <<sent, unsure>>
        /\ \/ Calm(r) /\ slots' = slots
           \/ Changed(r) /\ Claimed(r)
    BY <1>1, <1>7, Claims
  <2> QED BY <1>3, <2>1, ClaimKeepsOnce
<1>8. ASSUME NEW r \in Run, Release(r)
      PROVE  Once'
  <2>1. /\ Calm(r) /\ UNCHANGED <<sent, unsure>> /\ Holds(run[r])
        /\ slots' = slots \ {SlotIn(run[r])}
    BY <1>1, <1>8, Releases DEF Holds, SlotIn
  <2> QED BY <2>1, ReleaseKeepsOnce
<1>9. ASSUME NEW r \in Run, Send(r)
      PROVE  Once'
  <2>1. /\ run[r].pc = "send" /\ run[r].row.who \in User /\ UNCHANGED slots
        /\ \E answer \in Answers, went \in BOOLEAN : Outcome(r, answer, went)
    BY <1>1, <1>9, Sends
  <2> QED BY <1>1, <2>1, SendKeepsOnce
<1>10. ASSUME NEW r \in Run, NEW new \in Tokens, EnsureToken(r, new)
       PROVE  Once'
  <2>1. ~Holds(run'[r]) /\ UNCHANGED <<slots, sent, unsure>>
        /\ \A q \in Run \ {r} : run'[q] = run[q]
    BY <1>1, <1>10, Mints DEF Holds
  <2> QED BY <2>1, CalmKeepsOnce
<1>11. ASSUME NEW r \in Run, Start(r) \/ Step(r)
       PROVE  Once'
  <2>1. CASE \/ Start(r) \/ Compose(r) \/ Pick(r) \/ Quota(r) \/ Done(r) \/ GiveUp(r)
             \/ RecordSend(r)
    BY <1>6, <2>1
  <2>2. CASE \E new \in Tokens : EnsureToken(r, new)
    BY <1>10, <2>2
  <2>3. CASE Claim(r) \/ Release(r) \/ Send(r)
    BY <1>7, <1>8, <1>9, <2>3
  <2> QED BY <1>11, <2>1, <2>2, <2>3 DEF Step
<1> QED BY <1>4, <1>5, <1>11 DEF MailNext

LEMMA Initially ==
  ASSUME MailInit
  PROVE  Fits /\ Once
<1>1. /\ Idle \in RunType /\ Idle.pc = "idle" /\ Idle.due = {}
  BY IdleType
<1>2. 0 \in 0..MaxDay /\ 0 \in Addresses /\ 0 \in Moves
  BY MailingsAssumption DEF Addresses, Moves
<1>3. run = [r \in Run |-> Idle] /\ slots = {} /\ stops = {} /\ today = 0
  BY DEF MailInit
<1>4. people \in [User -> Person]
  BY <1>2 DEF MailInit, Person
<1>5. counted \in [User -> Nat] /\ sent = [x \in Slot |-> 0] /\ unsure = [x \in Slot |-> 0]
  BY DEF MailInit, Slot
<1> HIDE DEF Idle, RunType, Person, Keys
<1>6. MailTypes
  BY <1>1, <1>2, <1>3, <1>4, <1>5 DEF MailTypes, Slot
<1>7. RunsFit
  BY <1>1, <1>3 DEF RunsFit, RunOk, Working
<1>8. LinksFit /\ StopLinksWork
  BY <1>3 DEF LinksFit, StopLinksWork
<1>9. Once
  <2>1. \A r \in Run : ~Holds(run[r])
    BY <1>1, <1>3 DEF Holds
  <2>2. \A x \in Slot : sent[x] = 0 /\ unsure[x] = 0
    BY <1>5
  <2> HIDE DEF Holds
  <2> QED BY <2>1, <2>2 DEF Once, HoldersFit, OneHolder, FreeIsClear, AtMostOne, Clear
<1> QED BY <1>6, <1>7, <1>8, <1>9 DEF Fits

\* Every account, slot, run and mail stays of its kind (MailTypes), and a run's rows are
\* rows of accounts there are.
THEOREM MailingsTypes == MailSpec => []MailTypes
<1>1. MailInit => Fits
  BY Initially
<1>2. Fits /\ [MailNext]_mailVars => Fits'
  BY FitsStep
<1>3. Fits => MailTypes
  BY DEF Fits
<1> QED BY <1>1, <1>2, <1>3, PTL DEF MailSpec

LEMMA FitsOnce == MailSpec => [](Fits /\ Once)
<1>1. MailInit => Fits /\ Once
  BY Initially
<1>2. Fits /\ Once /\ [MailNext]_mailVars => (Fits /\ Once)'
  BY FitsStep, OnceStep
<1> QED BY <1>1, <1>2, PTL DEF MailSpec

\* However many runs overlap, stop half-way or never hear from Resend, an account gets
\* each week-one mail once at most (claimWeekOne and sendClaimedOnce of weekOne.ts).
THEOREM WeekOneMailsOnce == MailSpec => []WeekOneOnce
<1>1. Fits /\ Once => WeekOneOnce
  BY OnceHolds
<1> QED BY <1>1, FitsOnce, PTL

\* A reminder goes once for its key, and again only for a send that went unheard
\* (claimReminderSlot and sendClaimed of reminders.ts).
THEOREM RemindersOnce == MailSpec => []OnceUnlessUnsure
<1>1. Fits /\ Once => OnceUnlessUnsure
  BY OnceHolds
<1> QED BY <1>1, FitsOnce, PTL

\* The stop link of a mail is the account's link until its address next changes, to an
\* earlier one as well (ensureUnsubToken of reminders.ts, applyEmailChange of
\* email-change.ts).
THEOREM StopLinks == MailSpec => []StopLinksWork
<1>1. MailInit => Fits
  BY Initially
<1>2. Fits /\ [MailNext]_mailVars => Fits'
  BY FitsStep
<1>3. Fits => StopLinksWork
  BY DEF Fits
<1> QED BY <1>1, <1>2, <1>3, PTL DEF MailSpec

\* A stop link that is not the account's any more never is again.
THEOREM EndedLinks == MailSpec => EndedLinksStayEnded
<1>1. MailInit => Fits
  BY Initially
<1>2. Fits /\ [MailNext]_mailVars => Fits'
  BY FitsStep
<1>3. Fits /\ [MailNext]_mailVars
        => [\A s \in stops : s.token # people[s.who].token => s.token # people'[s.who].token]_mailVars
  BY FitsStep DEF StillEnded
<1> QED BY <1>1, <1>2, <1>3, PTL DEF MailSpec, EndedLinksStayEnded
=============================================================================
