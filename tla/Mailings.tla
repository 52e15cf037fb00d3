------------------------------ MODULE Mailings ------------------------------
(* The scheduled mails: budget alerts, spending reports and bill reminders of   *)
(* reminders.ts, the two week-one mails of weekOne.ts, and the previews Settings *)
(* sends.  A cron may fire twice and a person may start a reminder too, so runs   *)
(* overlap; every await of a run is a step boundary.  Resend may take a mail and  *)
(* the run never hear of it, and an account may move to another address meanwhile.*)
EXTENDS Integers, FiniteSets

CONSTANTS Users,    \* accounts 1..Users, in the order they were made
          Run,      \* crons, manual triggers and previews in progress at once
          Window,   \* Window[mail]: the days after day 0 a week-one mail may go
          Batch,    \* WEEK_ONE_BATCH
          Limit,    \* remindersPerMonth of the accounts' plan
          HalfOf,   \* the half-month each day is in, which a spending report is for
          MaxAddr,  \* the addresses an account moves between: 0..MaxAddr
          MaxDay,   \* bound on days
          MaxMoves  \* bound on changes of an account's address

ASSUME MailingsAssumption ==
  /\ Users \in Nat /\ Batch \in Nat /\ Limit \in Nat /\ MaxAddr \in Nat
  /\ MaxDay \in Nat /\ MaxMoves \in Nat
  /\ HalfOf \in [0..MaxDay -> 0..MaxDay]
  /\ IsFiniteSet(Run) /\ Run # {}
  /\ Window \in [{"day2", "day7"} -> SUBSET Nat]

VARIABLES people,   \* the columns of users a mail goes by, whether each imported, and
                    \* history: how often each moved
          slots,    \* reminder_dedup: <<account, key>>
          counted,  \* reminder_sends, this month
          run,      \* [Run -> the invocation's local state]
          today,
          sent,     \* history: how often Resend took the mail of an account and key
          unsure,   \* history: how often it took one and the run never heard
          stops     \* history: of the mails Resend took, whose, the address, how often the
                    \* account had moved when the run read it, and the token

mailVars == <<people, slots, counted, run, today, sent, unsure, stops>>

User == 1..Users
Reminders == {"budget", "report", "bills"}
WeekOne == {"day2", "day7"}
Kinds == Reminders \cup WeekOne
Keys == (WeekOne \X {0}) \cup (Reminders \X (0..MaxDay))
\* The period a mail goes once in: the day, the half-month, or for a week-one mail ever.
Key(kind) ==
  <<kind, CASE kind \in WeekOne -> 0 [] kind = "report" -> HalfOf[today]
            [] OTHER -> today>>

\* No day 0: the address is not confirmed.  No token: none was minted yet.
Unconfirmed == -1
NoToken == 0
Tokens == 1..(Users + Users * MaxMoves + 1)
Addresses == 0..MaxAddr
Moves == 0..MaxMoves
Person == [day0 : {Unconfirmed} \cup 0..MaxDay, addr : Addresses, moves : Moves,
           token : {NoToken} \cup Tokens,
           off : BOOLEAN, weekOff : BOOLEAN, wants : BOOLEAN, imported : BOOLEAN]

\* A row of users as a run read it.
Row(u) == [who |-> u, addr |-> people[u].addr, moves |-> people[u].moves,
           token |-> people[u].token, off |-> people[u].off]
NoRow == [who |-> 0, addr |-> 0, moves |-> 0, token |-> NoToken, off |-> FALSE]
Next0(due, kind, day) ==
  [pc |-> "next", kind |-> kind, due |-> due, row |-> NoRow, key |-> <<"bills", 0>>,
   day |-> day, ends |-> FALSE]
Idle == [Next0({}, "bills", 0) EXCEPT !.pc = "idle"]

At(r, pc) == run[r].pc = pc
Put(r, rec) == run' = [run EXCEPT ![r] = rec]
Go(r, pc) == Put(r, [run[r] EXCEPT !.pc = pc])
GoOn(r) == Put(r, Next0(run[r].due, run[r].kind, run[r].day))
Stop(r) == Put(r, Idle)

MailInit ==
  /\ people = [u \in User |-> [day0 |-> Unconfirmed, addr |-> 0, moves |-> 0,
                               token |-> NoToken, off |-> FALSE, weekOff |-> FALSE,
                               wants |-> TRUE, imported |-> FALSE]]
  /\ slots = {} /\ counted = [u \in User |-> 0]
  /\ run = [r \in Run |-> Idle] /\ today = 0
  /\ sent = [x \in User \X Keys |-> 0] /\ unsure = [x \in User \X Keys |-> 0]
  /\ stops = {}
-----------------------------------------------------------------------------
(* What people do                                                              *)

\* The address is confirmed: the Welcome claim dates day 0.
Confirm(u) ==
  /\ people[u].day0 = Unconfirmed
  /\ people' = [people EXCEPT ![u].day0 = today]
  /\ UNCHANGED <<slots, counted, run, today, sent, unsure, stops>>

\* applyEmailChange: any address no other account has, one the account had before or (by a
\* link stored while another one moved it) still has included; no unsubscribe token.
Move(u, address) ==
  /\ people[u].moves < MaxMoves
  /\ people' = [people EXCEPT ![u].addr = address, ![u].moves = @ + 1, ![u].token = NoToken,
                              ![u].day0 = IF @ = Unconfirmed THEN today ELSE @]
  /\ UNCHANGED <<slots, counted, run, today, sent, unsure, stops>>

\* POST /api/notifications/unsubscribe for everything ("off") or the week-one list, Send
\* me reminders again, the switches of Settings; an import, and the undo of the only one.
Turn(u, switch, on) ==
  /\ people[u][switch] # on
  /\ people' = [people EXCEPT ![u][switch] = on]
  /\ UNCHANGED <<slots, counted, run, today, sent, unsure, stops>>

NextDay ==
  /\ today < MaxDay
  /\ today' = today + 1
  /\ UNCHANGED <<people, slots, counted, run, sent, unsure, stops>>
-----------------------------------------------------------------------------
(* A run                                                                       *)

Condition(u, mail) == people[u].imported = (mail = "day7")
Candidates(mail, day) ==
  {u \in User : /\ people[u].day0 # Unconfirmed /\ day - people[u].day0 \in Window[mail]
                /\ ~people[u].off /\ ~people[u].weekOff
                /\ <<u, Key(mail)>> \notin slots
                /\ Condition(u, mail)}
Before(u, v) ==
  \/ people[u].day0 < people[v].day0
  \/ people[u].day0 = people[v].day0 /\ u < v
\* The oldest day 0 first, at most a batch of them.
DueOf(mail, day) ==
  LET all == Candidates(mail, day)
  IN  {Row(u) : u \in {v \in all : Cardinality({w \in all : Before(w, v)}) < Batch}}
Everyone == {Row(u) : u \in {v \in User : people[v].day0 # Unconfirmed}}

\* scheduled: runScheduledReminders, and runWeekOneMails on the cron of its own.
Fire(r, kind) ==
  /\ At(r, "idle")
  /\ kind # "day7"
  /\ Put(r, Next0(IF kind \in WeekOne THEN DueOf(kind, today) ELSE Everyone, kind, today))
  /\ UNCHANGED <<people, slots, counted, today, sent, unsure, stops>>

\* POST /api/notifications/trigger: one account, the same sender.
Trigger(r, kind, u) ==
  /\ At(r, "idle")
  /\ kind \in Reminders /\ people[u].day0 # Unconfirmed
  /\ Put(r, Next0({Row(u)}, kind, today))
  /\ UNCHANGED <<people, slots, counted, today, sent, unsure, stops>>

\* POST /api/notifications/test-email with a type: the address is read here, and the
\* token in composeReminderPreview after it.
Preview(r, u) ==
  /\ At(r, "idle")
  /\ people[u].day0 # Unconfirmed
  /\ Put(r, [Next0({Row(u)}, "preview", today) EXCEPT !.pc = "compose"])
  /\ UNCHANGED <<people, slots, counted, today, sent, unsure, stops>>
Compose(r) ==
  /\ At(r, "compose")
  /\ \E row \in run[r].due :
       Put(r, [run[r] EXCEPT !.due = {}, !.pc = "token",
                             !.row = [row EXCEPT !.token = people[row.who].token]])
  /\ UNCHANGED <<people, slots, counted, today, sent, unsure, stops>>

\* The next account, in the rows' order.  A reminder asks whether it unsubscribed, as
\* the row was read, and its switches, as they are.
Pick(r) ==
  /\ At(r, "next")
  /\ \E row \in run[r].due :
       /\ \A other \in run[r].due \ {row} :
            IF run[r].kind \in WeekOne THEN Before(row.who, other.who) ELSE row.who < other.who
       /\ IF run[r].kind \in WeekOne \/ (~row.off /\ people[row.who].wants)
          THEN Put(r, [run[r] EXCEPT !.due = @ \ {row}, !.row = row, !.pc = "token"])
          ELSE Put(r, [run[r] EXCEPT !.due = @ \ {row}])
  /\ UNCHANGED <<people, slots, counted, today, sent, unsure, stops>>

AfterToken(kind) ==
  CASE kind \in Reminders -> "quota" [] kind \in WeekOne -> "claim" [] OTHER -> "send"
\* A random UUID is one nobody has: the first that no account, mail or run holds.
Used(token) ==
  \/ \E u \in User : people[u].token = token
  \/ \E s \in stops : s.token = token
  \/ \E r \in Run : run[r].row.token = token \/ \E row \in run[r].due : row.token = token
Fresh(new) == ~Used(new) /\ \A token \in Tokens : token < new => Used(token)

\* Mutant: the token a run mints replaces the one there is.
OwnToken(r, new) ==
  LET u    == run[r].row.who
      kept == IF run[r].row.token # NoToken THEN run[r].row.token ELSE new
  IN  /\ At(r, "token") /\ Fresh(new)
      /\ people' = IF run[r].row.token # NoToken THEN people
                   ELSE [people EXCEPT ![u].token = kept]
      /\ Put(r, [run[r] EXCEPT !.row.token = kept, !.pc = AfterToken(run[r].kind)])
      /\ UNCHANGED <<slots, counted, today, sent, unsure, stops>>

\* Mutant: a run stores the token it goes by, the one its row had too.
StoreToken(r, new) ==
  LET u    == run[r].row.who
      kept == IF run[r].row.token # NoToken THEN run[r].row.token
              ELSE IF people[u].token # NoToken THEN people[u].token ELSE new
  IN  /\ At(r, "token") /\ Fresh(new)
      /\ people' = [people EXCEPT ![u].token = kept]
      /\ Put(r, [run[r] EXCEPT !.row.token = kept, !.pc = AfterToken(run[r].kind)])
      /\ UNCHANGED <<slots, counted, today, sent, unsure, stops>>

\* ensureUnsubToken: the one the row had, else whichever is stored first.
EnsureToken(r, new) ==
  LET u    == run[r].row.who
      kept == IF run[r].row.token # NoToken THEN run[r].row.token
              ELSE IF people[u].token # NoToken THEN people[u].token ELSE new
  IN  /\ At(r, "token") /\ Fresh(new)
      /\ people' = IF run[r].row.token # NoToken THEN people
                   ELSE [people EXCEPT ![u].token = kept]
      /\ Put(r, [run[r] EXCEPT !.row.token = kept, !.pc = AfterToken(run[r].kind)])
      /\ UNCHANGED <<slots, counted, today, sent, unsure, stops>>

\* withinQuota.
Quota(r) ==
  /\ At(r, "quota")
  /\ IF counted[run[r].row.who] < Limit THEN Go(r, "claim") ELSE GoOn(r)
  /\ UNCHANGED <<people, slots, counted, today, sent, unsure, stops>>

\* Mutant: whoever finds the slot taken sends all the same.
ClaimAnyway(r) ==
  /\ At(r, "claim")
  /\ slots' = slots \cup {<<run[r].row.who, Key(run[r].kind)>>}
  /\ Put(r, [run[r] EXCEPT !.pc = "send", !.key = Key(run[r].kind)])
  /\ UNCHANGED <<people, counted, today, sent, unsure, stops>>

\* INSERT ... ON CONFLICT DO NOTHING; a week-one mail claims while the account still
\* takes it and its condition holds.
Free(u, kind) ==
  /\ <<u, Key(kind)>> \notin slots
  /\ kind \in WeekOne => ~people[u].off /\ ~people[u].weekOff /\ Condition(u, kind)
Claim(r) ==
  LET u == run[r].row.who  key == Key(run[r].kind)
  IN  /\ At(r, "claim")
      /\ IF Free(u, run[r].kind)
         THEN /\ slots' = slots \cup {<<u, key>>}
              /\ Put(r, [run[r] EXCEPT !.pc = "send", !.key = key])
         ELSE GoOn(r) /\ UNCHANGED slots
      /\ UNCHANGED <<people, counted, today, sent, unsure, stops>>

\* sendMail: Resend takes the mail; refuses it (4xx, 429 when there are too many); or fails
\* or says nothing in time, and may have taken it.
Answers == {"taken", "refused", "busy", "failed"}

\* Mutant: a week-one mail that may have gone gives its slot back.
AfterAny(kind, answer) ==
  CASE kind \in Kinds /\ answer # "taken" -> "release"
    [] kind \in Reminders /\ answer = "taken" -> "record"
    [] OTHER -> "next"

Link(row) == [who |-> row.who, addr |-> row.addr, moves |-> row.moves, token |-> row.token]

\* What follows: a reminder not known to have gone gives its slot back (sendClaimed), a
\* week-one mail only when it certainly did not go (sendClaimedOnce).
After(kind, answer) ==
  CASE kind \in WeekOne /\ answer \in {"refused", "busy"} -> "release"
    [] kind \in Reminders /\ answer # "taken" -> "release"
    [] kind \in Reminders /\ answer = "taken" -> "record"
    [] OTHER -> "next"
Send(r) ==
  LET row == run[r].row  kind == run[r].kind  x == <<row.who, run[r].key>>
  IN  /\ At(r, "send")
      /\ \E answer \in Answers, went \in BOOLEAN :
           /\ answer = "taken" => went
           /\ answer \in {"refused", "busy"} => ~went
           /\ sent' = IF went /\ kind \in Kinds THEN [sent EXCEPT ![x] = @ + 1] ELSE sent
           /\ unsure' = IF went /\ kind \in Kinds /\ answer = "failed"
                        THEN [unsure EXCEPT ![x] = @ + 1] ELSE unsure
           /\ stops' = IF went THEN stops \cup {Link(row)} ELSE stops
           /\ IF After(kind, answer) = "next" THEN GoOn(r)
              ELSE Put(r, [run[r] EXCEPT !.pc = After(kind, answer),
                                         !.ends = kind \in WeekOne /\ answer = "busy"])
      /\ UNCHANGED <<people, slots, counted, today>>

\* The slot given back: the next run tries again.  429 ends a week-one run.
Release(r) ==
  /\ At(r, "release")
  /\ slots' = slots \ {<<run[r].row.who, run[r].key>>}
  /\ IF run[r].ends THEN Stop(r) ELSE GoOn(r)
  /\ UNCHANGED <<people, counted, today, sent, unsure, stops>>

RecordSend(r) ==
  /\ At(r, "record")
  /\ counted' = [counted EXCEPT ![run[r].row.who] = @ + 1]
  /\ GoOn(r)
  /\ UNCHANGED <<people, slots, today, sent, unsure, stops>>

\* The last account; day 7 follows day 2.
Done(r) ==
  /\ At(r, "next") /\ run[r].due = {}
  /\ IF run[r].kind = "day2"
     THEN Put(r, Next0(DueOf("day7", run[r].day), "day7", run[r].day))
     ELSE Stop(r)
  /\ UNCHANGED <<people, slots, counted, today, sent, unsure, stops>>

\* There is nothing to say to the account, or a call fails, and the run goes on to the
\* next one; or the run ends where it is.
GiveUp(r) ==
  /\ ~At(r, "idle")
  /\ \/ ~At(r, "next") /\ ~At(r, "compose") /\ GoOn(r)
     \/ Stop(r)
  /\ UNCHANGED <<people, slots, counted, today, sent, unsure, stops>>

Start(r) ==
  \/ \E kind \in Kinds : Fire(r, kind) \/ \E u \in User : Trigger(r, kind, u)
  \/ \E u \in User : Preview(r, u)
Step(r) ==
  \/ Compose(r) \/ Pick(r) \/ Quota(r) \/ Claim(r) \/ Send(r) \/ Release(r) \/ RecordSend(r)
  \/ Done(r) \/ GiveUp(r)
  \/ \E new \in Tokens : EnsureToken(r, new)
Live(u) ==
  \/ Confirm(u) \/ \E address \in Addresses : Move(u, address)
  \/ \E switch \in {"off", "weekOff", "wants", "imported"}, on \in BOOLEAN : Turn(u, switch, on)
MailNext == (\E u \in User : Live(u)) \/ (\E r \in Run : Start(r) \/ Step(r)) \/ NextDay
MailSpec == MailInit /\ [][MailNext]_mailVars
-----------------------------------------------------------------------------
(* Properties                                                                  *)

RowType == [who : 0..Users, addr : Addresses, moves : Moves, token : {NoToken} \cup Tokens,
            off : BOOLEAN]
LinkType == [who : User, addr : Addresses, moves : Moves, token : Tokens]
RunType ==
  [pc : {"idle", "next", "compose", "token", "quota", "claim", "send", "release", "record"},
   kind : Kinds \cup {"preview"}, due : SUBSET RowType, row : RowType, key : Keys,
   day : 0..MaxDay, ends : BOOLEAN]

\* Every account, slot and run holds values of its kind.
MailTypes ==
  /\ people \in [User -> Person]
  /\ slots \subseteq User \X Keys
  /\ counted \in [User -> Nat] /\ run \in [Run -> RunType] /\ today \in 0..MaxDay
  /\ sent \in [User \X Keys -> Nat] /\ unsure \in [User \X Keys -> Nat]
  /\ stops \subseteq LinkType

\* "A duplicate is worse than a mail that never came": a week-one mail goes once at
\* most, however many runs overlap, stop half-way or never hear from Resend.
WeekOneOnce == \A u \in User, mail \in WeekOne : sent[<<u, <<mail, 0>>>>] <= 1

\* A reminder goes once for its day or half-month, and once more only for each time
\* Resend took it and the run did not hear: overlapping runs alone never repeat it.
OnceUnlessUnsure == \A x \in User \X Keys : sent[x] <= 1 + unsure[x]

\* Whichever run minted it, the stop link of a mail works, it carries the account's token,
\* until the account's address next changes after the run read it.  A change back to an
\* earlier address counts as well: it ends the links mailed to that address before.
StopLinksWork ==
  \A s \in stops : s.moves = people[s.who].moves => s.token = people[s.who].token

\* A stop link that stopped being the account's, because its address changed, never
\* becomes its link again, whatever row a run that began before the change goes by.
EndedLinksStayEnded ==
  [][\A s \in stops : s.token # people[s.who].token => s.token # people'[s.who].token]_mailVars

\* The stop link of a mail works while the account has the address the mail went to.
AddressLinksWork ==
  \A s \in stops : s.addr = people[s.who].addr => s.token = people[s.who].token

\* "So the same report is never emailed twice for the same period" (claimReminderSlot).
NeverTwice == \A x \in User \X Keys : sent[x] <= 1
=============================================================================
