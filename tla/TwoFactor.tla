------------------------------ MODULE TwoFactor ------------------------------
(* The TOTP of one account, step by step: setting up, turning on and off, the   *)
(* code at sign-in and the recovery codes.  Every database call is an action,   *)
(* so requests interleave between them.  A code is the secret and the step it   *)
(* was shown for.  Access has the sign-ins around it; here a first factor is    *)
(* always right, and an account's address is confirmed.                         *)
EXTENDS Integers

CONSTANTS Req,            \* requests in flight at once
          Sid,            \* ids of auth_sessions rows
          Sheet,          \* the codes of one sheet
          Faults,         \* requests may end early
          MaxSecrets,     \* bound on setups
          MaxSheets,      \* bound on sheets handed out
          MaxStep,        \* bound on the clock, in TOTP steps
          MaxVersion      \* bound on users.token_version

ASSUME TwoFactorAssumption ==
  /\ Faults \in BOOLEAN
  /\ MaxSecrets \in Nat /\ MaxSheets \in Nat /\ MaxStep \in Nat /\ MaxVersion \in Nat

VARIABLES
  version,      \* users.token_version
  totp,         \* the totp_credentials row
  codes,        \* recovery_codes: [sheet, code, used]
  sessions,     \* auth_sessions: [id, v, factors]
  challenges,   \* fm_2fa cookies handed out: the version each carries
  reqs,         \* the requests in flight
  secrets,      \* last secret generated
  sheets,       \* last sheet generated
  now,          \* the clock, in steps of 30 seconds
  spent,        \* history: how often each code of the app got something
  redeemed,     \* history: how often each recovery code did
  alone         \* whether one request runs at a time, and to its end

History == <<spent, redeemed>>
vars == <<version, totp, codes, sessions, challenges, reqs, secrets, sheets, now, History, alone>>

\* Secret 0 is no row; last is last_used_step, -1 for NULL.
NoTotp == [secret |-> 0, on |-> FALSE, last |-> -1]
Pending(secret) == [secret |-> secret, on |-> FALSE, last |-> -1]

AppCodes == [secret : 1..MaxSecrets, step : 0..MaxStep]
PaperCodes == [sheet : 1..MaxSheets, code : Sheet]

Idle == [pc |-> "idle", v |-> 0, factors |-> "none", for |-> "issue", read |-> NoTotp,
         step |-> -1, own |-> {}]
At(r, pc) == reqs[r].pc = pc
Put(r, rec) == reqs' = [reqs EXCEPT ![r] = rec]
Go(r, pc) == Put(r, [reqs[r] EXCEPT !.pc = pc])
End(r) == Put(r, Idle)

Live == {s \in sessions : s.v = version}
Window == {s \in 0..MaxStep : now - 1 <= s /\ s <= now + 1}
AtLeast(a, b) == IF a >= b THEN a ELSE b

\* markTotpStepUsed, which names the account and not the secret.
Mark(step) == [totp EXCEPT !.last = AtLeast(totp.last, step)]
Got(secret, step) ==
  /\ spent' = [spent EXCEPT ![[secret |-> secret, step |-> step]] = @ + 1]
  /\ UNCHANGED redeemed
GotPaper(c) ==
  /\ redeemed' = [redeemed EXCEPT ![[sheet |-> c.sheet, code |-> c.code]] = @ + 1]
  /\ UNCHANGED spent

Init ==
  /\ version = 1 /\ totp = NoTotp /\ codes = {} /\ sessions = {} /\ challenges = {}
  /\ reqs = [r \in Req |-> Idle] /\ secrets = 0 /\ sheets = 0 /\ now = 0
  /\ spent = [c \in AppCodes |-> 0] /\ redeemed = [c \in PaperCodes |-> 0]
  /\ alone \in BOOLEAN
-----------------------------------------------------------------------------
(* Signing in                                                                  *)

\* The first factor, with the version it read.
FirstFactor(r) ==
  /\ At(r, "idle")
  /\ Put(r, [Idle EXCEPT !.pc = "second", !.v = version, !.factors = "one"])
  /\ UNCHANGED <<version, totp, codes, sessions, challenges, secrets, sheets, now, History>>

\* getTotpForLogin: only an enrolment that is on asks for a challenge.
SecondFactor(r) ==
  /\ At(r, "second")
  /\ IF totp.on
     THEN challenges' = challenges \cup {reqs[r].v} /\ End(r)
     ELSE Go(r, "issue") /\ UNCHANGED challenges
  /\ UNCHANGED <<version, totp, codes, sessions, secrets, sheets, now, History>>

\* issueSessionCookie, bound to the version.
IssueSession(r) ==
  /\ At(r, "issue")
  /\ IF reqs[r].v = version
     THEN \E i \in Sid :
            /\ \A s \in sessions : s.id # i
            /\ sessions' = sessions \cup {[id |-> i, v |-> version, factors |-> reqs[r].factors]}
     ELSE UNCHANGED sessions
  /\ End(r)
  /\ UNCHANGED <<version, totp, codes, challenges, secrets, sheets, now, History>>

\* verifySecondFactor's read, for a challenge or for turning TOTP off.
ReadTotp(r) ==
  /\ At(r, "idle")
  /\ totp.on
  /\ \/ \E v \in challenges :
          Put(r, [Idle EXCEPT !.pc = "prove", !.v = v, !.factors = "two", !.for = "issue", !.read = totp])
     \/ /\ Live # {}
        /\ Put(r, [Idle EXCEPT !.pc = "prove", !.for = "drop", !.read = totp])
  /\ UNCHANGED <<version, totp, codes, sessions, challenges, secrets, sheets, now, History>>

\* A code of the app: the secret and the last used step are the ones read.
FirstFree(read) == read.last + 1
AcceptAppCode(r) ==
  /\ At(r, "prove")
  /\ \E step \in Window :
       /\ step >= FirstFree(reqs[r].read)
       /\ Got(reqs[r].read.secret, step)
       /\ totp' = IF totp.secret = 0 THEN totp ELSE Mark(step)
  /\ Go(r, reqs[r].for)
  /\ UNCHANGED <<version, codes, sessions, challenges, secrets, sheets, now>>

\* Mutant: the recovery code is spent by its id, whoever read it before.
PaperCodeUnclaimed(r) ==
  /\ At(r, "prove")
  /\ \E c \in codes :
       /\ codes' = (codes \ {c}) \cup {[c EXCEPT !.used = TRUE]}
       /\ GotPaper(c)
  /\ Go(r, reqs[r].for)
  /\ UNCHANGED <<version, totp, sessions, challenges, secrets, sheets, now>>

\* consumeRecoveryCode: the UPDATE is the claim.
AcceptPaperCode(r) ==
  /\ At(r, "prove")
  /\ \E c \in codes :
       /\ ~c.used
       /\ codes' = (codes \ {c}) \cup {[c EXCEPT !.used = TRUE]}
       /\ GotPaper(c)
  /\ Go(r, reqs[r].for)
  /\ UNCHANGED <<version, totp, sessions, challenges, secrets, sheets, now>>

\* A code that does not match, or that another request has used.
RefuseCode(r) ==
  /\ At(r, "prove")
  /\ End(r)
  /\ UNCHANGED <<version, totp, codes, sessions, challenges, secrets, sheets, now, History>>
-----------------------------------------------------------------------------
(* Settings                                                                    *)

\* POST /2fa/setup: refused while TOTP is on, then one bound upsert that a row
\* that is on does not take.
SetupCheck(r) ==
  /\ At(r, "idle")
  /\ Live # {} /\ ~totp.on
  /\ Put(r, [Idle EXCEPT !.pc = "enroll", !.v = version])
  /\ UNCHANGED <<version, totp, codes, sessions, challenges, secrets, sheets, now, History>>

\* Mutant: the upsert without WHERE confirmed_at IS NULL: the route's check decides.
EnrollOverwrites(r) ==
  /\ At(r, "enroll")
  /\ IF reqs[r].v = version
     THEN /\ secrets < MaxSecrets
          /\ secrets' = secrets + 1
          /\ totp' = Pending(secrets')
     ELSE UNCHANGED <<totp, secrets>>
  /\ End(r)
  /\ UNCHANGED <<version, codes, sessions, challenges, sheets, now, History>>

Enroll(r) ==
  /\ At(r, "enroll")
  /\ IF reqs[r].v = version /\ ~totp.on
     THEN /\ secrets < MaxSecrets
          /\ secrets' = secrets + 1
          /\ totp' = Pending(secrets')
     ELSE UNCHANGED <<totp, secrets>>
  /\ End(r)
  /\ UNCHANGED <<version, codes, sessions, challenges, sheets, now, History>>

\* POST /2fa/enable: the pending secret is read and the typed code checked.
EnableRead(r) ==
  /\ At(r, "idle")
  /\ totp.secret # 0 /\ ~totp.on
  /\ \E s \in Live, step \in Window :
       Put(r, [Idle EXCEPT !.pc = "turnOn", !.v = version, !.read = totp,
                           !.step = step, !.own = {s.id}])
  /\ UNCHANGED <<version, totp, codes, sessions, challenges, secrets, sheets, now, History>>

\* turnOnTotp: one batch.  Each statement asks for the version only.
NewSheet == [sheet : {sheets + 1}, code : Sheet, used : {FALSE}]
TurnOn(r) ==
  /\ At(r, "turnOn")
  /\ IF reqs[r].v = version
     THEN /\ sheets < MaxSheets
          /\ sheets' = sheets + 1
          /\ codes' = NewSheet
          /\ IF totp.secret # 0
             THEN /\ totp' = [totp EXCEPT !.on = TRUE]
                  /\ Got(reqs[r].read.secret, reqs[r].step)
                  /\ Go(r, "mark")
             ELSE End(r) /\ UNCHANGED <<totp, History>>
     ELSE End(r) /\ UNCHANGED <<totp, codes, sheets, History>>
  /\ UNCHANGED <<version, sessions, challenges, secrets, now>>

MarkEnrolled(r) ==
  /\ At(r, "mark")
  /\ totp' = IF totp.secret = 0 THEN totp ELSE Mark(reqs[r].step)
  /\ Go(r, "others")
  /\ UNCHANGED <<version, codes, sessions, challenges, secrets, sheets, now, History>>

\* Mutant: the statement ends the enrolling session instead of the others.
EndOwn(r) ==
  /\ At(r, "others")
  /\ sessions' = {s \in sessions : s.id \notin reqs[r].own}
  /\ End(r)
  /\ UNCHANGED <<version, totp, codes, challenges, secrets, sheets, now, History>>

\* Only the enrolling session survives, and it has shown the second factor.
EndOthers(r) ==
  /\ At(r, "others")
  /\ sessions' = {[s EXCEPT !.factors = "two"] : s \in {t \in sessions : t.id \in reqs[r].own}}
  /\ End(r)
  /\ UNCHANGED <<version, totp, codes, challenges, secrets, sheets, now, History>>

\* disableTotp: one batch.
Drop(r) ==
  /\ At(r, "drop")
  /\ totp' = NoTotp /\ codes' = {}
  /\ End(r)
  /\ UNCHANGED <<version, sessions, challenges, secrets, sheets, now, History>>
-----------------------------------------------------------------------------
\* POST /logout-all, and a password reset of a confirmed account.
SignOutEverywhere ==
  /\ version < MaxVersion
  /\ version' = version + 1 /\ sessions' = {}
  /\ UNCHANGED <<totp, codes, challenges, reqs, secrets, sheets, now, History>>

Tick ==
  /\ now < MaxStep
  /\ now' = now + 1
  /\ UNCHANGED <<version, totp, codes, sessions, challenges, reqs, secrets, sheets, History>>

\* The invocation or its database call fails; its earlier writes stay.
Fail(r) ==
  /\ Faults /\ ~At(r, "idle")
  /\ End(r)
  /\ UNCHANGED <<version, totp, codes, sessions, challenges, secrets, sheets, now, History>>

SignInStep(r) == \/ FirstFactor(r) \/ SecondFactor(r) \/ IssueSession(r) \/ ReadTotp(r)
                 \/ AcceptAppCode(r) \/ AcceptPaperCode(r) \/ RefuseCode(r)
SettingsStep(r) == \/ SetupCheck(r) \/ Enroll(r) \/ EnableRead(r) \/ TurnOn(r)
                   \/ MarkEnrolled(r) \/ EndOthers(r) \/ Drop(r)
OneAtWork == \A q, r \in Req : At(q, "idle") \/ At(r, "idle") \/ q = r
Next ==
  /\ \/ \E r \in Req : SignInStep(r) \/ SettingsStep(r) \/ (~alone /\ Fail(r))
     \/ SignOutEverywhere \/ Tick
  /\ alone => OneAtWork'
  /\ UNCHANGED alone

Spec == Init /\ [][Next]_vars
-----------------------------------------------------------------------------
(* Properties                                                                  *)

TotpType == [secret : Nat, on : BOOLEAN, last : Int]
ReqType ==
  [pc : {"idle", "second", "issue", "prove", "drop", "enroll", "turnOn", "mark", "others"},
   v : Nat, factors : {"none", "one", "two"}, for : {"issue", "drop"},
   read : TotpType, step : Int, own : SUBSET Sid]

\* Every row, cookie and request holds values of its kind.
TypeOK ==
  /\ version \in Nat /\ totp \in TotpType
  /\ codes \subseteq [sheet : Nat, code : Sheet, used : BOOLEAN]
  /\ sessions \subseteq [id : Sid, v : Nat, factors : {"none", "one", "two"}]
  /\ challenges \subseteq Nat
  /\ reqs \in [Req -> ReqType]
  /\ secrets \in Nat /\ sheets \in Nat /\ now \in Nat
  /\ spent \in [AppCodes -> Nat] /\ redeemed \in [PaperCodes -> Nat] /\ alone \in BOOLEAN

\* A recovery code gets one sign-in, or one change of settings, and no more,
\* whatever sheets replace each other meanwhile (consumeRecoveryCode).
PaperCodeOnce == \A c \in PaperCodes : redeemed[c] <= 1

\* An enrolment that is on is ended by turning it off and by nothing else: a
\* setup that was checked before does not replace its secret (enrollTotp).
EnrolmentStands ==
  [][totp.on => \/ totp'.on /\ totp'.secret = totp.secret
                \/ totp' = NoTotp]_vars

\* The last used step of a secret never goes back, in whatever order the
\* requests that accepted codes mark theirs (markTotpStepUsed).
StepNeverRewinds == [][totp'.secret = totp.secret => totp'.last >= totp.last]_vars

\* A code of the app gets one thing, once (test: "the same TOTP code is never
\* accepted twice (anti-replay)"): two requests at once break it.
AppCodeOnce == \A c \in AppCodes : spent[c] <= 1

\* While TOTP is on nobody is in on one factor: what came before went when it was
\* turned on, and "the password alone must not buy a session for a 2FA account"
\* (routes/auth.ts).  One request at a time keeps it.
Enabling == \E r \in Req : reqs[r].pc \in {"mark", "others"}
NobodyInOnOneFactor == totp.on /\ ~Enabling => \A s \in Live : s.factors = "two"
NobodyInOnOneFactorAlone == alone => NobodyInOnOneFactor
-----------------------------------------------------------------------------
(* What the comments say and interleavings do not keep                         *)

\* turnOnTotp: "False when the account moved on, and then nothing changed."
RefusedTurnOnChangesNothing ==
  [][\A r \in Req : TurnOn(r) /\ reqs'[r].pc = "idle" => UNCHANGED <<totp, codes>>]_vars

\* Migration 0028: confirmed_at is NULL between "show the QR" and "user typed a
\* valid code", and "an abandoned setup must never lock anyone out".
OnAfterItsCode ==
  totp.on => \E c \in AppCodes : c.secret = totp.secret /\ spent[c] > 0
=============================================================================
