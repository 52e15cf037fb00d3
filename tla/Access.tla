------------------------------- MODULE Access -------------------------------
(* The ways into one password account: signing in (password, passkey, Google,  *)
(* emailed code, confirm link), the mailed links and codes, confirming and     *)
(* moving the address, the second factor's challenge, and signing out.  Every  *)
(* await of a handler ends an action, so requests interleave at each database  *)
(* call; a D1 batch is one action.  One account row is modelled.  A link's or  *)
(* a token's expiry by the clock is a choice made where the code tests it.     *)
EXTENDS Naturals, FiniteSets

CONSTANTS Req,              \* requests in flight at once
          Sid,              \* ids of auth_sessions rows
          Pw, FirstPw,      \* passwords; the one typed at sign-up
          Addr, Home,       \* addresses; the one the account starts with
          Ways,             \* "passkey", "totp", "apiToken"
          Routes,           \* the routes requests may take
          MaxVersion,       \* bound on users.token_version
          MaxMail,          \* bound on links and codes mailed
          MaxActiveCodes    \* MAX_ACTIVE_CODES

NoPw == "no password"
Methods == {"none", "session", "mail", "google", "passkey"}
Proofs == Pw \cup Methods

ASSUME AccessAssumption ==
  /\ FirstPw \in Pw /\ Home \in Addr
  /\ Pw \cap (Methods \cup {NoPw}) = {}
  /\ MaxVersion \in Nat /\ MaxMail \in Nat /\ MaxActiveCodes \in Nat

VARIABLES
  version, verified, password, google, address,  \* the users row
  sessions,     \* auth_sessions: [id, grant]
  challenges,   \* fm_2fa cookies handed out: grants
  access,       \* passkeys, TOTP, API tokens: [way, early, epoch]
  mail,         \* password_resets, login_codes, email_verifications
  minted,       \* last row id given to one of them
  welcomed,     \* the reminder_dedup row (user, 'welcome') is there
  welcomes,     \* Welcome mails handed to be sent
  reqs,         \* the requests in flight
  epoch,        \* history: how often everyone was signed out
  cleared,      \* history: a confirmation cleared unconfirmed access
  applied       \* history: the links and codes that took effect

Row == <<version, verified, password, google, address>>
Held == <<sessions, challenges, access>>
Post == <<mail, minted>>
Welcome == <<welcomed, welcomes>>
History == <<epoch, cleared, applied>>
vars == <<Row, Held, Post, Welcome, reqs, History>>

(* A grant is a SignIn of the code: who checked out, and the token_version the *)
(* check read.  proof, epoch and early are history: what was proved, when, and *)
(* whether the address still waited for its link.                              *)
NoGrant == [v |-> 0, epoch |-> 0, proof |-> "none", early |-> FALSE]
Checked(proof) ==
  [v |-> version, epoch |-> epoch, proof |-> proof, early |-> ~verified]

Kinds == {"reset", "code", "confirm", "change"}
Draft(kind, to) ==
  [id |-> 0, kind |-> kind, to |-> to, used |-> FALSE, early |-> FALSE]
Mailed(draft) == [draft EXCEPT !.id = minted + 1, !.early = ~verified]
NoMail == Draft("confirm", Home)

Idle == [pc |-> "idle", by |-> "none", grant |-> NoGrant, mail |-> NoMail]
At(r, pc) == reqs[r].pc = pc
Begin(r, route) == route \in Routes /\ At(r, "idle")
Put(r, rec) == reqs' = [reqs EXCEPT ![r] = rec]
Go(r, pc) == Put(r, [reqs[r] EXCEPT !.pc = pc])
End(r) == Put(r, Idle)

\* emailUnconfirmed
Unconfirmed == ~google /\ ~verified
\* authenticateRequest: the row is there, and its token's version is not behind.
Live == {s \in sessions : s.grant.v >= version}
HasTotp == \E a \in access : a.way = "totp"
Unused(kinds) == {m \in mail : m.kind \in kinds /\ ~m.used}

FirstDevice(i) ==
  [id |-> i, grant |-> [v |-> 1, epoch |-> 0, proof |-> FirstPw, early |-> TRUE]]

Init ==
  /\ version = 1 /\ epoch = 0 /\ google = FALSE /\ address = Home
  /\ password = FirstPw /\ verified \in BOOLEAN
  \* An account that waits may hold what it had before it was asked to wait.
  /\ sessions \in {{}} \cup {{FirstDevice(i)} : i \in Sid}
  /\ access \in SUBSET [way : Ways, early : {TRUE}, epoch : {0}]
  /\ verified => sessions = {} /\ access = {}
  /\ mail = IF verified THEN {} ELSE {[Draft("confirm", Home) EXCEPT !.id = 1, !.early = TRUE]}
  /\ minted = 1 /\ challenges = {} /\ welcomed = verified /\ welcomes = 0
  /\ reqs = [r \in Req |-> Idle] /\ cleared = FALSE /\ applied = {}

-----------------------------------------------------------------------------
(* Signing in                                                                  *)

\* POST /login: the row is read once, with its version; only the right password
\* goes on.  An account that waits needs the link this browser opened.
LoginRead(r) ==
  /\ Begin(r, "login")
  /\ password \in Pw
  /\ Put(r, [Idle EXCEPT !.pc = IF Unconfirmed THEN "marked" ELSE "second",
                         !.by = "login", !.grant = Checked(password)])
  /\ UNCHANGED <<Row, Held, Post, Welcome, History>>

\* confirmWithOwnLink: the marker's link, as read, is a confirm link still unspent.
MarkedLink(r) ==
  /\ At(r, "marked")
  /\ \E m \in Unused({"confirm"}) :
       Put(r, [reqs[r] EXCEPT !.pc = "claim", !.mail = m])
  /\ UNCHANGED <<Row, Held, Post, Welcome, History>>

\* POST /passkeys/login/verify: no challenge, a passkey is two factors.
PasskeyRead(r) ==
  /\ Begin(r, "passkey")
  /\ \E a \in access : a.way = "passkey"
  /\ Put(r, [Idle EXCEPT !.pc = "issue", !.grant = Checked("passkey")])
  /\ UNCHANGED <<Row, Held, Post, Welcome, History>>

\* resolveGoogleUser's look-ups: the account Google signed into, or else the one
\* that has the address Google confirms.
GoogleRead(r) ==
  /\ Begin(r, "google")
  /\ Put(r, IF google
            THEN [Idle EXCEPT !.pc = "second", !.grant = Checked("google")]
            ELSE [Idle EXCEPT !.pc = "join", !.mail = Draft("confirm", address)])
  /\ UNCHANGED <<Row, Held, Post, Welcome, History>>

\* getTotpForLogin: a confirmed TOTP turns the sign-in into a challenge.
SecondFactor(r) ==
  /\ At(r, "second")
  /\ IF HasTotp
     THEN challenges' = challenges \cup {reqs[r].grant} /\ End(r)
     ELSE Go(r, "issue") /\ UNCHANGED challenges
  /\ UNCHANGED <<Row, sessions, access, Post, Welcome, History>>

\* POST /2fa/verify: the challenge carries the first factor's version.
AnswerChallenge(r) ==
  /\ Begin(r, "challenge")
  /\ HasTotp
  /\ \E g \in challenges : Put(r, [Idle EXCEPT !.pc = "issue", !.grant = g])
  /\ UNCHANGED <<Row, Held, Post, Welcome, History>>

\* Mutant: the version is read again when the session is written.
IssueFresh(r) ==
  /\ At(r, "issue")
  /\ \E i \in Sid : /\ \A s \in sessions : s.id # i
                    /\ sessions' = sessions \cup
                         {[id |-> i, grant |-> [reqs[r].grant EXCEPT !.v = version]]}
  /\ End(r)
  /\ UNCHANGED <<Row, challenges, access, Post, Welcome, History>>

\* issueSessionCookie: the row is written only while the version is the one read.
IssueSession(r) ==
  /\ At(r, "issue")
  /\ IF reqs[r].grant.v = version
     THEN \E i \in Sid : /\ \A s \in sessions : s.id # i
                         /\ sessions' = sessions \cup {[id |-> i, grant |-> reqs[r].grant]}
     ELSE UNCHANGED sessions
  /\ End(r)
  /\ UNCHANGED <<Row, challenges, access, Post, Welcome, History>>
-----------------------------------------------------------------------------
(* Confirming the address                                                      *)

\* Mutant: the claim placed after the write that confirms: it finds nothing to claim.
ClaimAfterConfirm == UNCHANGED Welcome

\* claimWelcomeOnConfirm: while the address is unconfirmed, and once.
ClaimWelcomeOnConfirm ==
  /\ welcomed' = (welcomed \/ ~verified)
  /\ welcomes' = IF ~verified /\ ~welcomed THEN welcomes + 1 ELSE welcomes

\* clearUnconfirmedAccess, as its batch finds the row.
ClearedVersion == IF verified THEN version ELSE version + 1
ClearedPassword == IF verified THEN password ELSE NoPw
ClearedMail == IF verified THEN mail ELSE {m \in mail : m.used}

\* Mutant: uNCONFIRMED_ACCESS without the credentials that are not sessions.
ClearSessionsOnly ==
  /\ sessions' = IF verified THEN sessions ELSE {}
  /\ access' = access
  /\ cleared' = (cleared \/ ~verified)

ClearUnconfirmedAccess ==
  /\ sessions' = IF verified THEN sessions ELSE {}
  /\ access' = IF verified THEN access ELSE {}
  /\ cleared' = (cleared \/ ~verified)

\* An unspent row is spent by whoever updates it first.
Spend(m) == mail' = (mail \ {m}) \cup {[m EXCEPT !.used = TRUE]}

\* spendLink's claim; an expired link is spent and does nothing.
ClaimLink(r) ==
  /\ At(r, "claim")
  /\ LET m == reqs[r].mail
     IN IF m \in mail
        THEN Spend(m) /\ (End(r) \/ Go(r, IF m.kind = "change" THEN "move" ELSE "address"))
        ELSE End(r) /\ UNCHANGED mail
  /\ UNCHANGED <<Row, Held, minted, Welcome, History>>

\* spendLink's read: the address is still the one the link was mailed to.
CheckAddress(r) ==
  /\ At(r, "address")
  /\ IF reqs[r].mail.to = address THEN Go(r, "confirm") ELSE End(r)
  /\ UNCHANGED <<Row, Held, Post, Welcome, History>>

\* spendLink's batch.  A password sign-in goes on to its second factor, a
\* sign-up's own browser to its session, a signed-in browser is done.
ConfirmAddress(r) ==
  /\ At(r, "confirm")
  /\ ClaimWelcomeOnConfirm
  /\ verified' = TRUE
  /\ applied' = applied \cup {reqs[r].mail}
  /\ CASE reqs[r].by = "login" -> Go(r, "second")
       [] reqs[r].by = "signup" -> Go(r, "issue")
       [] OTHER -> End(r)
  /\ UNCHANGED <<version, password, google, address, Held, Post, epoch, cleared>>

\* GET /verify-email with the account's own session, and /email-link/finish.
OpenLink(r) ==
  /\ Begin(r, "open")
  /\ Live # {}
  /\ \E m \in Unused({"confirm", "change"}) :
       Put(r, [Idle EXCEPT !.pc = "claim", !.by = "own", !.mail = m])
  /\ UNCHANGED <<Row, Held, Post, Welcome, History>>

\* signInFromSignUp: the sign-up's marker names the address and the password.
OpenFromSignUp(r) ==
  /\ Begin(r, "signup")
  /\ Unconfirmed /\ password = FirstPw
  /\ \E m \in Unused({"confirm"}) :
       /\ m.to = address
       /\ Put(r, [pc |-> "unchallenged", by |-> "signup",
                  grant |-> Checked(password), mail |-> m])
  /\ UNCHANGED <<Row, Held, Post, Welcome, History>>

\* ... and only for an account that asks for no second factor.
Unchallenged(r) ==
  /\ At(r, "unchallenged")
  /\ IF HasTotp THEN End(r) ELSE Go(r, "claim")
  /\ UNCHANGED <<Row, Held, Post, Welcome, History>>

\* resolveGoogleUser's batch: what was set up before goes, the account is linked.
GoogleJoin(r) ==
  /\ At(r, "join")
  /\ ClearedVersion <= MaxVersion
  /\ ClearUnconfirmedAccess
  /\ ClaimWelcomeOnConfirm
  /\ version' = ClearedVersion /\ password' = ClearedPassword
  /\ mail' = ClearedMail /\ epoch' = IF verified THEN epoch ELSE epoch + 1
  /\ google' = TRUE /\ verified' = TRUE
  /\ Put(r, [Idle EXCEPT !.pc = "second",
               !.grant = [v |-> version', epoch |-> epoch', proof |-> "google", early |-> FALSE]])
  /\ UNCHANGED <<address, challenges, minted, applied>>
-----------------------------------------------------------------------------
(* Emailed sign-in codes                                                       *)

\* mailCodeIfAccount, createLoginCode: look up, insert, cap the live set.
CodeLookUp(r) ==
  /\ Begin(r, "code")
  /\ Put(r, [Idle EXCEPT !.pc = "mintCode", !.mail = Draft("code", address)])
  /\ UNCHANGED <<Row, Held, Post, Welcome, History>>

Mint ==
  /\ minted < MaxMail
  /\ minted' = minted + 1

MintCode(r) ==
  /\ At(r, "mintCode")
  /\ Mint
  /\ mail' = mail \cup {Mailed(reqs[r].mail)}
  /\ Go(r, "prune")
  /\ UNCHANGED <<Row, Held, Welcome, History>>

PruneCodes(r) ==
  /\ At(r, "prune")
  /\ LET codes == Unused({"code"})
     IN mail' = mail \ {m \in codes : Cardinality({n \in codes : n.id > m.id}) >= MaxActiveCodes}
  /\ End(r)
  /\ UNCHANGED <<Row, Held, minted, Welcome, History>>

\* verifyLoginCode: the row is read, then claimed.
CodeRead(r) ==
  /\ Begin(r, "code")
  /\ \E m \in Unused({"code"}) : Put(r, [Idle EXCEPT !.pc = "spendCode", !.mail = m])
  /\ UNCHANGED <<Row, Held, Post, Welcome, History>>

SpendCode(r) ==
  /\ At(r, "spendCode")
  /\ IF reqs[r].mail \in mail
     THEN Spend(reqs[r].mail) /\ Go(r, "prove")
     ELSE End(r) /\ UNCHANGED mail
  /\ UNCHANGED <<Row, Held, minted, Welcome, History>>

\* POST /email-code/verify's batch; the session is bound to what it leaves.
ProveByCode(r) ==
  /\ At(r, "prove")
  /\ ClearedVersion <= MaxVersion
  /\ ClearUnconfirmedAccess
  /\ ClaimWelcomeOnConfirm
  /\ version' = ClearedVersion /\ password' = ClearedPassword
  /\ mail' = ClearedMail /\ epoch' = IF verified THEN epoch ELSE epoch + 1
  /\ verified' = TRUE
  /\ applied' = applied \cup {reqs[r].mail}
  /\ Put(r, [Idle EXCEPT !.pc = "second",
               !.grant = [v |-> version', epoch |-> epoch', proof |-> "mail", early |-> FALSE]])
  /\ UNCHANGED <<google, address, challenges, minted>>
-----------------------------------------------------------------------------
(* Resetting the password                                                      *)

\* mailResetLinkIfAccount: look up, end the unused links, insert a new one.
ForgotLookUp(r) ==
  /\ Begin(r, "forgot")
  /\ Put(r, [Idle EXCEPT !.pc = "retire", !.mail = Draft("reset", address)])
  /\ UNCHANGED <<Row, Held, Post, Welcome, History>>

RetireResets(r) ==
  /\ At(r, "retire")
  /\ mail' = mail \ Unused({"reset"})
  /\ Go(r, "mintReset")
  /\ UNCHANGED <<Row, Held, minted, Welcome, History>>

MintReset(r) ==
  /\ At(r, "mintReset")
  /\ Mint
  /\ mail' = mail \cup {Mailed(reqs[r].mail)}
  /\ End(r)
  /\ UNCHANGED <<Row, Held, Welcome, History>>

\* POST /reset-password: read the link, claim it, hash, and one batch.
ResetRead(r) ==
  /\ Begin(r, "reset")
  /\ \E m \in Unused({"reset"}) : Put(r, [Idle EXCEPT !.pc = "spendReset", !.mail = m])
  /\ UNCHANGED <<Row, Held, Post, Welcome, History>>

\* Mutant: the reset's read decides that the link is unspent, its write does not.
SpendResetAlways(r) ==
  /\ At(r, "spendReset")
  /\ Spend(reqs[r].mail) /\ Go(r, "apply")
  /\ UNCHANGED <<Row, Held, minted, Welcome, History>>

SpendReset(r) ==
  /\ At(r, "spendReset")
  /\ IF reqs[r].mail \in mail
     THEN Spend(reqs[r].mail) /\ Go(r, "apply")
     ELSE End(r) /\ UNCHANGED mail
  /\ UNCHANGED <<Row, Held, minted, Welcome, History>>

\* Mutant: the reset sets the password and leaves token_version alone.
ResetKeepsVersion(r) ==
  /\ At(r, "apply")
  /\ ClearedVersion < MaxVersion
  /\ ClearUnconfirmedAccess
  /\ ClaimWelcomeOnConfirm
  /\ version' = ClearedVersion /\ password' \in Pw
  /\ verified' = TRUE /\ epoch' = epoch + 1
  /\ mail' = {m \in ClearedMail : m.used \/ m.kind # "reset"}
  /\ applied' = applied \cup {reqs[r].mail}
  /\ End(r)
  /\ UNCHANGED <<google, address, challenges, minted>>

ApplyReset(r) ==
  /\ At(r, "apply")
  /\ ClearedVersion < MaxVersion
  /\ ClearUnconfirmedAccess
  /\ ClaimWelcomeOnConfirm
  /\ version' = ClearedVersion + 1 /\ password' \in Pw
  /\ verified' = TRUE /\ epoch' = epoch + 1
  /\ mail' = {m \in ClearedMail : m.used \/ m.kind # "reset"}
  /\ applied' = applied \cup {reqs[r].mail}
  /\ End(r)
  /\ UNCHANGED <<google, address, challenges, minted>>
-----------------------------------------------------------------------------
(* Confirm links again, and moving to another address                          *)

\* mailConfirmLinkIfWaiting, and a sign-up at an address that waits: nothing is
\* bound.  POST /resend-verification: bound to the session's check.
ResendLookUp(r) ==
  /\ Begin(r, "resend")
  /\ \/ Unconfirmed /\ Put(r, [Idle EXCEPT !.pc = "mintConfirm", !.mail = Draft("confirm", address)])
     \/ /\ Live # {} /\ ~verified
        /\ Put(r, [Idle EXCEPT !.pc = "mintConfirm", !.by = "own",
                     !.grant = Checked("session"), !.mail = Draft("confirm", address)])
  /\ UNCHANGED <<Row, Held, Post, Welcome, History>>

\* createEmailVerification: one batch, bound when the caller has a session.
MintConfirm(r) ==
  /\ At(r, "mintConfirm")
  /\ IF reqs[r].by = "own" /\ reqs[r].grant.v # version
     THEN UNCHANGED Post
     ELSE /\ Mint
          /\ mail' = (mail \ Unused({"confirm"})) \cup {Mailed(reqs[r].mail)}
  /\ End(r)
  /\ UNCHANGED <<Row, Held, Welcome, History>>

\* sendEmailChangeLink: the session's check, and no other account has the address.
ChangeCheck(r, a) ==
  /\ Begin(r, "change")
  /\ Live # {} /\ ~Unconfirmed /\ a # address
  /\ Put(r, [Idle EXCEPT !.pc = "mintChange", !.grant = Checked("session"),
                         !.mail = Draft("change", a)])
  /\ UNCHANGED <<Row, Held, Post, Welcome, History>>

\* insertEmailVerification, bound.
MintChange(r) ==
  /\ At(r, "mintChange")
  /\ IF reqs[r].grant.v = version
     THEN /\ Mint
          /\ mail' = mail \cup {Mailed(reqs[r].mail)}
          /\ Put(r, [reqs[r] EXCEPT !.pc = "mailChange", !.mail = Mailed(reqs[r].mail)])
     ELSE End(r) /\ UNCHANGED Post
  /\ UNCHANGED <<Row, Held, Welcome, History>>

\* The mail went: every other waiting change ends.
ChangeMailed(r) ==
  /\ At(r, "mailChange")
  /\ mail' = {m \in mail : m \in Unused({"change"}) => m.id = reqs[r].mail.id}
  /\ End(r)
  /\ UNCHANGED <<Row, Held, minted, Welcome, History>>

\* It did not: the new link is dropped.
ChangeNotMailed(r) ==
  /\ At(r, "mailChange")
  /\ mail' = {m \in mail : m.id # reqs[r].mail.id}
  /\ End(r)
  /\ UNCHANGED <<Row, Held, minted, Welcome, History>>

\* cancelEmailChange
CancelChange ==
  /\ "cancel" \in Routes
  /\ Live # {} /\ ~Unconfirmed
  /\ mail' = mail \ Unused({"change"})
  /\ UNCHANGED <<Row, Held, minted, Welcome, reqs, History>>

\* applyEmailChange: the move, and the end of everything else out by mail;
\* or nothing, when another account has the address by now.
ApplyEmailChange(r) ==
  /\ At(r, "move")
  /\ \/ /\ ClaimWelcomeOnConfirm
        /\ address' = reqs[r].mail.to /\ verified' = TRUE
        /\ mail' = {m \in mail : m.used}
        /\ applied' = applied \cup {reqs[r].mail}
     \/ UNCHANGED <<address, verified, mail, Welcome, applied>>
  /\ End(r)
  /\ UNCHANGED <<version, password, google, Held, minted, epoch, cleared>>
-----------------------------------------------------------------------------
(* With a session                                                              *)

\* Adding a passkey, an API token or TOTP: the check, then the bound write.
AddCheck(r) ==
  /\ Begin(r, "add")
  /\ Live # {} /\ ~Unconfirmed
  /\ Put(r, [Idle EXCEPT !.pc = "add", !.grant = Checked("session")])
  /\ UNCHANGED <<Row, Held, Post, Welcome, History>>

\* Mutant: a passkey, token or TOTP written without SAME_TOKEN_VERSION.
AddUnbound(r) ==
  /\ At(r, "add")
  /\ \E w \in Ways :
       /\ \A a \in access : a.way # w
       /\ access' = access \cup {[way |-> w, early |-> reqs[r].grant.early,
                                  epoch |-> reqs[r].grant.epoch]}
  /\ End(r)
  /\ UNCHANGED <<Row, sessions, challenges, Post, Welcome, History>>

AddAccess(r) ==
  /\ At(r, "add")
  /\ IF reqs[r].grant.v = version
     THEN \E w \in Ways :
            /\ \A a \in access : a.way # w
            /\ access' = access \cup {[way |-> w, early |-> reqs[r].grant.early,
                                       epoch |-> reqs[r].grant.epoch]}
     ELSE UNCHANGED access
  /\ End(r)
  /\ UNCHANGED <<Row, sessions, challenges, Post, Welcome, History>>

\* Removing one: a passkey, a token, or TOTP.
RemoveAccess(a) ==
  /\ "add" \in Routes
  /\ Live # {} /\ ~Unconfirmed
  /\ access' = access \ {a}
  /\ UNCHANGED <<Row, sessions, challenges, Post, Welcome, reqs, History>>

\* POST /logout, DELETE /sessions/:id, the sweep of expired rows, and the other
\* devices when TOTP is turned on (TwoFactor has that handler step by step).
EndSession(s) ==
  /\ "end" \in Routes
  /\ sessions' = sessions \ {s}
  /\ UNCHANGED <<Row, challenges, access, Post, Welcome, reqs, History>>

\* POST /logout-all: the check, then one batch.
LogoutAllCheck(r) ==
  /\ Begin(r, "logoutAll")
  /\ Live # {} /\ ~Unconfirmed
  /\ Put(r, [Idle EXCEPT !.pc = "logoutAll"])
  /\ UNCHANGED <<Row, Held, Post, Welcome, History>>

LogoutAll(r) ==
  /\ At(r, "logoutAll")
  /\ version < MaxVersion
  /\ sessions' = {}
  /\ version' = version + 1 /\ epoch' = epoch + 1
  /\ End(r)
  /\ UNCHANGED <<verified, password, google, address, challenges, access, Post, Welcome,
                 cleared, applied>>

\* A request that refuses, or whose worker or database call fails, leaves what
\* its earlier steps wrote.
Stop(r) ==
  /\ ~At(r, "idle")
  /\ End(r)
  /\ UNCHANGED <<Row, Held, Post, Welcome, History>>
-----------------------------------------------------------------------------
SignInStep(r) ==
  \/ LoginRead(r) \/ MarkedLink(r) \/ PasskeyRead(r) \/ SecondFactor(r)
  \/ AnswerChallenge(r) \/ IssueSession(r) \/ GoogleRead(r)

ConfirmStep(r) ==
  \/ ClaimLink(r) \/ CheckAddress(r) \/ ConfirmAddress(r) \/ OpenLink(r)
  \/ OpenFromSignUp(r) \/ Unchallenged(r) \/ GoogleJoin(r)

CodeStep(r) ==
  \/ MintCode(r) \/ PruneCodes(r) \/ CodeRead(r) \/ SpendCode(r) \/ ProveByCode(r)
  \/ CodeLookUp(r)

ResetStep(r) ==
  \/ RetireResets(r) \/ MintReset(r) \/ ResetRead(r) \/ SpendReset(r) \/ ApplyReset(r)
  \/ ForgotLookUp(r)

MailStep(r) ==
  \/ ResendLookUp(r) \/ MintConfirm(r) \/ MintChange(r) \/ ChangeMailed(r)
  \/ ChangeNotMailed(r) \/ ApplyEmailChange(r)
  \/ \E a \in Addr : ChangeCheck(r, a)

SessionStep(r) ==
  \/ AddCheck(r) \/ AddAccess(r) \/ LogoutAllCheck(r) \/ LogoutAll(r) \/ Stop(r)

Next ==
  \/ \E r \in Req : SignInStep(r) \/ ConfirmStep(r) \/ CodeStep(r)
                    \/ ResetStep(r) \/ MailStep(r) \/ SessionStep(r)
  \/ \E s \in sessions : EndSession(s)
  \/ \E a \in access : RemoveAccess(a)
  \/ CancelChange

Spec == Init /\ [][Next]_vars
-----------------------------------------------------------------------------
(* Properties                                                                  *)

GrantType == [v : Nat, epoch : Nat, proof : Proofs, early : BOOLEAN]
MailType == [id : Nat, kind : Kinds, to : Addr, used : BOOLEAN, early : BOOLEAN]
ReqType ==
  [pc : {"idle", "marked", "second", "issue", "join", "claim", "address", "confirm", "move",
         "unchallenged", "mintCode", "prune", "spendCode", "prove", "retire", "mintReset",
         "spendReset", "apply", "mintConfirm", "mintChange", "mailChange", "add", "logoutAll"},
   by : {"none", "login", "signup", "own"}, grant : GrantType, mail : MailType]

\* Every table, cookie and request holds values of its kind.
TypeOK ==
  /\ version \in Nat /\ verified \in BOOLEAN /\ google \in BOOLEAN
  /\ password \in Pw \cup {NoPw} /\ address \in Addr
  /\ sessions \subseteq [id : Sid, grant : GrantType]
  /\ challenges \subseteq GrantType
  /\ access \subseteq [way : Ways, early : BOOLEAN, epoch : Nat]
  /\ mail \subseteq MailType /\ minted \in Nat
  /\ welcomed \in BOOLEAN /\ welcomes \in Nat
  /\ reqs \in [Req -> ReqType]
  /\ epoch \in Nat /\ cleared \in BOOLEAN /\ applied \subseteq MailType

\* A device that is signed in began its sign-in after the last time everyone was
\* signed out: by "sign out everywhere", a reset, or a confirmation that clears.
\* A sign-in that was under way at that moment gets nothing (auth.ts 190-193).
RevocationHolds == \A s \in Live : s.grant.epoch = epoch

\* Once a proof of the mailbox has confirmed the address, nothing set up before
\* opens the account: no device, passkey, TOTP, token, link, code or password
\* (clearUnconfirmedAccess), however the requests that wrote them were timed.
UnconfirmedAccessEnds ==
  cleared => /\ \A s \in Live : ~s.grant.early
             /\ \A a \in access : ~a.early
             /\ \A m \in mail : m.early => m.used
             /\ \/ password = NoPw
                \/ \E m \in applied : m.kind = "reset"

\* A passkey, token or TOTP is added by a session that was not revoked since its
\* check (SAME_TOKEN_VERSION).
AddedWhileTrusted == [][\A a \in access' \ access : a.epoch = epoch]_vars

\* The Welcome goes with the first confirmation, whichever way wins, and once
\* (welcome.ts 9-15).
WelcomeOnce == (verified => welcomed) /\ welcomes <= 1

\* A link or a code takes effect once: one request holds it, and none does after
\* it took effect, whoever else opened it meanwhile.
Holding(r) == reqs[r].pc \in {"address", "confirm", "move", "prove", "apply"}
SpentOnce ==
  \A r \in Req : Holding(r) =>
    /\ reqs[r].mail \notin applied
    /\ \A q \in Req \ {r} : Holding(q) => reqs[q].mail # reqs[r].mail

\* Signing in is the promise of SignIns: a device gets in on a proof that holds
\* when its session is written, and a new password leaves no device in.
Devices == {[id |-> s.id, proof |-> s.grant.proof] : s \in Live}
S == INSTANCE SignIns WITH live <- Devices
Implements == S!Spec
-----------------------------------------------------------------------------
(* What the code's comments say and its interleavings do not keep              *)

\* routes/auth.ts: "Only one active token per user at a time."
OneActiveResetLink == Cardinality(Unused({"reset"})) <= 1

\* email-change.ts: the move is the end of "the password reset links and sign-in
\* codes that address was sent".
MailToCurrentAddress == \A m \in Unused({"reset", "code"}) : m.to = address

\* routes/auth.ts: GET /sessions lists "where this account is signed in".
ListedSessionsLive == \A s \in sessions : s \in Live

\* resolveGoogleUser: "Link to an existing account with the same verified email."
GoogleJoinsItsAddress ==
  [][google' /\ ~google => \E r \in Req : At(r, "join") /\ reqs[r].mail.to = address]_vars

\* sendEmailChangeLink: a link that was mailed "replaces any change still
\* waiting", so that once it is mailed it waits itself.
MailedChangeWaits ==
  [][\A r \in Req : ChangeMailed(r) => \E m \in mail : m.id = reqs[r].mail.id]_vars
=============================================================================
