---------------------------- MODULE AccessProofs ----------------------------
(* Theorems about Access, for every number of requests, sessions, addresses,   *)
(* passwords and links.                                                        *)
EXTENDS Access, TLAPS

USE AccessAssumption

\* What a request may hold.
LEMMA Shapes ==
  /\ NoGrant \in GrantType /\ NoMail \in MailType /\ Idle \in ReqType
  /\ \A kind \in Kinds, a \in Addr : Draft(kind, a) \in MailType
  BY DEF NoGrant, NoMail, Idle, Draft, GrantType, MailType, ReqType, Kinds, Proofs, Methods

LEMMA CheckedTyped ==
  ASSUME TypeOK, NEW proof \in Proofs
  PROVE  Checked(proof) \in GrantType
  BY DEF TypeOK, Checked, GrantType

LEMMA MailedTyped ==
  ASSUME TypeOK, NEW m \in MailType
  PROVE  Mailed(m) \in MailType /\ [m EXCEPT !.used = TRUE] \in MailType
<1> DEFINE n == minted + 1
           e == ~verified
<1>1. n \in Nat /\ e \in BOOLEAN BY DEF TypeOK
<1>2. [m EXCEPT !.id = n] \in MailType BY <1>1 DEF MailType
<1>3. [[m EXCEPT !.id = n] EXCEPT !.early = e] \in MailType BY <1>1, <1>2 DEF MailType
<1>4. Mailed(m) = [[m EXCEPT !.id = n] EXCEPT !.early = e] BY <1>1 DEF Mailed, MailType
<1>5. [m EXCEPT !.used = TRUE] \in MailType BY DEF MailType
<1> QED BY <1>3, <1>4, <1>5

LEMMA PutTyped ==
  ASSUME TypeOK, NEW r \in Req, NEW rec \in ReqType, Put(r, rec)
  PROVE  reqs' \in [Req -> ReqType]
  BY DEF TypeOK, Put

LEMMA GoTyped ==
  ASSUME TypeOK, NEW r \in Req, NEW pc \in {"second", "issue", "claim", "address", "confirm", "move",
         "prune", "prove", "mintReset", "apply"}, Go(r, pc)
  PROVE  reqs' \in [Req -> ReqType]
<1>1. reqs[r] \in ReqType BY DEF TypeOK
<1>2. [reqs[r] EXCEPT !.pc = pc] \in ReqType BY <1>1 DEF ReqType
<1> QED BY <1>2, PutTyped DEF Go

LEMMA EndTyped ==
  ASSUME TypeOK, NEW r \in Req, End(r)
  PROVE  reqs' \in [Req -> ReqType]
  BY PutTyped, Shapes DEF End

\* What a batch that begins with clearUnconfirmedAccess leaves, apart from the version.
ClearedTyped ==
  /\ password \in Pw \cup {NoPw} /\ mail \subseteq MailType
  /\ sessions \subseteq [id : Sid, grant : GrantType]
  /\ access \subseteq [way : Ways, early : BOOLEAN, epoch : Nat]
  /\ welcomed \in BOOLEAN /\ welcomes \in Nat /\ cleared \in BOOLEAN

LEMMA SignInTyped ==
  ASSUME TypeOK, NEW r \in Req, SignInStep(r)
  PROVE  TypeOK'
<1>0. reqs[r] \in ReqType /\ reqs[r].grant \in GrantType BY DEF TypeOK, ReqType
<1>1. CASE LoginRead(r)
  <2>1. Checked(password) \in GrantType BY <1>1, CheckedTyped DEF LoginRead, Proofs
  <2> DEFINE rec == [Idle EXCEPT !.pc = IF Unconfirmed THEN "marked" ELSE "second",
                         !.by = "login", !.grant = Checked(password)]
  <2>2. rec \in ReqType BY <2>1, Shapes DEF ReqType
  <2>3. reqs' \in [Req -> ReqType] BY <1>1, <2>2, PutTyped DEF LoginRead
  <2> QED BY <1>1, <2>3 DEF TypeOK, LoginRead, Row, Held, Post, Welcome, History
<1>2. CASE MarkedLink(r)
  <2>1. PICK m \in mail : Put(r, [reqs[r] EXCEPT !.pc = "claim", !.mail = m])
    BY <1>2 DEF MarkedLink, Unused
  <2>2. [reqs[r] EXCEPT !.pc = "claim", !.mail = m] \in ReqType BY <1>0 DEF ReqType, TypeOK
  <2>3. reqs' \in [Req -> ReqType] BY <2>1, <2>2, PutTyped
  <2> QED BY <1>2, <2>3 DEF TypeOK, MarkedLink, Row, Held, Post, Welcome, History
<1>3. CASE PasskeyRead(r)
  <2>1. Checked("passkey") \in GrantType BY CheckedTyped DEF Proofs, Methods
  <2>2. [Idle EXCEPT !.pc = "issue", !.grant = Checked("passkey")] \in ReqType
    BY <2>1, Shapes DEF ReqType
  <2>3. reqs' \in [Req -> ReqType] BY <1>3, <2>2, PutTyped DEF PasskeyRead
  <2> QED BY <1>3, <2>3 DEF TypeOK, PasskeyRead, Row, Held, Post, Welcome, History
<1>4. CASE SecondFactor(r)
  <2>1. reqs' \in [Req -> ReqType] BY <1>4, GoTyped, EndTyped DEF SecondFactor
  <2>2. challenges' \subseteq GrantType BY <1>0, <1>4 DEF SecondFactor, TypeOK
  <2> QED BY <1>4, <2>1, <2>2 DEF TypeOK, SecondFactor, Row, Post, Welcome, History
<1>5. CASE AnswerChallenge(r)
  <2>1. PICK g \in challenges : Put(r, [Idle EXCEPT !.pc = "issue", !.grant = g])
    BY <1>5 DEF AnswerChallenge
  <2>2. [Idle EXCEPT !.pc = "issue", !.grant = g] \in ReqType BY Shapes DEF ReqType, TypeOK
  <2>3. reqs' \in [Req -> ReqType] BY <2>1, <2>2, PutTyped
  <2> QED BY <1>5, <2>3 DEF TypeOK, AnswerChallenge, Row, Held, Post, Welcome, History
<1>6. CASE IssueSession(r)
  <2>1. reqs' \in [Req -> ReqType] BY <1>6, EndTyped DEF IssueSession
  <2>2. sessions' \subseteq [id : Sid, grant : GrantType]
    BY <1>0, <1>6 DEF IssueSession, TypeOK
  <2> QED BY <1>6, <2>1, <2>2 DEF TypeOK, IssueSession, Row, Post, Welcome, History
<1>7. CASE GoogleRead(r)
  <2>1. Checked("google") \in GrantType /\ Draft("confirm", address) \in MailType
    BY CheckedTyped, Shapes DEF Proofs, Methods, Kinds, TypeOK
  <2>2. /\ [Idle EXCEPT !.pc = "second", !.grant = Checked("google")] \in ReqType
        /\ [Idle EXCEPT !.pc = "join", !.mail = Draft("confirm", address)] \in ReqType
    BY <2>1, Shapes DEF ReqType
  <2>3. reqs' \in [Req -> ReqType] BY <1>7, <2>2, PutTyped DEF GoogleRead
  <2> QED BY <1>7, <2>3 DEF TypeOK, GoogleRead, Row, Held, Post, Welcome, History
<1> QED BY <1>1, <1>2, <1>3, <1>4, <1>5, <1>6, <1>7 DEF SignInStep

LEMMA ConfirmTyped ==
  ASSUME TypeOK, NEW r \in Req, ConfirmStep(r)
  PROVE  TypeOK'
<1>0. /\ reqs[r] \in ReqType /\ reqs[r].grant \in GrantType /\ reqs[r].mail \in MailType
      /\ reqs[r].mail.to \in Addr
  BY DEF TypeOK, ReqType, MailType
<1>1. CASE ClaimLink(r)
  <2>1. reqs' \in [Req -> ReqType] BY <1>1, GoTyped, EndTyped DEF ClaimLink
  <2>2. mail' \subseteq MailType BY <1>0, <1>1, MailedTyped DEF ClaimLink, Spend, TypeOK
  <2> QED BY <1>1, <2>1, <2>2 DEF TypeOK, ClaimLink, Row, Held, Welcome, History
<1>2. CASE CheckAddress(r)
  <2>1. reqs' \in [Req -> ReqType] BY <1>2, GoTyped, EndTyped DEF CheckAddress
  <2> QED BY <1>2, <2>1 DEF TypeOK, CheckAddress, Row, Held, Post, Welcome, History
<1>3. CASE ConfirmAddress(r)
  <2>1. reqs' \in [Req -> ReqType] BY <1>3, GoTyped, EndTyped DEF ConfirmAddress
  <2>2. applied' \subseteq MailType BY <1>0, <1>3 DEF ConfirmAddress, TypeOK
  <2>3. welcomed' \in BOOLEAN /\ welcomes' \in Nat
    BY <1>3 DEF ConfirmAddress, ClaimWelcomeOnConfirm, TypeOK
  <2> QED BY <1>3, <2>1, <2>2, <2>3 DEF TypeOK, ConfirmAddress, Held, Post
<1>4. CASE OpenLink(r)
  <2>1. PICK m \in mail : Put(r, [Idle EXCEPT !.pc = "claim", !.by = "own", !.mail = m])
    BY <1>4 DEF OpenLink, Unused
  <2>2. [Idle EXCEPT !.pc = "claim", !.by = "own", !.mail = m] \in ReqType
    BY Shapes DEF ReqType, TypeOK
  <2>3. reqs' \in [Req -> ReqType] BY <2>1, <2>2, PutTyped
  <2> QED BY <1>4, <2>3 DEF TypeOK, OpenLink, Row, Held, Post, Welcome, History
<1>5. CASE OpenFromSignUp(r)
  <2>1. PICK m \in mail : Put(r, [pc |-> "unchallenged", by |-> "signup",
                                  grant |-> Checked(password), mail |-> m])
    BY <1>5 DEF OpenFromSignUp, Unused
  <2>2. Checked(password) \in GrantType BY <1>5, CheckedTyped DEF OpenFromSignUp, Proofs
  <2>3. [pc |-> "unchallenged", by |-> "signup", grant |-> Checked(password), mail |-> m] \in ReqType
    BY <2>2 DEF ReqType, TypeOK
  <2>4. reqs' \in [Req -> ReqType] BY <2>1, <2>3, PutTyped
  <2> QED BY <1>5, <2>4 DEF TypeOK, OpenFromSignUp, Row, Held, Post, Welcome, History
<1>6. CASE Unchallenged(r)
  <2>1. reqs' \in [Req -> ReqType] BY <1>6, GoTyped, EndTyped DEF Unchallenged
  <2> QED BY <1>6, <2>1 DEF TypeOK, Unchallenged, Row, Held, Post, Welcome, History
<1>7. CASE GoogleJoin(r)
  <2> DEFINE g == [v |-> version', epoch |-> epoch', proof |-> "google", early |-> FALSE]
  <2>1. version' \in Nat /\ epoch' \in Nat
    BY <1>7 DEF GoogleJoin, ClearedVersion, TypeOK
  <2>2. g \in GrantType BY <2>1 DEF GrantType, Proofs, Methods
  <2>3. [Idle EXCEPT !.pc = "second", !.grant = g] \in ReqType BY <2>2, Shapes DEF ReqType
  <2>4. reqs' \in [Req -> ReqType] BY <1>7, <2>3, PutTyped DEF GoogleJoin
  <2>5. ClearedTyped' BY <1>7, <2>1 DEF GoogleJoin, TypeOK, ClearUnconfirmedAccess, ClearedPassword,
          ClearedMail, ClaimWelcomeOnConfirm, ClearedTyped
  <2> QED BY <1>7, <2>1, <2>4, <2>5 DEF ClearedTyped, GoogleJoin, TypeOK
<1> QED BY <1>1, <1>2, <1>3, <1>4, <1>5, <1>6, <1>7 DEF ConfirmStep

LEMMA CodeTyped ==
  ASSUME TypeOK, NEW r \in Req, CodeStep(r)
  PROVE  TypeOK'
<1>0. /\ reqs[r] \in ReqType /\ reqs[r].mail \in MailType
      /\ Mailed(reqs[r].mail) \in MailType
  BY MailedTyped DEF TypeOK, ReqType
<1>1. CASE MintCode(r)
  <2>1. reqs' \in [Req -> ReqType] BY <1>1, GoTyped DEF MintCode
  <2>2. mail' \subseteq MailType /\ minted' \in Nat BY <1>0, <1>1 DEF MintCode, Mint, TypeOK
  <2> QED BY <1>1, <2>1, <2>2 DEF TypeOK, MintCode, Row, Held, Welcome, History
<1>2. CASE PruneCodes(r)
  <2>1. reqs' \in [Req -> ReqType] BY <1>2, EndTyped DEF PruneCodes
  <2>2. mail' \subseteq mail BY <1>2 DEF PruneCodes
  <2> QED BY <1>2, <2>1, <2>2 DEF TypeOK, PruneCodes, Row, Held, Welcome, History
<1>3. CASE CodeRead(r)
  <2>1. PICK m \in mail : Put(r, [Idle EXCEPT !.pc = "spendCode", !.mail = m])
    BY <1>3 DEF CodeRead, Unused
  <2>2. [Idle EXCEPT !.pc = "spendCode", !.mail = m] \in ReqType BY Shapes DEF ReqType, TypeOK
  <2>3. reqs' \in [Req -> ReqType] BY <2>1, <2>2, PutTyped
  <2> QED BY <1>3, <2>3 DEF TypeOK, CodeRead, Row, Held, Post, Welcome, History
<1>4. CASE SpendCode(r)
  <2>1. reqs' \in [Req -> ReqType] BY <1>4, GoTyped, EndTyped DEF SpendCode
  <2>2. mail' \subseteq MailType BY <1>0, <1>4, MailedTyped DEF SpendCode, Spend, TypeOK
  <2> QED BY <1>4, <2>1, <2>2 DEF TypeOK, SpendCode, Row, Held, Welcome, History
<1>5. CASE ProveByCode(r)
  <2> DEFINE g == [v |-> version', epoch |-> epoch', proof |-> "mail", early |-> FALSE]
  <2>1. version' \in Nat /\ epoch' \in Nat
    BY <1>5 DEF ProveByCode, ClearedVersion, TypeOK
  <2>2. g \in GrantType BY <2>1 DEF GrantType, Proofs, Methods
  <2>3. [Idle EXCEPT !.pc = "second", !.grant = g] \in ReqType BY <2>2, Shapes DEF ReqType
  <2>4. reqs' \in [Req -> ReqType] BY <1>5, <2>3, PutTyped DEF ProveByCode
  <2>5. ClearedTyped' BY <1>5, <2>1 DEF ProveByCode, TypeOK, ClearUnconfirmedAccess, ClearedPassword,
          ClearedMail, ClaimWelcomeOnConfirm, ClearedTyped
  <2>6. applied' \subseteq MailType BY <1>0, <1>5 DEF ProveByCode, TypeOK
  <2> QED BY <1>5, <2>1, <2>4, <2>5, <2>6 DEF ClearedTyped, ProveByCode, TypeOK
<1>6. CASE CodeLookUp(r)
  <2>1. Draft("code", address) \in MailType BY Shapes DEF Kinds, TypeOK
  <2>2. [Idle EXCEPT !.pc = "mintCode", !.mail = Draft("code", address)] \in ReqType
    BY <2>1, Shapes DEF ReqType
  <2>3. reqs' \in [Req -> ReqType] BY <1>6, <2>2, PutTyped DEF CodeLookUp
  <2> QED BY <1>6, <2>3 DEF TypeOK, CodeLookUp, Row, Held, Post, Welcome, History
<1> QED BY <1>1, <1>2, <1>3, <1>4, <1>5, <1>6 DEF CodeStep

LEMMA ResetTyped ==
  ASSUME TypeOK, NEW r \in Req, ResetStep(r)
  PROVE  TypeOK'
<1>0. /\ reqs[r] \in ReqType /\ reqs[r].mail \in MailType
      /\ Mailed(reqs[r].mail) \in MailType
  BY MailedTyped DEF TypeOK, ReqType
<1>1. CASE RetireResets(r)
  <2>1. reqs' \in [Req -> ReqType] BY <1>1, GoTyped DEF RetireResets
  <2>2. mail' \subseteq mail BY <1>1 DEF RetireResets
  <2> QED BY <1>1, <2>1, <2>2 DEF TypeOK, RetireResets, Row, Held, Welcome, History
<1>2. CASE MintReset(r)
  <2>1. reqs' \in [Req -> ReqType] BY <1>2, EndTyped DEF MintReset
  <2>2. mail' \subseteq MailType /\ minted' \in Nat BY <1>0, <1>2 DEF MintReset, Mint, TypeOK
  <2> QED BY <1>2, <2>1, <2>2 DEF TypeOK, MintReset, Row, Held, Welcome, History
<1>3. CASE ResetRead(r)
  <2>1. PICK m \in mail : Put(r, [Idle EXCEPT !.pc = "spendReset", !.mail = m])
    BY <1>3 DEF ResetRead, Unused
  <2>2. [Idle EXCEPT !.pc = "spendReset", !.mail = m] \in ReqType BY Shapes DEF ReqType, TypeOK
  <2>3. reqs' \in [Req -> ReqType] BY <2>1, <2>2, PutTyped
  <2> QED BY <1>3, <2>3 DEF TypeOK, ResetRead, Row, Held, Post, Welcome, History
<1>4. CASE SpendReset(r)
  <2>1. reqs' \in [Req -> ReqType] BY <1>4, GoTyped, EndTyped DEF SpendReset
  <2>2. mail' \subseteq MailType BY <1>0, <1>4, MailedTyped DEF SpendReset, Spend, TypeOK
  <2> QED BY <1>4, <2>1, <2>2 DEF TypeOK, SpendReset, Row, Held, Welcome, History
<1>5. CASE ApplyReset(r)
  <2>1. reqs' \in [Req -> ReqType] BY <1>5, EndTyped DEF ApplyReset
  <2>2. version' \in Nat /\ epoch' \in Nat
    BY <1>5 DEF ApplyReset, ClearedVersion, TypeOK
  <2>3. ClearedTyped' BY <1>5 DEF ApplyReset, TypeOK, ClearUnconfirmedAccess,
          ClearedMail, ClaimWelcomeOnConfirm, ClearedTyped
  <2>4. applied' \subseteq MailType BY <1>0, <1>5 DEF ApplyReset, TypeOK
  <2> QED BY <1>5, <2>1, <2>2, <2>3, <2>4 DEF ClearedTyped, ApplyReset, TypeOK
<1>6. CASE ForgotLookUp(r)
  <2>1. Draft("reset", address) \in MailType BY Shapes DEF Kinds, TypeOK
  <2>2. [Idle EXCEPT !.pc = "retire", !.mail = Draft("reset", address)] \in ReqType
    BY <2>1, Shapes DEF ReqType
  <2>3. reqs' \in [Req -> ReqType] BY <1>6, <2>2, PutTyped DEF ForgotLookUp
  <2> QED BY <1>6, <2>3 DEF TypeOK, ForgotLookUp, Row, Held, Post, Welcome, History
<1> QED BY <1>1, <1>2, <1>3, <1>4, <1>5, <1>6 DEF ResetStep

LEMMA MailStepTyped ==
  ASSUME TypeOK, NEW r \in Req, MailStep(r)
  PROVE  TypeOK'
<1>0. /\ reqs[r] \in ReqType /\ reqs[r].mail \in MailType /\ reqs[r].mail.to \in Addr
      /\ Mailed(reqs[r].mail) \in MailType
  BY MailedTyped DEF TypeOK, ReqType, MailType
<1>1. CASE ResendLookUp(r)
  <2>1. Draft("confirm", address) \in MailType /\ Checked("session") \in GrantType
    BY CheckedTyped, Shapes DEF Proofs, Methods, Kinds, TypeOK
  <2>2. /\ [Idle EXCEPT !.pc = "mintConfirm", !.mail = Draft("confirm", address)] \in ReqType
        /\ [Idle EXCEPT !.pc = "mintConfirm", !.by = "own", !.grant = Checked("session"),
                        !.mail = Draft("confirm", address)] \in ReqType
    BY <2>1, Shapes DEF ReqType
  <2>3. reqs' \in [Req -> ReqType] BY <1>1, <2>2, PutTyped DEF ResendLookUp
  <2> QED BY <1>1, <2>3 DEF TypeOK, ResendLookUp, Row, Held, Post, Welcome, History
<1>2. CASE MintConfirm(r)
  <2>1. reqs' \in [Req -> ReqType] BY <1>2, EndTyped DEF MintConfirm
  <2>2. mail' \subseteq MailType /\ minted' \in Nat
    BY <1>0, <1>2 DEF MintConfirm, Mint, Post, TypeOK
  <2> QED BY <1>2, <2>1, <2>2 DEF TypeOK, MintConfirm, Row, Held, Welcome, History
<1>3. CASE MintChange(r)
  <2>1. [reqs[r] EXCEPT !.pc = "mailChange", !.mail = Mailed(reqs[r].mail)] \in ReqType
    BY <1>0 DEF ReqType
  <2>2. reqs' \in [Req -> ReqType] BY <1>3, <2>1, PutTyped, EndTyped DEF MintChange
  <2>3. mail' \subseteq MailType /\ minted' \in Nat
    BY <1>0, <1>3 DEF MintChange, Mint, Post, TypeOK
  <2> QED BY <1>3, <2>2, <2>3 DEF TypeOK, MintChange, Row, Held, Welcome, History
<1>4. CASE ChangeMailed(r)
  <2>1. reqs' \in [Req -> ReqType] BY <1>4, EndTyped DEF ChangeMailed
  <2>2. mail' \subseteq mail BY <1>4 DEF ChangeMailed
  <2> QED BY <1>4, <2>1, <2>2 DEF TypeOK, ChangeMailed, Row, Held, Welcome, History
<1>5. CASE ChangeNotMailed(r)
  <2>1. reqs' \in [Req -> ReqType] BY <1>5, EndTyped DEF ChangeNotMailed
  <2>2. mail' \subseteq mail BY <1>5 DEF ChangeNotMailed
  <2> QED BY <1>5, <2>1, <2>2 DEF TypeOK, ChangeNotMailed, Row, Held, Welcome, History
<1>6. CASE ApplyEmailChange(r)
  <2>1. reqs' \in [Req -> ReqType] BY <1>6, EndTyped DEF ApplyEmailChange
  <2>2. mail' \subseteq mail /\ applied' \subseteq MailType /\ address' \in Addr
    BY <1>0, <1>6 DEF ApplyEmailChange, TypeOK
  <2>3. verified' \in BOOLEAN /\ welcomed' \in BOOLEAN /\ welcomes' \in Nat
    <3>1. CASE ClaimWelcomeOnConfirm /\ verified' = TRUE
      BY <3>1 DEF ClaimWelcomeOnConfirm, TypeOK
    <3>2. CASE UNCHANGED <<address, verified, mail, Welcome, applied>>
      BY <3>2 DEF Welcome, TypeOK
    <3> QED BY <1>6, <3>1, <3>2 DEF ApplyEmailChange
  <2> QED BY <1>6, <2>1, <2>2, <2>3 DEF TypeOK, ApplyEmailChange, Held
<1>7. ASSUME NEW a \in Addr, ChangeCheck(r, a) PROVE TypeOK'
  <2>1. Draft("change", a) \in MailType /\ Checked("session") \in GrantType
    BY CheckedTyped, Shapes DEF Proofs, Methods, Kinds
  <2>2. [Idle EXCEPT !.pc = "mintChange", !.grant = Checked("session"),
                    !.mail = Draft("change", a)] \in ReqType
    BY <2>1, Shapes DEF ReqType
  <2>3. reqs' \in [Req -> ReqType] BY <1>7, <2>2, PutTyped DEF ChangeCheck
  <2> QED BY <1>7, <2>3 DEF TypeOK, ChangeCheck, Row, Held, Post, Welcome, History
<1> QED BY <1>1, <1>2, <1>3, <1>4, <1>5, <1>6, <1>7 DEF MailStep

LEMMA SessionTyped ==
  ASSUME TypeOK, NEW r \in Req, SessionStep(r)
  PROVE  TypeOK'
<1>0. reqs[r] \in ReqType /\ reqs[r].grant \in GrantType
      /\ reqs[r].grant.early \in BOOLEAN /\ reqs[r].grant.epoch \in Nat
  BY DEF TypeOK, ReqType, GrantType
<1>1. CASE AddCheck(r)
  <2>1. Checked("session") \in GrantType BY CheckedTyped DEF Proofs, Methods
  <2>2. [Idle EXCEPT !.pc = "add", !.grant = Checked("session")] \in ReqType
    BY <2>1, Shapes DEF ReqType
  <2>3. reqs' \in [Req -> ReqType] BY <1>1, <2>2, PutTyped DEF AddCheck
  <2> QED BY <1>1, <2>3 DEF TypeOK, AddCheck, Row, Held, Post, Welcome, History
<1>2. CASE AddAccess(r)
  <2>1. reqs' \in [Req -> ReqType] BY <1>2, EndTyped DEF AddAccess
  <2>2. access' \subseteq [way : Ways, early : BOOLEAN, epoch : Nat]
    BY <1>0, <1>2 DEF AddAccess, TypeOK
  <2> QED BY <1>2, <2>1, <2>2 DEF TypeOK, AddAccess, Row, Post, Welcome, History
<1>3. CASE LogoutAllCheck(r)
  <2>1. [Idle EXCEPT !.pc = "logoutAll"] \in ReqType BY Shapes DEF ReqType
  <2>2. reqs' \in [Req -> ReqType] BY <1>3, <2>1, PutTyped DEF LogoutAllCheck
  <2> QED BY <1>3, <2>2 DEF TypeOK, LogoutAllCheck, Row, Held, Post, Welcome, History
<1>4. CASE LogoutAll(r)
  <2>1. reqs' \in [Req -> ReqType] BY <1>4, EndTyped DEF LogoutAll
  <2> QED BY <1>4, <2>1 DEF TypeOK, LogoutAll, Post, Welcome
<1>5. CASE Stop(r)
  <2>1. reqs' \in [Req -> ReqType] BY <1>5, EndTyped DEF Stop
  <2> QED BY <1>5, <2>1 DEF TypeOK, Stop, Row, Held, Post, Welcome, History
<1> QED BY <1>1, <1>2, <1>3, <1>4, <1>5 DEF SessionStep

\* The account's row, tables, cookies and requests hold values of their kind, whatever the
\* number of requests and the order of their database calls.
THEOREM TypeCorrect == Spec => []TypeOK
<1>1. Init => TypeOK
  <2> SUFFICES ASSUME Init PROVE TypeOK OBVIOUS
  <2>1. \A i \in Sid : FirstDevice(i) \in [id : Sid, grant : GrantType]
    BY DEF FirstDevice, GrantType, Proofs
  <2>2. sessions \subseteq [id : Sid, grant : GrantType]
    BY <2>1 DEF Init
  <2>3. access \subseteq [way : Ways, early : BOOLEAN, epoch : Nat]
    <3>1. ASSUME NEW a \in [way : Ways, early : {TRUE}, epoch : {0}]
          PROVE  a \in [way : Ways, early : BOOLEAN, epoch : Nat]
      <4>1. a.way \in Ways /\ a.early \in {TRUE} /\ a.epoch \in {0}
        OBVIOUS
      <4>2. a = [way |-> a.way, early |-> a.early, epoch |-> a.epoch]
        OBVIOUS
      <4>3. a.early \in BOOLEAN
        BY <4>1, Zenon
      <4>4. a.epoch \in Nat
        BY <4>1
      <4> QED BY <4>1, <4>2, <4>3, <4>4
    <3> QED BY <3>1 DEF Init
  <2>4. [Draft("confirm", Home) EXCEPT !.id = 1, !.early = TRUE] \in MailType
    BY DEF Draft, MailType, Kinds
  <2>5. mail \subseteq MailType
    BY <2>4 DEF Init
  <2>6. reqs \in [Req -> ReqType]
    BY Shapes DEF Init
  <2> QED BY <2>2, <2>3, <2>5, <2>6 DEF Init, TypeOK
<1>2. TypeOK /\ [Next]_vars => TypeOK'
  <2> SUFFICES ASSUME TypeOK, [Next]_vars PROVE TypeOK' OBVIOUS
  <2>1. ASSUME NEW r \in Req, SignInStep(r) \/ ConfirmStep(r) \/ CodeStep(r) \/ ResetStep(r)
                              \/ MailStep(r) \/ SessionStep(r)
        PROVE  TypeOK'
    BY <2>1, SignInTyped, ConfirmTyped, CodeTyped, ResetTyped, MailStepTyped, SessionTyped
  <2>2. ASSUME NEW s \in sessions, EndSession(s) PROVE TypeOK'
    BY <2>2 DEF TypeOK, EndSession, Row, Post, Welcome, History
  <2>3. ASSUME NEW a \in access, RemoveAccess(a) PROVE TypeOK'
    BY <2>3 DEF TypeOK, RemoveAccess, Row, Post, Welcome, History
  <2>4. CASE CancelChange
    BY <2>4 DEF TypeOK, CancelChange, Row, Held, Welcome, History
  <2>5. CASE UNCHANGED vars
    BY <2>5 DEF TypeOK, vars, Row, Held, Post, Welcome, History
  <2> QED BY <2>1, <2>2, <2>3, <2>4, <2>5 DEF Next
<1> QED BY <1>1, <1>2, PTL DEF Spec
-----------------------------------------------------------------------------
(* Grants.  What a request, a cookie or a session carries is behind the        *)
(* account's token_version or still true of the account.  A step of the code   *)
(* either leaves alone all that a grant speaks of, or moves the version past   *)
(* every grant: that is what makes the version a guard.                        *)

Holds(g, v, e, pw, c) ==
  /\ g.v <= v
  /\ g.v = v => /\ g.epoch = e
                /\ g.proof \in Pw => g.proof = pw
                /\ c => ~g.early

GrantInv ==
  /\ version >= 1
  /\ cleared => verified
  /\ \A s \in sessions : Holds(s.grant, version, epoch, password, cleared)
  /\ \A g \in challenges : Holds(g, version, epoch, password, cleared)
  /\ \A r \in Req : Holds(reqs[r].grant, version, epoch, password, cleared)

Quiet == version' = version /\ epoch' = epoch /\ password' = password /\ cleared' = cleared
Moved == version' \in Nat /\ version' > version
Watched == (Quiet \/ Moved) /\ (cleared' => verified')

\* A grant that holds goes on holding.
LEMMA GrantKept ==
  ASSUME TypeOK, Watched, NEW g \in GrantType, Holds(g, version, epoch, password, cleared)
  PROVE  Holds(g, version', epoch', password', cleared')
<1>1. g.v \in Nat /\ version \in Nat BY DEF GrantType, TypeOK
<1>2. CASE Quiet BY <1>2 DEF Quiet, Holds
<1>3. CASE Moved BY <1>1, <1>3 DEF Moved, Holds
<1> QED BY <1>2, <1>3 DEF Watched

\* What a check hands out holds at that moment.
LEMMA CheckedHolds ==
  ASSUME TypeOK, GrantInv, NEW proof, proof \in Methods \/ proof = password
  PROVE  Holds(Checked(proof), version, epoch, password, cleared)
<1> DEFINE e == ~verified
           g == [v |-> version, epoch |-> epoch, proof |-> proof, early |-> e]
<1>1. g.v = version /\ g.epoch = epoch /\ g.proof = proof /\ g.early = e
  OBVIOUS
<1>2. version <= version BY DEF TypeOK
<1>3. proof \in Pw => proof = password BY AccessAssumption
<1>4. cleared => ~e BY DEF GrantInv
<1>5. Checked(proof) = g BY DEF Checked
<1> HIDE DEF e, g
<1> QED BY <1>1, <1>2, <1>3, <1>4, <1>5 DEF Holds

LEMMA NoGrantHolds ==
  ASSUME NEW v \in Nat, v >= 1, NEW e, NEW pw, NEW c
  PROVE  Holds(NoGrant, v, e, pw, c)
  BY DEF NoGrant, Holds

\* A step of one request that signs nobody in.
LEMMA RequestKeepsGrants ==
  ASSUME TypeOK, GrantInv, Watched, NEW r \in Req, NEW rec, Put(r, rec),
         sessions' \subseteq sessions, challenges' \subseteq challenges,
         Holds(rec.grant, version', epoch', password', cleared')
  PROVE  GrantInv'
<1>1. /\ \A s \in sessions : s.grant \in GrantType
      /\ \A g \in challenges : g \in GrantType
      /\ \A q \in Req : reqs[q].grant \in GrantType
  BY DEF TypeOK, ReqType
<1>2. \A s \in sessions' : Holds(s.grant, version', epoch', password', cleared')
  BY <1>1, GrantKept DEF GrantInv
<1>3. \A g \in challenges' : Holds(g, version', epoch', password', cleared')
  BY <1>1, GrantKept DEF GrantInv
<1>4. ASSUME NEW q \in Req PROVE Holds(reqs'[q].grant, version', epoch', password', cleared')
  <2>1. CASE q = r
    <3>1. reqs'[q] = rec BY <2>1 DEF Put, TypeOK
    <3> QED BY <3>1
  <2>2. CASE q # r
    <3>1. reqs'[q] = reqs[q] BY <2>2 DEF Put, TypeOK
    <3>2. Holds(reqs[q].grant, version', epoch', password', cleared')
      BY <1>1, GrantKept DEF GrantInv
    <3> QED BY <3>1, <3>2
  <2> QED BY <2>1, <2>2
<1>5. version' >= 1 /\ (cleared' => verified')
  BY DEF Watched, Quiet, Moved, GrantInv, TypeOK
<1> QED BY <1>2, <1>3, <1>4, <1>5 DEF GrantInv

\* ... that ends, or moves on with the grant it has.
LEMMA EndKeepsGrants ==
  ASSUME TypeOK, TypeOK', GrantInv, Watched, NEW r \in Req, End(r),
         sessions' \subseteq sessions, challenges' \subseteq challenges
  PROVE  GrantInv'
<1>1. version' \in Nat /\ version' >= 1
  BY DEF Watched, Quiet, Moved, GrantInv, TypeOK
<1>2. Holds(NoGrant, version', epoch', password', cleared') BY <1>1, NoGrantHolds
<1>3. Idle.grant = NoGrant BY DEF Idle
<1> QED BY <1>2, <1>3, RequestKeepsGrants DEF End

LEMMA GoKeepsGrants ==
  ASSUME TypeOK, GrantInv, Watched, NEW r \in Req, NEW pc, Go(r, pc),
         sessions' \subseteq sessions, challenges' \subseteq challenges
  PROVE  GrantInv'
<1>1. reqs[r] \in ReqType /\ reqs[r].grant \in GrantType BY DEF TypeOK, ReqType
<1>2. [reqs[r] EXCEPT !.pc = pc].grant = reqs[r].grant BY <1>1 DEF ReqType
<1>3. Holds(reqs[r].grant, version', epoch', password', cleared')
  BY <1>1, GrantKept DEF GrantInv
<1> QED BY <1>2, <1>3, RequestKeepsGrants DEF Go

\* A step that reads: nothing but the request changes.
LEMMA ReadKeepsGrants ==
  ASSUME TypeOK, GrantInv, UNCHANGED <<Row, Held, History>>, NEW r \in Req, NEW rec,
         Put(r, rec), Holds(rec.grant, version, epoch, password, cleared)
  PROVE  GrantInv'
<1>1. Quiet /\ verified' = verified /\ sessions' = sessions /\ challenges' = challenges
  BY DEF Row, Held, History, Quiet
<1>2. Watched BY <1>1 DEF Watched, Quiet, GrantInv
<1>3. Holds(rec.grant, version', epoch', password', cleared') BY <1>1 DEF Quiet
<1> QED BY <1>1, <1>2, <1>3, RequestKeepsGrants

\* A step that changes the mail or the confirmation, and no credential.
LEMMA WatchedWhenQuiet ==
  ASSUME TypeOK, GrantInv, Quiet, verified' = verified \/ verified' = TRUE
  PROVE  Watched
  BY DEF Watched, Quiet, GrantInv

LEMMA SignInGrants ==
  ASSUME TypeOK, TypeOK', GrantInv, NEW r \in Req, SignInStep(r)
  PROVE  GrantInv'
<1>0. /\ reqs[r] \in ReqType /\ reqs[r].grant \in GrantType
      /\ Holds(reqs[r].grant, version, epoch, password, cleared)
  BY DEF TypeOK, ReqType, GrantInv
<1>1. CASE LoginRead(r)
  <2> DEFINE rec == [Idle EXCEPT !.pc = IF Unconfirmed THEN "marked" ELSE "second",
                         !.by = "login", !.grant = Checked(password)]
  <2>1. rec.grant = Checked(password) BY DEF Idle
  <2>2. Put(r, rec) /\ UNCHANGED <<Row, Held, History>> BY <1>1 DEF LoginRead
  <2>3. Holds(Checked(password), version, epoch, password, cleared) BY CheckedHolds
  <2> HIDE DEF rec
  <2> QED BY <2>1, <2>2, <2>3, ReadKeepsGrants
<1>2. CASE MarkedLink(r)
  <2>1. PICK m \in mail : Put(r, [reqs[r] EXCEPT !.pc = "claim", !.mail = m])
    BY <1>2 DEF MarkedLink, Unused
  <2> DEFINE rec == [reqs[r] EXCEPT !.pc = "claim", !.mail = m]
  <2>2. rec.grant = reqs[r].grant BY <1>0 DEF ReqType
  <2>3. Put(r, rec) /\ UNCHANGED <<Row, Held, History>> BY <1>2, <2>1 DEF MarkedLink
  <2> HIDE DEF rec
  <2> QED BY <1>0, <2>2, <2>3, ReadKeepsGrants
<1>3. CASE PasskeyRead(r)
  <2> DEFINE rec == [Idle EXCEPT !.pc = "issue", !.grant = Checked("passkey")]
  <2>1. rec.grant = Checked("passkey") BY DEF Idle
  <2>2. Put(r, rec) /\ UNCHANGED <<Row, Held, History>> BY <1>3 DEF PasskeyRead
  <2>3. Holds(Checked("passkey"), version, epoch, password, cleared) BY CheckedHolds DEF Methods
  <2> HIDE DEF rec
  <2> QED BY <2>1, <2>2, <2>3, ReadKeepsGrants
<1>4. CASE SecondFactor(r)
  <2>1. Quiet /\ verified' = verified /\ sessions' = sessions
    BY <1>4 DEF SecondFactor, Row, History, Quiet
  <2>2. Watched BY <2>1, WatchedWhenQuiet
  <2>3. CASE challenges' = challenges \cup {reqs[r].grant} /\ End(r)
    <3>1. \A q \in Req : reqs'[q] = reqs[q] \/ reqs'[q] = Idle
      BY <2>3 DEF End, Put, TypeOK
    <3>2. version \in Nat /\ version >= 1 BY DEF TypeOK, GrantInv
    <3>3. Holds(Idle.grant, version, epoch, password, cleared)
      BY <3>2, NoGrantHolds DEF Idle
    <3>4. \A q \in Req : Holds(reqs'[q].grant, version, epoch, password, cleared)
      BY <3>1, <3>3 DEF GrantInv
    <3> QED BY <1>0, <2>1, <2>3, <3>4 DEF GrantInv, Quiet
  <2>4. CASE Go(r, "issue") /\ UNCHANGED challenges
    BY <2>1, <2>2, <2>4, GoKeepsGrants
  <2> QED BY <1>4, <2>3, <2>4 DEF SecondFactor
<1>5. CASE AnswerChallenge(r)
  <2>1. PICK g \in challenges : Put(r, [Idle EXCEPT !.pc = "issue", !.grant = g])
    BY <1>5 DEF AnswerChallenge
  <2> DEFINE rec == [Idle EXCEPT !.pc = "issue", !.grant = g]
  <2>2. rec.grant = g BY DEF Idle
  <2>3. Put(r, rec) /\ UNCHANGED <<Row, Held, History>> BY <1>5, <2>1 DEF AnswerChallenge
  <2>4. Holds(g, version, epoch, password, cleared) BY DEF GrantInv
  <2> HIDE DEF rec
  <2> QED BY <2>2, <2>3, <2>4, ReadKeepsGrants
<1>6. CASE IssueSession(r)
  <2>1. Quiet /\ verified' = verified /\ challenges' = challenges /\ End(r)
    BY <1>6 DEF IssueSession, Row, History, Quiet
  <2>2. \A s \in sessions' : s \in sessions \/ s.grant = reqs[r].grant
    BY <1>6 DEF IssueSession
  <2>3. \A q \in Req : reqs'[q] = reqs[q] \/ reqs'[q] = Idle
    BY <2>1 DEF End, Put, TypeOK
  <2>4. version \in Nat /\ version >= 1 BY DEF TypeOK, GrantInv
  <2>5. Holds(Idle.grant, version, epoch, password, cleared)
    BY <2>4, NoGrantHolds DEF Idle
  <2>6. \A q \in Req : Holds(reqs'[q].grant, version, epoch, password, cleared)
    BY <2>3, <2>5 DEF GrantInv
  <2> QED BY <1>0, <2>1, <2>2, <2>6 DEF GrantInv, Quiet
<1>7. CASE GoogleRead(r)
  <2> DEFINE rec == [Idle EXCEPT !.pc = "second", !.grant = Checked("google")]
             wait == [Idle EXCEPT !.pc = "join", !.mail = Draft("confirm", address)]
  <2>1. rec.grant = Checked("google") /\ wait.grant = NoGrant BY DEF Idle
  <2>2. (Put(r, rec) \/ Put(r, wait)) /\ UNCHANGED <<Row, Held, History>>
    BY <1>7 DEF GoogleRead
  <2>3. Holds(Checked("google"), version, epoch, password, cleared) BY CheckedHolds DEF Methods
  <2>4. version \in Nat /\ version >= 1 BY DEF TypeOK, GrantInv
  <2>5. Holds(NoGrant, version, epoch, password, cleared) BY <2>4, NoGrantHolds
  <2> HIDE DEF rec, wait
  <2> QED BY <2>1, <2>2, <2>3, <2>5, ReadKeepsGrants
<1> QED BY <1>1, <1>2, <1>3, <1>4, <1>5, <1>6, <1>7 DEF SignInStep

LEMMA ConfirmGrants ==
  ASSUME TypeOK, TypeOK', GrantInv, NEW r \in Req, ConfirmStep(r)
  PROVE  GrantInv'
<1>0. /\ reqs[r] \in ReqType /\ reqs[r].grant \in GrantType
      /\ Holds(reqs[r].grant, version, epoch, password, cleared)
  BY DEF TypeOK, ReqType, GrantInv
<1>1. CASE ClaimLink(r)
  <2>1. /\ Quiet /\ verified' = verified /\ sessions' = sessions /\ challenges' = challenges
        /\ End(r) \/ Go(r, "move") \/ Go(r, "address")
    BY <1>1 DEF ClaimLink, Row, Held, History, Quiet
  <2>2. Watched BY <2>1, WatchedWhenQuiet
  <2> QED BY <2>1, <2>2, EndKeepsGrants, GoKeepsGrants
<1>2. CASE CheckAddress(r)
  <2>1. /\ Quiet /\ verified' = verified /\ sessions' = sessions /\ challenges' = challenges
        /\ End(r) \/ Go(r, "confirm")
    BY <1>2 DEF CheckAddress, Row, Held, History, Quiet
  <2>2. Watched BY <2>1, WatchedWhenQuiet
  <2> QED BY <2>1, <2>2, EndKeepsGrants, GoKeepsGrants
<1>3. CASE ConfirmAddress(r)
  <2>1. /\ Quiet /\ verified' = TRUE /\ sessions' = sessions /\ challenges' = challenges
        /\ End(r) \/ Go(r, "second") \/ Go(r, "issue")
    BY <1>3 DEF ConfirmAddress, Held, Quiet
  <2>2. Watched BY <2>1, WatchedWhenQuiet
  <2> QED BY <2>1, <2>2, EndKeepsGrants, GoKeepsGrants
<1>4. CASE OpenLink(r)
  <2>1. PICK m \in mail : Put(r, [Idle EXCEPT !.pc = "claim", !.by = "own", !.mail = m])
    BY <1>4 DEF OpenLink, Unused
  <2> DEFINE rec == [Idle EXCEPT !.pc = "claim", !.by = "own", !.mail = m]
  <2>2. rec.grant = NoGrant BY DEF Idle
  <2>3. Put(r, rec) /\ UNCHANGED <<Row, Held, History>> BY <1>4, <2>1 DEF OpenLink
  <2>4. version \in Nat /\ version >= 1 BY DEF TypeOK, GrantInv
  <2>5. Holds(NoGrant, version, epoch, password, cleared) BY <2>4, NoGrantHolds
  <2> HIDE DEF rec
  <2> QED BY <2>2, <2>3, <2>5, ReadKeepsGrants
<1>5. CASE OpenFromSignUp(r)
  <2>1. PICK m \in mail : Put(r, [pc |-> "unchallenged", by |-> "signup",
                                  grant |-> Checked(password), mail |-> m])
    BY <1>5 DEF OpenFromSignUp, Unused
  <2> DEFINE rec == [pc |-> "unchallenged", by |-> "signup",
                     grant |-> Checked(password), mail |-> m]
  <2>2. rec.grant = Checked(password) OBVIOUS
  <2>3. Put(r, rec) /\ UNCHANGED <<Row, Held, History>> BY <1>5, <2>1 DEF OpenFromSignUp
  <2>4. Holds(Checked(password), version, epoch, password, cleared) BY CheckedHolds
  <2> HIDE DEF rec
  <2> QED BY <2>2, <2>3, <2>4, ReadKeepsGrants
<1>6. CASE Unchallenged(r)
  <2>1. /\ Quiet /\ verified' = verified /\ sessions' = sessions /\ challenges' = challenges
        /\ End(r) \/ Go(r, "claim")
    BY <1>6 DEF Unchallenged, Row, Held, History, Quiet
  <2>2. Watched BY <2>1, WatchedWhenQuiet
  <2> QED BY <2>1, <2>2, EndKeepsGrants, GoKeepsGrants
<1>7. CASE GoogleJoin(r)
  <2> DEFINE g == [v |-> version', epoch |-> epoch', proof |-> "google", early |-> FALSE]
             rec == [Idle EXCEPT !.pc = "second", !.grant = g]
  <2>1. Quiet \/ Moved
    BY <1>7 DEF GoogleJoin, ClearedVersion, ClearedPassword, ClearUnconfirmedAccess,
                Quiet, Moved, TypeOK
  <2>2. verified' = TRUE /\ sessions' \subseteq sessions /\ challenges' = challenges
    BY <1>7 DEF GoogleJoin, ClearUnconfirmedAccess
  <2>3. Watched BY <2>1, <2>2 DEF Watched
  <2>4. g.v = version' /\ g.epoch = epoch' /\ g.proof \notin Pw /\ g.early = FALSE
    BY AccessAssumption DEF Methods
  <2>5. rec.grant = g BY DEF Idle
  <2>6. Put(r, rec) BY <1>7 DEF GoogleJoin
  <2>7. version' <= version' BY DEF TypeOK
  <2> HIDE DEF g, rec
  <2>8. Holds(g, version', epoch', password', cleared') BY <2>4, <2>7 DEF Holds
  <2> QED BY <2>2, <2>3, <2>5, <2>6, <2>8, RequestKeepsGrants
<1> QED BY <1>1, <1>2, <1>3, <1>4, <1>5, <1>6, <1>7 DEF ConfirmStep

LEMMA CodeGrants ==
  ASSUME TypeOK, TypeOK', GrantInv, NEW r \in Req, CodeStep(r)
  PROVE  GrantInv'
<1>0. /\ reqs[r] \in ReqType /\ reqs[r].grant \in GrantType
      /\ Holds(reqs[r].grant, version, epoch, password, cleared)
      /\ Holds(NoGrant, version, epoch, password, cleared)
  <2>1. version \in Nat /\ version >= 1 BY DEF TypeOK, GrantInv
  <2> QED BY <2>1, NoGrantHolds DEF TypeOK, ReqType, GrantInv
<1>1. CASE MintCode(r)
  <2>1. /\ Quiet /\ verified' = verified /\ sessions' = sessions /\ challenges' = challenges
        /\ Go(r, "prune")
    BY <1>1 DEF MintCode, Row, Held, History, Quiet
  <2>2. Watched BY <2>1, WatchedWhenQuiet
  <2> QED BY <2>1, <2>2, GoKeepsGrants
<1>2. CASE PruneCodes(r)
  <2>1. /\ Quiet /\ verified' = verified /\ sessions' = sessions /\ challenges' = challenges
        /\ End(r)
    BY <1>2 DEF PruneCodes, Row, Held, History, Quiet
  <2>2. Watched BY <2>1, WatchedWhenQuiet
  <2> QED BY <2>1, <2>2, EndKeepsGrants
<1>3. CASE CodeRead(r)
  <2>1. PICK m \in mail : Put(r, [Idle EXCEPT !.pc = "spendCode", !.mail = m])
    BY <1>3 DEF CodeRead, Unused
  <2> DEFINE rec == [Idle EXCEPT !.pc = "spendCode", !.mail = m]
  <2>2. rec.grant = NoGrant BY DEF Idle
  <2>3. Put(r, rec) /\ UNCHANGED <<Row, Held, History>> BY <1>3, <2>1 DEF CodeRead
  <2> HIDE DEF rec
  <2> QED BY <1>0, <2>2, <2>3, ReadKeepsGrants
<1>4. CASE SpendCode(r)
  <2>1. /\ Quiet /\ verified' = verified /\ sessions' = sessions /\ challenges' = challenges
        /\ End(r) \/ Go(r, "prove")
    BY <1>4 DEF SpendCode, Row, Held, History, Quiet
  <2>2. Watched BY <2>1, WatchedWhenQuiet
  <2> QED BY <2>1, <2>2, EndKeepsGrants, GoKeepsGrants
<1>5. CASE ProveByCode(r)
  <2> DEFINE g == [v |-> version', epoch |-> epoch', proof |-> "mail", early |-> FALSE]
             rec == [Idle EXCEPT !.pc = "second", !.grant = g]
  <2>1. Quiet \/ Moved
    BY <1>5 DEF ProveByCode, ClearedVersion, ClearedPassword, ClearUnconfirmedAccess,
                Quiet, Moved, TypeOK
  <2>2. verified' = TRUE /\ sessions' \subseteq sessions /\ challenges' = challenges
    BY <1>5 DEF ProveByCode, ClearUnconfirmedAccess
  <2>3. Watched BY <2>1, <2>2 DEF Watched
  <2>4. g.v = version' /\ g.epoch = epoch' /\ g.proof \notin Pw /\ g.early = FALSE
    BY AccessAssumption DEF Methods
  <2>5. rec.grant = g BY DEF Idle
  <2>6. Put(r, rec) BY <1>5 DEF ProveByCode
  <2>7. version' <= version' BY DEF TypeOK
  <2> HIDE DEF g, rec
  <2>8. Holds(g, version', epoch', password', cleared') BY <2>4, <2>7 DEF Holds
  <2> QED BY <2>2, <2>3, <2>5, <2>6, <2>8, RequestKeepsGrants
<1>6. CASE CodeLookUp(r)
  <2> DEFINE rec == [Idle EXCEPT !.pc = "mintCode", !.mail = Draft("code", address)]
  <2>1. rec.grant = NoGrant BY DEF Idle
  <2>2. Put(r, rec) /\ UNCHANGED <<Row, Held, History>> BY <1>6 DEF CodeLookUp
  <2> HIDE DEF rec
  <2> QED BY <1>0, <2>1, <2>2, ReadKeepsGrants
<1> QED BY <1>1, <1>2, <1>3, <1>4, <1>5, <1>6 DEF CodeStep

LEMMA ResetGrants ==
  ASSUME TypeOK, TypeOK', GrantInv, NEW r \in Req, ResetStep(r)
  PROVE  GrantInv'
<1>0. /\ reqs[r] \in ReqType /\ reqs[r].grant \in GrantType
      /\ Holds(reqs[r].grant, version, epoch, password, cleared)
      /\ Holds(NoGrant, version, epoch, password, cleared)
  <2>1. version \in Nat /\ version >= 1 BY DEF TypeOK, GrantInv
  <2> QED BY <2>1, NoGrantHolds DEF TypeOK, ReqType, GrantInv
<1>1. CASE RetireResets(r)
  <2>1. /\ Quiet /\ verified' = verified /\ sessions' = sessions /\ challenges' = challenges
        /\ Go(r, "mintReset")
    BY <1>1 DEF RetireResets, Row, Held, History, Quiet
  <2>2. Watched BY <2>1, WatchedWhenQuiet
  <2> QED BY <2>1, <2>2, GoKeepsGrants
<1>2. CASE MintReset(r)
  <2>1. /\ Quiet /\ verified' = verified /\ sessions' = sessions /\ challenges' = challenges
        /\ End(r)
    BY <1>2 DEF MintReset, Row, Held, History, Quiet
  <2>2. Watched BY <2>1, WatchedWhenQuiet
  <2> QED BY <2>1, <2>2, EndKeepsGrants
<1>3. CASE ResetRead(r)
  <2>1. PICK m \in mail : Put(r, [Idle EXCEPT !.pc = "spendReset", !.mail = m])
    BY <1>3 DEF ResetRead, Unused
  <2> DEFINE rec == [Idle EXCEPT !.pc = "spendReset", !.mail = m]
  <2>2. rec.grant = NoGrant BY DEF Idle
  <2>3. Put(r, rec) /\ UNCHANGED <<Row, Held, History>> BY <1>3, <2>1 DEF ResetRead
  <2> HIDE DEF rec
  <2> QED BY <1>0, <2>2, <2>3, ReadKeepsGrants
<1>4. CASE SpendReset(r)
  <2>1. /\ Quiet /\ verified' = verified /\ sessions' = sessions /\ challenges' = challenges
        /\ End(r) \/ Go(r, "apply")
    BY <1>4 DEF SpendReset, Row, Held, History, Quiet
  <2>2. Watched BY <2>1, WatchedWhenQuiet
  <2> QED BY <2>1, <2>2, EndKeepsGrants, GoKeepsGrants
<1>5. CASE ApplyReset(r)
  <2>1. Moved BY <1>5 DEF ApplyReset, ClearedVersion, Moved, TypeOK
  <2>2. verified' = TRUE /\ sessions' \subseteq sessions /\ challenges' = challenges /\ End(r)
    BY <1>5 DEF ApplyReset, ClearUnconfirmedAccess
  <2>3. Watched BY <2>1, <2>2 DEF Watched
  <2> QED BY <2>2, <2>3, EndKeepsGrants
<1>6. CASE ForgotLookUp(r)
  <2> DEFINE rec == [Idle EXCEPT !.pc = "retire", !.mail = Draft("reset", address)]
  <2>1. rec.grant = NoGrant BY DEF Idle
  <2>2. Put(r, rec) /\ UNCHANGED <<Row, Held, History>> BY <1>6 DEF ForgotLookUp
  <2> HIDE DEF rec
  <2> QED BY <1>0, <2>1, <2>2, ReadKeepsGrants
<1> QED BY <1>1, <1>2, <1>3, <1>4, <1>5, <1>6 DEF ResetStep

LEMMA MailStepGrants ==
  ASSUME TypeOK, TypeOK', GrantInv, NEW r \in Req, MailStep(r)
  PROVE  GrantInv'
<1>0. /\ reqs[r] \in ReqType /\ reqs[r].grant \in GrantType
      /\ Holds(reqs[r].grant, version, epoch, password, cleared)
      /\ Holds(NoGrant, version, epoch, password, cleared)
  <2>1. version \in Nat /\ version >= 1 BY DEF TypeOK, GrantInv
  <2> QED BY <2>1, NoGrantHolds DEF TypeOK, ReqType, GrantInv
<1>1. CASE ResendLookUp(r)
  <2> DEFINE rec == [Idle EXCEPT !.pc = "mintConfirm", !.mail = Draft("confirm", address)]
             own == [Idle EXCEPT !.pc = "mintConfirm", !.by = "own",
                                 !.grant = Checked("session"), !.mail = Draft("confirm", address)]
  <2>1. rec.grant = NoGrant /\ own.grant = Checked("session") BY DEF Idle
  <2>2. (Put(r, rec) \/ Put(r, own)) /\ UNCHANGED <<Row, Held, History>>
    BY <1>1 DEF ResendLookUp
  <2>3. Holds(Checked("session"), version, epoch, password, cleared) BY CheckedHolds DEF Methods
  <2> HIDE DEF rec, own
  <2> QED BY <1>0, <2>1, <2>2, <2>3, ReadKeepsGrants
<1>2. CASE MintConfirm(r)
  <2>1. /\ Quiet /\ verified' = verified /\ sessions' = sessions /\ challenges' = challenges
        /\ End(r)
    BY <1>2 DEF MintConfirm, Row, Held, History, Quiet
  <2>2. Watched BY <2>1, WatchedWhenQuiet
  <2> QED BY <2>1, <2>2, EndKeepsGrants
<1>3. CASE MintChange(r)
  <2> DEFINE rec == [reqs[r] EXCEPT !.pc = "mailChange", !.mail = Mailed(reqs[r].mail)]
  <2>1. /\ Quiet /\ verified' = verified /\ sessions' = sessions /\ challenges' = challenges
        /\ End(r) \/ Put(r, rec)
    BY <1>3 DEF MintChange, Row, Held, History, Quiet
  <2>2. Watched BY <2>1, WatchedWhenQuiet
  <2>3. rec.grant = reqs[r].grant BY <1>0 DEF ReqType
  <2>4. Holds(reqs[r].grant, version', epoch', password', cleared') BY <1>0, <2>1 DEF Quiet
  <2> HIDE DEF rec
  <2> QED BY <2>1, <2>2, <2>3, <2>4, EndKeepsGrants, RequestKeepsGrants
<1>4. CASE ChangeMailed(r)
  <2>1. /\ Quiet /\ verified' = verified /\ sessions' = sessions /\ challenges' = challenges
        /\ End(r)
    BY <1>4 DEF ChangeMailed, Row, Held, History, Quiet
  <2>2. Watched BY <2>1, WatchedWhenQuiet
  <2> QED BY <2>1, <2>2, EndKeepsGrants
<1>5. CASE ChangeNotMailed(r)
  <2>1. /\ Quiet /\ verified' = verified /\ sessions' = sessions /\ challenges' = challenges
        /\ End(r)
    BY <1>5 DEF ChangeNotMailed, Row, Held, History, Quiet
  <2>2. Watched BY <2>1, WatchedWhenQuiet
  <2> QED BY <2>1, <2>2, EndKeepsGrants
<1>6. CASE ApplyEmailChange(r)
  <2>1. /\ Quiet /\ (verified' = verified \/ verified' = TRUE) /\ sessions' = sessions /\ challenges' = challenges
        /\ End(r)
    BY <1>6 DEF ApplyEmailChange, Held, Quiet
  <2>2. Watched BY <2>1, WatchedWhenQuiet
  <2> QED BY <2>1, <2>2, EndKeepsGrants
<1>7. ASSUME NEW a \in Addr, ChangeCheck(r, a) PROVE GrantInv'
  <2> DEFINE rec == [Idle EXCEPT !.pc = "mintChange", !.grant = Checked("session"),
                                 !.mail = Draft("change", a)]
  <2>1. rec.grant = Checked("session") BY DEF Idle
  <2>2. Put(r, rec) /\ UNCHANGED <<Row, Held, History>> BY <1>7 DEF ChangeCheck
  <2>3. Holds(Checked("session"), version, epoch, password, cleared) BY CheckedHolds DEF Methods
  <2> HIDE DEF rec
  <2> QED BY <2>1, <2>2, <2>3, ReadKeepsGrants
<1> QED BY <1>1, <1>2, <1>3, <1>4, <1>5, <1>6, <1>7 DEF MailStep

LEMMA SessionGrants ==
  ASSUME TypeOK, TypeOK', GrantInv, NEW r \in Req, SessionStep(r)
  PROVE  GrantInv'
<1>0. /\ reqs[r] \in ReqType /\ reqs[r].grant \in GrantType
      /\ Holds(reqs[r].grant, version, epoch, password, cleared)
      /\ Holds(NoGrant, version, epoch, password, cleared)
  <2>1. version \in Nat /\ version >= 1 BY DEF TypeOK, GrantInv
  <2> QED BY <2>1, NoGrantHolds DEF TypeOK, ReqType, GrantInv
<1>1. CASE AddCheck(r)
  <2> DEFINE rec == [Idle EXCEPT !.pc = "add", !.grant = Checked("session")]
  <2>1. rec.grant = Checked("session") BY DEF Idle
  <2>2. Put(r, rec) /\ UNCHANGED <<Row, Held, History>> BY <1>1 DEF AddCheck
  <2>3. Holds(Checked("session"), version, epoch, password, cleared) BY CheckedHolds DEF Methods
  <2> HIDE DEF rec
  <2> QED BY <2>1, <2>2, <2>3, ReadKeepsGrants
<1>2. CASE AddAccess(r)
  <2>1. /\ Quiet /\ verified' = verified /\ sessions' = sessions /\ challenges' = challenges
        /\ End(r)
    BY <1>2 DEF AddAccess, Row, History, Quiet
  <2>2. Watched BY <2>1, WatchedWhenQuiet
  <2> QED BY <2>1, <2>2, EndKeepsGrants
<1>3. CASE LogoutAllCheck(r)
  <2> DEFINE rec == [Idle EXCEPT !.pc = "logoutAll"]
  <2>1. rec.grant = NoGrant BY DEF Idle
  <2>2. Put(r, rec) /\ UNCHANGED <<Row, Held, History>> BY <1>3 DEF LogoutAllCheck
  <2> HIDE DEF rec
  <2> QED BY <1>0, <2>1, <2>2, ReadKeepsGrants
<1>4. CASE LogoutAll(r)
  <2>1. Moved BY <1>4 DEF LogoutAll, Moved, TypeOK
  <2>2. /\ verified' = verified /\ cleared' = cleared /\ sessions' \subseteq sessions
        /\ challenges' = challenges /\ End(r)
    BY <1>4 DEF LogoutAll
  <2>3. Watched BY <2>1, <2>2 DEF Watched, GrantInv
  <2> QED BY <2>2, <2>3, EndKeepsGrants
<1>5. CASE Stop(r)
  <2>1. /\ Quiet /\ verified' = verified /\ sessions' = sessions /\ challenges' = challenges
        /\ End(r)
    BY <1>5 DEF Stop, Row, Held, History, Quiet
  <2>2. Watched BY <2>1, WatchedWhenQuiet
  <2> QED BY <2>1, <2>2, EndKeepsGrants
<1> QED BY <1>1, <1>2, <1>3, <1>4, <1>5 DEF SessionStep

LEMMA InitGrants == Init => GrantInv
<1> SUFFICES ASSUME Init PROVE GrantInv OBVIOUS
<1>1. \A s \in sessions : s.grant.v = 1 /\ s.grant.epoch = 0 /\ s.grant.proof = FirstPw
  BY DEF Init, FirstDevice
<1>2. \A r \in Req : reqs[r].grant = NoGrant BY DEF Init, Idle
<1>3. version = 1 /\ epoch = 0 /\ password = FirstPw /\ ~cleared /\ challenges = {}
  BY DEF Init
<1>4. \A s \in sessions : Holds(s.grant, version, epoch, password, cleared)
  BY <1>1, <1>3 DEF Holds
<1>5. Holds(NoGrant, version, epoch, password, cleared) BY <1>3, NoGrantHolds
<1> QED BY <1>2, <1>3, <1>4, <1>5 DEF GrantInv

LEMMA NextGrants ==
  ASSUME TypeOK, TypeOK', GrantInv, [Next]_vars
  PROVE  GrantInv'
<1>1. ASSUME NEW r \in Req, SignInStep(r) \/ ConfirmStep(r) \/ CodeStep(r) \/ ResetStep(r)
                            \/ MailStep(r) \/ SessionStep(r)
      PROVE  GrantInv'
  BY <1>1, SignInGrants, ConfirmGrants, CodeGrants, ResetGrants, MailStepGrants, SessionGrants
<1>2. ASSUME NEW s \in sessions, EndSession(s) PROVE GrantInv'
  BY <1>2 DEF GrantInv, EndSession, Row, History
<1>3. ASSUME NEW a \in access, RemoveAccess(a) PROVE GrantInv'
  BY <1>3 DEF GrantInv, RemoveAccess, Row, History
<1>4. CASE CancelChange
  BY <1>4 DEF GrantInv, CancelChange, Row, Held, History
<1>5. CASE UNCHANGED vars
  BY <1>5 DEF GrantInv, vars, Row, Held, History
<1> QED BY <1>1, <1>2, <1>3, <1>4, <1>5 DEF Next

LEMMA GrantsHold == Spec => [](TypeOK /\ GrantInv)
<1>1. Init /\ TypeOK => GrantInv BY InitGrants
<1>2. TypeOK /\ TypeOK' /\ GrantInv /\ [Next]_vars => GrantInv' BY NextGrants
<1> QED BY <1>1, <1>2, TypeCorrect, PTL DEF Spec

\* A device that is signed in began after the last time everyone was signed out,
\* whatever requests were under way at that moment.
THEOREM Revocation == Spec => []RevocationHolds
<1>1. TypeOK /\ GrantInv => RevocationHolds
  <2> SUFFICES ASSUME TypeOK, GrantInv, NEW s \in Live PROVE s.grant.epoch = epoch
    BY DEF RevocationHolds
  <2>1. s \in sessions /\ s.grant.v \in Nat /\ version \in Nat /\ s.grant.v >= version
    BY DEF Live, TypeOK, GrantType
  <2>2. Holds(s.grant, version, epoch, password, cleared) BY <2>1 DEF GrantInv
  <2> QED BY <2>1, <2>2 DEF Holds
<1> QED BY <1>1, GrantsHold, PTL
-----------------------------------------------------------------------------
(* The shape of a step, apart from the requests: what it may do to the         *)
(* sessions, the other credentials and the mail.                               *)

\* Rows of mail are new, old, or spent.
MailShape ==
  /\ minted' >= minted
  /\ \A m \in mail' : \/ m \in mail
                      \/ m.used /\ m.id <= minted
                      \/ m.id = minted + 1 /\ minted' = minted + 1 /\ (m.early => ~verified)

\* What moves the version ends what the account had while it waited ...
ClearShape == cleared' = cleared \/ (access' = {} /\ \A m \in mail' : m.used)
\* ... and sets no password that a mailed link did not choose.
PasswordShape == \/ password' = password /\ cleared' = cleared
                 \/ password' = NoPw
                 \/ \E m \in applied' : m.kind = "reset"
WelcomeShape == \/ UNCHANGED <<verified, welcomed, welcomes>>
                \/ verified' = TRUE /\ ClaimWelcomeOnConfirm

Plain == /\ \/ Quiet /\ sessions' = sessions
            \/ Moved /\ ClearShape /\ PasswordShape
         /\ sessions' \subseteq sessions
         /\ applied \subseteq applied'
         /\ access' \subseteq access
         /\ MailShape
         /\ WelcomeShape

LEMMA MailedShape ==
  ASSUME TypeOK, NEW m \in MailType
  PROVE  Mailed(m).id = minted + 1 /\ (Mailed(m).early => ~verified)
<1> DEFINE e == ~verified
           d == [m EXCEPT !.id = minted + 1]
<1>1. d \in [id : Nat, kind : Kinds, to : Addr, used : BOOLEAN, early : BOOLEAN] /\ d.id = minted + 1
  BY DEF MailType, TypeOK
<1>2. Mailed(m) = [d EXCEPT !.early = e] BY DEF Mailed, MailType
<1>3. Mailed(m).id = d.id BY <1>1, <1>2
<1>4. Mailed(m).early = e BY <1>1, <1>2
<1> QED BY <1>1, <1>3, <1>4

LEMMA SameMailShape ==
  ASSUME TypeOK, minted' = minted, mail' \subseteq mail
  PROVE  MailShape
  BY DEF MailShape, TypeOK

LEMMA SpendShape ==
  ASSUME TypeOK, minted' = minted, NEW m \in mail, Spend(m), \A n \in mail : n.id <= minted
  PROVE  MailShape
<1>1. m \in MailType BY DEF TypeOK
<1> DEFINE n == [m EXCEPT !.used = TRUE]
<1>2. n.used /\ n.id <= minted BY <1>1 DEF MailType
<1>3. mail' = (mail \ {m}) \cup {n} BY DEF Spend
<1>4. minted' >= minted BY DEF TypeOK
<1> HIDE DEF n
<1> QED BY <1>2, <1>3, <1>4 DEF MailShape

LEMMA MintShape ==
  ASSUME TypeOK, NEW m \in MailType, minted' = minted + 1, mail' \subseteq mail \cup {Mailed(m)}
  PROVE  MailShape
  BY MailedShape DEF MailShape, TypeOK

MailIds == \A m \in mail : m.id <= minted

LEMMA ReadShape ==
  ASSUME TypeOK, UNCHANGED <<Row, Held, Post, Welcome, History>>
  PROVE  Plain
<1>1. MailShape BY SameMailShape DEF Post
<1> QED BY <1>1 DEF Row, Held, Welcome, History, Plain, Quiet, WelcomeShape

LEMMA MailOnlyShape ==
  ASSUME TypeOK, UNCHANGED <<Row, Held, Welcome, History>>, MailShape
  PROVE  Plain
  BY DEF Row, Held, Welcome, History, Plain, Quiet, WelcomeShape

LEMMA SignInShape ==
  ASSUME TypeOK, NEW r \in Req, SignInStep(r)
  PROVE  Plain \/ IssueSession(r)
<1>1. CASE LoginRead(r) BY <1>1, ReadShape DEF LoginRead
<1>2. CASE MarkedLink(r) BY <1>2, ReadShape DEF MarkedLink
<1>3. CASE PasskeyRead(r) BY <1>3, ReadShape DEF PasskeyRead
<1>4. CASE SecondFactor(r)
  BY <1>4, SameMailShape DEF SecondFactor, Row, Post, Welcome, History, Plain, Quiet, WelcomeShape
<1>5. CASE AnswerChallenge(r) BY <1>5, ReadShape DEF AnswerChallenge
<1>6. CASE GoogleRead(r) BY <1>6, ReadShape DEF GoogleRead
<1> QED BY <1>1, <1>2, <1>3, <1>4, <1>5, <1>6 DEF SignInStep

LEMMA ConfirmShape ==
  ASSUME TypeOK, MailIds, NEW r \in Req, ConfirmStep(r)
  PROVE  Plain
<1>1. CASE ClaimLink(r)
  <2>1. MailShape BY <1>1, SameMailShape, SpendShape DEF ClaimLink, MailIds
  <2> QED BY <1>1, <2>1, MailOnlyShape DEF ClaimLink
<1>2. CASE CheckAddress(r) BY <1>2, ReadShape DEF CheckAddress
<1>3. CASE ConfirmAddress(r)
  BY <1>3, SameMailShape DEF ConfirmAddress, Held, Post, Plain, Quiet, WelcomeShape
<1>4. CASE OpenLink(r) BY <1>4, ReadShape DEF OpenLink
<1>5. CASE OpenFromSignUp(r) BY <1>5, ReadShape DEF OpenFromSignUp
<1>6. CASE Unchallenged(r) BY <1>6, ReadShape DEF Unchallenged
<1>7. CASE GoogleJoin(r)
  <2>1. /\ access' \subseteq access /\ mail' \subseteq mail /\ minted' = minted
        /\ applied \subseteq applied' /\ sessions' \subseteq sessions
    BY <1>7 DEF GoogleJoin, ClearUnconfirmedAccess, ClearedMail
  <2>2. WelcomeShape BY <1>7 DEF GoogleJoin, WelcomeShape
  <2>3. CASE verified
    <3>1. Quiet /\ sessions' = sessions
      BY <1>7, <2>3 DEF GoogleJoin, ClearedVersion, ClearedPassword, ClearUnconfirmedAccess, Quiet, TypeOK
    <3> QED BY <2>1, <2>2, <3>1, SameMailShape DEF Plain
  <2>4. CASE ~verified
    <3>1. Moved BY <1>7, <2>4 DEF GoogleJoin, ClearedVersion, Moved, TypeOK
    <3>2. access' = {} /\ (\A m \in mail' : m.used) /\ password' = NoPw
      BY <1>7, <2>4 DEF GoogleJoin, ClearUnconfirmedAccess, ClearedMail, ClearedPassword
    <3> QED BY <2>1, <2>2, <3>1, <3>2, SameMailShape DEF Plain, ClearShape, PasswordShape
  <2> QED BY <2>3, <2>4
<1> QED BY <1>1, <1>2, <1>3, <1>4, <1>5, <1>6, <1>7 DEF ConfirmStep

LEMMA CodeShape ==
  ASSUME TypeOK, MailIds, NEW r \in Req, CodeStep(r)
  PROVE  Plain
<1>0. reqs[r].mail \in MailType BY DEF TypeOK, ReqType
<1>1. CASE MintCode(r)
  <2>1. MailShape BY <1>0, <1>1, MintShape, SameMailShape DEF MintCode, Mint, Post
  <2> QED BY <1>1, <2>1, MailOnlyShape DEF MintCode
<1>2. CASE PruneCodes(r)
  <2>1. mail' \subseteq mail BY <1>2 DEF PruneCodes
  <2> QED BY <1>2, <2>1, SameMailShape, MailOnlyShape DEF PruneCodes
<1>3. CASE CodeRead(r) BY <1>3, ReadShape DEF CodeRead
<1>4. CASE SpendCode(r)
  <2>1. MailShape BY <1>4, SameMailShape, SpendShape DEF SpendCode, MailIds
  <2> QED BY <1>4, <2>1, MailOnlyShape DEF SpendCode
<1>5. CASE ProveByCode(r)
  <2>1. /\ access' \subseteq access /\ mail' \subseteq mail /\ minted' = minted
        /\ applied \subseteq applied' /\ sessions' \subseteq sessions
    BY <1>5 DEF ProveByCode, ClearUnconfirmedAccess, ClearedMail
  <2>2. WelcomeShape BY <1>5 DEF ProveByCode, WelcomeShape
  <2>3. CASE verified
    <3>1. Quiet /\ sessions' = sessions
      BY <1>5, <2>3 DEF ProveByCode, ClearedVersion, ClearedPassword, ClearUnconfirmedAccess, Quiet, TypeOK
    <3> QED BY <2>1, <2>2, <3>1, SameMailShape DEF Plain
  <2>4. CASE ~verified
    <3>1. Moved BY <1>5, <2>4 DEF ProveByCode, ClearedVersion, Moved, TypeOK
    <3>2. access' = {} /\ (\A m \in mail' : m.used) /\ password' = NoPw
      BY <1>5, <2>4 DEF ProveByCode, ClearUnconfirmedAccess, ClearedMail, ClearedPassword
    <3> QED BY <2>1, <2>2, <3>1, <3>2, SameMailShape DEF Plain, ClearShape, PasswordShape
  <2> QED BY <2>3, <2>4
<1>6. CASE CodeLookUp(r) BY <1>6, ReadShape DEF CodeLookUp
<1> QED BY <1>1, <1>2, <1>3, <1>4, <1>5, <1>6 DEF CodeStep

LEMMA ResetShape ==
  ASSUME TypeOK, MailIds, NEW r \in Req, ResetStep(r),
         reqs[r].pc = "apply" => reqs[r].mail.kind = "reset"
  PROVE  Plain
<1>0. reqs[r].mail \in MailType BY DEF TypeOK, ReqType
<1>1. CASE RetireResets(r)
  <2>1. mail' \subseteq mail BY <1>1 DEF RetireResets
  <2> QED BY <1>1, <2>1, SameMailShape, MailOnlyShape DEF RetireResets
<1>2. CASE MintReset(r)
  <2>1. MailShape BY <1>0, <1>2, MintShape, SameMailShape DEF MintReset, Mint, Post
  <2> QED BY <1>2, <2>1, MailOnlyShape DEF MintReset
<1>3. CASE ResetRead(r) BY <1>3, ReadShape DEF ResetRead
<1>4. CASE SpendReset(r)
  <2>1. MailShape BY <1>4, SameMailShape, SpendShape DEF SpendReset, MailIds
  <2> QED BY <1>4, <2>1, MailOnlyShape DEF SpendReset
<1>5. CASE ApplyReset(r)
  <2>1. Moved BY <1>5 DEF ApplyReset, ClearedVersion, Moved, TypeOK
  <2>2. /\ access' \subseteq access /\ mail' \subseteq mail /\ minted' = minted
        /\ sessions' \subseteq sessions
        /\ applied \subseteq applied' /\ reqs[r].mail \in applied' /\ reqs[r].mail.kind = "reset"
    BY <1>5 DEF ApplyReset, ClearUnconfirmedAccess, ClearedMail, At
  <2>3. ClearShape /\ WelcomeShape
    BY <1>5 DEF ApplyReset, ClearUnconfirmedAccess, ClearedMail, ClearShape, WelcomeShape, TypeOK
  <2> QED BY <2>1, <2>2, <2>3, SameMailShape DEF Plain, PasswordShape
<1>6. CASE ForgotLookUp(r) BY <1>6, ReadShape DEF ForgotLookUp
<1> QED BY <1>1, <1>2, <1>3, <1>4, <1>5, <1>6 DEF ResetStep

LEMMA MailStepShape ==
  ASSUME TypeOK, NEW r \in Req, MailStep(r)
  PROVE  Plain
<1>0. reqs[r].mail \in MailType BY DEF TypeOK, ReqType
<1>1. CASE ResendLookUp(r) BY <1>1, ReadShape DEF ResendLookUp
<1>2. CASE MintConfirm(r)
  <2>1. MailShape BY <1>0, <1>2, MintShape, SameMailShape DEF MintConfirm, Mint, Post
  <2> QED BY <1>2, <2>1, MailOnlyShape DEF MintConfirm
<1>3. CASE MintChange(r)
  <2>1. MailShape BY <1>0, <1>3, MintShape, SameMailShape DEF MintChange, Mint, Post
  <2> QED BY <1>3, <2>1, MailOnlyShape DEF MintChange
<1>4. CASE ChangeMailed(r)
  <2>1. mail' \subseteq mail BY <1>4 DEF ChangeMailed
  <2> QED BY <1>4, <2>1, SameMailShape, MailOnlyShape DEF ChangeMailed
<1>5. CASE ChangeNotMailed(r)
  <2>1. mail' \subseteq mail BY <1>5 DEF ChangeNotMailed
  <2> QED BY <1>5, <2>1, SameMailShape, MailOnlyShape DEF ChangeNotMailed
<1>6. CASE ApplyEmailChange(r)
  <2>1. /\ mail' \subseteq mail /\ minted' = minted /\ applied \subseteq applied'
        /\ Quiet /\ sessions' = sessions /\ access' = access
    BY <1>6 DEF ApplyEmailChange, Held, Quiet
  <2>2. WelcomeShape BY <1>6 DEF ApplyEmailChange, WelcomeShape, Welcome
  <2> QED BY <2>1, <2>2, SameMailShape DEF Plain
<1>7. ASSUME NEW a \in Addr, ChangeCheck(r, a) PROVE Plain BY <1>7, ReadShape DEF ChangeCheck
<1> QED BY <1>1, <1>2, <1>3, <1>4, <1>5, <1>6, <1>7 DEF MailStep

LEMMA SessionShape ==
  ASSUME TypeOK, NEW r \in Req, SessionStep(r)
  PROVE  Plain \/ AddAccess(r)
<1>1. CASE AddCheck(r) BY <1>1, ReadShape DEF AddCheck
<1>2. CASE LogoutAllCheck(r) BY <1>2, ReadShape DEF LogoutAllCheck
<1>3. CASE LogoutAll(r)
  <2>1. Moved /\ ClearShape /\ PasswordShape
    BY <1>3 DEF LogoutAll, Moved, ClearShape, PasswordShape, TypeOK
  <2> QED BY <1>3, <2>1, SameMailShape DEF LogoutAll, Post, Welcome, Plain, WelcomeShape
<1>4. CASE Stop(r) BY <1>4, ReadShape DEF Stop
<1> QED BY <1>1, <1>2, <1>3, <1>4 DEF SessionStep

\* Only IssueSession adds a session, only EndSession takes one away while the
\* version stands still, only AddAccess adds another credential.
LEMMA NextShape ==
  ASSUME TypeOK, MailIds, [Next]_vars,
         \A r \in Req : reqs[r].pc = "apply" => reqs[r].mail.kind = "reset"
  PROVE  \/ Plain
         \/ \E r \in Req : IssueSession(r) \/ AddAccess(r)
         \/ \E s \in sessions : EndSession(s)
<1>1. ASSUME NEW a \in access, RemoveAccess(a) PROVE Plain
  <2>1. MailShape BY <1>1, SameMailShape DEF RemoveAccess, Post
  <2> QED BY <1>1, <2>1 DEF RemoveAccess, Row, Welcome, History, Plain, Quiet, WelcomeShape
<1>2. CASE CancelChange
  <2>1. mail' \subseteq mail BY <1>2 DEF CancelChange
  <2> QED BY <1>2, <2>1, SameMailShape, MailOnlyShape DEF CancelChange
<1>3. CASE UNCHANGED vars
  BY <1>3, ReadShape DEF vars
<1> QED BY <1>1, <1>2, <1>3, SignInShape, ConfirmShape, CodeShape, ResetShape, MailStepShape,
           SessionShape DEF Next

-----------------------------------------------------------------------------
(* Links and codes.  A request that is about to spend one has read it unspent; *)
(* a request that holds one has taken it out of the table's unspent rows, and  *)
(* no row that looks like it can come back.                                    *)

Reading == {"claim", "unchallenged", "spendCode", "spendReset"}
HoldPc == {"address", "confirm", "move", "prove", "apply"}

SpentInv ==
  /\ MailIds
  /\ \A q \in Req : reqs[q].pc \in Reading \cup HoldPc =>
       ~reqs[q].mail.used /\ reqs[q].mail.id <= minted
  /\ \A q \in Req : reqs[q].pc \in {"spendReset", "apply"} => reqs[q].mail.kind = "reset"
  /\ \A q \in Req : reqs[q].pc \in HoldPc => reqs[q].mail \notin mail \cup applied
  /\ \A m \in applied : ~m.used /\ m.id <= minted /\ m \notin mail
  /\ \A q, r \in Req : q # r /\ reqs[q].pc \in HoldPc /\ reqs[r].pc \in HoldPc =>
       reqs[q].mail # reqs[r].mail

\* Nothing spent, and nothing applied, comes back unspent.
LEMMA NoneBack ==
  ASSUME TypeOK, MailShape, NEW m \in MailType, ~m.used, m.id <= minted, m \notin mail
  PROVE  m \notin mail'
<1>1. m.id \in Nat /\ minted \in Nat BY DEF MailType, TypeOK
<1> QED BY <1>1 DEF MailShape

LEMMA MailIdsKept ==
  ASSUME TypeOK, TypeOK', MailIds, MailShape
  PROVE  MailIds'
<1>1. minted \in Nat /\ minted' \in Nat /\ \A m \in mail' : m.id \in Nat BY DEF TypeOK, MailType
<1> SUFFICES ASSUME NEW m \in mail' PROVE m.id <= minted' BY DEF MailIds
<1>2. minted' >= minted /\ (m.id <= minted \/ (m.id = minted + 1 /\ minted' = minted + 1))
  BY DEF MailShape, MailIds
<1> QED BY <1>1, <1>2

\* A step that leaves the requests alone.
LEMMA OthersSpent ==
  ASSUME TypeOK, TypeOK', SpentInv, MailShape, reqs' = reqs, applied' = applied
  PROVE  SpentInv'
<1>1. minted \in Nat /\ minted' \in Nat /\ minted' >= minted BY DEF TypeOK, MailShape
<1>2. \A q \in Req : reqs[q].mail \in MailType /\ reqs[q].mail.id \in Nat
  BY DEF TypeOK, ReqType, MailType
<1>3. \A m \in applied : m \in MailType /\ m.id \in Nat BY DEF TypeOK, MailType
<1>4. \A q \in Req : reqs[q].pc \in Reading \cup HoldPc =>
        ~reqs'[q].mail.used /\ reqs'[q].mail.id <= minted'
  BY <1>1, <1>2 DEF SpentInv
<1>5. \A q \in Req : reqs[q].pc \in HoldPc => reqs[q].mail \notin mail'
  BY <1>2, NoneBack DEF SpentInv
<1>6. \A m \in applied : ~m.used /\ m.id <= minted' /\ m \notin mail'
  BY <1>1, <1>3, NoneBack DEF SpentInv
<1>7. MailIds' BY MailIdsKept DEF SpentInv
<1> QED BY <1>4, <1>5, <1>6, <1>7 DEF SpentInv

\* A step of one request.
LEMMA RequestSpent ==
  ASSUME TypeOK, TypeOK', SpentInv, MailShape, NEW r \in Req, NEW rec, Put(r, rec),
         \/ applied' = applied
         \/ /\ reqs[r].pc \in HoldPc /\ applied' = applied \cup {reqs[r].mail}
            /\ rec.pc \notin HoldPc,
         rec.pc \in Reading \cup HoldPc => ~rec.mail.used /\ rec.mail.id <= minted,
         rec.pc \in {"spendReset", "apply"} => rec.mail.kind = "reset",
         rec.pc \in HoldPc => /\ rec.mail \notin mail'
                              /\ \/ rec.mail \in mail
                                 \/ reqs[r].pc \in HoldPc /\ rec.mail = reqs[r].mail
  PROVE  SpentInv'
<1>1. minted \in Nat /\ minted' \in Nat /\ minted' >= minted BY DEF TypeOK, MailShape
<1>2. \A q \in Req : reqs[q].mail \in MailType /\ reqs[q].mail.id \in Nat
  BY DEF TypeOK, ReqType, MailType
<1>3. \A m \in applied : m \in MailType /\ m.id \in Nat BY DEF TypeOK, MailType
<1>4. reqs'[r] = rec /\ \A q \in Req : q # r => reqs'[q] = reqs[q] BY DEF Put, TypeOK
<1>5. rec.mail.id \in Nat BY <1>4 DEF TypeOK, ReqType, MailType
<1>6. ASSUME NEW q \in Req, reqs'[q].pc \in Reading \cup HoldPc
      PROVE  ~reqs'[q].mail.used /\ reqs'[q].mail.id <= minted'
  <2>1. CASE q = r BY <1>1, <1>4, <1>5, <1>6, <2>1
  <2>2. CASE q # r BY <1>1, <1>2, <1>4, <1>6, <2>2 DEF SpentInv
  <2> QED BY <2>1, <2>2
<1>7. ASSUME NEW q \in Req, reqs'[q].pc \in {"spendReset", "apply"}
      PROVE  reqs'[q].mail.kind = "reset"
  <2>1. CASE q = r BY <1>4, <1>7, <2>1
  <2>2. CASE q # r BY <1>4, <1>7, <2>2 DEF SpentInv
  <2> QED BY <2>1, <2>2
<1>8. \A q \in Req : q # r /\ reqs[q].pc \in HoldPc => reqs[q].mail \notin mail'
  BY <1>2, NoneBack DEF SpentInv
<1>9. ASSUME NEW q \in Req, reqs'[q].pc \in HoldPc
      PROVE  reqs'[q].mail \notin mail' \cup applied'
  <2>1. CASE q = r BY <1>4, <1>9, <2>1 DEF SpentInv
  <2>2. CASE q # r
    <3>1. reqs[q].mail \notin applied' BY <1>4, <1>9, <2>2 DEF SpentInv
    <3> QED BY <1>4, <1>8, <1>9, <2>2, <3>1
  <2> QED BY <2>1, <2>2
<1>10. ASSUME NEW m \in applied' PROVE ~m.used /\ m.id <= minted' /\ m \notin mail'
  <2>1. CASE m \in applied BY <1>1, <1>3, <2>1, NoneBack DEF SpentInv
  <2>2. CASE m = reqs[r].mail /\ reqs[r].pc \in HoldPc
    <3>1. ~m.used /\ m.id <= minted /\ m \notin mail BY <2>2 DEF SpentInv
    <3> QED BY <1>1, <1>2, <2>2, <3>1, NoneBack
  <2> QED BY <1>10, <2>1, <2>2
<1>11. ASSUME NEW q \in Req, NEW t \in Req, q # t, reqs'[q].pc \in HoldPc, reqs'[t].pc \in HoldPc
       PROVE  reqs'[q].mail # reqs'[t].mail
  <2>1. CASE q = r BY <1>4, <1>11, <2>1 DEF SpentInv
  <2>2. CASE t = r BY <1>4, <1>11, <2>2 DEF SpentInv
  <2>3. CASE q # r /\ t # r BY <1>4, <1>11, <2>3 DEF SpentInv
  <2> QED BY <2>1, <2>2, <2>3
<1>12. MailIds' BY MailIdsKept DEF SpentInv
<1> QED BY <1>6, <1>7, <1>9, <1>10, <1>11, <1>12 DEF SpentInv

\* ... that is over, or has nothing to do with mail any more.
LEMMA LooseSpent ==
  ASSUME TypeOK, TypeOK', SpentInv, MailShape, NEW r \in Req, NEW rec, Put(r, rec),
         rec.pc \notin Reading \cup HoldPc,
         \/ applied' = applied
         \/ reqs[r].pc \in HoldPc /\ applied' = applied \cup {reqs[r].mail}
  PROVE  SpentInv'
<1>1. rec.pc \notin {"spendReset", "apply"} BY DEF Reading, HoldPc
<1> QED BY <1>1, RequestSpent

LEMMA EndSpent ==
  ASSUME TypeOK, TypeOK', SpentInv, MailShape, NEW r \in Req, End(r),
         \/ applied' = applied
         \/ reqs[r].pc \in HoldPc /\ applied' = applied \cup {reqs[r].mail}
  PROVE  SpentInv'
<1>1. Idle.pc \notin Reading \cup HoldPc BY DEF Idle, Reading, HoldPc
<1> QED BY <1>1, LooseSpent DEF End

LEMMA GoSpent ==
  ASSUME TypeOK, TypeOK', SpentInv, MailShape, NEW r \in Req, NEW pc, Go(r, pc),
         pc \notin Reading \cup HoldPc,
         \/ applied' = applied
         \/ reqs[r].pc \in HoldPc /\ applied' = applied \cup {reqs[r].mail}
  PROVE  SpentInv'
<1> DEFINE rec == [reqs[r] EXCEPT !.pc = pc]
<1>1. rec.pc = pc BY DEF TypeOK, ReqType
<1>2. Put(r, rec) BY DEF Go
<1> HIDE DEF rec
<1> QED BY <1>1, <1>2, LooseSpent

\* A request reads a row it means to spend.
LEMMA ReadSpent ==
  ASSUME TypeOK, TypeOK', SpentInv, MailShape, NEW r \in Req, NEW rec, Put(r, rec),
         NEW m \in mail, ~m.used, rec.mail = m, rec.pc \in Reading,
         rec.pc = "spendReset" => m.kind = "reset", applied' = applied
  PROVE  SpentInv'
<1>1. m.id <= minted BY DEF SpentInv, MailIds
<1>2. rec.pc \notin HoldPc /\ (rec.pc \in {"spendReset", "apply"} => rec.mail.kind = "reset")
  BY DEF Reading, HoldPc
<1> QED BY <1>1, <1>2, RequestSpent

\* A request's update finds the row as it was read: the request holds it now.
LEMMA ClaimSpent ==
  ASSUME TypeOK, TypeOK', SpentInv, MailShape, NEW r \in Req, NEW pc \in HoldPc, Go(r, pc),
         reqs[r].pc \in Reading, pc = "apply" => reqs[r].pc = "spendReset",
         reqs[r].mail \in mail, Spend(reqs[r].mail), applied' = applied
  PROVE  SpentInv'
<1> DEFINE rec == [reqs[r] EXCEPT !.pc = pc]
           m == reqs[r].mail
           n == [m EXCEPT !.used = TRUE]
<1>1. rec.pc = pc /\ rec.mail = m BY DEF TypeOK, ReqType
<1>2. Put(r, rec) BY DEF Go
<1>3. ~m.used /\ m.id <= minted BY DEF SpentInv
<1>4. n.used BY DEF TypeOK, MailType
<1>5. mail' = (mail \ {m}) \cup {n} BY DEF Spend
<1>6. m \in mail BY DEF TypeOK
<1>7. pc \in {"spendReset", "apply"} => m.kind = "reset"
  BY DEF HoldPc, SpentInv
<1> HIDE DEF rec, m, n
<1>8. m # n BY <1>3, <1>4
<1>9. m \notin mail' BY <1>5, <1>8
<1> QED BY <1>1, <1>2, <1>3, <1>6, <1>7, <1>9, RequestSpent

LEMMA SignInSpent ==
  ASSUME TypeOK, TypeOK', SpentInv, NEW r \in Req, SignInStep(r)
  PROVE  SpentInv'
<1>0. MailShape /\ reqs[r] \in ReqType
  <2>1. CASE IssueSession(r) BY <2>1, SameMailShape DEF IssueSession, Post, TypeOK
  <2> QED BY <2>1, SignInShape DEF Plain, TypeOK
<1>1. CASE LoginRead(r)
  <2> DEFINE rec == [Idle EXCEPT !.pc = IF Unconfirmed THEN "marked" ELSE "second",
                                 !.by = "login", !.grant = Checked(password)]
  <2>1. rec.pc \notin Reading \cup HoldPc BY <1>0 DEF Idle, Reading, HoldPc, ReqType
  <2>2. (Put(r, rec)) /\ applied' = applied BY <1>1 DEF LoginRead, History
  <2> HIDE DEF rec
  <2> QED BY <1>0, <2>1, <2>2, LooseSpent
<1>2. CASE MarkedLink(r)
  <2>1. PICK m \in mail : m.kind \in {"confirm"} /\ ~m.used /\ Put(r, [reqs[r] EXCEPT !.pc = "claim", !.mail = m])
    BY <1>2 DEF MarkedLink, Unused
  <2> DEFINE rec == [reqs[r] EXCEPT !.pc = "claim", !.mail = m]
  <2>2. rec.pc = "claim" /\ rec.mail = m BY <1>0 DEF Idle, ReqType
  <2>3. Put(r, rec) /\ applied' = applied BY <1>2, <2>1 DEF MarkedLink, History
  <2> HIDE DEF rec
  <2> QED BY <1>0, <2>1, <2>2, <2>3, ReadSpent DEF Reading
<1>3. CASE PasskeyRead(r)
  <2> DEFINE rec == [Idle EXCEPT !.pc = "issue", !.grant = Checked("passkey")]
  <2>1. rec.pc \notin Reading \cup HoldPc BY <1>0 DEF Idle, Reading, HoldPc, ReqType
  <2>2. (Put(r, rec)) /\ applied' = applied BY <1>3 DEF PasskeyRead, History
  <2> HIDE DEF rec
  <2> QED BY <1>0, <2>1, <2>2, LooseSpent
<1>4. CASE SecondFactor(r)
  BY <1>0, <1>4, EndSpent, GoSpent DEF SecondFactor, History, Reading, HoldPc
<1>5. CASE AnswerChallenge(r)
  <2>1. PICK g \in challenges : Put(r, [Idle EXCEPT !.pc = "issue", !.grant = g])
    BY <1>5 DEF AnswerChallenge
  <2> DEFINE rec == [Idle EXCEPT !.pc = "issue", !.grant = g]
  <2>2. rec.pc \notin Reading \cup HoldPc BY DEF Idle, Reading, HoldPc
  <2>3. Put(r, rec) /\ applied' = applied BY <1>5, <2>1 DEF AnswerChallenge, History
  <2> HIDE DEF rec
  <2> QED BY <1>0, <2>2, <2>3, LooseSpent
<1>6. CASE IssueSession(r) BY <1>0, <1>6, EndSpent DEF IssueSession, History
<1>7. CASE GoogleRead(r)
  <2> DEFINE rec == [Idle EXCEPT !.pc = "second", !.grant = Checked("google")]
             wait == [Idle EXCEPT !.pc = "join", !.mail = Draft("confirm", address)]
  <2>1. rec.pc \notin Reading \cup HoldPc /\ wait.pc \notin Reading \cup HoldPc BY <1>0 DEF Idle, Reading, HoldPc, ReqType
  <2>2. (Put(r, rec) \/ Put(r, wait)) /\ applied' = applied BY <1>7 DEF GoogleRead, History
  <2> HIDE DEF rec, wait
  <2> QED BY <1>0, <2>1, <2>2, LooseSpent
<1> QED BY <1>1, <1>2, <1>3, <1>4, <1>5, <1>6, <1>7 DEF SignInStep

LEMMA ConfirmSpent ==
  ASSUME TypeOK, TypeOK', SpentInv, NEW r \in Req, ConfirmStep(r)
  PROVE  SpentInv'
<1>0. MailShape /\ reqs[r] \in ReqType
  BY ConfirmShape DEF Plain, SpentInv, TypeOK
<1>1. CASE ClaimLink(r)
  <2>1. reqs[r].pc = "claim" /\ applied' = applied BY <1>1 DEF ClaimLink, At, History
  <2>2. \/ End(r)
        \/ /\ reqs[r].mail \in mail /\ Spend(reqs[r].mail)
           /\ Go(r, "move") \/ Go(r, "address")
    BY <1>1 DEF ClaimLink
  <2> QED BY <1>0, <2>1, <2>2, EndSpent, ClaimSpent DEF Reading, HoldPc
<1>2. CASE CheckAddress(r)
  <2>1. reqs[r].pc = "address" /\ applied' = applied /\ mail' = mail
    BY <1>2 DEF CheckAddress, At, History, Post
  <2>2. CASE End(r) BY <1>0, <2>1, <2>2, EndSpent
  <2>3. CASE Go(r, "confirm")
    <3> DEFINE rec == [reqs[r] EXCEPT !.pc = "confirm"]
    <3>1. rec.pc = "confirm" /\ rec.mail = reqs[r].mail BY <1>0 DEF ReqType
    <3>2. Put(r, rec) BY <2>3 DEF Go
    <3>3. ~reqs[r].mail.used /\ reqs[r].mail.id <= minted /\ reqs[r].mail \notin mail
      BY <2>1 DEF SpentInv, HoldPc
    <3>4. reqs[r].pc \in HoldPc /\ "confirm" \notin {"spendReset", "apply"} BY <2>1 DEF HoldPc
    <3> HIDE DEF rec
    <3> QED BY <1>0, <2>1, <3>1, <3>2, <3>3, <3>4, RequestSpent
  <2> QED BY <1>2, <2>2, <2>3 DEF CheckAddress
<1>3. CASE ConfirmAddress(r)
  <2>1. /\ reqs[r].pc \in HoldPc /\ applied' = applied \cup {reqs[r].mail}
        /\ End(r) \/ Go(r, "second") \/ Go(r, "issue")
    BY <1>3 DEF ConfirmAddress, At, HoldPc
  <2> QED BY <1>0, <2>1, EndSpent, GoSpent DEF Reading, HoldPc
<1>4. CASE OpenLink(r)
  <2>1. PICK m \in mail : m.kind \in {"confirm", "change"} /\ ~m.used /\ Put(r, [Idle EXCEPT !.pc = "claim", !.by = "own", !.mail = m])
    BY <1>4 DEF OpenLink, Unused
  <2> DEFINE rec == [Idle EXCEPT !.pc = "claim", !.by = "own", !.mail = m]
  <2>2. rec.pc = "claim" /\ rec.mail = m BY <1>0 DEF Idle, ReqType
  <2>3. Put(r, rec) /\ applied' = applied BY <1>4, <2>1 DEF OpenLink, History
  <2> HIDE DEF rec
  <2> QED BY <1>0, <2>1, <2>2, <2>3, ReadSpent DEF Reading
<1>5. CASE OpenFromSignUp(r)
  <2>1. PICK m \in mail : m.kind \in {"confirm"} /\ ~m.used /\ Put(r, [pc |-> "unchallenged", by |-> "signup",
                                  grant |-> Checked(password), mail |-> m])
    BY <1>5 DEF OpenFromSignUp, Unused
  <2> DEFINE rec == [pc |-> "unchallenged", by |-> "signup",
                                  grant |-> Checked(password), mail |-> m]
  <2>2. rec.pc = "unchallenged" /\ rec.mail = m BY <1>0 DEF Idle, ReqType
  <2>3. Put(r, rec) /\ applied' = applied BY <1>5, <2>1 DEF OpenFromSignUp, History
  <2> HIDE DEF rec
  <2> QED BY <1>0, <2>1, <2>2, <2>3, ReadSpent DEF Reading
<1>6. CASE Unchallenged(r)
  <2>1. reqs[r].pc = "unchallenged" /\ applied' = applied BY <1>6 DEF Unchallenged, At, History
  <2>2. CASE End(r) BY <1>0, <2>1, <2>2, EndSpent
  <2>3. CASE Go(r, "claim")
    <3> DEFINE rec == [reqs[r] EXCEPT !.pc = "claim"]
    <3>1. rec.pc = "claim" /\ rec.mail = reqs[r].mail BY <1>0 DEF ReqType
    <3>2. Put(r, rec) BY <2>3 DEF Go
    <3>3. ~reqs[r].mail.used /\ reqs[r].mail.id <= minted BY <2>1 DEF SpentInv, Reading
    <3>4. "claim" \notin HoldPc /\ "claim" \notin {"spendReset", "apply"} BY DEF HoldPc
    <3> HIDE DEF rec
    <3> QED BY <1>0, <2>1, <3>1, <3>2, <3>3, <3>4, RequestSpent
  <2> QED BY <1>6, <2>2, <2>3 DEF Unchallenged
<1>7. CASE GoogleJoin(r)
  <2> DEFINE rec == [Idle EXCEPT !.pc = "second",
               !.grant = [v |-> version', epoch |-> epoch', proof |-> "google", early |-> FALSE]]
  <2>1. rec.pc \notin Reading \cup HoldPc BY DEF Idle, Reading, HoldPc
  <2>2. Put(r, rec) /\ applied' = applied BY <1>7 DEF GoogleJoin
  <2> HIDE DEF rec
  <2> QED BY <1>0, <2>1, <2>2, LooseSpent
<1> QED BY <1>1, <1>2, <1>3, <1>4, <1>5, <1>6, <1>7 DEF ConfirmStep

LEMMA CodeSpent ==
  ASSUME TypeOK, TypeOK', SpentInv, NEW r \in Req, CodeStep(r)
  PROVE  SpentInv'
<1>0. MailShape /\ reqs[r] \in ReqType
  BY CodeShape DEF Plain, SpentInv, TypeOK
<1>1. CASE MintCode(r)
  BY <1>0, <1>1, GoSpent DEF MintCode, History, Reading, HoldPc
<1>2. CASE PruneCodes(r) BY <1>0, <1>2, EndSpent DEF PruneCodes, History
<1>3. CASE CodeRead(r)
  <2>1. PICK m \in mail : m.kind \in {"code"} /\ ~m.used /\ Put(r, [Idle EXCEPT !.pc = "spendCode", !.mail = m])
    BY <1>3 DEF CodeRead, Unused
  <2> DEFINE rec == [Idle EXCEPT !.pc = "spendCode", !.mail = m]
  <2>2. rec.pc = "spendCode" /\ rec.mail = m BY <1>0 DEF Idle, ReqType
  <2>3. Put(r, rec) /\ applied' = applied BY <1>3, <2>1 DEF CodeRead, History
  <2> HIDE DEF rec
  <2> QED BY <1>0, <2>1, <2>2, <2>3, ReadSpent DEF Reading
<1>4. CASE SpendCode(r)
  <2>1. reqs[r].pc = "spendCode" /\ applied' = applied BY <1>4 DEF SpendCode, At, History
  <2>2. End(r) \/ (reqs[r].mail \in mail /\ Spend(reqs[r].mail) /\ Go(r, "prove"))
    BY <1>4 DEF SpendCode
  <2> QED BY <1>0, <2>1, <2>2, EndSpent, ClaimSpent DEF Reading, HoldPc
<1>5. CASE ProveByCode(r)
  <2> DEFINE rec == [Idle EXCEPT !.pc = "second",
               !.grant = [v |-> version', epoch |-> epoch', proof |-> "mail", early |-> FALSE]]
  <2>1. rec.pc \notin Reading \cup HoldPc BY DEF Idle, Reading, HoldPc
  <2>2. Put(r, rec) /\ applied' = applied \cup {reqs[r].mail} /\ reqs[r].pc \in HoldPc
    BY <1>5 DEF ProveByCode, At, HoldPc
  <2> HIDE DEF rec
  <2> QED BY <1>0, <2>1, <2>2, LooseSpent
<1>6. CASE CodeLookUp(r)
  <2> DEFINE rec == [Idle EXCEPT !.pc = "mintCode", !.mail = Draft("code", address)]
  <2>1. rec.pc \notin Reading \cup HoldPc BY <1>0 DEF Idle, Reading, HoldPc, ReqType
  <2>2. (Put(r, rec)) /\ applied' = applied BY <1>6 DEF CodeLookUp, History
  <2> HIDE DEF rec
  <2> QED BY <1>0, <2>1, <2>2, LooseSpent
<1> QED BY <1>1, <1>2, <1>3, <1>4, <1>5, <1>6 DEF CodeStep

LEMMA ResetSpent ==
  ASSUME TypeOK, TypeOK', SpentInv, NEW r \in Req, ResetStep(r)
  PROVE  SpentInv'
<1>0. MailShape /\ reqs[r] \in ReqType
  <2>1. MailIds /\ (reqs[r].pc = "apply" => reqs[r].mail.kind = "reset") BY DEF SpentInv
  <2> QED BY <2>1, ResetShape DEF Plain, TypeOK
<1>1. CASE RetireResets(r)
  BY <1>0, <1>1, GoSpent DEF RetireResets, History, Reading, HoldPc
<1>2. CASE MintReset(r) BY <1>0, <1>2, EndSpent DEF MintReset, History
<1>3. CASE ResetRead(r)
  <2>1. PICK m \in mail : m.kind \in {"reset"} /\ ~m.used /\ Put(r, [Idle EXCEPT !.pc = "spendReset", !.mail = m])
    BY <1>3 DEF ResetRead, Unused
  <2> DEFINE rec == [Idle EXCEPT !.pc = "spendReset", !.mail = m]
  <2>2. rec.pc = "spendReset" /\ rec.mail = m BY <1>0 DEF Idle, ReqType
  <2>3. Put(r, rec) /\ applied' = applied BY <1>3, <2>1 DEF ResetRead, History
  <2> HIDE DEF rec
  <2> QED BY <1>0, <2>1, <2>2, <2>3, ReadSpent DEF Reading
<1>4. CASE SpendReset(r)
  <2>1. reqs[r].pc = "spendReset" /\ applied' = applied BY <1>4 DEF SpendReset, At, History
  <2>2. End(r) \/ (reqs[r].mail \in mail /\ Spend(reqs[r].mail) /\ Go(r, "apply"))
    BY <1>4 DEF SpendReset
  <2> QED BY <1>0, <2>1, <2>2, EndSpent, ClaimSpent DEF Reading, HoldPc
<1>5. CASE ApplyReset(r) BY <1>0, <1>5, EndSpent DEF ApplyReset, At, HoldPc
<1>6. CASE ForgotLookUp(r)
  <2> DEFINE rec == [Idle EXCEPT !.pc = "retire", !.mail = Draft("reset", address)]
  <2>1. rec.pc \notin Reading \cup HoldPc BY <1>0 DEF Idle, Reading, HoldPc, ReqType
  <2>2. (Put(r, rec)) /\ applied' = applied BY <1>6 DEF ForgotLookUp, History
  <2> HIDE DEF rec
  <2> QED BY <1>0, <2>1, <2>2, LooseSpent
<1> QED BY <1>1, <1>2, <1>3, <1>4, <1>5, <1>6 DEF ResetStep

LEMMA MailStepSpent ==
  ASSUME TypeOK, TypeOK', SpentInv, NEW r \in Req, MailStep(r)
  PROVE  SpentInv'
<1>0. MailShape /\ reqs[r] \in ReqType
  BY MailStepShape DEF Plain, SpentInv, TypeOK
<1>1. CASE ResendLookUp(r)
  <2> DEFINE rec == [Idle EXCEPT !.pc = "mintConfirm", !.mail = Draft("confirm", address)]
             own == [Idle EXCEPT !.pc = "mintConfirm", !.by = "own",
                                 !.grant = Checked("session"), !.mail = Draft("confirm", address)]
  <2>1. rec.pc \notin Reading \cup HoldPc /\ own.pc \notin Reading \cup HoldPc BY <1>0 DEF Idle, Reading, HoldPc, ReqType
  <2>2. (Put(r, rec) \/ Put(r, own)) /\ applied' = applied BY <1>1 DEF ResendLookUp, History
  <2> HIDE DEF rec, own
  <2> QED BY <1>0, <2>1, <2>2, LooseSpent
<1>2. CASE MintConfirm(r) BY <1>0, <1>2, EndSpent DEF MintConfirm, History
<1>3. CASE MintChange(r)
  <2> DEFINE rec == [reqs[r] EXCEPT !.pc = "mailChange", !.mail = Mailed(reqs[r].mail)]
  <2>1. rec.pc \notin Reading \cup HoldPc BY <1>0 DEF Reading, HoldPc, ReqType
  <2>2. (End(r) \/ Put(r, rec)) /\ applied' = applied BY <1>3 DEF MintChange, History
  <2> HIDE DEF rec
  <2> QED BY <1>0, <2>1, <2>2, EndSpent, LooseSpent
<1>4. CASE ChangeMailed(r) BY <1>0, <1>4, EndSpent DEF ChangeMailed, History
<1>5. CASE ChangeNotMailed(r) BY <1>0, <1>5, EndSpent DEF ChangeNotMailed, History
<1>6. CASE ApplyEmailChange(r) BY <1>0, <1>6, EndSpent DEF ApplyEmailChange, At, HoldPc
<1>7. ASSUME NEW a \in Addr, ChangeCheck(r, a) PROVE SpentInv'
  <2> DEFINE rec == [Idle EXCEPT !.pc = "mintChange", !.grant = Checked("session"),
                                 !.mail = Draft("change", a)]
  <2>1. rec.pc \notin Reading \cup HoldPc BY DEF Idle, Reading, HoldPc
  <2>2. Put(r, rec) /\ applied' = applied BY <1>7 DEF ChangeCheck, History
  <2> HIDE DEF rec
  <2> QED BY <1>0, <2>1, <2>2, LooseSpent
<1> QED BY <1>1, <1>2, <1>3, <1>4, <1>5, <1>6, <1>7 DEF MailStep

LEMMA SessionSpent ==
  ASSUME TypeOK, TypeOK', SpentInv, NEW r \in Req, SessionStep(r)
  PROVE  SpentInv'
<1>0. MailShape /\ reqs[r] \in ReqType
  <2>1. CASE AddAccess(r) BY <2>1, SameMailShape DEF AddAccess, Post, TypeOK
  <2> QED BY <2>1, SessionShape DEF Plain, TypeOK
<1>1. CASE AddCheck(r)
  <2> DEFINE rec == [Idle EXCEPT !.pc = "add", !.grant = Checked("session")]
  <2>1. rec.pc \notin Reading \cup HoldPc BY <1>0 DEF Idle, Reading, HoldPc, ReqType
  <2>2. (Put(r, rec)) /\ applied' = applied BY <1>1 DEF AddCheck, History
  <2> HIDE DEF rec
  <2> QED BY <1>0, <2>1, <2>2, LooseSpent
<1>2. CASE AddAccess(r) BY <1>0, <1>2, EndSpent DEF AddAccess, History
<1>3. CASE LogoutAllCheck(r)
  <2> DEFINE rec == [Idle EXCEPT !.pc = "logoutAll"]
  <2>1. rec.pc \notin Reading \cup HoldPc BY <1>0 DEF Idle, Reading, HoldPc, ReqType
  <2>2. (Put(r, rec)) /\ applied' = applied BY <1>3 DEF LogoutAllCheck, History
  <2> HIDE DEF rec
  <2> QED BY <1>0, <2>1, <2>2, LooseSpent
<1>4. CASE LogoutAll(r) BY <1>0, <1>4, EndSpent DEF LogoutAll
<1>5. CASE Stop(r) BY <1>0, <1>5, EndSpent DEF Stop, History
<1> QED BY <1>1, <1>2, <1>3, <1>4, <1>5 DEF SessionStep

LEMMA NextSpent ==
  ASSUME TypeOK, TypeOK', SpentInv, [Next]_vars
  PROVE  SpentInv'
<1>1. ASSUME NEW r \in Req, SignInStep(r) \/ ConfirmStep(r) \/ CodeStep(r) \/ ResetStep(r)
                            \/ MailStep(r) \/ SessionStep(r)
      PROVE  SpentInv'
  BY <1>1, SignInSpent, ConfirmSpent, CodeSpent, ResetSpent, MailStepSpent, SessionSpent
<1>2. ASSUME NEW s \in sessions, EndSession(s) PROVE SpentInv'
  BY <1>2, SameMailShape, OthersSpent DEF EndSession, Post, History
<1>3. ASSUME NEW a \in access, RemoveAccess(a) PROVE SpentInv'
  BY <1>3, SameMailShape, OthersSpent DEF RemoveAccess, Post, History
<1>4. CASE CancelChange
  <2>1. mail' \subseteq mail BY <1>4 DEF CancelChange
  <2> QED BY <1>4, <2>1, SameMailShape, OthersSpent DEF CancelChange, History
<1>5. CASE UNCHANGED vars
  BY <1>5, SameMailShape, OthersSpent DEF vars, Post, History
<1> QED BY <1>1, <1>2, <1>3, <1>4, <1>5 DEF Next

LEMMA InitSpent == Init => SpentInv
<1> SUFFICES ASSUME Init PROVE SpentInv OBVIOUS
<1>1. \A r \in Req : reqs[r].pc = "idle" BY DEF Init, Idle
<1>2. \A m \in mail : m = [Draft("confirm", Home) EXCEPT !.id = 1, !.early = TRUE] BY DEF Init
<1>3. \A m \in mail : m.id = 1 BY <1>2 DEF Draft
<1>4. MailIds BY <1>3 DEF Init, MailIds
<1>5. applied = {} BY DEF Init
<1> QED BY <1>1, <1>4, <1>5 DEF SpentInv, Reading, HoldPc

LEMMA SpentHolds == Spec => [](TypeOK /\ GrantInv /\ SpentInv)
<1>1. TypeOK /\ TypeOK' /\ SpentInv /\ [Next]_vars => SpentInv' BY NextSpent
<1> QED BY <1>1, InitSpent, GrantsHold, PTL DEF Spec

\* A link or a code takes effect for one request, however many opened it together.
THEOREM MailSpentOnce == Spec => []SpentOnce
<1>1. SpentInv => SpentOnce BY DEF SpentInv, SpentOnce, Holding, HoldPc
<1> QED BY <1>1, SpentHolds, PTL

\* A passkey, token or TOTP is only ever added by a request whose session was
\* checked after the last time everyone was signed out.
THEOREM AccessAddedWhileTrusted == Spec => AddedWhileTrusted
<1>1. TypeOK /\ GrantInv /\ SpentInv /\ [Next]_vars => \A a \in access' \ access : a.epoch = epoch
  <2> SUFFICES ASSUME TypeOK, GrantInv, SpentInv, [Next]_vars, NEW a \in access' \ access
               PROVE  a.epoch = epoch
    OBVIOUS
  <2>1. CASE Plain BY <2>1 DEF Plain
  <2>2. ASSUME NEW r \in Req, AddAccess(r) PROVE a.epoch = epoch
    <3>1. reqs[r].grant.v = version /\ a.epoch = reqs[r].grant.epoch BY <2>2 DEF AddAccess
    <3> QED BY <3>1 DEF GrantInv, Holds
  <2>3. ASSUME NEW r \in Req, IssueSession(r) PROVE a.epoch = epoch BY <2>3 DEF IssueSession
  <2>4. ASSUME NEW s \in sessions, EndSession(s) PROVE a.epoch = epoch BY <2>4 DEF EndSession
  <2>5. MailIds /\ \A r \in Req : reqs[r].pc = "apply" => reqs[r].mail.kind = "reset"
    BY DEF SpentInv
  <2> QED BY <2>1, <2>2, <2>3, <2>4, <2>5, NextShape
<1> QED BY <1>1, SpentHolds, PTL DEF Spec, AddedWhileTrusted
-----------------------------------------------------------------------------
(* What was there before the address was confirmed, and the Welcome.           *)

EarlyInv ==
  cleared => /\ \A a \in access : ~a.early
             /\ \A m \in mail : m.early => m.used
             /\ password = NoPw \/ \E m \in applied : m.kind = "reset"

WelcomeInv ==
  /\ ~welcomed => welcomes = 0
  /\ verified => welcomed
  /\ welcomes <= 1

LEMMA NextEarly ==
  ASSUME TypeOK, GrantInv, SpentInv, EarlyInv, [Next]_vars
  PROVE  EarlyInv'
<1>1. CASE Plain
  <2> SUFFICES ASSUME cleared'
               PROVE  /\ \A a \in access' : ~a.early
                      /\ \A m \in mail' : m.early => m.used
                      /\ password' = NoPw \/ \E m \in applied' : m.kind = "reset"
    BY DEF EarlyInv
  <2>1. (cleared' = cleared /\ verified) \/ (access' = {} /\ \A m \in mail' : m.used)
    BY <1>1 DEF Plain, Quiet, ClearShape, GrantInv
  <2>2. \A a \in access' : ~a.early BY <1>1, <2>1 DEF EarlyInv, Plain
  <2>3. \A m \in mail' : m.early => m.used BY <1>1, <2>1 DEF EarlyInv, Plain, MailShape
  <2>4. password' = NoPw \/ \E m \in applied' : m.kind = "reset"
    BY <1>1 DEF EarlyInv, Plain, Quiet, PasswordShape
  <2> QED BY <2>2, <2>3, <2>4
<1>2. ASSUME NEW r \in Req, IssueSession(r) PROVE EarlyInv'
  BY <1>2 DEF IssueSession, Row, Post, History, EarlyInv
<1>3. ASSUME NEW r \in Req, AddAccess(r) PROVE EarlyInv'
  <2>1. /\ cleared' = cleared /\ mail' = mail /\ password' = password /\ applied' = applied
    BY <1>3 DEF AddAccess, Row, Post, History
  <2>2. ASSUME cleared, NEW a \in access', a \notin access PROVE ~a.early
    <3>1. a.early = reqs[r].grant.early /\ reqs[r].grant.v = version BY <1>3, <2>2 DEF AddAccess
    <3>2. ~reqs[r].grant.early BY <2>2, <3>1 DEF GrantInv, Holds
    <3> QED BY <3>1, <3>2
  <2> QED BY <2>1, <2>2 DEF EarlyInv
<1>4. ASSUME NEW s \in sessions, EndSession(s) PROVE EarlyInv'
  BY <1>4 DEF EndSession, Row, Post, History, EarlyInv
<1>5. MailIds /\ \A r \in Req : reqs[r].pc = "apply" => reqs[r].mail.kind = "reset"
  BY DEF SpentInv
<1> QED BY <1>1, <1>2, <1>3, <1>4, <1>5, NextShape

LEMMA NextWelcome ==
  ASSUME TypeOK, SpentInv, WelcomeInv, [Next]_vars
  PROVE  WelcomeInv'
<1>1. CASE Plain
  <2>1. CASE UNCHANGED <<verified, welcomed, welcomes>> BY <2>1 DEF WelcomeInv
  <2>2. CASE verified' = TRUE /\ ClaimWelcomeOnConfirm
    <3>1. CASE verified BY <2>2, <3>1 DEF WelcomeInv, ClaimWelcomeOnConfirm, TypeOK
    <3>2. CASE ~verified /\ welcomed BY <2>2, <3>2 DEF WelcomeInv, ClaimWelcomeOnConfirm, TypeOK
    <3>3. CASE ~verified /\ ~welcomed
      <4>1. welcomes' = 1 BY <2>2, <3>3 DEF WelcomeInv, ClaimWelcomeOnConfirm
      <4>2. welcomed' BY <2>2, <3>3 DEF ClaimWelcomeOnConfirm
      <4> QED BY <4>1, <4>2 DEF WelcomeInv
    <3> QED BY <3>1, <3>2, <3>3
  <2> QED BY <1>1, <2>1, <2>2 DEF Plain, WelcomeShape
<1>2. ASSUME NEW r \in Req, IssueSession(r) \/ AddAccess(r) PROVE WelcomeInv'
  BY <1>2 DEF IssueSession, AddAccess, Row, Welcome, WelcomeInv
<1>3. ASSUME NEW s \in sessions, EndSession(s) PROVE WelcomeInv'
  BY <1>3 DEF EndSession, Row, Welcome, WelcomeInv
<1>4. MailIds /\ \A r \in Req : reqs[r].pc = "apply" => reqs[r].mail.kind = "reset"
  BY DEF SpentInv
<1> QED BY <1>1, <1>2, <1>3, <1>4, NextShape

\* Once a proof of the mailbox has confirmed the address, nothing that was set up
\* before opens the account, however the requests that wrote it were timed.
THEOREM EarlyAccessEnds == Spec => []UnconfirmedAccessEnds
<1>1. Init => EarlyInv BY DEF Init, EarlyInv
<1>2. TypeOK /\ GrantInv /\ SpentInv /\ EarlyInv /\ [Next]_vars => EarlyInv' BY NextEarly
<1>3. TypeOK /\ GrantInv /\ EarlyInv => UnconfirmedAccessEnds
  <2> SUFFICES ASSUME TypeOK, GrantInv, EarlyInv, cleared, NEW s \in Live PROVE ~s.grant.early
    BY DEF EarlyInv, UnconfirmedAccessEnds
  <2>1. s \in sessions /\ s.grant.v \in Nat /\ version \in Nat /\ s.grant.v >= version
    BY DEF Live, TypeOK, GrantType
  <2>2. Holds(s.grant, version, epoch, password, cleared) BY <2>1 DEF GrantInv
  <2> QED BY <2>1, <2>2 DEF Holds
<1> QED BY <1>1, <1>2, <1>3, SpentHolds, PTL DEF Spec

\* The Welcome goes with the first confirmation, and once.
THEOREM WelcomedOnce == Spec => []WelcomeOnce
<1>1. Init => WelcomeInv BY DEF Init, WelcomeInv
<1>2. TypeOK /\ SpentInv /\ WelcomeInv /\ [Next]_vars => WelcomeInv' BY NextWelcome
<1>3. WelcomeInv => WelcomeOnce BY DEF WelcomeInv, WelcomeOnce
<1> QED BY <1>1, <1>2, <1>3, SpentHolds, PTL DEF Spec

-----------------------------------------------------------------------------
(* Access implements SignIns.                                                  *)

UniqueIds == \A s, t \in sessions : s.id = t.id => s = t

LEMMA NextUnique ==
  ASSUME TypeOK, SpentInv, UniqueIds, [Next]_vars
  PROVE  UniqueIds'
<1>1. CASE Plain BY <1>1 DEF Plain, UniqueIds
<1>2. ASSUME NEW r \in Req, IssueSession(r) PROVE UniqueIds'
  BY <1>2 DEF IssueSession, UniqueIds
<1>3. ASSUME NEW r \in Req, AddAccess(r) PROVE UniqueIds'
  BY <1>3 DEF AddAccess, UniqueIds
<1>4. ASSUME NEW s \in sessions, EndSession(s) PROVE UniqueIds'
  BY <1>4 DEF EndSession, UniqueIds
<1>5. MailIds /\ \A r \in Req : reqs[r].pc = "apply" => reqs[r].mail.kind = "reset"
  BY DEF SpentInv
<1> QED BY <1>1, <1>2, <1>3, <1>4, <1>5, NextShape

LEMMA InitImplements == Init => S!Init
<1> SUFFICES ASSUME Init PROVE S!Init OBVIOUS
<1>1. password \in Pw \cup {NoPw} BY DEF Init
<1>2. ASSUME NEW d \in Devices PROVE d \in [id : Sid, proof : Proofs]
  <2>1. PICK i \in Sid : d = [id |-> i, proof |-> FirstPw] BY DEF Devices, Live, Init, FirstDevice
  <2> QED BY <2>1 DEF Proofs
<1> QED BY <1>1, <1>2 DEF S!Init

LEMMA SameDevices ==
  ASSUME sessions' = sessions, version' = version, password' = password
  PROVE  UNCHANGED S!vars
  BY DEF S!vars, Devices, Live

LEMMA NextImplements ==
  ASSUME TypeOK, TypeOK', GrantInv, SpentInv, UniqueIds, [Next]_vars
  PROVE  S!Next \/ UNCHANGED S!vars
<1>0. /\ version \in Nat
      /\ \A s \in sessions : s.id \in Sid /\ s.grant.v \in Nat /\ s.grant.v <= version
  BY DEF TypeOK, GrantType, GrantInv, Holds
<1>1. CASE Plain
  <2>1. CASE Quiet /\ sessions' = sessions BY <2>1, SameDevices DEF Quiet
  <2>2. CASE Moved
    <3>1. Live' = {} BY <1>0, <1>1, <2>2 DEF Plain, Moved, Live
    <3>2. Devices' = {} BY <3>1 DEF Devices
    <3>3. password' \in Pw \cup {NoPw} BY DEF TypeOK
    <3> QED BY <3>2, <3>3 DEF S!Next, S!RevokeAll
  <2> QED BY <1>1, <2>1, <2>2 DEF Plain
<1>2. ASSUME NEW r \in Req, IssueSession(r) PROVE S!Next \/ UNCHANGED S!vars
  <2>1. version' = version /\ password' = password BY <1>2 DEF IssueSession, Row
  <2>2. CASE reqs[r].grant.v # version
    BY <1>2, <2>1, <2>2, SameDevices DEF IssueSession
  <2>3. CASE reqs[r].grant.v = version
    <3> DEFINE g == reqs[r].grant
    <3>1. PICK i \in Sid : /\ \A s \in sessions : s.id # i
                           /\ sessions' = sessions \cup {[id |-> i, grant |-> g]}
      BY <1>2, <2>3 DEF IssueSession
    <3>2. g \in GrantType /\ g.proof \in Proofs /\ (g.proof \in Pw => g.proof = password)
      BY <2>3 DEF TypeOK, ReqType, GrantType, GrantInv, Holds
    <3>3. g.v >= version BY <1>0, <2>3
    <3> HIDE DEF g
    <3>4. Live' = Live \cup {[id |-> i, grant |-> g]} BY <2>1, <3>1, <3>3 DEF Live
    <3>5. Devices' = Devices \cup {[id |-> i, proof |-> g.proof]}
      <4> DEFINE n == [id |-> i, grant |-> g]
                 D(s) == [id |-> s.id, proof |-> s.grant.proof]
      <4>1. Live' = Live \cup {n} BY <3>4
      <4>2. D(n) = [id |-> i, proof |-> g.proof] OBVIOUS
      <4>3. Devices = {D(s) : s \in Live} BY DEF Devices
      <4>4. Devices' = {D(s) : s \in Live'} BY DEF Devices
      <4> HIDE DEF D, n
      <4>5. {D(s) : s \in Live \cup {n}} = {D(s) : s \in Live} \cup {D(n)} OBVIOUS
      <4> QED BY <4>1, <4>2, <4>3, <4>4, <4>5
    <3>6. \A d \in Devices : d.id # i BY <3>1 DEF Devices, Live
    <3>7. S!SignIn(i, g.proof) BY <2>1, <3>2, <3>5, <3>6 DEF S!SignIn
    <3> QED BY <3>2, <3>7 DEF S!Next
  <2> QED BY <2>2, <2>3
<1>3. ASSUME NEW r \in Req, AddAccess(r) PROVE UNCHANGED S!vars
  BY <1>3, SameDevices DEF AddAccess, Row
<1>4. ASSUME NEW s \in sessions, EndSession(s) PROVE S!Next \/ UNCHANGED S!vars
  <2>1. version' = version /\ password' = password /\ sessions' = sessions \ {s}
    BY <1>4 DEF EndSession, Row
  <2>2. Live' = Live \ {s} BY <2>1 DEF Live
  <2>3. CASE s \notin Live
    <3>1. Live' = Live BY <2>2, <2>3
    <3>2. Devices' = Devices BY <3>1 DEF Devices
    <3> QED BY <2>1, <3>2 DEF S!vars
  <2>4. CASE s \in Live
    <3> DEFINE d == [id |-> s.id, proof |-> s.grant.proof]
    <3>1. d \in Devices BY <2>4 DEF Devices
    <3>2. ASSUME NEW t \in Live, t # s PROVE [id |-> t.id, proof |-> t.grant.proof] # d
      <4>1. t.id # s.id BY <3>2 DEF Live, UniqueIds
      <4> QED BY <4>1
    <3>3. Devices' = Devices \ {d} BY <2>2, <3>2 DEF Devices
    <3> QED BY <2>1, <3>1, <3>3 DEF S!Next, S!SignOut
  <2> QED BY <2>3, <2>4
<1>5. MailIds /\ \A r \in Req : reqs[r].pc = "apply" => reqs[r].mail.kind = "reset"
  BY DEF SpentInv
<1> QED BY <1>1, <1>2, <1>3, <1>4, <1>5, NextShape

\* Every way into the account, with all its requests interleaved, signs a device in
\* on a proof that holds at that moment, and lets no device outlive a new password.
THEOREM AccessImplementsSignIns == Spec => Implements
<1>1. Init => UniqueIds
  <2> SUFFICES ASSUME Init PROVE UniqueIds OBVIOUS
  <2> QED BY DEF Init, UniqueIds, FirstDevice
<1>2. TypeOK /\ SpentInv /\ UniqueIds /\ [Next]_vars => UniqueIds' BY NextUnique
<1>3. TypeOK /\ TypeOK' /\ GrantInv /\ SpentInv /\ UniqueIds /\ [Next]_vars => [S!Next]_(S!vars)
  BY NextImplements
<1> QED BY <1>1, <1>2, <1>3, InitImplements, SpentHolds, PTL DEF Spec, Implements, S!Spec
=============================================================================
