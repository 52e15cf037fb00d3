--------------------------- MODULE TwoFactorProofs ---------------------------
(* What holds of TwoFactor for any number of requests, sessions, sheets and     *)
(* secrets: the type of its state, that a recovery code is redeemed once, that  *)
(* an enrolment stands until it is turned off, and that its step never rewinds. *)
EXTENDS TwoFactor, TLAPS

LEMMA IdleType == Idle \in ReqType /\ NoTotp \in TotpType
  BY DEF Idle, NoTotp, ReqType, TotpType

LEMMA PendingType == \A n \in Nat : Pending(n) \in TotpType
  BY DEF Pending, TotpType

LEMMA RecType ==
  ASSUME NEW pc \in {"idle", "second", "issue", "prove", "drop", "enroll", "turnOn", "mark", "others"},
         NEW v \in Nat, NEW factors \in {"none", "one", "two"}, NEW for \in {"issue", "drop"},
         NEW read \in TotpType, NEW step \in Int, NEW own \in SUBSET Sid
  PROVE  [pc |-> pc, v |-> v, factors |-> factors, for |-> for, read |-> read,
          step |-> step, own |-> own] \in ReqType
  BY DEF ReqType

LEMMA VarTypes ==
  TypeOK => /\ version \in Nat /\ secrets \in Nat /\ sheets \in Nat /\ totp \in TotpType
            /\ codes \subseteq [sheet : Nat, code : Sheet, used : BOOLEAN]
  BY DEF TypeOK

LEMMA Stays == TypeOK /\ UNCHANGED vars => TypeOK'
  BY DEF TypeOK, vars, History

LEMMA ReqFields ==
  ASSUME TypeOK, NEW r \in Req
  PROVE  /\ reqs[r] \in ReqType
         /\ reqs[r].v \in Nat /\ reqs[r].factors \in {"none", "one", "two"} /\ reqs[r].for \in {"issue", "drop"}
         /\ reqs[r].read \in TotpType /\ reqs[r].step \in Int /\ reqs[r].own \subseteq Sid
<1>1. reqs[r] \in ReqType
  BY DEF TypeOK
<1> QED BY <1>1 DEF ReqType

\* A request's next value is of its type.
LEMMA PutType ==
  ASSUME TypeOK, NEW r \in Req, NEW rec \in ReqType, Put(r, rec)
  PROVE  reqs' \in [Req -> ReqType]
  BY DEF TypeOK, Put

LEMMA EndType ==
  ASSUME TypeOK, NEW r \in Req, End(r)
  PROVE  reqs' \in [Req -> ReqType]
  BY IdleType, PutType DEF End

LEMMA GoType ==
  ASSUME TypeOK, NEW r \in Req,
         NEW pc \in {"idle", "second", "issue", "prove", "drop", "enroll", "turnOn", "mark", "others"},
         Go(r, pc)
  PROVE  reqs' \in [Req -> ReqType]
<1>1. [reqs[r] EXCEPT !.pc = pc] \in ReqType
  BY DEF TypeOK, ReqType
<1> QED BY <1>1, PutType DEF Go

\* Marking a step leaves a row of its type, with the step no lower.
LEMMA MarkKeeps ==
  ASSUME TypeOK, NEW step \in Int
  PROVE  /\ Mark(step) \in TotpType
         /\ Mark(step).secret = totp.secret /\ Mark(step).on = totp.on
         /\ Mark(step).last >= totp.last
  BY DEF TypeOK, Mark, AtLeast, TotpType

\* Counting one more of anything leaves a function of its type.
LEMMA CountType ==
  ASSUME NEW D, NEW f \in [D -> Nat], NEW k
  PROVE  [f EXCEPT ![k] = @ + 1] \in [D -> Nat]
<1>1. CASE k \in D
  <2>1. f[k] \in Nat
    BY <1>1
  <2>2. f[k] + 1 \in Nat
    BY <2>1
  <2> QED BY <1>1, <2>2
<1>2. CASE k \notin D
  BY <1>2
<1> QED BY <1>1, <1>2

LEMMA GotType ==
  ASSUME TypeOK, NEW secret, NEW step, Got(secret, step)
  PROVE  spent' \in [AppCodes -> Nat] /\ redeemed' \in [PaperCodes -> Nat]
<1> DEFINE k == [secret |-> secret, step |-> step]
<1>1. spent \in [AppCodes -> Nat] /\ redeemed \in [PaperCodes -> Nat]
  BY DEF TypeOK
<1>2. spent' = [spent EXCEPT ![k] = @ + 1] /\ redeemed' = redeemed
  BY DEF Got
<1> HIDE DEF k
<1> QED BY <1>1, <1>2, CountType

LEMMA GotPaperType ==
  ASSUME TypeOK, NEW c, GotPaper(c)
  PROVE  spent' \in [AppCodes -> Nat] /\ redeemed' \in [PaperCodes -> Nat]
<1> DEFINE k == [sheet |-> c.sheet, code |-> c.code]
<1>1. spent \in [AppCodes -> Nat] /\ redeemed \in [PaperCodes -> Nat]
  BY DEF TypeOK
<1>2. redeemed' = [redeemed EXCEPT ![k] = @ + 1] /\ spent' = spent
  BY DEF GotPaper
<1> HIDE DEF k
<1> QED BY <1>1, <1>2, CountType

\* Every step keeps every variable's type.
LEMMA TypeStep == TypeOK /\ [Next]_vars => TypeOK'
<1> SUFFICES ASSUME TypeOK, [Next]_vars
             PROVE  TypeOK'
  OBVIOUS
<1>0. alone' \in BOOLEAN
  BY DEF TypeOK, Next, vars
<1> USE <1>0 DEF History
<1>1. CASE UNCHANGED vars
  BY <1>1, Stays
<1>2. CASE SignOutEverywhere
  BY <1>2 DEF SignOutEverywhere, TypeOK
<1>3. CASE Tick
  BY <1>3 DEF Tick, TypeOK
<1>4. ASSUME NEW r \in Req, FirstFactor(r) PROVE TypeOK'
  <2>1. [Idle EXCEPT !.pc = "second", !.v = version, !.factors = "one"] \in ReqType
    BY IdleType, VarTypes DEF ReqType, Idle
  <2>2. reqs' \in [Req -> ReqType]
    BY <1>4, <2>1, PutType DEF FirstFactor
  <2> QED BY <1>4, <2>2 DEF FirstFactor, TypeOK
<1>5. ASSUME NEW r \in Req, SecondFactor(r) PROVE TypeOK'
  <2>1. reqs' \in [Req -> ReqType]
    BY <1>5, EndType, GoType DEF SecondFactor
  <2>2. challenges' = challenges \/ challenges' = challenges \cup {reqs[r].v}
    BY <1>5 DEF SecondFactor
  <2>3. challenges' \subseteq Nat
    <3>1. reqs[r].v \in Nat /\ challenges \subseteq Nat
      BY ReqFields DEF TypeOK
    <3> QED BY <2>2, <3>1
  <2> QED BY <1>5, <2>1, <2>3 DEF SecondFactor, TypeOK
<1>6. ASSUME NEW r \in Req, IssueSession(r) PROVE TypeOK'
  <2>1. reqs' \in [Req -> ReqType]
    BY <1>6, EndType DEF IssueSession
  <2>2. sessions' \subseteq [id : Sid, v : Nat, factors : {"none", "one", "two"}]
    BY <1>6, ReqFields DEF IssueSession, TypeOK
  <2> QED BY <1>6, <2>1, <2>2 DEF IssueSession, TypeOK
<1>7. ASSUME NEW r \in Req, ReadTotp(r) PROVE TypeOK'
  <2>1. \A v \in Nat : [Idle EXCEPT !.pc = "prove", !.v = v, !.factors = "two", !.for = "issue",
                                    !.read = totp] \in ReqType
    BY IdleType, VarTypes DEF ReqType, Idle
  <2>2. [Idle EXCEPT !.pc = "prove", !.for = "drop", !.read = totp] \in ReqType
    BY IdleType DEF TypeOK, ReqType, Idle
  <2>3. challenges \subseteq Nat
    BY DEF TypeOK
  <2>4. reqs' \in [Req -> ReqType]
    BY <1>7, <2>1, <2>2, <2>3, PutType DEF ReadTotp
  <2> QED BY <1>7, <2>4 DEF ReadTotp, TypeOK
<1>8. ASSUME NEW r \in Req, AcceptAppCode(r) PROVE TypeOK'
  <2>1. reqs' \in [Req -> ReqType]
    BY <1>8, GoType, ReqFields DEF AcceptAppCode
  <2>2. PICK step \in Window : /\ Got(reqs[r].read.secret, step)
                               /\ totp' = IF totp.secret = 0 THEN totp ELSE Mark(step)
    BY <1>8 DEF AcceptAppCode
  <2>3. step \in Int
    BY <2>2 DEF Window
  <2>4. totp' \in TotpType
    BY <2>2, <2>3, MarkKeeps DEF TypeOK
  <2>5. spent' \in [AppCodes -> Nat] /\ redeemed' \in [PaperCodes -> Nat]
    BY <2>2, GotType
  <2> QED BY <1>8, <2>1, <2>4, <2>5 DEF AcceptAppCode, TypeOK
<1>9. ASSUME NEW r \in Req, AcceptPaperCode(r) PROVE TypeOK'
  <2>1. reqs' \in [Req -> ReqType]
    BY <1>9, GoType, ReqFields DEF AcceptPaperCode
  <2>2. PICK c \in codes : /\ codes' = (codes \ {c}) \cup {[c EXCEPT !.used = TRUE]}
                           /\ GotPaper(c)
    BY <1>9 DEF AcceptPaperCode
  <2>3. codes' \subseteq [sheet : Nat, code : Sheet, used : BOOLEAN]
    BY <2>2 DEF TypeOK
  <2>5. spent' \in [AppCodes -> Nat] /\ redeemed' \in [PaperCodes -> Nat]
    BY <2>2, GotPaperType
  <2> QED BY <1>9, <2>1, <2>3, <2>5 DEF AcceptPaperCode, TypeOK
<1>10. ASSUME NEW r \in Req, RefuseCode(r) PROVE TypeOK'
  BY <1>10, EndType DEF RefuseCode, TypeOK
<1>11. ASSUME NEW r \in Req, SetupCheck(r) PROVE TypeOK'
  <2>1. [Idle EXCEPT !.pc = "enroll", !.v = version] \in ReqType
    BY IdleType DEF TypeOK, ReqType, Idle
  <2>2. reqs' \in [Req -> ReqType]
    BY <1>11, <2>1, PutType DEF SetupCheck
  <2> QED BY <1>11, <2>2 DEF SetupCheck, TypeOK
<1>12. ASSUME NEW r \in Req, Enroll(r) PROVE TypeOK'
  <2>1. reqs' \in [Req -> ReqType]
    BY <1>12, EndType DEF Enroll
  <2>2. \/ secrets' = secrets + 1 /\ totp' = Pending(secrets + 1)
        \/ secrets' = secrets /\ totp' = totp
    BY <1>12 DEF Enroll
  <2>3. secrets' \in Nat /\ totp' \in TotpType
    BY <2>2, VarTypes, PendingType
  <2> QED BY <1>12, <2>1, <2>3 DEF Enroll, TypeOK
<1>13. ASSUME NEW r \in Req, EnableRead(r) PROVE TypeOK'
  <2>1. PICK s \in Live, step \in Window :
          Put(r, [Idle EXCEPT !.pc = "turnOn", !.v = version, !.read = totp,
                              !.step = step, !.own = {s.id}])
    BY <1>13 DEF EnableRead
  <2>2. s.id \in Sid /\ step \in Int
    BY <2>1 DEF Live, Window, TypeOK
  <2>3. [Idle EXCEPT !.pc = "turnOn", !.v = version, !.read = totp,
                     !.step = step, !.own = {s.id}] \in ReqType
    BY <2>2, IdleType DEF TypeOK, ReqType, Idle
  <2>4. reqs' \in [Req -> ReqType]
    BY <2>1, <2>3, PutType
  <2> QED BY <1>13, <2>4 DEF EnableRead, TypeOK
<1>14. ASSUME NEW r \in Req, TurnOn(r) PROVE TypeOK'
  <2>1. reqs' \in [Req -> ReqType]
    BY <1>14, EndType, GoType DEF TurnOn
  <2>2. totp' \in TotpType
    BY <1>14 DEF TurnOn, TypeOK, TotpType
  <2>6. \/ sheets' = sheets + 1 /\ codes' = NewSheet
        \/ sheets' = sheets /\ codes' = codes
    BY <1>14 DEF TurnOn
  <2>7. sheets' \in Nat
    BY <2>6, VarTypes
  <2>8. NewSheet \subseteq [sheet : Nat, code : Sheet, used : BOOLEAN]
    <3>1. {sheets + 1} \subseteq Nat /\ {FALSE} \subseteq BOOLEAN
      BY VarTypes
    <3> QED BY <3>1, Zenon DEF NewSheet
  <2>3. sheets' \in Nat /\ codes' \subseteq [sheet : Nat, code : Sheet, used : BOOLEAN]
    BY <2>6, <2>7, <2>8, VarTypes
  <2>4. spent' \in [AppCodes -> Nat] /\ redeemed' \in [PaperCodes -> Nat]
    BY <1>14, GotType DEF TurnOn, TypeOK
  <2> QED BY <1>14, <2>1, <2>2, <2>3, <2>4 DEF TurnOn, TypeOK
<1>15. ASSUME NEW r \in Req, MarkEnrolled(r) PROVE TypeOK'
  <2>1. reqs' \in [Req -> ReqType]
    BY <1>15, GoType DEF MarkEnrolled
  <2>2. totp' \in TotpType
    BY <1>15, MarkKeeps, ReqFields DEF MarkEnrolled, TypeOK
  <2> QED BY <1>15, <2>1, <2>2 DEF MarkEnrolled, TypeOK
<1>16. ASSUME NEW r \in Req, EndOthers(r) PROVE TypeOK'
  <2>1. reqs' \in [Req -> ReqType]
    BY <1>16, EndType DEF EndOthers
  <2>2. sessions' \subseteq [id : Sid, v : Nat, factors : {"none", "one", "two"}]
    BY <1>16 DEF EndOthers, TypeOK
  <2> QED BY <1>16, <2>1, <2>2 DEF EndOthers, TypeOK
<1>17. ASSUME NEW r \in Req, Drop(r) PROVE TypeOK'
  BY <1>17, EndType, IdleType DEF Drop, TypeOK
<1>18. ASSUME NEW r \in Req, Fail(r) PROVE TypeOK'
  BY <1>18, EndType DEF Fail, TypeOK
<1> QED
  BY <1>1, <1>2, <1>3, <1>4, <1>5, <1>6, <1>7, <1>8, <1>9, <1>10, <1>11, <1>12, <1>13, <1>14,
     <1>15, <1>16, <1>17, <1>18 DEF Next, SignInStep, SettingsStep

\* Every row, cookie and request holds values of its kind.
THEOREM TypeCorrect == Spec => []TypeOK
<1>1. Init => TypeOK
  BY IdleType, TwoFactorAssumption DEF Init, TypeOK
<1> QED BY <1>1, TypeStep, PTL DEF Spec
-----------------------------------------------------------------------------
(* Recovery codes                                                              *)

\* The rows of a sheet are one per code, of a sheet handed out, and a code that
\* is not marked used has not been redeemed; nothing of a later sheet has.
Key(c) == [sheet |-> c.sheet, code |-> c.code]
PaperInv ==
  /\ \A c \in codes : c.sheet <= sheets /\ Key(c) \in PaperCodes
  /\ \A c, d \in codes : Key(c) = Key(d) => c = d
  /\ \A c \in codes : ~c.used => redeemed[Key(c)] = 0
  /\ \A p \in PaperCodes : p.sheet > sheets => redeemed[p] = 0
  /\ PaperCodeOnce

LEMMA PaperFields ==
  \A p \in PaperCodes : p.sheet \in 1..MaxSheets /\ p.code \in Sheet /\ Key(p) = p
  BY DEF PaperCodes, Key

\* Redeeming an unused code of the table counts it for the first time.
LEMMA RedeemOnce ==
  ASSUME TypeOK, PaperInv, NEW c \in codes, ~c.used, GotPaper(c), sheets' = sheets,
         codes' = (codes \ {c}) \cup {[c EXCEPT !.used = TRUE]}
  PROVE  PaperInv'
<1> DEFINE k == Key(c)
<1>1. redeemed \in [PaperCodes -> Nat] /\ codes \subseteq [sheet : Nat, code : Sheet, used : BOOLEAN]
  BY DEF TypeOK
<1>2. k \in PaperCodes /\ redeemed[k] = 0 /\ c.sheet <= sheets
  BY DEF PaperInv
<1>3. redeemed' = [redeemed EXCEPT ![k] = @ + 1]
  BY DEF GotPaper, Key
<1>4. \A p \in PaperCodes : redeemed'[p] = IF p = k THEN 1 ELSE redeemed[p]
  <2> HIDE DEF k
  <2> QED BY <1>1, <1>2, <1>3
<1>5. [c EXCEPT !.used = TRUE].used = TRUE
  BY <1>1
<1>6. [c EXCEPT !.used = TRUE].sheet = c.sheet /\ Key([c EXCEPT !.used = TRUE]) = k
  BY <1>1 DEF Key
<1>7. \A d \in codes : d # c => Key(d) # k
  BY DEF PaperInv
<1>8. \A d \in codes' : \/ d \in codes /\ d # c /\ Key(d) # k
                        \/ d = [c EXCEPT !.used = TRUE]
  BY <1>7
<1>9. k.sheet = c.sheet
  BY DEF Key
<1> HIDE DEF k
<1>10. (\A d \in codes : d.sheet <= sheets /\ Key(d) \in PaperCodes)'
  BY <1>2, <1>6, <1>8 DEF PaperInv
<1>11. (\A d, e \in codes : Key(d) = Key(e) => d = e)'
  BY <1>6, <1>8 DEF PaperInv
<1>12. (\A d \in codes : ~d.used => redeemed[Key(d)] = 0)'
  BY <1>4, <1>5, <1>8 DEF PaperInv
<1>13. (\A p \in PaperCodes : p.sheet > sheets => redeemed[p] = 0)'
  <2> SUFFICES ASSUME NEW p \in PaperCodes, p.sheet > sheets
               PROVE  redeemed'[p] = 0
    OBVIOUS
  <2>1. sheets \in Nat /\ c.sheet \in Nat /\ p.sheet \in Nat
    BY <1>1, PaperFields, TwoFactorAssumption DEF TypeOK
  <2>2. p # k
    BY <1>2, <1>9, <2>1
  <2> QED BY <1>4, <2>2 DEF PaperInv
<1>14. PaperCodeOnce'
  BY <1>4 DEF PaperInv, PaperCodeOnce
<1> QED BY <1>10, <1>11, <1>12, <1>13, <1>14 DEF PaperInv

\* A new sheet, never handed out before, replaces the old one.
LEMMA NewSheetFresh ==
  ASSUME TypeOK, PaperInv, sheets < MaxSheets,
         sheets' = sheets + 1, codes' = NewSheet, redeemed' = redeemed
  PROVE  PaperInv'
<1>1. sheets \in Nat /\ MaxSheets \in Nat
  BY TwoFactorAssumption DEF TypeOK
<1>2. \A c \in NewSheet : c.sheet = sheets + 1 /\ c.code \in Sheet /\ c.used = FALSE
  BY DEF NewSheet
<1>3. \A c \in NewSheet : Key(c) \in PaperCodes
  BY <1>1, <1>2 DEF Key, PaperCodes
<1>4. \A c, d \in NewSheet : Key(c) = Key(d) => c = d
  <2> SUFFICES ASSUME NEW c \in NewSheet, NEW d \in NewSheet, Key(c) = Key(d)
               PROVE  c = d
    OBVIOUS
  <2>1. c.sheet = d.sheet /\ c.code = d.code /\ c.used = d.used
    BY <1>2 DEF Key
  <2> QED BY <2>1 DEF NewSheet
<1>5. \A c \in NewSheet : redeemed[Key(c)] = 0
  <2> SUFFICES ASSUME NEW c \in NewSheet PROVE redeemed[Key(c)] = 0
    OBVIOUS
  <2>1. Key(c).sheet = sheets + 1
    BY <1>2 DEF Key
  <2> QED BY <1>1, <1>3, <2>1 DEF PaperInv
<1>6. \A p \in PaperCodes : p.sheet > sheets + 1 => redeemed[p] = 0
  BY <1>1, PaperFields DEF PaperInv
<1>7. PaperCodeOnce'
  BY DEF PaperInv, PaperCodeOnce
<1> QED BY <1>1, <1>2, <1>3, <1>4, <1>5, <1>6, <1>7 DEF PaperInv

\* What changes the recovery codes: redeeming one, a new sheet, turning TOTP off.
LEMMA PaperShape ==
  ASSUME [Next]_vars
  PROVE  \/ UNCHANGED <<codes, sheets, redeemed>>
         \/ UNCHANGED <<sheets, redeemed>> /\ codes' = {}
         \/ /\ sheets < MaxSheets /\ sheets' = sheets + 1
            /\ codes' = NewSheet /\ redeemed' = redeemed
         \/ \E c \in codes : /\ ~c.used /\ GotPaper(c) /\ sheets' = sheets
                             /\ codes' = (codes \ {c}) \cup {[c EXCEPT !.used = TRUE]}
<1> USE DEF History
<1>1. CASE UNCHANGED vars
  BY <1>1 DEF vars
<1>2. ASSUME NEW r \in Req, AcceptPaperCode(r)
      PROVE  \E c \in codes : /\ ~c.used /\ GotPaper(c) /\ sheets' = sheets
                              /\ codes' = (codes \ {c}) \cup {[c EXCEPT !.used = TRUE]}
  BY <1>2 DEF AcceptPaperCode
<1>3. ASSUME NEW r \in Req, TurnOn(r)
      PROVE  \/ UNCHANGED <<codes, sheets, redeemed>>
             \/ /\ sheets < MaxSheets /\ sheets' = sheets + 1
                /\ codes' = NewSheet /\ redeemed' = redeemed
  BY <1>3 DEF TurnOn, Got
<1>4. ASSUME NEW r \in Req, Drop(r)
      PROVE  UNCHANGED <<sheets, redeemed>> /\ codes' = {}
  BY <1>4 DEF Drop
<1>5. ASSUME NEW r \in Req,
             \/ FirstFactor(r) \/ SecondFactor(r) \/ IssueSession(r) \/ ReadTotp(r)
             \/ AcceptAppCode(r) \/ RefuseCode(r) \/ SetupCheck(r) \/ Enroll(r) \/ EnableRead(r)
             \/ MarkEnrolled(r) \/ EndOthers(r) \/ Fail(r)
      PROVE  UNCHANGED <<codes, sheets, redeemed>>
  BY <1>5 DEF FirstFactor, SecondFactor, IssueSession, ReadTotp, AcceptAppCode, RefuseCode,
              SetupCheck, Enroll, EnableRead, MarkEnrolled, EndOthers, Fail, Got
<1>6. CASE SignOutEverywhere \/ Tick
  BY <1>6 DEF SignOutEverywhere, Tick
<1> QED
  BY <1>1, <1>2, <1>3, <1>4, <1>5, <1>6 DEF Next, SignInStep, SettingsStep

LEMMA PaperStep == TypeOK /\ PaperInv /\ [Next]_vars => PaperInv'
<1> SUFFICES ASSUME TypeOK, PaperInv, [Next]_vars
             PROVE  PaperInv'
  OBVIOUS
<1>1. CASE UNCHANGED <<codes, sheets, redeemed>>
  BY <1>1 DEF PaperInv, PaperCodeOnce
<1>2. CASE UNCHANGED <<sheets, redeemed>> /\ codes' = {}
  BY <1>2 DEF PaperInv, PaperCodeOnce
<1> QED BY <1>1, <1>2, PaperShape, NewSheetFresh, RedeemOnce

\* A recovery code is redeemed once, whatever requests carry it and whatever
\* sheets replace each other.
THEOREM PaperCodeRedeemedOnce == Spec => []PaperCodeOnce
<1>1. Init => PaperInv
  BY DEF Init, PaperInv, PaperCodeOnce
<1>2. PaperInv => PaperCodeOnce
  BY DEF PaperInv
<1> QED BY <1>1, <1>2, TypeCorrect, PaperStep, PTL DEF Spec
-----------------------------------------------------------------------------
(* The enrolment                                                               *)

\* No row is the empty one, and a row's secret was generated.
TotpInv == /\ totp.secret = 0 => totp = NoTotp
           /\ totp.secret <= secrets

\* What changes the row, or the last secret generated.
LEMMA TotpShape ==
  ASSUME TypeOK, [Next]_vars
  PROVE  \/ UNCHANGED <<totp, secrets>>
         \/ /\ totp.secret # 0 /\ secrets' = secrets
            /\ totp' \in TotpType /\ totp'.secret = totp.secret /\ totp'.last >= totp.last
            /\ totp.on => totp'.on
         \/ ~totp.on /\ secrets' = secrets + 1 /\ totp' = Pending(secrets + 1)
         \/ secrets' = secrets /\ totp' = NoTotp
<1> USE DEF History
<1>1. CASE UNCHANGED vars
  BY <1>1 DEF vars
<1>2. ASSUME NEW step \in Int, secrets' = secrets,
             totp' = IF totp.secret = 0 THEN totp ELSE Mark(step)
      PROVE  \/ UNCHANGED <<totp, secrets>>
             \/ /\ totp.secret # 0 /\ secrets' = secrets
                /\ totp' \in TotpType /\ totp'.secret = totp.secret /\ totp'.last >= totp.last
                /\ totp.on => totp'.on
  BY <1>2, MarkKeeps
<1>3. ASSUME NEW r \in Req, AcceptAppCode(r) \/ MarkEnrolled(r)
      PROVE  \E step \in Int : /\ secrets' = secrets
                               /\ totp' = IF totp.secret = 0 THEN totp ELSE Mark(step)
  <2>1. CASE AcceptAppCode(r)
    <3>1. PICK step \in Window : totp' = IF totp.secret = 0 THEN totp ELSE Mark(step)
      BY <2>1 DEF AcceptAppCode
    <3>2. step \in Int
      BY DEF Window
    <3> QED BY <2>1, <3>1, <3>2 DEF AcceptAppCode
  <2>2. CASE MarkEnrolled(r)
    BY <2>2, ReqFields DEF MarkEnrolled
  <2> QED BY <1>3, <2>1, <2>2
<1>4. ASSUME NEW r \in Req, TurnOn(r)
      PROVE  \/ UNCHANGED <<totp, secrets>>
             \/ /\ totp.secret # 0 /\ secrets' = secrets
                /\ totp' \in TotpType /\ totp'.secret = totp.secret /\ totp'.last >= totp.last
                /\ totp.on => totp'.on
  <2>1. \/ UNCHANGED <<totp, secrets>>
        \/ totp.secret # 0 /\ secrets' = secrets /\ totp' = [totp EXCEPT !.on = TRUE]
    BY <1>4 DEF TurnOn
  <2>2. totp \in TotpType
    BY DEF TypeOK
  <2>3. [totp EXCEPT !.on = TRUE] \in TotpType
    BY <2>2 DEF TotpType
  <2>4. /\ [totp EXCEPT !.on = TRUE].secret = totp.secret
        /\ [totp EXCEPT !.on = TRUE].last = totp.last
    BY <2>2 DEF TotpType
  <2>5. [totp EXCEPT !.on = TRUE].on
    BY <2>2, Zenon DEF TotpType
  <2>6. totp.last >= totp.last
    BY <2>2 DEF TotpType
  <2> QED BY <2>1, <2>3, <2>4, <2>5, <2>6
<1>5. ASSUME NEW r \in Req, Enroll(r)
      PROVE  \/ UNCHANGED <<totp, secrets>>
             \/ ~totp.on /\ secrets' = secrets + 1 /\ totp' = Pending(secrets + 1)
  BY <1>5 DEF Enroll
<1>6. ASSUME NEW r \in Req, Drop(r)
      PROVE  secrets' = secrets /\ totp' = NoTotp
  BY <1>6 DEF Drop
<1>7. ASSUME NEW r \in Req,
             \/ FirstFactor(r) \/ SecondFactor(r) \/ IssueSession(r) \/ ReadTotp(r)
             \/ AcceptPaperCode(r) \/ RefuseCode(r) \/ SetupCheck(r) \/ EnableRead(r)
             \/ EndOthers(r) \/ Fail(r)
      PROVE  UNCHANGED <<totp, secrets>>
  BY <1>7 DEF FirstFactor, SecondFactor, IssueSession, ReadTotp, AcceptPaperCode, RefuseCode,
              SetupCheck, EnableRead, EndOthers, Fail
<1>8. CASE SignOutEverywhere \/ Tick
  BY <1>8 DEF SignOutEverywhere, Tick
<1> QED
  BY <1>1, <1>2, <1>3, <1>4, <1>5, <1>6, <1>7, <1>8 DEF Next, SignInStep, SettingsStep

LEMMA TotpStep == TypeOK /\ TotpInv /\ [Next]_vars => TotpInv'
<1> SUFFICES ASSUME TypeOK, TotpInv, [Next]_vars
             PROVE  TotpInv'
  OBVIOUS
<1>1. secrets \in Nat /\ totp \in TotpType
  BY DEF TypeOK
<1>2. Pending(secrets + 1).secret = secrets + 1
  BY DEF Pending
<1>3. NoTotp.secret = 0
  BY DEF NoTotp
<1> QED BY <1>1, <1>2, <1>3, TotpShape DEF TotpInv

\* An enrolment that is on is ended by turning it off and by nothing else.
THEOREM ConfirmedEnrolmentStands == Spec => EnrolmentStands
<1>1. TypeOK /\ [Next]_vars
      => [totp.on => \/ totp'.on /\ totp'.secret = totp.secret
                     \/ totp' = NoTotp]_vars
  BY TotpShape
<1> QED BY <1>1, TypeCorrect, PTL DEF Spec, EnrolmentStands

\* The last used step of a secret never goes back.
THEOREM StepsOnlyAdvance == Spec => StepNeverRewinds
<1>1. Init => TotpInv
  BY DEF Init, TotpInv, NoTotp
<1>2. TypeOK /\ TotpInv /\ [Next]_vars
      => [totp'.secret = totp.secret => totp'.last >= totp.last]_vars
  <2> SUFFICES ASSUME TypeOK, TotpInv, [Next]_vars, totp'.secret = totp.secret
               PROVE  totp'.last >= totp.last
    OBVIOUS
  <2>1. secrets \in Nat /\ totp.secret \in Nat /\ totp.last \in Int
    BY DEF TypeOK, TotpType
  <2>2. CASE totp' = Pending(secrets + 1)
    BY <2>1, <2>2 DEF Pending, TotpInv
  <2>3. CASE totp' = NoTotp
    BY <2>1, <2>3 DEF NoTotp, TotpInv
  <2> QED BY <2>1, <2>2, <2>3, TotpShape
<1> QED BY <1>1, <1>2, TypeCorrect, TotpStep, PTL DEF Spec, StepNeverRewinds
-----------------------------------------------------------------------------
(* One factor                                                                  *)

\* A request that runs alone takes a session on one factor only while TOTP is off,
\* and one that has shown a code takes it on two.
Holds(r) ==
  /\ At(r, "issue") /\ totp.on => reqs[r].factors = "two"
  /\ At(r, "prove") /\ reqs[r].for = "issue" => reqs[r].factors = "two"
AloneInv ==
  /\ TypeOK
  /\ alone => OneAtWork /\ NobodyInOnOneFactor /\ \A r \in Req : Holds(r)

LEMMA PutReads ==
  ASSUME TypeOK, NEW r \in Req, NEW rec, Put(r, rec)
  PROVE  reqs'[r] = rec /\ \A q \in Req : q # r => reqs'[q] = reqs[q]
  BY DEF TypeOK, Put

LEMMA GoReads ==
  ASSUME TypeOK, NEW r \in Req, NEW pc, Go(r, pc)
  PROVE  /\ reqs'[r].pc = pc /\ reqs'[r].factors = reqs[r].factors /\ reqs'[r].for = reqs[r].for
         /\ \A q \in Req : q # r => reqs'[q] = reqs[q]
<1>1. reqs'[r] = [reqs[r] EXCEPT !.pc = pc] /\ \A q \in Req : q # r => reqs'[q] = reqs[q]
  BY PutReads DEF Go
<1> QED BY <1>1, ReqFields DEF ReqType

LEMMA EndReads ==
  ASSUME TypeOK, NEW r \in Req, End(r)
  PROVE  reqs'[r].pc = "idle" /\ \A q \in Req : q # r => reqs'[q] = reqs[q]
  BY PutReads DEF End, Idle

\* What a request that begins holds.
LEMMA BeginReads ==
  ASSUME TypeOK, NEW r \in Req
  PROVE  /\ FirstFactor(r) => reqs'[r].pc = "second"
         /\ ReadTotp(r) => /\ reqs'[r].pc = "prove"
                           /\ reqs'[r].for = "issue" => reqs'[r].factors = "two"
         /\ SetupCheck(r) => reqs'[r].pc = "enroll"
         /\ EnableRead(r) => reqs'[r].pc = "turnOn"
<1> USE DEF Idle
<1>1. ASSUME FirstFactor(r) PROVE reqs'[r].pc = "second"
  <2> DEFINE rec == [Idle EXCEPT !.pc = "second", !.v = version, !.factors = "one"]
  <2>1. Put(r, rec) /\ rec.pc = "second"
    BY <1>1 DEF FirstFactor
  <2> HIDE DEF rec
  <2> QED BY <2>1, PutReads
<1>2. ASSUME ReadTotp(r)
      PROVE  reqs'[r].pc = "prove" /\ (reqs'[r].for = "issue" => reqs'[r].factors = "two")
  <2>1. ASSUME NEW v,
               Put(r, [Idle EXCEPT !.pc = "prove", !.v = v, !.factors = "two", !.for = "issue",
                                   !.read = totp])
        PROVE  reqs'[r].pc = "prove" /\ reqs'[r].factors = "two"
    <3> DEFINE rec == [Idle EXCEPT !.pc = "prove", !.v = v, !.factors = "two",
                                   !.for = "issue", !.read = totp]
    <3>1. rec.pc = "prove" /\ rec.factors = "two"
      OBVIOUS
    <3> HIDE DEF rec
    <3>2. Put(r, rec)
      BY <2>1 DEF rec
    <3> QED BY <3>1, <3>2, PutReads
  <2>2. ASSUME Put(r, [Idle EXCEPT !.pc = "prove", !.for = "drop", !.read = totp])
        PROVE  reqs'[r].pc = "prove" /\ reqs'[r].for = "drop"
    <3> DEFINE rec == [Idle EXCEPT !.pc = "prove", !.for = "drop", !.read = totp]
    <3>1. rec.pc = "prove" /\ rec.for = "drop"
      OBVIOUS
    <3> HIDE DEF rec
    <3>2. Put(r, rec)
      BY <2>2 DEF rec
    <3> QED BY <3>1, <3>2, PutReads
  <2> HIDE DEF Idle
  <2> QED BY <1>2, <2>1, <2>2 DEF ReadTotp
<1>3. ASSUME SetupCheck(r) PROVE reqs'[r].pc = "enroll"
  <2> DEFINE rec == [Idle EXCEPT !.pc = "enroll", !.v = version]
  <2>1. Put(r, rec) /\ rec.pc = "enroll"
    BY <1>3 DEF SetupCheck
  <2> HIDE DEF rec
  <2> QED BY <2>1, PutReads
<1>4. ASSUME EnableRead(r) PROVE reqs'[r].pc = "turnOn"
  <2>1. PICK s \in Live, step \in Window :
          Put(r, [Idle EXCEPT !.pc = "turnOn", !.v = version, !.read = totp,
                              !.step = step, !.own = {s.id}])
    BY <1>4 DEF EnableRead
  <2> DEFINE rec == [Idle EXCEPT !.pc = "turnOn", !.v = version, !.read = totp,
                                 !.step = step, !.own = {s.id}]
  <2>2. Put(r, rec) /\ rec.pc = "turnOn"
    BY <2>1
  <2> HIDE DEF rec
  <2> QED BY <2>2, PutReads
<1> QED BY <1>1, <1>2, <1>3, <1>4

\* A request moves itself alone, and is at work before or after the step.
LEMMA RequestMoves ==
  ASSUME TypeOK, NEW r \in Req, SignInStep(r) \/ SettingsStep(r)
  PROVE  /\ \A q \in Req : q # r => reqs'[q] = reqs[q]
         /\ ~At(r, "idle") \/ ~At(r, "idle")'
<1>1. \E rec : Put(r, rec)
  BY DEF SignInStep, SettingsStep, FirstFactor, SecondFactor, IssueSession, ReadTotp,
     AcceptAppCode, AcceptPaperCode, RefuseCode, SetupCheck, Enroll, EnableRead, TurnOn,
     MarkEnrolled, EndOthers, Drop, Go, End
<1>2. ~At(r, "idle") \/ FirstFactor(r) \/ ReadTotp(r) \/ SetupCheck(r) \/ EnableRead(r)
  BY DEF At, SignInStep, SettingsStep, FirstFactor, SecondFactor, IssueSession, ReadTotp,
     AcceptAppCode, AcceptPaperCode, RefuseCode, SetupCheck, Enroll, EnableRead, TurnOn,
     MarkEnrolled, EndOthers, Drop
<1>3. ~At(r, "idle") \/ ~At(r, "idle")'
  BY <1>2, BeginReads DEF At
<1> QED BY <1>1, <1>3, PutReads

LEMMA AloneStep == AloneInv /\ [Next]_vars => AloneInv'
<1> SUFFICES ASSUME AloneInv, [Next]_vars
             PROVE  AloneInv'
  OBVIOUS
<1>0. TypeOK /\ TypeOK' /\ alone' = alone
  BY TypeStep DEF AloneInv, Next, vars
<1> USE DEF History
<1>1. CASE UNCHANGED vars
  BY <1>0, <1>1 DEF AloneInv, vars, OneAtWork, NobodyInOnOneFactor, Holds, At, Enabling, Live
<1>2. CASE Next /\ alone /\ (SignOutEverywhere \/ Tick)
  <2>0. OneAtWork' /\ NobodyInOnOneFactor /\ \A r \in Req : Holds(r)
    BY <1>2 DEF AloneInv, Next
  <2>1. UNCHANGED <<totp, reqs>> /\ (sessions' = {} \/ UNCHANGED <<version, sessions>>)
    BY <1>2 DEF SignOutEverywhere, Tick
  <2>2. \A r \in Req : Holds(r)'
    BY <2>0, <2>1 DEF Holds, At
  <2> QED BY <1>0, <2>0, <2>1, <2>2 DEF AloneInv, NobodyInOnOneFactor, Enabling, Live
<1>3. ASSUME Next, alone, NEW r \in Req, SignInStep(r) \/ SettingsStep(r)
      PROVE  AloneInv'
  <2>0. OneAtWork /\ OneAtWork' /\ NobodyInOnOneFactor /\ Holds(r)
    BY <1>3 DEF AloneInv, Next
  <2>1. \A q \in Req : q # r => reqs[q].pc = "idle" /\ reqs'[q].pc = "idle"
    BY <1>0, <1>3, <2>0, RequestMoves DEF OneAtWork, At
  <2>2. /\ Enabling <=> reqs[r].pc \in {"mark", "others"}
        /\ Enabling' <=> reqs'[r].pc \in {"mark", "others"}
    BY <2>1 DEF Enabling
  <2> SUFFICES Holds(r)' /\ NobodyInOnOneFactor'
    <3>1. \A q \in Req : q # r => Holds(q)'
      BY <2>1 DEF Holds, At
    <3> QED BY <1>0, <2>0, <3>1 DEF AloneInv
  <2>3. ASSUME UNCHANGED <<version, sessions>>, totp'.on => totp.on, ~Enabling
        PROVE  NobodyInOnOneFactor'
    BY <2>0, <2>3 DEF NobodyInOnOneFactor, Live
  <2>4. CASE FirstFactor(r)
    <3>1. reqs'[r].pc = "second" /\ UNCHANGED <<version, sessions, totp>> /\ At(r, "idle")
      BY <1>0, <2>4, BeginReads DEF FirstFactor
    <3> QED BY <2>2, <2>3, <3>1 DEF Holds, At
  <2>5. CASE SecondFactor(r)
    <3>1. UNCHANGED <<version, sessions, totp>> /\ At(r, "second")
      BY <2>5 DEF SecondFactor
    <3>2. reqs'[r].pc = "idle" \/ (reqs'[r].pc = "issue" /\ ~totp.on)
      BY <1>0, <2>5, GoReads, EndReads DEF SecondFactor
    <3> QED BY <2>2, <2>3, <3>1, <3>2 DEF Holds, At
  <2>6. CASE IssueSession(r)
    <3>1. /\ UNCHANGED <<version, totp>> /\ At(r, "issue") /\ reqs'[r].pc = "idle"
          /\ sessions' \subseteq sessions \cup [id : Sid, v : {version}, factors : {reqs[r].factors}]
      BY <1>0, <2>6, EndReads DEF IssueSession
    <3>2. ~Enabling /\ Holds(r)'
      BY <2>2, <3>1 DEF Holds, At
    <3> QED BY <2>0, <3>1, <3>2 DEF Holds, NobodyInOnOneFactor, Live
  <2>7. CASE ReadTotp(r)
    <3>1. UNCHANGED <<version, sessions, totp>> /\ At(r, "idle")
      BY <2>7 DEF ReadTotp
    <3>2. reqs'[r].pc = "prove" /\ (reqs'[r].for = "issue" => reqs'[r].factors = "two")
      BY <1>0, <2>7, BeginReads
    <3> QED BY <2>2, <2>3, <3>1, <3>2 DEF Holds, At
  <2>8. CASE AcceptAppCode(r) \/ AcceptPaperCode(r)
    <3>1. UNCHANGED <<version, sessions>> /\ At(r, "prove") /\ Go(r, reqs[r].for)
      BY <2>8 DEF AcceptAppCode, AcceptPaperCode
    <3>2. totp'.on = totp.on
      <4>1. AcceptPaperCode(r) => totp' = totp
        BY DEF AcceptPaperCode
      <4>2. AcceptAppCode(r) => \E step \in Int : totp' \in {totp, Mark(step)}
        BY DEF AcceptAppCode, Window
      <4> QED BY <1>0, <2>8, <4>1, <4>2, MarkKeeps
    <3>3. reqs'[r].pc = reqs[r].for /\ reqs'[r].factors = reqs[r].factors
      BY <1>0, <3>1, GoReads
    <3>4. reqs[r].for \in {"issue", "drop"}
      BY <1>0, ReqFields
    <3> QED BY <2>0, <2>2, <2>3, <3>1, <3>2, <3>3, <3>4 DEF Holds, At
  <2>9. CASE RefuseCode(r)
    <3>1. UNCHANGED <<version, sessions, totp>> /\ At(r, "prove") /\ reqs'[r].pc = "idle"
      BY <1>0, <2>9, EndReads DEF RefuseCode
    <3> QED BY <2>2, <2>3, <3>1 DEF Holds, At
  <2>10. CASE SetupCheck(r) \/ EnableRead(r)
    <3>1. UNCHANGED <<version, sessions, totp>> /\ At(r, "idle")
      BY <2>10 DEF SetupCheck, EnableRead
    <3>2. reqs'[r].pc \in {"enroll", "turnOn"}
      BY <1>0, <2>10, BeginReads
    <3> QED BY <2>2, <2>3, <3>1, <3>2 DEF Holds, At
  <2>11. CASE Enroll(r)
    <3>1. UNCHANGED <<version, sessions>> /\ At(r, "enroll") /\ reqs'[r].pc = "idle"
      BY <1>0, <2>11, EndReads DEF Enroll
    <3>2. totp'.on => totp.on
      BY <2>11 DEF Enroll, Pending
    <3> QED BY <2>2, <2>3, <3>1, <3>2 DEF Holds, At
  <2>12. CASE TurnOn(r)
    <3>1. UNCHANGED <<version, sessions>> /\ At(r, "turnOn")
      BY <2>12 DEF TurnOn
    <3>2. \/ reqs'[r].pc = "idle" /\ totp' = totp
          \/ reqs'[r].pc = "mark"
      BY <1>0, <2>12, GoReads, EndReads DEF TurnOn
    <3>3. CASE reqs'[r].pc = "mark"
      BY <2>2, <3>3 DEF Holds, At, NobodyInOnOneFactor
    <3>4. CASE reqs'[r].pc = "idle" /\ totp' = totp
      BY <2>2, <2>3, <3>1, <3>4 DEF Holds, At
    <3> QED BY <3>2, <3>3, <3>4
  <2>13. CASE MarkEnrolled(r)
    <3>1. reqs'[r].pc = "others"
      BY <1>0, <2>13, GoReads DEF MarkEnrolled
    <3> QED BY <2>2, <3>1 DEF Holds, At, NobodyInOnOneFactor
  <2>14. CASE EndOthers(r)
    <3>1. reqs'[r].pc = "idle" /\ \A s \in sessions' : s.factors = "two"
      <4>1. sessions \subseteq [id : Sid, v : Nat, factors : {"none", "one", "two"}]
        BY <1>0 DEF TypeOK
      <4>2. \A s \in sessions : [s EXCEPT !.factors = "two"].factors = "two"
        BY <4>1
      <4> QED BY <1>0, <2>14, <4>2, EndReads DEF EndOthers
    <3> QED BY <3>1 DEF Holds, At, NobodyInOnOneFactor, Live
  <2>15. CASE Drop(r)
    <3>1. UNCHANGED <<version, sessions>> /\ At(r, "drop") /\ reqs'[r].pc = "idle"
          /\ totp' = NoTotp
      BY <1>0, <2>15, EndReads DEF Drop
    <3> QED BY <2>2, <2>3, <3>1 DEF Holds, At, NoTotp
  <2> QED BY <1>3, <2>4, <2>5, <2>6, <2>7, <2>8, <2>9, <2>10, <2>11, <2>12, <2>13, <2>14, <2>15
          DEF SignInStep, SettingsStep
<1>4. CASE ~alone
  BY <1>0, <1>4 DEF AloneInv
<1> QED BY <1>1, <1>2, <1>3, <1>4 DEF Next

\* With one request at a time, each to its end: while TOTP is on, and not just being
\* turned on, every live session has shown the second factor.
THEOREM NobodyInOnOne == Spec => []NobodyInOnOneFactorAlone
<1>1. Init => AloneInv
  <2>1. Init => TypeOK
    BY IdleType, TwoFactorAssumption DEF Init, TypeOK
  <2>2. Init => ~totp.on /\ \A r \in Req : reqs[r].pc = "idle"
    BY DEF Init, Idle, NoTotp
  <2> QED BY <2>1, <2>2 DEF AloneInv, OneAtWork, NobodyInOnOneFactor, Holds, At
<1>2. AloneInv => NobodyInOnOneFactorAlone
  BY DEF AloneInv, NobodyInOnOneFactorAlone
<1> QED BY <1>1, <1>2, AloneStep, PTL DEF Spec
=============================================================================
