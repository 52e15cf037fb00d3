------------------------------ MODULE MCAccess ------------------------------
(* Access for TLC.  What people begin is one tour of the routes per behaviour, *)
(* so that each tour meets two requests at a time in a graph that can be       *)
(* searched; a request that has begun takes any step of Access.                *)
EXTENDS Access, TLC

VARIABLE tour

Continue(r) ==
  /\ ~At(r, "idle")
  /\ \/ SignInStep(r) \/ ConfirmStep(r) \/ CodeStep(r)
     \/ ResetStep(r) \/ MailStep(r) \/ SessionStep(r)

\* Signing in and out, and adding credentials meanwhile.
SigningIn ==
  \/ \E r \in Req : \/ LoginRead(r) \/ PasskeyRead(r) \/ AnswerChallenge(r)
                    \/ AddCheck(r) \/ LogoutAllCheck(r)
  \/ \E s \in sessions : EndSession(s)
  \/ \E a \in access : RemoveAccess(a)
\* Signing in and out while the password is being reset.
Passwords ==
  \/ \E r \in Req : \/ LoginRead(r) \/ PasskeyRead(r) \/ GoogleRead(r) \/ ForgotLookUp(r)
                    \/ ResetRead(r) \/ LogoutAllCheck(r)
  \/ \E s \in sessions : EndSession(s)
\* Confirming an address, by its link and by other proofs of the mailbox.
Confirming ==
  \E r \in Req : \/ LoginRead(r) \/ OpenLink(r) \/ OpenFromSignUp(r) \/ ResendLookUp(r)
                 \/ GoogleRead(r) \/ CodeLookUp(r) \/ CodeRead(r) \/ AnswerChallenge(r)
\* Resetting the password of an address that waits.
Resetting ==
  \E r \in Req : \/ LoginRead(r) \/ PasskeyRead(r) \/ ForgotLookUp(r) \/ ResetRead(r)
                 \/ CodeLookUp(r) \/ CodeRead(r) \/ GoogleRead(r)
\* Moving the account to another address.
Moving ==
  \/ \E r \in Req : \/ LoginRead(r) \/ OpenLink(r) \/ ForgotLookUp(r) \/ ResetRead(r)
                    \/ CodeLookUp(r) \/ CodeRead(r)
                    \/ \E a \in Addr : ChangeCheck(r, a)
  \/ CancelChange

Begun ==
  \/ tour = "devices" /\ SigningIn
  \/ tour = "passwords" /\ Passwords
  \/ tour = "confirming" /\ Confirming
  \/ tour = "resetting" /\ Resetting
  \/ tour = "moving" /\ Moving

Rows == {s.id : s \in sessions}
AccessWays == {a.way : a \in access}

\* Bounds of each tour, next to those of the cfg.
Within ==
  CASE tour = "devices"    -> Cardinality(Rows) <= 1
    [] tour = "passwords"  -> "totp" \notin AccessWays /\ minted <= 2
    [] tour = "confirming" -> "passkey" \notin AccessWays /\ Cardinality(Rows) <= 1 /\ minted <= 2
    [] tour = "resetting"  -> "totp" \notin AccessWays /\ Cardinality(Rows) <= 1
    [] tour = "moving"     -> Cardinality(Rows) <= 1 /\ version <= 2

Start(tours) == Init /\ tour \in tours /\ Within
Step == ((\E r \in Req : Continue(r)) \/ Begun) /\ UNCHANGED tour /\ Within'

Tours == {"devices", "passwords", "confirming", "resetting", "moving"}
AccessSpec == Start(Tours) /\ [][Step]_<<vars, tour>>
ResetSpec == Start({"resetting"}) /\ [][Step]_<<vars, tour>>

\* Requests and session ids are interchangeable.
Symmetry == Permutations(Req) \cup Permutations(Sid)
=============================================================================
