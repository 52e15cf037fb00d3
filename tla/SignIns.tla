------------------------------- MODULE SignIns -------------------------------
(* What signing in promises, with no requests, tables or version counters: an  *)
(* account has a password and a set of devices that are signed in.  A device   *)
(* gets in on a proof that holds at that moment, and nothing changes the       *)
(* password, or signs everyone out, while leaving a device in.  Access         *)
(* implements it.                                                              *)
CONSTANTS Sid,      \* devices' session ids
          Pw,       \* passwords
          NoPw,     \* the account has no password
          Proofs    \* what a sign-in can rest on; a password among them

VARIABLES password, live
vars == <<password, live>>

Init == /\ password \in Pw \cup {NoPw}
        /\ live \subseteq [id : Sid, proof : Proofs]

SignIn(id, proof) ==
  /\ \A s \in live : s.id # id
  /\ proof \in Pw => proof = password
  /\ live' = live \cup {[id |-> id, proof |-> proof]}
  /\ UNCHANGED password

SignOut(s) ==
  /\ live' = live \ {s}
  /\ UNCHANGED password

\* A new password, or none, and every sign-out that reaches all devices.
RevokeAll ==
  /\ live' = {}
  /\ password' \in Pw \cup {NoPw}

Next == \/ \E id \in Sid, proof \in Proofs : SignIn(id, proof)
        \/ \E s \in live : SignOut(s)
        \/ RevokeAll

Spec == Init /\ [][Next]_vars
=============================================================================
