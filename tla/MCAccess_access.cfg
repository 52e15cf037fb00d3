SPECIFICATION AccessSpec
CONSTANTS
  Req = {r1, r2}
  Sid = {s1, s2}
  Pw = {p1, p2}
  FirstPw = p1
  Addr = {home, moved}
  Home = home
  Ways = {"passkey", "totp"}
  Routes = {"login", "passkey", "challenge", "google", "open", "signup", "resend", "code", "forgot", "reset", "change", "cancel", "add", "end", "logoutAll"}
  MaxVersion = 3
  MaxMail = 3
  MaxActiveCodes = 1
SYMMETRY Symmetry
INVARIANTS RevocationHolds UnconfirmedAccessEnds WelcomeOnce SpentOnce
PROPERTIES AddedWhileTrusted Implements
CHECK_DEADLOCK FALSE
