---------------------------- MODULE PagesProofs ----------------------------
(* What holds of the pages of the app, for any number of them.  Guidance: its     *)
(* types, that an answered write stays, that a decision is never forgotten before *)
(* the account has it, and that a finish is for good.  Updates: its types, and    *)
(* that nobody's page is taken away and no worker told to take over but by a page *)
(* that leaves or that runs its build.                                            *)
EXTENDS Guidance, Updates, TLAPS
-----------------------------------------------------------------------------
(* Guidance                                                                    *)

\* The merge keeps what is decided, hidden and seen.
LEMMA MergeKeeps ==
  ASSUME NEW key \in Keys, NEW body \in Value, NEW reset \in BOOLEAN, NEW cur \in Value
  PROVE  LET new == Merge(key, body, reset, cur)
         IN  /\ new \in Value
             /\ key = "onboarding" => /\ Finished(cur) => new = cur
                                      /\ cur.step <= new.step
             /\ key = "getting_started" => (cur.hidden => new.hidden)
             /\ key = "tours" /\ ~reset => cur.seen \subseteq new.seen
<1> DEFINE new == Merge(key, body, reset, cur)
<1>0. /\ cur.step \in 0..MaxStep /\ body.step \in 0..MaxStep
      /\ Further(cur.step, body.step) \in 0..MaxStep
      /\ cur.step <= Further(cur.step, body.step)
  BY GuidanceAssumption DEF Value, Further
<1>1. CASE key = "onboarding"
  <2>1. CASE Finished(cur)
    BY <1>1, <2>1, <1>0 DEF Merge
  <2>2. CASE ~Finished(cur)
    <3>1. new = [cur EXCEPT !.there = TRUE, !.step = Further(cur.step, body.step),
                            !.outcome = body.outcome]
      BY <1>1, <2>2 DEF Merge
    <3> QED BY <1>1, <2>2, <3>1, <1>0 DEF Value
  <2> QED BY <2>1, <2>2
<1>2. CASE key = "tours"
  <2>1. new = [cur EXCEPT !.there = TRUE, !.seen = (IF reset THEN {} ELSE cur.seen) \cup body.seen]
    BY <1>2 DEF Merge
  <2> QED BY <1>2, <2>1 DEF Value
<1>3. CASE key = "getting_started"
  <2>1. new = [cur EXCEPT !.there = TRUE, !.hidden = cur.hidden \/ body.hidden]
    BY <1>3 DEF Merge
  <2> QED BY <1>3, <2>1 DEF Value
<1> QED BY <1>1, <1>2, <1>3 DEF Keys

LEMMA BlankTypes ==
  /\ Nothing \in Value /\ None \in Copy /\ Free \in ReqType /\ NewPage \in PageType
  /\ Free.pc = "free" /\ Nothing.outcome = Undecided
<1>1. Nothing \in Value /\ Nothing.outcome = Undecided
  BY GuidanceAssumption DEF Nothing, Value
<1>2. None \in Copy
  BY <1>1 DEF None, Copy
<1> HIDE DEF Nothing, None, Value
<1>3. Free \in ReqType /\ Free.pc = "free"
  BY <1>1 DEF Free, ReqType, Keys
<1>4. NewPage \in PageType
  BY <1>2, GuidanceAssumption DEF NewPage, PageType
<1> QED BY <1>1, <1>2, <1>3, <1>4

\* A write as it is sent.
LEMMA AskedType ==
  ASSUME NEW b \in Browsers, NEW key \in Keys, NEW body \in Value, NEW reset \in BOOLEAN
  PROVE  /\ Asked(b, key, body, reset) \in ReqType
         /\ Asked(b, key, body, reset).pc = "read"
  BY BlankTypes DEF Asked, ReqType

LEMMA BodyTypes ==
  ASSUME NEW step \in 0..MaxStep, NEW outcome \in Decisions \cup {Undecided}, NEW tour \in Tours
  PROVE  /\ [Nothing EXCEPT !.outcome = outcome] \in Value
         /\ [Nothing EXCEPT !.step = step] \in Value
         /\ [Nothing EXCEPT !.step = step, !.outcome = outcome] \in Value
         /\ [Nothing EXCEPT !.hidden = TRUE] \in Value
         /\ [Nothing EXCEPT !.seen = {tour}] \in Value
  BY BlankTypes DEF Value

LEMMA AnsweredType ==
  ASSUME kept \in Copy, NEW q \in Req, req[q].key \in Keys, NEW value \in Value,
         Answered(q, value)
  PROVE  kept' \in Copy
<1> DEFINE old == kept[req[q].key]
           new == [there |-> TRUE,
                   step |-> IF Finished(old) THEN old.step ELSE Further(old.step, value.step),
                   outcome |-> IF Finished(old) THEN old.outcome ELSE value.outcome,
                   hidden |-> old.hidden \/ value.hidden,
                   seen |-> IF req[q].reset THEN value.seen ELSE old.seen \cup value.seen]
<1>1. old \in Value
  BY DEF Copy
<1>2. new \in Value
  BY <1>1, GuidanceAssumption DEF Value, Further
<1>3. kept' = [kept EXCEPT ![req[q].key] = new]
  BY DEF Answered
<1> HIDE DEF new
<1> QED BY <1>2, <1>3 DEF Copy

\* What a page hears changes its copy and what it has sent, nothing else.
LEMMA PageTypes ==
  ASSUME page \in [Browsers -> PageType], req \in [Req -> ReqType], NEW q \in Req
  PROVE  /\ Kept(q) => page' \in [Browsers -> PageType]
         /\ Unsent(q) => page' \in [Browsers -> PageType]
<1>1. ASSUME NEW b \in Browsers
      PROVE  /\ [page[b] EXCEPT !.copy[req[q].key] = req[q].now] \in PageType
             /\ [page[b] EXCEPT !.sent = 0] \in PageType
  <2>1. page[b] \in PageType /\ req[q] \in ReqType
    OBVIOUS
  <2>2. [page[b].copy EXCEPT ![req[q].key] = req[q].now] \in Copy
    BY <2>1 DEF PageType, ReqType, Copy
  <2>3. [page[b] EXCEPT !.copy[req[q].key] = req[q].now]
          = [page[b] EXCEPT !.copy = [page[b].copy EXCEPT ![req[q].key] = req[q].now]]
    BY <2>1 DEF PageType
  <2>4. ASSUME NEW copy \in Copy
        PROVE  [page[b] EXCEPT !.copy = copy] \in PageType
    BY <2>1 DEF PageType
  <2>5. [page[b] EXCEPT !.sent = 0] \in PageType
    BY <2>1, GuidanceAssumption DEF PageType
  <2> QED BY <2>2, <2>3, <2>4, <2>5
<1>2. Kept(q) => page' \in [Browsers -> PageType]
  BY <1>1 DEF Kept
<1>3. Unsent(q) => page' \in [Browsers -> PageType]
  BY <1>1 DEF Unsent
<1> QED BY <1>2, <1>3

LEMMA ForgottenTypes ==
  ASSUME flag \in [Browsers -> Decisions \cup {Undecided}]
  PROVE  /\ \A q \in Req : Forgotten(q) => flag' \in [Browsers -> Decisions \cup {Undecided}]
         /\ \A b \in Browsers : Forget(b) => flag' \in [Browsers -> Decisions \cup {Undecided}]
  BY DEF Forgotten, Forget

\* Every step keeps the types.
LEMMA TypeStep == TypeOK /\ [Next]_guideVars => TypeOK'
<1> SUFFICES ASSUME TypeOK, [Next]_guideVars
             PROVE  TypeOK'
  OBVIOUS
<1>0. /\ row \in Copy /\ kept \in Copy
      /\ req \in [Req -> ReqType] /\ page \in [Browsers -> PageType]
      /\ flag \in [Browsers -> Decisions \cup {Undecided}]
      /\ made \in [Browsers -> BOOLEAN] /\ faults \in Nat
  BY DEF TypeOK
<1>a. ASSUME NEW b \in Browsers, Reload(b), faults' \in Nat
      PROVE  TypeOK'
  <2>1. page' \in [Browsers -> PageType]
    BY <1>0, <1>a, BlankTypes DEF Reload
  <2>2. req' \in [Req -> ReqType]
    <3> SUFFICES ASSUME NEW q \in Req
                 PROVE  [req[q] EXCEPT !.to = @ \ {b}] \in ReqType
      BY <1>a DEF Reload
    <3>1. req[q] \in ReqType
      BY <1>0
    <3> QED BY <3>1 DEF ReqType
  <2> QED BY <1>0, <1>a, <2>1, <2>2 DEF Reload, TypeOK
<1>b. ASSUME NEW q \in Req, NEW b \in Browsers, NEW key \in Keys, NEW body \in Value,
             Send(q, b, key, body)
      PROVE  req' \in [Req -> ReqType]
  BY <1>0, <1>b, AskedType DEF Send
<1>c. ASSUME NEW q \in Req, Ends(q)
      PROVE  req' \in [Req -> ReqType]
  BY <1>0, <1>c, BlankTypes DEF Ends
<1>1. ASSUME NEW b \in Browsers, Starts(b)
      PROVE  TypeOK'
  <2>0. page[b] \in PageType
    BY <1>0
  <2>1. CASE Reopen(b)
    BY <1>0, <1>a, <2>1 DEF Reopen
  <2>2. CASE Crash(b)
    BY <1>0, <1>a, <2>2 DEF Crash
  <2>3. CASE Ask(b)
    <3>1. [page[b] EXCEPT !.pc = "asked"] \in PageType
      BY <2>0 DEF PageType
    <3> QED BY <1>0, <2>3, <3>1 DEF Ask, Put, TypeOK
  <2>4. CASE Serve(b)
    <3>1. [page[b] EXCEPT !.pc = "served", !.copy = row] \in PageType
      BY <1>0, <2>0 DEF PageType
    <3> QED BY <1>0, <2>4, <3>1 DEF Serve, Put, TypeOK
  <2>5. CASE Arrive(b)
    <3>1. [page[b] EXCEPT !.pc = IF page[b].start THEN "offer" ELSE "open", !.known = TRUE]
            \in PageType
      BY <2>0 DEF PageType
    <3> QED BY <1>0, <2>5, <3>1 DEF Arrive, Put, TypeOK
  <2>6. CASE ReadFails(b)
    <3>1. [page[b] EXCEPT !.pc = "open", !.start = FALSE, !.copy = None] \in PageType
      BY <2>0, BlankTypes DEF PageType
    <3> QED BY <1>0, <2>6, <3>1 DEF ReadFails, Put, TypeOK
  <2>7. CASE Offer(b)
    <3>1. [page[b] EXCEPT !.pc = "open", !.start = FALSE] \in PageType
      BY <2>0 DEF PageType
    <3>2. page' \in [Browsers -> PageType]
      BY <1>0, <2>7, <3>1 DEF Offer, Put
    <3>3. flag' \in [Browsers -> Decisions \cup {Undecided}]
      BY <1>0, <2>7, ForgottenTypes DEF Offer
    <3>4. req' \in [Req -> ReqType]
      <4>1. [Nothing EXCEPT !.outcome = flag[b]] \in Value /\ "onboarding" \in Keys
        BY <1>0, BlankTypes DEF Value, Keys
      <4> QED BY <1>0, <1>b, <2>7, <4>1 DEF Offer
    <3> QED BY <1>0, <2>7, <3>2, <3>3, <3>4 DEF Offer, TypeOK
  <2> QED BY <1>1, <2>1, <2>2, <2>3, <2>4, <2>5, <2>6, <2>7 DEF Starts
<1>2. ASSUME NEW b \in Browsers, NEW q \in Req, Acts(b, q)
      PROVE  TypeOK'
  <2>0. page[b] \in PageType /\ Keys = {"onboarding", "tours", "getting_started"}
    BY <1>0 DEF Keys
  <2>1. ASSUME NEW step \in 1..MaxStep, RecordStep(b, q, step)
        PROVE  TypeOK'
    <3>1. step \in 0..MaxStep /\ [page[b] EXCEPT !.sent = step] \in PageType
      BY <2>0, GuidanceAssumption DEF PageType
    <3>2. [Nothing EXCEPT !.step = step] \in Value
      BY <3>1, BlankTypes DEF Value
    <3>3. req' \in [Req -> ReqType]
      BY <1>b, <2>0, <2>1, <3>2 DEF RecordStep
    <3> QED BY <1>0, <2>1, <3>1, <3>3 DEF RecordStep, Put, TypeOK
  <2>2. ASSUME NEW q2 \in Req, NEW outcome \in Decisions, NEW step \in 1..MaxStep,
               Decide(b, q, q2, outcome, step)
        PROVE  TypeOK'
    <3>1. step \in 0..MaxStep
      BY GuidanceAssumption
    <3>2. [Nothing EXCEPT !.step = step, !.outcome = outcome] \in Value
      BY <3>1, BlankTypes DEF Value
    <3>3. /\ Asked(b, "onboarding", [Nothing EXCEPT !.step = step, !.outcome = outcome], FALSE)
               \in ReqType
          /\ Asked(b, "getting_started", Nothing, FALSE) \in ReqType
      BY <2>0, <3>2, AskedType, BlankTypes
    <3>4. req' \in [Req -> ReqType]
      BY <1>0, <2>2, <3>3 DEF Decide
    <3>5. /\ flag' \in [Browsers -> Decisions \cup {Undecided}]
          /\ made' \in [Browsers -> BOOLEAN]
      BY <1>0, <2>2 DEF Decide
    <3> QED BY <1>0, <2>2, <3>4, <3>5 DEF Decide, TypeOK
  <2>3. CASE Hide(b, q)
    <3>1. [Nothing EXCEPT !.hidden = TRUE] \in Value
      BY BlankTypes DEF Value
    <3>2. req' \in [Req -> ReqType]
      BY <1>b, <2>0, <2>3, <3>1 DEF Hide
    <3> QED BY <1>0, <2>3, <3>2 DEF Hide, TypeOK
  <2>4. CASE ResetTours(b, q)
    <3>1. Asked(b, "tours", Nothing, TRUE) \in ReqType
      BY <2>0, AskedType, BlankTypes
    <3>2. req' \in [Req -> ReqType]
      BY <1>0, <2>4, <3>1 DEF ResetTours
    <3> QED BY <1>0, <2>4, <3>2 DEF ResetTours, TypeOK
  <2>5. ASSUME NEW tour \in Tours, TourDone(b, q, tour)
        PROVE  TypeOK'
    <3>1. [Nothing EXCEPT !.seen = {tour}] \in Value
      BY BlankTypes DEF Value
    <3>2. req' \in [Req -> ReqType]
      BY <1>b, <2>0, <2>5, <3>1 DEF TourDone
    <3> QED BY <1>0, <2>5, <3>2 DEF TourDone, TypeOK
  <2> QED BY <1>2, <2>1, <2>2, <2>3, <2>4, <2>5 DEF Acts
<1>3. ASSUME NEW q \in Req, Handles(q)
      PROVE  TypeOK'
  <2>0. req[q] \in ReqType /\ req[q].key \in Keys /\ req[q].now \in Value
    BY <1>0 DEF ReqType
  <2>1. CASE Read(q)
    <3> DEFINE now == Merge(req[q].key, req[q].body, req[q].reset, row[req[q].key])
    <3>1. now \in Value /\ row[req[q].key] \in Value
      BY <1>0, <2>0, MergeKeeps DEF ReqType, Copy
    <3> HIDE DEF now
    <3>2. /\ [req[q] EXCEPT !.pc = "answer", !.now = now] \in ReqType
          /\ [req[q] EXCEPT !.pc = "write", !.was = row[req[q].key], !.now = now] \in ReqType
      BY <2>0, <3>1 DEF ReqType
    <3>3. \/ /\ req' = [req EXCEPT ![q] = [req[q] EXCEPT !.pc = "answer", !.now = now]]
             /\ Answered(q, now)
          \/ /\ req' = [req EXCEPT ![q] = [req[q] EXCEPT !.pc = "write",
                                             !.was = row[req[q].key], !.now = now]]
             /\ kept' = kept
      BY <1>0, <2>1 DEF Read, now
    <3>4. req' \in [Req -> ReqType]
      BY <1>0, <3>2, <3>3
    <3>5. kept' \in Copy
      BY <1>0, <2>0, <3>1, <3>3, AnsweredType
    <3> QED BY <1>0, <2>1, <3>4, <3>5 DEF Read, TypeOK
  <2>2. CASE Write(q)
    <3>1. ASSUME NEW pc \in {"read", "answer", "refused"}, NEW tries \in Nat
          PROVE  [req[q] EXCEPT !.pc = pc, !.tries = tries] \in ReqType
      BY <2>0 DEF ReqType
    <3>2. req[q].tries \in Nat /\ req[q].tries + 1 \in Nat
      BY <2>0 DEF ReqType
    <3>3. CASE row[req[q].key] = req[q].was
      <4>1. /\ row' = [row EXCEPT ![req[q].key] = req[q].now]
            /\ req' = [req EXCEPT ![q] = [req[q] EXCEPT !.pc = "answer"]]
            /\ Answered(q, req[q].now)
        BY <2>2, <3>3 DEF Write, Go
      <4>2. row' \in Copy /\ kept' \in Copy
        BY <1>0, <2>0, <4>1, AnsweredType DEF Copy
      <4>3. [req[q] EXCEPT !.pc = "answer"] \in ReqType
        BY <2>0 DEF ReqType
      <4>4. req' \in [Req -> ReqType]
        BY <1>0, <4>1, <4>3
      <4> QED BY <1>0, <2>2, <4>2, <4>4 DEF Write, TypeOK
    <3>4. CASE row[req[q].key] # req[q].was
      <4>1. /\ req' = [req EXCEPT ![q] = [req[q] EXCEPT !.tries = req[q].tries + 1,
                         !.pc = IF req[q].tries + 1 < Attempts THEN "read" ELSE "refused"]]
            /\ row' = row /\ kept' = kept
        BY <1>0, <2>2, <3>4 DEF Write
      <4>2. [req[q] EXCEPT !.tries = req[q].tries + 1,
                         !.pc = IF req[q].tries + 1 < Attempts THEN "read" ELSE "refused"]
              \in ReqType
        BY <2>0, <3>2 DEF ReqType
      <4>3. req' \in [Req -> ReqType]
        BY <1>0, <4>1, <4>2
      <4> QED BY <1>0, <2>2, <4>1, <4>3 DEF Write, TypeOK
    <3> QED BY <3>3, <3>4
  <2>3. CASE Settle(q)
    BY <1>0, <1>c, <2>3, PageTypes, ForgottenTypes DEF Settle, TypeOK
  <2>4. CASE Refused(q)
    BY <1>0, <1>c, <2>4, PageTypes DEF Refused, TypeOK
  <2>5. CASE Lose(q)
    <3>1. [req[q] EXCEPT !.to = {}] \in ReqType
      BY <2>0 DEF ReqType
    <3>2. req' \in [Req -> ReqType]
      BY <1>0, <1>c, <2>5, <3>1 DEF Lose
    <3> QED BY <1>0, <2>5, <3>2, PageTypes DEF Lose, TypeOK
  <2> QED BY <1>3, <2>1, <2>2, <2>3, <2>4, <2>5 DEF Handles
<1>4. CASE UNCHANGED guideVars
  BY <1>4 DEF guideVars, TypeOK
<1> QED BY <1>1, <1>2, <1>3, <1>4 DEF Next

\* Rows, writes, pages and flags keep their shape.
THEOREM GuidanceTypes == Spec => []TypeOK
<1>1. Init => TypeOK
  BY BlankTypes DEF Init, TypeOK
<1>2. TypeOK /\ [Next]_guideVars => TypeOK'
  BY TypeStep
<1> QED BY <1>1, <1>2, PTL DEF Spec
-----------------------------------------------------------------------------
Decided == Finished(row["onboarding"])

\* What a write under way stands for: it merged what it read, and an answer that says
\* finished is about an account that is.
Sound(q) ==
  /\ At(q, "write") => req[q].now = Merge(req[q].key, req[q].body, req[q].reset, req[q].was)
  /\ At(q, "answer") /\ req[q].key = "onboarding" /\ Finished(req[q].now) => Decided
\* A copy that says finished is right, however old.
Learned(b) == Finished(page[b].copy["onboarding"]) => Decided

IInv ==
  /\ TypeOK
  /\ \A q \in Req : Sound(q)
  /\ \A b \in Browsers : Learned(b)
  /\ AnsweredKept
  /\ DecisionNotLost

\* Only a write that still finds what it read changes a row, and by its merge.
LEMMA OnlyWrites ==
  ASSUME [Next]_guideVars
  PROVE  row' = row \/ (\E q \in Req : Write(q) /\ row[req[q].key] = req[q].was)
<1>1. ASSUME NEW b \in Browsers, Starts(b)
      PROVE  row' = row
  BY <1>1 DEF Starts, Reopen, Crash, Reload, Ask, Serve, Arrive, ReadFails, Offer
<1>2. ASSUME NEW b \in Browsers, NEW q \in Req, Acts(b, q)
      PROVE  row' = row
  BY <1>2 DEF Acts, RecordStep, Decide, Hide, ResetTours, TourDone
<1>3. ASSUME NEW q \in Req, Handles(q)
      PROVE  row' = row \/ (Write(q) /\ row[req[q].key] = req[q].was)
  <2>1. CASE Write(q)
    BY <2>1 DEF Write
  <2>2. CASE Read(q)
    BY <2>2 DEF Read
  <2>3. CASE Settle(q) \/ Refused(q) \/ Lose(q)
    BY <2>3 DEF Settle, Refused, Lose
  <2> QED BY <1>3, <2>1, <2>2, <2>3 DEF Handles
<1> QED BY <1>1, <1>2, <1>3 DEF Next, guideVars

\* What a write that is stored does.
LEMMA Stored ==
  ASSUME TypeOK, NEW q \in Req, Sound(q), Write(q), row[req[q].key] = req[q].was
  PROVE  LET key == req[q].key  now == req[q].now
         IN  /\ key \in Keys /\ now \in Value /\ row[key] \in Value /\ kept[key] \in Value
             /\ row' = [row EXCEPT ![key] = now] /\ row' \in Copy
             /\ req' = [req EXCEPT ![q].pc = "answer"]
             /\ Answered(q, now)
             /\ key = "onboarding" => /\ Finished(row[key]) => now = row[key]
                                      /\ row[key].step <= now.step
             /\ key = "getting_started" => (row[key].hidden => now.hidden)
             /\ key = "tours" /\ ~req[q].reset => row[key].seen \subseteq now.seen
<1> DEFINE key == req[q].key  now == req[q].now
<1>1. /\ req[q] \in ReqType /\ key \in Keys /\ now \in Value /\ req[q].body \in Value
      /\ req[q].reset \in BOOLEAN /\ row \in Copy /\ kept \in Copy
  BY DEF TypeOK, ReqType
<1>2. row[key] \in Value /\ kept[key] \in Value
  BY <1>1 DEF Copy
<1>3. /\ row' = [row EXCEPT ![key] = now] /\ req' = [req EXCEPT ![q].pc = "answer"]
      /\ Answered(q, now)
  BY DEF Write, Go
<1>4. row' \in Copy
  BY <1>1, <1>3 DEF Copy
<1>5. now = Merge(key, req[q].body, req[q].reset, row[key])
  BY DEF Sound, Write, At
<1> QED BY <1>1, <1>2, <1>3, <1>4, <1>5, MergeKeeps

\* A decision and a hidden card are for good.
LEMMA RowStep ==
  ASSUME TypeOK, \A q \in Req : Sound(q), [Next]_guideVars
  PROVE  /\ Finished(row["onboarding"]) => row'["onboarding"] = row["onboarding"]
         /\ row["getting_started"].hidden => row'["getting_started"].hidden
<1>1. CASE row' = row
  BY <1>1
<1>2. CASE \E q \in Req : Write(q) /\ row[req[q].key] = req[q].was
  <2>1. PICK q \in Req : Write(q) /\ row[req[q].key] = req[q].was
    BY <1>2
  <2>2. DOMAIN row = Keys /\ Keys = {"onboarding", "tours", "getting_started"}
    BY DEF TypeOK, Copy, Keys
  <2> QED BY <2>1, <2>2, Stored
<1> QED BY <1>1, <1>2, OnlyWrites

LEMMA StaysDecided ==
  ASSUME TypeOK, \A q \in Req : Sound(q), [Next]_guideVars, Decided
  PROVE  Decided'
  BY RowStep DEF Decided, Finished

\* Every write under way stays sound.
LEMMA SoundStep ==
  ASSUME TypeOK, \A q \in Req : Sound(q), [Next]_guideVars
  PROVE  (\A q \in Req : Sound(q))'
<1> SUFFICES ASSUME NEW q \in Req
             PROVE  Sound(q)'
  OBVIOUS
<1>0. req \in [Req -> ReqType] /\ DOMAIN req = Req /\ Free.pc = "free"
  BY BlankTypes DEF TypeOK
<1>1. ASSUME req'[q] = req[q] \/ \E to : req'[q] = [req[q] EXCEPT !.to = to]
      PROVE  Sound(q)'
  <2>1. req[q] \in ReqType
    BY <1>0
  <2>2. /\ req'[q].pc = req[q].pc /\ req'[q].now = req[q].now /\ req'[q].key = req[q].key
        /\ req'[q].body = req[q].body /\ req'[q].reset = req[q].reset
        /\ req'[q].was = req[q].was
    BY <1>1, <2>1 DEF ReqType
  <2> QED BY <2>2, StaysDecided DEF Sound, At
<1>2. ASSUME req'[q].pc \notin {"write", "answer"}
      PROVE  Sound(q)'
  BY <1>2 DEF Sound, At
<1>3. ASSUME NEW b \in Browsers, Starts(b)
      PROVE  Sound(q)'
  <2>1. CASE Reload(b)
    BY <1>0, <1>1, <2>1 DEF Reload
  <2>2. CASE req' = req
    BY <1>1, <2>2
  <2>3. ASSUME NEW r \in Req, Send(r, b, "onboarding", [Nothing EXCEPT !.outcome = flag[b]])
        PROVE  Sound(q)'
    <3>1. CASE r = q
      <4>1. req'[q].pc = "read"
        BY <1>0, <2>3, <3>1, BlankTypes DEF Send, Asked, ReqType
      <4> QED BY <1>2, <4>1
    <3>2. CASE r # q
      BY <1>0, <1>1, <2>3, <3>2 DEF Send
    <3> QED BY <3>1, <3>2
  <2> QED BY <1>3, <2>1, <2>2, <2>3
          DEF Starts, Reopen, Crash, Ask, Serve, Arrive, ReadFails, Offer
<1>4. ASSUME NEW b \in Browsers, NEW r \in Req, Acts(b, r)
      PROVE  Sound(q)'
  <2>0. ASSUME NEW key, NEW body, NEW reset
        PROVE  Asked(b, key, body, reset).pc = "read"
    BY BlankTypes DEF Asked, ReqType
  <2>1. ASSUME NEW s \in Req, NEW key, NEW body, NEW reset,
               req' = [req EXCEPT ![s] = Asked(b, key, body, reset)]
        PROVE  Sound(q)'
    <3>1. req'[q] = req[q] \/ req'[q] = Asked(b, key, body, reset)
      BY <1>0, <2>1
    <3> QED BY <1>1, <1>2, <2>0, <3>1
  <2>2. ASSUME NEW step, RecordStep(b, r, step)
        PROVE  Sound(q)'
    BY <2>1, <2>2 DEF RecordStep, Send
  <2>3. ASSUME NEW r2 \in Req, NEW outcome, NEW step, Decide(b, r, r2, outcome, step)
        PROVE  Sound(q)'
    <3> DEFINE first == Asked(b, "onboarding", [Nothing EXCEPT !.step = step,
                                                   !.outcome = outcome], FALSE)
               card == Asked(b, "getting_started", Nothing, FALSE)
    <3>1. \/ req' = [req EXCEPT ![r] = first]
          \/ req' = [[req EXCEPT ![r] = first] EXCEPT ![r2] = card]
      BY <2>3 DEF Decide
    <3>2. first.pc = "read" /\ card.pc = "read"
      BY <2>0
    <3> HIDE DEF first, card
    <3>3. req'[q] = req[q] \/ req'[q] = first \/ req'[q] = card
      BY <1>0, <3>1
    <3> QED BY <1>1, <1>2, <3>2, <3>3
  <2>4. CASE Hide(b, r)
    BY <2>1, <2>4 DEF Hide, Send
  <2>5. CASE ResetTours(b, r)
    BY <2>1, <2>5 DEF ResetTours
  <2>6. ASSUME NEW tour, TourDone(b, r, tour)
        PROVE  Sound(q)'
    BY <2>1, <2>6 DEF TourDone, Send
  <2> QED BY <1>4, <2>2, <2>3, <2>4, <2>5, <2>6 DEF Acts
<1>5. ASSUME NEW r \in Req, Handles(r), r # q
      PROVE  Sound(q)'
  <2>1. req'[q] = req[q]
    BY <1>0, <1>5 DEF Handles, Read, Write, Go, Settle, Refused, Lose, Ends
  <2> QED BY <1>1, <2>1
<1>6. ASSUME Handles(q)
      PROVE  Sound(q)'
  <2>0. req[q] \in ReqType
    BY <1>0
  <2>1. CASE Read(q)
    <3> DEFINE now == Merge(req[q].key, req[q].body, req[q].reset, row[req[q].key])
    <3>1. \/ /\ now = row[req[q].key]
             /\ req'[q] = [req[q] EXCEPT !.pc = "answer", !.now = now]
          \/ req'[q] = [req[q] EXCEPT !.pc = "write", !.was = row[req[q].key], !.now = now]
      BY <1>0, <2>1 DEF Read, now
    <3>2. row' = row
      BY <2>1 DEF Read
    <3>3. CASE /\ now = row[req[q].key]
               /\ req'[q] = [req[q] EXCEPT !.pc = "answer", !.now = now]
      <4> HIDE DEF now
      <4>1. req'[q].pc = "answer" /\ req'[q].now = row[req[q].key] /\ req'[q].key = req[q].key
        BY <2>0, <3>3 DEF ReqType
      <4> QED BY <3>2, <4>1 DEF Sound, At, Decided
    <3>4. CASE req'[q] = [req[q] EXCEPT !.pc = "write", !.was = row[req[q].key], !.now = now]
      <4> HIDE DEF now
      <4>1. /\ req'[q].pc = "write" /\ req'[q].now = now /\ req'[q].was = row[req[q].key]
            /\ req'[q].key = req[q].key /\ req'[q].body = req[q].body
            /\ req'[q].reset = req[q].reset
        BY <2>0, <3>4 DEF ReqType
      <4> QED BY <4>1 DEF Sound, At, now
    <3> HIDE DEF now
    <3> QED BY <3>1, <3>3, <3>4
  <2>2. CASE Write(q) /\ row[req[q].key] = req[q].was
    <3>1. /\ req'[q].pc = "answer" /\ req'[q].now = req[q].now /\ req'[q].key = req[q].key
      BY <1>0, <2>0, <2>2, Stored DEF ReqType
    <3>2. req[q].key = "onboarding" => row'["onboarding"] = req[q].now
      BY <2>2, Stored DEF TypeOK, Copy
    <3> QED BY <3>1, <3>2 DEF Sound, At, Decided
  <2>3. CASE Write(q) /\ row[req[q].key] # req[q].was
    <3>1. req'[q] = [req[q] EXCEPT !.tries = req[q].tries + 1,
                       !.pc = IF req[q].tries + 1 < Attempts THEN "read" ELSE "refused"]
      BY <1>0, <2>3 DEF Write
    <3>2. req'[q].pc \in {"read", "refused"}
      BY <2>0, <3>1 DEF ReqType
    <3> QED BY <1>2, <3>2
  <2>4. CASE Ends(q)
    <3>1. req'[q].pc = "free"
      BY <1>0, <2>4 DEF Ends
    <3> QED BY <1>2, <3>1
  <2>5. CASE req' = [req EXCEPT ![q].to = {}]
    BY <1>0, <1>1, <2>5
  <2> QED BY <1>6, <2>1, <2>2, <2>3, <2>4, <2>5 DEF Handles, Settle, Refused, Lose
<1>7. CASE UNCHANGED guideVars
  BY <1>1, <1>7 DEF guideVars
<1> QED BY <1>3, <1>4, <1>5, <1>6, <1>7 DEF Next

\* A copy learns only what the Worker has.
LEMMA LearnedStep ==
  ASSUME IInv, [Next]_guideVars
  PROVE  (\A b \in Browsers : Learned(b))'
<1> SUFFICES ASSUME NEW b \in Browsers
             PROVE  Learned(b)'
  OBVIOUS
<1>0. /\ TypeOK /\ (\A q \in Req : Sound(q)) /\ Learned(b)
      /\ page \in [Browsers -> PageType] /\ page[b] \in PageType /\ None \in Copy
      /\ "onboarding" \in Keys /\ req \in [Req -> ReqType]
  BY BlankTypes DEF IInv, TypeOK, Keys
<1>a. Decided => Decided'
  BY <1>0, StaysDecided
<1>1. ASSUME page'[b].copy = page[b].copy
      PROVE  Learned(b)'
  BY <1>0, <1>1, <1>a DEF Learned
<1>2. ASSUME page'[b].copy = None
      PROVE  Learned(b)'
  BY <1>2, BlankTypes DEF Learned, None, Finished, Keys
<1>3. ASSUME NEW c \in Browsers, Starts(c)
      PROVE  Learned(b)'
  <2>1. CASE Reload(c)
    <3>1. page'[b] = NewPage \/ page'[b] = page[b]
      BY <1>0, <2>1 DEF Reload
    <3> QED BY <1>1, <1>2, <3>1 DEF NewPage
  <2>2. ASSUME NEW rec, Put(c, rec), rec.copy = page[c].copy
        PROVE  Learned(b)'
    BY <1>0, <1>1, <2>2 DEF Put
  <2>3. CASE Ask(c) \/ Arrive(c) \/ Offer(c)
    <3>0. page[c] \in PageType
      BY <1>0
    <3>1. /\ [page[c] EXCEPT !.pc = "asked"].copy = page[c].copy
          /\ [page[c] EXCEPT !.pc = IF page[c].start THEN "offer" ELSE "open",
                             !.known = TRUE].copy = page[c].copy
          /\ [page[c] EXCEPT !.pc = "open", !.start = FALSE].copy = page[c].copy
      BY <3>0 DEF PageType
    <3> QED BY <2>2, <2>3, <3>1 DEF Ask, Arrive, Offer
  <2>4. CASE Serve(c)
    <3>1. page' = [page EXCEPT ![c] = [page[c] EXCEPT !.pc = "served", !.copy = row]]
          /\ row' = row
      BY <2>4 DEF Serve, Put
    <3>2. page'[b] = page[b] \/ page'[b].copy = row
      BY <1>0, <3>1 DEF PageType
    <3> QED BY <1>1, <3>1, <3>2 DEF Learned, Decided
  <2>5. CASE ReadFails(c)
    <3>1. page' = [page EXCEPT ![c] = [page[c] EXCEPT !.pc = "open", !.start = FALSE,
                                                      !.copy = None]]
      BY <2>5 DEF ReadFails, Put
    <3>2. page'[b] = page[b] \/ page'[b].copy = None
      BY <1>0, <3>1 DEF PageType
    <3> QED BY <1>1, <1>2, <3>2
  <2> QED BY <1>3, <2>1, <2>3, <2>4, <2>5 DEF Starts, Reopen, Crash
<1>4. ASSUME NEW c \in Browsers, NEW q \in Req, Acts(c, q)
      PROVE  Learned(b)'
  <2>1. ASSUME NEW step, RecordStep(c, q, step)
        PROVE  Learned(b)'
    <3>1. page' = [page EXCEPT ![c] = [page[c] EXCEPT !.sent = step]]
      BY <2>1 DEF RecordStep, Put
    <3>2. page[c] \in PageType
      BY <1>0
    <3>3. page'[b].copy = page[b].copy
      BY <1>0, <3>1, <3>2 DEF PageType
    <3> QED BY <1>1, <3>3
  <2>2. CASE page' = page
    BY <1>1, <2>2
  <2> QED BY <1>4, <2>1, <2>2 DEF Acts, Decide, Hide, ResetTours, TourDone
<1>5. ASSUME NEW q \in Req, Handles(q)
      PROVE  Learned(b)'
  <2>1. CASE Settle(q)
    <3> DEFINE new == [page[b].copy EXCEPT ![req[q].key] = req[q].now]
    <3>1. page'[b].copy = page[b].copy \/ page'[b].copy = new
      BY <1>0, <2>1 DEF Settle, Kept, PageType
    <3>2. CASE page'[b].copy = new
      <4>1. DOMAIN page[b].copy = Keys
        BY <1>0 DEF PageType, Copy
      <4>2. CASE req[q].key = "onboarding"
        <5>1. page'[b].copy["onboarding"] = req[q].now
          BY <1>0, <3>2, <4>1, <4>2
        <5>2. Finished(req[q].now) => Decided
          BY <1>0, <2>1, <4>2 DEF Settle, Sound
        <5> QED BY <1>a, <5>1, <5>2 DEF Learned
      <4>3. CASE req[q].key # "onboarding"
        <5>1. page'[b].copy["onboarding"] = page[b].copy["onboarding"]
          BY <1>0, <3>2, <4>1, <4>3
        <5> QED BY <1>0, <1>a, <5>1 DEF Learned
      <4> QED BY <4>2, <4>3
    <3> QED BY <1>1, <3>1, <3>2
  <2>2. CASE Unsent(q)
    <3>1. page'[b].copy = page[b].copy
      BY <1>0, <2>2 DEF Unsent, PageType
    <3> QED BY <1>1, <3>1
  <2>3. CASE page' = page
    BY <1>1, <2>3
  <2> QED BY <1>5, <2>1, <2>2, <2>3 DEF Handles, Read, Write, Refused, Lose
<1>6. CASE UNCHANGED guideVars
  BY <1>1, <1>6 DEF guideVars
<1> QED BY <1>3, <1>4, <1>5, <1>6 DEF Next

\* The history of answers and the rows move together.
LEMMA AnsweredStep ==
  ASSUME IInv, [Next]_guideVars
  PROVE  AnsweredKept'
<1>0. /\ TypeOK /\ (\A q \in Req : Sound(q)) /\ AnsweredKept
      /\ row \in Copy /\ kept \in Copy /\ req \in [Req -> ReqType]
      /\ Keys = {"onboarding", "tours", "getting_started"}
      /\ DOMAIN row = Keys /\ DOMAIN kept = Keys
      /\ \A k \in Keys : row[k] \in Value /\ kept[k] \in Value
  BY DEF IInv, TypeOK, Copy, Keys
<1>1. CASE row' = row /\ kept' = kept
  BY <1>0, <1>1 DEF AnsweredKept
<1>2. ASSUME NEW q \in Req, NEW key \in Keys, NEW now \in Value, key = req[q].key,
             Answered(q, now), row' = [row EXCEPT ![key] = now],
             key = "onboarding" => /\ Finished(row[key]) => now = row[key]
                                   /\ row[key].step <= now.step,
             key = "getting_started" => (row[key].hidden => now.hidden),
             key = "tours" /\ ~req[q].reset => row[key].seen \subseteq now.seen
      PROVE  AnsweredKept'
  <2> DEFINE old == kept[key]
             new == [there |-> TRUE,
                     step |-> IF Finished(old) THEN old.step ELSE Further(old.step, now.step),
                     outcome |-> IF Finished(old) THEN old.outcome ELSE now.outcome,
                     hidden |-> old.hidden \/ now.hidden,
                     seen |-> IF req[q].reset THEN now.seen ELSE old.seen \cup now.seen]
  <2>1. kept' = [kept EXCEPT ![key] = new]
    BY <1>2 DEF Answered
  <2>2. row'[key] = now /\ kept'[key] = new
        /\ \A k \in Keys : k # key => row'[k] = row[k] /\ kept'[k] = kept[k]
    <3> HIDE DEF new
    <3> QED BY <1>0, <1>2, <2>1
  <2>3. old \in Value /\ row[key] \in Value
    BY <1>0
  <2>4. CASE key = "onboarding"
    <3>1. old.step \in 0..MaxStep /\ row[key].step \in 0..MaxStep /\ now.step \in 0..MaxStep
      BY <1>2, <2>3 DEF Value
    <3>2. old.step <= row[key].step /\ row[key].step <= now.step
      BY <1>0, <1>2, <2>4 DEF AnsweredKept
    <3>3. Further(old.step, now.step) = now.step
      BY <3>1, <3>2, GuidanceAssumption DEF Further
    <3>4. new.step = now.step /\ new.outcome = now.outcome
      <4>1. CASE Finished(old)
        <5>1. row[key].outcome = old.outcome /\ row[key].step = old.step
          BY <1>0, <2>4, <4>1 DEF AnsweredKept
        <5>2. now = row[key]
          BY <1>2, <2>4, <4>1, <5>1 DEF Finished
        <5> QED BY <4>1, <5>1, <5>2
      <4>2. CASE ~Finished(old)
        BY <3>3, <4>2
      <4> QED BY <4>1, <4>2
    <3>5. now.step <= now.step
      BY <3>1, GuidanceAssumption
    <3> HIDE DEF new
    <3> QED BY <1>0, <2>2, <2>4, <3>4, <3>5 DEF AnsweredKept
  <2>5. CASE key = "getting_started"
    <3>1. new.hidden => now.hidden
      BY <1>0, <1>2, <2>5 DEF AnsweredKept
    <3> HIDE DEF new
    <3> QED BY <1>0, <2>2, <2>5, <3>1 DEF AnsweredKept
  <2>6. CASE key = "tours"
    <3>1. new.seen \subseteq now.seen
      BY <1>0, <1>2, <2>6 DEF AnsweredKept
    <3> HIDE DEF new
    <3> QED BY <1>0, <2>2, <2>6, <3>1 DEF AnsweredKept
  <2> QED BY <1>0, <2>4, <2>5, <2>6
<1>3. ASSUME NEW b \in Browsers, Starts(b)
      PROVE  row' = row /\ kept' = kept
  BY <1>3 DEF Starts, Reopen, Crash, Reload, Ask, Serve, Arrive, ReadFails, Offer
<1>4. ASSUME NEW b \in Browsers, NEW q \in Req, Acts(b, q)
      PROVE  row' = row /\ kept' = kept
  BY <1>4 DEF Acts, RecordStep, Decide, Hide, ResetTours, TourDone
<1>5. ASSUME NEW q \in Req, Handles(q)
      PROVE  AnsweredKept'
  <2>0. req[q].key \in Keys
    BY <1>0 DEF ReqType
  <2>1. CASE Read(q)
    <3> DEFINE now == Merge(req[q].key, req[q].body, req[q].reset, row[req[q].key])
    <3>1. row' = row /\ (kept' = kept \/ (now = row[req[q].key] /\ Answered(q, now)))
      BY <2>1 DEF Read
    <3>2. CASE now = row[req[q].key] /\ Answered(q, now)
      <4>1. row[req[q].key].step <= row[req[q].key].step
        BY <1>0, <2>0, GuidanceAssumption DEF Value
      <4>2. row' = [row EXCEPT ![req[q].key] = row[req[q].key]]
        BY <1>0, <3>1 DEF Copy
      <4> HIDE DEF now
      <4> QED BY <1>0, <1>2, <2>0, <3>2, <4>1, <4>2
    <3> QED BY <1>1, <3>1, <3>2
  <2>2. CASE Write(q) /\ row[req[q].key] = req[q].was
    BY <1>0, <1>2, <2>2, Stored
  <2>3. CASE Write(q) /\ row[req[q].key] # req[q].was
    BY <1>1, <2>3 DEF Write
  <2>4. CASE Settle(q) \/ Refused(q) \/ Lose(q)
    BY <1>1, <2>4 DEF Settle, Refused, Lose
  <2> QED BY <1>5, <2>1, <2>2, <2>3, <2>4 DEF Handles
<1>6. CASE UNCHANGED guideVars
  BY <1>1, <1>6 DEF guideVars
<1> QED BY <1>1, <1>3, <1>4, <1>5, <1>6 DEF Next

\* The flag goes only when the account has a decision.
LEMMA DecisionStep ==
  ASSUME IInv, [Next]_guideVars
  PROVE  DecisionNotLost'
<1> SUFFICES ASSUME NEW b \in Browsers, made'[b]
             PROVE  Decided' \/ flag'[b] # Undecided
  BY DEF DecisionNotLost, Decided
<1>0. /\ TypeOK /\ (\A q \in Req : Sound(q)) /\ (\A c \in Browsers : Learned(c))
      /\ flag \in [Browsers -> Decisions \cup {Undecided}] /\ made \in [Browsers -> BOOLEAN]
      /\ Undecided \notin Decisions
      /\ made[b] => Decided \/ flag[b] # Undecided
  BY DEF IInv, TypeOK, DecisionNotLost, Decided, Undecided, Decisions
<1>a. Decided => Decided'
  BY <1>0, StaysDecided
<1>1. ASSUME made'[b] = made[b], flag'[b] = flag[b] \/ Decided
      PROVE  Decided' \/ flag'[b] # Undecided
  BY <1>0, <1>1, <1>a
<1>2. ASSUME NEW c \in Browsers, Starts(c)
      PROVE  Decided' \/ flag'[b] # Undecided
  <2>1. CASE Offer(c)
    <3>1. made' = made
      BY <2>1 DEF Offer
    <3>2. flag'[b] = flag[b] \/ Finished(page[c].copy["onboarding"])
      BY <2>1 DEF Offer
    <3> QED BY <1>0, <1>1, <3>1, <3>2 DEF Learned
  <2>2. CASE made' = made /\ flag' = flag
    BY <1>1, <2>2
  <2> QED BY <1>2, <2>1, <2>2 DEF Starts, Reopen, Crash, Reload, Ask, Serve, Arrive, ReadFails
<1>3. ASSUME NEW c \in Browsers, NEW q \in Req, Acts(c, q)
      PROVE  Decided' \/ flag'[b] # Undecided
  <2>1. ASSUME NEW q2 \in Req, NEW outcome \in Decisions, NEW step \in 1..MaxStep,
               Decide(c, q, q2, outcome, step)
        PROVE  Decided' \/ flag'[b] # Undecided
    <3>1. /\ flag' = [flag EXCEPT ![c] = outcome]
          /\ made' = [made EXCEPT ![c] = TRUE]
      BY <2>1 DEF Decide
    <3>2. CASE c = b
      <4>1. flag'[b] = outcome
        BY <1>0, <3>1, <3>2
      <4> QED BY <1>0, <4>1
    <3>3. CASE c # b
      <4>1. flag'[b] = flag[b] /\ made'[b] = made[b]
        BY <1>0, <3>1, <3>3
      <4> QED BY <1>1, <4>1
    <3> QED BY <3>2, <3>3
  <2>2. CASE made' = made /\ flag' = flag
    BY <1>1, <2>2
  <2> QED BY <1>3, <2>1, <2>2 DEF Acts, RecordStep, Hide, ResetTours, TourDone
<1>4. ASSUME NEW q \in Req, Handles(q)
      PROVE  Decided' \/ flag'[b] # Undecided
  <2>1. CASE Settle(q)
    <3>1. made' = made
      BY <2>1 DEF Settle
    <3>2. flag'[b] = flag[b] \/ Decided
      <4>1. CASE IsDecision(q) /\ Finished(req[q].now)
        <5>1. Sound(q) /\ At(q, "answer") /\ req[q].key = "onboarding"
          BY <1>0, <2>1, <4>1 DEF Settle, IsDecision
        <5> QED BY <4>1, <5>1 DEF Sound
      <4>2. CASE ~(IsDecision(q) /\ Finished(req[q].now))
        BY <2>1, <4>2 DEF Settle
      <4> QED BY <4>1, <4>2
    <3> QED BY <1>1, <3>1, <3>2
  <2>2. CASE made' = made /\ flag' = flag
    BY <1>1, <2>2
  <2> QED BY <1>4, <2>1, <2>2 DEF Handles, Read, Write, Refused, Lose
<1>5. CASE UNCHANGED guideVars
  BY <1>1, <1>5 DEF guideVars
<1> QED BY <1>2, <1>3, <1>4, <1>5 DEF Next
-----------------------------------------------------------------------------
LEMMA InvInit == Init => IInv
<1> SUFFICES ASSUME Init
             PROVE  IInv
  OBVIOUS
<1>1. TypeOK
  BY BlankTypes DEF Init, TypeOK
<1>2. /\ \A k \in Keys : row[k] = Nothing /\ kept[k] = Nothing
      /\ \A b \in Browsers : page[b].copy = None
      /\ \A q \in Req : req[q].pc = "free"
      /\ "onboarding" \in Keys /\ "tours" \in Keys /\ "getting_started" \in Keys
  BY BlankTypes DEF Init, None, Keys, NewPage
<1>3. \A b \in Browsers : Learned(b)
  BY <1>2, BlankTypes DEF Learned, None, Finished
<1>4. \A q \in Req : Sound(q)
  BY <1>2 DEF Sound, At
<1>5. AnsweredKept
  BY <1>2, BlankTypes, GuidanceAssumption DEF AnsweredKept, Finished, Nothing
<1>6. DecisionNotLost
  BY DEF Init, DecisionNotLost
<1> QED BY <1>1, <1>3, <1>4, <1>5, <1>6 DEF IInv

LEMMA InvStep == IInv /\ [Next]_guideVars => IInv'
<1> SUFFICES ASSUME IInv, [Next]_guideVars
             PROVE  IInv'
  OBVIOUS
<1>1. TypeOK /\ \A q \in Req : Sound(q)
  BY DEF IInv
<1>2. TypeOK'
  BY <1>1, TypeStep
<1>3. (\A q \in Req : Sound(q))'
  BY <1>1, SoundStep
<1> QED BY <1>2, <1>3, LearnedStep, AnsweredStep, DecisionStep DEF IInv

\* A write the Worker has answered is in its row, whichever writes raced it.
THEOREM AnsweredWritesStay == Spec => []AnsweredKept
<1>1. IInv => AnsweredKept
  BY DEF IInv
<1> QED BY <1>1, InvInit, InvStep, PTL DEF Spec

\* A decision is on the account or still in its browser, whatever is lost or refused.
THEOREM DecisionsNotLost == Spec => []DecisionNotLost
<1>1. IInv => DecisionNotLost
  BY DEF IInv
<1> QED BY <1>1, InvInit, InvStep, PTL DEF Spec

\* No write, however stale the copy behind it, changes a decision or shows a hidden card.
THEOREM GoodIsForGood == Spec => DecidedForGood
<1>1. IInv /\ [Next]_guideVars =>
        [/\ Finished(row["onboarding"]) => row'["onboarding"] = row["onboarding"]
         /\ row["getting_started"].hidden => row'["getting_started"].hidden]_guideVars
  BY RowStep DEF IInv
<1> QED BY <1>1, InvInit, InvStep, PTL DEF Spec, DecidedForGood
-----------------------------------------------------------------------------
(* Updates                                                                     *)

\* A worker that was asked and still waits is the one that waits.
AsksFit == \A t \in Tabs : \A a \in tab[t].asks : a.live => a.build = worker.waiting
UpdateInv == UpdateTypeOK /\ AsksFit

LEMMA Blank ==
  /\ NoBuild \in Place /\ NoBuild \notin Builds /\ Builds \subseteq Place /\ 1 \in Builds
  /\ NoCache \in Contents /\ NoWorker \in Worker /\ NoPage \in Page /\ NoSession \in Session
  /\ NoPage.asks = {} /\ NoWorker.waiting = NoBuild
<1>1. NoBuild \in Place /\ NoBuild \notin Builds /\ Builds \subseteq Place /\ 1 \in Builds
  BY UpdatesAssumption DEF NoBuild, Place, Builds
<1>2. NoCache \in Contents /\ NoWorker \in Worker /\ NoPage \in Page
  BY <1>1 DEF NoCache, NoWorker, NoPage, Contents, Worker, Page
<1>3. NoSession \in Session
  BY <1>1, UpdatesAssumption DEF NoSession, Session
<1> QED BY <1>1, <1>2, <1>3 DEF NoPage, NoWorker

\* A page that reloads starts over.
LEMMA Going == ASSUME NEW doc PROVE Goes(doc) \in Page /\ Goes(doc).asks = {}
                                     /\ Goes(doc).pc = "nav"
<1>1. NoPage \in Page /\ NoPage.asks = {} /\ NoPage = NoPage
  BY Blank
<1> HIDE DEF NoPage
<1> QED BY <1>1 DEF Goes, Page

\* What is done to the answers a page waits for.
LEMMA Outdating ==
  ASSUME NEW asks \in SUBSET Query
  PROVE  Outdated(asks) \in SUBSET Query /\ \A a \in Outdated(asks) : ~a.live
BY DEF Outdated, Query

LEMMA Outdates ==
  ASSUME NEW doc \in Page
  PROVE  LET old == [doc EXCEPT !.asks = Outdated(@)]
         IN  old \in Page /\ old.pc = doc.pc /\ old.build = doc.build
             /\ \A a \in old.asks : ~a.live
BY Outdating DEF Page

LEMMA Asking ==
  ASSUME NEW doc \in Page, NEW b \in Builds, NEW live \in BOOLEAN
  PROVE  LET new == Asks(doc, b, live)
         IN  /\ new \in Page /\ new.pc = doc.pc /\ new.build = doc.build
             /\ \A a \in new.asks : a \in doc.asks \/ (a.build = b /\ a.live = live)
<1>1. [build |-> b, live |-> live] \in Query
  BY DEF Query
<1> QED BY <1>1 DEF Asks, Page

LEMMA Unregistering ==
  ASSUME NEW doc \in Page
  PROVE  LET new == Unregistered(doc)
         IN  new \in Page /\ new.pc = doc.pc /\ \A a \in new.asks : ~a.live
BY Outdating DEF Unregistered, Page

LEMMA Swapping ==
  ASSUME NEW doc \in Page, NEW b \in Builds
  PROVE  LET new == Swapped(doc, b)
         IN  /\ new \in Page /\ \A a \in new.asks : ~a.live
             /\ doc.pc = "open" => new.pc = "open" /\ new.build = doc.build
<1>1. CASE ~doc.held
  BY <1>1, Outdates DEF Swapped
<1>2. CASE doc.held /\ doc.pc = "adopting"
  BY <1>2, Going DEF Swapped
<1>3. CASE doc.held /\ doc.pc # "adopting"
  <2>1. Swapped(doc, b) = [doc EXCEPT !.ctl = b, !.asks = Outdated(@)]
    BY <1>3 DEF Swapped
  <2>2. Outdated(doc.asks) \in SUBSET Query /\ \A a \in Outdated(doc.asks) : ~a.live
    BY Outdating DEF Page
  <2> QED BY <2>1, <2>2, Blank DEF Page
<1> QED BY <1>1, <1>2, <1>3

\* Reloading a tab leaves the others as they are.
LEMMA Reloads ==
  ASSUME UpdateInv, NEW t \in Tabs, PlainReload(t), UNCHANGED worker
  PROVE  tab' \in [Tabs -> Page] /\ AsksFit'
<1>1. tab' \in [Tabs -> Page]
  BY Going DEF UpdateInv, UpdateTypeOK, PlainReload
<1>2. ASSUME NEW o \in Tabs, NEW a \in tab'[o].asks, a.live PROVE a.build = worker'.waiting
  <2>1. o # t
    BY <1>2, Going DEF UpdateInv, UpdateTypeOK, PlainReload
  <2> QED BY <1>2, <2>1 DEF UpdateInv, UpdateTypeOK, PlainReload, AsksFit
<1> QED BY <1>1, <1>2 DEF AsksFit

LEMMA UnregistersAll ==
  ASSUME UpdateInv, NEW t \in Tabs, UnregisterAndReload(t)
  PROVE  tab' \in [Tabs -> Page] /\ AsksFit' /\ worker' \in Worker
<1>1. \A o \in Tabs : /\ Goes(tab[o]) \in Page /\ Goes(tab[o]).asks = {}
                      /\ Unregistered(tab[o]) \in Page
                      /\ \A a \in Unregistered(tab[o]).asks : ~a.live
  BY Going, Unregistering DEF UpdateInv, UpdateTypeOK
<1>2. tab' = [o \in Tabs |-> IF o = t THEN Goes(tab[o]) ELSE Unregistered(tab[o])]
  BY DEF UnregisterAndReload
<1> QED BY <1>1, <1>2, Blank DEF UnregisterAndReload, AsksFit

\* What leaving does, whatever made the page leave.
LEMMA Leaving ==
  ASSUME UpdateInv, NEW t \in Tabs, Leave(t)
  PROVE  /\ tab' \in [Tabs -> Page] /\ AsksFit' /\ worker' \in Worker
         /\ worker'.active \in {worker.active, NoBuild}
         /\ worker'.skip /\ ~worker.skip => tab'[t].pc = "adopting"
<1>1. CASE PlainReload(t) /\ UNCHANGED worker
  BY <1>1, Reloads DEF UpdateInv, UpdateTypeOK
<1>2. CASE UnregisterAndReload(t)
  BY <1>2, UnregistersAll DEF UnregisterAndReload, NoWorker
<1>3. CASE /\ worker' = [worker EXCEPT !.skip = TRUE]
           /\ tab' = [tab EXCEPT ![t].pc = "adopting"]
  <2>1. worker' \in Worker /\ worker'.active = worker.active /\ worker'.waiting = worker.waiting
    BY <1>3 DEF UpdateInv, UpdateTypeOK, Worker
  <2>2. [tab[t] EXCEPT !.pc = "adopting"] \in Page
    BY DEF UpdateInv, UpdateTypeOK, Page
  <2>3. tab' \in [Tabs -> Page] /\ tab'[t].pc = "adopting"
        /\ \A o \in Tabs : tab'[o].asks = tab[o].asks
    BY <1>3, <2>2 DEF UpdateInv, UpdateTypeOK, Page
  <2> QED BY <2>1, <2>3 DEF UpdateInv, AsksFit
<1> QED BY <1>1, <1>2, <1>3 DEF Leave
-----------------------------------------------------------------------------
(* One lemma per step                                                          *)

LEMMA InstallStarts ==
  ASSUME UpdateInv, StartInstall
  PROVE  /\ worker' \in Worker /\ worker'.active = worker.active
         /\ worker'.waiting = worker.waiting /\ worker'.skip = worker.skip
BY Blank DEF UpdateInv, UpdateTypeOK, StartInstall, Worker

LEMMA CheckStep == ASSUME UpdateInv, Check PROVE UpdateInv' /\ Calm
BY InstallStarts DEF Check, UpdateInv, UpdateTypeOK, AsksFit, Calm

LEMMA FetchShellStep == ASSUME UpdateInv, FetchShell PROVE UpdateInv' /\ Calm
<1> DEFINE b == worker.installing
<1>1. b \in Builds
  BY DEF FetchShell, UpdateInv, UpdateTypeOK, Worker, Place
<1>2. /\ worker' \in Worker /\ worker'.active = worker.active
      /\ worker'.waiting = worker.waiting /\ worker'.skip = worker.skip
  <2>1. \/ worker' = [worker EXCEPT !.fetched = TRUE]
        \/ worker' = [worker EXCEPT !.installing = NoBuild]
    BY DEF FetchShell
  <2> QED BY <2>1, Blank DEF UpdateInv, UpdateTypeOK, Worker
<1>3. cache' \in [Builds -> Contents]
  <2>1. cache[b] \in Contents /\ cache \in [Builds -> Contents]
    BY <1>1 DEF UpdateInv, UpdateTypeOK
  <2>2. \A s \in Place : [cache[b] EXCEPT !.shell = s] \in Contents
    BY <2>1 DEF Contents
  <2>3. (IF network.room THEN b ELSE cache[b].shell) \in Place
    BY <1>1, <2>1, Blank DEF Contents
  <2>4. UNCHANGED cache
        \/ cache' = [cache EXCEPT ![b] = [cache[b] EXCEPT !.shell = IF network.room THEN b ELSE cache[b].shell]]
    BY DEF FetchShell
  <2> QED BY <2>1, <2>2, <2>3, <2>4, <1>1
<1> QED BY <1>2, <1>3 DEF FetchShell, UpdateInv, UpdateTypeOK, AsksFit, Calm

\* Every other build's cache goes.
LEMMA OneCache ==
  ASSUME NEW c \in [Builds -> Contents], NEW b \in Builds
  PROVE  OnlyCache(c, b) \in [Builds -> Contents]
BY Blank DEF OnlyCache

LEMMA InstallStep == ASSUME UpdateInv, Install PROVE UpdateInv' /\ Calm
<1> DEFINE b == worker.installing
           warmed == [cache EXCEPT ![b].entry = @ \/ (network.on /\ network.room /\ origin = b)]
           first == worker.active = NoBuild
           told(doc) == Asks([doc EXCEPT !.asks = Outdated(@)], b, ~first)
<1>1. b \in Builds /\ first \in BOOLEAN
  BY DEF Install, UpdateInv, UpdateTypeOK, Worker, Place
<1>2. warmed \in [Builds -> Contents]
  <2>1. cache[b] \in Contents /\ cache \in [Builds -> Contents]
    BY <1>1 DEF UpdateInv, UpdateTypeOK
  <2>2. (cache[b].entry \/ (network.on /\ network.room /\ origin = b)) \in BOOLEAN
    BY <2>1 DEF Contents
  <2>3. \A e \in BOOLEAN : [cache[b] EXCEPT !.entry = e] \in Contents
    BY <2>1 DEF Contents
  <2> QED BY <2>1, <2>2, <2>3, <1>1
<1>3. cache' \in [Builds -> Contents]
  BY <1>1, <1>2, OneCache DEF Install
<1>4. /\ worker' \in Worker /\ ~worker'.skip
      /\ first => worker'.active = b
      /\ ~first => worker'.active = worker.active /\ worker'.waiting = b
  BY <1>1, Blank DEF Install, NoWorker, Worker, UpdateInv, UpdateTypeOK
<1>5. tab' = [t \in Tabs |-> told(tab[t])]
  BY DEF Install
<1>6. ASSUME NEW t \in Tabs
      PROVE  /\ told(tab[t]) \in Page /\ told(tab[t]).pc = tab[t].pc
             /\ told(tab[t]).build = tab[t].build
             /\ \A a \in told(tab[t]).asks : a.live => a.build = b /\ ~first
  <2> DEFINE old == [tab[t] EXCEPT !.asks = Outdated(@)]
  <2>1. old \in Page /\ old.pc = tab[t].pc /\ old.build = tab[t].build /\ \A a \in old.asks : ~a.live
    BY Outdates DEF UpdateInv, UpdateTypeOK
  <2> HIDE DEF old
  <2>2. PICK live \in BOOLEAN : live = ~first
    BY <1>1
  <2>3. LET new == Asks(old, b, live)
        IN  /\ new \in Page /\ new.pc = old.pc /\ new.build = old.build
            /\ \A a \in new.asks : a \in old.asks \/ (a.build = b /\ a.live = live)
    BY <2>1, <1>1, Asking
  <2>4. told(tab[t]) = Asks(old, b, live)
    BY <2>2 DEF old
  <2> QED BY <2>1, <2>2, <2>3, <2>4
<1> HIDE DEF told, b, first
<1>7. tab' \in [Tabs -> Page]
  BY <1>5, <1>6
<1>8. AsksFit'
  BY <1>4, <1>5, <1>6 DEF AsksFit
<1>9. Calm
  BY <1>4, <1>5, <1>6 DEF Calm, PageAt
<1> QED BY <1>3, <1>4, <1>7, <1>8, <1>9 DEF Install, UpdateInv, UpdateTypeOK

LEMMA TakeOverStep == ASSUME UpdateInv, TakeOver PROVE UpdateInv' /\ Calm
<1> DEFINE b == worker.waiting
<1>1. b \in Builds
  BY DEF TakeOver, UpdateInv, UpdateTypeOK, Worker, Place
<1>2. worker' \in Worker /\ ~worker'.skip
  BY <1>1, Blank DEF TakeOver, UpdateInv, UpdateTypeOK, Worker
<1>3. cache' \in [Builds -> Contents]
  BY <1>1, OneCache DEF TakeOver, UpdateInv, UpdateTypeOK
<1>4. tab' = [t \in Tabs |-> Swapped(tab[t], b)]
  BY DEF TakeOver
<1>5. \A t \in Tabs : LET new == Swapped(tab[t], b)
                      IN  /\ new \in Page /\ \A a \in new.asks : ~a.live
                          /\ tab[t].pc = "open" => new.pc = "open" /\ new.build = tab[t].build
  BY <1>1, Swapping DEF UpdateInv, UpdateTypeOK
<1>6. tab' \in [Tabs -> Page] /\ AsksFit' /\ Calm
  BY <1>2, <1>4, <1>5 DEF AsksFit, Calm, PageAt
<1> QED BY <1>2, <1>3, <1>6 DEF TakeOver, UpdateInv, UpdateTypeOK

LEMMA LoadStep == ASSUME UpdateInv, NEW t \in Tabs, Load(t) PROVE UpdateInv' /\ Calm
<1> DEFINE w == worker.active
           stored == w # NoBuild /\ cache[w].shell # NoBuild
           served == IF stored THEN cache[w].shell ELSE IF network.on THEN origin ELSE NoBuild
           doc == [NoPage EXCEPT !.pc = "entry", !.build = served, !.ctl = w, !.held = w # NoBuild]
<1>1. w \in Place /\ served \in Place
  BY Blank DEF UpdateInv, UpdateTypeOK, Worker, Contents, Place
<1>2. doc \in Page /\ doc.asks = {}
  <2>1. NoPage \in Page /\ NoPage.asks = {}
    BY Blank
  <2> HIDE DEF NoPage, served
  <2> QED BY <1>1, <2>1 DEF Page
<1>3. cache' \in [Builds -> Contents]
  <2>1. CASE served # NoBuild /\ w = served /\ network.room
    <3>1. w \in Builds /\ cache' = [cache EXCEPT ![w] = [cache[w] EXCEPT !.shell = w]]
      BY <2>1, <1>1 DEF Load, Place
    <3> QED BY <3>1, Blank DEF UpdateInv, UpdateTypeOK, Contents
  <2> QED BY <2>1 DEF Load, UpdateInv, UpdateTypeOK
<1> HIDE DEF doc, served
<1>4. CASE tab' = [tab EXCEPT ![t] = doc]
  BY <1>2, <1>4, <1>3 DEF Load, UpdateInv, UpdateTypeOK, AsksFit, Calm
<1>5. CASE tab' = [tab EXCEPT ![t].pc = "failed"]
  <2>1. [tab[t] EXCEPT !.pc = "failed"] \in Page
    BY DEF UpdateInv, UpdateTypeOK, Page
  <2>2. tab' \in [Tabs -> Page] /\ \A o \in Tabs : tab'[o].asks = tab[o].asks
    BY <1>5, <2>1 DEF UpdateInv, UpdateTypeOK, Page
  <2> QED BY <2>2, <1>3 DEF Load, UpdateInv, UpdateTypeOK, AsksFit, Calm
<1>6. tab' = [tab EXCEPT ![t].pc = "failed"] \/ tab' = [tab EXCEPT ![t] = doc]
  BY DEF Load, doc, served
<1> QED BY <1>4, <1>5, <1>6

\* The network answers for a chunk: only a cache changes.
LEMMA ChunkKept ==
  ASSUME UpdateInv, NEW w \in Place, NEW b \in Builds, NEW chunk \in {"entry", "lazy"},
         KeepsChunk(w, b, chunk)
  PROVE  cache' \in [Builds -> Contents]
<1>1. CASE w = b /\ network.room
  <2>1. cache' = [cache EXCEPT ![b] = [cache[b] EXCEPT ![chunk] = TRUE]]
    BY <1>1 DEF KeepsChunk
  <2>2. [cache[b] EXCEPT ![chunk] = TRUE] \in Contents
    BY DEF UpdateInv, UpdateTypeOK, Contents
  <2> QED BY <2>1, <2>2 DEF UpdateInv, UpdateTypeOK
<1> QED BY <1>1 DEF KeepsChunk, UpdateInv, UpdateTypeOK

\* Where a page is, is all that changes of it.
LEMMA Moves ==
  ASSUME UpdateInv, NEW t \in Tabs, UNCHANGED worker,
         NEW pc \in {"open", "panel", "crashed", "failed"}, tab' = [tab EXCEPT ![t].pc = pc]
  PROVE  tab' \in [Tabs -> Page] /\ AsksFit'
<1>1. [tab[t] EXCEPT !.pc = pc] \in Page
  BY DEF UpdateInv, UpdateTypeOK, Page
<1>2. tab' \in [Tabs -> Page] /\ \A o \in Tabs : tab'[o].asks = tab[o].asks
  BY <1>1 DEF UpdateInv, UpdateTypeOK, Page
<1> QED BY <1>2 DEF UpdateInv, AsksFit

LEMMA Resets ==
  ASSUME UpdateInv, NEW t \in Tabs, Reset(t)
  PROVE  /\ tab' \in [Tabs -> Page] /\ AsksFit' /\ worker' \in Worker
         /\ cache' \in [Builds -> Contents] /\ Calm
<1>1. UnregisterAndReload(t) /\ cache' = [b \in Builds |-> NoCache]
  BY DEF Reset
<1>2. worker'.active = NoBuild /\ ~worker'.skip
  BY <1>1 DEF UnregisterAndReload, NoWorker
<1> QED BY <1>1, <1>2, UnregistersAll, Blank DEF Calm

LEMMA SessionKept ==
  ASSUME UpdateInv, NEW t \in Tabs
  PROVE  /\ [session EXCEPT ![t].recovered = TRUE] \in [Tabs -> Session]
         /\ [session EXCEPT ![t].chunk = TRUE] \in [Tabs -> Session]
BY DEF UpdateInv, UpdateTypeOK, Session

LEMMA BootStep == ASSUME UpdateInv, NEW t \in Tabs, Boot(t) PROVE UpdateInv' /\ Calm
<1> DEFINE doc == tab[t]
           b == doc.build
<1>1. CASE /\ tab' = [tab EXCEPT ![t].pc = "open"]
           /\ UNCHANGED <<worker, cache, session>>
  BY <1>1, Moves DEF Boot, UpdateInv, UpdateTypeOK, Calm
<1>2. CASE /\ Fetched(b) /\ tab' = [tab EXCEPT ![t].pc = "open"]
           /\ KeepsChunk(doc.ctl, b, "entry") /\ UNCHANGED <<worker, session>>
  <2>1. b \in Builds /\ doc.ctl \in Place
    BY <1>2 DEF Fetched, UpdateInv, UpdateTypeOK, Page
  <2> QED BY <1>2, <2>1, Moves, ChunkKept DEF Boot, UpdateInv, UpdateTypeOK, Calm
<1>3. CASE session' = [session EXCEPT ![t].recovered = TRUE] /\ Reset(t)
  BY <1>3, Resets, SessionKept DEF Boot, UpdateInv, UpdateTypeOK
<1>4. CASE /\ tab' = [tab EXCEPT ![t].pc = "panel"]
           /\ UNCHANGED <<worker, cache, session>>
  BY <1>4, Moves DEF Boot, UpdateInv, UpdateTypeOK, Calm
<1> QED BY <1>1, <1>2, <1>3, <1>4 DEF Boot

LEMMA RegisterStep == ASSUME UpdateInv, NEW t \in Tabs, Register(t) PROVE UpdateInv' /\ Calm
<1> DEFINE doc == [tab[t] EXCEPT !.reg = "current"]
<1>1. /\ doc \in Page /\ doc.asks = tab[t].asks /\ doc.pc = tab[t].pc
      /\ [tab[t] EXCEPT !.reg = "gone"] \in Page
  BY DEF UpdateInv, UpdateTypeOK, Page
<1>2. CASE Registered /\ UNCHANGED worker
  <2> DEFINE new == IF worker.waiting = NoBuild THEN doc ELSE Asks(doc, worker.waiting, TRUE)
  <2>1. new \in Page /\ \A a \in new.asks : a \in tab[t].asks \/ a.build = worker.waiting
    <3>1. CASE worker.waiting = NoBuild
      BY <1>1, <3>1
    <3>2. CASE worker.waiting # NoBuild
      <4>1. worker.waiting \in Builds
        BY <3>2 DEF UpdateInv, UpdateTypeOK, Worker, Place
      <4> HIDE DEF doc
      <4>2. LET asked == Asks(doc, worker.waiting, TRUE)
            IN  /\ asked \in Page
                /\ \A a \in asked.asks : a \in doc.asks \/ a.build = worker.waiting
        BY <1>1, <4>1, Asking
      <4> QED BY <1>1, <3>2, <4>2
    <3> QED BY <3>1, <3>2
  <2>2. tab' = [tab EXCEPT ![t] = new]
    BY <1>2 DEF Register
  <2> HIDE DEF new
  <2>3. tab' \in [Tabs -> Page] /\ AsksFit'
    BY <1>2, <2>1, <2>2 DEF UpdateInv, UpdateTypeOK, AsksFit
  <2> QED BY <1>2, <2>3 DEF Register, UpdateInv, UpdateTypeOK, Calm
<1>3. CASE StartInstall /\ tab' = [tab EXCEPT ![t].reg = "current"]
  <2>1. tab' \in [Tabs -> Page] /\ \A o \in Tabs : tab'[o].asks = tab[o].asks
    BY <1>1, <1>3 DEF UpdateInv, UpdateTypeOK
  <2> QED BY <1>3, <2>1, InstallStarts DEF Register, UpdateInv, UpdateTypeOK, AsksFit, Calm
<1>4. CASE tab' = [tab EXCEPT ![t].reg = "gone"] /\ UNCHANGED worker
  <2>1. tab' \in [Tabs -> Page] /\ \A o \in Tabs : tab'[o].asks = tab[o].asks
    BY <1>1, <1>4 DEF UpdateInv, UpdateTypeOK, Page
  <2> QED BY <1>4, <2>1 DEF Register, UpdateInv, UpdateTypeOK, AsksFit, Calm
<1> QED BY <1>2, <1>3, <1>4 DEF Register

LEMMA AnswerStep == ASSUME UpdateInv, NEW t \in Tabs, Answer(t) PROVE UpdateInv' /\ Calm
<1>1. PICK a \in tab[t].asks, heard \in BOOLEAN :
        LET doc == [tab[t] EXCEPT !.asks = @ \ {a}]
            same == heard /\ a.build = doc.build
        IN  /\ PageAt(t, "open")
            /\ tab' = [tab EXCEPT ![t] = IF same THEN doc ELSE Note(doc)]
            /\ worker' = IF same /\ a.live THEN [worker EXCEPT !.skip = TRUE] ELSE worker
            /\ UNCHANGED <<origin, network, cache, session, used>>
  BY DEF Answer
<1> DEFINE doc == [tab[t] EXCEPT !.asks = @ \ {a}]
           same == heard /\ a.build = doc.build
           new == IF same THEN doc ELSE Note(doc)
<1>2. /\ doc \in Page /\ doc.asks \subseteq tab[t].asks /\ doc.build = tab[t].build
      /\ doc.pc = tab[t].pc
  BY DEF UpdateInv, UpdateTypeOK, Page
<1>3. new \in Page /\ new.asks \subseteq tab[t].asks
  <2> HIDE DEF doc
  <2> QED BY <1>2 DEF Note, Page
<1>4. /\ worker' \in Worker /\ worker'.waiting = worker.waiting
      /\ worker'.active = worker.active
      /\ worker'.skip /\ ~worker.skip => same /\ a.live
  BY <1>1 DEF UpdateInv, UpdateTypeOK, Worker
<1>5. worker'.skip /\ ~worker.skip => PageAt(t, "open") /\ tab[t].build = worker.waiting
  BY <1>1, <1>2, <1>4 DEF UpdateInv, AsksFit
<1>6. tab' = [tab EXCEPT ![t] = new]
  BY <1>1
<1> HIDE DEF new
<1>7. tab' \in [Tabs -> Page] /\ AsksFit'
  BY <1>3, <1>4, <1>6 DEF UpdateInv, UpdateTypeOK, AsksFit
<1> QED BY <1>1, <1>4, <1>5, <1>7 DEF UpdateInv, UpdateTypeOK, Calm

LEMMA PollStep == ASSUME UpdateInv, NEW t \in Tabs, Poll(t) PROVE UpdateInv' /\ Calm
<1> DEFINE sha == IF origin = tab[t].build THEN NoBuild ELSE origin
<1>1. [tab[t] EXCEPT !.sha = sha] \in Page
  BY Blank DEF UpdateInv, UpdateTypeOK, Page
<1>2. tab' = [tab EXCEPT ![t].sha = sha]
  BY DEF Poll
<1>3. tab' \in [Tabs -> Page] /\ \A o \in Tabs : tab'[o].asks = tab[o].asks
  BY <1>1, <1>2 DEF UpdateInv, UpdateTypeOK, Page
<1> QED BY <1>3 DEF Poll, UpdateInv, UpdateTypeOK, AsksFit, Calm

LEMMA GiveUpStep == ASSUME UpdateInv, NEW t \in Tabs, GiveUp(t) PROVE UpdateInv' /\ Calm
<1>1. CASE UnregisterAndReload(t)
  <2>1. worker'.active = NoBuild /\ ~worker'.skip
    BY <1>1 DEF UnregisterAndReload, NoWorker
  <2> QED BY <1>1, <2>1, UnregistersAll DEF GiveUp, UpdateInv, UpdateTypeOK, Calm
<1>2. CASE PlainReload(t) /\ UNCHANGED worker
  BY <1>2, Reloads DEF GiveUp, UpdateInv, UpdateTypeOK, Calm
<1> QED BY <1>1, <1>2 DEF GiveUp

LEMMA HashChangeStep == ASSUME UpdateInv, NEW t \in Tabs, HashChange(t) PROVE UpdateInv' /\ Calm
<1>1. session' \in [Tabs -> Session]
  <2>1. session[t] \in Session /\ session \in [Tabs -> Session] /\ tab[t].sha \in Place \cup {Nameless}
    BY DEF UpdateInv, UpdateTypeOK, Page
  <2>2. session[t].autos + 1 \in 0..MaxReloads
    BY <2>1, UpdatesAssumption DEF HashChange, Session
  <2>3. [session[t] EXCEPT !.guard = tab[t].sha, !.autos = session[t].autos + 1] \in Session
    BY <2>1, <2>2 DEF Session
  <2>4. session' = [session EXCEPT ![t] = [session[t] EXCEPT !.guard = tab[t].sha,
                                                            !.autos = session[t].autos + 1]]
    BY DEF HashChange
  <2> QED BY <2>1, <2>3, <2>4
<1> QED BY <1>1, Leaving DEF HashChange, UpdateInv, UpdateTypeOK, Calm

LEMMA ClickStep == ASSUME UpdateInv, NEW t \in Tabs, Click(t) PROVE UpdateInv' /\ Calm
BY Leaving DEF Click, UpdateInv, UpdateTypeOK, Calm

LEMMA LazyChunkStep == ASSUME UpdateInv, NEW t \in Tabs, LazyChunk(t) PROVE UpdateInv' /\ Calm
<1> DEFINE doc == tab[t]
<1>1. CASE /\ Fetched(doc.build) /\ KeepsChunk(doc.ctl, doc.build, "lazy")
           /\ UNCHANGED <<worker, tab, session>>
  <2>1. doc.build \in Builds /\ doc.ctl \in Place
    BY <1>1 DEF Fetched, UpdateInv, UpdateTypeOK, Page
  <2> QED BY <1>1, <2>1, ChunkKept DEF LazyChunk, UpdateInv, UpdateTypeOK, AsksFit, Calm
<1>2. CASE session' = [session EXCEPT ![t].chunk = TRUE] /\ Leave(t) /\ UNCHANGED cache
  BY <1>2, Leaving, SessionKept DEF LazyChunk, UpdateInv, UpdateTypeOK, Calm
<1>3. CASE /\ tab' = [tab EXCEPT ![t].pc = "crashed"]
           /\ UNCHANGED <<worker, cache, session>>
  BY <1>3, Moves DEF LazyChunk, UpdateInv, UpdateTypeOK, Calm
<1> QED BY <1>1, <1>2, <1>3 DEF LazyChunk

LEMMA CrashScreenStep == ASSUME UpdateInv, NEW t \in Tabs, CrashScreen(t) PROVE UpdateInv' /\ Calm
<1>1. CASE Leave(t) /\ UNCHANGED cache
  BY <1>1, Leaving DEF CrashScreen, UpdateInv, UpdateTypeOK, Calm
<1>2. CASE Reset(t)
  BY <1>2, Resets DEF CrashScreen, UpdateInv, UpdateTypeOK
<1> QED BY <1>1, <1>2 DEF CrashScreen

LEMMA PanelSteps ==
  ASSUME UpdateInv, NEW t \in Tabs, PanelReload(t) \/ PanelReset(t)
  PROVE  UpdateInv' /\ Calm
<1>1. CASE PanelReload(t)
  BY <1>1, Reloads DEF PanelReload, UpdateInv, UpdateTypeOK, Calm
<1>2. CASE PanelReset(t)
  BY <1>2, Resets DEF PanelReset, UpdateInv, UpdateTypeOK
<1> QED BY <1>1, <1>2

LEMMA PersonSteps ==
  ASSUME UpdateInv, NEW t \in Tabs, Visit(t) \/ Close(t) \/ TryAgain(t)
  PROVE  UpdateInv' /\ Calm
<1>1. CASE Visit(t)
  <2>1. used' \in [deploys : 0..MaxDeploys, outages : 0..MaxOutages, visits : 0..MaxVisits]
    BY <1>1, UpdatesAssumption DEF Visit, UpdateInv, UpdateTypeOK
  <2> QED BY <1>1, <2>1, Reloads DEF Visit, UpdateInv, UpdateTypeOK, Calm
<1>2. CASE Close(t)
  <2>1. tab' \in [Tabs -> Page] /\ session' \in [Tabs -> Session]
    BY <1>2, Blank DEF Close, UpdateInv, UpdateTypeOK
  <2>2. AsksFit'
    BY <1>2, Blank DEF Close, UpdateInv, UpdateTypeOK, AsksFit
  <2> QED BY <1>2, <2>1, <2>2 DEF Close, UpdateInv, UpdateTypeOK, Calm
<1>3. CASE TryAgain(t)
  BY <1>3, Reloads DEF TryAgain, UpdateInv, UpdateTypeOK, Calm
<1> QED BY <1>1, <1>2, <1>3

LEMMA TimeStep == ASSUME UpdateInv, NEW t \in Tabs, TimePasses(t) PROVE UpdateInv' /\ Calm
<1>1. session[t] \in Session /\ session \in [Tabs -> Session]
  BY DEF UpdateInv, UpdateTypeOK
<1>2. 0 \in 0..MaxReloads
  BY UpdatesAssumption
<1>3. PICK now \in Session : session' = [session EXCEPT ![t] = now]
  <2>1. /\ [session[t] EXCEPT !.chunk = FALSE] \in Session
        /\ [session[t] EXCEPT !.recovered = FALSE] \in Session
    BY <1>1 DEF Session
  <2>2. [session[t] EXCEPT !.autos = 0] \in Session
    BY <1>1, <1>2 DEF Session
  <2>3. \/ session' = [session EXCEPT ![t] = [session[t] EXCEPT !.chunk = FALSE]]
        \/ session' = [session EXCEPT ![t] = [session[t] EXCEPT !.recovered = FALSE]]
        \/ session' = [session EXCEPT ![t] = [session[t] EXCEPT !.autos = 0]]
    BY DEF TimePasses
  <2> QED BY <2>1, <2>2, <2>3
<1>4. session' \in [Tabs -> Session]
  BY <1>1, <1>3
<1> QED BY <1>4 DEF TimePasses, UpdateInv, UpdateTypeOK, AsksFit, Calm

LEMMA AroundSteps == ASSUME UpdateInv, Around PROVE UpdateInv' /\ Calm
<1>1. CASE Deploy
  <2>1. used' \in [deploys : 0..MaxDeploys, outages : 0..MaxOutages, visits : 0..MaxVisits]
    BY <1>1, UpdatesAssumption DEF Deploy, UpdateInv, UpdateTypeOK
  <2> QED BY <1>1, <2>1 DEF Deploy, UpdateInv, UpdateTypeOK, AsksFit, Calm
<1>2. CASE NetworkGoes
  <2>1. used' \in [deploys : 0..MaxDeploys, outages : 0..MaxOutages, visits : 0..MaxVisits]
    BY <1>2, UpdatesAssumption DEF NetworkGoes, UpdateInv, UpdateTypeOK
  <2> QED BY <1>2, <2>1 DEF NetworkGoes, UpdateInv, UpdateTypeOK, AsksFit, Calm
<1>3. CASE NetworkReturns
  BY <1>3 DEF NetworkReturns, UpdateInv, UpdateTypeOK, AsksFit, Calm
<1> QED BY <1>1, <1>2, <1>3 DEF Around

LEMMA StartsUp == UpdateInit => UpdateInv
<1> SUFFICES ASSUME UpdateInit PROVE UpdateInv
  OBVIOUS
<1>1. origin \in Builds /\ worker \in Worker /\ cache \in [Builds -> Contents]
      /\ tab \in [Tabs -> Page] /\ session \in [Tabs -> Session]
  BY Blank DEF UpdateInit
<1>4. network \in [on : BOOLEAN, room : BOOLEAN]
  BY DEF UpdateInit
<1>2. used \in [deploys : 0..MaxDeploys, outages : 0..MaxOutages, visits : 0..MaxVisits]
  BY UpdatesAssumption DEF UpdateInit
<1>3. AsksFit
  BY Blank DEF UpdateInit, AsksFit
<1> QED BY <1>1, <1>2, <1>3, <1>4 DEF UpdateInv, UpdateTypeOK

LEMMA Steps == UpdateInv /\ [UpdateNext]_updateVars => UpdateInv' /\ (Calm \/ UNCHANGED updateVars)
<1> SUFFICES ASSUME UpdateInv, [UpdateNext]_updateVars PROVE UpdateInv' /\ (Calm \/ UNCHANGED updateVars)
  OBVIOUS
<1>1. CASE WorkerStep
  BY <1>1, CheckStep, FetchShellStep, InstallStep, TakeOverStep DEF WorkerStep
<1>2. CASE Around
  BY <1>2, AroundSteps
<1>3. ASSUME NEW t \in Tabs, PageStep(t) PROVE UpdateInv' /\ Calm
  BY <1>3, LoadStep, BootStep, RegisterStep, AnswerStep, PollStep, GiveUpStep DEF PageStep
<1>4. ASSUME NEW t \in Tabs, PersonStep(t) PROVE UpdateInv' /\ Calm
  BY <1>4, ClickStep, HashChangeStep, LazyChunkStep, CrashScreenStep, PanelSteps, PersonSteps
     DEF PersonStep
<1>5. ASSUME NEW t \in Tabs, TimePasses(t) PROVE UpdateInv' /\ Calm
  BY <1>5, TimeStep
<1>6. CASE UNCHANGED updateVars
  BY <1>6 DEF updateVars, UpdateInv, UpdateTypeOK, AsksFit
<1> QED BY <1>1, <1>2, <1>3, <1>4, <1>5, <1>6 DEF UpdateNext

\* Types, and that an asked worker taken to be waiting still waits (register.ts).
THEOREM UpdateTypes == UpdateSpec => []UpdateInv
BY StartsUp, Steps, PTL DEF UpdateSpec

\* Undisturbed, for any number of tabs and builds: no takeover of a worker takes a page away
\* that has not decided to go, and none is asked for on another's behalf.
THEOREM NobodyDisturbed == UpdateSpec => Undisturbed
<1>1. UpdateInv /\ [UpdateNext]_updateVars => [Calm]_updateVars
  BY Steps
<1> QED BY StartsUp, Steps, <1>1, PTL DEF UpdateSpec, Undisturbed
=============================================================================
