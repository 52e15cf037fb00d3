------------------------------ MODULE Guidance ------------------------------
(* State that follows the account, not the browser: the setup wizard's record,   *)
(* the tours finished and whether the Getting started card is hidden.  Several     *)
(* pages of one account read it once, keep a copy, and write to it through         *)
(* PUT /api/account/state/:key, which merges, stores only over what it read, and    *)
(* tries again; a decision is kept in the browser until the account has it.         *)
EXTENDS Naturals, FiniteSets

CONSTANTS Browsers,  \* the account's browsers, one page in each
          Req,       \* writes under way at once
          MaxStep,   \* the wizard's steps, 1..MaxStep in order
          Tours,     \* tour ids
          Attempts,  \* WRITE_ATTEMPTS
          MaxFaults  \* bound on lost requests and answers, and on pages ended in the middle

ASSUME GuidanceAssumption ==
  /\ MaxStep \in Nat /\ Attempts \in Nat /\ MaxFaults \in Nat
  /\ IsFiniteSet(Req) /\ IsFiniteSet(Browsers)

VARIABLES row,     \* user_state: [Keys -> Value]
          req,     \* [Req -> a write under way]
          page,    \* [Browsers -> the page's copy, and how far its start is]
          flag,    \* [Browsers -> the decision the browser keeps; outlives the page]
          faults,
          made,    \* history: the decisions each browser's wizard was left with
          kept     \* history: what the Worker has answered that it holds

guideVars == <<row, req, page, flag, faults, made, kept>>

Keys == {"onboarding", "tours", "getting_started"}
Decisions == {"completed", "skipped"}
Undecided == "undecided"
\* One shape for the three values, each using its own fields; not there: no row.
Value == [there : BOOLEAN, step : 0..MaxStep, outcome : Decisions \cup {Undecided},
          hidden : BOOLEAN, seen : SUBSET Tours]
Nothing == [there |-> FALSE, step |-> 0, outcome |-> Undecided, hidden |-> FALSE, seen |-> {}]
None == [k \in Keys |-> Nothing]
Finished(value) == value.outcome # Undecided
Further(a, b) == IF b > a THEN b ELSE a
-----------------------------------------------------------------------------
(* The Worker's merge                                                          *)

\* Mutant: a finished record takes another decision.
MergeOver(key, body, reset, cur) ==
  CASE key = "onboarding" ->
         [cur EXCEPT !.there = TRUE, !.step = Further(@, body.step),
                     !.outcome = IF body.outcome = Undecided THEN @ ELSE body.outcome]
    [] key = "tours" ->
         [cur EXCEPT !.there = TRUE, !.seen = (IF reset THEN {} ELSE @) \cup body.seen]
    [] OTHER -> [cur EXCEPT !.there = TRUE, !.hidden = @ \/ body.hidden]

\* checkUserStateWrite: finished stays finished and the step only moves forward; a tour
\* is added, unless the list is reset; hidden is for good.
Merge(key, body, reset, cur) ==
  CASE key = "onboarding" /\ Finished(cur) -> cur
    [] key = "onboarding" /\ ~Finished(cur) ->
         [cur EXCEPT !.there = TRUE, !.step = Further(@, body.step), !.outcome = body.outcome]
    [] key = "tours" ->
         [cur EXCEPT !.there = TRUE, !.seen = (IF reset THEN {} ELSE @) \cup body.seen]
    [] OTHER -> [cur EXCEPT !.there = TRUE, !.hidden = @ \/ body.hidden]

\* to: the page that waits for the answer, none once it has ended or given up.
Free == [pc |-> "free", to |-> {}, key |-> "onboarding", body |-> Nothing, reset |-> FALSE,
         tries |-> 0, was |-> Nothing, now |-> Nothing]
Asked(b, key, body, reset) ==
  [Free EXCEPT !.pc = "read", !.to = {b}, !.key = key, !.body = body, !.reset = reset]
At(q, pc) == req[q].pc = pc
Go(q, pc) == req' = [req EXCEPT ![q].pc = pc]

\* What the Worker has answered: the first decision and the step it was made at stand,
\* whatever it answers later, and a reset starts the tours over.
Answered(q, value) ==
  kept' = [kept EXCEPT ![req[q].key] =
    [there |-> TRUE,
     step |-> IF Finished(@) THEN @.step ELSE Further(@.step, value.step),
     outcome |-> IF Finished(@) THEN @.outcome ELSE value.outcome,
     hidden |-> @.hidden \/ value.hidden,
     seen |-> IF req[q].reset THEN value.seen ELSE @.seen \cup value.seen]]

\* The row is read and merged; nothing changed is answered at once.
Read(q) ==
  LET key == req[q].key
      now == Merge(key, req[q].body, req[q].reset, row[key])
  IN  /\ At(q, "read")
      /\ IF now = row[key]
         THEN req' = [req EXCEPT ![q].pc = "answer", ![q].now = now] /\ Answered(q, now)
         ELSE /\ req' = [req EXCEPT ![q].pc = "write", ![q].was = row[key], ![q].now = now]
              /\ UNCHANGED kept
      /\ UNCHANGED <<row, page, flag, faults, made>>

\* Mutant: the merge is stored whatever the row holds by now.
WriteBlind(q) ==
  /\ At(q, "write")
  /\ row' = [row EXCEPT ![req[q].key] = req[q].now]
  /\ Go(q, "answer") /\ Answered(q, req[q].now)
  /\ UNCHANGED <<page, flag, faults, made>>

\* UPDATE ... AND value = ?, or INSERT OR IGNORE; another write in between is read again,
\* and the third time refused (503).
Write(q) ==
  LET key == req[q].key
  IN  /\ At(q, "write")
      /\ IF row[key] = req[q].was
         THEN row' = [row EXCEPT ![key] = req[q].now] /\ Go(q, "answer") /\ Answered(q, req[q].now)
         ELSE /\ req' = [req EXCEPT ![q].tries = @ + 1,
                                    ![q].pc = IF req[q].tries + 1 < Attempts
                                              THEN "read" ELSE "refused"]
              /\ UNCHANGED <<row, kept>>
      /\ UNCHANGED <<page, flag, faults, made>>
-----------------------------------------------------------------------------
(* A page                                                                      *)

NewPage == [pc |-> "asked", start |-> TRUE, known |-> FALSE, copy |-> None, sent |-> 0]
InPage(b, pc) == page[b].pc = pc
Known(b) == page[b].known
Put(b, rec) == page' = [page EXCEPT ![b] = rec]
Quiet(b) == InPage(b, "open") /\ \A q \in Req : b \notin req[q].to

\* The page ends, and the next start reads again; what it had sent goes on unheard, and
\* the browser keeps its flag.
Reload(b) ==
  /\ page' = [page EXCEPT ![b] = NewPage]
  /\ req' = [q \in Req |-> [req[q] EXCEPT !.to = @ \ {b}]]
  /\ UNCHANGED <<row, flag, made, kept>>
Reopen(b) == Quiet(b) /\ Reload(b) /\ UNCHANGED faults
Crash(b) == ~Quiet(b) /\ faults < MaxFaults /\ Reload(b) /\ faults' = faults + 1

\* readAccountState after one that failed: the next reader asks again.
Ask(b) ==
  /\ InPage(b, "open") /\ ~Known(b)
  /\ Put(b, [page[b] EXCEPT !.pc = "asked"])
  /\ UNCHANGED <<row, req, flag, faults, made, kept>>
\* GET /api/account/state.
Serve(b) ==
  /\ InPage(b, "asked")
  /\ Put(b, [page[b] EXCEPT !.pc = "served", !.copy = row])
  /\ UNCHANGED <<row, req, flag, faults, made, kept>>
Arrive(b) ==
  /\ InPage(b, "served")
  /\ Put(b, [page[b] EXCEPT !.pc = IF page[b].start THEN "offer" ELSE "open", !.known = TRUE])
  /\ UNCHANGED <<row, req, flag, faults, made, kept>>
\* A read that fails leaves the copy unknown, and the start offers nothing on it.
ReadFails(b) ==
  /\ InPage(b, "asked") \/ InPage(b, "served")
  /\ faults < MaxFaults
  /\ Put(b, [page[b] EXCEPT !.pc = "open", !.start = FALSE, !.copy = None])
  /\ faults' = faults + 1
  /\ UNCHANGED <<row, req, flag, made, kept>>

Forget(b) == flag' = [flag EXCEPT ![b] = Undecided]
Send(q, b, key, body) == req' = [req EXCEPT ![q] = Asked(b, key, body, FALSE)]

\* Mutant: a decision kept from before closes the wizard, and that is all.
OfferUnsent(b) ==
  /\ InPage(b, "offer")
  /\ Put(b, [page[b] EXCEPT !.pc = "open", !.start = FALSE])
  /\ IF Finished(page[b].copy["onboarding"]) THEN Forget(b) ELSE UNCHANGED flag
  /\ UNCHANGED <<row, req, faults, made, kept>>

\* whereToOfferOnTheAccount: the account's finish settles the flag; a decision the
\* account has not got yet is sent again; otherwise the wizard may open.
Offer(b) ==
  /\ InPage(b, "offer")
  /\ Put(b, [page[b] EXCEPT !.pc = "open", !.start = FALSE])
  /\ \/ Finished(page[b].copy["onboarding"]) /\ Forget(b) /\ UNCHANGED req
     \/ /\ ~Finished(page[b].copy["onboarding"]) /\ flag[b] # Undecided
        /\ \E q \in Req : At(q, "free") /\ Send(q, b, "onboarding", [Nothing EXCEPT !.outcome = flag[b]])
        /\ UNCHANGED flag
     \/ /\ ~Finished(page[b].copy["onboarding"]) /\ flag[b] = Undecided
        /\ UNCHANGED <<req, flag>>
  /\ UNCHANGED <<row, faults, made, kept>>

\* recordStep: a step further than the copy holds or the page has sent.
RecordStep(b, q, step) ==
  LET record == page[b].copy["onboarding"]
  IN  /\ Known(b) /\ ~Finished(record) /\ step > Further(record.step, page[b].sent)
      /\ At(q, "free")
      /\ Send(q, b, "onboarding", [Nothing EXCEPT !.step = step])
      /\ Put(b, [page[b] EXCEPT !.sent = step])
      /\ UNCHANGED <<row, flag, faults, made, kept>>

\* decide: the wizard left, at whichever step it shows.  The first decision also makes
\* the card, when the copy knows of none.
CardToo(b) == Known(b) /\ ~page[b].copy["getting_started"].there
Decide(b, q, q2, outcome, step) ==
  /\ ~(Known(b) /\ Finished(page[b].copy["onboarding"]))
  /\ q # q2 /\ At(q, "free") /\ (CardToo(b) => At(q2, "free"))
  /\ LET body == [Nothing EXCEPT !.step = step, !.outcome = outcome]
         with == [req EXCEPT ![q] = Asked(b, "onboarding", body, FALSE)]
     IN  req' = IF CardToo(b)
                THEN [with EXCEPT ![q2] = Asked(b, "getting_started", Nothing, FALSE)] ELSE with
  /\ flag' = [flag EXCEPT ![b] = outcome]
  /\ made' = [made EXCEPT ![b] = TRUE]
  /\ UNCHANGED <<row, page, faults, kept>>

\* hideGettingStarted, on a card the copy shows.
Hide(b, q) ==
  /\ Known(b) /\ page[b].copy["getting_started"].there /\ ~page[b].copy["getting_started"].hidden
  /\ At(q, "free")
  /\ Send(q, b, "getting_started", [Nothing EXCEPT !.hidden = TRUE])
  /\ UNCHANGED <<row, page, flag, faults, made, kept>>

\* markToursFinished and resetAllTours: the page's tour writes go one after the other.
ToursAlone(b) == \A q \in Req : b \in req[q].to => req[q].key # "tours"
TourDone(b, q, tour) ==
  /\ Known(b) /\ tour \notin page[b].copy["tours"].seen /\ ToursAlone(b)
  /\ At(q, "free")
  /\ Send(q, b, "tours", [Nothing EXCEPT !.seen = {tour}])
  /\ UNCHANGED <<row, page, flag, faults, made, kept>>
ResetTours(b, q) ==
  /\ InPage(b, "open") /\ ToursAlone(b) /\ At(q, "free")
  /\ req' = [req EXCEPT ![q] = Asked(b, "tours", Nothing, TRUE)]
  /\ UNCHANGED <<row, page, flag, faults, made, kept>>
-----------------------------------------------------------------------------
(* The answer                                                                  *)

IsDecision(q) == req[q].key = "onboarding" /\ Finished(req[q].body)
IsStep(q) == req[q].key = "onboarding" /\ ~Finished(req[q].body)
Forgotten(q) == flag' = [b \in Browsers |-> IF b \in req[q].to THEN Undecided ELSE flag[b]]
Kept(q) ==
  page' = [b \in Browsers |-> IF b \in req[q].to /\ Known(b)
                              THEN [page[b] EXCEPT !.copy[req[q].key] = req[q].now] ELSE page[b]]
Ends(q) == req' = [req EXCEPT ![q] = Free]

\* Mutant: a decision's flag goes whatever came of it.
RefusedForgets(q) ==
  /\ At(q, "refused")
  /\ IF IsDecision(q) THEN Forgotten(q) ELSE UNCHANGED flag
  /\ Ends(q)
  /\ UNCHANGED <<row, page, faults, made, kept>>

\* writeAccountState resolves: the value answered replaces the copy's, and a decision the
\* record has takes the flag with it.  Answers come in any order.
Settle(q) ==
  /\ At(q, "answer")
  /\ Kept(q)
  /\ IF IsDecision(q) /\ Finished(req[q].now) THEN Forgotten(q) ELSE UNCHANGED flag
  /\ Ends(q)
  /\ UNCHANGED <<row, faults, made, kept>>

\* It rejects: a step may be sent again, a decision stays in the flag.
Unsent(q) ==
  page' = [b \in Browsers |-> IF b \in req[q].to /\ IsStep(q)
                              THEN [page[b] EXCEPT !.sent = 0] ELSE page[b]]
Refused(q) ==
  /\ At(q, "refused")
  /\ Unsent(q)
  /\ Ends(q)
  /\ UNCHANGED <<row, flag, faults, made, kept>>
\* The connection breaks: the page hears a failure, and the Worker, if it got the
\* request at all, goes on.
Lose(q) ==
  /\ ~At(q, "free") /\ req[q].to # {} /\ faults < MaxFaults
  /\ Unsent(q)
  /\ \/ req' = [req EXCEPT ![q].to = {}]
     \/ At(q, "read") /\ req[q].tries = 0 /\ Ends(q)
  /\ faults' = faults + 1
  /\ UNCHANGED <<row, flag, made, kept>>
-----------------------------------------------------------------------------
Init ==
  /\ row = None /\ req = [q \in Req |-> Free]
  /\ page = [b \in Browsers |-> NewPage]
  /\ flag = [b \in Browsers |-> Undecided] /\ faults = 0
  /\ made = [b \in Browsers |-> FALSE] /\ kept = None

Starts(b) == Reopen(b) \/ Crash(b) \/ Ask(b) \/ Serve(b) \/ Arrive(b) \/ ReadFails(b) \/ Offer(b)
Acts(b, q) ==
  \/ \E step \in 1..MaxStep : RecordStep(b, q, step)
  \/ \E q2 \in Req, outcome \in Decisions, step \in 1..MaxStep : Decide(b, q, q2, outcome, step)
  \/ Hide(b, q) \/ ResetTours(b, q) \/ \E tour \in Tours : TourDone(b, q, tour)
Handles(q) == Read(q) \/ Write(q) \/ Settle(q) \/ Refused(q) \/ Lose(q)
Next ==
  \/ \E b \in Browsers : Starts(b) \/ \E q \in Req : Acts(b, q)
  \/ \E q \in Req : Handles(q)
Spec == Init /\ [][Next]_guideVars

\* The Worker serves what it was asked and its answers arrive; the person opens the app
\* again some day after what it was doing has settled.
Fairness ==
  /\ \A q \in Req : WF_guideVars(Read(q)) /\ WF_guideVars(Write(q))
                    /\ WF_guideVars(Settle(q)) /\ WF_guideVars(Refused(q))
  /\ \A b \in Browsers : WF_guideVars(Serve(b)) /\ WF_guideVars(Arrive(b))
                         /\ WF_guideVars(Offer(b)) /\ SF_guideVars(Reopen(b))
-----------------------------------------------------------------------------
(* Properties                                                                  *)

Copy == [Keys -> Value]
ReqType ==
  [pc : {"free", "read", "write", "answer", "refused"}, to : SUBSET Browsers,
   key : Keys, body : Value, reset : BOOLEAN, tries : Nat, was : Value, now : Value]
PageType ==
  [pc : {"asked", "served", "offer", "open"}, start : BOOLEAN, known : BOOLEAN, copy : Copy,
   sent : 0..MaxStep]

\* Every row, write and page holds values of its kind.
TypeOK ==
  /\ row \in Copy /\ kept \in Copy
  /\ req \in [Req -> ReqType] /\ page \in [Browsers -> PageType]
  /\ flag \in [Browsers -> Decisions \cup {Undecided}]
  /\ made \in [Browsers -> BOOLEAN] /\ faults \in Nat

\* What the Worker has answered that it holds, it holds: the furthest step, the first
\* decision and the step it was made at, a hidden card and every tour since the last
\* reset, whichever writes raced.
AnsweredKept ==
  /\ kept["onboarding"].step <= row["onboarding"].step
  /\ Finished(kept["onboarding"]) =>
       /\ row["onboarding"].outcome = kept["onboarding"].outcome
       /\ row["onboarding"].step = kept["onboarding"].step
  /\ kept["getting_started"].hidden => row["getting_started"].hidden
  /\ kept["tours"].seen \subseteq row["tours"].seen

\* Until the Worker has it, the browser keeps the decision: a page closed, a write lost
\* or refused never forgets it.
DecisionNotLost ==
  \A b \in Browsers : made[b] => Finished(row["onboarding"]) \/ flag[b] # Undecided

\* A finished record is never rewritten, and a hidden card never comes back, by a page
\* whose copy is older.
DecidedForGood ==
  [][/\ Finished(row["onboarding"]) => row'["onboarding"] = row["onboarding"]
     /\ row["getting_started"].hidden => row'["getting_started"].hidden]_guideVars

\* A decision made in any browser ends up on the account.
DecisionArrives == \A b \in Browsers : made[b] ~> Finished(row["onboarding"])
=============================================================================
