------------------------------ MODULE Billing ------------------------------
(***************************************************************************)
(* worker/src/routes/billing.ts: the webhook that keeps the billing        *)
(* columns of a users row in step with Stripe, and POST /billing/checkout. *)
(* One account.  Every await of a handler is a step boundary: other        *)
(* deliveries, other checkouts and Stripe itself run in between.           *)
(***************************************************************************)
EXTENDS Stripe

CONSTANTS Handlers,     \* webhook invocations in progress at once
          Checkouts,    \* calls of POST /api/billing/checkout
          Free, NoPick,
          MaxCrashes    \* bound: invocations that die half way

ASSUME BillingAssumption == MaxCrashes \in Nat /\ Free \notin Tiers

VARIABLES users,     \* the billing columns of the account's row
          ledger,    \* ids in stripe_events
          job,       \* [Handlers -> the invocation's local state]
          checkout,  \* [Checkouts -> the request and the session it opened]
          mails,     \* "subscription ended" mails sent (history)
          ended,     \* subscriptions whose deletion the webhook handled (history)
          begun,     \* how many invocations got past the ledger with an event (history)
          crashes

billingVars == <<users, ledger, job, mails, ended, begun, crashes, world>>
vars == <<stripeVars, billingVars, checkout>>

NoDate == 0
Plans == Tiers \cup {Free}

Row == [customer : Customers \cup {NoCust}, sub : Subs \cup {NoSub}, plan : Plans,
        status : Statuses \cup {"none"}, renews : 0..MaxPeriod, cancel : BOOLEAN,
        eventAt : 0..MaxEvents]

\* A LiveSub: what the handler keeps of a subscription it looked up.
LiveSub == [sub : Subs, tier : Tiers, status : Statuses, cancel : BOOLEAN, period : 0..MaxPeriod]

\* "Nothing picked" is not a subscription.
ASSUME PickAssumption == NoPick \notin LiveSub

Phases == {"link", "fillLookup", "fill", "apply", "stray", "account", "endLookup", "end", "mail"}
Idle == [pc |-> "idle"]
Job == {Idle} \cup
       [pc : Phases, ev : Event, pick : LiveSub \cup {NoPick},
        sure : BOOLEAN,                  \* the lookup succeeded (used by properties only)
        plan : Plans \cup {NoPick}]      \* what accountFor read

IsIdle(h) == job[h].pc = "idle"
At(h, pc) == job[h].pc = pc
Ev(h) == job[h].ev

Init ==
  /\ StripeInit
  /\ users = [customer |-> NoCust, sub |-> NoSub, plan |-> Free, status |-> "none",
              renews |-> NoDate, cancel |-> FALSE, eventAt |-> 0]
  /\ ledger = {} /\ mails = {} /\ ended = {} /\ crashes = 0
  /\ begun = [i \in 1..MaxEvents |-> 0]
  /\ job = [h \in Handlers |-> Idle]
  /\ checkout \in [Checkouts -> {[pc |-> "idle", cust |-> NoCust, sub |-> NoSub, tier |-> t,
                                  resuming |-> FALSE] : t \in Tiers}]

-----------------------------------------------------------------------------
(* The webhook.                                                            *)

\* Answer 200 and forget.
Ack(h) ==
  /\ job' = [job EXCEPT ![h] = Idle]
  /\ outbox' = outbox \ {Ev(h)}

Goto(h, pc) == job' = [job EXCEPT ![h].pc = pc] /\ UNCHANGED outbox

\* Mutants: a non-entitling update taken for an entitling one; the session event ignored.
BranchIgnoresStatus(e) == CASE e.type = "session" -> "link"
                            [] e.type = "updated" -> "apply"
                            [] OTHER -> "stray"
BranchDropsSession(e) == IF e.type = "deleted" THEN "stray" ELSE "apply"

\* Where the switch on event.type goes first.
Branch(e) == CASE e.type = "session" -> "link"
               [] e.type = "updated" /\ e.status \in ENTITLED_STATUSES -> "apply"
               [] OTHER -> "stray"

\* Mutant: only an event that is being handled right now counts as a redelivery.
DuplicateInProgress(e) == \E h \in Handlers : ~IsIdle(h) /\ Ev(h).id = e.id

\* ON CONFLICT(id) DO NOTHING changed no row: a redelivery.
Duplicate(e) == e.id \in ledger

\* The ledger insert: one statement, and the id decides everything after it.  A delivery of
\* an event that was answered with 200 before finds its id and changes nothing: it is no step.
Receive(h, e) ==
  /\ IsIdle(h) /\ e \in outbox
  /\ world.alone => \A g \in Handlers : IsIdle(g)
  /\ world.inOrder => \A f \in outbox : e.id <= f.id
  /\ IF Duplicate(e)
       THEN outbox' = outbox \ {e} /\ UNCHANGED <<job, ledger, begun>>
       ELSE /\ ledger' = ledger \cup {e.id}
            /\ begun' = [begun EXCEPT ![e.id] = @ + 1]
            /\ job' = [job EXCEPT ![h] = [pc |-> Branch(e), ev |-> e, pick |-> NoPick,
                                          sure |-> FALSE, plan |-> NoPick]]
            /\ UNCHANGED outbox
  /\ UNCHANGED <<subscription, clock, emitted, users, mails, ended, crashes, checkout, world>>

\* Mutant: no ordering guard.
MatchesUnordered(e) == users.customer = e.cust

\* The ordering guard of applySubscription.
Matches(e) == users.customer = e.cust /\ e.created >= users.eventAt

\* applySubscription: the row as the event's subscription says, and the watermark.
Applied(e, sub, plan, status, renews, cancel) ==
  IF Matches(e)
    THEN [users EXCEPT !.sub = sub, !.plan = plan, !.status = status, !.renews = renews,
                       !.cancel = cancel, !.eventAt = e.created]
    ELSE users

Frame == UNCHANGED <<subscription, clock, emitted, ledger, begun, crashes, checkout, world>>

\* checkout.session.completed links the customer; it has no ordering guard.
Linked(e) ==
  [users EXCEPT !.customer = e.cust, !.sub = e.sub, !.plan = e.tier, !.status = "active",
                !.cancel = FALSE, !.eventAt = IF @ >= e.created THEN @ ELSE e.created]

Link(h) ==
  /\ At(h, "link")
  /\ users' = Linked(Ev(h))
  /\ Goto(h, "fillLookup")
  /\ UNCHANGED <<mails, ended>> /\ Frame

\* Mutant: a failed lookup is never answered.
LookupHangs(c) == {[sure |-> TRUE, live |-> LiveOf(c)] : x \in IF world.faults THEN {} ELSE {0}}

\* liveSubscriptions(...).catch(() => []): the set Stripe answers now, or nothing.
Lookup(c) == {[sure |-> TRUE, live |-> LiveOf(c)]} \cup
             (IF world.faults THEN {[sure |-> FALSE, live |-> {}]} ELSE {})

Snapshot(s) == [sub |-> s, tier |-> subscription[s].tier, status |-> subscription[s].status,
                cancel |-> subscription[s].cancelAtPeriodEnd, period |-> subscription[s].period]

\* The subscription the session bought, or the only live one.
Bought(e, live) == IF e.sub \in live THEN {e.sub}
                   ELSE IF Cardinality(live) = 1 THEN live ELSE {}

FillLookup(h) ==
  /\ At(h, "fillLookup")
  /\ \E l \in Lookup(Ev(h).cust) :
       \/ Bought(Ev(h), l.live) = {} /\ Ack(h)
       \/ \E s \in Bought(Ev(h), l.live) :
            /\ job' = [job EXCEPT ![h].pc = "fill", ![h].sure = l.sure, ![h].pick = Snapshot(s)]
            /\ UNCHANGED outbox
  /\ UNCHANGED <<users, mails, ended>> /\ Frame

\* COALESCE with the column first: fills holes, never overwrites, no guard.
Fill(h) ==
  /\ At(h, "fill")
  /\ users' = [users EXCEPT !.renews = IF @ = NoDate THEN job[h].pick.period ELSE @,
                            !.sub = IF @ = NoSub THEN job[h].pick.sub ELSE @]
  /\ Ack(h)
  /\ UNCHANGED <<mails, ended>> /\ Frame

\* An entitled created/updated event is always applied: it adopts its subscription.
Apply(h) ==
  /\ At(h, "apply")
  /\ LET e == Ev(h) IN users' = Applied(e, e.sub, e.tier, e.status, e.period, e.cancel)
  /\ Ack(h)
  /\ UNCHANGED <<mails, ended>> /\ Frame

\* History: the deletion of a subscription of the linked customer was handled.
NoteEnded(e) ==
  ended' = IF e.type = "deleted" /\ users.customer = e.cust THEN ended \cup {e.sub} ELSE ended

\* isStraySubscription: the account tracks another subscription.
IsStray(e) == users.customer = e.cust /\ users.sub \notin {NoSub, e.sub}

StrayCheck(h) ==
  /\ At(h, "stray")
  /\ IF IsStray(Ev(h)) THEN Ack(h) /\ NoteEnded(Ev(h))
     ELSE /\ Goto(h, IF Ev(h).type = "deleted" THEN "account" ELSE "endLookup")
          /\ UNCHANGED ended
  /\ UNCHANGED <<users, mails>> /\ Frame

\* accountFor: the plan the mail will name, read before the update.
ReadAccount(h) ==
  /\ At(h, "account")
  /\ job' = [job EXCEPT ![h].pc = "endLookup",
                        ![h].plan = IF users.customer = Ev(h).cust THEN users.plan ELSE NoPick]
  /\ UNCHANGED <<users, outbox, mails, ended>> /\ Frame

\* endSubscription, first half: what else is still live.
\* Mutant: nothing looked up, as before the lookup existed.
RemainingNone(e, live) == {}

\* What is left without the subscription that ended.
Remaining(e, live) == live \ {e.sub}

EndLookup(h) ==
  /\ At(h, "endLookup")
  /\ \E l \in Lookup(Ev(h).cust) :
     \E keep \in IF Remaining(Ev(h), l.live) = {} THEN {NoPick}
                 ELSE {Snapshot(s) : s \in Newest(Remaining(Ev(h), l.live))} :
       job' = [job EXCEPT ![h].pc = "end", ![h].sure = l.sure, ![h].pick = keep]
  /\ UNCHANGED <<users, outbox, mails, ended>> /\ Frame

\* Mutant: the tracked subscription kept on a free row.
EndedKeepsSub(e, keep) ==
  IF keep = NoPick THEN Applied(e, e.sub, Free, e.status, NoDate, FALSE)
  ELSE Applied(e, keep.sub, keep.tier, keep.status, keep.period, keep.cancel)

\* endSubscription, second half: onto what is left, or off the plan entirely.
Ended(e, keep) ==
  IF keep = NoPick THEN Applied(e, NoSub, Free, e.status, NoDate, FALSE)
  ELSE Applied(e, keep.sub, keep.tier, keep.status, keep.period, keep.cancel)

EndWrite(h) ==
  /\ At(h, "end")
  /\ LET e == Ev(h)
         keep == job[h].pick IN
     /\ users' = Ended(e, keep)
     /\ NoteEnded(e)
     /\ IF e.type = "deleted" /\ Matches(e) /\ keep = NoPick /\ job[h].plan # NoPick
          THEN Goto(h, "mail")
          ELSE Ack(h)
  /\ UNCHANGED mails /\ Frame

\* notify: best effort, it never breaks the webhook.
Notify(h) ==
  /\ At(h, "mail")
  /\ mails' \in {mails \cup {[event |-> Ev(h).id, plan |-> job[h].plan]}} \cup
                (IF world.faults THEN {mails} ELSE {})
  /\ Ack(h)
  /\ UNCHANGED <<users, ended>> /\ Frame

\* The invocation dies, or a statement throws: no acknowledgement, Stripe will retry.
Crash(h) ==
  /\ ~IsIdle(h) /\ crashes < MaxCrashes
  /\ crashes' = crashes + 1
  /\ job' = [job EXCEPT ![h] = Idle]
  /\ UNCHANGED <<stripeVars, users, ledger, mails, ended, begun, checkout, world>>

HandlerStep(h) ==
  \/ \E e \in outbox : Receive(h, e)
  \/ Link(h) \/ FillLookup(h) \/ Fill(h) \/ Apply(h)
  \/ StrayCheck(h) \/ ReadAccount(h) \/ EndLookup(h) \/ EndWrite(h) \/ Notify(h)

-----------------------------------------------------------------------------
(* POST /api/billing/checkout, and the page Stripe shows for a session.    *)

\* The row is read first: the customer, and the subscription it tracks.
CheckoutRead(k, t) ==
  /\ checkout[k].pc = "idle"
  /\ ~world.overlap => \A j \in Checkouts : checkout[j].pc \in {"idle", "done"}
  /\ checkout' = [checkout EXCEPT ![k] = [pc |-> "look", cust |-> users.customer,
                                          sub |-> users.sub, tier |-> t, resuming |-> FALSE]]
  /\ UNCHANGED <<stripeVars, billingVars>>

\* The subscription a switch moves: the tracked one, else the newest.
Current(k) == LET live == LiveOf(checkout[k].cust) IN
              IF checkout[k].sub \in live THEN {checkout[k].sub} ELSE Newest(live)

CheckoutLook(k) ==
  /\ checkout[k].pc = "look"
  /\ \/ /\ LiveOf(checkout[k].cust) = {}
        /\ checkout' = [checkout EXCEPT ![k].pc = "buy"]
     \/ \E s \in Current(k) :
          LET resuming == subscription[s].cancelAtPeriodEnd IN
          checkout' = IF subscription[s].tier = checkout[k].tier /\ ~resuming
                        THEN [checkout EXCEPT ![k].pc = "done"]
                        ELSE [checkout EXCEPT ![k].pc = "move", ![k].sub = s,
                                              ![k].resuming = resuming]
  /\ UNCHANGED <<stripeVars, billingVars>>

\* A failed call to Stripe fails the request: nothing is created.
CheckoutFails(k) ==
  /\ world.faults /\ checkout[k].pc \in {"move", "buy"} \cup
                 (IF checkout[k].cust = NoCust THEN {} ELSE {"look"})
  /\ checkout' = [checkout EXCEPT ![k].pc = "done"]
  /\ UNCHANGED <<stripeVars, billingVars>>

\* The existing subscription moves onto the new Price; Stripe refuses a canceled one.
CheckoutMove(k) ==
  /\ checkout[k].pc = "move"
  /\ LET s == checkout[k].sub IN
     IF subscription[s].status = "canceled" THEN UNCHANGED stripeVars
     ELSE Change(s, [subscription[s] EXCEPT !.tier = checkout[k].tier,
                       !.cancelAtPeriodEnd = @ /\ ~checkout[k].resuming])
  /\ checkout' = [checkout EXCEPT ![k].pc = "done"]
  /\ UNCHANGED billingVars

CheckoutBuy(k) ==
  /\ checkout[k].pc = "buy"
  /\ checkout' = [checkout EXCEPT ![k].pc = "open"]
  /\ UNCHANGED <<stripeVars, billingVars>>

\* External.  The session is paid: Stripe creates the subscription, for the attached
\* customer or for a new one, and then reports the session itself.
SessionPaid(k) ==
  /\ checkout[k].pc = "open"
  /\ \E s \in Subs, c \in Customers :
       /\ IF checkout[k].cust = NoCust
            THEN \A r \in Subs : subscription[r].cust # c
            ELSE c = checkout[k].cust
       /\ Create(s, c, checkout[k].tier)
       /\ checkout' = [checkout EXCEPT ![k].pc = "paid", ![k].cust = c, ![k].sub = s]
  /\ UNCHANGED billingVars

SessionReported(k) ==
  /\ checkout[k].pc = "paid"
  /\ Emit("session", checkout[k].sub,
          [subscription[checkout[k].sub] EXCEPT !.tier = checkout[k].tier, !.status = "active"])
  /\ checkout' = [checkout EXCEPT ![k].pc = "done"]
  /\ UNCHANGED <<subscription, billingVars>>

SessionExpires(k) ==
  /\ checkout[k].pc = "open"
  /\ checkout' = [checkout EXCEPT ![k].pc = "done"]
  /\ UNCHANGED <<stripeVars, billingVars>>

CheckoutStep(k) ==
  \/ \E t \in Tiers : CheckoutRead(k, t)
  \/ CheckoutLook(k) \/ CheckoutFails(k) \/ CheckoutMove(k) \/ CheckoutBuy(k)
  \/ SessionPaid(k) \/ SessionReported(k) \/ SessionExpires(k)

\* External.  Nothing else befalls a subscription before its session is reported.
SubscriptionStep(s) ==
  /\ \A k \in Checkouts : checkout[k].pc = "paid" => checkout[k].sub # s
  /\ StripeStep(s)
  /\ UNCHANGED <<billingVars, checkout>>

-----------------------------------------------------------------------------
Next ==
  \/ \E h \in Handlers : HandlerStep(h) \/ Crash(h)
  \/ \E k \in Checkouts : CheckoutStep(k)
  \/ \E s \in Subs : SubscriptionStep(s)

Spec == Init /\ [][Next]_vars

\* Stripe retries a delivery until it is acknowledged, and an invocation that is not
\* killed runs to its end.  Nobody is obliged to buy, pay or cancel.
FairSpec == Spec /\ \A h \in Handlers : WF_vars(HandlerStep(h))

-----------------------------------------------------------------------------
(* Properties.                                                             *)

TypeOK ==
  /\ StripeTypeOK /\ world \in Worlds
  /\ users \in Row
  /\ ledger \subseteq 1..MaxEvents
  /\ job \in [Handlers -> Job]
  /\ checkout \in [Checkouts ->
       [pc : {"idle", "look", "move", "buy", "open", "paid", "done"},
        cust : Customers \cup {NoCust}, sub : Subs \cup {NoSub}, tier : Tiers,
        resuming : BOOLEAN]]
  /\ mails \subseteq [event : 1..MaxEvents, plan : Plans]
  /\ ended \subseteq Subs
  /\ begun \in [1..MaxEvents -> Nat]
  /\ crashes \in 0..MaxCrashes

\* However often Stripe delivers an event, while it is being handled, after an invocation
\* died with it, and after that again, one invocation in all gets past the ledger with it.
AppliedOnce == \A i \in 1..MaxEvents : begun[i] <= 1

\* The ordering watermark of the row never goes back, whichever of the four UPDATEs runs.
WatermarkMonotone == [][users'.eventAt >= users.eventAt]_vars

\* The webhook never takes the plan away while Stripe holds another subscription of the
\* customer that was live before the event: the lookup sees it, or the guard refuses.
DropOnlyWhenNothingElseLive ==
  [][users.plan # Free /\ users'.plan = Free =>
       \E h \in Handlers :
         /\ At(h, "end")
         /\ job[h].sure => \A s \in LiveOf(users.customer) : subscription[s].since >= Ev(h).created]_vars

\* "a late/stale subscription.updated can't resurrect a canceled plan".
NoResurrection ==
  [][\A h \in Handlers : At(h, "apply") /\ users.plan = Free /\ users'.plan # Free
       => Ev(h).sub \notin ended]_vars

\* It holds while a customer has had one subscription and no two events of it carry the
\* same second, in whatever order and however concurrently they are delivered.
OneSubscription == \A r, s \in Subs : subscription[r].born > 0 /\ subscription[s].born > 0 => r = s
NoResurrectionOfOne ==
  [][clock = emitted /\ OneSubscription =>
       \A h \in Handlers : At(h, "apply") /\ users.plan = Free /\ users'.plan # Free
         => Ev(h).sub \notin ended]_vars

\* Interval and subscription id clear with the plan: a free row points at no subscription
\* and announces neither a renewal nor a cancellation.  Two deliveries handled at once do
\* not keep it.
FreeRowIsBlank ==
  world.alone /\ users.plan = Free => users.sub = NoSub /\ users.renews = NoDate /\ ~users.cancel

\* A customer is told at most once that a subscription ended, and only of one that did.
EndedMailOnce == \A m, n \in mails : m.event = n.event => m = n

\* Nothing is in flight: every event is acknowledged and every session reported.
Settled ==
  /\ outbox = {} /\ \A h \in Handlers : IsIdle(h)
  /\ \A k \in Checkouts : checkout[k].pc # "paid"

\* All subscriptions were bought by one customer. An account with a second customer keeps the
\* renewal date of the first one's subscription: only holes are filled by a session.
OneCustomer ==
  \A r, s \in Subs : subscription[r].born > 0 /\ subscription[s].born > 0 =>
                      subscription[r].cust = subscription[s].cust

\* Delivered in order, one at a time, and neither a call nor an invocation failing: once
\* everything of a customer is delivered the row says what Stripe holds, a paid plan exactly
\* when a subscription of the customer is live, and then the plan of one that is.
SettledAgreement ==
  Settled /\ OneCustomer /\ world.alone /\ world.inOrder /\ ~world.faults /\ crashes = 0 =>
    IF LiveOf(users.customer) = {} THEN users.plan = Free
    ELSE /\ users.sub \in LiveOf(users.customer)
         /\ LET s == subscription[users.sub] IN
            /\ users.plan = s.tier /\ users.status = s.status
            /\ users.cancel = s.cancelAtPeriodEnd /\ users.renews = s.period

\* Stripe charges for it.
Charged(s) == subscription[s].status \in {"active", "past_due"}

\* A subscription that has been live since it was created (distinct seconds only).
NeverLapsed(s) == subscription[s].since < subscription[s].born

\* A customer never pays for two subscriptions when checkouts do not overlap, unless one
\* of them had lapsed, which checkout does not count, and was paid after all.
OneLivePerCustomer ==
  ~world.overlap /\ clock = emitted => \A r, s \in Subs :
    r # s /\ Charged(r) /\ Charged(s) /\ subscription[r].cust = subscription[s].cust
      => ~(NeverLapsed(r) /\ NeverLapsed(s))

\* Every event Stripe emits is acknowledged in the end, crashes notwithstanding.
EventsDrain == \A i \in 1..MaxEvents : (\E e \in outbox : e.id = i) ~> ~(\E e \in outbox : e.id = i)

\* A bought session links its Stripe customer to the account in the end, whatever order
\* the events arrive in: nothing but a crash loses it.
LinkedEventually ==
  (\E e \in outbox : e.type = "session") ~> (users.customer # NoCust \/ crashes > 0)
-----------------------------------------------------------------------------
(* What a comment says and the code does not keep.                         *)

\* "a mail that says "your Free plan has ended" is nonsense": the mail about an ended
\* subscription names the plan it paid for.  One that went unpaid first has lost its plan.
MailNamesPaidPlan == \A m \in mails : m.plan # Free
=============================================================================
