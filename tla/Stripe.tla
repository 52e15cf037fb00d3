------------------------------- MODULE Stripe -------------------------------
(***************************************************************************)
(* Stripe, as worker/src/routes/billing.ts sees it: an EXTERNAL service    *)
(* that owns the subscriptions and reports every change of one as an event *)
(* whose `created` time has a granularity of one second.  Events sit in    *)
(* `outbox` until the webhook acknowledges them; nothing here orders their *)
(* delivery.                                                               *)
(***************************************************************************)
EXTENDS Naturals, FiniteSets

CONSTANTS Subs,        \* subscription ids
          Customers,   \* Stripe customer ids
          Tiers,       \* the paid (plan, interval) pairs, one Price each
          NoSub, NoCust,
          MaxEvents,   \* bound: events Stripe ever emits
          MaxPeriod,   \* bound: billing periods a subscription runs through
          Worlds       \* what the surroundings of the program may be like

\* May two events carry the same `created`?  Do deliveries start in the order of emission?
\* May calls to Stripe fail?  May checkouts overlap?  Is one delivery handled at a time?
World == [sameSecond : BOOLEAN, inOrder : BOOLEAN, faults : BOOLEAN, overlap : BOOLEAN,
          alone : BOOLEAN]

ASSUME StripeAssumption ==
  /\ MaxEvents \in Nat /\ MaxPeriod \in Nat \ {0} /\ Worlds \subseteq World
  /\ NoSub \notin Subs /\ NoCust \notin Customers

VARIABLES subscription,  \* [Subs -> what Stripe holds of it]
          clock,         \* Stripe's time, in seconds
          emitted,       \* number of events emitted: the last event id
          outbox,        \* events not acknowledged yet
          world          \* one of Worlds, for the whole behaviour

stripeVars == <<subscription, clock, emitted, outbox>>

\* Mutant: the endpoint's default filter, active alone.
EntitledActiveOnly == {"active"}

\* The statuses that entitle.
ENTITLED_STATUSES == {"active", "trialing", "past_due"}
Statuses == {"active", "past_due", "unpaid", "canceled"}

Subscription ==
  [status : Statuses \cup {"none"}, cust : Customers \cup {NoCust}, tier : Tiers,
   cancelAtPeriodEnd : BOOLEAN, period : 0..MaxPeriod,
   born : 0..MaxEvents,    \* orders subscriptions by creation
   since : 0..MaxEvents]   \* when it last became live (used by properties only)

\* A webhook event: the reported object as it was at `created`.
Event ==
  [id : 1..MaxEvents, type : {"session", "updated", "deleted"}, created : 0..MaxEvents,
   cust : Customers, sub : Subs, tier : Tiers, status : Statuses,
   cancel : BOOLEAN, period : 0..MaxPeriod]

Live(s) == subscription[s].status \in ENTITLED_STATUSES
LiveOf(c) == {s \in Subs : Live(s) /\ subscription[s].cust = c}
Newest(S) == {s \in S : \A r \in S : subscription[r].born <= subscription[s].born}

StripeInit ==
  /\ \E t \in Tiers :
       subscription = [s \in Subs |->
          [status |-> "none", cust |-> NoCust, tier |-> t, cancelAtPeriodEnd |-> FALSE,
           period |-> 0, born |-> 0, since |-> 0]]
  /\ clock = 0 /\ emitted = 0 /\ outbox = {} /\ world \in Worlds

\* One event about subscription s, in its state after the change.
Emit(type, s, after) ==
  /\ emitted < MaxEvents
  /\ emitted' = emitted + 1
  /\ clock' \in IF world.sameSecond THEN {clock, clock + 1} ELSE {clock + 1}
  /\ outbox' = outbox \cup
       {[id |-> emitted + 1, type |-> type, created |-> clock, cust |-> after.cust,
         sub |-> s, tier |-> after.tier, status |-> after.status,
         cancel |-> after.cancelAtPeriodEnd, period |-> after.period]}

\* The subscription changes, and Stripe says so.
Change(s, after) ==
  /\ subscription' = [subscription EXCEPT ![s] = after]
  /\ Emit(IF after.status = "canceled" THEN "deleted" ELSE "updated", s, after)

Create(s, c, t) ==
  /\ subscription[s].status = "none"
  /\ Change(s, [status |-> "active", cust |-> c, tier |-> t, cancelAtPeriodEnd |-> FALSE,
                period |-> 1, born |-> emitted + 1, since |-> clock])

Renew(s) ==
  /\ Live(s) /\ ~subscription[s].cancelAtPeriodEnd /\ subscription[s].period < MaxPeriod
  /\ Change(s, [subscription[s] EXCEPT !.status = "active", !.period = @ + 1])

PaymentFails(s) ==
  /\ subscription[s].status = "active"
  /\ Change(s, [subscription[s] EXCEPT !.status = "past_due"])

GiveUp(s) ==
  /\ subscription[s].status = "past_due"
  /\ Change(s, [subscription[s] EXCEPT !.status = "unpaid"])

\* An unpaid subscription whose invoice is finally paid is live again.
Recover(s) ==
  /\ subscription[s].status = "unpaid"
  /\ Change(s, [subscription[s] EXCEPT !.status = "active", !.since = clock])

\* Cancelled in the portal: access until the end of the period.
PortalCancel(s) ==
  /\ Live(s) /\ ~subscription[s].cancelAtPeriodEnd
  /\ Change(s, [subscription[s] EXCEPT !.cancelAtPeriodEnd = TRUE])

End(s) ==
  /\ subscription[s].status \in Statuses \ {"canceled"}
  /\ Change(s, [subscription[s] EXCEPT !.status = "canceled"])

StripeStep(s) ==
  Renew(s) \/ PaymentFails(s) \/ GiveUp(s) \/ Recover(s) \/ PortalCancel(s) \/ End(s)

StripeTypeOK ==
  /\ subscription \in [Subs -> Subscription]
  /\ emitted \in 0..MaxEvents
  /\ clock \in 0..emitted
  /\ outbox \subseteq Event
=============================================================================
