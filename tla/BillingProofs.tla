--------------------------- MODULE BillingProofs ---------------------------
(* Theorems about Billing, for every number of subscriptions, handlers, ... *)
EXTENDS Billing, TLAPS

\* What Stripe never forgets: an existing subscription has a customer, and a request that
\* is about to move one, or has just bought one, names an existing one.
CustomerKnown ==
  /\ \A s \in Subs : subscription[s].status # "none" => subscription[s].cust \in Customers
  /\ \A k \in Checkouts : checkout[k].pc \in {"move", "paid"} =>
       checkout[k].sub \in Subs /\ subscription[checkout[k].sub].status # "none"

\* An invocation that is about to fill holes, or to mail, knows what with.
JobKnown ==
  \A h \in Handlers :
    /\ At(h, "fill") => job[h].pick \in LiveSub
    /\ At(h, "mail") => job[h].plan \in Plans

TInv == TypeOK /\ CustomerKnown /\ JobKnown

USE StripeAssumption, BillingAssumption

\* Emitting an event keeps Stripe's clock, counter and outbox typed.
LEMMA EmitTyped ==
  ASSUME StripeTypeOK, NEW type \in {"session", "updated", "deleted"}, NEW s \in Subs,
         NEW after \in Subscription, after.status \in Statuses, after.cust \in Customers,
         Emit(type, s, after)
  PROVE  emitted' \in 0..MaxEvents /\ clock' \in 0..emitted' /\ outbox' \subseteq Event
<1> DEFINE e == [id |-> emitted + 1, type |-> type, created |-> clock, cust |-> after.cust,
         sub |-> s, tier |-> after.tier, status |-> after.status,
         cancel |-> after.cancelAtPeriodEnd, period |-> after.period]
<1>1. emitted' \in 0..MaxEvents /\ clock' \in 0..emitted'
  BY DEF Emit, StripeTypeOK
<1>2. emitted + 1 \in 1..MaxEvents /\ clock \in 0..MaxEvents
  BY DEF Emit, StripeTypeOK
<1>3. after.tier \in Tiers /\ after.cancelAtPeriodEnd \in BOOLEAN /\ after.period \in 0..MaxPeriod
  BY DEF Subscription
<1>4. e \in Event
  BY <1>2, <1>3 DEF Event
<1>5. outbox' = outbox \cup {e}
  BY DEF Emit
<1> QED BY <1>1, <1>4, <1>5 DEF StripeTypeOK

\* Changing a subscription keeps Stripe typed, and every existing one its customer.
LEMMA ChangeTyped ==
  ASSUME StripeTypeOK, \A r \in Subs : subscription[r].status # "none" => subscription[r].cust \in Customers,
         NEW s \in Subs, NEW after \in Subscription,
         after.status \in Statuses, after.cust \in Customers, Change(s, after)
  PROVE  /\ StripeTypeOK'
         /\ \A r \in Subs : (subscription[r].status # "none")' => (subscription[r].cust \in Customers)'
         /\ \A r \in Subs : subscription[r].status # "none" => (subscription[r].status # "none")'
         /\ (subscription[s].status # "none")'
<1>1. subscription' = [subscription EXCEPT ![s] = after] BY DEF Change
<1>2. emitted' \in 0..MaxEvents /\ clock' \in 0..emitted' /\ outbox' \subseteq Event
  BY EmitTyped DEF Change
<1>3. subscription' \in [Subs -> Subscription] BY <1>1 DEF StripeTypeOK
<1>4. after.status # "none" BY DEF Statuses
<1>5. \A r \in Subs : subscription'[r] = IF r = s THEN after ELSE subscription[r]
  BY <1>1 DEF StripeTypeOK
<1> QED BY <1>2, <1>3, <1>4, <1>5 DEF StripeTypeOK

\* The external life of a subscription keeps the invariant.
LEMMA SubscriptionStepTyped ==
  ASSUME TInv, NEW s \in Subs, SubscriptionStep(s)
  PROVE  TInv'
<1> DEFINE sb == subscription[s]
<1>1. /\ sb \in Subscription /\ StripeTypeOK /\ clock \in 0..MaxEvents
      /\ \A r \in Subs : subscription[r].status # "none" => subscription[r].cust \in Customers
  BY DEF TInv, TypeOK, StripeTypeOK, CustomerKnown
<1>2. PICK after \in Subscription : Change(s, after) /\ after.status \in Statuses /\ after.cust \in Customers
  <2>1. CASE Renew(s)
    <3> DEFINE a == [sb EXCEPT !.status = "active", !.period = @ + 1]
    <3>1. sb.status # "none" /\ sb.period + 1 \in 0..MaxPeriod
      BY <1>1, <2>1 DEF Renew, Live, ENTITLED_STATUSES, Subscription
    <3>2. a \in Subscription /\ a.status \in Statuses /\ a.cust \in Customers
      BY <1>1, <3>1 DEF Subscription, Statuses
    <3> QED BY <2>1, <3>2 DEF Renew
  <2>2. CASE PaymentFails(s)
    <3> DEFINE a == [sb EXCEPT !.status = "past_due"]
    <3>2. a \in Subscription /\ a.status \in Statuses /\ a.cust \in Customers
      BY <1>1, <2>2 DEF Subscription, Statuses, PaymentFails
    <3> QED BY <2>2, <3>2 DEF PaymentFails
  <2>3. CASE GiveUp(s)
    <3> DEFINE a == [sb EXCEPT !.status = "unpaid"]
    <3>2. a \in Subscription /\ a.status \in Statuses /\ a.cust \in Customers
      BY <1>1, <2>3 DEF Subscription, Statuses, GiveUp
    <3> QED BY <2>3, <3>2 DEF GiveUp
  <2>4. CASE Recover(s)
    <3> DEFINE a == [sb EXCEPT !.status = "active", !.since = clock]
    <3>2. a \in Subscription /\ a.status \in Statuses /\ a.cust \in Customers
      BY <1>1, <2>4 DEF Subscription, Statuses, Recover
    <3> QED BY <2>4, <3>2 DEF Recover
  <2>5. CASE PortalCancel(s)
    <3> DEFINE a == [sb EXCEPT !.cancelAtPeriodEnd = TRUE]
    <3>2. a \in Subscription /\ a.status \in Statuses /\ a.cust \in Customers
      BY <1>1, <2>5 DEF Subscription, Statuses, PortalCancel, Live, ENTITLED_STATUSES
    <3> QED BY <2>5, <3>2 DEF PortalCancel
  <2>6. CASE End(s)
    <3> DEFINE a == [sb EXCEPT !.status = "canceled"]
    <3>2. a \in Subscription /\ a.status \in Statuses /\ a.cust \in Customers
      BY <1>1, <2>6 DEF Subscription, Statuses, End
    <3> QED BY <2>6, <3>2 DEF End
  <2> QED BY <2>1, <2>2, <2>3, <2>4, <2>5, <2>6 DEF SubscriptionStep, StripeStep
<1>3. StripeTypeOK'
  BY <1>1, <1>2, ChangeTyped
<1>4. /\ \A r \in Subs : (subscription[r].status # "none")' => (subscription[r].cust \in Customers)'
      /\ \A r \in Subs : subscription[r].status # "none" => (subscription[r].status # "none")'
  BY <1>1, <1>2, ChangeTyped
<1>5. UNCHANGED <<billingVars, checkout>> BY DEF SubscriptionStep
<1>6. TypeOK' BY <1>3, <1>5 DEF TInv, TypeOK, billingVars, Row, Job, Ev, IsIdle
<1>7. CustomerKnown' BY <1>4, <1>5 DEF TInv, CustomerKnown
<1>8. JobKnown' BY <1>5 DEF TInv, JobKnown, billingVars, At
<1> QED BY <1>6, <1>7, <1>8 DEF TInv

-----------------------------------------------------------------------------
(* The webhook.                                                            *)

\* What a running invocation holds.
LEMMA JobShape ==
  ASSUME TypeOK, NEW h \in Handlers, ~IsIdle(h)
  PROVE  /\ job[h] \in [pc : Phases, ev : Event, pick : LiveSub \cup {NoPick},
                        sure : BOOLEAN, plan : Plans \cup {NoPick}]
         /\ Ev(h) \in Event
         /\ Ev(h).id \in 1..MaxEvents /\ Ev(h).created \in 0..MaxEvents
         /\ Ev(h).cust \in Customers /\ Ev(h).sub \in Subs /\ Ev(h).tier \in Tiers
         /\ Ev(h).status \in Statuses /\ Ev(h).cancel \in BOOLEAN
         /\ Ev(h).period \in 0..MaxPeriod
BY DEF TypeOK, Job, Idle, IsIdle, Ev, Event

\* Acknowledging, and going on to another phase, keep the invocations and the outbox typed.
LEMMA AckTyped ==
  ASSUME TypeOK, JobKnown, NEW h \in Handlers, Ack(h)
  PROVE  job' \in [Handlers -> Job] /\ outbox' \subseteq Event /\ JobKnown'
<1>1. job' \in [Handlers -> Job] /\ outbox' \subseteq Event
  BY DEF Ack, TypeOK, StripeTypeOK, Job
<1>2. \A g \in Handlers : job'[g] = IF g = h THEN Idle ELSE job[g]
  BY DEF Ack, TypeOK
<1>3. JobKnown' BY <1>2 DEF JobKnown, At, Idle
<1> QED BY <1>1, <1>3

\* A new local state for one invocation.
LEMMA JobTyped ==
  ASSUME TypeOK, JobKnown, NEW h \in Handlers, NEW next \in Job,
         job' = [job EXCEPT ![h] = next],
         next.pc = "fill" => next.pick \in LiveSub, next.pc = "mail" => next.plan \in Plans
  PROVE  job' \in [Handlers -> Job] /\ JobKnown'
<1>1. \A g \in Handlers : job'[g] = IF g = h THEN next ELSE job[g]
  BY DEF TypeOK
<1> QED BY <1>1 DEF JobKnown, At, TypeOK

LEMMA GotoTyped ==
  ASSUME TypeOK, JobKnown, NEW h \in Handlers, NEW pc \in Phases, ~IsIdle(h), Goto(h, pc),
         pc # "fill", pc = "mail" => job[h].plan \in Plans
  PROVE  job' \in [Handlers -> Job] /\ outbox' \subseteq Event /\ JobKnown'
<1> DEFINE next == [job[h] EXCEPT !.pc = pc]
<1>1. next \in Job /\ next.pc = pc /\ next.plan = job[h].plan
  BY JobShape DEF Job
<1>2. job' = [job EXCEPT ![h] = next] /\ outbox' \subseteq Event
  BY DEF Goto, TypeOK, StripeTypeOK
<1> QED BY <1>1, <1>2, JobTyped

\* applySubscription writes a well-formed row.
LEMMA AppliedTyped ==
  ASSUME TypeOK, NEW e \in Event, NEW sub \in Subs \cup {NoSub}, NEW plan \in Plans,
         NEW status \in Statuses, NEW renews \in 0..MaxPeriod, NEW cancel \in BOOLEAN
  PROVE  Applied(e, sub, plan, status, renews, cancel) \in Row
<1>1. users \in Row /\ e.created \in 0..MaxEvents BY DEF TypeOK, Event
<1> QED BY <1>1 DEF Applied, Row

\* A snapshot of an existing subscription is a LiveSub.
LEMMA SnapshotTyped ==
  ASSUME TypeOK, NEW s \in Subs, Live(s)
  PROVE  Snapshot(s) \in LiveSub
BY DEF TypeOK, StripeTypeOK, Subscription, Snapshot, LiveSub, Live, ENTITLED_STATUSES, Statuses

\* What Stripe answers is live, and whether it answered is known.
LEMMA LookupTyped ==
  ASSUME NEW c, NEW l \in Lookup(c)
  PROVE  l.sure \in BOOLEAN /\ \A s \in l.live : s \in Subs /\ Live(s)
<1>1. CASE l = [sure |-> TRUE, live |-> LiveOf(c)] BY <1>1 DEF LiveOf
<1>2. CASE l = [sure |-> FALSE, live |-> {}] BY <1>2
<1> QED BY <1>1, <1>2 DEF Lookup

\* Each step of an invocation that leaves Stripe's subscriptions alone keeps the invariant
\* once the parts it writes are typed.
LEMMA HandlerFrame ==
  ASSUME TInv, UNCHANGED <<subscription, clock, emitted, checkout, world>>, crashes' \in 0..MaxCrashes,
         users' \in Row, job' \in [Handlers -> Job], JobKnown', outbox' \subseteq Event,
         ledger' \subseteq 1..MaxEvents, mails' \subseteq [event : 1..MaxEvents, plan : Plans],
         ended' \subseteq Subs, begun' \in [1..MaxEvents -> Nat]
  PROVE  TInv'
<1>1. TypeOK' BY DEF TInv, TypeOK, StripeTypeOK
<1>2. CustomerKnown' BY DEF TInv, CustomerKnown
<1> QED BY <1>1, <1>2 DEF TInv

\* Every step of an invocation keeps the invariant.
LEMMA HandlerStepTyped ==
  ASSUME TInv, NEW h \in Handlers, HandlerStep(h)
  PROVE  TInv'
<1> USE DEF TInv
<1>00. TypeOK /\ CustomerKnown /\ JobKnown OBVIOUS
<1>0. /\ users \in Row /\ job \in [Handlers -> Job] /\ outbox \subseteq Event
      /\ ledger \subseteq 1..MaxEvents /\ mails \subseteq [event : 1..MaxEvents, plan : Plans]
      /\ ended \subseteq Subs /\ crashes \in 0..MaxCrashes /\ begun \in [1..MaxEvents -> Nat]
  BY DEF TypeOK, StripeTypeOK
<1>1. CASE \E e \in outbox : Receive(h, e)
  <2>1. PICK e \in outbox : Receive(h, e) BY <1>1
  <2>2. e \in Event /\ e.id \in 1..MaxEvents BY <1>0 DEF Event
  <2> DEFINE next == [pc |-> Branch(e), ev |-> e, pick |-> NoPick, sure |-> FALSE, plan |-> NoPick]
  <2>3. Branch(e) \in Phases \ {"fill", "mail"} BY DEF Branch, Phases
  <2>4. next \in Job /\ next.pc \notin {"fill", "mail"}
    BY <2>2, <2>3 DEF Job
  <2>5. CASE Duplicate(e)
    <3>1. outbox' \subseteq Event /\ UNCHANGED <<job, ledger, begun>>
      BY <1>0, <2>1, <2>5 DEF Receive
    <3>2. JobKnown' BY <3>1 DEF JobKnown, At
    <3> QED BY <1>0, <2>1, <3>1, <3>2, HandlerFrame DEF Receive
  <2>6. CASE ~Duplicate(e)
    <3>1. job' = [job EXCEPT ![h] = next] /\ outbox' \subseteq Event /\ ledger' \subseteq 1..MaxEvents
      BY <1>0, <2>1, <2>2, <2>6 DEF Receive
    <3>2. job' \in [Handlers -> Job] /\ JobKnown' BY <2>4, <3>1, JobTyped
    <3>3. begun' = [begun EXCEPT ![e.id] = @ + 1] BY <2>1, <2>6 DEF Receive
    <3>4. begun' \in [1..MaxEvents -> Nat] BY <1>0, <2>2, <3>3
    <3> QED BY <1>0, <2>1, <3>1, <3>2, <3>4, HandlerFrame DEF Receive
  <2> QED BY <2>5, <2>6
<1>2. CASE Link(h)
  <2>1. ~IsIdle(h) BY <1>2 DEF Link, At, IsIdle
  <2>2. users' \in Row
    BY <1>0, <1>2, <2>1, JobShape DEF Link, Linked, Row, Plans, Statuses
  <2>3. job' \in [Handlers -> Job] /\ outbox' \subseteq Event /\ JobKnown'
    BY <1>2, <2>1, GotoTyped DEF Link, Phases
  <2> QED BY <1>0, <1>2, <2>2, <2>3, HandlerFrame DEF Link, Frame
<1>3. CASE FillLookup(h)
  <2>1. ~IsIdle(h) BY <1>3 DEF FillLookup, At, IsIdle
  <2>2. PICK l \in Lookup(Ev(h).cust) :
          \/ Bought(Ev(h), l.live) = {} /\ Ack(h)
          \/ \E s \in Bought(Ev(h), l.live) :
               /\ job' = [job EXCEPT ![h].pc = "fill", ![h].sure = l.sure, ![h].pick = Snapshot(s)]
               /\ UNCHANGED outbox
    BY <1>3 DEF FillLookup
  <2>3. l.sure \in BOOLEAN /\ \A s \in l.live : s \in Subs /\ Live(s)
    BY <2>2, LookupTyped
  <2>4. CASE Ack(h)
    <3>1. job' \in [Handlers -> Job] /\ outbox' \subseteq Event /\ JobKnown' BY <2>4, AckTyped
    <3> QED BY <1>0, <1>3, <3>1, HandlerFrame DEF FillLookup, Frame
  <2>5. ASSUME NEW s \in Bought(Ev(h), l.live),
               job' = [job EXCEPT ![h].pc = "fill", ![h].sure = l.sure, ![h].pick = Snapshot(s)],
               UNCHANGED outbox
        PROVE  TInv'
    <3>1. s \in l.live BY DEF Bought
    <3>2. Snapshot(s) \in LiveSub BY <2>3, <3>1, SnapshotTyped
    <3> DEFINE next == [job[h] EXCEPT !.pc = "fill", !.sure = l.sure, !.pick = Snapshot(s)]
    <3>3. next \in Job /\ next.pc = "fill" /\ next.pick \in LiveSub
      BY <2>1, <2>3, <3>2, JobShape DEF Job, Phases
    <3>4. job' = [job EXCEPT ![h] = next] BY <1>0, <2>5
    <3>5. job' \in [Handlers -> Job] /\ JobKnown' BY <3>3, <3>4, JobTyped
    <3> QED BY <1>0, <1>3, <2>5, <3>5, HandlerFrame DEF FillLookup, Frame
  <2> QED BY <2>2, <2>4, <2>5
<1>4. CASE Fill(h)
  <2>1. At(h, "fill") BY <1>4 DEF Fill
  <2>4. job[h].pick \in LiveSub BY <1>00, <2>1 DEF JobKnown
  <2>2. users' \in Row
    BY <1>0, <1>4, <2>4 DEF Fill, Row, LiveSub
  <2>3. job' \in [Handlers -> Job] /\ outbox' \subseteq Event /\ JobKnown'
    BY <1>4, AckTyped DEF Fill
  <2> QED BY <1>0, <1>4, <2>2, <2>3, HandlerFrame DEF Fill, Frame
<1>5. CASE Apply(h)
  <2>1. ~IsIdle(h) BY <1>5 DEF Apply, At, IsIdle
  <2>2. users' \in Row
    BY <1>5, <2>1, JobShape, AppliedTyped DEF Apply, Plans
  <2>3. job' \in [Handlers -> Job] /\ outbox' \subseteq Event /\ JobKnown'
    BY <1>5, AckTyped DEF Apply
  <2> QED BY <1>0, <1>5, <2>2, <2>3, HandlerFrame DEF Apply, Frame
<1>6. CASE StrayCheck(h)
  <2>1. ~IsIdle(h) BY <1>6 DEF StrayCheck, At, IsIdle
  <2>2. ended' \subseteq Subs
    BY <1>0, <1>6, <2>1, JobShape DEF StrayCheck, NoteEnded
  <2>3. job' \in [Handlers -> Job] /\ outbox' \subseteq Event /\ JobKnown'
    BY <1>6, <2>1, AckTyped, GotoTyped DEF StrayCheck, Phases
  <2> QED BY <1>0, <1>6, <2>2, <2>3, HandlerFrame DEF StrayCheck, Frame
<1>7. CASE ReadAccount(h)
  <2>1. ~IsIdle(h) BY <1>7 DEF ReadAccount, At, IsIdle
  <2> DEFINE read == IF users.customer = Ev(h).cust THEN users.plan ELSE NoPick
             next == [job[h] EXCEPT !.pc = "endLookup", !.plan = read]
  <2>2. read \in Plans \cup {NoPick} BY <1>0 DEF Row
  <2>3. next \in Job /\ next.pc = "endLookup"
    BY <2>1, <2>2, JobShape DEF Job, Phases
  <2>4. job' = [job EXCEPT ![h] = next] BY <1>0, <1>7 DEF ReadAccount
  <2>5. job' \in [Handlers -> Job] /\ JobKnown' BY <2>3, <2>4, JobTyped
  <2> QED BY <1>0, <1>7, <2>5, HandlerFrame DEF ReadAccount, Frame
<1>8. CASE EndLookup(h)
  <2>1. ~IsIdle(h) BY <1>8 DEF EndLookup, At, IsIdle
  <2>2. PICK l \in Lookup(Ev(h).cust) :
          \E keep \in IF Remaining(Ev(h), l.live) = {} THEN {NoPick}
                      ELSE {Snapshot(s) : s \in Newest(Remaining(Ev(h), l.live))} :
            job' = [job EXCEPT ![h].pc = "end", ![h].sure = l.sure, ![h].pick = keep]
    BY <1>8 DEF EndLookup
  <2>3. PICK keep \in IF Remaining(Ev(h), l.live) = {} THEN {NoPick}
                     ELSE {Snapshot(s) : s \in Newest(Remaining(Ev(h), l.live))} :
            job' = [job EXCEPT ![h].pc = "end", ![h].sure = l.sure, ![h].pick = keep]
    BY <2>2
  <2>4. l.sure \in BOOLEAN /\ \A s \in l.live : s \in Subs /\ Live(s)
    BY <2>2, LookupTyped
  <2>5. keep \in LiveSub \cup {NoPick}
    BY <2>3, <2>4, SnapshotTyped DEF Remaining, Newest
  <2> DEFINE next == [job[h] EXCEPT !.pc = "end", !.sure = l.sure, !.pick = keep]
  <2>6. next \in Job /\ next.pc = "end"
    BY <2>1, <2>4, <2>5, JobShape DEF Job, Phases
  <2>7. job' = [job EXCEPT ![h] = next] BY <1>0, <2>3
  <2>8. job' \in [Handlers -> Job] /\ JobKnown' BY <2>6, <2>7, JobTyped
  <2> QED BY <1>0, <1>8, <2>8, HandlerFrame DEF EndLookup, Frame
<1>9. CASE EndWrite(h)
  <2>1. ~IsIdle(h) BY <1>9 DEF EndWrite, At, IsIdle
  <2> DEFINE e == Ev(h)
             keep == job[h].pick
  <2>2. e \in Event /\ e.status \in Statuses /\ e.sub \in Subs /\ keep \in LiveSub \cup {NoPick}
        /\ job[h].plan \in Plans \cup {NoPick}
    BY <2>1, JobShape
  <2>3. Ended(e, keep) \in Row
    <3>1. CASE keep = NoPick
      <4>1. Free \in Plans /\ 0 \in 0..MaxPeriod /\ NoSub \in Subs \cup {NoSub} BY DEF Plans
      <4>2. Applied(e, NoSub, Free, e.status, 0, FALSE) \in Row BY <2>2, <4>1, AppliedTyped
      <4> QED BY <3>1, <4>2 DEF Ended, NoDate
    <3>2. CASE keep # NoPick
      <4>1. keep \in LiveSub BY <2>2, <3>2
      <4>2. keep.sub \in Subs /\ keep.tier \in Plans /\ keep.status \in Statuses
            /\ keep.period \in 0..MaxPeriod /\ keep.cancel \in BOOLEAN
        BY <4>1 DEF LiveSub, Plans
      <4> QED BY <2>2, <3>2, <4>2, AppliedTyped DEF Ended
    <3> QED BY <3>1, <3>2
  <2>4. users' \in Row /\ ended' \subseteq Subs
    BY <1>0, <1>9, <2>2, <2>3 DEF EndWrite, NoteEnded
  <2>5. \/ Ack(h)
        \/ job[h].plan # NoPick /\ Goto(h, "mail")
    BY <1>9 DEF EndWrite
  <2>6. job' \in [Handlers -> Job] /\ outbox' \subseteq Event /\ JobKnown'
    BY <2>1, <2>2, <2>5, AckTyped, GotoTyped DEF Phases
  <2> QED BY <1>0, <1>9, <2>4, <2>6, HandlerFrame DEF EndWrite, Frame
<1>10. CASE Notify(h)
  <2>1. ~IsIdle(h) BY <1>10 DEF Notify, At, IsIdle
  <2>2a. At(h, "mail") BY <1>10 DEF Notify
  <2>2b. job[h].plan \in Plans BY <1>00, <2>2a DEF JobKnown
  <2>2. Ev(h).id \in 1..MaxEvents /\ job[h].plan \in Plans
    BY <2>1, <2>2b, JobShape
  <2>3. mails' \subseteq [event : 1..MaxEvents, plan : Plans]
    BY <1>0, <1>10, <2>2 DEF Notify
  <2>4. job' \in [Handlers -> Job] /\ outbox' \subseteq Event /\ JobKnown'
    BY <1>10, AckTyped DEF Notify
  <2> QED BY <1>0, <1>10, <2>3, <2>4, HandlerFrame DEF Notify, Frame
<1> QED BY <1>1, <1>2, <1>3, <1>4, <1>5, <1>6, <1>7, <1>8, <1>9, <1>10 DEF HandlerStep

\* So does its death.
LEMMA CrashTyped ==
  ASSUME TInv, NEW h \in Handlers, Crash(h)
  PROVE  TInv'
<1> USE DEF TInv
<1>1. Idle \in Job /\ Idle.pc = "idle" BY DEF Job, Idle
<1>2. job' \in [Handlers -> Job] /\ JobKnown' BY <1>1, JobTyped DEF Crash
<1>3. crashes' \in 0..MaxCrashes BY DEF Crash, TypeOK
<1> QED BY <1>2, <1>3, HandlerFrame DEF Crash, TypeOK, StripeTypeOK, stripeVars

-----------------------------------------------------------------------------
(* Checkouts.                                                              *)

CheckoutRecord ==
  [pc : {"idle", "look", "move", "buy", "open", "paid", "done"},
   cust : Customers \cup {NoCust}, sub : Subs \cup {NoSub}, tier : Tiers, resuming : BOOLEAN]

\* A new local state for one checkout; existing subscriptions stay existing ones.
LEMMA CheckoutTyped ==
  ASSUME TInv, StripeTypeOK', UNCHANGED billingVars, NEW k \in Checkouts, NEW next \in CheckoutRecord,
         checkout' = [checkout EXCEPT ![k] = next],
         \A r \in Subs : (subscription[r].status # "none")' => (subscription[r].cust \in Customers)',
         \A r \in Subs : subscription[r].status # "none" => (subscription[r].status # "none")',
         next.pc \in {"move", "paid"} =>
           next.sub \in Subs /\ subscription'[next.sub].status # "none"
  PROVE  TInv'
<1>1. checkout \in [Checkouts -> CheckoutRecord] BY DEF TInv, TypeOK, CheckoutRecord
<1>2. checkout' \in [Checkouts -> CheckoutRecord] BY <1>1
<1>3. TypeOK' BY <1>2 DEF TInv, TypeOK, billingVars, CheckoutRecord
<1>4. \A j \in Checkouts : checkout'[j] = IF j = k THEN next ELSE checkout[j] BY <1>1
<1>5. CustomerKnown' BY <1>4 DEF TInv, CustomerKnown
<1>6. JobKnown' BY DEF TInv, JobKnown, billingVars, At
<1> QED BY <1>3, <1>5, <1>6 DEF TInv

\* Every step of a checkout, and of the Stripe session it opened, keeps the invariant.
LEMMA CheckoutStepTyped ==
  ASSUME TInv, NEW k \in Checkouts, CheckoutStep(k)
  PROVE  TInv'
<1> DEFINE c == checkout[k]
<1>0. /\ c \in CheckoutRecord /\ StripeTypeOK /\ checkout \in [Checkouts -> CheckoutRecord]
      /\ users \in Row /\ clock \in 0..MaxEvents
      /\ \A r \in Subs : subscription[r].status # "none" => subscription[r].cust \in Customers
      /\ c.pc \in {"move", "paid"} => c.sub \in Subs /\ subscription[c.sub].status # "none"
  BY DEF TInv, TypeOK, StripeTypeOK, CheckoutRecord, CustomerKnown
<1>a. ASSUME UNCHANGED stripeVars
      PROVE  /\ StripeTypeOK'
             /\ \A r \in Subs : (subscription[r].status # "none")' => (subscription[r].cust \in Customers)'
             /\ \A r \in Subs : subscription[r].status # "none" => (subscription[r].status # "none")'
  BY <1>0, <1>a DEF stripeVars, StripeTypeOK
<1>1. ASSUME NEW t \in Tiers, CheckoutRead(k, t) PROVE TInv'
  <2> DEFINE next == [pc |-> "look", cust |-> users.customer, sub |-> users.sub, tier |-> t,
                      resuming |-> FALSE]
  <2>1. next \in CheckoutRecord /\ next.pc = "look" BY <1>0 DEF CheckoutRecord, Row
  <2>2. checkout' = [checkout EXCEPT ![k] = next] BY <1>1 DEF CheckoutRead
  <2> QED BY <1>a, <1>1, <2>1, <2>2, CheckoutTyped DEF CheckoutRead
<1>b. ASSUME NEW pc \in {"buy", "open", "done"}, UNCHANGED stripeVars, UNCHANGED billingVars,
             checkout' = [checkout EXCEPT ![k].pc = pc]
      PROVE  TInv'
  <2> DEFINE next == [c EXCEPT !.pc = pc]
  <2>1. next \in CheckoutRecord /\ next.pc = pc BY <1>0 DEF CheckoutRecord
  <2>2. checkout' = [checkout EXCEPT ![k] = next] BY <1>0, <1>b
  <2> QED BY <1>a, <1>b, <2>1, <2>2, CheckoutTyped
<1>2. CASE CheckoutLook(k)
  <2>1. UNCHANGED stripeVars /\ UNCHANGED billingVars BY <1>2 DEF CheckoutLook
  <2>2. CASE checkout' = [checkout EXCEPT ![k].pc = "buy"] BY <1>b, <2>1, <2>2
  <2>3. CASE checkout' = [checkout EXCEPT ![k].pc = "done"] BY <1>b, <2>1, <2>3
  <2>4. ASSUME NEW s \in Current(k),
               checkout' = [checkout EXCEPT ![k].pc = "move", ![k].sub = s,
                              ![k].resuming = subscription[s].cancelAtPeriodEnd]
        PROVE  TInv'
    <3>1. s \in Subs /\ Live(s) BY DEF Current, Newest, LiveOf
    <3>2. subscription[s].cancelAtPeriodEnd \in BOOLEAN /\ subscription[s].status # "none"
      BY <1>0, <3>1 DEF StripeTypeOK, Subscription, Live, ENTITLED_STATUSES
    <3> DEFINE next == [c EXCEPT !.pc = "move", !.sub = s,
                                 !.resuming = subscription[s].cancelAtPeriodEnd]
    <3>3. next \in CheckoutRecord /\ next.sub = s BY <1>0, <3>1, <3>2 DEF CheckoutRecord
    <3>4. checkout' = [checkout EXCEPT ![k] = next] BY <1>0, <2>4
    <3>5. subscription'[s].status # "none" BY <2>1, <3>2 DEF stripeVars
    <3> QED BY <1>a, <2>1, <3>1, <3>3, <3>4, <3>5, CheckoutTyped
  <2> QED BY <1>2, <2>2, <2>3, <2>4 DEF CheckoutLook
<1>3. CASE CheckoutFails(k) BY <1>b, <1>3 DEF CheckoutFails
<1>4. CASE CheckoutMove(k)
  <2> DEFINE s == c.sub
             after == [subscription[s] EXCEPT !.tier = c.tier,
                         !.cancelAtPeriodEnd = @ /\ ~c.resuming]
             next == [c EXCEPT !.pc = "done"]
  <2>1. s \in Subs /\ subscription[s].status # "none" /\ subscription[s] \in Subscription
    BY <1>0, <1>4 DEF CheckoutMove, StripeTypeOK
  <2>2. CASE UNCHANGED stripeVars BY <1>b, <1>4, <2>2 DEF CheckoutMove
  <2>3. CASE Change(s, after)
    <3>0. c.tier \in Tiers BY <1>0 DEF CheckoutRecord
    <3>1. after \in Subscription /\ after.status \in Statuses /\ after.cust \in Customers
      BY <1>0, <2>1, <3>0 DEF Subscription, Statuses
    <3>2. next \in CheckoutRecord /\ next.pc = "done" BY <1>0 DEF CheckoutRecord
    <3>3. checkout' = [checkout EXCEPT ![k] = next] /\ UNCHANGED billingVars
      BY <1>0, <1>4 DEF CheckoutMove
    <3>4. StripeTypeOK'
      BY <1>0, <2>1, <2>3, <3>1, ChangeTyped
    <3>5. /\ \A r \in Subs : (subscription[r].status # "none")' => (subscription[r].cust \in Customers)'
          /\ \A r \in Subs : subscription[r].status # "none" => (subscription[r].status # "none")'
      BY <1>0, <2>1, <2>3, <3>1, ChangeTyped
    <3> QED BY <3>2, <3>3, <3>4, <3>5, CheckoutTyped
  <2> QED BY <1>4, <2>2, <2>3 DEF CheckoutMove
<1>5. CASE CheckoutBuy(k) BY <1>b, <1>5 DEF CheckoutBuy
<1>6. CASE SessionPaid(k)
  <2>1. PICK s \in Subs, cc \in Customers :
          /\ Create(s, cc, c.tier)
          /\ checkout' = [checkout EXCEPT ![k].pc = "paid", ![k].cust = cc, ![k].sub = s]
    BY <1>6 DEF SessionPaid
  <2> DEFINE after == [status |-> "active", cust |-> cc, tier |-> c.tier, cancelAtPeriodEnd |-> FALSE,
                       period |-> 1, born |-> emitted + 1, since |-> clock]
             next == [c EXCEPT !.pc = "paid", !.cust = cc, !.sub = s]
  <2>2. Change(s, after) BY <2>1 DEF Create
  <2>3. emitted + 1 \in 0..MaxEvents /\ 1 \in 0..MaxPeriod
    BY <1>0, <2>2 DEF Change, Emit, StripeTypeOK
  <2>4. after \in Subscription /\ after.status \in Statuses /\ after.cust \in Customers
    BY <1>0, <2>3 DEF Subscription, Statuses, CheckoutRecord
  <2>5. next \in CheckoutRecord /\ next.sub = s BY <1>0 DEF CheckoutRecord
  <2>6. checkout' = [checkout EXCEPT ![k] = next] BY <1>0, <2>1
  <2>7. StripeTypeOK' BY <1>0, <2>2, <2>4, ChangeTyped
  <2>8. /\ \A r \in Subs : (subscription[r].status # "none")' => (subscription[r].cust \in Customers)'
        /\ \A r \in Subs : subscription[r].status # "none" => (subscription[r].status # "none")'
        /\ subscription'[s].status # "none"
    BY <1>0, <2>2, <2>4, ChangeTyped
  <2> QED BY <1>6, <2>5, <2>6, <2>7, <2>8, CheckoutTyped DEF SessionPaid
<1>7. CASE SessionReported(k)
  <2> DEFINE s == c.sub
             after == [subscription[s] EXCEPT !.tier = c.tier, !.status = "active"]
             next == [c EXCEPT !.pc = "done"]
  <2>1. s \in Subs /\ subscription[s].status # "none" /\ subscription[s] \in Subscription
    BY <1>0, <1>7 DEF SessionReported, StripeTypeOK
  <2>0. c.tier \in Tiers BY <1>0 DEF CheckoutRecord
  <2>2. after \in Subscription /\ after.status \in Statuses /\ after.cust \in Customers
    BY <1>0, <2>1, <2>0 DEF Subscription, Statuses
  <2>3. Emit("session", s, after) /\ UNCHANGED subscription BY <1>7 DEF SessionReported
  <2>4. StripeTypeOK' BY <1>0, <2>1, <2>2, <2>3, EmitTyped DEF StripeTypeOK
  <2>5. next \in CheckoutRecord /\ next.pc = "done" BY <1>0 DEF CheckoutRecord
  <2>6. checkout' = [checkout EXCEPT ![k] = next] BY <1>0, <1>7 DEF SessionReported
  <2> QED BY <1>0, <1>7, <2>3, <2>4, <2>5, <2>6, CheckoutTyped DEF SessionReported
<1>8. CASE SessionExpires(k) BY <1>b, <1>8 DEF SessionExpires
<1> QED BY <1>1, <1>2, <1>3, <1>4, <1>5, <1>6, <1>7, <1>8 DEF CheckoutStep

-----------------------------------------------------------------------------
(* Type correctness.                                                       *)

LEMMA InitTyped == Init => TInv
<1> SUFFICES ASSUME Init PROVE TInv OBVIOUS
<1>1. StripeTypeOK
  BY DEF Init, StripeInit, StripeTypeOK, Subscription
<1>2. users \in Row BY DEF Init, Row, Plans, NoDate
<1> DEFINE start == {[pc |-> "idle", cust |-> NoCust, sub |-> NoSub, tier |-> t,
                      resuming |-> FALSE] : t \in Tiers}
<1>9. checkout \in [Checkouts -> start] BY DEF Init
<1>10. ASSUME NEW c \in start PROVE c \in CheckoutRecord /\ c.pc = "idle"
  <2>1. PICK t \in Tiers : c = [pc |-> "idle", cust |-> NoCust, sub |-> NoSub, tier |-> t,
                               resuming |-> FALSE]
    OBVIOUS
  <2> QED BY <2>1 DEF CheckoutRecord
<1>3. checkout \in [Checkouts -> CheckoutRecord] /\ \A k \in Checkouts : checkout[k].pc = "idle"
  BY <1>9, <1>10
<1>4. job \in [Handlers -> Job] /\ \A h \in Handlers : job[h].pc = "idle" BY DEF Init, Job, Idle
<1>11. world \in Worlds BY DEF Init, StripeInit
<1>5. TypeOK BY <1>1, <1>2, <1>3, <1>4, <1>11 DEF Init, TypeOK, CheckoutRecord
<1>6. \A s \in Subs : subscription[s].status = "none" BY DEF Init, StripeInit
<1>7. CustomerKnown BY <1>3, <1>6 DEF CustomerKnown
<1>8. JobKnown BY <1>4 DEF JobKnown, At
<1> QED BY <1>5, <1>7, <1>8 DEF TInv

LEMMA StepTyped == TInv /\ [Next]_vars => TInv'
<1> SUFFICES ASSUME TInv, [Next]_vars PROVE TInv' OBVIOUS
<1>1. CASE UNCHANGED vars
  <2>1. TypeOK' BY <1>1 DEF vars, stripeVars, billingVars, TInv, TypeOK, StripeTypeOK
  <2>2. CustomerKnown' BY <1>1 DEF vars, stripeVars, billingVars, TInv, CustomerKnown
  <2>3. JobKnown' BY <1>1 DEF vars, billingVars, TInv, JobKnown, At
  <2> QED BY <2>1, <2>2, <2>3 DEF TInv
<1>2. ASSUME NEW h \in Handlers, HandlerStep(h) PROVE TInv' BY <1>2, HandlerStepTyped
<1>3. ASSUME NEW h \in Handlers, Crash(h) PROVE TInv' BY <1>3, CrashTyped
<1>4. ASSUME NEW k \in Checkouts, CheckoutStep(k) PROVE TInv' BY <1>4, CheckoutStepTyped
<1>5. ASSUME NEW s \in Subs, SubscriptionStep(s) PROVE TInv' BY <1>5, SubscriptionStepTyped
<1> QED BY <1>1, <1>2, <1>3, <1>4, <1>5 DEF Next

LEMMA Typed == Spec => []TInv
BY InitTyped, StepTyped, PTL DEF Spec

\* Every variable keeps its type: whatever webhook.post and checkout write is well formed.
THEOREM TypeCorrect == Spec => []TypeOK
<1>1. TInv => TypeOK BY DEF TInv
<1> QED BY <1>1, Typed, PTL

-----------------------------------------------------------------------------
(* The watermark.                                                          *)

\* No step lets the watermark go back.
LEMMA WatermarkStep ==
  ASSUME TInv, [Next]_vars
  PROVE  users'.eventAt >= users.eventAt
<1>0. users.eventAt \in 0..MaxEvents /\ users \in Row BY DEF TInv, TypeOK, Row
<1>1. CASE users' = users BY <1>0, <1>1
<1>2. ASSUME NEW h \in Handlers, Link(h) PROVE users'.eventAt >= users.eventAt
  <2>1. ~IsIdle(h) /\ users' = Linked(Ev(h)) BY <1>2 DEF Link, At, IsIdle
  <2>2. Ev(h).created \in 0..MaxEvents BY <2>1, JobShape DEF TInv
  <2> QED BY <1>0, <2>1, <2>2 DEF Linked, Row
<1>3. ASSUME NEW h \in Handlers, Fill(h) PROVE users'.eventAt >= users.eventAt
  BY <1>0, <1>3 DEF Fill, Row
<1>a. ASSUME NEW e, NEW sub, NEW plan, NEW status, NEW renews, NEW cancel
      PROVE  users.eventAt <= Applied(e, sub, plan, status, renews, cancel).eventAt
  BY <1>0 DEF Applied, Matches, Row
<1>4. ASSUME NEW h \in Handlers, Apply(h) PROVE users'.eventAt >= users.eventAt
  BY <1>0, <1>4, <1>a DEF Apply
<1>5. ASSUME NEW h \in Handlers, EndWrite(h) PROVE users'.eventAt >= users.eventAt
  BY <1>0, <1>5, <1>a DEF EndWrite, Ended
<1>6. ASSUME NEW h \in Handlers, HandlerStep(h) PROVE users'.eventAt >= users.eventAt
  BY <1>1, <1>2, <1>3, <1>4, <1>5, <1>6
     DEF HandlerStep, Receive, FillLookup, StrayCheck, ReadAccount, EndLookup, Notify
<1>7. ASSUME NEW h \in Handlers, Crash(h) PROVE users'.eventAt >= users.eventAt
  BY <1>1, <1>7 DEF Crash
<1>8. ASSUME NEW k \in Checkouts, CheckoutStep(k) PROVE users'.eventAt >= users.eventAt
  <2>1. UNCHANGED billingVars
    BY <1>8 DEF CheckoutStep, CheckoutRead, CheckoutLook, CheckoutFails, CheckoutMove, CheckoutBuy,
                SessionPaid, SessionReported, SessionExpires
  <2> QED BY <1>1, <2>1 DEF billingVars
<1>9. ASSUME NEW s \in Subs, SubscriptionStep(s) PROVE users'.eventAt >= users.eventAt
  BY <1>1, <1>9 DEF SubscriptionStep, billingVars
<1>10. CASE UNCHANGED vars BY <1>1, <1>10 DEF vars, billingVars
<1> QED BY <1>6, <1>7, <1>8, <1>9, <1>10 DEF Next

\* stripe_event_at never goes back, whichever UPDATE runs.
THEOREM Watermark == Spec => WatermarkMonotone
<1>1. TInv /\ [Next]_vars => [users'.eventAt >= users.eventAt]_vars BY WatermarkStep
<1> QED BY <1>1, Typed, PTL DEF Spec, WatermarkMonotone

-----------------------------------------------------------------------------
(* Each event is applied once.                                             *)

\* Strengthening: what was mailed about is in the ledger and no longer worked on.
MailedIsOver ==
  \A m \in mails : m.event \in ledger /\ \A h \in Handlers : IsIdle(h) \/ Ev(h).id # m.event

\* The event of an invocation is in the ledger, and no other invocation works on it; the
\* ledger has the events that were begun, each of them once.
OneAtWork ==
  /\ \A h \in Handlers : IsIdle(h) \/ Ev(h).id \in ledger
  /\ \A g, h \in Handlers : IsIdle(g) \/ IsIdle(h) \/ g = h \/ Ev(g).id # Ev(h).id
Counted == \A i \in 1..MaxEvents : begun[i] = IF i \in ledger THEN 1 ELSE 0

OInv == TInv /\ OneAtWork /\ Counted /\ MailedIsOver /\ EndedMailOnce

\* After the ledger insert an invocation keeps its event until it ends.
LEMMA KeepsEvent ==
  ASSUME TInv, NEW h \in Handlers,
         \/ Link(h) \/ FillLookup(h) \/ Fill(h) \/ Apply(h) \/ StrayCheck(h)
         \/ ReadAccount(h) \/ EndLookup(h) \/ EndWrite(h) \/ Notify(h) \/ Crash(h)
  PROVE  /\ ~IsIdle(h) /\ ledger' = ledger /\ begun' = begun
         /\ IsIdle(h)' \/ Ev(h)' = Ev(h)
         /\ \A g \in Handlers \ {h} : job'[g] = job[g]
<1>0. job \in [Handlers -> Job] BY DEF TInv, TypeOK
<1>1. ~IsIdle(h)
  BY DEF Link, FillLookup, Fill, Apply, StrayCheck, ReadAccount, EndLookup, EndWrite, Notify, Crash,
         At, IsIdle
<1>2. ledger' = ledger /\ begun' = begun
  BY DEF Link, FillLookup, Fill, Apply, StrayCheck, ReadAccount, EndLookup, EndWrite, Notify, Crash, Frame
<1>3. \/ job' = [job EXCEPT ![h] = Idle]
      \/ \E pc : job' = [job EXCEPT ![h].pc = pc]
      \/ \E pc, sure, pick : job' = [job EXCEPT ![h].pc = pc, ![h].sure = sure, ![h].pick = pick]
      \/ \E pc, plan : job' = [job EXCEPT ![h].pc = pc, ![h].plan = plan]
  BY DEF Link, FillLookup, Fill, Apply, StrayCheck, ReadAccount, EndLookup, EndWrite, Notify, Crash,
         Ack, Goto
<1>4. job[h] \in [pc : Phases, ev : Event, pick : LiveSub \cup {NoPick},
                  sure : BOOLEAN, plan : Plans \cup {NoPick}]
  BY <1>1, JobShape DEF TInv
<1>5. IsIdle(h)' \/ Ev(h)' = Ev(h)
  <2>1. CASE job' = [job EXCEPT ![h] = Idle] BY <1>0, <2>1 DEF Idle, IsIdle
  <2>2. ASSUME NEW pc, job' = [job EXCEPT ![h].pc = pc] PROVE Ev(h)' = Ev(h)
    BY <1>0, <1>4, <2>2 DEF Ev
  <2>3. ASSUME NEW pc, NEW sure, NEW pick,
               job' = [job EXCEPT ![h].pc = pc, ![h].sure = sure, ![h].pick = pick]
        PROVE  Ev(h)' = Ev(h)
    BY <1>0, <1>4, <2>3 DEF Ev
  <2>4. ASSUME NEW pc, NEW plan, job' = [job EXCEPT ![h].pc = pc, ![h].plan = plan]
        PROVE  Ev(h)' = Ev(h)
    BY <1>0, <1>4, <2>4 DEF Ev
  <2> QED BY <1>3, <2>1, <2>2, <2>3, <2>4
<1>6. \A g \in Handlers \ {h} : job'[g] = job[g] BY <1>0, <1>3
<1> QED BY <1>1, <1>2, <1>5, <1>6

LEMMA OnceInit == Init => OInv
<1> SUFFICES ASSUME Init PROVE OInv OBVIOUS
<1>1. \A h \in Handlers : IsIdle(h) BY DEF Init, IsIdle, Idle
<1> QED BY <1>1, InitTyped DEF Init, OInv, OneAtWork, Counted, MailedIsOver, EndedMailOnce

LEMMA OnceStep == OInv /\ TInv' /\ [Next]_vars => OInv'
<1> SUFFICES ASSUME OInv, TInv', [Next]_vars PROVE (OneAtWork /\ Counted /\ MailedIsOver /\ EndedMailOnce)'
  BY DEF OInv
<1>0. OneAtWork /\ Counted /\ MailedIsOver /\ EndedMailOnce /\ TInv BY DEF OInv
<1>1. ASSUME NEW h \in Handlers, NEW e \in outbox, Receive(h, e)
      PROVE  (OneAtWork /\ Counted /\ MailedIsOver /\ EndedMailOnce)'
  <2>0. mails' = mails /\ job \in [Handlers -> Job] BY <1>0, <1>1 DEF Receive, TInv, TypeOK
  <2>1. CASE Duplicate(e)
    <3>1. UNCHANGED <<job, ledger, begun>> BY <1>1, <2>1 DEF Receive
    <3> QED BY <1>0, <2>0, <3>1 DEF OneAtWork, Counted, MailedIsOver, EndedMailOnce, IsIdle, Ev
  <2>2. CASE ~Duplicate(e)
    <3>1. e.id \notin ledger /\ ledger' = ledger \cup {e.id}
      BY <1>1, <2>2 DEF Receive, Duplicate
    <3>2. /\ job'[h].ev = e /\ IsIdle(h)
          /\ \A g \in Handlers \ {h} : job'[g] = job[g]
      BY <1>1, <2>0, <2>2 DEF Receive
    <3>3. OneAtWork' BY <1>0, <3>1, <3>2 DEF OneAtWork, IsIdle, Ev
    <3>4. MailedIsOver' BY <1>0, <2>0, <3>1, <3>2 DEF MailedIsOver, IsIdle, Ev
    <3>5. Counted'
      <4>1. begun' = [begun EXCEPT ![e.id] = @ + 1] /\ begun \in [1..MaxEvents -> Nat]
        BY <1>0, <1>1, <2>2 DEF Receive, TInv, TypeOK
      <4> QED BY <1>0, <3>1, <4>1 DEF Counted
    <3> QED BY <1>0, <2>0, <3>3, <3>4, <3>5 DEF EndedMailOnce
  <2> QED BY <2>1, <2>2
<1>2. ASSUME NEW h \in Handlers,
             \/ Link(h) \/ FillLookup(h) \/ Fill(h) \/ Apply(h) \/ StrayCheck(h)
             \/ ReadAccount(h) \/ EndLookup(h) \/ EndWrite(h) \/ Crash(h)
      PROVE  (OneAtWork /\ Counted /\ MailedIsOver /\ EndedMailOnce)'
  <2>1. mails' = mails
    BY <1>2 DEF Link, FillLookup, Fill, Apply, StrayCheck, ReadAccount, EndLookup, EndWrite, Crash
  <2>2. /\ ~IsIdle(h) /\ ledger' = ledger /\ begun' = begun
        /\ IsIdle(h)' \/ Ev(h)' = Ev(h)
        /\ \A g \in Handlers \ {h} : job'[g] = job[g]
    BY <1>0, <1>2, KeepsEvent
  <2> QED BY <1>0, <2>1, <2>2 DEF OneAtWork, Counted, MailedIsOver, EndedMailOnce, IsIdle, Ev
<1>3. ASSUME NEW h \in Handlers, Notify(h) PROVE (OneAtWork /\ Counted /\ MailedIsOver /\ EndedMailOnce)'
  <2>0. job \in [Handlers -> Job] BY <1>0 DEF TInv, TypeOK
  <2>1. /\ ~IsIdle(h) /\ ledger' = ledger /\ begun' = begun
        /\ \A g \in Handlers \ {h} : job'[g] = job[g]
    BY <1>0, <1>3, KeepsEvent
  <2>2. IsIdle(h)' BY <1>3, <2>0 DEF Notify, Ack, IsIdle, Idle
  <2>3. \/ mails' = mails
        \/ mails' = mails \cup {[event |-> Ev(h).id, plan |-> job[h].plan]}
    BY <1>3 DEF Notify
  <2>4. Ev(h).id \in ledger /\ \A m \in mails : m.event # Ev(h).id
    BY <1>0, <2>1 DEF OneAtWork, MailedIsOver
  <2>5. OneAtWork' BY <1>0, <2>1, <2>2 DEF OneAtWork, IsIdle, Ev
  <2>6. \A g \in Handlers : IsIdle(g)' \/ Ev(g)' # Ev(h) \/ g = h
    BY <1>0, <2>1, <2>2 DEF OneAtWork, IsIdle, Ev
  <2>7. \A g \in Handlers : IsIdle(g)' \/ (Ev(g).id)' # Ev(h).id
    BY <1>0, <2>1, <2>2 DEF OneAtWork, IsIdle, Ev
  <2>8. MailedIsOver'
    <3>1. \A m \in mails : m.event \in ledger /\ \A g \in Handlers : IsIdle(g)' \/ (Ev(g).id)' # m.event
      BY <1>0, <2>1, <2>2 DEF MailedIsOver, IsIdle, Ev
    <3> QED BY <2>1, <2>3, <2>4, <2>7, <3>1 DEF MailedIsOver
  <2>9. EndedMailOnce' BY <1>0, <2>3, <2>4 DEF EndedMailOnce
  <2>10. Counted' BY <1>0, <2>1 DEF Counted
  <2> QED BY <2>5, <2>8, <2>9, <2>10
<1>4. CASE UNCHANGED <<job, ledger, begun, mails>>
  BY <1>0, <1>4 DEF OneAtWork, Counted, MailedIsOver, EndedMailOnce, IsIdle, Ev
<1>5. ASSUME NEW k \in Checkouts, CheckoutStep(k) PROVE UNCHANGED <<job, ledger, begun, mails>>
  BY <1>5 DEF CheckoutStep, CheckoutRead, CheckoutLook, CheckoutFails, CheckoutMove, CheckoutBuy,
              SessionPaid, SessionReported, SessionExpires, billingVars
<1>6. ASSUME NEW s \in Subs, SubscriptionStep(s) PROVE UNCHANGED <<job, ledger, begun, mails>>
  BY <1>6 DEF SubscriptionStep, billingVars
<1>7. CASE UNCHANGED vars BY <1>4, <1>7 DEF vars, billingVars
<1> QED BY <1>1, <1>2, <1>3, <1>4, <1>5, <1>6, <1>7 DEF Next, HandlerStep

LEMMA Once == Spec => []OInv
<1>1. OInv /\ [Next]_vars => OInv' BY StepTyped, OnceStep DEF OInv
<1> QED BY <1>1, OnceInit, PTL DEF Spec

\* However often, and however concurrently, Stripe delivers an event, at once, one delivery
\* after the other or after a crash, one invocation in all gets past the ledger with it.
THEOREM EventsAppliedOnce == Spec => []AppliedOnce
<1>1. OInv => AppliedOnce BY DEF OInv, Counted, AppliedOnce
<1> QED BY <1>1, Once, PTL

\* One deletion is mailed about at most once, redeliveries and crashes notwithstanding.
THEOREM MailedOnce == Spec => []EndedMailOnce
<1>1. OInv => EndedMailOnce BY DEF OInv
<1> QED BY <1>1, Once, PTL

-----------------------------------------------------------------------------
(* A free row is blank, as long as one invocation runs at a time.           *)

\* One invocation at a time, as a fact about the invocations.
AtMostOne == world.alone => \A g, h \in Handlers : IsIdle(g) \/ IsIdle(h) \/ g = h

\* A session being linked has just set a paid plan, and nobody else runs.
LinkingIsPaid ==
  world.alone => \A h \in Handlers : At(h, "fillLookup") \/ At(h, "fill") => users.plan # Free

BInv == TInv /\ AtMostOne /\ FreeRowIsBlank /\ LinkingIsPaid

LEMMA Blank == Spec => []BInv
<1>1. Init => BInv
  BY InitTyped DEF Init, BInv, AtMostOne, FreeRowIsBlank, LinkingIsPaid, At, IsIdle, Idle
<1>2. BInv /\ [Next]_vars => BInv'
  <2> SUFFICES ASSUME BInv, [Next]_vars, TInv'
               PROVE  (AtMostOne /\ FreeRowIsBlank /\ LinkingIsPaid)'
    BY StepTyped DEF BInv
  <2>0. /\ TInv /\ AtMostOne /\ FreeRowIsBlank /\ LinkingIsPaid
        /\ users \in Row /\ job \in [Handlers -> Job]
    BY DEF BInv, TInv, TypeOK
  \* A step of the only invocation there is.
  <2>1. ASSUME NEW h \in Handlers, world' = world, \A g \in Handlers \ {h} : job'[g] = job[g],
               world.alone => \A g \in Handlers \ {h} : IsIdle(g),
               world.alone =>
                 /\ users'.plan = Free =>
                      users'.sub = NoSub /\ users'.renews = NoDate /\ ~users'.cancel
                 /\ job'[h].pc \in {"fillLookup", "fill"} => users'.plan # Free
        PROVE  (AtMostOne /\ FreeRowIsBlank /\ LinkingIsPaid)'
    BY <2>1 DEF AtMostOne, FreeRowIsBlank, LinkingIsPaid, At, IsIdle
  <2>2. ASSUME NEW h \in Handlers, ~IsIdle(h)
        PROVE  world.alone => \A g \in Handlers \ {h} : IsIdle(g)
    BY <2>0, <2>2 DEF AtMostOne
  <2>3. ASSUME NEW h \in Handlers, NEW e \in outbox, Receive(h, e)
        PROVE  (AtMostOne /\ FreeRowIsBlank /\ LinkingIsPaid)'
    <3>1. users' = users /\ Branch(e) \notin {"fillLookup", "fill"}
      BY <2>3 DEF Receive, Branch
    <3>2. IsIdle(h) /\ (job'[h] = job[h] \/ job'[h].pc = Branch(e)) BY <2>0, <2>3 DEF Receive
    <3>3. /\ world' = world /\ \A g \in Handlers \ {h} : job'[g] = job[g]
          /\ world.alone => \A g \in Handlers \ {h} : IsIdle(g)
      BY <2>0, <2>3 DEF Receive
    <3>4. job'[h].pc \notin {"fillLookup", "fill"} BY <3>1, <3>2 DEF IsIdle
    <3> QED BY <2>0, <2>1, <3>1, <3>3, <3>4 DEF FreeRowIsBlank
  <2>4. ASSUME NEW h \in Handlers, \/ Link(h) \/ FillLookup(h) \/ Fill(h) \/ Apply(h)
               \/ StrayCheck(h) \/ ReadAccount(h) \/ EndLookup(h) \/ EndWrite(h) \/ Notify(h)
               \/ Crash(h)
        PROVE  (AtMostOne /\ FreeRowIsBlank /\ LinkingIsPaid)'
    <3>1. ~IsIdle(h) /\ \A g \in Handlers \ {h} : job'[g] = job[g]
      BY <2>0, <2>4, KeepsEvent
    <3>2. world' = world
      BY <2>4 DEF Link, FillLookup, Fill, Apply, StrayCheck, ReadAccount, EndLookup, EndWrite,
                  Notify, Crash, Frame
    <3>3. /\ job[h] \in [pc : Phases, ev : Event,
             pick : LiveSub \cup {NoPick}, sure : BOOLEAN, plan : Plans \cup {NoPick}]
          /\ Ev(h).tier \in Tiers
      BY <2>0, <3>1, JobShape DEF TInv
    <3> SUFFICES world.alone =>
                   /\ users'.plan = Free =>
                        users'.sub = NoSub /\ users'.renews = NoDate /\ ~users'.cancel
                   /\ job'[h].pc \in {"fillLookup", "fill"} => users'.plan # Free
      BY <2>1, <2>2, <3>1, <3>2
    <3>4. CASE Link(h)
      <4>1. users'.plan # Free BY <2>0, <3>3, <3>4 DEF Link, Linked, Row
      <4> QED BY <4>1
    <3>5. CASE FillLookup(h)
      <4>1. users' = users /\ (world.alone => users.plan # Free)
        BY <2>0, <3>5 DEF FillLookup, LinkingIsPaid
      <4> QED BY <4>1
    <3>6. CASE Fill(h)
      <4>1. world.alone => users'.plan # Free BY <2>0, <3>6 DEF Fill, LinkingIsPaid, Row
      <4> QED BY <4>1
    <3>7. CASE Apply(h)
      <4>1. world.alone /\ users'.plan = Free =>
              users'.sub = NoSub /\ users'.renews = NoDate /\ ~users'.cancel
        BY <2>0, <3>3, <3>7 DEF Apply, Applied, FreeRowIsBlank, Row
      <4>2. job'[h].pc = "idle" BY <2>0, <3>7 DEF Apply, Ack, Idle
      <4> QED BY <4>1, <4>2
    <3>8. CASE EndWrite(h)
      <4>1. job[h].pick # NoPick => job[h].pick.tier \in Tiers BY <3>3 DEF LiveSub
      <4>2. users' = Ended(Ev(h), job[h].pick) BY <3>8 DEF EndWrite
      <4>3. world.alone /\ users'.plan = Free =>
              users'.sub = NoSub /\ users'.renews = NoDate /\ ~users'.cancel
        BY <2>0, <4>1, <4>2 DEF Ended, Applied, FreeRowIsBlank, Row, NoDate
      <4>4. job'[h].pc \in {"idle", "mail"}
        BY <2>0, <3>3, <3>8 DEF EndWrite, Ack, Goto, Idle
      <4> QED BY <4>3, <4>4
    <3>9. CASE StrayCheck(h) \/ ReadAccount(h) \/ EndLookup(h) \/ Notify(h) \/ Crash(h)
      <4>1. users' = users BY <3>9 DEF StrayCheck, ReadAccount, EndLookup, Notify, Crash
      <4>2. job'[h].pc \in {"idle", "account", "endLookup", "end"}
        <5>1. CASE job' = [job EXCEPT ![h] = Idle] BY <2>0, <5>1 DEF Idle
        <5>2. ASSUME NEW pc \in {"account", "endLookup"}, job' = [job EXCEPT ![h].pc = pc]
              PROVE  job'[h].pc = pc
          BY <2>0, <3>3, <5>2
        <5>3. CASE ReadAccount(h) BY <2>0, <3>3, <5>3 DEF ReadAccount
        <5>4. CASE EndLookup(h) BY <2>0, <3>3, <5>4 DEF EndLookup
        <5> QED BY <3>9, <5>1, <5>2, <5>3, <5>4 DEF StrayCheck, Notify, Crash, Ack, Goto
      <4> QED BY <2>0, <4>1, <4>2 DEF FreeRowIsBlank
    <3> QED BY <2>4, <3>4, <3>5, <3>6, <3>7, <3>8, <3>9
  <2>5. CASE UNCHANGED <<users, job, world>>
    BY <2>0, <2>5 DEF AtMostOne, FreeRowIsBlank, LinkingIsPaid, At, IsIdle
  <2>6. ASSUME NEW k \in Checkouts, CheckoutStep(k) PROVE UNCHANGED <<users, job, world>>
    BY <2>6 DEF CheckoutStep, CheckoutRead, CheckoutLook, CheckoutFails, CheckoutMove, CheckoutBuy,
                SessionPaid, SessionReported, SessionExpires, billingVars
  <2>7. ASSUME NEW s \in Subs, SubscriptionStep(s) PROVE UNCHANGED <<users, job, world>>
    BY <2>7 DEF SubscriptionStep, billingVars
  <2>8. CASE UNCHANGED vars BY <2>5, <2>8 DEF vars, billingVars
  <2> QED BY <2>3, <2>4, <2>5, <2>6, <2>7, <2>8 DEF Next, HandlerStep
<1> QED BY <1>1, <1>2, PTL DEF Spec

\* What two invocations can break holds while one delivery is handled at a time.
THEOREM FreeRowBlankSequentially == Spec => []FreeRowIsBlank
<1>1. BInv => FreeRowIsBlank BY DEF BInv
<1> QED BY <1>1, Blank, PTL

-----------------------------------------------------------------------------
(* What is reported and not worked off, and who changes what.              *)

\* Events Stripe still repeats, or an invocation works on.
Pending == outbox \cup {Ev(h) : h \in {g \in Handlers : ~IsIdle(g)}}

LEMMA PendingTyped ==
  ASSUME TypeOK
  PROVE  Pending \subseteq Event
<1>1. \A h \in Handlers : ~IsIdle(h) => Ev(h) \in Event BY JobShape
<1>2. outbox \subseteq Event BY DEF TypeOK, StripeTypeOK
<1> QED BY <1>1, <1>2 DEF Pending

\* The webhook works events off; nothing of Stripe and no checkout changes.
LEMMA HandlerKeeps ==
  ASSUME TInv, NEW h \in Handlers, HandlerStep(h) \/ Crash(h)
  PROVE  /\ UNCHANGED <<subscription, clock, emitted, checkout, world>>
         /\ outbox' \subseteq outbox
         /\ Pending' \subseteq Pending
         /\ \A g \in Handlers \ {h} : job'[g] = job[g]
<1>0. job \in [Handlers -> Job] BY DEF TInv, TypeOK
<1>1. UNCHANGED <<subscription, clock, emitted, checkout, world>>
  <2>1. CASE \E e \in outbox : Receive(h, e) BY <2>1 DEF Receive
  <2>2. CASE Crash(h) BY <2>2 DEF Crash, stripeVars
  <2>3. CASE \/ Link(h) \/ FillLookup(h) \/ Fill(h) \/ Apply(h)
             \/ StrayCheck(h) \/ ReadAccount(h) \/ EndLookup(h) \/ EndWrite(h) \/ Notify(h)
    BY <2>3 DEF Link, FillLookup, Fill, Apply, StrayCheck, ReadAccount, EndLookup, EndWrite, Notify, Frame
  <2> QED BY <2>1, <2>2, <2>3 DEF HandlerStep
<1>2. outbox' \subseteq outbox
  <2>1. CASE \E e \in outbox : Receive(h, e) BY <2>1 DEF Receive
  <2>2. CASE Crash(h) BY <2>2 DEF Crash, stripeVars
  <2>3. CASE \/ Link(h) \/ FillLookup(h) \/ Fill(h) \/ Apply(h)
             \/ StrayCheck(h) \/ ReadAccount(h) \/ EndLookup(h) \/ EndWrite(h) \/ Notify(h)
    BY <2>3 DEF Link, FillLookup, Fill, Apply, StrayCheck, ReadAccount, EndLookup, EndWrite, Notify, Ack, Goto
  <2> QED BY <2>1, <2>2, <2>3 DEF HandlerStep
<1>3. ASSUME NEW e \in outbox, Receive(h, e)
      PROVE  /\ \A g \in Handlers \ {h} : job'[g] = job[g]
             /\ IsIdle(h)' \/ Ev(h)' = e
  <2>1. IsIdle(h) BY <1>3 DEF Receive
  <2>2. CASE Duplicate(e) BY <1>3, <2>1, <2>2 DEF Receive, IsIdle
  <2>3. CASE ~Duplicate(e)
    <3> DEFINE next == [pc |-> Branch(e), ev |-> e, pick |-> NoPick, sure |-> FALSE, plan |-> NoPick]
    <3>1. job' = [job EXCEPT ![h] = next] BY <1>3, <2>3 DEF Receive
    <3> QED BY <1>0, <3>1 DEF Ev
  <2> QED BY <2>2, <2>3
<1>4. ASSUME ~\E e \in outbox : Receive(h, e)
      PROVE  /\ \A g \in Handlers \ {h} : job'[g] = job[g]
             /\ ~IsIdle(h) /\ (IsIdle(h)' \/ Ev(h)' = Ev(h))
  BY <1>4, KeepsEvent DEF HandlerStep
<1>5. \A g \in Handlers \ {h} : job'[g] = job[g] BY <1>3, <1>4
<1>6. \A g \in Handlers \ {h} : IsIdle(g)' = IsIdle(g) /\ Ev(g)' = Ev(g) BY <1>5 DEF IsIdle, Ev
<1>7. IsIdle(h)' \/ Ev(h)' \in Pending BY <1>3, <1>4 DEF Pending
<1>8. ASSUME NEW g \in Handlers, ~IsIdle(g)' PROVE Ev(g)' \in Pending
  BY <1>6, <1>7, <1>8 DEF Pending
<1>9. Pending' \subseteq Pending
  <2>1. Pending' = outbox' \cup {Ev(g)' : g \in {f \in Handlers : ~IsIdle(f)'}} BY DEF Pending
  <2>2. outbox' \subseteq Pending BY <1>2 DEF Pending
  <2> QED BY <1>8, <2>1, <2>2
<1> QED BY <1>1, <1>2, <1>5, <1>9

\* The event Emit adds.
Report(type, s, after) ==
  [id |-> emitted + 1, type |-> type, created |-> clock, cust |-> after.cust,
   sub |-> s, tier |-> after.tier, status |-> after.status,
   cancel |-> after.cancelAtPeriodEnd, period |-> after.period]

\* While the webhook rests, an emission adds its report and nothing else.
LEMMA Emitted ==
  ASSUME TInv, UNCHANGED billingVars, NEW type, NEW s, NEW after, Emit(type, s, after)
  PROVE  /\ outbox' = outbox \cup {Report(type, s, after)}
         /\ Pending' = Pending \cup {Report(type, s, after)}
         /\ emitted' = emitted + 1 /\ clock' \in {clock, clock + 1}
         /\ emitted \in Nat /\ clock \in Nat /\ clock <= emitted
<1>1. outbox' = outbox \cup {Report(type, s, after)} BY DEF Emit, Report
<1>2. \A h \in Handlers : IsIdle(h)' = IsIdle(h) /\ Ev(h)' = Ev(h) BY DEF billingVars, IsIdle, Ev
<1>3. Pending' = outbox' \cup {Ev(h) : h \in {g \in Handlers : ~IsIdle(g)}} BY <1>2 DEF Pending
<1>4. emitted' = emitted + 1 /\ clock' \in {clock, clock + 1} BY DEF Emit
<1>5. emitted \in Nat /\ clock \in Nat /\ clock <= emitted BY DEF TInv, TypeOK, StripeTypeOK
<1> QED BY <1>1, <1>3, <1>4, <1>5 DEF Pending

\* Nothing pending is added where neither the outbox nor an invocation changes.
LEMMA PendingStays ==
  ASSUME UNCHANGED <<outbox, job>>
  PROVE  Pending' = Pending
<1>1. \A h \in Handlers : IsIdle(h)' = IsIdle(h) /\ Ev(h)' = Ev(h) BY DEF IsIdle, Ev
<1> QED BY <1>1 DEF Pending

\* Subscription s exists, is not canceled, and becomes `after`: whom it belongs to and when
\* it was created stay, and it is live afterwards as long as before or from now on.
Alters(s, after) ==
  /\ Change(s, after)
  /\ subscription[s].status \in Statuses \ {"canceled"}
  /\ after.status \in Statuses /\ after.cust \in Customers
  /\ after.cust = subscription[s].cust /\ after.born = subscription[s].born
  /\ after.status \in ENTITLED_STATUSES =>
       \/ Live(s) /\ after.since = subscription[s].since
       \/ after.since = clock

\* What befalls a subscription at Stripe is of that kind.
LEMMA SubscriptionAlters ==
  ASSUME TInv, NEW s \in Subs, SubscriptionStep(s)
  PROVE  /\ UNCHANGED <<billingVars, checkout>>
         /\ \A k \in Checkouts : checkout[k].pc = "paid" => checkout[k].sub # s
         /\ \E after \in Subscription : Alters(s, after)
<1> DEFINE sb == subscription[s]
<1>1. /\ sb \in Subscription /\ StripeTypeOK /\ clock \in 0..MaxEvents
      /\ \A r \in Subs : subscription[r].status # "none" => subscription[r].cust \in Customers
  BY DEF TInv, TypeOK, StripeTypeOK, CustomerKnown
<1>2. \E after \in Subscription : Alters(s, after)
  <2>1. CASE Renew(s)
    <3> DEFINE a == [sb EXCEPT !.status = "active", !.period = @ + 1]
    <3>1. sb.status \in Statuses \ {"canceled"} /\ sb.period + 1 \in 0..MaxPeriod /\ Live(s)
      BY <1>1, <2>1 DEF Renew, Live, ENTITLED_STATUSES, Subscription, Statuses
    <3>2. /\ a \in Subscription /\ a.status \in Statuses /\ a.cust \in Customers
          /\ a.cust = sb.cust /\ a.born = sb.born /\ a.since = sb.since
      BY <1>1, <3>1 DEF Subscription, Statuses
    <3>3. Change(s, a) BY <2>1 DEF Renew
    <3> HIDE DEF a
    <3> QED BY <3>1, <3>2, <3>3 DEF Alters
  <2>2. CASE PaymentFails(s)
    <3> DEFINE a == [sb EXCEPT !.status = "past_due"]
    <3>1. sb.status \in Statuses \ {"canceled"} /\ Live(s)
      BY <1>1, <2>2 DEF PaymentFails, Live, ENTITLED_STATUSES, Statuses
    <3>2. /\ a \in Subscription /\ a.status \in Statuses /\ a.cust \in Customers
          /\ a.cust = sb.cust /\ a.born = sb.born /\ a.since = sb.since
      BY <1>1, <3>1 DEF Subscription, Statuses
    <3>3. Change(s, a) BY <2>2 DEF PaymentFails
    <3> HIDE DEF a
    <3> QED BY <3>1, <3>2, <3>3 DEF Alters
  <2>3. CASE GiveUp(s)
    <3> DEFINE a == [sb EXCEPT !.status = "unpaid"]
    <3>1. sb.status \in Statuses \ {"canceled"} /\ Live(s)
      BY <1>1, <2>3 DEF GiveUp, Live, ENTITLED_STATUSES, Statuses
    <3>2. /\ a \in Subscription /\ a.status \in Statuses /\ a.cust \in Customers
          /\ a.cust = sb.cust /\ a.born = sb.born /\ a.since = sb.since
      BY <1>1, <3>1 DEF Subscription, Statuses
    <3>3. Change(s, a) BY <2>3 DEF GiveUp
    <3> HIDE DEF a
    <3> QED BY <3>1, <3>2, <3>3 DEF Alters
  <2>4. CASE Recover(s)
    <3> DEFINE a == [sb EXCEPT !.status = "active", !.since = clock]
    <3>1. sb.status \in Statuses \ {"canceled"}
      BY <1>1, <2>4 DEF Recover, Statuses
    <3>2. /\ a \in Subscription /\ a.status \in Statuses /\ a.cust \in Customers
          /\ a.cust = sb.cust /\ a.born = sb.born /\ a.since = clock
      BY <1>1, <3>1 DEF Subscription, Statuses
    <3>3. Change(s, a) BY <2>4 DEF Recover
    <3> HIDE DEF a
    <3> QED BY <3>1, <3>2, <3>3 DEF Alters
  <2>5. CASE PortalCancel(s)
    <3> DEFINE a == [sb EXCEPT !.cancelAtPeriodEnd = TRUE]
    <3>1. sb.status \in Statuses \ {"canceled"} /\ Live(s)
      BY <1>1, <2>5 DEF PortalCancel, Live, ENTITLED_STATUSES, Subscription, Statuses
    <3>2. /\ a \in Subscription /\ a.status \in Statuses /\ a.cust \in Customers
          /\ a.cust = sb.cust /\ a.born = sb.born /\ a.since = sb.since
      BY <1>1, <3>1 DEF Subscription, Statuses
    <3>3. Change(s, a) BY <2>5 DEF PortalCancel
    <3> HIDE DEF a
    <3> QED BY <3>1, <3>2, <3>3 DEF Alters
  <2>6. CASE End(s)
    <3> DEFINE a == [sb EXCEPT !.status = "canceled"]
    <3>1. sb.status \in Statuses \ {"canceled"}
      BY <2>6 DEF End
    <3>2. /\ a \in Subscription /\ a.status \in Statuses /\ a.cust \in Customers
          /\ a.cust = sb.cust /\ a.born = sb.born /\ a.status \notin ENTITLED_STATUSES
      BY <1>1, <3>1 DEF Subscription, Statuses, ENTITLED_STATUSES
    <3>3. Change(s, a) BY <2>6 DEF End
    <3> HIDE DEF a
    <3> QED BY <3>1, <3>2, <3>3 DEF Alters
  <2> QED BY <2>1, <2>2, <2>3, <2>4, <2>5, <2>6 DEF SubscriptionStep, StripeStep
<1> QED BY <1>2 DEF SubscriptionStep

\* So is what a checkout moves onto another Price.
LEMMA MoveAlters ==
  ASSUME TInv, NEW k \in Checkouts, CheckoutMove(k)
  PROVE  /\ UNCHANGED billingVars
         /\ checkout[k].pc = "move" /\ checkout' = [checkout EXCEPT ![k].pc = "done"]
         /\ checkout[k].sub \in Subs
         /\ \/ UNCHANGED stripeVars
            \/ \E after \in Subscription :
                 /\ Alters(checkout[k].sub, after)
                 /\ after.status = subscription[checkout[k].sub].status
                 /\ after.cancelAtPeriodEnd => subscription[checkout[k].sub].cancelAtPeriodEnd
<1> DEFINE c == checkout[k]
           s == c.sub
           sb == subscription[s]
           a == [sb EXCEPT !.tier = c.tier, !.cancelAtPeriodEnd = @ /\ ~c.resuming]
<1>1. /\ c.pc = "move" /\ checkout' = [checkout EXCEPT ![k].pc = "done"] /\ UNCHANGED billingVars
  BY DEF CheckoutMove
<1>2. /\ s \in Subs /\ sb.status # "none" /\ sb \in Subscription /\ sb.cust \in Customers
      /\ c.tier \in Tiers /\ c.resuming \in BOOLEAN
  BY <1>1 DEF TInv, TypeOK, StripeTypeOK, CustomerKnown
<1>3. ASSUME sb.status # "canceled"
      PROVE  \E after \in Subscription :
               /\ Alters(s, after) /\ after.status = sb.status
               /\ after.cancelAtPeriodEnd => sb.cancelAtPeriodEnd
  <2>1. sb.status \in Statuses \ {"canceled"} BY <1>2, <1>3 DEF Subscription
  <2>2. /\ a \in Subscription /\ a.status = sb.status /\ a.cust = sb.cust /\ a.born = sb.born
        /\ a.since = sb.since
    BY <1>2 DEF Subscription
  <2>5. a.cancelAtPeriodEnd => sb.cancelAtPeriodEnd
    BY <1>2 DEF Subscription
  <2>3. Change(s, a) BY <1>3 DEF CheckoutMove
  <2>4. a.status \in ENTITLED_STATUSES => Live(s) BY <2>2 DEF Live
  <2> HIDE DEF a
  <2> QED BY <1>2, <2>1, <2>2, <2>3, <2>4, <2>5 DEF Alters
<1>4. CASE sb.status = "canceled" BY <1>1, <1>2, <1>4 DEF CheckoutMove
<1> QED BY <1>1, <1>2, <1>3, <1>4

\* A subscription as it is when a session has just been paid.
Purchase(c, t) ==
  [status |-> "active", cust |-> c, tier |-> t, cancelAtPeriodEnd |-> FALSE,
   period |-> 1, born |-> emitted + 1, since |-> clock]

\* Whose session is paid: the attached customer, or one that has no subscription.
LEMMA PaidBuys ==
  ASSUME TInv, NEW k \in Checkouts, SessionPaid(k)
  PROVE  /\ UNCHANGED billingVars /\ checkout[k].pc = "open"
         /\ \E s \in Subs, c \in Customers :
              /\ IF checkout[k].cust = NoCust THEN \A r \in Subs : subscription[r].cust # c
                 ELSE c = checkout[k].cust
              /\ subscription[s].status = "none"
              /\ Change(s, Purchase(c, checkout[k].tier))
              /\ Purchase(c, checkout[k].tier) \in Subscription
              /\ checkout' = [checkout EXCEPT ![k].pc = "paid", ![k].cust = c, ![k].sub = s]
<1>1. UNCHANGED billingVars /\ checkout[k].pc = "open" BY DEF SessionPaid
<1>2. PICK s \in Subs, c \in Customers :
        /\ IF checkout[k].cust = NoCust THEN \A r \in Subs : subscription[r].cust # c
           ELSE c = checkout[k].cust
        /\ Create(s, c, checkout[k].tier)
        /\ checkout' = [checkout EXCEPT ![k].pc = "paid", ![k].cust = c, ![k].sub = s]
  BY DEF SessionPaid
<1>3. Change(s, Purchase(c, checkout[k].tier)) /\ subscription[s].status = "none"
  BY <1>2 DEF Create, Purchase
<1>4. /\ emitted + 1 \in 0..MaxEvents /\ 1 \in 0..MaxPeriod /\ clock \in 0..MaxEvents
      /\ checkout[k].tier \in Tiers
  BY <1>3 DEF Change, Emit, TInv, TypeOK, StripeTypeOK
<1>5. Purchase(c, checkout[k].tier) \in Subscription
  BY <1>4 DEF Purchase, Subscription, Statuses
<1> QED BY <1>1, <1>2, <1>3, <1>5

\* The session that was paid is reported; no subscription changes.
LEMMA ReportedSession ==
  ASSUME TInv, NEW k \in Checkouts, SessionReported(k)
  PROVE  /\ UNCHANGED <<billingVars, subscription>> /\ checkout[k].pc = "paid"
         /\ checkout[k].sub \in Subs /\ subscription[checkout[k].sub].status # "none"
         /\ checkout' = [checkout EXCEPT ![k].pc = "done"]
         /\ \E after : /\ after = [subscription[checkout[k].sub] EXCEPT
                                     !.tier = checkout[k].tier, !.status = "active"]
                       /\ Emit("session", checkout[k].sub, after)
BY DEF SessionReported, TInv, CustomerKnown

\* Every other step of a checkout concerns its own request alone.
LEMMA CheckoutKeeps ==
  ASSUME NEW k \in Checkouts, CheckoutStep(k)
  PROVE  \/ /\ UNCHANGED <<stripeVars, billingVars>>
            /\ \/ \E t \in Tiers : CheckoutRead(k, t)
               \/ CheckoutLook(k) \/ CheckoutFails(k) \/ CheckoutBuy(k) \/ SessionExpires(k)
         \/ CheckoutMove(k) \/ SessionPaid(k) \/ SessionReported(k)
<1>1. ASSUME \E t \in Tiers : CheckoutRead(k, t) PROVE UNCHANGED <<stripeVars, billingVars>>
  BY <1>1 DEF CheckoutRead
<1>2. ASSUME CheckoutLook(k) \/ CheckoutFails(k) \/ CheckoutBuy(k) \/ SessionExpires(k)
      PROVE  UNCHANGED <<stripeVars, billingVars>>
  BY <1>2 DEF CheckoutLook, CheckoutFails, CheckoutBuy, SessionExpires
<1> QED BY <1>1, <1>2 DEF CheckoutStep

-----------------------------------------------------------------------------
(* A plan is dropped only when nothing else was live.                      *)

\* The event says that its subscription does not entitle any more.
Ending(e) == e.type = "deleted" \/ (e.type = "updated" /\ e.status \notin ENTITLED_STATUSES)

EventsPast == \A e \in Pending : e.created <= clock

\* A subscription that is live although an event about its end is on the way became live
\* after it.
LiveSince ==
  \A e \in Pending : Ending(e) /\ Live(e.sub) => subscription[e.sub].since >= e.created

EndsOnly ==
  \A h \in Handlers : job[h].pc \in {"stray", "account", "endLookup", "end"} => Ending(Ev(h))

\* What the lookup did not see has become live since the event.
NothingLeft ==
  \A h \in Handlers : At(h, "end") /\ job[h].sure /\ job[h].pick = NoPick =>
    \A s \in LiveOf(Ev(h).cust) : s # Ev(h).sub => subscription[s].since >= Ev(h).created

DInv == TInv /\ EventsPast /\ LiveSince /\ EndsOnly /\ NothingLeft

\* Whatever Stripe emits: a subscription is live afterwards because it was, or from now on.
LEMMA DropReports ==
  ASSUME DInv, TInv', UNCHANGED billingVars, NEW type, NEW s \in Subs, NEW after, Emit(type, s, after),
         Ending(Report(type, s, after)) => ~Live(s)',
         \A r \in Subs : Live(r)' =>
           \/ Live(r) /\ (subscription[r].since)' = subscription[r].since
                      /\ (subscription[r].cust)' = subscription[r].cust
           \/ (subscription[r].since)' = clock
  PROVE  DInv'
<1> DEFINE new == Report(type, s, after)
<1>0. /\ TInv /\ EventsPast /\ LiveSince /\ EndsOnly /\ NothingLeft
      /\ Pending \subseteq Event
  BY PendingTyped DEF DInv, TInv
<1>1. /\ Pending' = Pending \cup {new} /\ clock \in Nat /\ clock' \in Nat /\ clock <= clock'
  BY <1>0, Emitted
<1>2. new.created = clock /\ new.sub = s BY DEF Report
<1>3. \A e \in Pending : e.created \in Nat /\ e.sub \in Subs BY <1>0 DEF Event
<1> HIDE DEF new
<1>4. EventsPast' BY <1>0, <1>1, <1>2, <1>3 DEF EventsPast
<1>5. LiveSince'
  <2> SUFFICES ASSUME NEW e \in Pending', Ending(e), Live(e.sub)'
               PROVE  (subscription[e.sub].since)' >= e.created
    BY DEF LiveSince, Ending
  <2>1. CASE e = new BY <1>2, <2>1 DEF new
  <2>2. CASE e \in Pending
    <3>1. e.created <= clock /\ e.created \in Nat /\ e.sub \in Subs BY <1>0, <1>3, <2>2 DEF EventsPast
    <3>2. Live(e.sub) => subscription[e.sub].since >= e.created BY <1>0, <2>2 DEF LiveSince
    <3> QED BY <1>1, <3>1, <3>2
  <2> QED BY <1>1, <2>1, <2>2
<1>6. \A h \in Handlers : At(h, "end") => Ev(h) \in Pending
  BY DEF Pending, At, IsIdle
<1>7. NothingLeft'
  <2>1. job' = job BY DEF billingVars
  <2>2. ASSUME NEW h \in Handlers, At(h, "end"), job[h].sure, job[h].pick = NoPick,
               NEW r \in Subs, Live(r)', subscription'[r].cust = Ev(h).cust, r # Ev(h).sub
        PROVE  subscription'[r].since >= Ev(h).created
    <3>1. Ev(h).created <= clock /\ Ev(h).created \in Nat BY <1>0, <1>3, <1>6, <2>2 DEF EventsPast
    <3>2. CASE Live(r) /\ subscription'[r].since = subscription[r].since
                       /\ subscription'[r].cust = subscription[r].cust
      <4>1. r \in LiveOf(Ev(h).cust) BY <2>2, <3>2 DEF LiveOf
      <4> QED BY <1>0, <2>2, <3>2, <4>1 DEF NothingLeft
    <3>3. CASE subscription'[r].since = clock BY <1>1, <3>1, <3>3
    <3> QED BY <2>2, <3>2, <3>3
  <2> QED BY <2>1, <2>2 DEF NothingLeft, LiveOf, Live, At, Ev
<1>8. EndsOnly' BY <1>0 DEF EndsOnly, billingVars, Ev, Ending
<1> QED BY <1>4, <1>5, <1>7, <1>8 DEF DInv

\* A change of an existing subscription.
LEMMA DropAlters ==
  ASSUME DInv, TInv', UNCHANGED billingVars, NEW s \in Subs, NEW after \in Subscription, Alters(s, after)
  PROVE  DInv'
<1> DEFINE type == IF after.status = "canceled" THEN "deleted" ELSE "updated"
<1>1. subscription \in [Subs -> Subscription] BY DEF DInv, TInv, TypeOK, StripeTypeOK
<1>2. Emit(type, s, after) /\ subscription' = [subscription EXCEPT ![s] = after]
  BY DEF Alters, Change
<1>3. Report(type, s, after).status = after.status /\ Report(type, s, after).type = type
  BY DEF Report
<1>4. subscription'[s] = after /\ \A r \in Subs \ {s} : subscription'[r] = subscription[r]
  BY <1>1, <1>2
<1>5. Ending(Report(type, s, after)) => ~Live(s)'
  BY <1>3, <1>4 DEF Ending, Live, ENTITLED_STATUSES
<1>6. \A r \in Subs : Live(r)' =>
        \/ Live(r) /\ (subscription[r].since)' = subscription[r].since
                   /\ (subscription[r].cust)' = subscription[r].cust
        \/ (subscription[r].since)' = clock
  BY <1>4 DEF Live, Alters
<1> HIDE DEF type
<1> QED BY <1>2, <1>5, <1>6, DropReports

LEMMA DropStep == DInv /\ TInv' /\ [Next]_vars => DInv'
<1> SUFFICES ASSUME DInv, TInv', [Next]_vars PROVE DInv' OBVIOUS
<1>0. /\ TInv /\ EventsPast /\ LiveSince /\ EndsOnly /\ NothingLeft /\ job \in [Handlers -> Job]
      /\ TypeOK
  BY DEF DInv, TInv, TypeOK
<1>1. ASSUME NEW h \in Handlers, HandlerStep(h) \/ Crash(h) PROVE DInv'
  <2>1. /\ UNCHANGED <<subscription, clock>> /\ Pending' \subseteq Pending
        /\ \A g \in Handlers \ {h} : job'[g] = job[g]
    BY <1>0, <1>1, HandlerKeeps
  <2>2. EventsPast' BY <1>0, <2>1 DEF EventsPast
  <2>3. LiveSince' BY <1>0, <2>1 DEF LiveSince, Live
  \* What the stepping invocation holds afterwards.
  <2>4. ASSUME job'[h].pc \in {"stray", "account", "endLookup", "end"} => Ending(job'[h].ev),
               /\ job'[h].pc = "end" /\ job'[h].sure /\ job'[h].pick = NoPick
               => \A s \in LiveOf(job'[h].ev.cust) :
                    s # job'[h].ev.sub => subscription[s].since >= job'[h].ev.created
        PROVE  DInv'
    <3>1. EndsOnly' BY <1>0, <2>1, <2>4 DEF EndsOnly, Ev, Ending
    <3>2. \A c : LiveOf(c)' = LiveOf(c) BY <2>1 DEF LiveOf, Live
    <3>3. NothingLeft' BY <1>0, <2>1, <2>4, <3>2 DEF NothingLeft, Ev, At
    <3> QED BY <2>2, <2>3, <3>1, <3>3 DEF DInv
  <2>5. CASE job'[h].pc \notin {"stray", "account", "endLookup", "end"}
    BY <2>4, <2>5
  <2>6. CASE job'[h] = job[h] BY <1>0, <2>4, <2>6 DEF EndsOnly, NothingLeft, Ev, At
  <2>7. ASSUME NEW e \in outbox, Receive(h, e) PROVE DInv'
    <3>1. CASE Duplicate(e) BY <2>6, <2>7, <3>1 DEF Receive
    <3>2. CASE ~Duplicate(e)
      <4> DEFINE next == [pc |-> Branch(e), ev |-> e, pick |-> NoPick, sure |-> FALSE, plan |-> NoPick]
      <4>1. job' = [job EXCEPT ![h] = next] BY <2>7, <3>2 DEF Receive
      <4>2. job'[h] = next BY <1>0, <4>1
      <4>3. next.pc = Branch(e) /\ next.ev = e OBVIOUS
      <4>6. e.type \in {"session", "updated", "deleted"}
        BY <1>0 DEF TypeOK, StripeTypeOK, Event
      <4>4. Branch(e) \in {"link", "apply", "stray"} BY DEF Branch
      <4>5. Branch(e) = "stray" => Ending(e) BY <4>6 DEF Branch, Ending
      <4> HIDE DEF next
      <4> QED BY <2>4, <4>2, <4>3, <4>4, <4>5
    <3> QED BY <3>1, <3>2
  <2>8. ASSUME job' = [job EXCEPT ![h] = Idle] PROVE DInv'
    <3>1. job'[h].pc = "idle" BY <1>0, <2>8 DEF Idle
    <3> QED BY <2>5, <3>1
  <2>9. ASSUME ~IsIdle(h), NEW pc, pc \in {"stray", "account", "endLookup", "end"} => Ending(Ev(h)),
               pc # "end", job' = [job EXCEPT ![h].pc = pc]
        PROVE  DInv'
    <3>1. job[h] \in [pc : Phases, ev : Event, pick : LiveSub \cup {NoPick},
                        sure : BOOLEAN, plan : Plans \cup {NoPick}]
      BY <1>0, <2>9, JobShape
    <3>2. job'[h].pc = pc /\ job'[h].ev = Ev(h) BY <1>0, <2>9, <3>1 DEF Ev
    <3> QED BY <2>4, <2>9, <3>2
  <2>10. CASE Link(h)
    <3>1. ~IsIdle(h) /\ job' = [job EXCEPT ![h].pc = "fillLookup"] BY <2>10 DEF Link, Goto, At, IsIdle
    <3> QED BY <2>9, <3>1
  <2>11. CASE FillLookup(h)
    <3>1. CASE Ack(h) BY <2>8, <3>1 DEF Ack
    <3>2. ASSUME NEW sure, NEW pick,
                 job' = [job EXCEPT ![h].pc = "fill", ![h].sure = sure, ![h].pick = pick]
          PROVE  DInv'
      <4>1. ~IsIdle(h) BY <2>11 DEF FillLookup, At, IsIdle
      <4>2. job'[h].pc = "fill" BY <1>0, <3>2, <4>1, JobShape
      <4> QED BY <2>5, <4>2
    <3> QED BY <2>11, <3>1, <3>2 DEF FillLookup
  <2>12. CASE Fill(h) \/ Apply(h) \/ Notify(h) BY <2>8, <2>12 DEF Fill, Apply, Notify, Ack
  <2>13. CASE StrayCheck(h)
    <3>1. ~IsIdle(h) /\ Ending(Ev(h)) BY <1>0, <2>13 DEF StrayCheck, At, IsIdle, EndsOnly
    <3>2. CASE Ack(h) BY <2>8, <3>2 DEF Ack
    <3>3. ASSUME NEW pc \in {"account", "endLookup"}, Goto(h, pc) PROVE DInv'
      BY <2>9, <3>1, <3>3 DEF Goto
    <3> QED BY <2>13, <3>2, <3>3 DEF StrayCheck
  <2>14. CASE ReadAccount(h)
    <3>1. ~IsIdle(h) /\ Ending(Ev(h)) BY <1>0, <2>14 DEF ReadAccount, At, IsIdle, EndsOnly
    <3>2. PICK plan : job' = [job EXCEPT ![h].pc = "endLookup", ![h].plan = plan]
      BY <2>14 DEF ReadAccount
    <3>3. job[h] \in [pc : Phases, ev : Event, pick : LiveSub \cup {NoPick},
                        sure : BOOLEAN, plan : Plans \cup {NoPick}]
      BY <1>0, <3>1, JobShape
    <3>4. job'[h].pc = "endLookup" /\ job'[h].ev = Ev(h) BY <1>0, <3>2, <3>3 DEF Ev
    <3> QED BY <2>4, <3>1, <3>4
  <2>15. CASE EndLookup(h)
    <3>1. ~IsIdle(h) /\ Ending(Ev(h)) BY <1>0, <2>15 DEF EndLookup, At, IsIdle, EndsOnly
    <3>2. PICK l \in Lookup(Ev(h).cust) :
            \E keep \in IF Remaining(Ev(h), l.live) = {} THEN {NoPick}
                        ELSE {Snapshot(s) : s \in Newest(Remaining(Ev(h), l.live))} :
              job' = [job EXCEPT ![h].pc = "end", ![h].sure = l.sure, ![h].pick = keep]
      BY <2>15 DEF EndLookup
    <3>3. PICK keep \in IF Remaining(Ev(h), l.live) = {} THEN {NoPick}
                       ELSE {Snapshot(s) : s \in Newest(Remaining(Ev(h), l.live))} :
              job' = [job EXCEPT ![h].pc = "end", ![h].sure = l.sure, ![h].pick = keep]
      BY <3>2
    <3>4. job[h] \in [pc : Phases, ev : Event, pick : LiveSub \cup {NoPick},
                        sure : BOOLEAN, plan : Plans \cup {NoPick}]
      BY <1>0, <3>1, JobShape
    <3>5. /\ job'[h].pc = "end" /\ job'[h].ev = Ev(h) /\ job'[h].sure = l.sure
          /\ job'[h].pick = keep
      BY <1>0, <3>3, <3>4 DEF Ev
    <3>6. l.sure => l.live = LiveOf(Ev(h).cust)
      <4>1. CASE l = [sure |-> TRUE, live |-> LiveOf(Ev(h).cust)] BY <4>1
      <4>2. CASE l = [sure |-> FALSE, live |-> {}] BY <4>2
      <4> QED BY <3>2, <4>1, <4>2 DEF Lookup
    <3>7. keep = NoPick => Remaining(Ev(h), l.live) = {}
      <4>1. \A s \in l.live : s \in Subs /\ Live(s) BY <3>2, LookupTyped
      <4>2. ASSUME Remaining(Ev(h), l.live) # {} PROVE keep \in LiveSub
        BY <1>0, <3>3, <4>1, <4>2, SnapshotTyped DEF Remaining, Newest
      <4> QED BY <4>2, PickAssumption
    <3>8. job'[h].sure /\ job'[h].pick = NoPick => \A s \in LiveOf(Ev(h).cust) : s = Ev(h).sub
      BY <3>5, <3>6, <3>7 DEF Remaining
    <3> QED BY <2>4, <3>1, <3>5, <3>8
  <2>16. CASE EndWrite(h)
    <3>1. CASE Ack(h) BY <2>8, <3>1 DEF Ack
    <3>2. CASE Goto(h, "mail")
      <4>1. ~IsIdle(h) BY <2>16 DEF EndWrite, At, IsIdle
      <4> QED BY <2>9, <3>2, <4>1 DEF Goto
    <3> QED BY <2>16, <3>1, <3>2 DEF EndWrite
  <2>17. CASE Crash(h) BY <2>8, <2>17 DEF Crash
  <2> QED BY <1>1, <2>7, <2>10, <2>11, <2>12, <2>13, <2>14, <2>15, <2>16, <2>17 DEF HandlerStep
<1>2. CASE UNCHANGED <<stripeVars, billingVars>>
  <2>1. Pending' = Pending BY <1>2, PendingStays DEF stripeVars, billingVars
  <2>2. \A c : LiveOf(c)' = LiveOf(c) BY <1>2 DEF stripeVars, LiveOf, Live
  <2>3. EventsPast' BY <1>0, <1>2, <2>1 DEF EventsPast, stripeVars
  <2>4. LiveSince' BY <1>0, <1>2, <2>1 DEF LiveSince, Live, stripeVars
  <2>5. EndsOnly' BY <1>0, <1>2 DEF EndsOnly, billingVars, Ev, Ending
  <2>6. NothingLeft' BY <1>0, <1>2, <2>2 DEF NothingLeft, billingVars, stripeVars, Ev, At
  <2> QED BY <2>3, <2>4, <2>5, <2>6 DEF DInv
<1>3. ASSUME NEW k \in Checkouts, CheckoutStep(k) PROVE DInv'
  <2>1. CASE UNCHANGED <<stripeVars, billingVars>> BY <1>2, <2>1
  <2>2. CASE CheckoutMove(k)
    <3>1. UNCHANGED billingVars /\ checkout[k].sub \in Subs BY <1>0, <2>2, MoveAlters
    <3>2. \/ UNCHANGED stripeVars
          \/ \E after \in Subscription : Alters(checkout[k].sub, after)
      BY <1>0, <2>2, MoveAlters
    <3> QED BY <1>2, <3>1, <3>2, DropAlters
  <2>3. CASE SessionPaid(k)
    <3>1. UNCHANGED billingVars BY <1>0, <2>3, PaidBuys
    <3>2. PICK s \in Subs, c \in Customers :
            subscription[s].status = "none" /\ Change(s, Purchase(c, checkout[k].tier))
      BY <1>0, <2>3, PaidBuys
    <3> DEFINE after == Purchase(c, checkout[k].tier)
    <3>3. after.status = "active" /\ after.since = clock BY DEF Purchase
    <3>4. subscription \in [Subs -> Subscription] BY <1>0 DEF TypeOK, StripeTypeOK
    <3> HIDE DEF after
    <3>5. Emit("updated", s, after) /\ subscription' = [subscription EXCEPT ![s] = after]
      BY <3>2, <3>3 DEF Change, after
    <3>6. subscription'[s] = after /\ \A r \in Subs \ {s} : subscription'[r] = subscription[r]
      BY <3>4, <3>5
    <3>7. ~Ending(Report("updated", s, after))
      BY <3>3 DEF Ending, Report, ENTITLED_STATUSES
    <3>8. \A r \in Subs : Live(r)' =>
            \/ Live(r) /\ (subscription[r].since)' = subscription[r].since
                       /\ (subscription[r].cust)' = subscription[r].cust
            \/ (subscription[r].since)' = clock
      BY <3>3, <3>6 DEF Live
    <3> QED BY <3>1, <3>5, <3>7, <3>8, DropReports
  <2>4. CASE SessionReported(k)
    <3>1. UNCHANGED <<billingVars, subscription>> /\ checkout[k].sub \in Subs
      BY <1>0, <2>4, ReportedSession
    <3>2. PICK after : Emit("session", checkout[k].sub, after) BY <1>0, <2>4, ReportedSession
    <3>3. ~Ending(Report("session", checkout[k].sub, after)) BY DEF Ending, Report
    <3>4. \A r \in Subs : Live(r)' => Live(r) BY <3>1 DEF Live
    <3> QED BY <3>1, <3>2, <3>3, <3>4, DropReports
  <2> QED BY <1>3, <2>1, <2>2, <2>3, <2>4, CheckoutKeeps
<1>4. ASSUME NEW s \in Subs, SubscriptionStep(s) PROVE DInv'
  <2>1. UNCHANGED billingVars /\ \E after \in Subscription : Alters(s, after)
    BY <1>0, <1>4, SubscriptionAlters
  <2> QED BY <2>1, DropAlters
<1>5. CASE UNCHANGED vars BY <1>2, <1>5 DEF vars
<1> QED BY <1>1, <1>3, <1>4, <1>5 DEF Next

LEMMA Dropped == Spec => []DInv
<1>1. Init => DInv
  <2> SUFFICES ASSUME Init PROVE DInv OBVIOUS
  <2>1. outbox = {} /\ \A h \in Handlers : job[h].pc = "idle"
    BY DEF Init, StripeInit, Idle
  <2>2. Pending = {} BY <2>1 DEF Pending, IsIdle
  <2> QED BY <2>1, <2>2, InitTyped DEF DInv, EventsPast, LiveSince, EndsOnly, NothingLeft, At
<1>2. DInv /\ [Next]_vars => DInv' BY StepTyped, DropStep DEF DInv
<1> QED BY <1>1, <1>2, PTL DEF Spec

\* The webhook takes a plan away only at the end of a subscription, and when its lookup was
\* answered every other subscription of the customer became live after the event.
THEOREM DropsOnlyTheLast == Spec => DropOnlyWhenNothingElseLive
<1>3. ASSUME DInv, [Next]_vars, users.plan # Free, users'.plan = Free
      PROVE  \E h \in Handlers :
               /\ At(h, "end")
               /\ job[h].sure => \A s \in LiveOf(users.customer) : subscription[s].since >= Ev(h).created
  <2>0. /\ TInv /\ LiveSince /\ EndsOnly /\ NothingLeft /\ TypeOK /\ users \in Row
    BY <1>3 DEF DInv, TInv, TypeOK
  <2>1. ASSUME NEW h \in Handlers, HandlerStep(h) \/ Crash(h) PROVE EndWrite(h)
    <3>1. CASE Link(h)
      <4>1. ~IsIdle(h) BY <3>1 DEF Link, At, IsIdle
      <4>2. users'.plan = Ev(h).tier BY <2>0, <3>1 DEF Link, Linked, Row
      <4> QED BY <1>3, <2>0, <4>1, <4>2, JobShape
    <3>2. CASE Apply(h)
      <4>1. ~IsIdle(h) BY <3>2 DEF Apply, At, IsIdle
      <4>2. users'.plan \in {users.plan, Ev(h).tier} BY <2>0, <3>2 DEF Apply, Applied, Row
      <4> QED BY <1>3, <2>0, <4>1, <4>2, JobShape
    <3>3. CASE Fill(h) BY <1>3, <2>0, <3>3 DEF Fill, Row
    <3> QED BY <1>3, <2>1, <3>1, <3>2, <3>3
         DEF HandlerStep, Receive, FillLookup, StrayCheck, ReadAccount, EndLookup, Notify, Crash
  <2>2. ASSUME NEW h \in Handlers, EndWrite(h)
        PROVE  /\ At(h, "end")
               /\ job[h].sure => \A s \in LiveOf(users.customer) : subscription[s].since >= Ev(h).created
    <3>1. ~IsIdle(h) /\ At(h, "end") /\ Ending(Ev(h)) /\ users' = Ended(Ev(h), job[h].pick)
      BY <2>0, <2>2 DEF EndWrite, At, IsIdle, EndsOnly
    <3>2. job[h].pick \in LiveSub \cup {NoPick} BY <2>0, <3>1, JobShape
    <3>3. Matches(Ev(h)) BY <1>3, <3>1 DEF Ended, Applied
    <3>4. job[h].pick = NoPick
      <4> SUFFICES ASSUME job[h].pick \in LiveSub, job[h].pick # NoPick PROVE FALSE BY <3>2
      <4>1. job[h].pick.tier \in Tiers BY DEF LiveSub
      <4>2. users'.plan = job[h].pick.tier BY <2>0, <3>1, <3>3 DEF Ended, Applied, Row
      <4> QED BY <1>3, <4>1, <4>2
    <3>5. users.customer = Ev(h).cust BY <3>3 DEF Matches
    <3>6. ASSUME NEW s \in LiveOf(users.customer), job[h].sure
          PROVE  subscription[s].since >= Ev(h).created
      <4>1. s \in LiveOf(Ev(h).cust) /\ Live(s) BY <3>5 DEF LiveOf
      <4>2. CASE s # Ev(h).sub BY <2>0, <3>1, <3>4, <3>6, <4>1, <4>2 DEF NothingLeft
      <4>3. CASE s = Ev(h).sub
        <5>1. Ev(h) \in Pending BY <3>1 DEF Pending
        <5> QED BY <2>0, <3>1, <4>1, <4>3, <5>1 DEF LiveSince
      <4> QED BY <4>2, <4>3
    <3> QED BY <3>1, <3>6
  <2>3. CASE UNCHANGED billingVars BY <1>3, <2>3 DEF billingVars
  <2>4. ASSUME NEW k \in Checkouts, CheckoutStep(k) PROVE UNCHANGED billingVars
    BY <2>0, <2>4, CheckoutKeeps, MoveAlters, PaidBuys, ReportedSession
  <2>5. ASSUME NEW s \in Subs, SubscriptionStep(s) PROVE UNCHANGED billingVars
    BY <2>5 DEF SubscriptionStep
  <2>6. CASE UNCHANGED vars BY <2>3, <2>6 DEF vars
  <2> QED BY <1>3, <2>1, <2>2, <2>3, <2>4, <2>5, <2>6 DEF Next
<1>4. DInv /\ [Next]_vars =>
        [users.plan # Free /\ users'.plan = Free =>
           \E h \in Handlers :
             /\ At(h, "end")
             /\ job[h].sure => \A s \in LiveOf(users.customer) : subscription[s].since >= Ev(h).created]_vars
  BY <1>3
<1> QED BY <1>4, Dropped, PTL DEF Spec, DropOnlyWhenNothingElseLive

-----------------------------------------------------------------------------
(* Checkouts that do not overlap never sell a second subscription.         *)

Ongoing(k) == checkout[k].pc \notin {"idle", "done"}
OneCheckout == ~world.overlap => \A j, k \in Checkouts : Ongoing(j) /\ Ongoing(k) => j = k
BornPast == \A s \in Subs : subscription[s].born <= emitted

\* Neither do checkouts overlap nor do events share a second.
Distinct == ~world.overlap /\ clock = emitted

\* What the look-up of a checkout that is about to buy did not find is not there: whatever
\* became live since had lapsed.
BuysAlone ==
  Distinct => \A k \in Checkouts : checkout[k].pc \in {"buy", "open"} =>
                \A s \in LiveOf(checkout[k].cust) : ~NeverLapsed(s)

OneNeverLapsed ==
  Distinct => \A r, s \in Subs :
    Live(r) /\ NeverLapsed(r) /\ Live(s) /\ NeverLapsed(s)
      /\ subscription[r].cust = subscription[s].cust => r = s

CInv == TInv /\ OneCheckout /\ BornPast /\ BuysAlone /\ OneNeverLapsed

\* A change of an existing subscription makes none live that never lapsed.
LEMMA LapsedStays ==
  ASSUME CInv, UNCHANGED billingVars, NEW s \in Subs, NEW after \in Subscription, Alters(s, after)
  PROVE  /\ BornPast' /\ (Distinct' => Distinct)
         /\ \A r \in Subs : (subscription[r].cust)' = subscription[r].cust
         /\ Distinct' => \A r \in Subs : Live(r)' /\ NeverLapsed(r)' => Live(r) /\ NeverLapsed(r)
<1> DEFINE type == IF after.status = "canceled" THEN "deleted" ELSE "updated"
<1>0. TInv /\ BornPast /\ subscription \in [Subs -> Subscription]
  BY DEF CInv, TInv, TypeOK, StripeTypeOK
<1>1. Emit(type, s, after) /\ subscription' = [subscription EXCEPT ![s] = after]
  BY DEF Alters, Change
<1> HIDE DEF type
<1>2. /\ emitted' = emitted + 1 /\ clock' \in {clock, clock + 1}
      /\ emitted \in Nat /\ clock \in Nat /\ clock <= emitted
  BY <1>0, <1>1, Emitted
<1>3. subscription'[s] = after /\ \A r \in Subs \ {s} : subscription'[r] = subscription[r]
  BY <1>0, <1>1
<1>4. \A r \in Subs : subscription[r].born \in Nat /\ subscription[r].since \in Nat
  BY <1>0 DEF Subscription
<1>5. after.cust = subscription[s].cust /\ after.born = subscription[s].born BY DEF Alters
<1>6. BornPast' BY <1>0, <1>2, <1>3, <1>4, <1>5 DEF BornPast
<1>7. Distinct' => Distinct BY <1>2 DEF Distinct, billingVars
<1>8. \A r \in Subs : subscription'[r].cust = subscription[r].cust BY <1>3, <1>5
<1>9. ASSUME Distinct', NEW r \in Subs, Live(r)', NeverLapsed(r)' PROVE Live(r) /\ NeverLapsed(r)
  <2>1. CASE r # s BY <1>3, <1>9, <2>1 DEF Live, NeverLapsed
  <2>2. CASE r = s
    <3>1. after.status \in ENTITLED_STATUSES /\ after.since < subscription[s].born
      BY <1>3, <1>5, <1>9, <2>2 DEF Live, NeverLapsed
    <3>2. subscription[s].born <= emitted /\ clock = emitted
      BY <1>0, <1>7, <1>9 DEF BornPast, Distinct
    <3>3. after.since # clock BY <1>2, <1>4, <3>1, <3>2
    <3>4. Live(s) /\ after.since = subscription[s].since BY <3>1, <3>3 DEF Alters
    <3> QED BY <2>2, <3>1, <3>4 DEF NeverLapsed
  <2> QED BY <2>1, <2>2
<1> QED BY <1>6, <1>7, <1>8, <1>9

LEMMA SoldStep == CInv /\ TInv' /\ [Next]_vars => CInv'
<1> SUFFICES ASSUME CInv, TInv', [Next]_vars PROVE CInv' OBVIOUS
<1>0. /\ TInv /\ TypeOK /\ OneCheckout /\ BornPast /\ BuysAlone /\ OneNeverLapsed
      /\ checkout \in [Checkouts -> CheckoutRecord]
      /\ subscription \in [Subs -> Subscription]
      /\ \A s \in Subs : Live(s) => subscription[s].cust # NoCust
  BY DEF CInv, TInv, TypeOK, StripeTypeOK, CheckoutRecord, CustomerKnown, Live, ENTITLED_STATUSES
<1>1. CASE UNCHANGED <<subscription, clock, emitted, checkout, world>>
  <2>1. \A k : Ongoing(k)' = Ongoing(k) BY <1>1 DEF Ongoing
  <2>2. \A c : LiveOf(c)' = LiveOf(c) BY <1>1 DEF LiveOf, Live
  <2>3. \A s : NeverLapsed(s)' = NeverLapsed(s) BY <1>1 DEF NeverLapsed
  <2>4. OneCheckout' BY <1>0, <1>1, <2>1 DEF OneCheckout
  <2>5. BornPast' BY <1>0, <1>1 DEF BornPast
  <2>6. BuysAlone' BY <1>0, <1>1, <2>2, <2>3 DEF BuysAlone, Distinct
  <2>7. OneNeverLapsed' BY <1>0, <1>1, <2>3 DEF OneNeverLapsed, Distinct, Live
  <2> QED BY <2>4, <2>5, <2>6, <2>7 DEF CInv
\* A change of an existing subscription, by Stripe or by a checkout that ends with it.
<1>2. ASSUME UNCHANGED billingVars, NEW s \in Subs, NEW after \in Subscription, Alters(s, after),
             \A k \in Checkouts : checkout'[k] = checkout[k] \/ checkout'[k].pc = "done"
      PROVE  CInv'
  <2>1. /\ BornPast' /\ (Distinct' => Distinct)
        /\ \A r \in Subs : (subscription[r].cust)' = subscription[r].cust
    BY <1>2, LapsedStays
  <2>2. Distinct' => \A r \in Subs : Live(r)' /\ NeverLapsed(r)' => Live(r) /\ NeverLapsed(r)
    BY <1>2, LapsedStays
  <2>3. OneCheckout' BY <1>0, <1>2 DEF OneCheckout, Ongoing, billingVars
  <2>4. ASSUME Distinct', NEW k \in Checkouts, checkout'[k].pc \in {"buy", "open"},
               NEW r \in Subs, Live(r)', subscription'[r].cust = checkout'[k].cust
        PROVE  ~NeverLapsed(r)'
    <3>1. checkout'[k] = checkout[k] BY <1>2, <2>4
    <3>2. Live(r) => r \in LiveOf(checkout[k].cust) BY <2>1, <2>4, <3>1 DEF LiveOf
    <3> QED BY <1>0, <2>1, <2>2, <2>4, <3>1, <3>2 DEF BuysAlone
  <2>5. BuysAlone' BY <2>4 DEF BuysAlone, LiveOf
  <2>6. OneNeverLapsed' BY <1>0, <2>1, <2>2 DEF OneNeverLapsed
  <2> QED BY <2>1, <2>3, <2>5, <2>6 DEF CInv
\* A step of one checkout that leaves Stripe alone.
<1>3. ASSUME UNCHANGED <<stripeVars, billingVars>>, NEW k \in Checkouts, NEW next,
             checkout' = [checkout EXCEPT ![k] = next],
             ~world.overlap /\ next.pc \notin {"idle", "done"} =>
               Ongoing(k) \/ \A j \in Checkouts : ~Ongoing(j),
             next.pc \in {"buy", "open"} =>
               \/ LiveOf(next.cust) = {}
               \/ checkout[k].pc = "buy" /\ next.cust = checkout[k].cust
      PROVE  CInv'
  <2>1. checkout'[k] = next /\ \A j \in Checkouts \ {k} : checkout'[j] = checkout[j] BY <1>0, <1>3
  <2>2. \A c : LiveOf(c)' = LiveOf(c) BY <1>3 DEF LiveOf, Live, stripeVars
  <2>3. \A s : NeverLapsed(s)' = NeverLapsed(s) BY <1>3 DEF NeverLapsed, stripeVars
  <2>4. OneCheckout' BY <1>0, <1>3, <2>1 DEF OneCheckout, Ongoing, billingVars
  <2>5. BornPast' BY <1>0, <1>3 DEF BornPast, stripeVars
  <2>6. Distinct' = Distinct BY <1>3 DEF Distinct, stripeVars, billingVars
  <2>7. ASSUME Distinct, NEW j \in Checkouts, checkout'[j].pc \in {"buy", "open"}
        PROVE  \A s \in LiveOf(checkout'[j].cust) : ~NeverLapsed(s)
    BY <1>0, <1>3, <2>1, <2>7 DEF BuysAlone
  <2>8. BuysAlone' BY <2>2, <2>3, <2>6, <2>7 DEF BuysAlone
  <2>9. OneNeverLapsed' BY <1>0, <1>3, <2>3, <2>6 DEF OneNeverLapsed, Live, stripeVars
  <2> QED BY <2>4, <2>5, <2>8, <2>9 DEF CInv
<1>4. ASSUME NEW k \in Checkouts, NEW t \in Tiers, CheckoutRead(k, t) PROVE CInv'
  <2> DEFINE next == [pc |-> "look", cust |-> users.customer, sub |-> users.sub, tier |-> t,
                      resuming |-> FALSE]
  <2>1. checkout' = [checkout EXCEPT ![k] = next] /\ UNCHANGED <<stripeVars, billingVars>>
    BY <1>4 DEF CheckoutRead
  <2>2. ~world.overlap => \A j \in Checkouts : ~Ongoing(j) BY <1>4 DEF CheckoutRead, Ongoing
  <2>3. next.pc = "look" OBVIOUS
  <2> HIDE DEF next
  <2> QED BY <1>3, <2>1, <2>2, <2>3
<1>5. ASSUME NEW k \in Checkouts, CheckoutLook(k) PROVE CInv'
  <2>0. /\ UNCHANGED <<stripeVars, billingVars>> /\ Ongoing(k) /\ checkout[k] \in CheckoutRecord
    BY <1>0, <1>5 DEF CheckoutLook, Ongoing
  <2>1. CASE LiveOf(checkout[k].cust) = {} /\ checkout' = [checkout EXCEPT ![k].pc = "buy"]
    <3> DEFINE next == [checkout[k] EXCEPT !.pc = "buy"]
    <3>1. next.pc = "buy" /\ next.cust = checkout[k].cust BY <2>0 DEF CheckoutRecord
    <3>2. checkout' = [checkout EXCEPT ![k] = next] BY <1>0, <2>1
    <3> HIDE DEF next
    <3> QED BY <1>3, <2>0, <2>1, <3>1, <3>2
  <2>2. CASE checkout' = [checkout EXCEPT ![k].pc = "done"]
    <3> DEFINE next == [checkout[k] EXCEPT !.pc = "done"]
    <3>1. next.pc = "done" BY <2>0 DEF CheckoutRecord
    <3>2. checkout' = [checkout EXCEPT ![k] = next] BY <1>0, <2>2
    <3> HIDE DEF next
    <3> QED BY <1>3, <2>0, <3>1, <3>2
  <2>3. ASSUME NEW s, NEW resuming,
               checkout' = [checkout EXCEPT ![k].pc = "move", ![k].sub = s, ![k].resuming = resuming]
        PROVE  CInv'
    <3> DEFINE next == [checkout[k] EXCEPT !.pc = "move", !.sub = s, !.resuming = resuming]
    <3>1. next.pc = "move" BY <2>0 DEF CheckoutRecord
    <3>2. checkout' = [checkout EXCEPT ![k] = next] BY <1>0, <2>3
    <3> HIDE DEF next
    <3> QED BY <1>3, <2>0, <3>1, <3>2
  <2> QED BY <1>5, <2>1, <2>2, <2>3 DEF CheckoutLook
<1>6. ASSUME NEW k \in Checkouts, CheckoutFails(k) \/ SessionExpires(k) PROVE CInv'
  <2> DEFINE next == [checkout[k] EXCEPT !.pc = "done"]
  <2>1. /\ UNCHANGED <<stripeVars, billingVars>> /\ checkout' = [checkout EXCEPT ![k].pc = "done"]
    BY <1>6 DEF CheckoutFails, SessionExpires
  <2>2. checkout' = [checkout EXCEPT ![k] = next] /\ next.pc = "done"
    BY <1>0, <2>1 DEF CheckoutRecord
  <2> HIDE DEF next
  <2> QED BY <1>3, <2>1, <2>2
<1>7. ASSUME NEW k \in Checkouts, CheckoutBuy(k) PROVE CInv'
  <2> DEFINE next == [checkout[k] EXCEPT !.pc = "open"]
  <2>1. /\ UNCHANGED <<stripeVars, billingVars>> /\ checkout' = [checkout EXCEPT ![k].pc = "open"]
        /\ checkout[k].pc = "buy" /\ Ongoing(k)
    BY <1>7 DEF CheckoutBuy, Ongoing
  <2>2. /\ checkout' = [checkout EXCEPT ![k] = next] /\ next.pc = "open"
        /\ next.cust = checkout[k].cust
    BY <1>0, <2>1 DEF CheckoutRecord
  <2> HIDE DEF next
  <2> QED BY <1>3, <2>1, <2>2
<1>8. ASSUME NEW k \in Checkouts, CheckoutMove(k) PROVE CInv'
  <2>1. /\ UNCHANGED billingVars /\ checkout[k].sub \in Subs
        /\ checkout' = [checkout EXCEPT ![k].pc = "done"]
    BY <1>0, <1>8, MoveAlters
  <2>2. \A j \in Checkouts : checkout'[j] = checkout[j] \/ checkout'[j].pc = "done"
    BY <1>0, <2>1 DEF CheckoutRecord
  <2>3. CASE UNCHANGED stripeVars
    <3> DEFINE next == [checkout[k] EXCEPT !.pc = "done"]
    <3>1. checkout' = [checkout EXCEPT ![k] = next] /\ next.pc = "done"
      BY <1>0, <2>1 DEF CheckoutRecord
    <3> HIDE DEF next
    <3> QED BY <1>3, <2>1, <2>3, <3>1
  <2>4. CASE \E after \in Subscription : Alters(checkout[k].sub, after)
    BY <1>2, <2>1, <2>2, <2>4
  <2> QED BY <1>0, <1>8, <2>3, <2>4, MoveAlters
<1>9. ASSUME NEW k \in Checkouts, SessionPaid(k) PROVE CInv'
  <2>1. UNCHANGED billingVars /\ checkout[k].pc = "open" BY <1>0, <1>9, PaidBuys
  <2>2. PICK s \in Subs, c \in Customers :
              /\ IF checkout[k].cust = NoCust THEN \A r \in Subs : subscription[r].cust # c
                 ELSE c = checkout[k].cust
              /\ subscription[s].status = "none"
              /\ Change(s, Purchase(c, checkout[k].tier))
              /\ checkout' = [checkout EXCEPT ![k].pc = "paid", ![k].cust = c, ![k].sub = s]
    BY <1>0, <1>9, PaidBuys
  <2> DEFINE after == Purchase(c, checkout[k].tier)
  <2>3. /\ after.status = "active" /\ after.cust = c /\ after.since = clock
        /\ after.born = emitted + 1
    BY DEF Purchase
  <2> HIDE DEF after
  <2>4. Emit("updated", s, after) /\ subscription' = [subscription EXCEPT ![s] = after]
    BY <2>2, <2>3 DEF Change, after
  <2>5. subscription'[s] = after /\ \A r \in Subs \ {s} : subscription'[r] = subscription[r]
    BY <1>0, <2>4
  <2>6. /\ emitted' = emitted + 1 /\ clock' \in {clock, clock + 1}
        /\ emitted \in Nat /\ clock \in Nat /\ clock <= emitted
    BY <1>0, <2>1, <2>4, Emitted
  <2>7. Distinct' => Distinct BY <2>1, <2>6 DEF Distinct, billingVars
  <2>8. \A r \in Subs : subscription[r].born \in Nat BY <1>0 DEF Subscription
  <2>9. BornPast' BY <1>0, <2>3, <2>5, <2>6, <2>8 DEF BornPast
  <2>10. checkout'[k].pc = "paid" /\ \A j \in Checkouts \ {k} : checkout'[j] = checkout[j]
    BY <1>0, <2>2 DEF CheckoutRecord
  <2>11. Ongoing(k) BY <2>1 DEF Ongoing
  <2>12. OneCheckout' BY <1>0, <2>1, <2>10, <2>11 DEF OneCheckout, Ongoing, billingVars
  <2>13. ASSUME Distinct, NEW j \in Checkouts PROVE checkout'[j].pc \notin {"buy", "open"}
    BY <1>0, <2>10, <2>11, <2>13 DEF OneCheckout, Ongoing, Distinct
  <2>14. BuysAlone' BY <2>7, <2>13 DEF BuysAlone
  <2>15. ASSUME Distinct, NEW r \in Subs \ {s}, Live(r), NeverLapsed(r) PROVE subscription[r].cust # c
    <3>1. CASE checkout[k].cust = NoCust BY <2>2, <2>15, <3>1
    <3>2. CASE checkout[k].cust # NoCust
      <4>1. c = checkout[k].cust BY <2>2, <3>2
      <4> QED BY <1>0, <2>1, <2>15, <4>1 DEF BuysAlone, LiveOf
    <3> QED BY <3>1, <3>2
  <2>16. OneNeverLapsed'
    <3>1. \A r \in Subs \ {s} : Live(r)' = Live(r) /\ NeverLapsed(r)' = NeverLapsed(r)
      BY <2>5 DEF Live, NeverLapsed
    <3> QED BY <1>0, <2>3, <2>5, <2>7, <2>15, <3>1 DEF OneNeverLapsed
  <2> QED BY <2>9, <2>12, <2>14, <2>16 DEF CInv
<1>10. ASSUME NEW k \in Checkouts, SessionReported(k) PROVE CInv'
  <2>1. /\ UNCHANGED <<billingVars, subscription>> /\ checkout' = [checkout EXCEPT ![k].pc = "done"]
    BY <1>0, <1>10, ReportedSession
  <2>2. PICK after : Emit("session", checkout[k].sub, after) BY <1>0, <1>10, ReportedSession
  <2>3. /\ emitted' = emitted + 1 /\ clock' \in {clock, clock + 1}
        /\ emitted \in Nat /\ clock \in Nat /\ clock <= emitted
    BY <1>0, <2>1, <2>2, Emitted
  <2>4. \A j \in Checkouts : checkout'[j] = checkout[j] \/ checkout'[j].pc = "done"
    BY <1>0, <2>1 DEF CheckoutRecord
  <2>5. Distinct' => Distinct BY <2>1, <2>3 DEF Distinct, billingVars
  <2>6. BornPast'
    <3>1. \A r \in Subs : subscription[r].born \in Nat BY <1>0 DEF Subscription
    <3> QED BY <1>0, <2>1, <2>3, <3>1 DEF BornPast
  <2>7. OneCheckout' BY <1>0, <2>1, <2>4 DEF OneCheckout, Ongoing, billingVars
  <2>8. /\ \A c : LiveOf(c)' = LiveOf(c)
        /\ \A s : NeverLapsed(s)' = NeverLapsed(s) /\ Live(s)' = Live(s)
    BY <2>1 DEF LiveOf, Live, NeverLapsed
  <2>9. BuysAlone' BY <1>0, <2>4, <2>5, <2>8 DEF BuysAlone
  <2>10. OneNeverLapsed' BY <1>0, <2>1, <2>5, <2>8 DEF OneNeverLapsed
  <2> QED BY <2>6, <2>7, <2>9, <2>10 DEF CInv
<1>11. ASSUME NEW s \in Subs, SubscriptionStep(s) PROVE CInv'
  <2>1. UNCHANGED <<billingVars, checkout>> /\ \E after \in Subscription : Alters(s, after)
    BY <1>0, <1>11, SubscriptionAlters
  <2> QED BY <1>2, <2>1
<1>12. ASSUME NEW h \in Handlers, HandlerStep(h) \/ Crash(h) PROVE CInv'
  BY <1>0, <1>1, <1>12, HandlerKeeps
<1>13. CASE UNCHANGED vars BY <1>1, <1>13 DEF vars, stripeVars, billingVars
<1> QED BY <1>4, <1>5, <1>6, <1>7, <1>8, <1>9, <1>10, <1>11, <1>12, <1>13 DEF Next, CheckoutStep

\* Checkouts that do not overlap never leave a customer paying for two subscriptions, unless
\* one of them had lapsed.
THEOREM NeverSoldTwice == Spec => []OneLivePerCustomer
<1>1. Init => CInv
  <2> SUFFICES ASSUME Init PROVE CInv OBVIOUS
  <2>1. /\ \A s \in Subs : subscription[s].born = 0 /\ subscription[s].status = "none"
        /\ emitted = 0
    BY DEF Init, StripeInit
  <2>2. \A k \in Checkouts : checkout[k].pc = "idle" BY DEF Init
  <2>3. \A s \in Subs : ~Live(s) BY <2>1 DEF Live, ENTITLED_STATUSES
  <2> QED BY <2>1, <2>2, <2>3, InitTyped
       DEF CInv, OneCheckout, Ongoing, BornPast, BuysAlone, OneNeverLapsed
<1>2. CInv /\ [Next]_vars => CInv' BY StepTyped, SoldStep DEF CInv
<1>3. CInv => OneLivePerCustomer
  <2>1. \A s : Charged(s) => Live(s) BY DEF Charged, Live, ENTITLED_STATUSES
  <2> QED BY <2>1 DEF CInv, OneNeverLapsed, OneLivePerCustomer, Distinct
<1> QED BY <1>1, <1>2, <1>3, PTL DEF Spec

-----------------------------------------------------------------------------
(* What a step of an invocation does to what it holds.                     *)

\* Invocation h starts on event e.
Starts(h, e) ==
  /\ Receive(h, e) /\ ~Duplicate(e) /\ IsIdle(h)
  /\ ledger' = ledger \cup {e.id} /\ outbox' = outbox /\ UNCHANGED <<users, ended, crashes>>
  /\ job'[h].pc = Branch(e) /\ job'[h].ev = e /\ job'[h].pick = NoPick

\* It goes on with its event: to which phase, and with which subscription picked.
GoesOn(h) ==
  /\ ~IsIdle(h) /\ job'[h].ev = Ev(h) /\ UNCHANGED <<ledger, outbox, crashes>>
  /\ \/ Link(h) /\ job'[h].pc = "fillLookup" /\ job'[h].pick = job[h].pick
     \/ /\ FillLookup(h) /\ job'[h].pc = "fill"
        /\ \E l \in Lookup(Ev(h).cust) : \E s \in Bought(Ev(h), l.live) : job'[h].pick = Snapshot(s)
     \/ StrayCheck(h) /\ job'[h].pc \in {"account", "endLookup"} /\ job'[h].pick = job[h].pick
     \/ ReadAccount(h) /\ job'[h].pc = "endLookup" /\ job'[h].pick = job[h].pick
     \/ /\ EndLookup(h) /\ job'[h].pc = "end"
        /\ \/ job'[h].pick = NoPick
           \/ \E s \in Subs : Live(s) /\ s # Ev(h).sub /\ job'[h].pick = Snapshot(s)
     \/ EndWrite(h) /\ job'[h].pc = "mail" /\ job'[h].pick = job[h].pick

\* It is over: acknowledged, or dead.
Stops(h) ==
  /\ ~IsIdle(h) /\ job'[h].pc = "idle" /\ ledger' = ledger
  /\ \/ Crash(h) /\ UNCHANGED <<outbox, users, ended>>
     \/ /\ outbox' = outbox \ {Ev(h)} /\ crashes' = crashes
        /\ FillLookup(h) \/ Fill(h) \/ Apply(h) \/ StrayCheck(h) \/ EndWrite(h) \/ Notify(h)

\* The event was taken before.
Drops(h) ==
  /\ \E e \in outbox : Receive(h, e) /\ e.id \in ledger /\ outbox' = outbox \ {e}
  /\ UNCHANGED <<job, ledger, users, ended, crashes>>

LEMMA JobSteps ==
  ASSUME TInv, NEW h \in Handlers, HandlerStep(h) \/ Crash(h)
  PROVE  Drops(h) \/ (\E e \in outbox : Starts(h, e)) \/ GoesOn(h) \/ Stops(h)
<1>0. job \in [Handlers -> Job] /\ TypeOK BY DEF TInv, TypeOK
<1>1. ASSUME NEW e \in outbox, Receive(h, e) PROVE Drops(h) \/ Starts(h, e)
  <2>1. IsIdle(h) /\ UNCHANGED <<users, ended, crashes>> BY <1>1 DEF Receive
  <2>2. CASE Duplicate(e)
    <3>1. outbox' = outbox \ {e} /\ UNCHANGED <<job, ledger>> BY <1>1, <2>2 DEF Receive
    <3> QED BY <1>1, <2>1, <2>2, <3>1 DEF Drops, Duplicate
  <2>3. CASE ~Duplicate(e)
    <3> DEFINE next == [pc |-> Branch(e), ev |-> e, pick |-> NoPick, sure |-> FALSE, plan |-> NoPick]
    <3>1. job' = [job EXCEPT ![h] = next] /\ ledger' = ledger \cup {e.id} /\ outbox' = outbox
      BY <1>1, <2>3 DEF Receive
    <3>2. job'[h] = next BY <1>0, <3>1
    <3>3. next.pc = Branch(e) /\ next.ev = e /\ next.pick = NoPick OBVIOUS
    <3> HIDE DEF next
    <3> QED BY <1>1, <2>1, <2>3, <3>1, <3>2, <3>3 DEF Starts
  <2> QED BY <2>2, <2>3
<1>2. ASSUME job' = [job EXCEPT ![h] = Idle] PROVE job'[h].pc = "idle" BY <1>0, <1>2 DEF Idle
<1>3. ASSUME Ack(h), ~IsIdle(h), UNCHANGED <<ledger, crashes>>,
             FillLookup(h) \/ Fill(h) \/ Apply(h) \/ StrayCheck(h) \/ EndWrite(h) \/ Notify(h)
      PROVE  Stops(h)
  BY <1>2, <1>3 DEF Ack, Stops
<1>4. ASSUME ~IsIdle(h), NEW pc, Goto(h, pc), UNCHANGED <<ledger, crashes>>
      PROVE  /\ job'[h].ev = Ev(h) /\ job'[h].pc = pc /\ job'[h].pick = job[h].pick
             /\ UNCHANGED <<ledger, outbox, crashes>>
  BY <1>0, <1>4, JobShape DEF Goto, Ev
<1>5. CASE Link(h)
  <2>1. ~IsIdle(h) /\ Goto(h, "fillLookup") /\ UNCHANGED <<ledger, crashes>>
    BY <1>5 DEF Link, Frame, At, IsIdle
  <2> QED BY <1>4, <1>5, <2>1 DEF GoesOn
<1>6. CASE FillLookup(h)
  <2>1. ~IsIdle(h) /\ UNCHANGED <<ledger, crashes>> BY <1>6 DEF FillLookup, Frame, At, IsIdle
  <2>2. CASE Ack(h) BY <1>3, <1>6, <2>1, <2>2
  <2>3. ASSUME NEW l \in Lookup(Ev(h).cust), NEW s \in Bought(Ev(h), l.live),
               job' = [job EXCEPT ![h].pc = "fill", ![h].sure = l.sure, ![h].pick = Snapshot(s)],
               UNCHANGED outbox
        PROVE  GoesOn(h)
    <3> DEFINE sure == l.sure
               pick == Snapshot(s)
    <3>0. pick = Snapshot(s) /\ job' = [job EXCEPT ![h].pc = "fill", ![h].sure = sure, ![h].pick = pick]
      BY <2>3
    <3> HIDE DEF sure, pick
    <3>1. job'[h].pc = "fill" /\ job'[h].ev = Ev(h) /\ job'[h].pick = pick
      BY <1>0, <2>1, <3>0, JobShape DEF Ev
    <3> QED BY <1>6, <2>1, <2>3, <3>0, <3>1 DEF GoesOn
  <2> QED BY <1>6, <2>2, <2>3 DEF FillLookup
<1>7. CASE Fill(h)
  <2>1. ~IsIdle(h) /\ UNCHANGED <<ledger, crashes>> /\ Ack(h) BY <1>7 DEF Fill, Frame, At, IsIdle
  <2> QED BY <1>3, <1>7, <2>1
<1>8. CASE Apply(h)
  <2>1. ~IsIdle(h) /\ UNCHANGED <<ledger, crashes>> /\ Ack(h) BY <1>8 DEF Apply, Frame, At, IsIdle
  <2> QED BY <1>3, <1>8, <2>1
<1>9. CASE StrayCheck(h)
  <2>1. ~IsIdle(h) /\ UNCHANGED <<ledger, crashes>> BY <1>9 DEF StrayCheck, Frame, At, IsIdle
  <2>2. CASE Ack(h) BY <1>3, <1>9, <2>1, <2>2
  <2>3. ASSUME NEW pc \in {"account", "endLookup"}, Goto(h, pc) PROVE GoesOn(h)
    BY <1>4, <1>9, <2>1, <2>3 DEF GoesOn
  <2> QED BY <1>9, <2>2, <2>3 DEF StrayCheck
<1>10. CASE ReadAccount(h)
  <2>1. ~IsIdle(h) /\ UNCHANGED <<ledger, outbox, crashes>>
    BY <1>10 DEF ReadAccount, Frame, At, IsIdle
  <2>2. PICK plan : job' = [job EXCEPT ![h].pc = "endLookup", ![h].plan = plan]
    BY <1>10 DEF ReadAccount
  <2>3. job'[h].pc = "endLookup" /\ job'[h].ev = Ev(h) /\ job'[h].pick = job[h].pick
    BY <1>0, <2>1, <2>2, JobShape DEF Ev
  <2> QED BY <1>10, <2>1, <2>3 DEF GoesOn
<1>11. CASE EndLookup(h)
  <2>1. ~IsIdle(h) /\ UNCHANGED <<ledger, outbox, crashes>>
    BY <1>11 DEF EndLookup, Frame, At, IsIdle
  <2>2. PICK l \in Lookup(Ev(h).cust) :
          \E keep \in IF Remaining(Ev(h), l.live) = {} THEN {NoPick}
                      ELSE {Snapshot(s) : s \in Newest(Remaining(Ev(h), l.live))} :
            job' = [job EXCEPT ![h].pc = "end", ![h].sure = l.sure, ![h].pick = keep]
    BY <1>11 DEF EndLookup
  <2>3. PICK keep \in IF Remaining(Ev(h), l.live) = {} THEN {NoPick}
                     ELSE {Snapshot(s) : s \in Newest(Remaining(Ev(h), l.live))} :
            job' = [job EXCEPT ![h].pc = "end", ![h].sure = l.sure, ![h].pick = keep]
    BY <2>2
  <2>4. \A s \in l.live : s \in Subs /\ Live(s) BY <2>2, LookupTyped
  <2>5. keep = NoPick \/ \E s \in Subs : Live(s) /\ s # Ev(h).sub /\ keep = Snapshot(s)
    BY <2>3, <2>4 DEF Remaining, Newest
  <2>6. job'[h].pc = "end" /\ job'[h].ev = Ev(h) /\ job'[h].pick = keep
    BY <1>0, <2>1, <2>3, JobShape DEF Ev
  <2> QED BY <1>11, <2>1, <2>5, <2>6 DEF GoesOn
<1>12. CASE EndWrite(h)
  <2>1. ~IsIdle(h) /\ UNCHANGED <<ledger, crashes>> BY <1>12 DEF EndWrite, Frame, At, IsIdle
  <2>2. CASE Ack(h) BY <1>3, <1>12, <2>1, <2>2
  <2>3. CASE Goto(h, "mail") BY <1>4, <1>12, <2>1, <2>3 DEF GoesOn
  <2> QED BY <1>12, <2>2, <2>3 DEF EndWrite
<1>13. CASE Notify(h)
  <2>1. ~IsIdle(h) /\ UNCHANGED <<ledger, crashes>> /\ Ack(h) BY <1>13 DEF Notify, Frame, At, IsIdle
  <2> QED BY <1>3, <1>13, <2>1
<1>14. CASE Crash(h)
  <2>1. /\ ~IsIdle(h) /\ job' = [job EXCEPT ![h] = Idle] /\ UNCHANGED <<outbox, users, ended, ledger>>
    BY <1>14 DEF Crash, stripeVars
  <2> QED BY <1>2, <1>14, <2>1 DEF Stops
<1> QED BY <1>1, <1>5, <1>6, <1>7, <1>8, <1>9, <1>10, <1>11, <1>12, <1>13, <1>14 DEF HandlerStep

\* The four statements that write the row, and the two places a deletion counts as handled.
LEMMA RowSteps ==
  ASSUME TInv, NEW h \in Handlers, HandlerStep(h) \/ Crash(h)
  PROVE  /\ UNCHANGED users \/ Link(h) \/ Fill(h) \/ Apply(h) \/ EndWrite(h)
         /\ ended' = ended \/ (((StrayCheck(h) /\ IsStray(Ev(h))) \/ EndWrite(h)) /\ NoteEnded(Ev(h)))
BY DEF HandlerStep, Receive, Link, FillLookup, Fill, Apply, StrayCheck, ReadAccount, EndLookup,
       EndWrite, Notify, Crash

\* Only the session event changes whose account it is.
LEMMA CustomerStays ==
  ASSUME TInv, NEW h \in Handlers, HandlerStep(h) \/ Crash(h), ~Link(h)
  PROVE  users'.customer = users.customer
<1>0. users \in Row BY DEF TInv, TypeOK
<1>1. ASSUME NEW e, NEW sub, NEW plan, NEW status, NEW renews, NEW cancel
      PROVE  Applied(e, sub, plan, status, renews, cancel).customer = users.customer
  BY <1>0 DEF Applied, Row
<1>2. CASE Fill(h) BY <1>0, <1>2 DEF Fill, Row
<1>3. CASE Apply(h) BY <1>1, <1>3 DEF Apply
<1>4. CASE EndWrite(h)
  <2>1. users' = Ended(Ev(h), job[h].pick) BY <1>4 DEF EndWrite
  <2>2. Ended(Ev(h), job[h].pick).customer = users.customer BY <1>0 DEF Ended, Applied, Row
  <2> QED BY <2>1, <2>2
<1>5. CASE UNCHANGED users BY <1>5
<1> QED BY <1>2, <1>3, <1>4, <1>5, RowSteps

-----------------------------------------------------------------------------
(* A late update brings no deleted plan back, to a customer of one subscription. *)

\* What a report adds.
Adds(new, type, s, after) ==
  /\ outbox' = outbox \cup {new} /\ Pending' = Pending \cup {new}
  /\ new.id = emitted + 1 /\ new.type = type /\ new.created = clock /\ new.sub = s
  /\ new.cust = after.cust /\ new.tier = after.tier /\ new.status = after.status
  /\ new.cancel = after.cancelAtPeriodEnd /\ new.period = after.period
  /\ emitted' = emitted + 1 /\ clock' \in {clock, clock + 1}
  /\ emitted \in Nat /\ clock \in Nat /\ clock <= emitted

LEMMA EmissionAdds ==
  ASSUME TInv, UNCHANGED billingVars, NEW type, NEW s, NEW after, Emit(type, s, after)
  PROVE  \E new : Adds(new, type, s, after)
<1> DEFINE new == Report(type, s, after)
<1>1. /\ new.id = emitted + 1 /\ new.type = type /\ new.created = clock /\ new.sub = s
      /\ new.cust = after.cust /\ new.tier = after.tier /\ new.status = after.status
      /\ new.cancel = after.cancelAtPeriodEnd /\ new.period = after.period
  BY DEF Report
<1>2. /\ outbox' = outbox \cup {new} /\ Pending' = Pending \cup {new}
      /\ emitted' = emitted + 1 /\ clock' \in {clock, clock + 1}
      /\ emitted \in Nat /\ clock \in Nat /\ clock <= emitted
  BY Emitted
<1> HIDE DEF new
<1> QED BY <1>1, <1>2 DEF Adds

\* A subscription that changes, and the report of it.
LEMMA ChangeAdds ==
  ASSUME TInv, UNCHANGED billingVars, NEW s \in Subs, NEW after, Change(s, after)
  PROVE  /\ subscription'[s] = after /\ \A r \in Subs \ {s} : subscription'[r] = subscription[r]
         /\ \E new : Adds(new, IF after.status = "canceled" THEN "deleted" ELSE "updated", s, after)
<1>1. subscription \in [Subs -> Subscription] BY DEF TInv, TypeOK, StripeTypeOK
<1>2. /\ Emit(IF after.status = "canceled" THEN "deleted" ELSE "updated", s, after)
      /\ subscription' = [subscription EXCEPT ![s] = after]
  BY DEF Change
<1>3. \E new : Adds(new, IF after.status = "canceled" THEN "deleted" ELSE "updated", s, after)
  BY <1>2, EmissionAdds
<1> QED BY <1>1, <1>2, <1>3

Existing == {s \in Subs : subscription[s].born > 0}
Paid(k) == checkout[k].pc = "paid"

\* Session events that have not linked their customer yet.
Fresh == {e \in outbox : e.type = "session" /\ e.id \notin ledger} \cup
         {Ev(h) : h \in {g \in Handlers : At(g, "link")}}

\* Whatever an event, the row or an invocation names exists.
Exist ==
  /\ \A s \in Subs : subscription[s].status # "none" <=> s \in Existing
  /\ \A e \in Pending : e.sub \in Existing /\ e.cust = subscription[e.sub].cust
  /\ users.sub # NoSub => users.sub \in Existing
  /\ \A h \in Handlers : IsIdle(h) \/ job[h].pick = NoPick \/ job[h].pick.sub \in Existing
  /\ users.customer # NoCust => Existing # {}

\* Which events are where, and that the picked subscription is not the one that ends.
Branched ==
  \A h \in Handlers :
    /\ job[h].pc \in {"link", "fillLookup", "fill"} => Ev(h).type = "session"
    /\ At(h, "apply") => Ev(h).type = "updated"
    /\ At(h, "end") /\ job[h].pick # NoPick => job[h].pick.sub # Ev(h).sub

\* One subscription, and every event in a second of its own.
Lone == clock = emitted /\ OneSubscription

InThePast == clock = emitted => \A e \in Pending : e.created < clock

PaidActive ==
  \A k \in Checkouts : Paid(k) =>
    /\ subscription[checkout[k].sub].status = "active"
    /\ ~subscription[checkout[k].sub].cancelAtPeriodEnd

\* Nothing befalls a subscription after its deletion.
DeletionIsLast ==
  /\ \A d \in Pending : d.type = "deleted" => subscription[d.sub].status = "canceled"
  /\ Lone => \A d, e \in Pending :
       d.type = "deleted" /\ e.type # "deleted" /\ e.sub = d.sub => e.created < d.created

\* What is left of a subscription whose deletion was handled is older than the watermark.
EndedIsOver ==
  /\ ended # {} => users.customer # NoCust
  /\ Lone => \A s \in ended :
       /\ subscription[s].status = "canceled"
       /\ \A e \in Pending : e.sub = s /\ e.type # "deleted" => e.created < users.eventAt

\* One subscription was bought in one session, which links the customer once.
OneSession ==
  OneSubscription =>
    /\ \A e, f \in Fresh : e.id = f.id
    /\ \A k \in Checkouts : Paid(k) =>
         Fresh = {} /\ users.customer = NoCust /\ \A j \in Checkouts : Paid(j) => j = k
    /\ users.customer # NoCust => Fresh = {}

RParts == Exist /\ Branched /\ InThePast /\ PaidActive /\ DeletionIsLast /\ EndedIsOver /\ OneSession
RInv == OInv /\ RParts

LEMMA FreshPending == Fresh \subseteq Pending
BY DEF Fresh, Pending, At, IsIdle

\* Working an event off makes no session fresh, and Link leaves none.
LEMMA FreshShrinks ==
  ASSUME OInv, Branched, NEW h \in Handlers, HandlerStep(h) \/ Crash(h)
  PROVE  /\ Fresh' \subseteq Fresh
         /\ Link(h) => Ev(h) \in Fresh /\ \A e \in Fresh' : e.id # Ev(h).id
<1>0. TInv /\ OneAtWork BY DEF OInv
<1>1. outbox' \subseteq outbox /\ \A g \in Handlers \ {h} : job'[g] = job[g]
  BY <1>0, HandlerKeeps
<1>2. Drops(h) \/ (\E e \in outbox : Starts(h, e)) \/ GoesOn(h) \/ Stops(h) BY <1>0, JobSteps
<1>3. ledger \subseteq ledger' BY <1>2 DEF Drops, Starts, GoesOn, Stops
<1>4. job'[h].pc = "link" => job'[h].ev \in Fresh
  <2>1. CASE Drops(h) BY <2>1 DEF Drops, Fresh, At, Ev
  <2>2. ASSUME NEW e \in outbox, Starts(h, e), job'[h].pc = "link" PROVE job'[h].ev \in Fresh
    <3>1. e.type = "session" /\ e.id \notin ledger /\ job'[h].ev = e
      BY <2>2 DEF Starts, Branch, Duplicate
    <3> QED BY <3>1 DEF Fresh
  <2>3. CASE GoesOn(h) BY <2>3 DEF GoesOn
  <2>4. CASE Stops(h) BY <2>4 DEF Stops
  <2> QED BY <1>2, <2>1, <2>2, <2>3, <2>4
<1>5. \A g \in Handlers \ {h} : job'[g].pc = "link" => job'[g].ev \in Fresh /\ At(g, "link") /\ job'[g].ev = Ev(g)
  BY <1>1 DEF Fresh, At, Ev
<1>6. Fresh' = {e \in outbox' : e.type = "session" /\ e.id \notin ledger'} \cup
               {job'[g].ev : g \in {f \in Handlers : job'[f].pc = "link"}}
  BY DEF Fresh, At, Ev
<1>7. Fresh' \subseteq Fresh
  <2>1. \A e \in outbox' : e.type = "session" /\ e.id \notin ledger' => e \in Fresh
    BY <1>1, <1>3 DEF Fresh
  <2> QED BY <1>4, <1>5, <1>6, <2>1
<1>8. ASSUME Link(h) PROVE Ev(h) \in Fresh /\ \A e \in Fresh' : e.id # Ev(h).id
  <2>1. At(h, "link") /\ ~IsIdle(h) BY <1>8 DEF Link, At, IsIdle
  <2>2. Ev(h).id \in ledger' BY <1>0, <1>3, <2>1 DEF OneAtWork
  <2>3. job'[h].pc # "link"
    <3>1. job \in [Handlers -> Job] BY <1>0 DEF TInv, TypeOK
    <3> QED BY <1>0, <1>8, <2>1, <3>1, JobShape DEF Link, Goto, TInv
  <2>4. \A g \in Handlers \ {h} : At(g, "link") => Ev(g).id # Ev(h).id
    BY <1>0, <2>1 DEF OneAtWork, At, IsIdle
  <2> QED BY <1>5, <1>6, <2>1, <2>2, <2>3, <2>4 DEF Fresh
<1> QED BY <1>7, <1>8

\* The webhook's own steps.
LEMMA RHandler ==
  ASSUME RInv, OInv', NEW h \in Handlers, [Next]_vars, HandlerStep(h) \/ Crash(h)
  PROVE  RParts'
<1>0. /\ OInv /\ TInv /\ TypeOK /\ OneAtWork /\ Exist /\ Branched /\ InThePast /\ PaidActive
      /\ DeletionIsLast /\ EndedIsOver /\ OneSession
      /\ users \in Row /\ job \in [Handlers -> Job] /\ Pending \subseteq Event
  BY PendingTyped DEF RInv, RParts, OInv, TInv, TypeOK
<1>1. /\ UNCHANGED <<subscription, clock, emitted, checkout, world>>
      /\ Pending' \subseteq Pending
      /\ \A g \in Handlers \ {h} : job'[g] = job[g]
  BY <1>0, HandlerKeeps
<1>2. Existing' = Existing /\ Lone' = Lone /\ OneSubscription' = OneSubscription
      /\ \A k : Paid(k)' = Paid(k)
  BY <1>1 DEF Existing, Lone, OneSubscription, Paid
<1>3. Drops(h) \/ (\E e \in outbox : Starts(h, e)) \/ GoesOn(h) \/ Stops(h) BY <1>0, JobSteps
<1>4. \A s \in Subs : Live(s) => s \in Existing
  BY <1>0 DEF Exist, Live, ENTITLED_STATUSES
<1>5. ~IsIdle(h) => /\ Ev(h) \in Pending /\ Ev(h) \in Event /\ Ev(h).sub \in Existing
                    /\ Ev(h).sub \in Subs /\ Ev(h).cust \in Customers
                    /\ job[h].pick \in LiveSub \cup {NoPick}
  <2>1. ~IsIdle(h) => Ev(h) \in Pending BY DEF Pending
  <2>2. ~IsIdle(h) => Ev(h).sub \in Existing BY <1>0, <2>1 DEF Exist
  <2> QED BY <1>0, <2>1, <2>2, JobShape
\* What h picked exists, and is not what ends.
<1>6. /\ IsIdle(h)' \/ (job[h].pick)' = NoPick \/ (job[h].pick.sub)' \in Existing
      /\ At(h, "end")' /\ (job[h].pick)' # NoPick => (job[h].pick.sub)' # (Ev(h).sub)'
      /\ (job[h].pc)' \in {"link", "fillLookup", "fill"} => (Ev(h).type)' = "session"
      /\ At(h, "apply")' => (Ev(h).type)' = "updated"
  <2>a. \A s \in Subs : Live(s) => Snapshot(s).sub = s BY DEF Snapshot
  <2>1. CASE Drops(h)
    <3>1. job' = job BY <2>1 DEF Drops
    <3> QED BY <1>0, <3>1 DEF Exist, Branched, IsIdle, At, Ev
  <2>2. ASSUME NEW e \in outbox, Starts(h, e)
        PROVE  /\ IsIdle(h)' \/ (job[h].pick)' = NoPick \/ (job[h].pick.sub)' \in Existing
               /\ At(h, "end")' /\ (job[h].pick)' # NoPick => (job[h].pick.sub)' # (Ev(h).sub)'
               /\ (job[h].pc)' \in {"link", "fillLookup", "fill"} => (Ev(h).type)' = "session"
               /\ At(h, "apply")' => (Ev(h).type)' = "updated"
    <3>1. job'[h].pc = Branch(e) /\ job'[h].ev = e /\ job'[h].pick = NoPick BY <2>2 DEF Starts
    <3>2. /\ Branch(e) \in {"link", "apply", "stray"}
          /\ Branch(e) = "link" => e.type = "session"
          /\ Branch(e) = "apply" => e.type = "updated"
      BY DEF Branch
    <3> QED BY <3>1, <3>2 DEF At, Ev
  <2>3. CASE GoesOn(h)
    <3>1. ~IsIdle(h) /\ job'[h].ev = Ev(h) BY <2>3 DEF GoesOn
    <3>2. \/ job'[h].pc \in {"account", "endLookup", "mail"} /\ job'[h].pick = job[h].pick
          \/ At(h, "link") /\ job'[h].pc = "fillLookup" /\ job'[h].pick = job[h].pick
          \/ /\ At(h, "fillLookup") /\ job'[h].pc = "fill"
             /\ \E s \in Subs : Live(s) /\ job'[h].pick = Snapshot(s)
          \/ /\ job'[h].pc = "end"
             /\ \/ job'[h].pick = NoPick
                \/ \E s \in Subs : Live(s) /\ s # Ev(h).sub /\ job'[h].pick = Snapshot(s)
      <4>1. CASE FillLookup(h) /\ job'[h].pc = "fill" /\
                 \E l \in Lookup(Ev(h).cust) : \E s \in Bought(Ev(h), l.live) : job'[h].pick = Snapshot(s)
        BY <4>1, LookupTyped DEF FillLookup, Bought
      <4> QED BY <2>3, <4>1 DEF GoesOn, Link
    <3>3. job[h].pick = NoPick \/ job[h].pick.sub \in Existing BY <1>0, <3>1 DEF Exist
    <3>4. CASE job'[h].pc \in {"account", "endLookup", "mail"} /\ job'[h].pick = job[h].pick
      BY <3>3, <3>4 DEF At, Ev
    <3>5. CASE At(h, "link") /\ job'[h].pc = "fillLookup" /\ job'[h].pick = job[h].pick
      BY <1>0, <3>1, <3>3, <3>5 DEF At, Ev, Branched
    <3>6. CASE /\ At(h, "fillLookup") /\ job'[h].pc = "fill"
               /\ \E s \in Subs : Live(s) /\ job'[h].pick = Snapshot(s)
      <4>1. job'[h].pick.sub \in Existing BY <1>4, <2>a, <3>6
      <4>2. Ev(h).type = "session" BY <1>0, <3>6 DEF At, Branched
      <4> QED BY <3>1, <3>6, <4>1, <4>2 DEF At, Ev
    <3>7. CASE /\ job'[h].pc = "end"
               /\ \/ job'[h].pick = NoPick
                  \/ \E s \in Subs : Live(s) /\ s # Ev(h).sub /\ job'[h].pick = Snapshot(s)
      <4>1. job'[h].pick = NoPick \/ (job'[h].pick.sub \in Existing /\ job'[h].pick.sub # Ev(h).sub)
        BY <1>4, <2>a, <3>7
      <4> QED BY <3>1, <3>7, <4>1 DEF At, Ev
    <3> QED BY <3>2, <3>4, <3>5, <3>6, <3>7
  <2>4. CASE Stops(h) BY <2>4 DEF Stops, IsIdle, At
  <2> QED BY <1>3, <2>1, <2>2, <2>3, <2>4
<1>7. Branched' BY <1>0, <1>1, <1>6 DEF Branched, At, Ev
\* The row names what exists.
<1>8. /\ users'.sub # NoSub => users'.sub \in Existing
      /\ users'.customer # NoCust => Existing # {}
  <2>0. ASSUME NEW e, NEW sub, NEW plan, NEW status, NEW renews, NEW cancel
        PROVE  /\ Applied(e, sub, plan, status, renews, cancel).sub \in {users.sub, sub}
               /\ Applied(e, sub, plan, status, renews, cancel).customer = users.customer
    BY <1>0 DEF Applied, Row
  <2>1. CASE UNCHANGED users BY <1>0, <2>1 DEF Exist
  <2>2. CASE Link(h)
    <3>1. ~IsIdle(h) BY <2>2 DEF Link, At, IsIdle
    <3>2. users'.sub = Ev(h).sub BY <1>0, <2>2 DEF Link, Linked, Row
    <3> QED BY <1>5, <3>1, <3>2
  <2>3. CASE Fill(h)
    <3>1. ~IsIdle(h) /\ At(h, "fill") BY <2>3 DEF Fill, At, IsIdle
    <3>2. job[h].pick \in LiveSub BY <1>0, <3>1 DEF TInv, JobKnown
    <3>3. job[h].pick.sub \in Existing BY <1>0, <3>1, <3>2, PickAssumption DEF Exist
    <3>4. users'.sub \in {users.sub, job[h].pick.sub} /\ users'.customer = users.customer
      BY <1>0, <2>3 DEF Fill, Row
    <3> QED BY <1>0, <3>3, <3>4 DEF Exist
  <2>4. CASE Apply(h)
    <3>1. ~IsIdle(h) BY <2>4 DEF Apply, At, IsIdle
    <3>2. users'.sub \in {users.sub, Ev(h).sub} /\ users'.customer = users.customer
      BY <2>0, <2>4 DEF Apply
    <3> QED BY <1>0, <1>5, <3>1, <3>2 DEF Exist
  <2>5. CASE EndWrite(h)
    <3>1. ~IsIdle(h) BY <2>5 DEF EndWrite, At, IsIdle
    <3>2. users' = Ended(Ev(h), job[h].pick) BY <2>5 DEF EndWrite
    <3>3. /\ users'.sub \in {users.sub, NoSub} \/ (job[h].pick # NoPick /\ users'.sub = job[h].pick.sub)
          /\ users'.customer = users.customer
      BY <1>0, <3>2 DEF Ended, Applied, Row
    <3> QED BY <1>0, <3>1, <3>3 DEF Exist
  <2> QED BY <1>0, <2>1, <2>2, <2>3, <2>4, <2>5, RowSteps
<1>9. Exist'
  <2>1. \A s \in Subs : (subscription[s].status # "none")' <=> s \in Existing'
    BY <1>0, <1>1, <1>2 DEF Exist
  <2>2. \A e \in Pending' : e.sub \in Existing' /\ e.cust = subscription'[e.sub].cust
    BY <1>0, <1>1, <1>2 DEF Exist
  <2>3. \A g \in Handlers : IsIdle(g)' \/ (job[g].pick)' = NoPick \/ (job[g].pick.sub)' \in Existing'
    BY <1>0, <1>1, <1>2, <1>6 DEF Exist, IsIdle
  <2> QED BY <1>2, <1>8, <2>1, <2>2, <2>3 DEF Exist
<1>10. InThePast' /\ PaidActive' /\ DeletionIsLast'
  <2>1. InThePast' BY <1>0, <1>1 DEF InThePast
  <2>2. PaidActive' BY <1>0, <1>1, <1>2 DEF PaidActive
  <2>3. DeletionIsLast' BY <1>0, <1>1, <1>2 DEF DeletionIsLast
  <2> QED BY <2>1, <2>2, <2>3
<1>11. /\ Fresh' \subseteq Fresh
       /\ Link(h) => Ev(h) \in Fresh /\ \A e \in Fresh' : e.id # Ev(h).id
  BY <1>0, FreshShrinks
<1>12. ~Link(h) => users'.customer = users.customer BY <1>0, CustomerStays
<1>13. OneSession'
  <2> SUFFICES ASSUME OneSubscription
               PROVE  /\ \A e, f \in Fresh' : e.id = f.id
                      /\ \A k \in Checkouts : Paid(k) =>
                           Fresh' = {} /\ users'.customer = NoCust /\ \A j \in Checkouts : Paid(j) => j = k
                      /\ users'.customer # NoCust => Fresh' = {}
    BY <1>2 DEF OneSession
  <2>1. /\ \A e, f \in Fresh : e.id = f.id
        /\ \A k \in Checkouts : Paid(k) =>
             Fresh = {} /\ users.customer = NoCust /\ \A j \in Checkouts : Paid(j) => j = k
        /\ users.customer # NoCust => Fresh = {}
    BY <1>0 DEF OneSession
  <2>2. CASE Link(h)
    <3>1. Fresh' = {} BY <1>11, <2>1, <2>2
    <3>2. \A k \in Checkouts : ~Paid(k) BY <1>11, <2>1, <2>2
    <3> QED BY <3>1, <3>2
  <2>3. CASE ~Link(h) BY <1>11, <1>12, <2>1, <2>3
  <2> QED BY <2>2, <2>3
\* The deletion of the only subscription has been handled.
<1>14. users'.eventAt >= users.eventAt /\ users.eventAt \in Nat /\ users'.eventAt \in Nat
  <2>1. TInv /\ TInv' BY <1>0 DEF OInv
  <2>2. users \in Row /\ users' \in Row BY <2>1 DEF TInv, TypeOK
  <2>3. users.eventAt \in Nat /\ users'.eventAt \in Nat BY <2>2 DEF Row
  <2>4. users'.eventAt >= users.eventAt BY <1>0, <2>1, WatermarkStep
  <2> QED BY <2>3, <2>4
<1>15. users.customer # NoCust => users'.customer # NoCust
  <2>1. CASE Link(h)
    <3>1. ~IsIdle(h) BY <2>1 DEF Link, At, IsIdle
    <3>2. users'.customer = Ev(h).cust BY <1>0, <2>1 DEF Link, Linked, Row
    <3> QED BY <1>5, <3>1, <3>2
  <2> QED BY <1>12, <2>1
<1>16. \A e \in Pending : e.created \in Nat BY <1>0 DEF Event
<1>17. EndedIsOver'
  <2>1. CASE ended' = ended
    BY <1>0, <1>1, <1>2, <1>14, <1>15, <1>16, <2>1 DEF EndedIsOver
  <2>2. ASSUME ended' # ended PROVE EndedIsOver'
    <3>1. /\ (StrayCheck(h) /\ IsStray(Ev(h))) \/ EndWrite(h)
          /\ ended' = ended \cup {Ev(h).sub} /\ Ev(h).type = "deleted" /\ users.customer = Ev(h).cust
          /\ ~IsIdle(h)
      BY <1>0, <2>2, RowSteps DEF NoteEnded, StrayCheck, EndWrite, At, IsIdle
    <3>2. users'.customer # NoCust BY <1>5, <1>15, <3>1
    <3>3. ASSUME Lone, NEW s \in ended'
          PROVE  /\ subscription[s].status = "canceled"
                 /\ \A e \in Pending' : e.sub = s /\ e.type # "deleted" => e.created < users'.eventAt
      <4>1. CASE s \in ended BY <1>0, <1>1, <1>14, <1>16, <3>3, <4>1 DEF EndedIsOver
      <4>2. CASE s = Ev(h).sub
        <5>1. subscription[s].status = "canceled" BY <1>0, <1>5, <3>1, <4>2 DEF DeletionIsLast
        <5>2. \A r \in Existing : r = s BY <1>5, <3>1, <3>3, <4>2 DEF Lone, OneSubscription, Existing
        <5>3. ~IsStray(Ev(h)) BY <1>0, <4>2, <5>2 DEF IsStray, Exist
        <5>4. EndWrite(h) BY <3>1, <5>3
        <5>5. job[h].pick = NoPick
          <6>1. At(h, "end") BY <5>4 DEF EndWrite
          <6>2. job[h].pick # NoPick => job[h].pick.sub \in Existing /\ job[h].pick.sub # s
            BY <1>0, <3>1, <4>2, <6>1 DEF Exist, Branched
          <6> QED BY <5>2, <6>2
        <5>6. users'.eventAt >= Ev(h).created
          <6>1. users' = Applied(Ev(h), NoSub, Free, Ev(h).status, NoDate, FALSE)
            BY <5>4, <5>5 DEF EndWrite, Ended
          <6>2. Ev(h).created \in Nat BY <1>5, <1>16, <3>1
          <6>3. CASE Ev(h).created >= users.eventAt
            BY <1>0, <3>1, <6>1, <6>2, <6>3 DEF Applied, Matches, Row
          <6>4. CASE ~(Ev(h).created >= users.eventAt)
            BY <1>14, <6>2, <6>4
          <6> QED BY <6>3, <6>4
        <5>7. \A e \in Pending : e.sub = s /\ e.type # "deleted" => e.created < Ev(h).created
          BY <1>0, <1>5, <3>1, <3>3, <4>2 DEF DeletionIsLast
        <5>8. Ev(h).created \in Nat BY <1>5, <1>16, <3>1
        <5> QED BY <1>1, <1>14, <1>16, <5>1, <5>6, <5>7, <5>8
      <4> QED BY <3>1, <4>1, <4>2
    <3> QED BY <1>1, <1>2, <3>2, <3>3 DEF EndedIsOver
  <2> QED BY <2>1, <2>2
<1> QED BY <1>7, <1>9, <1>10, <1>13, <1>17 DEF RParts

\* A checkout that neither pays nor changes anything at Stripe.
LEMMA RLocal ==
  ASSUME RInv, UNCHANGED <<stripeVars, billingVars>>,
         \A k \in Checkouts : checkout'[k] = checkout[k] \/ ~Paid(k)'
  PROVE  RParts'
<1>0. RParts BY DEF RInv
<1>1. Pending' = Pending BY PendingStays DEF stripeVars, billingVars
<1>2. Fresh' = Fresh BY DEF Fresh, stripeVars, billingVars, At, Ev
<1>3. Existing' = Existing /\ Lone' = Lone /\ OneSubscription' = OneSubscription
  BY DEF Existing, Lone, OneSubscription, stripeVars
<1>4. \A k \in Checkouts : Paid(k)' => Paid(k) /\ checkout'[k] = checkout[k] BY DEF Paid
<1>5. Exist' BY <1>0, <1>1, <1>3 DEF RParts, Exist, stripeVars, billingVars, IsIdle
<1>6. Branched' BY <1>0 DEF RParts, Branched, billingVars, At, Ev
<1>7. InThePast' BY <1>0, <1>1 DEF RParts, InThePast, stripeVars
<1>8. PaidActive' BY <1>0, <1>4 DEF RParts, PaidActive, stripeVars
<1>9. DeletionIsLast' BY <1>0, <1>1, <1>3 DEF RParts, DeletionIsLast, stripeVars
<1>10. EndedIsOver' BY <1>0, <1>1, <1>3 DEF RParts, EndedIsOver, stripeVars, billingVars
<1>11. OneSession' BY <1>0, <1>2, <1>3, <1>4 DEF RParts, OneSession, billingVars
<1> QED BY <1>5, <1>6, <1>7, <1>8, <1>9, <1>10, <1>11 DEF RParts

\* An existing subscription changes: it is not deleted yet, and a paid one stays active.
LEMMA RAlters ==
  ASSUME RInv, UNCHANGED billingVars, NEW s \in Subs, NEW after \in Subscription, Alters(s, after),
         \A k \in Checkouts : checkout'[k] = checkout[k] \/ ~Paid(k)',
         \A k \in Checkouts : Paid(k) /\ checkout[k].sub = s =>
           /\ after.status = subscription[s].status
           /\ after.cancelAtPeriodEnd => subscription[s].cancelAtPeriodEnd
  PROVE  RParts'
<1>0. /\ TInv /\ Exist /\ Branched /\ InThePast /\ PaidActive /\ DeletionIsLast /\ EndedIsOver
      /\ OneSession /\ Pending \subseteq Event /\ subscription \in [Subs -> Subscription]
      /\ ended \subseteq Subs
  BY PendingTyped DEF RInv, RParts, OInv, TInv, TypeOK, StripeTypeOK
<1> DEFINE type == IF after.status = "canceled" THEN "deleted" ELSE "updated"
<1>1. /\ subscription'[s] = after /\ \A r \in Subs \ {s} : subscription'[r] = subscription[r]
      /\ \E new : Adds(new, type, s, after)
  BY <1>0, ChangeAdds DEF Alters
<1>2. PICK new : Adds(new, type, s, after) BY <1>1
<1>3. /\ type \in {"deleted", "updated"} /\ (type = "deleted" => after.status = "canceled")
  OBVIOUS
<1> HIDE DEF type
<1>4. /\ outbox' = outbox \cup {new} /\ Pending' = Pending \cup {new}
      /\ new.type = type /\ new.created = clock /\ new.sub = s /\ new.cust = after.cust
      /\ emitted' = emitted + 1 /\ clock' \in {clock, clock + 1}
      /\ emitted \in Nat /\ clock \in Nat /\ clock <= emitted
  BY <1>2 DEF Adds
<1>5. /\ after.cust = subscription[s].cust /\ after.born = subscription[s].born
      /\ subscription[s].status \notin {"none", "canceled"} /\ after.status # "none"
  BY DEF Alters, Statuses
<1>6. s \in Existing BY <1>0, <1>5 DEF Exist
<1>7. Existing' = Existing BY <1>1, <1>5 DEF Existing
<1>8. OneSubscription' = OneSubscription /\ (Lone' => Lone)
  <2>1. OneSubscription' = OneSubscription BY <1>1, <1>5 DEF OneSubscription
  <2> QED BY <1>4, <2>1 DEF Lone
<1>9. \A e \in Pending : e.sub \in Subs /\ e.created \in Nat BY <1>0 DEF Event
<1>10. Exist'
  <2>1. \A r \in Subs : (subscription[r].status # "none")' <=> r \in Existing'
    BY <1>0, <1>1, <1>5, <1>6, <1>7 DEF Exist
  <2>2. \A e \in Pending' : e.sub \in Existing' /\ e.cust = subscription'[e.sub].cust
    BY <1>0, <1>1, <1>4, <1>5, <1>6, <1>7, <1>9 DEF Exist
  <2> QED BY <1>0, <1>7, <2>1, <2>2 DEF Exist, billingVars, IsIdle
<1>11. Branched' BY <1>0 DEF Branched, billingVars, At, Ev
<1>12. InThePast'
  <2> SUFFICES ASSUME clock' = emitted', NEW e \in Pending' PROVE e.created < clock'
    BY DEF InThePast
  <2>1. clock = emitted /\ clock' = clock + 1 BY <1>4
  <2> QED BY <1>0, <1>4, <1>9, <2>1 DEF InThePast
<1>13. \A k \in Checkouts : Paid(k)' => Paid(k) /\ checkout'[k] = checkout[k] BY DEF Paid
<1>14. \A k \in Checkouts : Paid(k) => checkout[k].sub \in Subs
  BY <1>0 DEF TInv, CustomerKnown, Paid
<1>15. PaidActive'
  <2> SUFFICES ASSUME NEW k \in Checkouts, Paid(k), checkout'[k] = checkout[k]
               PROVE  /\ subscription'[checkout[k].sub].status = "active"
                      /\ ~subscription'[checkout[k].sub].cancelAtPeriodEnd
    BY <1>13 DEF PaidActive
  <2>1. /\ subscription[checkout[k].sub].status = "active"
        /\ ~subscription[checkout[k].sub].cancelAtPeriodEnd
    BY <1>0 DEF PaidActive
  <2>2. CASE checkout[k].sub = s BY <1>1, <2>1, <2>2
  <2>3. CASE checkout[k].sub # s BY <1>1, <1>14, <2>1, <2>3
  <2> QED BY <2>2, <2>3
<1>16. \A d \in Pending : d.type = "deleted" => d.sub # s /\ subscription[d.sub].status = "canceled"
  BY <1>0, <1>5 DEF DeletionIsLast
<1>17. DeletionIsLast'
  <2>1. \A d \in Pending' : d.type = "deleted" => subscription'[d.sub].status = "canceled"
    BY <1>1, <1>3, <1>4, <1>9, <1>16
  <2>2. ASSUME Lone', NEW d \in Pending', NEW e \in Pending',
               d.type = "deleted", e.type # "deleted", e.sub = d.sub
        PROVE  e.created < d.created
    <3>1. CASE d \in Pending
      <4>1. e \in Pending BY <1>4, <1>16, <2>2, <3>1
      <4> QED BY <1>0, <1>8, <2>2, <3>1, <4>1 DEF DeletionIsLast
    <3>2. CASE d = new
      <4>1. e \in Pending BY <1>4, <2>2, <3>2
      <4> QED BY <1>0, <1>4, <1>8, <2>2, <3>2, <4>1 DEF InThePast, Lone
    <3> QED BY <1>4, <3>1, <3>2
  <2> QED BY <2>1, <2>2 DEF DeletionIsLast
<1>18. EndedIsOver'
  <2>1. ended' = ended /\ users' = users BY DEF billingVars
  <2>2. ASSUME Lone', NEW r \in ended
        PROVE  /\ subscription'[r].status = "canceled"
               /\ \A e \in Pending' : e.sub = r /\ e.type # "deleted" => e.created < users.eventAt
    <3>1. subscription[r].status = "canceled" /\ r \in Subs /\ r # s
      BY <1>0, <1>5, <1>8, <2>2 DEF EndedIsOver
    <3> QED BY <1>0, <1>1, <1>4, <1>8, <2>2, <3>1 DEF EndedIsOver
  <2> QED BY <1>0, <2>1, <2>2 DEF EndedIsOver
<1>19. OneSession'
  <2>1. Fresh' = Fresh BY <1>3, <1>4 DEF Fresh, billingVars, At, Ev
  <2> QED BY <1>0, <1>8, <1>13, <2>1 DEF OneSession, billingVars
<1> QED BY <1>10, <1>11, <1>12, <1>15, <1>17, <1>18, <1>19 DEF RParts

\* A session is paid: a new subscription, the only one only if there was none.
LEMMA RPaid ==
  ASSUME RInv, NEW k \in Checkouts, SessionPaid(k)
  PROVE  RParts'
<1>0. /\ TInv /\ Exist /\ Branched /\ InThePast /\ PaidActive /\ DeletionIsLast /\ EndedIsOver
      /\ OneSession /\ Pending \subseteq Event /\ subscription \in [Subs -> Subscription]
      /\ ended \subseteq Subs /\ checkout \in [Checkouts -> CheckoutRecord]
  BY PendingTyped DEF RInv, RParts, OInv, TInv, TypeOK, StripeTypeOK, CheckoutRecord
<1>1. UNCHANGED billingVars BY <1>0, PaidBuys
<1>2. PICK s \in Subs, c \in Customers :
        /\ subscription[s].status = "none"
        /\ Change(s, Purchase(c, checkout[k].tier))
        /\ checkout' = [checkout EXCEPT ![k].pc = "paid", ![k].cust = c, ![k].sub = s]
  BY <1>0, PaidBuys
<1> DEFINE after == Purchase(c, checkout[k].tier)
<1>3. /\ after.status = "active" /\ after.cust = c /\ after.born = emitted + 1
      /\ ~after.cancelAtPeriodEnd
  BY DEF Purchase
<1> HIDE DEF after
<1>4. /\ subscription'[s] = after /\ \A r \in Subs \ {s} : subscription'[r] = subscription[r]
      /\ \E new : Adds(new, "updated", s, after)
  BY <1>0, <1>1, <1>2, <1>3, ChangeAdds DEF after
<1>5. PICK new : Adds(new, "updated", s, after) BY <1>4
<1>6. /\ outbox' = outbox \cup {new} /\ Pending' = Pending \cup {new}
      /\ new.type = "updated" /\ new.created = clock /\ new.sub = s /\ new.cust = c
      /\ emitted' = emitted + 1 /\ clock' \in {clock, clock + 1}
      /\ emitted \in Nat /\ clock \in Nat /\ clock <= emitted
  BY <1>3, <1>5 DEF Adds
<1>7. s \notin Existing BY <1>0, <1>2 DEF Exist
<1>8. Existing' = Existing \cup {s} BY <1>3, <1>4, <1>6 DEF Existing
<1>9. \A e \in Pending : e.sub \in Subs /\ e.created \in Nat /\ e.sub # s
  BY <1>0, <1>7 DEF Event, Exist
\* The only one: nothing was there before.
<1>10. ASSUME OneSubscription'
       PROVE  /\ OneSubscription /\ Existing = {} /\ Pending = {} /\ Fresh = {} /\ ended = {}
              /\ users.customer = NoCust /\ \A j \in Checkouts : ~Paid(j)
  <2>1. \A r \in Existing' : r = s BY <1>8, <1>10 DEF OneSubscription, Existing
  <2>2. Existing = {} BY <1>7, <1>8, <2>1
  <2>3. Pending = {} BY <1>0, <2>2 DEF Exist
  <2>4. users.customer = NoCust BY <1>0, <2>2 DEF Exist
  <2>5. ended = {} BY <1>0, <2>4 DEF EndedIsOver
  <2>6. \A j \in Checkouts : ~Paid(j) BY <1>0, <2>2 DEF TInv, CustomerKnown, Paid, Exist
  <2>7. Fresh = {} BY <2>3, FreshPending
  <2>8. OneSubscription BY <2>2 DEF OneSubscription, Existing
  <2> QED BY <2>2, <2>3, <2>4, <2>5, <2>6, <2>7, <2>8
<1>11. Exist'
  <2>1. \A r \in Subs : (subscription[r].status # "none")' <=> r \in Existing'
    BY <1>0, <1>3, <1>4, <1>8 DEF Exist
  <2>2. \A e \in Pending' : e.sub \in Existing' /\ e.cust = subscription'[e.sub].cust
    BY <1>0, <1>3, <1>4, <1>6, <1>8, <1>9 DEF Exist
  <2>3. users' = users /\ job' = job BY <1>1 DEF billingVars
  <2> QED BY <1>0, <1>8, <2>1, <2>2, <2>3 DEF Exist, IsIdle
<1>12. Branched' BY <1>0, <1>1 DEF Branched, billingVars, At, Ev
<1>13. InThePast'
  <2> SUFFICES ASSUME clock' = emitted', NEW e \in Pending' PROVE e.created < clock'
    BY DEF InThePast
  <2>1. clock = emitted /\ clock' = clock + 1 BY <1>6
  <2> QED BY <1>0, <1>6, <1>9, <2>1 DEF InThePast
<1>14. /\ checkout'[k].sub = s /\ Paid(k)'
       /\ \A j \in Checkouts \ {k} : checkout'[j] = checkout[j]
  BY <1>0, <1>2 DEF CheckoutRecord, Paid
<1>15. PaidActive'
  <2> SUFFICES ASSUME NEW j \in Checkouts, Paid(j)'
               PROVE  /\ subscription'[checkout'[j].sub].status = "active"
                      /\ ~subscription'[checkout'[j].sub].cancelAtPeriodEnd
    BY DEF PaidActive
  <2>1. CASE j = k BY <1>3, <1>4, <1>14, <2>1
  <2>2. CASE j # k
    <3>1. Paid(j) /\ checkout'[j] = checkout[j] BY <1>14, <2>2 DEF Paid
    <3>2. checkout[j].sub \in Subs /\ checkout[j].sub # s
      BY <1>0, <1>2, <3>1 DEF TInv, CustomerKnown, Paid
    <3> QED BY <1>0, <1>4, <3>1, <3>2 DEF PaidActive
  <2> QED BY <2>1, <2>2
<1>16. DeletionIsLast'
  <2>1. \A d \in Pending' : d.type = "deleted" => subscription'[d.sub].status = "canceled"
    BY <1>0, <1>4, <1>6, <1>9 DEF DeletionIsLast
  <2>2. Lone' => \A d, e \in Pending' :
          d.type = "deleted" /\ e.type # "deleted" /\ e.sub = d.sub => e.created < d.created
    BY <1>6, <1>10 DEF Lone
  <2> QED BY <2>1, <2>2 DEF DeletionIsLast
<1>17. EndedIsOver' BY <1>0, <1>1, <1>10 DEF EndedIsOver, Lone, billingVars
<1>18. OneSession'
  <2>1. Fresh' = Fresh BY <1>1, <1>6 DEF Fresh, billingVars, At, Ev
  <2>2. users' = users BY <1>1 DEF billingVars
  <2>3. OneSubscription' => \A j \in Checkouts : Paid(j)' => j = k
    BY <1>10, <1>14 DEF Paid
  <2> QED BY <1>10, <2>1, <2>2, <2>3 DEF OneSession
<1> QED BY <1>11, <1>12, <1>13, <1>15, <1>16, <1>17, <1>18 DEF RParts

\* The session is reported: its subscription is active, so it was not deleted.
LEMMA RReported ==
  ASSUME RInv, NEW k \in Checkouts, SessionReported(k)
  PROVE  RParts'
<1> DEFINE s == checkout[k].sub
<1>0. /\ TInv /\ Exist /\ Branched /\ InThePast /\ PaidActive /\ DeletionIsLast /\ EndedIsOver
      /\ OneSession /\ Pending \subseteq Event /\ subscription \in [Subs -> Subscription]
      /\ ended \subseteq Subs /\ checkout \in [Checkouts -> CheckoutRecord]
  BY PendingTyped DEF RInv, RParts, OInv, TInv, TypeOK, StripeTypeOK, CheckoutRecord
<1>1. /\ UNCHANGED <<billingVars, subscription>> /\ Paid(k) /\ s \in Subs
      /\ checkout' = [checkout EXCEPT ![k].pc = "done"]
  BY <1>0, ReportedSession DEF Paid
<1>2. PICK after : /\ after = [subscription[s] EXCEPT !.tier = checkout[k].tier, !.status = "active"]
                   /\ Emit("session", s, after)
  BY <1>0, ReportedSession
<1>3. after.cust = subscription[s].cust BY <1>0, <1>1, <1>2 DEF Subscription
<1>4. PICK new : Adds(new, "session", s, after) BY <1>0, <1>1, <1>2, EmissionAdds
<1>5. /\ outbox' = outbox \cup {new} /\ Pending' = Pending \cup {new}
      /\ new.type = "session" /\ new.created = clock /\ new.sub = s /\ new.cust = subscription[s].cust
      /\ emitted' = emitted + 1 /\ clock' \in {clock, clock + 1}
      /\ emitted \in Nat /\ clock \in Nat /\ clock <= emitted
  BY <1>3, <1>4 DEF Adds
<1>6. subscription[s].status = "active" BY <1>0, <1>1 DEF PaidActive
<1>7. s \in Existing BY <1>0, <1>1, <1>6 DEF Exist
<1>8. /\ Existing' = Existing /\ OneSubscription' = OneSubscription /\ (Lone' => Lone)
  BY <1>1, <1>5 DEF Existing, OneSubscription, Lone
<1>9. \A e \in Pending : e.sub \in Subs /\ e.created \in Nat BY <1>0 DEF Event
<1>10. Exist'
  <2>1. \A e \in Pending' : e.sub \in Existing' /\ e.cust = subscription'[e.sub].cust
    BY <1>0, <1>1, <1>5, <1>7, <1>8 DEF Exist
  <2>2. users' = users /\ job' = job BY <1>1 DEF billingVars
  <2> QED BY <1>0, <1>1, <1>8, <2>1, <2>2 DEF Exist, IsIdle
<1>11. Branched' BY <1>0, <1>1 DEF Branched, billingVars, At, Ev
<1>12. InThePast'
  <2> SUFFICES ASSUME clock' = emitted', NEW e \in Pending' PROVE e.created < clock'
    BY DEF InThePast
  <2>1. clock = emitted /\ clock' = clock + 1 BY <1>5
  <2> QED BY <1>0, <1>5, <1>9, <2>1 DEF InThePast
<1>13. ~Paid(k)' /\ \A j \in Checkouts \ {k} : checkout'[j] = checkout[j] /\ Paid(j)' = Paid(j)
  BY <1>0, <1>1 DEF CheckoutRecord, Paid
<1>14. PaidActive' BY <1>0, <1>1, <1>13 DEF PaidActive
<1>15. DeletionIsLast'
  <2>1. \A d \in Pending : d.type = "deleted" => d.sub # s /\ subscription[d.sub].status = "canceled"
    BY <1>0, <1>6 DEF DeletionIsLast
  <2>2. \A d \in Pending' : d.type = "deleted" => subscription'[d.sub].status = "canceled"
    BY <1>1, <1>5, <2>1
  <2>3. ASSUME Lone', NEW d \in Pending', NEW e \in Pending',
               d.type = "deleted", e.type # "deleted", e.sub = d.sub
        PROVE  e.created < d.created
    <3>1. d \in Pending BY <1>5, <2>3
    <3>2. e \in Pending BY <1>5, <2>1, <2>3, <3>1
    <3> QED BY <1>0, <1>8, <2>3, <3>1, <3>2 DEF DeletionIsLast
  <2> QED BY <2>2, <2>3 DEF DeletionIsLast
<1>16. EndedIsOver'
  <2>1. ended' = ended /\ users' = users BY <1>1 DEF billingVars
  <2>2. ASSUME Lone', NEW r \in ended
        PROVE  /\ subscription'[r].status = "canceled"
               /\ \A e \in Pending' : e.sub = r /\ e.type # "deleted" => e.created < users.eventAt
    <3>1. subscription[r].status = "canceled" /\ r # s BY <1>0, <1>6, <1>8, <2>2 DEF EndedIsOver
    <3> QED BY <1>0, <1>1, <1>5, <1>8, <2>2, <3>1 DEF EndedIsOver
  <2> QED BY <1>0, <2>1, <2>2 DEF EndedIsOver
<1>17. OneSession'
  <2> SUFFICES ASSUME OneSubscription
               PROVE  /\ \A e, f \in Fresh' : e.id = f.id
                      /\ \A j \in Checkouts : Paid(j)' =>
                           Fresh' = {} /\ users'.customer = NoCust /\ \A i \in Checkouts : Paid(i)' => i = j
                      /\ users'.customer # NoCust => Fresh' = {}
    BY <1>8 DEF OneSession
  <2>1. Fresh = {} /\ users.customer = NoCust /\ \A j \in Checkouts : Paid(j) => j = k
    BY <1>0, <1>1 DEF OneSession
  <2>2. Fresh' \subseteq Fresh \cup {new} BY <1>1, <1>5 DEF Fresh, billingVars, At, Ev
  <2>3. \A j \in Checkouts : ~Paid(j)' BY <1>13, <2>1
  <2>4. users' = users BY <1>1 DEF billingVars
  <2> QED BY <2>1, <2>2, <2>3, <2>4
<1> QED BY <1>10, <1>11, <1>12, <1>14, <1>15, <1>16, <1>17 DEF RParts

\* The steps of a checkout that leave Stripe alone pay nothing.
LEMMA LocalPaysNothing ==
  ASSUME TInv, NEW k \in Checkouts,
         \/ \E t \in Tiers : CheckoutRead(k, t)
         \/ CheckoutLook(k) \/ CheckoutFails(k) \/ CheckoutBuy(k) \/ SessionExpires(k)
         \/ CheckoutMove(k)
  PROVE  \A j \in Checkouts : checkout'[j] = checkout[j] \/ ~Paid(j)'
<1>0. checkout \in [Checkouts -> CheckoutRecord] BY DEF TInv, TypeOK, CheckoutRecord
<1>1. \A j \in Checkouts \ {k} : checkout'[j] = checkout[j]
  BY <1>0 DEF CheckoutRead, CheckoutLook, CheckoutFails, CheckoutBuy, SessionExpires, CheckoutMove
<1>2. ASSUME NEW pc \in {"buy", "open", "done"}, checkout' = [checkout EXCEPT ![k].pc = pc]
      PROVE  checkout'[k].pc = pc
  BY <1>0, <1>2 DEF CheckoutRecord
<1>3. ASSUME NEW t \in Tiers, CheckoutRead(k, t) PROVE checkout'[k].pc = "look"
  BY <1>0, <1>3 DEF CheckoutRead
<1>4. ASSUME NEW s, NEW resuming,
             checkout' = [checkout EXCEPT ![k].pc = "move", ![k].sub = s, ![k].resuming = resuming]
      PROVE  checkout'[k].pc = "move"
  BY <1>0, <1>4 DEF CheckoutRecord
<1>5. CASE CheckoutLook(k) BY <1>1, <1>2, <1>4, <1>5 DEF CheckoutLook, Paid
<1>6. CASE CheckoutFails(k) \/ CheckoutBuy(k) \/ SessionExpires(k) \/ CheckoutMove(k)
  BY <1>1, <1>2, <1>6 DEF CheckoutFails, CheckoutBuy, SessionExpires, CheckoutMove, Paid
<1> QED BY <1>1, <1>3, <1>5, <1>6 DEF Paid

LEMMA RStep == RInv /\ OInv' /\ [Next]_vars => RInv'
<1> SUFFICES ASSUME RInv, OInv', [Next]_vars PROVE RParts' BY DEF RInv
<1>0. TInv /\ checkout \in [Checkouts -> CheckoutRecord]
  BY DEF RInv, OInv, TInv, TypeOK, CheckoutRecord
<1>1. ASSUME NEW h \in Handlers, HandlerStep(h) \/ Crash(h) PROVE RParts' BY <1>1, RHandler
<1>2. ASSUME NEW k \in Checkouts, CheckoutStep(k) PROVE RParts'
  <2>1. CASE /\ UNCHANGED <<stripeVars, billingVars>>
             /\ \/ \E t \in Tiers : CheckoutRead(k, t)
                \/ CheckoutLook(k) \/ CheckoutFails(k) \/ CheckoutBuy(k) \/ SessionExpires(k)
    BY <1>0, <2>1, LocalPaysNothing, RLocal
  <2>2. CASE CheckoutMove(k)
    <3>1. \A j \in Checkouts : checkout'[j] = checkout[j] \/ ~Paid(j)'
      BY <1>0, <2>2, LocalPaysNothing
    <3>2. UNCHANGED billingVars /\ checkout[k].sub \in Subs BY <1>0, <2>2, MoveAlters
    <3>3. CASE UNCHANGED stripeVars BY <3>1, <3>2, <3>3, RLocal
    <3>4. CASE \E after \in Subscription :
                 /\ Alters(checkout[k].sub, after)
                 /\ after.status = subscription[checkout[k].sub].status
                 /\ after.cancelAtPeriodEnd => subscription[checkout[k].sub].cancelAtPeriodEnd
      BY <3>1, <3>2, <3>4, RAlters
    <3> QED BY <1>0, <2>2, <3>3, <3>4, MoveAlters
  <2>3. CASE SessionPaid(k) BY <2>3, RPaid
  <2>4. CASE SessionReported(k) BY <2>4, RReported
  <2> QED BY <1>2, <2>1, <2>2, <2>3, <2>4, CheckoutKeeps
<1>3. ASSUME NEW s \in Subs, SubscriptionStep(s) PROVE RParts'
  <2>1. /\ UNCHANGED <<billingVars, checkout>>
        /\ \A k \in Checkouts : Paid(k) => checkout[k].sub # s
        /\ \E after \in Subscription : Alters(s, after)
    BY <1>0, <1>3, SubscriptionAlters DEF Paid
  <2> QED BY <2>1, RAlters
<1>4. CASE UNCHANGED vars BY <1>4, RLocal DEF vars
<1> QED BY <1>1, <1>2, <1>3, <1>4 DEF Next

LEMMA Resurrects == Spec => []RInv
<1>1. Init => RInv
  <2> SUFFICES ASSUME Init PROVE RInv OBVIOUS
  <2>1. /\ \A s \in Subs : subscription[s].born = 0 /\ subscription[s].status = "none"
        /\ outbox = {} /\ ended = {} /\ users.customer = NoCust /\ users.sub = NoSub
        /\ \A h \in Handlers : job[h].pc = "idle"
    BY DEF Init, StripeInit, Idle
  <2>2. \A k \in Checkouts : ~Paid(k) BY DEF Init, Paid
  <2>3. Pending = {} /\ Fresh = {} /\ Existing = {} BY <2>1 DEF Pending, Fresh, Existing, IsIdle, At
  <2> QED BY <2>1, <2>2, <2>3, OnceInit
       DEF RInv, RParts, Exist, Branched, InThePast, PaidActive, DeletionIsLast, EndedIsOver,
           OneSession, IsIdle, At
<1>2. OInv /\ [Next]_vars => OInv' BY StepTyped, OnceStep DEF OInv
<1>3. RInv /\ [Next]_vars => RInv' BY <1>2, RStep DEF RInv
<1> QED BY <1>1, <1>3, PTL DEF Spec

\* While a customer has had one subscription and every event its own second, an update that
\* waits to be applied never ends up on a row whose deletion was handled.
THEOREM DeletedStaysDeleted == Spec => NoResurrectionOfOne
<1>1. ASSUME RInv, [Next]_vars, clock = emitted, OneSubscription, NEW h \in Handlers, At(h, "apply"),
             users.plan = Free, users'.plan # Free, Ev(h).sub \in ended
      PROVE  FALSE
  <2>0. /\ TInv /\ TypeOK /\ Exist /\ Branched /\ EndedIsOver /\ OneSession /\ OInv
        /\ users \in Row /\ Lone
    BY <1>1 DEF RInv, RParts, OInv, TInv, TypeOK, Lone
  <2>1. users.customer # NoCust BY <1>1, <2>0 DEF EndedIsOver
  <2>2. Fresh = {} BY <1>1, <2>0, <2>1 DEF OneSession
  <2>3. \A g \in Handlers : ~IsIdle(g) =>
          Ev(g) \in Pending /\ Ev(g).sub \in Existing /\ Ev(g).created \in Nat
    <3>1. \A g \in Handlers : ~IsIdle(g) => Ev(g) \in Pending BY DEF Pending
    <3> QED BY <2>0, <3>1, JobShape DEF Exist
  <2>4. ~IsIdle(h) BY <1>1 DEF At, IsIdle
  <2>5. \A s \in Existing : s = Ev(h).sub BY <1>1, <2>3, <2>4 DEF OneSubscription, Existing
  <2>6. ASSUME NEW g \in Handlers, HandlerStep(g) \/ Crash(g) PROVE FALSE
    <3>1. CASE Link(g) BY <2>2, <3>1 DEF Link, Fresh
    <3>2. CASE Fill(g) BY <1>1, <2>0, <3>2 DEF Fill, Row
    <3>3. CASE Apply(g)
      <4>1. ~IsIdle(g) /\ Ev(g).type = "updated"
        BY <2>0, <3>3 DEF Apply, At, IsIdle, Branched
      <4>2. Ev(g) \in Pending /\ Ev(g).sub = Ev(h).sub BY <2>3, <2>5, <4>1
      <4>3. Ev(g).created < users.eventAt BY <1>1, <2>0, <4>1, <4>2 DEF EndedIsOver
      <4>4. ~Matches(Ev(g)) BY <2>0, <2>3, <4>1, <4>3 DEF Matches, Row
      <4> QED BY <1>1, <3>3, <4>4 DEF Apply, Applied
    <3>4. CASE EndWrite(g)
      <4>1. ~IsIdle(g) /\ At(g, "end") BY <3>4 DEF EndWrite, At, IsIdle
      <4>2. job[g].pick = NoPick
        <5>1. job[g].pick # NoPick => job[g].pick.sub \in Existing /\ job[g].pick.sub # Ev(g).sub
          BY <2>0, <4>1 DEF Exist, Branched
        <5> QED BY <2>3, <2>5, <4>1, <5>1
      <4>3. users' = Applied(Ev(g), NoSub, Free, Ev(g).status, NoDate, FALSE)
        BY <3>4, <4>2 DEF EndWrite, Ended
      <4> QED BY <1>1, <2>0, <4>3 DEF Applied, Row
    <3>5. CASE UNCHANGED users BY <1>1, <3>5
    <3> QED BY <2>0, <2>6, <3>1, <3>2, <3>3, <3>4, <3>5, RowSteps
  <2>7. ASSUME NEW k \in Checkouts, CheckoutStep(k) PROVE FALSE
    <3>1. UNCHANGED billingVars
      BY <2>0, <2>7, CheckoutKeeps, MoveAlters, PaidBuys, ReportedSession
    <3> QED BY <1>1, <3>1 DEF billingVars
  <2>8. ASSUME NEW s \in Subs, SubscriptionStep(s) PROVE FALSE
    BY <1>1, <2>8 DEF SubscriptionStep, billingVars
  <2>9. CASE UNCHANGED vars BY <1>1, <2>9 DEF vars, billingVars
  <2> QED BY <1>1, <2>6, <2>7, <2>8, <2>9 DEF Next
<1>2. RInv /\ [Next]_vars =>
        [clock = emitted /\ OneSubscription =>
           \A h \in Handlers : At(h, "apply") /\ users.plan = Free /\ users'.plan # Free
             => Ev(h).sub \notin ended]_vars
  BY <1>1
<1> QED BY <1>2, Resurrects, PTL DEF Spec, NoResurrectionOfOne

-----------------------------------------------------------------------------
(* The settled row says what Stripe holds, for a customer of one subscription. *)

\* Delivered in order and one at a time, nothing fails, and there is one subscription.
Quiet == world.alone /\ world.inOrder /\ ~world.faults /\ crashes = 0 /\ OneSubscription

\* Events are numbered in the order of emission, and so are their times.
Numbered ==
  /\ \A e \in outbox : e.id <= emitted
  /\ \A i \in ledger : i <= emitted
  /\ \A e, f \in outbox : e.id = f.id => e = f
  /\ \A e, f \in outbox : e.id <= f.id => e.created <= f.created
  /\ users.eventAt <= clock

\* The event being worked on is the oldest one, and no other was taken.
Serial ==
  Quiet =>
    /\ \A h \in Handlers : ~IsIdle(h) => Ev(h) \in outbox /\ \A f \in outbox : Ev(h).id <= f.id
    /\ \A e \in outbox : e.id \in ledger => \E h \in Handlers : ~IsIdle(h) /\ Ev(h) = e
    /\ \A e \in outbox : users.eventAt <= e.created

Last(e) == e \in outbox /\ \A f \in outbox : f.id <= e.id

\* The youngest event says what its subscription is.
Says(e, s) ==
  /\ e.tier = s.tier /\ e.status = s.status
  /\ e.cancel = s.cancelAtPeriodEnd /\ e.period = s.period
Truthful == Quiet => \A e \in outbox : Last(e) => Says(e, subscription[e.sub])

\* A session reports a subscription nothing has befallen yet, at the price it was bought for.
Sessions ==
  /\ \A e \in Pending : e.type = "session" => e.status = "active" /\ ~e.cancel
  /\ OneSubscription => \A k \in Checkouts : Paid(k) =>
       subscription[checkout[k].sub].tier = checkout[k].tier

\* Whatever is applied entitles.
Entitles == \A h \in Handlers : At(h, "apply") => Ev(h).status \in ENTITLED_STATUSES

\* A checkout moves a subscription of a linked account alone.
Movers ==
  \A k \in Checkouts :
    /\ checkout[k].pc = "look" /\ checkout[k].cust # NoCust => users.customer # NoCust
    /\ checkout[k].pc = "move" => users.customer # NoCust

\* Nothing is written to a row before it is linked.
Unlinked ==
  /\ users.customer = NoCust => users.plan = Free /\ users.renews = NoDate
  /\ \A h \in Handlers : job[h].pc \in {"fillLookup", "fill"} => users.customer # NoCust

\* The session that links the account is on its way.
LinkComes ==
  Quiet /\ users.customer = NoCust /\ Existing # {} => Fresh # {} \/ \E k \in Checkouts : Paid(k)

SameCustomer ==
  OneSubscription /\ users.customer # NoCust =>
    \A s \in Existing : subscription[s].cust = users.customer

\* Between the link and the filling of its holes the row is what the session said.
Linking ==
  Quiet => \A h \in Handlers :
    /\ job[h].pc \in {"fillLookup", "fill"} =>
         /\ users.sub = Ev(h).sub /\ users.plan = Ev(h).tier /\ users.status = "active"
         /\ ~users.cancel /\ users.renews = NoDate
    /\ At(h, "fill") /\ Last(Ev(h)) => job[h].pick.period = subscription[Ev(h).sub].period

\* Events the row does not know of: one that is only mailed about is none of them.
Unheard == {e \in outbox : \A h \in Handlers : At(h, "mail") => Ev(h) # e}

Agrees(s) ==
  IF Live(s) THEN /\ users.sub = s
                  /\ users.plan = subscription[s].tier /\ users.status = subscription[s].status
                  /\ users.cancel = subscription[s].cancelAtPeriodEnd
                  /\ users.renews = subscription[s].period
  ELSE users.plan = Free
Agreed == Quiet /\ users.customer # NoCust /\ Unheard = {} => \A s \in Existing : Agrees(s)

SParts == /\ Numbered /\ Serial /\ Truthful /\ Sessions /\ Entitles /\ Movers /\ Unlinked
          /\ LinkComes /\ SameCustomer /\ Linking /\ Agreed
SBase == RInv /\ DInv /\ BInv
SInv == SBase /\ SParts

\* An emission is the youngest event, and nobody has heard of it.
LEMMA SEmission ==
  ASSUME SInv, UNCHANGED billingVars, NEW new, NEW type, NEW s \in Subs, NEW after,
         Adds(new, type, s, after), OneSubscription' => OneSubscription,
         Quiet' => Says(new, subscription'[s])
  PROVE  (Numbered /\ Serial /\ Truthful /\ Linking /\ Agreed)' /\ (Quiet' => Quiet)
<1>0. /\ TInv /\ EventsPast /\ Numbered /\ Serial /\ Truthful /\ Linking /\ Agreed
      /\ Pending \subseteq Event /\ outbox \subseteq Event /\ outbox \subseteq Pending
      /\ ledger \subseteq 1..MaxEvents /\ users.eventAt \in Nat
  BY PendingTyped DEF SInv, SBase, SParts, DInv, TInv, TypeOK, StripeTypeOK, Pending, Row
<1>1. /\ outbox' = outbox \cup {new} /\ new.id = emitted + 1 /\ new.created = clock /\ new.sub = s
      /\ emitted' = emitted + 1 /\ clock' \in {clock, clock + 1}
      /\ emitted \in Nat /\ clock \in Nat
  BY DEF Adds
<1>2. /\ users' = users /\ job' = job /\ ledger' = ledger /\ world' = world /\ crashes' = crashes
  BY DEF billingVars
<1>3. Quiet' => Quiet BY <1>2 DEF Quiet
<1>4. \A e \in outbox : /\ e.id \in Nat /\ e.created \in Nat /\ e.id <= emitted /\ e.created <= clock
                        /\ e # new
  BY <1>0, <1>1 DEF Event, Numbered, EventsPast
<1>5. \A i \in ledger : i \in Nat /\ i <= emitted BY <1>0 DEF Numbered
<1>6. Numbered'
  <2>1. \A e \in outbox' : e.id <= emitted' BY <1>1, <1>4
  <2>2. \A i \in ledger' : i <= emitted' BY <1>1, <1>2, <1>5
  <2>3. \A e, f \in outbox' : e.id = f.id => e = f BY <1>0, <1>1, <1>4 DEF Numbered
  <2>4. \A e, f \in outbox' : e.id <= f.id => e.created <= f.created
    BY <1>0, <1>1, <1>4 DEF Numbered
  <2>5. users'.eventAt <= clock' BY <1>0, <1>1, <1>2 DEF Numbered
  <2> QED BY <2>1, <2>2, <2>3, <2>4, <2>5 DEF Numbered
<1>7. \A h \in Handlers : IsIdle(h)' = IsIdle(h) /\ Ev(h)' = Ev(h) /\ (\A pc : At(h, pc)' = At(h, pc))
  BY <1>2 DEF IsIdle, Ev, At
<1>8. Serial'
  <2> SUFFICES ASSUME Quiet
               PROVE  /\ \A h \in Handlers : ~IsIdle(h) =>
                           Ev(h) \in outbox' /\ \A f \in outbox' : Ev(h).id <= f.id
                      /\ \A e \in outbox' : e.id \in ledger => \E h \in Handlers : ~IsIdle(h) /\ Ev(h) = e
                      /\ \A e \in outbox' : users.eventAt <= e.created
    BY <1>2, <1>3, <1>7 DEF Serial
  <2>1. /\ \A h \in Handlers : ~IsIdle(h) => Ev(h) \in outbox /\ \A f \in outbox : Ev(h).id <= f.id
        /\ \A e \in outbox : e.id \in ledger => \E h \in Handlers : ~IsIdle(h) /\ Ev(h) = e
        /\ \A e \in outbox : users.eventAt <= e.created
    BY <1>0 DEF Serial
  <2>2. \A h \in Handlers : ~IsIdle(h) => \A f \in outbox' : Ev(h).id <= f.id
    BY <1>1, <1>4, <2>1
  <2>3. new.id \notin ledger BY <1>1, <1>5
  <2>4. users.eventAt <= new.created BY <1>0, <1>1 DEF Numbered
  <2> QED BY <1>1, <2>1, <2>2, <2>3, <2>4
<1>9. ASSUME NEW e \in outbox', \A f \in outbox' : f.id <= e.id PROVE e = new
  BY <1>1, <1>4, <1>9
<1>10. Truthful' BY <1>1, <1>9 DEF Truthful, Last
<1>11. \A h \in Handlers : Quiet /\ ~IsIdle(h) => Ev(h) \in outbox BY <1>0 DEF Serial
<1>12. Linking'
  <2>1. \A h \in Handlers : Quiet /\ At(h, "fill") => ~(\A f \in outbox' : f.id <= Ev(h).id)
    BY <1>1, <1>4, <1>11 DEF At, IsIdle
  <2> QED BY <1>0, <1>2, <1>3, <1>7, <2>1 DEF Linking, Last
<1>13. Agreed'
  <2>1. Quiet => new \in Unheard'
    <3>1. \A h \in Handlers : Quiet /\ At(h, "mail") => Ev(h) # new BY <1>4, <1>11 DEF At, IsIdle
    <3> QED BY <1>1, <1>7, <3>1 DEF Unheard
  <2> QED BY <1>3, <2>1 DEF Agreed
<1> QED BY <1>3, <1>6, <1>8, <1>10, <1>12, <1>13

\* A checkout that leaves Stripe alone.
LEMMA SLocal ==
  ASSUME SInv, UNCHANGED <<stripeVars, billingVars>>, Movers',
         \A k \in Checkouts : Paid(k) \/ Paid(k)' => checkout'[k] = checkout[k]
  PROVE  SParts'
<1>0. SParts BY DEF SInv
<1>1. Pending' = Pending BY PendingStays DEF stripeVars, billingVars
<1>2. /\ Fresh' = Fresh /\ Existing' = Existing /\ OneSubscription' = OneSubscription
      /\ Quiet' = Quiet /\ Unheard' = Unheard
  BY DEF Fresh, Existing, OneSubscription, Quiet, Unheard, stripeVars, billingVars, At, Ev
<1>3. /\ \A h \in Handlers : IsIdle(h)' = IsIdle(h) /\ Ev(h)' = Ev(h) /\ (\A pc : At(h, pc)' = At(h, pc))
      /\ \A e : Last(e)' = Last(e)
      /\ \A s : Agrees(s)' = Agrees(s)
  BY DEF IsIdle, Ev, At, Last, Agrees, Live, stripeVars, billingVars
<1>4. \A k \in Checkouts : Paid(k)' = Paid(k) BY DEF Paid
<1>5. Numbered' BY <1>0 DEF SParts, Numbered, stripeVars, billingVars
<1>6. Serial' BY <1>0, <1>2, <1>3 DEF SParts, Serial, stripeVars, billingVars
<1>7. Truthful' BY <1>0, <1>2, <1>3 DEF SParts, Truthful, stripeVars
<1>8. Sessions' BY <1>0, <1>1, <1>2, <1>4 DEF SParts, Sessions, stripeVars
<1>9. Entitles' BY <1>0, <1>3 DEF SParts, Entitles
<1>10. Unlinked' BY <1>0 DEF SParts, Unlinked, billingVars
<1>11. LinkComes' BY <1>0, <1>2, <1>4 DEF SParts, LinkComes, billingVars
<1>12. SameCustomer' BY <1>0, <1>2 DEF SParts, SameCustomer, stripeVars, billingVars
<1>13. Linking' BY <1>0, <1>2, <1>3 DEF SParts, Linking, stripeVars, billingVars
<1>14. Agreed' BY <1>0, <1>2, <1>3 DEF SParts, Agreed, billingVars
<1> QED BY <1>5, <1>6, <1>7, <1>8, <1>9, <1>10, <1>11, <1>12, <1>13, <1>14 DEF SParts

\* An existing subscription changes; not one whose session waits to be reported.
LEMMA SAlters ==
  ASSUME SInv, UNCHANGED billingVars, NEW s \in Subs, NEW after \in Subscription, Alters(s, after),
         \A k \in Checkouts : checkout'[k] = checkout[k] \/ (~Paid(k) /\ checkout'[k].pc = "done"),
         OneSubscription => \A k \in Checkouts : Paid(k) => checkout[k].sub # s
  PROVE  SParts'
<1>0. /\ TInv /\ SParts /\ Pending \subseteq Event
  BY PendingTyped DEF SInv, SBase, DInv, TInv
<1> DEFINE type == IF after.status = "canceled" THEN "deleted" ELSE "updated"
<1>1. /\ subscription'[s] = after /\ \A r \in Subs \ {s} : subscription'[r] = subscription[r]
      /\ \E new : Adds(new, type, s, after)
  BY <1>0, ChangeAdds DEF Alters
<1>2. PICK new : Adds(new, type, s, after) BY <1>1
<1>3. type # "session" OBVIOUS
<1> HIDE DEF type
<1>4. after.cust = subscription[s].cust /\ after.born = subscription[s].born BY DEF Alters
<1>5. Existing' = Existing BY <1>1, <1>4 DEF Existing
<1>6. OneSubscription' = OneSubscription BY <1>1, <1>4 DEF OneSubscription
<1>7. Says(new, subscription'[s]) BY <1>1, <1>2 DEF Adds, Says
<1>8. (Numbered /\ Serial /\ Truthful /\ Linking /\ Agreed)' /\ (Quiet' => Quiet)
  BY <1>2, <1>6, <1>7, SEmission
<1>9. outbox' = outbox \cup {new} /\ Pending' = Pending \cup {new} /\ new.type = type
  BY <1>2 DEF Adds
<1>10. \A k \in Checkouts : /\ Paid(k)' => Paid(k) /\ checkout'[k] = checkout[k]
                            /\ Paid(k) => Paid(k)'
  BY DEF Paid
<1>11. \A k \in Checkouts : Paid(k) => checkout[k].sub \in Subs
  BY <1>0 DEF TInv, CustomerKnown, Paid
<1>12. Sessions'
  <2>1. \A e \in Pending' : e.type = "session" => e.status = "active" /\ ~e.cancel
    BY <1>0, <1>3, <1>9 DEF SParts, Sessions
  <2>2. OneSubscription => \A k \in Checkouts : Paid(k)' =>
          subscription'[checkout'[k].sub].tier = checkout'[k].tier
    BY <1>0, <1>1, <1>10, <1>11 DEF SParts, Sessions
  <2> QED BY <1>6, <2>1, <2>2 DEF Sessions
<1>13. Entitles' BY <1>0 DEF SParts, Entitles, billingVars, At, Ev
<1>14. Movers' BY <1>0 DEF SParts, Movers, billingVars
<1>15. Unlinked' BY <1>0 DEF SParts, Unlinked, billingVars
<1>16. LinkComes'
  <2>1. Fresh \subseteq Fresh' BY <1>9 DEF Fresh, billingVars, At, Ev
  <2> QED BY <1>0, <1>5, <1>8, <1>10, <2>1 DEF SParts, LinkComes, billingVars
<1>17. SameCustomer'
  <2>1. \A r \in Existing : subscription'[r].cust = subscription[r].cust
    BY <1>1, <1>4 DEF Existing
  <2> QED BY <1>0, <1>5, <1>6, <2>1 DEF SParts, SameCustomer, billingVars
<1> QED BY <1>8, <1>12, <1>13, <1>14, <1>15, <1>16, <1>17 DEF SParts

\* A session is paid.  For the only subscription there will be, nothing was before.
LEMMA SPaid ==
  ASSUME SInv, NEW k \in Checkouts, SessionPaid(k)
  PROVE  SParts'
<1>0. /\ TInv /\ SParts /\ Exist /\ EndedIsOver
      /\ checkout \in [Checkouts -> CheckoutRecord] /\ subscription \in [Subs -> Subscription]
  BY DEF SInv, SBase, RInv, RParts, DInv, TInv, TypeOK, StripeTypeOK, CheckoutRecord
<1>1. UNCHANGED billingVars BY <1>0, PaidBuys
<1>2. PICK s \in Subs, c \in Customers :
        /\ subscription[s].status = "none"
        /\ Change(s, Purchase(c, checkout[k].tier))
        /\ checkout' = [checkout EXCEPT ![k].pc = "paid", ![k].cust = c, ![k].sub = s]
  BY <1>0, PaidBuys
<1> DEFINE after == Purchase(c, checkout[k].tier)
<1>3. /\ after.status = "active" /\ after.born = emitted + 1 /\ after.tier = checkout[k].tier
  BY DEF Purchase
<1> HIDE DEF after
<1>4. /\ subscription'[s] = after /\ \A r \in Subs \ {s} : subscription'[r] = subscription[r]
      /\ \E new : Adds(new, "updated", s, after)
  BY <1>0, <1>1, <1>2, <1>3, ChangeAdds DEF after
<1>5. PICK new : Adds(new, "updated", s, after) BY <1>4
<1>6. outbox' = outbox \cup {new} /\ Pending' = Pending \cup {new} /\ new.type = "updated"
      /\ emitted \in Nat
  BY <1>5 DEF Adds
<1>7. s \notin Existing /\ Existing' = Existing \cup {s}
  BY <1>0, <1>2, <1>3, <1>4, <1>6 DEF Exist, Existing
<1>8. ASSUME OneSubscription'
      PROVE  /\ OneSubscription /\ Existing = {} /\ users.customer = NoCust
             /\ \A j \in Checkouts : ~Paid(j)
  <2>1. \A r \in Existing' : r = s BY <1>7, <1>8 DEF OneSubscription, Existing
  <2>2. Existing = {} BY <1>7, <2>1
  <2>3. users.customer = NoCust BY <1>0, <2>2 DEF Exist
  <2>4. \A j \in Checkouts : ~Paid(j) BY <1>0, <2>2 DEF TInv, CustomerKnown, Paid, Exist
  <2>5. OneSubscription BY <2>2 DEF OneSubscription, Existing
  <2> QED BY <2>2, <2>3, <2>4, <2>5
<1>9. Says(new, subscription'[s]) BY <1>4, <1>5 DEF Adds, Says
<1>10. (Numbered /\ Serial /\ Truthful /\ Linking /\ Agreed)' /\ (Quiet' => Quiet)
  BY <1>1, <1>5, <1>8, <1>9, SEmission
<1>11. /\ Paid(k)' /\ checkout'[k].sub = s /\ checkout'[k].tier = checkout[k].tier
       /\ checkout'[k].pc = "paid"
       /\ \A j \in Checkouts \ {k} : checkout'[j] = checkout[j]
  BY <1>0, <1>2 DEF CheckoutRecord, Paid
<1>12. Sessions'
  <2>1. \A e \in Pending' : e.type = "session" => e.status = "active" /\ ~e.cancel
    BY <1>0, <1>6 DEF SParts, Sessions
  <2>2. OneSubscription' => \A j \in Checkouts : Paid(j)' =>
          subscription'[checkout'[j].sub].tier = checkout'[j].tier
    BY <1>3, <1>4, <1>8, <1>11 DEF Paid
  <2> QED BY <2>1, <2>2 DEF Sessions
<1>13. Entitles' BY <1>0, <1>1 DEF SParts, Entitles, billingVars, At, Ev
<1>14. Movers' BY <1>0, <1>1, <1>11 DEF SParts, Movers, billingVars
<1>15. Unlinked' BY <1>0, <1>1 DEF SParts, Unlinked, billingVars
<1>16. LinkComes' BY <1>11 DEF LinkComes
<1>17. SameCustomer' BY <1>1, <1>8 DEF SameCustomer, billingVars
<1> QED BY <1>10, <1>12, <1>13, <1>14, <1>15, <1>16, <1>17 DEF SParts

\* The session is reported: the subscription is as it was bought.
LEMMA SReported ==
  ASSUME SInv, NEW k \in Checkouts, SessionReported(k)
  PROVE  SParts'
<1> DEFINE s == checkout[k].sub
<1>0. /\ TInv /\ SParts /\ PaidActive /\ OneSession
      /\ checkout \in [Checkouts -> CheckoutRecord] /\ subscription \in [Subs -> Subscription]
      /\ ledger \subseteq Nat
  BY DEF SInv, SBase, RInv, RParts, DInv, TInv, TypeOK, StripeTypeOK, CheckoutRecord
<1>1. /\ UNCHANGED <<billingVars, subscription>> /\ Paid(k) /\ s \in Subs
      /\ checkout' = [checkout EXCEPT ![k].pc = "done"]
  BY <1>0, ReportedSession DEF Paid
<1>2. PICK after : /\ after = [subscription[s] EXCEPT !.tier = checkout[k].tier, !.status = "active"]
                   /\ Emit("session", s, after)
  BY <1>0, ReportedSession
<1>3. /\ after.tier = checkout[k].tier /\ after.status = "active"
      /\ after.cancelAtPeriodEnd = subscription[s].cancelAtPeriodEnd
      /\ after.period = subscription[s].period
  BY <1>0, <1>1, <1>2 DEF Subscription
<1>4. PICK new : Adds(new, "session", s, after) BY <1>0, <1>1, <1>2, EmissionAdds
<1>5. /\ outbox' = outbox \cup {new} /\ Pending' = Pending \cup {new} /\ new.type = "session"
      /\ new.status = "active" /\ new.cancel = subscription[s].cancelAtPeriodEnd
      /\ new.id = emitted + 1 /\ emitted \in Nat
  BY <1>3, <1>4 DEF Adds
<1>6. subscription[s].status = "active" /\ ~subscription[s].cancelAtPeriodEnd
  BY <1>0, <1>1 DEF PaidActive
<1>7. Existing' = Existing /\ OneSubscription' = OneSubscription
  BY <1>1 DEF Existing, OneSubscription
<1>8. OneSubscription => Says(new, subscription'[s])
  <2>1. OneSubscription => subscription[s].tier = checkout[k].tier BY <1>0, <1>1 DEF SParts, Sessions
  <2>2. /\ new.tier = checkout[k].tier /\ new.status = "active"
        /\ new.cancel = subscription[s].cancelAtPeriodEnd /\ new.period = subscription[s].period
    BY <1>3, <1>4 DEF Adds
  <2> QED BY <1>1, <1>6, <2>1, <2>2 DEF Says
<1>9. (Numbered /\ Serial /\ Truthful /\ Linking /\ Agreed)' /\ (Quiet' => Quiet)
  <2>1. Quiet' => Says(new, subscription'[s]) BY <1>7, <1>8 DEF Quiet
  <2> QED BY <1>1, <1>4, <1>7, <2>1, SEmission
<1>10. ~Paid(k)' /\ checkout'[k].pc = "done" /\ \A j \in Checkouts \ {k} : checkout'[j] = checkout[j]
  BY <1>0, <1>1 DEF CheckoutRecord, Paid
<1>11. Sessions'
  <2>1. \A e \in Pending' : e.type = "session" => e.status = "active" /\ ~e.cancel
    BY <1>0, <1>5, <1>6 DEF SParts, Sessions
  <2>2. OneSubscription => \A j \in Checkouts : Paid(j)' =>
          subscription'[checkout'[j].sub].tier = checkout'[j].tier
    BY <1>0, <1>1, <1>10 DEF SParts, Sessions, Paid
  <2> QED BY <1>7, <2>1, <2>2 DEF Sessions
<1>12. Entitles' BY <1>0, <1>1 DEF SParts, Entitles, billingVars, At, Ev
<1>13. Movers' BY <1>0, <1>1, <1>10 DEF SParts, Movers, billingVars
<1>14. Unlinked' BY <1>0, <1>1 DEF SParts, Unlinked, billingVars
<1>15. LinkComes'
  <2>1. new.id \notin ledger BY <1>0, <1>5 DEF SParts, Numbered
  <2>2. new \in Fresh' BY <1>1, <1>5, <2>1 DEF Fresh, billingVars
  <2> QED BY <2>2 DEF LinkComes
<1>16. SameCustomer' BY <1>0, <1>1, <1>7 DEF SParts, SameCustomer, billingVars
<1> QED BY <1>9, <1>11, <1>12, <1>13, <1>14, <1>15, <1>16 DEF SParts

\* The row's watermark is the old one or the time of the event being worked on.
LEMMA EventAtSteps ==
  ASSUME TInv, NEW h \in Handlers, HandlerStep(h) \/ Crash(h)
  PROVE  users'.eventAt = users.eventAt \/ (~IsIdle(h) /\ users'.eventAt = Ev(h).created)
<1>0. users \in Row BY DEF TInv, TypeOK
<1>1. CASE UNCHANGED users BY <1>1
<1>2. CASE Link(h)
  <2>1. ~IsIdle(h) BY <1>2 DEF Link, At, IsIdle
  <2>2. users'.eventAt \in {users.eventAt, Ev(h).created} BY <1>0, <1>2 DEF Link, Linked, Row
  <2> QED BY <2>1, <2>2
<1>3. CASE Fill(h) BY <1>0, <1>3 DEF Fill, Row
<1>4. CASE Apply(h)
  <2>1. ~IsIdle(h) BY <1>4 DEF Apply, At, IsIdle
  <2>2. users'.eventAt \in {users.eventAt, Ev(h).created} BY <1>0, <1>4 DEF Apply, Applied, Row
  <2> QED BY <2>1, <2>2
<1>5. CASE EndWrite(h)
  <2>1. ~IsIdle(h) BY <1>5 DEF EndWrite, At, IsIdle
  <2>2. users'.eventAt \in {users.eventAt, Ev(h).created}
    BY <1>0, <1>5 DEF EndWrite, Ended, Applied, Row
  <2> QED BY <2>1, <2>2
<1> QED BY <1>1, <1>2, <1>3, <1>4, <1>5, RowSteps

\* A linked account stays linked, and a linking one gets a customer.
LEMMA LinkedStays ==
  ASSUME TInv, NEW h \in Handlers, HandlerStep(h) \/ Crash(h),
         users.customer # NoCust \/ Link(h)
  PROVE  users'.customer # NoCust
<1>1. CASE Link(h)
  <2>1. ~IsIdle(h) /\ TypeOK /\ users \in Row BY <1>1 DEF Link, At, IsIdle, TInv, TypeOK
  <2>2. users'.customer = Ev(h).cust BY <1>1, <2>1 DEF Link, Linked, Row
  <2> QED BY <2>1, <2>2, JobShape
<1> QED BY <1>1, CustomerStays

\* Only linking, or dying, takes a session event out of the fresh ones.
LEMMA FreshKept ==
  ASSUME SInv, NEW h \in Handlers, HandlerStep(h), ~Link(h), ~Crash(h)
  PROVE  Fresh \subseteq Fresh'
<1>0. TInv /\ OneAtWork /\ Numbered
  BY DEF SInv, SBase, SParts, RInv, OInv
<1>1. \A g \in Handlers \ {h} : job'[g] = job[g] BY <1>0, HandlerKeeps
<1>2. Drops(h) \/ (\E e \in outbox : Starts(h, e)) \/ GoesOn(h) \/ Stops(h) BY <1>0, JobSteps
<1>3. ASSUME NEW g \in Handlers, At(g, "link") PROVE Ev(g) \in Fresh'
  <2>1. ~At(h, "link")
    BY <1>2 DEF Drops, Starts, GoesOn, Stops, Receive, FillLookup, Fill, Apply, StrayCheck,
                ReadAccount, EndLookup, EndWrite, Notify, At, IsIdle
  <2>2. g # h BY <1>3, <2>1
  <2>3. job'[g] = job[g] BY <1>1, <2>2
  <2>4. At(g, "link")' /\ Ev(g)' = Ev(g) BY <1>3, <2>3 DEF At, Ev
  <2> QED BY <2>4 DEF Fresh
<1>4. ASSUME NEW e \in outbox, e.type = "session", e.id \notin ledger PROVE e \in Fresh'
  <2>1. CASE Drops(h) BY <1>4, <2>1 DEF Drops, Fresh
  <2>2. ASSUME NEW f \in outbox, Starts(h, f) PROVE e \in Fresh'
    <3>1. CASE f.id = e.id
      <4>1. f = e BY <1>0, <3>1 DEF Numbered
      <4>2. At(h, "link")' /\ Ev(h)' = e BY <1>4, <2>2, <4>1 DEF Starts, Branch, At, Ev
      <4> QED BY <4>2 DEF Fresh
    <3>2. CASE f.id # e.id BY <1>4, <2>2, <3>2 DEF Starts, Fresh
    <3> QED BY <3>1, <3>2
  <2>3. CASE GoesOn(h) BY <1>4, <2>3 DEF GoesOn, Fresh
  <2>4. CASE Stops(h)
    <3>1. Ev(h).id \in ledger BY <1>0, <2>4 DEF Stops, OneAtWork
    <3> QED BY <1>4, <2>4, <3>1 DEF Stops, Fresh
  <2> QED BY <1>2, <2>1, <2>2, <2>3, <2>4
<1> QED BY <1>3, <1>4 DEF Fresh

\* In quiet surroundings an invocation works on the oldest event, and alone.
LEMMA QuietStep ==
  ASSUME SInv, NEW h \in Handlers, HandlerStep(h) \/ Crash(h), Quiet'
  PROVE  /\ Quiet /\ HandlerStep(h) /\ ~Crash(h)
         /\ \A g \in Handlers \ {h} : IsIdle(g) /\ IsIdle(g)'
         /\ \/ \E e \in outbox : Starts(h, e) /\ \A f \in outbox : e.id <= f.id
            \/ GoesOn(h)
            \/ Stops(h) /\ outbox' = outbox \ {Ev(h)}
<1>0. TInv /\ AtMostOne /\ Serial /\ crashes \in Nat
  BY DEF SInv, SBase, SParts, BInv, TInv, TypeOK
<1>1. ~Crash(h) /\ HandlerStep(h) BY <1>0 DEF Crash, Quiet
<1>2. UNCHANGED <<subscription, clock, emitted, checkout, world>>
      /\ \A g \in Handlers \ {h} : job'[g] = job[g]
  BY <1>0, HandlerKeeps
<1>3. Drops(h) \/ (\E e \in outbox : Starts(h, e)) \/ GoesOn(h) \/ Stops(h) BY <1>0, JobSteps
<1>4. crashes' = crashes BY <1>1, <1>3 DEF Drops, Starts, GoesOn, Stops
<1>5. Quiet BY <1>2, <1>4 DEF Quiet, OneSubscription
<1>6. ~Drops(h)
  <2> SUFFICES ASSUME NEW e \in outbox, Receive(h, e), e.id \in ledger PROVE FALSE BY DEF Drops
  <2>1. \A g \in Handlers : IsIdle(g) BY <1>5 DEF Quiet, Receive
  <2> QED BY <1>0, <1>5, <2>1 DEF Serial
<1>7. \A g \in Handlers \ {h} : IsIdle(g)
  <2>1. CASE IsIdle(h)
    <3>1. PICK e \in outbox : Starts(h, e) BY <1>3, <1>6, <2>1 DEF GoesOn, Stops
    <3> QED BY <1>5, <3>1 DEF Starts, Receive, Quiet
  <2>2. CASE ~IsIdle(h) BY <1>0, <1>5, <2>2 DEF AtMostOne, Quiet
  <2> QED BY <2>1, <2>2
<1>8. \A e \in outbox : Starts(h, e) => \A f \in outbox : e.id <= f.id
  BY <1>5 DEF Starts, Receive, Quiet
<1>9. \A g \in Handlers \ {h} : IsIdle(g)' BY <1>2, <1>7 DEF IsIdle
<1>10. Stops(h) => outbox' = outbox \ {Ev(h)} BY <1>1 DEF Stops
<1> QED BY <1>1, <1>3, <1>5, <1>6, <1>7, <1>8, <1>9, <1>10

\* What the oldest event is to the others.
LEMMA Oldest ==
  ASSUME SInv, Quiet, NEW h \in Handlers, ~IsIdle(h)
  PROVE  /\ Ev(h) \in outbox /\ Ev(h) \in Pending /\ Ev(h) \in Event
         /\ \A f \in outbox : Ev(h).id <= f.id /\ Ev(h).created <= f.created
         /\ users.eventAt <= Ev(h).created
         /\ Ev(h).sub \in Existing /\ Ev(h).sub \in Subs /\ \A s \in Existing : s = Ev(h).sub
         /\ Ev(h).cust = subscription[Ev(h).sub].cust /\ Ev(h).cust \in Customers
<1>0. TInv /\ TypeOK /\ Serial /\ Numbered /\ Exist
  BY DEF SInv, SBase, SParts, RInv, RParts, OInv, TInv
<1>1. Ev(h) \in outbox /\ (\A f \in outbox : Ev(h).id <= f.id) /\ users.eventAt <= Ev(h).created
  BY <1>0 DEF Serial
<1>2. \A f \in outbox : Ev(h).created <= f.created BY <1>0, <1>1 DEF Numbered
<1>3. Ev(h) \in Pending BY DEF Pending
<1>4. Ev(h).sub \in Existing /\ Ev(h).cust = subscription[Ev(h).sub].cust BY <1>0, <1>3 DEF Exist
<1>5. \A s \in Existing : s = Ev(h).sub BY <1>4 DEF Quiet, OneSubscription, Existing
<1>6. Ev(h) \in Event /\ Ev(h).sub \in Subs /\ Ev(h).cust \in Customers BY <1>0, JobShape
<1> QED BY <1>1, <1>2, <1>3, <1>4, <1>5, <1>6

\* The numbering, and one event at a time.
LEMMA SHandlerOrder ==
  ASSUME SInv, NEW h \in Handlers, HandlerStep(h) \/ Crash(h)
  PROVE  Numbered' /\ Serial' /\ Truthful'
<1>0. /\ TInv /\ TypeOK /\ Numbered /\ Serial /\ Truthful /\ OneAtWork /\ EventsPast
      /\ outbox \subseteq Event /\ clock \in Nat /\ users.eventAt \in Nat
  BY DEF SInv, SBase, SParts, DInv, RInv, OInv, TInv, TypeOK, StripeTypeOK, Row
<1>1. /\ UNCHANGED <<subscription, clock, emitted, checkout, world>> /\ outbox' \subseteq outbox
      /\ \A g \in Handlers \ {h} : job'[g] = job[g]
  BY <1>0, HandlerKeeps
<1>2. users'.eventAt = users.eventAt \/ (~IsIdle(h) /\ users'.eventAt = Ev(h).created)
  BY <1>0, EventAtSteps
<1>3. Numbered'
  <2>1. \A i \in ledger' : i <= emitted
    <3>1. Drops(h) \/ (\E e \in outbox : Starts(h, e)) \/ GoesOn(h) \/ Stops(h) BY <1>0, JobSteps
    <3>2. ASSUME NEW e \in outbox, Starts(h, e) PROVE \A i \in ledger' : i <= emitted
      BY <1>0, <3>2 DEF Starts, Numbered
    <3>3. ledger' = ledger => \A i \in ledger' : i <= emitted BY <1>0 DEF Numbered
    <3> QED BY <3>1, <3>2, <3>3 DEF Drops, GoesOn, Stops
  <2>2. users'.eventAt <= clock
    <3>1. ~IsIdle(h) => Ev(h) \in Pending BY DEF Pending
    <3> QED BY <1>0, <1>2, <3>1 DEF Numbered, EventsPast
  <2> QED BY <1>0, <1>1, <2>1, <2>2 DEF Numbered
<1>4. ASSUME Quiet'
      PROVE  /\ \A g \in Handlers : ~IsIdle(g)' => Ev(g)' \in outbox' /\ \A f \in outbox' : Ev(g)'.id <= f.id
             /\ \A e \in outbox' : e.id \in ledger' => \E g \in Handlers : ~IsIdle(g)' /\ Ev(g)' = e
             /\ \A e \in outbox' : users'.eventAt <= e.created
             /\ \A e \in outbox' : Last(e)' => Last(e)
             /\ Quiet
  <2>1. /\ Quiet /\ \A g \in Handlers \ {h} : IsIdle(g) /\ IsIdle(g)'
        /\ \/ \E e \in outbox : Starts(h, e) /\ \A f \in outbox : e.id <= f.id
           \/ GoesOn(h)
           \/ Stops(h) /\ outbox' = outbox \ {Ev(h)}
    BY <1>4, QuietStep
  <2>2. /\ \A e \in outbox : e.id \in ledger => \E g \in Handlers : ~IsIdle(g) /\ Ev(g) = e
        /\ \A e \in outbox : users.eventAt <= e.created
    BY <1>0, <2>1 DEF Serial
  <2>3. ~IsIdle(h) => /\ Ev(h) \in outbox
                      /\ \A f \in outbox : Ev(h).id <= f.id /\ Ev(h).created <= f.created
    BY <2>1, Oldest
  <2>4. \A e \in outbox' : users'.eventAt <= e.created BY <1>1, <1>2, <2>2, <2>3
  <2>5. outbox' = outbox \/ (~IsIdle(h) /\ outbox' = outbox \ {Ev(h)})
    BY <2>1 DEF Starts, GoesOn, Stops
  <2>6. \A e \in outbox' : Last(e)' => Last(e) BY <1>1, <2>3, <2>5 DEF Last
  <2>7. CASE \E e \in outbox : Starts(h, e) /\ \A f \in outbox : e.id <= f.id
    <3>1. PICK e \in outbox : Starts(h, e) /\ \A f \in outbox : e.id <= f.id BY <2>7
    <3>2. \A g \in Handlers : IsIdle(g) BY <2>1, <3>1 DEF Starts
    <3>3. Ev(h)' = e /\ outbox' = outbox /\ ledger' = ledger \cup {e.id} /\ ~IsIdle(h)'
      BY <3>1 DEF Starts, Ev, IsIdle, Branch
    <3>4. \A f \in outbox : f.id \in ledger' => f = e BY <1>0, <2>2, <3>2, <3>3 DEF Numbered
    <3> QED BY <2>1, <2>4, <2>6, <3>1, <3>3, <3>4
  <2>8. CASE GoesOn(h)
    <3>1. /\ ~IsIdle(h) /\ ~IsIdle(h)' /\ Ev(h)' = Ev(h) /\ outbox' = outbox /\ ledger' = ledger
      BY <2>8 DEF GoesOn, IsIdle, Ev
    <3>2. \A e \in outbox : e.id \in ledger => Ev(h) = e BY <2>1, <2>2
    <3> QED BY <2>1, <2>3, <2>4, <2>6, <3>1, <3>2
  <2>9. CASE Stops(h) /\ outbox' = outbox \ {Ev(h)}
    <3>1. ledger' = ledger /\ ~IsIdle(h) /\ IsIdle(h)' BY <2>9 DEF Stops, IsIdle
    <3>2. \A e \in outbox : e.id \in ledger => Ev(h) = e BY <2>1, <2>2
    <3> QED BY <2>1, <2>4, <2>6, <2>9, <3>1, <3>2
  <2> QED BY <2>1, <2>7, <2>8, <2>9
<1>5. Serial' BY <1>4 DEF Serial
<1>6. Truthful'
  <2>1. ASSUME Quiet', NEW e \in outbox', Last(e)' PROVE Says(e, subscription[e.sub])
    BY <1>0, <1>1, <1>4, <2>1 DEF Truthful
  <2> QED BY <1>1, <2>1 DEF Truthful
<1> QED BY <1>3, <1>5, <1>6

\* Which accounts are linked, and what sessions and checkouts know of it.
LEMMA SHandlerLink ==
  ASSUME SInv, NEW h \in Handlers, HandlerStep(h) \/ Crash(h)
  PROVE  (Sessions /\ Entitles /\ Movers /\ Unlinked /\ LinkComes /\ SameCustomer)'
<1>0. /\ TInv /\ TypeOK /\ Exist /\ Sessions /\ Entitles /\ Movers /\ Unlinked /\ LinkComes /\ SameCustomer
      /\ users \in Row
  BY DEF SInv, SBase, SParts, RInv, RParts, OInv, TInv, TypeOK
<1>1. /\ UNCHANGED <<subscription, clock, emitted, checkout, world>> /\ outbox' \subseteq outbox
      /\ Pending' \subseteq Pending
      /\ \A g \in Handlers \ {h} : job'[g] = job[g]
  BY <1>0, HandlerKeeps
<1>2. Drops(h) \/ (\E e \in outbox : Starts(h, e)) \/ GoesOn(h) \/ Stops(h) BY <1>0, JobSteps
<1>3. users.customer # NoCust \/ Link(h) => users'.customer # NoCust BY <1>0, LinkedStays
<1>4. ~Link(h) => users'.customer = users.customer BY <1>0, CustomerStays
<1>5. Existing' = Existing /\ OneSubscription' = OneSubscription /\ \A k \in Checkouts : Paid(k)' = Paid(k)
  BY <1>1 DEF Existing, OneSubscription, Paid
<1>6. Sessions' BY <1>0, <1>1, <1>5 DEF Sessions
<1>7. Movers' BY <1>0, <1>1, <1>3 DEF Movers
<1>8. Entitles'
  <2>1. At(h, "apply")' => Ev(h)'.status \in ENTITLED_STATUSES
    <3>1. CASE Drops(h) BY <1>0, <3>1 DEF Drops, Entitles, At, Ev
    <3>2. ASSUME NEW e \in outbox, Starts(h, e) PROVE At(h, "apply")' => Ev(h)'.status \in ENTITLED_STATUSES
      BY <3>2 DEF Starts, Branch, At, Ev
    <3>3. CASE GoesOn(h) BY <3>3 DEF GoesOn, At
    <3>4. CASE Stops(h) BY <3>4 DEF Stops, At
    <3> QED BY <1>2, <3>1, <3>2, <3>3, <3>4
  <2>2. \A g \in Handlers \ {h} : At(g, "apply")' => Ev(g)'.status \in ENTITLED_STATUSES
    BY <1>0, <1>1 DEF Entitles, At, Ev
  <2> QED BY <2>1, <2>2 DEF Entitles
<1>9. Unlinked'
  <2>1. ASSUME users'.customer = NoCust PROVE users' = users
    <3>1. users.customer = NoCust /\ ~Link(h) BY <1>3, <2>1
    <3>2. CASE Fill(h) BY <1>0, <3>1, <3>2 DEF Fill, Unlinked, At
    <3>3. ASSUME ~IsIdle(h) PROVE ~Matches(Ev(h)) BY <1>0, <3>1, <3>3, JobShape DEF Matches
    <3>4. CASE Apply(h)
      <4>1. ~IsIdle(h) BY <3>4 DEF Apply, At, IsIdle
      <4> QED BY <3>3, <3>4, <4>1 DEF Apply, Applied
    <3>5. CASE EndWrite(h)
      <4>1. ~IsIdle(h) BY <3>5 DEF EndWrite, At, IsIdle
      <4> QED BY <3>3, <3>5, <4>1 DEF EndWrite, Ended, Applied
    <3> QED BY <1>0, <3>1, <3>2, <3>4, <3>5, RowSteps
  <2>2. users'.customer = NoCust => users.customer = NoCust BY <1>3
  <2>3. job'[h].pc \in {"fillLookup", "fill"} => users'.customer # NoCust
    <3>1. CASE Drops(h) BY <1>0, <1>3, <3>1 DEF Drops, Unlinked
    <3>2. ASSUME NEW e \in outbox, Starts(h, e) PROVE job'[h].pc \notin {"fillLookup", "fill"}
      BY <3>2 DEF Starts, Branch
    <3>3. CASE GoesOn(h) BY <1>0, <1>3, <3>3 DEF GoesOn, FillLookup, Unlinked, At
    <3>4. CASE Stops(h) BY <3>4 DEF Stops
    <3> QED BY <1>2, <3>1, <3>2, <3>3, <3>4
  <2>4. \A g \in Handlers \ {h} : job'[g].pc \in {"fillLookup", "fill"} => users'.customer # NoCust
    BY <1>0, <1>1, <1>3 DEF Unlinked
  <2> QED BY <1>0, <2>1, <2>2, <2>3, <2>4 DEF Unlinked
<1>10. LinkComes'
  <2>1. ASSUME Quiet', users'.customer = NoCust, Existing # {}
        PROVE  Fresh' # {} \/ \E k \in Checkouts : Paid(k)
    <3>1. users.customer = NoCust /\ ~Link(h) BY <1>3, <2>1
    <3>2. Quiet /\ HandlerStep(h) /\ ~Crash(h) BY <2>1, QuietStep
    <3>3. Fresh \subseteq Fresh' BY <3>1, <3>2, FreshKept
    <3> QED BY <1>0, <2>1, <3>1, <3>2, <3>3 DEF LinkComes
  <2> QED BY <1>5, <2>1 DEF LinkComes
<1>11. SameCustomer'
  <2>1. ASSUME OneSubscription, users'.customer # NoCust, NEW s \in Existing
        PROVE  subscription[s].cust = users'.customer
    <3>1. CASE ~Link(h) BY <1>0, <1>4, <2>1, <3>1 DEF SameCustomer
    <3>2. CASE Link(h)
      <4>1. ~IsIdle(h) BY <3>2 DEF Link, At, IsIdle
      <4>2. users'.customer = Ev(h).cust BY <1>0, <3>2 DEF Link, Linked, Row
      <4>3. Ev(h) \in Pending BY <4>1 DEF Pending
      <4>4. Ev(h).sub \in Existing /\ Ev(h).cust = subscription[Ev(h).sub].cust
        BY <1>0, <4>3 DEF Exist
      <4>5. s = Ev(h).sub BY <2>1, <4>4 DEF OneSubscription, Existing
      <4> QED BY <4>2, <4>4, <4>5
    <3> QED BY <3>1, <3>2
  <2> QED BY <1>1, <1>5, <2>1 DEF SameCustomer
<1> QED BY <1>6, <1>7, <1>8, <1>9, <1>10, <1>11

\* The link itself, and the lookup that follows it.
LEMMA SHandlerLinking ==
  ASSUME SInv, NEW h \in Handlers, HandlerStep(h) \/ Crash(h)
  PROVE  Linking'
<1>0. /\ TInv /\ TypeOK /\ Exist /\ Unlinked /\ Linking /\ OneSession /\ OInv /\ Branched
      /\ users \in Row
  BY DEF SInv, SBase, SParts, RInv, RParts, OInv, TInv, TypeOK
<1>1. UNCHANGED <<subscription, clock, emitted, checkout, world>> BY <1>0, HandlerKeeps
<1> SUFFICES ASSUME Quiet', NEW g \in Handlers
             PROVE  /\ job'[g].pc \in {"fillLookup", "fill"} =>
                         /\ users'.sub = job'[g].ev.sub /\ users'.plan = job'[g].ev.tier
                         /\ users'.status = "active" /\ ~users'.cancel /\ users'.renews = NoDate
                    /\ job'[g].pc = "fill" =>
                         job'[g].pick.period = subscription[job'[g].ev.sub].period
  BY <1>1 DEF Linking, At, Ev
<1>2. /\ Quiet /\ \A f \in Handlers \ {h} : IsIdle(f)'
      /\ \/ \E e \in outbox : Starts(h, e)
         \/ GoesOn(h)
         \/ Stops(h)
  BY QuietStep
<1>3. CASE g # h
  <2>1. job'[g].pc = "idle" BY <1>2, <1>3 DEF IsIdle
  <2> QED BY <2>1
<1>4. CASE g = h
  <2>1. ASSUME NEW e \in outbox, Starts(h, e) PROVE job'[h].pc \notin {"fillLookup", "fill"}
    BY <2>1 DEF Starts, Branch
  <2>2. CASE Stops(h) BY <1>4, <2>2 DEF Stops
  <2>3. CASE Link(h) /\ job'[h].pc = "fillLookup" /\ job'[h].ev = Ev(h)
    <3>1. Ev(h) \in Fresh BY <1>0, FreshShrinks, <2>3 DEF OInv
    <3>2. users.customer = NoCust BY <1>0, <1>2, <3>1 DEF OneSession, Quiet
    <3>3. users.renews = NoDate BY <1>0, <3>2 DEF Unlinked
    <3>4. /\ users'.sub = Ev(h).sub /\ users'.plan = Ev(h).tier /\ users'.status = "active"
          /\ users'.cancel = FALSE /\ users'.renews = users.renews
      BY <1>0, <2>3 DEF Link, Linked, Row
    <3> QED BY <1>4, <2>3, <3>3, <3>4
  <2>4. CASE /\ FillLookup(h) /\ job'[h].pc = "fill" /\ job'[h].ev = Ev(h)
             /\ \E l \in Lookup(Ev(h).cust) : \E s \in Bought(Ev(h), l.live) : job'[h].pick = Snapshot(s)
    <3>1. PICK s \in Subs : Live(s) /\ job'[h].pick = Snapshot(s) BY <2>4, LookupTyped DEF Bought
    <3>2. ~IsIdle(h) /\ At(h, "fillLookup") /\ users' = users BY <2>4 DEF FillLookup, At, IsIdle
    <3>3. s \in Existing BY <1>0, <3>1 DEF Exist, Live, ENTITLED_STATUSES
    <3>4. s = Ev(h).sub BY <1>2, <3>2, <3>3, Oldest
    <3>5. Snapshot(s).period = subscription[s].period BY DEF Snapshot
    <3>6. /\ users.sub = Ev(h).sub /\ users.plan = Ev(h).tier /\ users.status = "active"
          /\ ~users.cancel /\ users.renews = NoDate
      BY <1>0, <1>2, <3>2 DEF Linking, At
    <3> QED BY <1>4, <2>4, <3>1, <3>2, <3>4, <3>5, <3>6
  <2>5. CASE GoesOn(h) /\ job'[h].pc \notin {"fillLookup", "fill"} BY <1>4, <2>5
  <2>6. GoesOn(h) => \/ Link(h) /\ job'[h].pc = "fillLookup" /\ job'[h].ev = Ev(h)
                     \/ /\ FillLookup(h) /\ job'[h].pc = "fill" /\ job'[h].ev = Ev(h)
                        /\ \E l \in Lookup(Ev(h).cust) : \E s \in Bought(Ev(h), l.live) :
                             job'[h].pick = Snapshot(s)
                     \/ job'[h].pc \notin {"fillLookup", "fill"}
    BY DEF GoesOn
  <2> QED BY <1>2, <1>4, <2>1, <2>2, <2>3, <2>4, <2>5, <2>6
<1> QED BY <1>3, <1>4

\* The youngest event, worked off, leaves the row as its subscription is.
LEMMA LastWritten ==
  ASSUME SInv, Quiet, NEW h \in Handlers, Last(Ev(h)), ~IsIdle(h), users'.customer # NoCust,
         UNCHANGED subscription, Fill(h) \/ Apply(h) \/ EndWrite(h)
  PROVE  \A s \in Existing : Agrees(s)'
<1>e. PICK e : e = Ev(h) OBVIOUS
<1>s. PICK s : s = e.sub OBVIOUS
<1>0. /\ TInv /\ TypeOK /\ Exist /\ Branched /\ Truthful /\ Entitles /\ Sessions /\ Linking
      /\ SameCustomer /\ EndsOnly /\ DeletionIsLast /\ users \in Row
  BY DEF SInv, SBase, SParts, RInv, RParts, DInv, OInv, TInv, TypeOK
<1>1. /\ e \in outbox /\ e \in Pending /\ e \in Event /\ users.eventAt <= e.created
      /\ s \in Existing /\ s \in Subs /\ e.cust = subscription[s].cust
      /\ \A r \in Existing : r = s
  BY <1>e, <1>s, Oldest
<1>2. Says(e, subscription[s]) BY <1>e, <1>s, <1>0, <1>1 DEF Truthful
<1>3. users'.customer = users.customer
  <2>1. ~Link(h) BY DEF Link, Fill, Apply, EndWrite, At
  <2>2. HandlerStep(h) BY DEF HandlerStep
  <2> QED BY <1>0, <2>1, <2>2, CustomerStays
<1>4. Matches(e)
  <2>1. users.customer = e.cust BY <1>0, <1>1, <1>3 DEF SameCustomer, Quiet
  <2>2. e.created \in Nat /\ users.eventAt \in Nat BY <1>0, <1>1 DEF Event, Row
  <2> QED BY <1>1, <2>1, <2>2 DEF Matches
<1>5. Live(s)' = Live(s) /\ subscription'[s] = subscription[s] BY DEF Live
<1>6. CASE Apply(h)
  <2>1. e.status \in ENTITLED_STATUSES BY <1>e, <1>s, <1>0, <1>6 DEF Entitles, Apply
  <2>2. Live(s) BY <1>2, <2>1 DEF Live, Says
  <2>3. users' = Applied(e, e.sub, e.tier, e.status, e.period, e.cancel) BY <1>e, <1>s, <1>6 DEF Apply
  <2>4. /\ users'.sub = e.sub /\ users'.plan = e.tier /\ users'.status = e.status
        /\ users'.renews = e.period /\ users'.cancel = e.cancel
    BY <1>0, <1>4, <2>3 DEF Applied, Row
  <2>5. Agrees(s)' BY <1>s, <1>2, <1>5, <2>2, <2>4 DEF Agrees, Says, Live
  <2> QED BY <1>1, <2>5
<1>7. CASE EndWrite(h)
  <2>1. At(h, "end") BY <1>7 DEF EndWrite
  <2>2. Ending(e) BY <1>e, <1>s, <1>0, <2>1 DEF EndsOnly, At
  <2>3. ~Live(s)
    <3>1. CASE e.type = "deleted"
      <4>1. subscription[s].status = "canceled" BY <1>s, <1>0, <1>1, <3>1 DEF DeletionIsLast
      <4> QED BY <4>1 DEF Live, ENTITLED_STATUSES
    <3>2. CASE e.status \notin ENTITLED_STATUSES BY <1>2, <3>2 DEF Live, Says
    <3> QED BY <2>2, <3>1, <3>2 DEF Ending
  <2>4. job[h].pick = NoPick
    <3>1. job[h].pick # NoPick => job[h].pick.sub \in Existing /\ job[h].pick.sub # s
      BY <1>e, <1>s, <1>0, <2>1 DEF Exist, Branched
    <3> QED BY <1>1, <3>1
  <2>5. users' = Applied(e, NoSub, Free, e.status, NoDate, FALSE)
    BY <1>e, <1>s, <1>7, <2>4 DEF EndWrite, Ended
  <2>6. users'.plan = Free BY <1>0, <1>4, <2>5 DEF Applied, Row
  <2>7. Agrees(s)' BY <1>5, <2>3, <2>6 DEF Agrees
  <2> QED BY <1>1, <2>7
<1>8. CASE Fill(h)
  <2>1. At(h, "fill") BY <1>8 DEF Fill
  <2>2. /\ users.sub = e.sub /\ users.plan = e.tier /\ users.status = "active"
        /\ ~users.cancel /\ users.renews = NoDate
        /\ job[h].pick.period = subscription[s].period
    BY <1>e, <1>s, <1>0, <2>1 DEF Linking, At
  <2>3. e.type = "session" BY <1>e, <1>s, <1>0, <2>1 DEF Branched, At
  <2>4. e.status = "active" /\ ~e.cancel BY <1>0, <1>1, <2>3 DEF Sessions
  <2>5. e.cancel \in BOOLEAN /\ users.cancel \in BOOLEAN /\ users.sub # NoSub
    BY <1>0, <1>1, <2>2 DEF Event, Row
  <2>6. /\ users'.sub = users.sub /\ users'.plan = users.plan /\ users'.status = users.status
        /\ users'.cancel = users.cancel /\ users'.renews = job[h].pick.period
    BY <1>0, <1>8, <2>2, <2>5 DEF Fill, Row
  <2>7. Live(s) BY <1>2, <2>4 DEF Live, Says, ENTITLED_STATUSES
  <2>8. Agrees(s)' BY <1>s, <1>2, <1>5, <2>2, <2>4, <2>5, <2>6, <2>7 DEF Agrees, Says, Live
  <2> QED BY <1>1, <2>8
<1> QED BY <1>6, <1>7, <1>8

\* Once the row knows of every event, it agrees.
LEMMA SHandlerAgreed ==
  ASSUME SInv, NEW h \in Handlers, HandlerStep(h) \/ Crash(h)
  PROVE  Agreed'
<1>0. /\ TInv /\ TypeOK /\ Exist /\ Branched /\ Truthful /\ Sessions /\ Agreed
      /\ job \in [Handlers -> Job] /\ outbox \subseteq Event
  BY DEF SInv, SBase, SParts, RInv, RParts, OInv, TInv, TypeOK, StripeTypeOK
<1>1. UNCHANGED <<subscription, clock, emitted, checkout, world>> BY <1>0, HandlerKeeps
<1>2. Existing' = Existing BY <1>1 DEF Existing
<1> SUFFICES ASSUME Quiet', users'.customer # NoCust, Unheard' = {}
             PROVE  \A s \in Existing : Agrees(s)'
  BY <1>2 DEF Agreed
<1>3. /\ Quiet /\ \A g \in Handlers \ {h} : IsIdle(g) /\ IsIdle(g)'
      /\ \/ \E e \in outbox : Starts(h, e)
         \/ GoesOn(h)
         \/ Stops(h) /\ outbox' = outbox \ {Ev(h)}
  BY QuietStep
<1>4. \A e \in outbox' : At(h, "mail")' /\ Ev(h)' = e
  <2> SUFFICES ASSUME NEW e \in outbox', ~(At(h, "mail")' /\ Ev(h)' = e) PROVE FALSE OBVIOUS
  <2>1. \A g \in Handlers : At(g, "mail")' => Ev(g)' # e BY <1>3 DEF At, IsIdle
  <2>2. e \in Unheard' BY <2>1 DEF Unheard
  <2> QED BY <2>2
<1>5. ASSUME NEW e \in outbox, Starts(h, e) PROVE FALSE
  <2>1. outbox' = outbox /\ job'[h].pc # "mail" BY <1>5 DEF Starts, Branch
  <2> QED BY <1>4, <2>1 DEF At
<1>6. ASSUME GoesOn(h) PROVE EndWrite(h) /\ ~IsIdle(h) /\ Last(Ev(h))
  <2>1. ~IsIdle(h) /\ Ev(h)' = Ev(h) /\ outbox' = outbox BY <1>6 DEF GoesOn, Ev
  <2>2. Ev(h) \in outbox BY <1>3, <2>1, Oldest
  <2>3. job'[h].pc = "mail" BY <1>4, <2>1, <2>2 DEF At
  <2>4. EndWrite(h) BY <1>6, <2>3 DEF GoesOn
  <2>5. \A f \in outbox : f = Ev(h) BY <1>4, <2>1
  <2>6. Ev(h).id \in Nat BY <1>0, <2>2 DEF Event
  <2> QED BY <2>1, <2>2, <2>4, <2>5, <2>6 DEF Last
<1>7. ASSUME Stops(h), outbox' = outbox \ {Ev(h)}
      PROVE  /\ ~IsIdle(h) /\ Last(Ev(h)) /\ outbox = {Ev(h)} /\ job'[h].pc = "idle"
             /\ FillLookup(h) \/ Fill(h) \/ Apply(h) \/ StrayCheck(h) \/ EndWrite(h) \/ Notify(h)
  <2>1. ~IsIdle(h) /\ job'[h].pc = "idle" BY <1>7 DEF Stops
  <2>2. Ev(h) \in outbox BY <1>3, <2>1, Oldest
  <2>3. outbox' = {} BY <1>4, <2>1 DEF At
  <2>4. outbox = {Ev(h)} BY <1>7, <2>2, <2>3
  <2>5. Ev(h).id \in Nat BY <1>0, <2>2 DEF Event
  <2>6. ~Crash(h) BY QuietStep
  <2> QED BY <1>7, <2>1, <2>4, <2>5, <2>6 DEF Stops, Last
<1>8. \A s \in Existing : ~IsIdle(h) => s = Ev(h).sub BY <1>3, Oldest
<1>9. ASSUME Stops(h), outbox' = outbox \ {Ev(h)} PROVE ~FillLookup(h) /\ ~StrayCheck(h)
  <2>0. ~IsIdle(h) /\ Last(Ev(h)) /\ job'[h].pc = "idle" BY <1>7, <1>9
  <2>1. /\ Ev(h) \in outbox /\ Ev(h) \in Pending /\ Ev(h).sub \in Subs
        /\ Ev(h).cust = subscription[Ev(h).sub].cust
    BY <1>3, <2>0, Oldest
  <2>2. Says(Ev(h), subscription[Ev(h).sub]) BY <1>0, <1>3, <2>0, <2>1 DEF Truthful
  <2>3. ASSUME FillLookup(h) PROVE FALSE
    <3>1. Ev(h).type = "session" BY <1>0, <2>3 DEF FillLookup, Branched, At
    <3>2. Ev(h).status = "active" BY <1>0, <2>1, <3>1 DEF Sessions
    <3>3. Ev(h).sub \in LiveOf(Ev(h).cust)
      BY <2>1, <2>2, <3>2 DEF LiveOf, Live, Says, ENTITLED_STATUSES
    <3>4. \A l \in Lookup(Ev(h).cust) : l.live = LiveOf(Ev(h).cust)
      BY <1>3 DEF Lookup, Quiet
    <3>5. \A l \in Lookup(Ev(h).cust) : Bought(Ev(h), l.live) # {} BY <3>3, <3>4 DEF Bought
    <3>6a. PICK l \in Lookup(Ev(h).cust) : \E s \in Bought(Ev(h), l.live) :
             job' = [job EXCEPT ![h].pc = "fill", ![h].sure = l.sure, ![h].pick = Snapshot(s)]
      BY <2>3, <3>5 DEF FillLookup
    <3>6. PICK s \in Bought(Ev(h), l.live) :
            job' = [job EXCEPT ![h].pc = "fill", ![h].sure = l.sure, ![h].pick = Snapshot(s)]
      BY <3>6a
    <3> DEFINE sure == l.sure
               pick == Snapshot(s)
    <3>7. job' = [job EXCEPT ![h].pc = "fill", ![h].sure = sure, ![h].pick = pick] BY <3>6
    <3> HIDE DEF sure, pick
    <3>8. job'[h].pc = "fill" BY <1>0, <2>0, <3>7, JobShape
    <3> QED BY <2>0, <3>8
  <2>4. ASSUME StrayCheck(h) PROVE FALSE
    <3>1. ~IsStray(Ev(h)) BY <1>0, <1>8, <2>0 DEF IsStray, Exist
    <3>2. \E pc \in {"account", "endLookup"} : Goto(h, pc) BY <2>4, <3>1 DEF StrayCheck
    <3>3. job'[h].pc \in {"account", "endLookup"} BY <1>0, <2>0, <3>2, JobShape DEF Goto
    <3> QED BY <2>0, <3>3
  <2> QED BY <2>3, <2>4
<1>10. ASSUME Stops(h), outbox' = outbox \ {Ev(h)}, Notify(h) PROVE \A s \in Existing : Agrees(s)'
  <2>1. At(h, "mail") /\ users' = users BY <1>10 DEF Notify
  <2>2. Unheard = {} BY <1>7, <1>10, <2>1 DEF Unheard
  <2>3. \A s \in Existing : Agrees(s) BY <1>0, <1>3, <2>1, <2>2 DEF Agreed
  <2> QED BY <1>1, <2>1, <2>3 DEF Agrees, Live
<1>11. ASSUME Fill(h) \/ Apply(h) \/ EndWrite(h), ~IsIdle(h), Last(Ev(h))
       PROVE  \A s \in Existing : Agrees(s)'
  BY <1>1, <1>3, <1>11, LastWritten
<1> QED BY <1>3, <1>5, <1>6, <1>7, <1>9, <1>10, <1>11

\* The webhook's own steps.
LEMMA SHandler ==
  ASSUME SInv, NEW h \in Handlers, HandlerStep(h) \/ Crash(h)
  PROVE  SParts'
BY SHandlerOrder, SHandlerLink, SHandlerLinking, SHandlerAgreed DEF SParts

\* A checkout that has paid waits for its session to be reported.
LEMMA LocalKeepsPaid ==
  ASSUME TInv, NEW k \in Checkouts,
         \/ \E t \in Tiers : CheckoutRead(k, t)
         \/ CheckoutLook(k) \/ CheckoutFails(k) \/ CheckoutBuy(k) \/ SessionExpires(k)
         \/ CheckoutMove(k)
  PROVE  ~Paid(k) /\ \A j \in Checkouts \ {k} : checkout'[j] = checkout[j]
<1>0. checkout \in [Checkouts -> CheckoutRecord] BY DEF TInv, TypeOK, CheckoutRecord
<1>1. \A j \in Checkouts \ {k} : checkout'[j] = checkout[j]
  BY <1>0 DEF CheckoutRead, CheckoutLook, CheckoutFails, CheckoutBuy, SessionExpires, CheckoutMove
<1>2. ~Paid(k)
  BY DEF Paid, CheckoutRead, CheckoutLook, CheckoutFails, CheckoutBuy, SessionExpires, CheckoutMove
<1> QED BY <1>1, <1>2

\* What a checkout decides to move belongs to the account's customer.
LEMMA MoversKept ==
  ASSUME SInv, NEW k \in Checkouts, UNCHANGED users,
         \/ \E t \in Tiers : CheckoutRead(k, t)
         \/ CheckoutLook(k) \/ CheckoutFails(k) \/ CheckoutBuy(k) \/ SessionExpires(k)
         \/ CheckoutMove(k)
  PROVE  Movers'
<1>0. TInv /\ CustomerKnown /\ Movers /\ checkout \in [Checkouts -> CheckoutRecord]
  BY DEF SInv, SBase, SParts, DInv, TInv, TypeOK, CheckoutRecord
<1>1. \A j \in Checkouts \ {k} : checkout'[j] = checkout[j] BY <1>0, LocalKeepsPaid
<1>2. ASSUME NEW pc \in {"buy", "open", "done"}, checkout' = [checkout EXCEPT ![k].pc = pc]
      PROVE  checkout'[k].pc \notin {"look", "move"}
  BY <1>0, <1>2 DEF CheckoutRecord
<1>3. CASE CheckoutFails(k) \/ CheckoutBuy(k) \/ SessionExpires(k) \/ CheckoutMove(k)
  <2>1. checkout'[k].pc \notin {"look", "move"}
    BY <1>2, <1>3 DEF CheckoutFails, CheckoutBuy, SessionExpires, CheckoutMove
  <2> QED BY <1>0, <1>1, <2>1 DEF Movers
<1>4. CASE \E t \in Tiers : CheckoutRead(k, t)
  <2>1. checkout'[k].pc = "look" /\ checkout'[k].cust = users.customer
    BY <1>0, <1>4 DEF CheckoutRead
  <2> QED BY <1>0, <1>1, <2>1 DEF Movers
<1>5. CASE CheckoutLook(k)
  <2>1. CASE LiveOf(checkout[k].cust) = {} /\ checkout' = [checkout EXCEPT ![k].pc = "buy"]
    BY <1>0, <1>1, <1>2, <2>1 DEF Movers
  <2>2. CASE \E s \in Current(k) : TRUE
    <3>1. PICK s : s \in Current(k) BY <2>2
    <3>2. s \in Subs /\ Live(s) /\ subscription[s].cust = checkout[k].cust
      BY <3>1 DEF Current, Newest, LiveOf
    <3>3. checkout[k].cust # NoCust BY <1>0, <3>2 DEF CustomerKnown, Live, ENTITLED_STATUSES
    <3>4. users.customer # NoCust BY <1>0, <1>5, <3>3 DEF Movers, CheckoutLook
    <3> QED BY <3>4 DEF Movers
  <2> QED BY <1>5, <2>1, <2>2 DEF CheckoutLook
<1> QED BY <1>3, <1>4, <1>5

LEMMA SStep == SInv /\ SBase' /\ [Next]_vars => SInv'
<1> SUFFICES ASSUME SInv, [Next]_vars PROVE SParts' BY DEF SInv
<1>0. TInv /\ SParts /\ OneSession /\ Movers /\ checkout \in [Checkouts -> CheckoutRecord]
  BY DEF SInv, SBase, SParts, RInv, RParts, DInv, TInv, TypeOK, CheckoutRecord
<1>1. ASSUME NEW h \in Handlers, HandlerStep(h) \/ Crash(h) PROVE SParts' BY <1>1, SHandler
<1>2. ASSUME NEW k \in Checkouts, CheckoutStep(k) PROVE SParts'
  <2>0. ASSUME \/ \E t \in Tiers : CheckoutRead(k, t)
               \/ CheckoutLook(k) \/ CheckoutFails(k) \/ CheckoutBuy(k) \/ SessionExpires(k)
               \/ CheckoutMove(k)
        PROVE  \A j \in Checkouts : Paid(j) \/ Paid(j)' => checkout'[j] = checkout[j]
    <3>1. \A j \in Checkouts : checkout'[j] = checkout[j] \/ ~Paid(j)'
      BY <1>0, <2>0, LocalPaysNothing
    <3>2. ~Paid(k) /\ \A j \in Checkouts \ {k} : checkout'[j] = checkout[j]
      BY <1>0, <2>0, LocalKeepsPaid
    <3> QED BY <3>1, <3>2
  <2>1. CASE /\ UNCHANGED <<stripeVars, billingVars>>
             /\ \/ \E t \in Tiers : CheckoutRead(k, t)
                \/ CheckoutLook(k) \/ CheckoutFails(k) \/ CheckoutBuy(k) \/ SessionExpires(k)
    <3>1. Movers' BY <2>1, MoversKept DEF billingVars
    <3> QED BY <2>0, <2>1, <3>1, SLocal
  <2>2. CASE CheckoutMove(k)
    <3>1. UNCHANGED billingVars /\ checkout[k].sub \in Subs BY <1>0, <2>2, MoveAlters
    <3>2. CASE UNCHANGED stripeVars
      <4>1. Movers' BY <2>2, <3>1, MoversKept DEF billingVars
      <4> QED BY <2>0, <2>2, <3>1, <3>2, <4>1, SLocal
    <3>3. CASE \E after \in Subscription :
                 /\ Alters(checkout[k].sub, after)
                 /\ after.status = subscription[checkout[k].sub].status
                 /\ after.cancelAtPeriodEnd => subscription[checkout[k].sub].cancelAtPeriodEnd
      <4>1. checkout[k].pc = "move" /\ checkout' = [checkout EXCEPT ![k].pc = "done"]
        BY <2>2 DEF CheckoutMove
      <4>2. checkout'[k].pc = "done" /\ \A j \in Checkouts \ {k} : checkout'[j] = checkout[j]
        BY <1>0, <4>1 DEF CheckoutRecord
      <4>3. users.customer # NoCust BY <1>0, <4>1 DEF Movers
      <4>4. OneSubscription => \A j \in Checkouts : ~Paid(j) BY <1>0, <4>3 DEF OneSession
      <4>5. ~Paid(k) BY <4>1 DEF Paid
      <4>6. \A j \in Checkouts : checkout'[j] = checkout[j] \/ (~Paid(j) /\ checkout'[j].pc = "done")
        BY <4>2, <4>5
      <4> QED BY <3>1, <3>3, <4>4, <4>6, SAlters
    <3> QED BY <1>0, <2>2, <3>2, <3>3, MoveAlters
  <2>3. CASE SessionPaid(k) BY <2>3, SPaid
  <2>4. CASE SessionReported(k) BY <2>4, SReported
  <2> QED BY <1>2, <2>1, <2>2, <2>3, <2>4, CheckoutKeeps
<1>3. ASSUME NEW s \in Subs, SubscriptionStep(s) PROVE SParts'
  <2>1. /\ UNCHANGED <<billingVars, checkout>>
        /\ \A k \in Checkouts : Paid(k) => checkout[k].sub # s
        /\ \E after \in Subscription : Alters(s, after)
    BY <1>0, <1>3, SubscriptionAlters DEF Paid
  <2> QED BY <2>1, SAlters
<1>4. CASE UNCHANGED vars
  <2>1. Movers' BY <1>0, <1>4 DEF Movers, vars, billingVars
  <2> QED BY <1>4, <2>1, SLocal DEF vars
<1> QED BY <1>1, <1>2, <1>3, <1>4 DEF Next

LEMMA Settles == Spec => []SInv
<1>1. Init => SParts
  <2> SUFFICES ASSUME Init PROVE SParts OBVIOUS
  <2>1. /\ \A s \in Subs : subscription[s].born = 0
        /\ outbox = {} /\ ledger = {} /\ users.customer = NoCust /\ users.plan = Free
        /\ users.renews = NoDate /\ users.eventAt = 0 /\ clock = 0
        /\ \A h \in Handlers : job[h].pc = "idle"
    BY DEF Init, StripeInit, Idle
  <2>2. \A k \in Checkouts : checkout[k].pc = "idle" BY DEF Init
  <2>3. Pending = {} /\ Existing = {} BY <2>1 DEF Pending, Existing, IsIdle
  <2>4. Numbered /\ Serial /\ Truthful /\ Entitles /\ Movers /\ Unlinked
    BY <2>1, <2>2 DEF Numbered, Serial, Truthful, Entitles, Movers, Unlinked, IsIdle, At
  <2>5. Sessions BY <2>2, <2>3 DEF Sessions, Paid
  <2>6. LinkComes /\ SameCustomer /\ Linking /\ Agreed
    BY <2>1, <2>3 DEF LinkComes, SameCustomer, Linking, Agreed, At
  <2> QED BY <2>4, <2>5, <2>6 DEF SParts
<1>2. SInv /\ SBase' /\ [Next]_vars => SInv' BY SStep
<1>3. Spec => []SBase
  <2>1. RInv /\ DInv /\ BInv => SBase BY DEF SBase
  <2> QED BY <2>1, Resurrects, Dropped, Blank, PTL
<1>4. SBase /\ SParts <=> SInv BY DEF SInv
<1> QED BY <1>1, <1>2, <1>3, <1>4, PTL DEF Spec

\* Delivered in order, one at a time and without failures: once every event of a customer
\* of one subscription is worked off, the row says what Stripe holds of it.
THEOREM SettledRowAgrees == Spec => [](OneSubscription => SettledAgreement)
<1>1. SInv => (OneSubscription => SettledAgreement)
  <2> SUFFICES ASSUME SInv, OneSubscription, Settled, world.alone, world.inOrder, ~world.faults,
                      crashes = 0
               PROVE  IF LiveOf(users.customer) = {} THEN users.plan = Free
                      ELSE /\ users.sub \in LiveOf(users.customer)
                           /\ LET s == subscription[users.sub] IN
                              /\ users.plan = s.tier /\ users.status = s.status
                              /\ users.cancel = s.cancelAtPeriodEnd /\ users.renews = s.period
    BY DEF SettledAgreement
  <2>1. CustomerKnown /\ Exist /\ Unlinked /\ SameCustomer /\ Agreed
    BY DEF SInv, SBase, SParts, RInv, RParts, DInv, TInv
  <2>2. \A s \in Subs : Live(s) => s \in Existing /\ subscription[s].cust # NoCust
    BY <2>1 DEF Exist, CustomerKnown, Live, ENTITLED_STATUSES
  <2>3. CASE users.customer = NoCust
    <3>1. LiveOf(users.customer) = {} BY <2>2, <2>3 DEF LiveOf
    <3> QED BY <2>1, <2>3, <3>1 DEF Unlinked
  <2>4. CASE users.customer # NoCust
    <3>1. Unheard = {} BY DEF Settled, Unheard
    <3>2. \A s \in Existing : Agrees(s) BY <2>1, <2>4, <3>1 DEF Agreed, Quiet
    <3>3. \A s \in Existing : subscription[s].cust = users.customer BY <2>1, <2>4 DEF SameCustomer
    <3>4. PICK s : s \in Existing BY <2>1, <2>4 DEF Exist
    <3>5. s \in Subs /\ Agrees(s) /\ subscription[s].cust = users.customer
      BY <3>2, <3>3, <3>4 DEF Existing
    <3>6. CASE Live(s)
      <4>1. s \in LiveOf(users.customer) BY <3>5, <3>6 DEF LiveOf
      <4> QED BY <3>5, <3>6, <4>1 DEF Agrees
    <3>7. CASE ~Live(s)
      <4>1. \A r \in Existing : r = s BY <3>4 DEF OneSubscription, Existing
      <4>2. LiveOf(users.customer) = {} BY <2>2, <3>7, <4>1 DEF LiveOf
      <4> QED BY <3>5, <3>7, <4>2 DEF Agrees
    <3> QED BY <3>6, <3>7
  <2> QED BY <2>3, <2>4
<1> QED BY <1>1, Settles, PTL

\* And it is the row of that customer: the account that bought is the account that is linked.
BuyerIsLinked == Quiet /\ Settled => \A s \in Existing : users.customer = subscription[s].cust

\* A subscription that was paid for ends up on the account under the same conditions: once
\* nothing is in flight, no buyer is left with a row that never heard of the purchase.
THEOREM SettledBuyerIsLinked == Spec => []BuyerIsLinked
<1>1. SInv => BuyerIsLinked
  <2> SUFFICES ASSUME SInv, Quiet, Settled, NEW s \in Existing
               PROVE  users.customer = subscription[s].cust
    BY DEF BuyerIsLinked
  <2>1. LinkComes /\ SameCustomer BY DEF SInv, SParts
  <2>2. Fresh = {} /\ \A k \in Checkouts : ~Paid(k) BY DEF Settled, Fresh, Paid, IsIdle, At
  <2>3. users.customer # NoCust BY <2>1, <2>2 DEF LinkComes
  <2> QED BY <2>1, <2>3 DEF SameCustomer, Quiet
<1> QED BY <1>1, Settles, PTL
=============================================================================
