----------------------------- MODULE PlanRenewal -----------------------------
(***************************************************************************)
(* Payments and the subscription of one customer: payment orders and their *)
(* webhooks (services/paymentGatewayService.ts), renewal, activation and   *)
(* the expiry scan (services/customerPlanService.ts), notices with their   *)
(* history (services/planNotificationService.ts) and the manual status of  *)
(* a payment (services/reconciliationService.ts).                          *)
(*                                                                         *)
(* Every request is served by a handler.  A handler reads a document,      *)
(* awaits, and saves what it computed from the copy: reading and saving    *)
(* are two steps, and the steps of other handlers come between them.  A    *)
(* mongoose save writes the fields whose value differs from the one read.  *)
(* Time is counted in days.                                                *)
(***************************************************************************)
EXTENDS Integers, Sequences

CONSTANTS
  Txns,       \* the PaymentTransaction documents
  Handlers,   \* the requests served at the same time
  NoTxn,      \* no transaction
  Cycle,      \* validityDays, billingCycleDays
  End0,       \* the end date of the plan at the start (day 0)
  Forced,     \* the statuses operators force upon a transaction
  Retriggers, \* the notices operators send again
  MaxDay,     \* bound: days that pass
  MaxCalls    \* bound: requests that are made

Notices == {"PLAN_ACTIVATED", "PLAN_RENEWED", "PAYMENT_RECEIVED", "PLAN_EXPIRED",
            "PLAN_EXPIRING_7D", "PLAN_EXPIRING_3D", "PLAN_EXPIRING_1D"}

TxnStatuses == {"none", "INITIATED", "PENDING", "FAILED", "REFUNDED", "SUCCESS", "SETTLED"}
Closed      == {"SUCCESS", "SETTLED"}    \* what a webhook leaves alone

ASSUME RenewalAssumption ==
  /\ NoTxn \notin Txns
  /\ Cycle \in Nat \ {0} /\ End0 \in Nat /\ MaxDay \in Nat /\ MaxCalls \in Nat
  /\ Forced \subseteq TxnStatuses \ {"none"} /\ Retriggers \subseteq Notices

VARIABLES
  now,        \* the day
  txn,        \* PaymentTransaction.status; "none": no such document
  plan,       \* Customer.servicePlan: end = endDate, active = (status "active",
              \* billingStatus "paid"), else ("expired", "overdue")
  history,    \* the event keys in servicePlan.notificationHistory
  job,        \* the local variables of each handler
  calls,      \* requests made so far
  \* What the properties are about:
  captured,   \* transactions whose money the gateway holds
  credited,   \* how often a transaction has renewed the plan
  saves,      \* renewals and activations saved
  contested,  \* transactions closed by one handler and saved by another that had
              \* read them open, or reopened by an operator
  dropped,    \* transactions whose renewal failed, or that an operator closed
  lost,       \* a plan was saved from a copy that was out of date
  sent,       \* notices the customer has received
  repeated,   \* notices received again, other than on an operator's request
  excused     \* notices whose record was lost or came too late

payments == <<txn, captured, credited, contested, dropped>>
notified == <<history, sent, repeated, excused>>
vars == <<now, txn, plan, history, job, calls, captured, credited, saves, contested,
          dropped, lost, sent, repeated, excused>>

Days == Nat
Key  == [type : Notices, end : Days]

Places == {"idle", "gotTxn", "syncing", "paid", "renewing", "activating", "scanned",
           "emitting", "sending", "recording"}

\* txn: the transaction; read, to: its status as read and as to be saved.
\* end: the end date to be saved or, of a scan, as read.  active: the status read.
\* seen: the history read.  fresh: nobody has saved the plan since it was read.
\* todo: the notices to emit.  force: forceRetrigger.
Job == [at : Places, txn : Txns \cup {NoTxn}, read : TxnStatuses, to : TxnStatuses,
        end : Days, active : BOOLEAN, seen : SUBSET Key, fresh : BOOLEAN,
        todo : Seq(Notices), force : BOOLEAN]

\* A handler of transaction t, of a copy of the plan, and of notices.
OfTxn(place, t, status, next) ==
  [at |-> place, txn |-> t, read |-> status, to |-> next, end |-> 0, active |-> FALSE,
   seen |-> {}, fresh |-> TRUE, todo |-> <<>>, force |-> FALSE]

OfPlan(place, t, end, active, keys) ==
  [at |-> place, txn |-> t, read |-> "none", to |-> "none", end |-> end, active |-> active,
   seen |-> keys, fresh |-> TRUE, todo |-> <<>>, force |-> FALSE]

OfNotices(end, notices, again) ==
  [at |-> "emitting", txn |-> NoTxn, read |-> "none", to |-> "none", end |-> end,
   active |-> FALSE, seen |-> {}, fresh |-> TRUE, todo |-> notices, force |-> again]

NoJob == OfTxn("idle", NoTxn, "none", "none")

Holding == {"renewing", "activating", "scanned"}   \* places that hold a copy of the plan

Init ==
  /\ now = 0
  /\ txn = [t \in Txns |-> "none"]
  /\ plan = [end |-> End0, active |-> TRUE]
  /\ history = {}
  /\ job = [h \in Handlers |-> NoJob]
  /\ calls = 0
  /\ captured = {} /\ contested = {} /\ dropped = {} /\ lost = FALSE /\ saves = 0
  /\ credited = [t \in Txns |-> 0]
  /\ sent = {} /\ repeated = {} /\ excused = {}

Put(h, j) == job' = [job EXCEPT ![h] = j]

\* A handler that saves the plan leaves every copy others hold out of date.
PutSaved(h, j) ==
  job' = [g \in Handlers |->
            IF g = h THEN j
            ELSE [job[g] EXCEPT !.fresh = @ /\ job[g].at \notin Holding]]

\* A request arrives and takes a handler.
Start(h) ==
  /\ job[h].at = "idle"
  /\ calls < MaxCalls
  /\ calls' = calls + 1

\* Mutants: a day is added on the way; what is left of the plan is dropped.
LaterPlusDay(a, b) == IF a > b THEN a + 1 ELSE b
LaterIsToday(a, b) == b

Later(a, b) == IF a > b THEN a ELSE b

-------------------------------------------------------------------------------
(***************************************************************************)
(* The transaction.                                                        *)
(***************************************************************************)

\* createPaymentOrder.
CreateOrder(t) ==
  /\ txn[t] = "none"
  /\ txn' = [txn EXCEPT ![t] = "INITIATED"]
  /\ UNCHANGED <<now, plan, notified, job, calls, captured, credited, saves, contested, dropped, lost>>

\* The gateway takes the customer's money.
Capture(t) ==
  /\ txn[t] # "none"
  /\ captured' = captured \cup {t}
  /\ UNCHANGED <<now, txn, plan, notified, job, calls, credited, saves, contested, dropped, lost>>

\* Mutant: without the early return for a closed transaction.
DeliverAlways(h, t, ok) ==
  /\ Start(h)
  /\ txn[t] # "none"
  /\ ok => t \in captured
  /\ Put(h, OfTxn("gotTxn", t, txn[t], IF ok THEN "SUCCESS" ELSE "FAILED"))
  /\ UNCHANGED <<now, plan, notified, payments, saves, lost>>

\* handleWebhook up to the early return.  The gateway reports success of captured
\* payments only, reports failed attempts of any, and reports as often as it likes.
Deliver(h, t, ok) ==
  /\ Start(h)
  /\ txn[t] \notin Closed \cup {"none"}
  /\ ok => t \in captured
  /\ Put(h, OfTxn("gotTxn", t, txn[t], IF ok THEN "SUCCESS" ELSE "FAILED"))
  /\ UNCHANGED <<now, plan, notified, payments, saves, lost>>

\* syncTransactionStatus: the operator forces a status, or asks the gateway, whose
\* answer the code takes to be SUCCESS.
SyncTarget(t, forced) ==
  IF forced # "none" THEN forced
  ELSE IF txn[t] \in {"INITIATED", "PENDING"} THEN "SUCCESS" ELSE txn[t]

Sync(h, t, forced) ==
  /\ Start(h)
  /\ txn[t] # "none"
  /\ Put(h, OfTxn("syncing", t, txn[t], SyncTarget(t, forced)))
  /\ UNCHANGED <<now, plan, notified, payments, saves, lost>>

\* transaction.save(): a status equal to the one read is not written.
Saved(h) == IF job[h].to = job[h].read THEN txn[job[h].txn] ELSE job[h].to

Contests(h) ==
  LET t == job[h].txn IN
  /\ txn[t] \in Closed
  /\ \/ job[h].at = "gotTxn" /\ job[h].read # txn[t]
     \/ Saved(h) \notin Closed

\* Mutant: only a first attempt is renewed.
SaveFirstAttempt(h) ==
  /\ job[h].at \in {"gotTxn", "syncing"}
  /\ txn' = [txn EXCEPT ![job[h].txn] = Saved(h)]
  /\ contested' = IF Contests(h) THEN contested \cup {job[h].txn} ELSE contested
  /\ dropped' = IF job[h].at = "syncing" /\ Saved(h) \in Closed
                THEN dropped \cup {job[h].txn} ELSE dropped
  /\ Put(h, IF job[h].at = "gotTxn" /\ job[h].to = "SUCCESS" /\ job[h].read = "INITIATED"
            THEN OfTxn("paid", job[h].txn, "none", "none")
            ELSE NoJob)
  /\ UNCHANGED <<now, plan, notified, calls, captured, credited, saves, lost>>

SaveTxn(h) ==
  /\ job[h].at \in {"gotTxn", "syncing"}
  /\ txn' = [txn EXCEPT ![job[h].txn] = Saved(h)]
  /\ contested' = IF Contests(h) THEN contested \cup {job[h].txn} ELSE contested
  /\ dropped' = IF job[h].at = "syncing" /\ Saved(h) \in Closed
                THEN dropped \cup {job[h].txn} ELSE dropped
  /\ Put(h, IF job[h].at = "gotTxn" /\ job[h].to = "SUCCESS"
            THEN OfTxn("paid", job[h].txn, "none", "none")
            ELSE NoJob)
  /\ UNCHANGED <<now, plan, notified, calls, captured, credited, saves, lost>>

-------------------------------------------------------------------------------
(***************************************************************************)
(* The plan.                                                               *)
(***************************************************************************)

\* renewCustomerPlan reads the customer: for a paid webhook, or for an operator.
ReadToRenew(h) ==
  /\ \/ Start(h)
     \/ job[h].at = "paid" /\ UNCHANGED calls
  /\ Put(h, OfPlan("renewing", job[h].txn, Later(plan.end, now) + Cycle, plan.active, {}))
  /\ UNCHANGED <<now, plan, notified, payments, saves, lost>>

Credit(t) == IF t \in Txns THEN [credited EXCEPT ![t] = @ + 1] ELSE credited

\* ... and saves it: the status is written only if the one read was another.
SaveRenewal(h) ==
  /\ job[h].at = "renewing"
  /\ plan' = [end |-> job[h].end, active |-> plan.active \/ ~job[h].active]
  /\ credited' = Credit(job[h].txn)
  /\ saves' = saves + 1
  /\ lost' = (lost \/ ~job[h].fresh)
  /\ PutSaved(h, OfNotices(job[h].end, <<"PLAN_RENEWED", "PAYMENT_RECEIVED">>, FALSE))
  /\ UNCHANGED <<now, txn, notified, calls, captured, contested, dropped>>

\* activateCustomerPlan reads the customer ...
ReadToActivate(h) ==
  /\ Start(h)
  /\ Put(h, OfPlan("activating", NoTxn, 0, FALSE, history))
  /\ UNCHANGED <<now, plan, notified, payments, saves, lost>>

\* ... and assigns servicePlan as a whole, the history it read included.
SaveActivation(h) ==
  /\ job[h].at = "activating"
  /\ plan' = [end |-> now + Cycle, active |-> TRUE]
  /\ history' = job[h].seen
  /\ excused' = excused \cup (history \ job[h].seen)
  /\ saves' = saves + 1
  /\ lost' = (lost \/ ~job[h].fresh)
  /\ PutSaved(h, OfNotices(now + Cycle, <<"PLAN_ACTIVATED">>, FALSE))
  /\ UNCHANGED <<now, payments, calls, sent, repeated>>

\* runAutomatedExpiryScanner reads all customers ...
ReadToScan(h) ==
  /\ Start(h)
  /\ Put(h, OfPlan("scanned", NoTxn, plan.end, plan.active, {}))
  /\ UNCHANGED <<now, plan, notified, payments, saves, lost>>

\* Mutant: a plan is expired on its last day.
ExpireEarly(h) ==
  /\ job[h].at = "scanned" /\ job[h].end <= now + 1 /\ job[h].active
  /\ plan' = [plan EXCEPT !.active = FALSE]
  /\ lost' = (lost \/ ~job[h].fresh)
  /\ PutSaved(h, OfNotices(job[h].end, <<"PLAN_EXPIRED">>, FALSE))
  /\ UNCHANGED <<now, notified, payments, calls, saves>>

\* ... and, when its loop comes to this one, marks it expired ...
Expire(h) ==
  /\ job[h].at = "scanned" /\ job[h].end <= now /\ job[h].active
  /\ plan' = [plan EXCEPT !.active = FALSE]
  /\ lost' = (lost \/ ~job[h].fresh)
  /\ PutSaved(h, OfNotices(job[h].end, <<"PLAN_EXPIRED">>, FALSE))
  /\ UNCHANGED <<now, notified, payments, calls, saves>>

\* Mutant: an event type that is none.
WindowMisspelt(days) == CASE days = 7 -> <<"PLAN_EXPIRING_7D">>
                          [] days = 3 -> <<"PLAN_EXPIRING_3D">>
                          [] days = 1 -> <<"PLAN_EXPIRING_TOMORROW">>
                          [] OTHER -> <<>>

\* ... or announces the end, or does nothing.
Window(days) == CASE days = 7 -> <<"PLAN_EXPIRING_7D">>
                  [] days = 3 -> <<"PLAN_EXPIRING_3D">>
                  [] days = 1 -> <<"PLAN_EXPIRING_1D">>
                  [] OTHER -> <<>>

Announce(h) ==
  /\ job[h].at = "scanned" /\ ~(job[h].end <= now /\ job[h].active)
  /\ LET due == Window(job[h].end - now) IN
     Put(h, IF due = <<>> THEN NoJob ELSE OfNotices(job[h].end, due, FALSE))
  /\ UNCHANGED <<now, plan, notified, payments, calls, saves, lost>>

\* retriggerNotification.
Retrigger(h, n) ==
  /\ Start(h)
  /\ Put(h, OfNotices(plan.end, <<n>>, TRUE))
  /\ UNCHANGED <<now, plan, notified, payments, saves, lost>>

-------------------------------------------------------------------------------
(***************************************************************************)
(* emitPlanNotificationEvent, for the first of the notices to emit.        *)
(***************************************************************************)

KeyOf(j) == [type |-> Head(j.todo), end |-> j.end]

\* The next notice, or the end of the request.
Done(j) == IF Tail(j.todo) = <<>> THEN NoJob
           ELSE OfNotices(j.end, Tail(j.todo), j.force)

Emitting(S) == {KeyOf(job[g]) : g \in {f \in S : job[f].at \in {"sending", "recording"}}}

\* Mutant: without the look at the history.
CheckNothing(h) ==
  LET k == KeyOf(job[h]) IN
  /\ job[h].at = "emitting"
  /\ Put(h, [job[h] EXCEPT !.at = "sending"])
  /\ excused' = IF k \in Emitting(Handlers \ {h}) THEN excused \cup {k} ELSE excused
  /\ UNCHANGED <<now, plan, history, payments, calls, saves, lost, sent, repeated>>

\* The history is read and the notice is due.
CheckHistory(h) ==
  LET k == KeyOf(job[h]) IN
  /\ job[h].at = "emitting"
  /\ k \in history => job[h].force
  /\ Put(h, [job[h] EXCEPT !.at = "sending"])
  /\ excused' = IF k \in Emitting(Handlers \ {h}) THEN excused \cup {k} ELSE excused
  /\ UNCHANGED <<now, plan, history, payments, calls, saves, lost, sent, repeated>>

\* It is in the history, or its template is disabled.
SkipNotice(h) ==
  /\ job[h].at = "emitting"
  /\ Put(h, Done(job[h]))
  /\ UNCHANGED <<now, plan, notified, payments, calls, saves, lost>>

\* sendPlanNotificationMessage succeeds whether or not the socket is connected.
Send(h, connected) ==
  LET k == KeyOf(job[h]) IN
  /\ job[h].at = "sending"
  /\ Put(h, [job[h] EXCEPT !.at = "recording"])
  /\ sent' = IF connected THEN sent \cup {k} ELSE sent
  /\ repeated' = IF connected /\ k \in sent /\ ~job[h].force THEN repeated \cup {k} ELSE repeated
  /\ UNCHANGED <<now, plan, history, excused, payments, calls, saves, lost>>

Record(h) ==
  /\ job[h].at = "recording"
  /\ history' = history \cup {KeyOf(job[h])}
  /\ Put(h, Done(job[h]))
  /\ UNCHANGED <<now, plan, sent, repeated, excused, payments, calls, saves, lost>>

-------------------------------------------------------------------------------
(***************************************************************************)
(* An await rejects and the request ends there, or the server stops.  A    *)
(* webhook swallows the error of its renewal; what it saved before stays.  *)
(***************************************************************************)
Abort(h) ==
  /\ job[h].at # "idle"
  /\ excused' = IF job[h].at = "recording" THEN excused \cup {KeyOf(job[h])} ELSE excused
  /\ dropped' = IF job[h].at \in {"paid", "renewing"}
                THEN dropped \cup ({job[h].txn} \ {NoTxn}) ELSE dropped
  /\ Put(h, NoJob)
  /\ UNCHANGED <<now, plan, history, txn, captured, credited, contested, calls, saves, lost,
                 sent, repeated>>

Tick ==
  /\ now < MaxDay
  /\ now' = now + 1
  /\ UNCHANGED <<plan, notified, payments, job, calls, saves, lost>>

Webhook(h)  == SaveTxn(h) \/ \E t \in Txns, ok \in BOOLEAN : Deliver(h, t, ok)
Operator(h) ==
  \/ ReadToActivate(h)
  \/ ReadToScan(h)
  \/ \E n \in Retriggers : Retrigger(h, n)
  \/ \E t \in Txns, forced \in Forced \cup {"none"} : Sync(h, t, forced)
Renewing(h) == ReadToRenew(h) \/ SaveRenewal(h) \/ SaveActivation(h)
Scanning(h) == Expire(h) \/ Announce(h)
Notifying(h) ==
  \/ CheckHistory(h) \/ SkipNotice(h) \/ Record(h)
  \/ \E connected \in BOOLEAN : Send(h, connected)

Next ==
  \/ Tick
  \/ \E t \in Txns : CreateOrder(t) \/ Capture(t)
  \/ \E h \in Handlers :
       Webhook(h) \/ Operator(h) \/ Renewing(h) \/ Scanning(h) \/ Notifying(h) \/ Abort(h)

Spec == Init /\ [][Next]_vars

-------------------------------------------------------------------------------
(***************************************************************************)
(* Properties.                                                             *)
(***************************************************************************)

TypeOK ==
  /\ now \in Days /\ calls \in Nat /\ saves \in Nat /\ lost \in BOOLEAN
  /\ txn \in [Txns -> TxnStatuses]
  /\ plan \in [end : Days, active : BOOLEAN]
  /\ job \in [Handlers -> Job]
  /\ captured \subseteq Txns /\ contested \subseteq Txns /\ dropped \subseteq Txns
  /\ credited \in [Txns -> Nat]
  /\ history \subseteq Key /\ sent \subseteq Key /\ repeated \subseteq Key /\ excused \subseteq Key

\* The webhook keeps the promise of PaidRenewal: a transaction renews the plan only
\* after its capture and, unless it is contested, once - however often, late and in
\* whatever order the gateway reports (handleWebhook, "Idempotent update").
Promise == INSTANCE PaidRenewal WITH Orders <- Txns, renewed <- credited
PaidOnce == Promise!Spec

\* A transaction that is closed has renewed the plan or is about to; what makes it
\* otherwise is a failure between the two saves - no later report makes up for it -
\* or an operator who closed it by hand (handleWebhook, syncTransactionStatus).
ClosedIsServed ==
  \A t \in Txns : txn[t] \in Closed =>
    \/ credited[t] > 0 \/ t \in dropped
    \/ \E h \in Handlers : job[h].txn = t /\ job[h].at \in {"paid", "renewing"}

\* No schedule of renewals, activations and scans gives days away: the plan never
\* ends later than its first end date, or today, plus one cycle for each of them.
DaysArePaidFor == plan.end <= Later(End0, now) + Cycle * saves

\* Unless a save from an outdated copy came between, a plan marked expired is over
\* (renewCustomerPlan, runAutomatedExpiryScanner).
ExpiredIsOver == ~lost /\ ~plan.active => plan.end <= now

\* Unless a save from an outdated copy came between, a payment that is credited
\* adds a whole cycle to what the customer had.
CreditAddsCycle ==
  [][\A t \in Txns : credited'[t] > credited[t] /\ ~lost' => plan'.end >= plan.end + Cycle]_vars

\* A notice reaches the customer a second time only when it was requested, when two
\* requests emitted it at once, or when its record was lost: by a failure between
\* sending and recording, or by an activation that saved an older history.
RepeatIsExcused == repeated \subseteq excused
===============================================================================
