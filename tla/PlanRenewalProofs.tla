------------------------- MODULE PlanRenewalProofs -------------------------
(***************************************************************************)
(* Proofs about PlanRenewal, for any payment orders, handlers, cycles and  *)
(* bounds: what the plan can gain, that the webhook implements             *)
(* PaidRenewal, and which notices can be repeated.                         *)
(***************************************************************************)
EXTENDS PlanRenewal, TLAPS

-------------------------------------------------------------------------------
(***************************************************************************)
(* Types, and the local variables after each step.                         *)
(***************************************************************************)

\* A handler that notifies has a notice to send; one of a payment has its transaction.
Whole(j) ==
  /\ j.at \in {"emitting", "sending", "recording"} => j.todo # <<>>
  /\ j.at \in {"gotTxn", "syncing", "paid"} => j.txn \in Txns

JobsWhole == \A h \in Handlers : Whole(job[h])

TypeInv == TypeOK /\ JobsWhole

\* The step gives handler h the local variables j ...
Moved(h, j) ==
  /\ job' \in [Handlers -> Job] /\ j \in Job
  /\ job'[h] = j
  /\ \A g \in Handlers : g # h => job'[g] = job[g]

\* ... and, having saved the plan, leaves the copies of the others out of date.
MovedSaving(h, j) ==
  /\ job' \in [Handlers -> Job] /\ j \in Job
  /\ job'[h] = j
  /\ \A g \in Handlers : g # h =>
       /\ job'[g].at = job[g].at /\ job'[g].txn = job[g].txn
       /\ job'[g].read = job[g].read /\ job'[g].to = job[g].to
       /\ job'[g].end = job[g].end /\ job'[g].active = job[g].active
       /\ job'[g].seen = job[g].seen /\ job'[g].todo = job[g].todo
       /\ job'[g].force = job[g].force
       /\ job'[g].fresh = (job[g].fresh /\ job[g].at \notin Holding)

LEMMA PutMoves ==
  ASSUME job \in [Handlers -> Job], NEW h \in Handlers, NEW j \in Job, Put(h, j)
  PROVE  Moved(h, j)
BY DEF Put, Moved

LEMMA PutSavedMoves ==
  ASSUME job \in [Handlers -> Job], NEW h \in Handlers, NEW j \in Job, PutSaved(h, j)
  PROVE  MovedSaving(h, j)
<1>1. job'[h] = j
  BY DEF PutSaved
<1>2. ASSUME NEW g \in Handlers, g # h
      PROVE  job'[g] = [job[g] EXCEPT !.fresh = @ /\ job[g].at \notin Holding]
  BY <1>2 DEF PutSaved
<1>3. ASSUME NEW g \in Handlers, g # h PROVE job'[g] \in Job
  BY <1>2, <1>3 DEF Job
<1>4. job' \in [Handlers -> Job]
  BY <1>1, <1>3 DEF PutSaved
<1> QED BY <1>1, <1>2, <1>4 DEF Job, MovedSaving

LEMMA Constructed ==
  ASSUME NEW place \in Places, NEW t \in Txns \cup {NoTxn}
  PROVE  /\ \A status, next \in TxnStatuses : OfTxn(place, t, status, next) \in Job
         /\ \A end \in Days, active \in BOOLEAN, keys \in SUBSET Key :
              OfPlan(place, t, end, active, keys) \in Job
         /\ \A end \in Days, notices \in Seq(Notices), again \in BOOLEAN :
              OfNotices(end, notices, again) \in Job
<1>1. "none" \in TxnStatuses /\ 0 \in Days /\ {} \in SUBSET Key /\ <<>> \in Seq(Notices)
      /\ "emitting" \in Places /\ NoTxn \in Txns \cup {NoTxn}
  BY DEF TxnStatuses, Days, Places
<1> QED BY <1>1 DEF OfTxn, OfPlan, OfNotices, Job

LEMMA NoJobType == NoJob \in Job
<1>1. "idle" \in Places /\ "none" \in TxnStatuses
  BY DEF Places, TxnStatuses
<1> QED BY <1>1, Constructed DEF NoJob

LEMMA DeliverMoves ==
  ASSUME TypeInv, NEW h \in Handlers, NEW t \in Txns, NEW ok \in BOOLEAN, Deliver(h, t, ok)
  PROVE  Moved(h, OfTxn("gotTxn", t, txn[t], IF ok THEN "SUCCESS" ELSE "FAILED"))
<1> DEFINE j == OfTxn("gotTxn", t, txn[t], IF ok THEN "SUCCESS" ELSE "FAILED")
<1>1. /\ "gotTxn" \in Places /\ txn[t] \in TxnStatuses
      /\ (IF ok THEN "SUCCESS" ELSE "FAILED") \in TxnStatuses
  BY DEF TypeInv, TypeOK, Places, TxnStatuses
<1>2. j \in Job
  BY <1>1, Constructed
<1>3. Put(h, j) /\ job \in [Handlers -> Job]
  BY DEF Deliver, TypeInv, TypeOK
<1>4. Moved(h, j)
  <2> HIDE DEF j
  <2> QED BY <1>2, <1>3, PutMoves
<1> QED BY <1>4

LEMMA SyncMoves ==
  ASSUME TypeInv, RenewalAssumption, NEW h \in Handlers, NEW t \in Txns,
         NEW forced \in Forced \cup {"none"}, Sync(h, t, forced)
  PROVE  Moved(h, OfTxn("syncing", t, txn[t], SyncTarget(t, forced)))
<1> DEFINE j == OfTxn("syncing", t, txn[t], SyncTarget(t, forced))
<1>1. "syncing" \in Places /\ txn[t] \in TxnStatuses /\ SyncTarget(t, forced) \in TxnStatuses
  BY DEF TypeInv, TypeOK, Places, TxnStatuses, SyncTarget, RenewalAssumption
<1>2. j \in Job
  BY <1>1, Constructed
<1>3. Put(h, j) /\ job \in [Handlers -> Job]
  BY DEF Sync, TypeInv, TypeOK
<1>4. Moved(h, j)
  <2> HIDE DEF j
  <2> QED BY <1>2, <1>3, PutMoves
<1> QED BY <1>4

LEMMA SaveTxnMoves ==
  ASSUME TypeInv, NEW h \in Handlers, SaveTxn(h)
  PROVE  Moved(h, IF job[h].at = "gotTxn" /\ job[h].to = "SUCCESS"
                  THEN OfTxn("paid", job[h].txn, "none", "none") ELSE NoJob)
<1> DEFINE j == IF job[h].at = "gotTxn" /\ job[h].to = "SUCCESS"
                THEN OfTxn("paid", job[h].txn, "none", "none") ELSE NoJob
<1>1. "paid" \in Places /\ job[h].txn \in Txns \cup {NoTxn} /\ "none" \in TxnStatuses
  BY DEF TypeInv, TypeOK, Places, TxnStatuses, Job
<1>2. j \in Job
  BY <1>1, Constructed, NoJobType
<1>3. Put(h, j) /\ job \in [Handlers -> Job]
  BY DEF SaveTxn, TypeInv, TypeOK
<1>4. Moved(h, j)
  <2> HIDE DEF j
  <2> QED BY <1>2, <1>3, PutMoves
<1> QED BY <1>4

LEMMA ReadToRenewMoves ==
  ASSUME TypeInv, RenewalAssumption, NEW h \in Handlers, ReadToRenew(h)
  PROVE  Moved(h, OfPlan("renewing", job[h].txn, Later(plan.end, now) + Cycle, plan.active, {}))
<1> DEFINE j == OfPlan("renewing", job[h].txn, Later(plan.end, now) + Cycle, plan.active, {})
<1>1. /\ "renewing" \in Places /\ job[h].txn \in Txns \cup {NoTxn} /\ plan.active \in BOOLEAN
      /\ Later(plan.end, now) + Cycle \in Days /\ {} \in SUBSET Key
  BY DEF TypeInv, TypeOK, Places, Job, Days, Later, RenewalAssumption
<1>2. j \in Job
  BY <1>1, Constructed
<1>3. Put(h, j) /\ job \in [Handlers -> Job]
  BY DEF ReadToRenew, TypeInv, TypeOK
<1>4. Moved(h, j)
  <2> HIDE DEF j
  <2> QED BY <1>2, <1>3, PutMoves
<1> QED BY <1>4

LEMMA SaveRenewalMoves ==
  ASSUME TypeInv, NEW h \in Handlers, SaveRenewal(h)
  PROVE  MovedSaving(h, OfNotices(job[h].end, <<"PLAN_RENEWED", "PAYMENT_RECEIVED">>, FALSE))
<1> DEFINE j == OfNotices(job[h].end, <<"PLAN_RENEWED", "PAYMENT_RECEIVED">>, FALSE)
<1>1. job[h].end \in Days /\ <<"PLAN_RENEWED", "PAYMENT_RECEIVED">> \in Seq(Notices)
      /\ FALSE \in BOOLEAN
  BY DEF TypeInv, TypeOK, Job, Notices
<1>2. j \in Job
  BY <1>1, Constructed DEF Places
<1>3. PutSaved(h, j) /\ job \in [Handlers -> Job]
  BY DEF SaveRenewal, TypeInv, TypeOK
<1>4. MovedSaving(h, j)
  <2> HIDE DEF j
  <2> QED BY <1>2, <1>3, PutSavedMoves
<1> QED BY <1>4

LEMMA ReadToActivateMoves ==
  ASSUME TypeInv, NEW h \in Handlers, ReadToActivate(h)
  PROVE  Moved(h, OfPlan("activating", NoTxn, 0, FALSE, history))
<1> DEFINE j == OfPlan("activating", NoTxn, 0, FALSE, history)
<1>1. "activating" \in Places /\ history \in SUBSET Key /\ 0 \in Days /\ FALSE \in BOOLEAN
  BY DEF TypeInv, TypeOK, Places, Days
<1>2. j \in Job
  BY <1>1, Constructed
<1>3. Put(h, j) /\ job \in [Handlers -> Job]
  BY DEF ReadToActivate, TypeInv, TypeOK
<1>4. Moved(h, j)
  <2> HIDE DEF j
  <2> QED BY <1>2, <1>3, PutMoves
<1> QED BY <1>4

LEMMA SaveActivationMoves ==
  ASSUME TypeInv, RenewalAssumption, NEW h \in Handlers, SaveActivation(h)
  PROVE  MovedSaving(h, OfNotices(now + Cycle, <<"PLAN_ACTIVATED">>, FALSE))
<1> DEFINE j == OfNotices(now + Cycle, <<"PLAN_ACTIVATED">>, FALSE)
<1>1. now + Cycle \in Days /\ <<"PLAN_ACTIVATED">> \in Seq(Notices) /\ FALSE \in BOOLEAN
  BY DEF TypeInv, TypeOK, Notices, Days, RenewalAssumption
<1>2. j \in Job
  BY <1>1, Constructed DEF Places
<1>3. PutSaved(h, j) /\ job \in [Handlers -> Job]
  BY DEF SaveActivation, TypeInv, TypeOK
<1>4. MovedSaving(h, j)
  <2> HIDE DEF j
  <2> QED BY <1>2, <1>3, PutSavedMoves
<1> QED BY <1>4

LEMMA ReadToScanMoves ==
  ASSUME TypeInv, NEW h \in Handlers, ReadToScan(h)
  PROVE  Moved(h, OfPlan("scanned", NoTxn, plan.end, plan.active, {}))
<1> DEFINE j == OfPlan("scanned", NoTxn, plan.end, plan.active, {})
<1>1. "scanned" \in Places /\ plan.end \in Days /\ plan.active \in BOOLEAN /\ {} \in SUBSET Key
  BY DEF TypeInv, TypeOK, Places
<1>2. j \in Job
  BY <1>1, Constructed
<1>3. Put(h, j) /\ job \in [Handlers -> Job]
  BY DEF ReadToScan, TypeInv, TypeOK
<1>4. Moved(h, j)
  <2> HIDE DEF j
  <2> QED BY <1>2, <1>3, PutMoves
<1> QED BY <1>4

LEMMA ExpireMoves ==
  ASSUME TypeInv, NEW h \in Handlers, Expire(h)
  PROVE  MovedSaving(h, OfNotices(job[h].end, <<"PLAN_EXPIRED">>, FALSE))
<1> DEFINE j == OfNotices(job[h].end, <<"PLAN_EXPIRED">>, FALSE)
<1>1. job[h].end \in Days /\ <<"PLAN_EXPIRED">> \in Seq(Notices) /\ FALSE \in BOOLEAN
  BY DEF TypeInv, TypeOK, Job, Notices
<1>2. j \in Job
  BY <1>1, Constructed DEF Places
<1>3. PutSaved(h, j) /\ job \in [Handlers -> Job]
  BY DEF Expire, TypeInv, TypeOK
<1>4. MovedSaving(h, j)
  <2> HIDE DEF j
  <2> QED BY <1>2, <1>3, PutSavedMoves
<1> QED BY <1>4

LEMMA WindowType ==
  ASSUME NEW days PROVE Window(days) \in Seq(Notices)
<1>1. Window(days) \in {<<"PLAN_EXPIRING_7D">>, <<"PLAN_EXPIRING_3D">>,
                        <<"PLAN_EXPIRING_1D">>, <<>>}
  BY DEF Window
<1>2. /\ <<"PLAN_EXPIRING_7D">> \in Seq(Notices) /\ <<"PLAN_EXPIRING_3D">> \in Seq(Notices)
      /\ <<"PLAN_EXPIRING_1D">> \in Seq(Notices) /\ <<>> \in Seq(Notices)
  BY DEF Notices
<1> HIDE DEF Notices
<1> QED BY <1>1, <1>2, Zenon

LEMMA AnnounceMoves ==
  ASSUME TypeInv, NEW h \in Handlers, Announce(h)
  PROVE  \/ Moved(h, NoJob)
         \/ \E due \in Seq(Notices) : due # <<>> /\ Moved(h, OfNotices(job[h].end, due, FALSE))
<1> DEFINE due == Window(job[h].end - now)
<1>1. due \in Seq(Notices)
  BY WindowType
<1>2. job[h].end \in Days /\ FALSE \in BOOLEAN /\ job \in [Handlers -> Job]
  BY DEF TypeInv, TypeOK, Job
<1>3. OfNotices(job[h].end, due, FALSE) \in Job
  <2> HIDE DEF due
  <2> QED BY <1>1, <1>2, Constructed DEF Places
<1>4. Put(h, IF due = <<>> THEN NoJob ELSE OfNotices(job[h].end, due, FALSE))
  BY DEF Announce
<1> HIDE DEF due
<1>5. CASE due = <<>>
  BY <1>2, <1>4, <1>5, NoJobType, PutMoves
<1>6. CASE due # <<>>
  BY <1>1, <1>2, <1>3, <1>4, <1>6, PutMoves
<1> QED BY <1>5, <1>6

LEMMA RetriggerMoves ==
  ASSUME TypeInv, RenewalAssumption, NEW h \in Handlers, NEW n \in Retriggers, Retrigger(h, n)
  PROVE  Moved(h, OfNotices(plan.end, <<n>>, TRUE))
<1> DEFINE j == OfNotices(plan.end, <<n>>, TRUE)
<1>1. plan.end \in Days /\ <<n>> \in Seq(Notices) /\ TRUE \in BOOLEAN
  BY DEF TypeInv, TypeOK, RenewalAssumption
<1>2. j \in Job
  BY <1>1, Constructed DEF Places
<1>3. Put(h, j) /\ job \in [Handlers -> Job]
  BY DEF Retrigger, TypeInv, TypeOK
<1>4. Moved(h, j)
  <2> HIDE DEF j
  <2> QED BY <1>2, <1>3, PutMoves
<1> QED BY <1>4

LEMMA DoneType ==
  ASSUME NEW j \in Job, j.todo # <<>>
  PROVE  /\ Done(j) \in Job
         /\ Done(j) = NoJob \/ (\E q \in Seq(Notices) :
                                  q # <<>> /\ Done(j) = OfNotices(j.end, q, j.force))
<1>1. j.end \in Days /\ j.force \in BOOLEAN /\ j.todo \in Seq(Notices)
  BY DEF Job
<1>2. Tail(j.todo) \in Seq(Notices)
  BY <1>1
<1>3. OfNotices(j.end, Tail(j.todo), j.force) \in Job
  BY <1>1, <1>2, Constructed DEF Places
<1> QED BY <1>2, <1>3, NoJobType DEF Done

\* Skipping and recording go on with the next notice or end.
LEMMA DoneMoves ==
  ASSUME TypeInv, NEW h \in Handlers, job[h].at \in {"emitting", "recording"},
         Put(h, Done(job[h]))
  PROVE  Moved(h, Done(job[h]))
<1>1. job \in [Handlers -> Job] /\ job[h] \in Job /\ job[h].todo # <<>>
  BY DEF TypeInv, TypeOK, JobsWhole, Whole
<1> QED BY <1>1, DoneType, PutMoves

\* Checking and sending change the place only.
LEMMA PlaceMoves ==
  ASSUME TypeInv, NEW h \in Handlers, NEW place \in {"sending", "recording"},
         Put(h, [job[h] EXCEPT !.at = place])
  PROVE  Moved(h, [job[h] EXCEPT !.at = place])
<1>1. job \in [Handlers -> Job] /\ job[h] \in Job
  BY DEF TypeInv, TypeOK
<1>2. [job[h] EXCEPT !.at = place] \in Job
  BY <1>1 DEF Job, Places
<1> QED BY <1>1, <1>2, PutMoves

LEMMA AbortMoves ==
  ASSUME TypeInv, NEW h \in Handlers, Abort(h)
  PROVE  Moved(h, NoJob)
BY NoJobType, PutMoves DEF Abort, TypeInv, TypeOK

LEMMA KeyType ==
  ASSUME TypeInv, NEW h \in Handlers, job[h].at \in {"emitting", "sending", "recording"}
  PROVE  KeyOf(job[h]) \in Key
<1>1. job[h].todo \in Seq(Notices) /\ job[h].todo # <<>> /\ job[h].end \in Days
  BY DEF TypeInv, TypeOK, JobsWhole, Whole, Job
<1>2. Head(job[h].todo) \in Notices
  BY <1>1
<1> QED BY <1>1, <1>2 DEF KeyOf, Key

LEMMA JobsStayWhole ==
  ASSUME JobsWhole, NEW h \in Handlers, NEW j, Whole(j), Moved(h, j) \/ MovedSaving(h, j)
  PROVE  JobsWhole'
BY DEF JobsWhole, Whole, Moved, MovedSaving

LEMMA JobsKept == ASSUME TypeInv, UNCHANGED job PROVE job' \in [Handlers -> Job] /\ JobsWhole'
BY DEF TypeInv, TypeOK, JobsWhole, Whole

LEMMA WholeJobs ==
  /\ Whole(NoJob)
  /\ \A t \in Txns : \A status, next :
       /\ Whole(OfTxn("gotTxn", t, status, next))
       /\ Whole(OfTxn("syncing", t, status, next))
       /\ Whole(OfTxn("paid", t, status, next))
  /\ \A t, end, active, keys :
       /\ Whole(OfPlan("renewing", t, end, active, keys))
       /\ Whole(OfPlan("activating", t, end, active, keys))
       /\ Whole(OfPlan("scanned", t, end, active, keys))
  /\ \A end, notices, again : notices # <<>> => Whole(OfNotices(end, notices, again))
BY DEF Whole, OfTxn, OfPlan, OfNotices, NoJob

LEMMA TypeInit == ASSUME RenewalAssumption, Init PROVE TypeInv
<1>1. TypeOK
  BY NoJobType DEF Init, TypeOK, RenewalAssumption, TxnStatuses, Days
<1>2. JobsWhole
  BY WholeJobs DEF Init, JobsWhole
<1> QED BY <1>1, <1>2 DEF TypeInv

\* The types of everything but the handlers' variables.
RestTyped ==
  /\ now \in Days /\ calls \in Nat /\ saves \in Nat /\ lost \in BOOLEAN
  /\ txn \in [Txns -> TxnStatuses]
  /\ plan \in [end : Days, active : BOOLEAN]
  /\ captured \subseteq Txns /\ contested \subseteq Txns /\ dropped \subseteq Txns
  /\ credited \in [Txns -> Nat]
  /\ history \subseteq Key /\ sent \subseteq Key /\ repeated \subseteq Key /\ excused \subseteq Key

LEMMA TypeInvParts ==
  /\ TypeInv <=> RestTyped /\ job \in [Handlers -> Job] /\ JobsWhole
  /\ TypeInv' <=> RestTyped' /\ job' \in [Handlers -> Job] /\ JobsWhole'
BY DEF TypeInv, TypeOK, RestTyped

LEMMA MovedTypes ==
  ASSUME TypeInv, RestTyped', NEW h \in Handlers, NEW j, Whole(j), Moved(h, j)
  PROVE  TypeInv'
<1>1. JobsWhole /\ job' \in [Handlers -> Job]
  BY DEF TypeInv, Moved
<1>2. JobsWhole'
  BY <1>1, JobsStayWhole
<1> QED BY <1>1, <1>2, TypeInvParts

LEMMA MovedSavingTypes ==
  ASSUME TypeInv, RestTyped', NEW h \in Handlers, NEW j, Whole(j), MovedSaving(h, j)
  PROVE  TypeInv'
<1>1. JobsWhole /\ job' \in [Handlers -> Job]
  BY DEF TypeInv, MovedSaving
<1>2. JobsWhole'
  BY <1>1, JobsStayWhole
<1> QED BY <1>1, <1>2, TypeInvParts

LEMMA SavedType ==
  ASSUME TypeInv, NEW h \in Handlers, job[h].at \in {"gotTxn", "syncing"}
  PROVE  [txn EXCEPT ![job[h].txn] = Saved(h)] \in [Txns -> TxnStatuses]
<1>1. job[h].to \in TxnStatuses
  BY DEF TypeInv, TypeOK, Job
<1>2. job[h].txn \in Txns => Saved(h) \in TxnStatuses
  BY <1>1 DEF Saved, TypeInv, TypeOK
<1> QED BY <1>2 DEF TypeInv, TypeOK

LEMMA TypeNext == ASSUME RenewalAssumption, TypeInv, [Next]_vars PROVE TypeInv'
<1>0. RestTyped /\ job \in [Handlers -> Job] /\ JobsWhole
  BY TypeInvParts
<1>1. CASE Tick
  BY <1>0, <1>1, JobsKept, TypeInvParts DEF Tick, RestTyped, Days, notified, payments
<1>2. ASSUME NEW t \in Txns, CreateOrder(t) PROVE TypeInv'
  BY <1>0, <1>2, JobsKept, TypeInvParts DEF CreateOrder, RestTyped, notified, TxnStatuses
<1>3. ASSUME NEW t \in Txns, Capture(t) PROVE TypeInv'
  BY <1>0, <1>3, JobsKept, TypeInvParts DEF Capture, RestTyped, notified
<1>4. ASSUME NEW h \in Handlers, SaveTxn(h) PROVE TypeInv'
  <2>1. job[h].txn \in Txns
    BY <1>0, <1>4 DEF SaveTxn, JobsWhole, Whole
  <2>2. dropped' \subseteq Txns /\ contested' \subseteq Txns
    BY <1>0, <1>4, <2>1 DEF SaveTxn, RestTyped
  <2>3. txn' \in [Txns -> TxnStatuses]
    BY <1>4, SavedType DEF SaveTxn
  <2>4. RestTyped'
    BY <1>0, <1>4, <2>2, <2>3 DEF SaveTxn, RestTyped, notified
  <2> QED BY <1>4, <2>1, <2>4, SaveTxnMoves, MovedTypes, WholeJobs
<1>5. ASSUME NEW h \in Handlers, NEW t \in Txns, NEW ok \in BOOLEAN, Deliver(h, t, ok)
      PROVE  TypeInv'
  <2>1. RestTyped'
    BY <1>0, <1>5 DEF Deliver, Start, RestTyped, notified, payments
  <2> QED BY <1>5, <2>1, DeliverMoves, MovedTypes, WholeJobs
<1>6. ASSUME NEW h \in Handlers, ReadToActivate(h) PROVE TypeInv'
  <2>1. RestTyped'
    BY <1>0, <1>6 DEF ReadToActivate, Start, RestTyped, notified, payments
  <2> QED BY <1>6, <2>1, ReadToActivateMoves, MovedTypes, WholeJobs
<1>7. ASSUME NEW h \in Handlers, ReadToScan(h) PROVE TypeInv'
  <2>1. RestTyped'
    BY <1>0, <1>7 DEF ReadToScan, Start, RestTyped, notified, payments
  <2> QED BY <1>7, <2>1, ReadToScanMoves, MovedTypes, WholeJobs
<1>8. ASSUME NEW h \in Handlers, NEW n \in Retriggers, Retrigger(h, n) PROVE TypeInv'
  <2>1. RestTyped'
    BY <1>0, <1>8 DEF Retrigger, Start, RestTyped, notified, payments
  <2> QED BY <1>8, <2>1, RetriggerMoves, MovedTypes, WholeJobs
<1>9. ASSUME NEW h \in Handlers, NEW t \in Txns, NEW forced \in Forced \cup {"none"},
             Sync(h, t, forced)
      PROVE  TypeInv'
  <2>1. RestTyped'
    BY <1>0, <1>9 DEF Sync, Start, RestTyped, notified, payments
  <2> QED BY <1>9, <2>1, SyncMoves, MovedTypes, WholeJobs
<1>10. ASSUME NEW h \in Handlers, ReadToRenew(h) PROVE TypeInv'
  <2>1. RestTyped'
    BY <1>0, <1>10 DEF ReadToRenew, Start, RestTyped, notified, payments
  <2> QED BY <1>10, <2>1, ReadToRenewMoves, MovedTypes, WholeJobs
<1>11. ASSUME NEW h \in Handlers, SaveRenewal(h) PROVE TypeInv'
  <2>1. plan' \in [end : Days, active : BOOLEAN]
    <3>1. job[h].end \in Days /\ plan.active \in BOOLEAN /\ job[h].active \in BOOLEAN
      BY <1>0 DEF RestTyped, Job
    <3> QED BY <1>11, <3>1 DEF SaveRenewal
  <2>2. credited' \in [Txns -> Nat]
    BY <1>0, <1>11 DEF SaveRenewal, RestTyped, Credit
  <2>3. lost' \in BOOLEAN
    BY <1>0, <1>11 DEF SaveRenewal, RestTyped, Job
  <2>4. RestTyped'
    BY <1>0, <1>11, <2>1, <2>2, <2>3 DEF SaveRenewal, RestTyped, notified
  <2> QED BY <1>11, <2>4, SaveRenewalMoves, MovedSavingTypes, WholeJobs
<1>12. ASSUME NEW h \in Handlers, SaveActivation(h) PROVE TypeInv'
  <2>1. history' \subseteq Key /\ excused' \subseteq Key
    BY <1>0, <1>12 DEF SaveActivation, RestTyped, Job
  <2>2. lost' \in BOOLEAN
    BY <1>0, <1>12 DEF SaveActivation, RestTyped, Job
  <2>3. RestTyped'
    BY <1>0, <1>12, <2>1, <2>2
    DEF SaveActivation, RestTyped, payments, Days, RenewalAssumption
  <2> QED BY <1>12, <2>3, SaveActivationMoves, MovedSavingTypes, WholeJobs
<1>13. ASSUME NEW h \in Handlers, Expire(h) PROVE TypeInv'
  <2>1. plan' \in [end : Days, active : BOOLEAN] /\ lost' \in BOOLEAN
    BY <1>0, <1>13 DEF Expire, RestTyped, Job
  <2>2. RestTyped'
    BY <1>0, <1>13, <2>1 DEF Expire, RestTyped, payments, notified
  <2> QED BY <1>13, <2>2, ExpireMoves, MovedSavingTypes, WholeJobs
<1>14. ASSUME NEW h \in Handlers, Announce(h) PROVE TypeInv'
  <2>1. RestTyped'
    BY <1>0, <1>14 DEF Announce, RestTyped, notified, payments
  <2> QED BY <1>14, <2>1, AnnounceMoves, MovedTypes, WholeJobs
<1>15. ASSUME NEW h \in Handlers, CheckHistory(h) PROVE TypeInv'
  <2>1. job[h].at = "emitting" /\ Put(h, [job[h] EXCEPT !.at = "sending"])
    BY <1>15 DEF CheckHistory
  <2>2. KeyOf(job[h]) \in Key
    BY <2>1, KeyType
  <2>3. RestTyped'
    BY <1>0, <1>15, <2>2 DEF CheckHistory, RestTyped, payments
  <2>4. Whole([job[h] EXCEPT !.at = "sending"])
    BY <1>0, <2>1 DEF JobsWhole, Whole, Job
  <2>5. Moved(h, [job[h] EXCEPT !.at = "sending"])
    BY <2>1, PlaceMoves
  <2> QED BY <2>3, <2>4, <2>5, MovedTypes
<1>16. ASSUME NEW h \in Handlers, SkipNotice(h) PROVE TypeInv'
  <2>1. RestTyped'
    BY <1>0, <1>16 DEF SkipNotice, RestTyped, payments, notified
  <2>2. Moved(h, Done(job[h]))
    BY <1>16, DoneMoves DEF SkipNotice
  <2>3. Whole(Done(job[h]))
    BY <1>0, <1>16, DoneType, WholeJobs DEF SkipNotice, JobsWhole, Whole
  <2> QED BY <2>1, <2>2, <2>3, MovedTypes
<1>17. ASSUME NEW h \in Handlers, Record(h) PROVE TypeInv'
  <2>1. KeyOf(job[h]) \in Key
    BY <1>17, KeyType DEF Record
  <2>2. RestTyped'
    BY <1>0, <1>17, <2>1 DEF Record, RestTyped, payments
  <2>3. Moved(h, Done(job[h]))
    BY <1>17, DoneMoves DEF Record
  <2>4. Whole(Done(job[h]))
    BY <1>0, <1>17, DoneType, WholeJobs DEF Record, JobsWhole, Whole
  <2> QED BY <2>2, <2>3, <2>4, MovedTypes
<1>18. ASSUME NEW h \in Handlers, NEW connected \in BOOLEAN, Send(h, connected) PROVE TypeInv'
  <2>1. job[h].at = "sending" /\ Put(h, [job[h] EXCEPT !.at = "recording"])
    BY <1>18 DEF Send
  <2>2. KeyOf(job[h]) \in Key
    BY <2>1, KeyType
  <2>3. RestTyped'
    BY <1>0, <1>18, <2>2 DEF Send, RestTyped, payments
  <2>4. Whole([job[h] EXCEPT !.at = "recording"])
    BY <1>0, <2>1 DEF JobsWhole, Whole, Job
  <2>5. Moved(h, [job[h] EXCEPT !.at = "recording"])
    BY <2>1, PlaceMoves
  <2> QED BY <2>3, <2>4, <2>5, MovedTypes
<1>19. ASSUME NEW h \in Handlers, Abort(h) PROVE TypeInv'
  <2>1. excused' \subseteq Key
    BY <1>0, <1>19, KeyType DEF Abort, RestTyped
  <2>2. job[h].txn \in Txns \cup {NoTxn}
    BY <1>0 DEF Job
  <2>3. RestTyped'
    BY <1>0, <1>19, <2>1, <2>2 DEF Abort, RestTyped
  <2> QED BY <1>19, <2>3, AbortMoves, MovedTypes, WholeJobs
<1>20. CASE UNCHANGED vars
  BY <1>0, <1>20, JobsKept, TypeInvParts DEF vars, RestTyped
<1> QED
  BY <1>1, <1>2, <1>3, <1>4, <1>5, <1>6, <1>7, <1>8, <1>9, <1>10, <1>11, <1>12, <1>13,
     <1>14, <1>15, <1>16, <1>17, <1>18, <1>19, <1>20
  DEF Next, Webhook, Operator, Renewing, Scanning, Notifying

\* The variables have their types.
THEOREM TypeCorrectness == Spec => []TypeOK
<1> SUFFICES ASSUME RenewalAssumption PROVE Spec => []TypeOK
  BY RenewalAssumption
<1>1. Init => TypeInv
  BY TypeInit
<1>2. TypeInv /\ [Next]_vars => TypeInv'
  BY TypeNext
<1>3. TypeInv => TypeOK
  BY DEF TypeInv
<1> QED BY <1>1, <1>2, <1>3, PTL DEF Spec

-------------------------------------------------------------------------------
(***************************************************************************)
(* The plan.  A copy that is fresh is the plan as it stands, and what a    *)
(* renewal is about to save is within the limit of one save more.          *)
(***************************************************************************)
Limit(day, n) == Later(End0, day) + Cycle * n

CopyGood(j) ==
  /\ j.at = "renewing" => j.end <= Limit(now, saves + 1)
  /\ j.at = "renewing" /\ j.fresh => j.active = plan.active /\ j.end >= plan.end + Cycle
  /\ j.at = "scanned" /\ j.fresh => j.active = plan.active /\ j.end = plan.end

PlanGood == plan.end <= Limit(now, saves) /\ ExpiredIsOver

PlanInv == PlanGood /\ \A h \in Handlers : CopyGood(job[h])

LEMMA LimitFacts ==
  ASSUME RenewalAssumption, NEW day \in Nat, NEW n \in Nat
  PROVE  /\ Limit(day, n) \in Nat /\ day <= Limit(day, n)
         /\ Limit(day, n + 1) = Limit(day, n) + Cycle
         /\ Limit(day, n) <= Limit(day + 1, n)
<1>1. Cycle \in Nat /\ End0 \in Nat /\ Cycle * n \in Nat /\ Cycle * (n + 1) = Cycle * n + Cycle
  BY DEF RenewalAssumption
<1> DEFINE c == Cycle * n
<1>2. Limit(day, n) = Later(End0, day) + c /\ Limit(day + 1, n) = Later(End0, day + 1) + c
      /\ Limit(day, n + 1) = Later(End0, day) + (c + Cycle) /\ c \in Nat
  BY <1>1 DEF Limit
<1> HIDE DEF c
<1> QED BY <1>1, <1>2 DEF Later

\* Steps that save no plan.
LEMMA QuietPlan ==
  ASSUME PlanInv, UNCHANGED <<now, plan, saves, lost>>,
         UNCHANGED job \/ \E h \in Handlers, j \in Job : Moved(h, j) /\ CopyGood(j)
  PROVE  PlanInv'
<1>1. PlanGood'
  BY DEF PlanInv, PlanGood, ExpiredIsOver, Limit
<1>2. ASSUME NEW g \in Handlers PROVE CopyGood(job[g])'
  <2>1. CopyGood(job'[g])
    BY DEF PlanInv, Moved
  <2> QED BY <2>1 DEF CopyGood, Limit
<1> QED BY <1>1, <1>2 DEF PlanInv

LEMMA PlainCopies ==
  /\ CopyGood(NoJob)
  /\ \A place \in {"gotTxn", "syncing", "paid"} : \A t, status, next :
       CopyGood(OfTxn(place, t, status, next))
  /\ \A t, end, active, keys : CopyGood(OfPlan("activating", t, end, active, keys))
  /\ \A end, notices, again : CopyGood(OfNotices(end, notices, again))
BY DEF CopyGood, OfTxn, OfPlan, OfNotices, NoJob

\* Steps that save the plan.
LEMMA SavingPlan ==
  ASSUME RenewalAssumption, TypeInv, PlanInv, PlanGood', NEW h \in Handlers, NEW j \in Job,
         MovedSaving(h, j), j.at = "emitting", UNCHANGED now,
         saves' = saves \/ saves' = saves + 1
  PROVE  PlanInv'
<1>1. ASSUME NEW g \in Handlers PROVE CopyGood(job[g])'
  <2>1. CASE g = h
    BY <2>1 DEF MovedSaving, CopyGood
  <2>2. CASE g # h
    <3>1. /\ job'[g].at = job[g].at /\ job'[g].end = job[g].end
          /\ job[g].at \in Holding => ~job'[g].fresh
      BY <2>2 DEF MovedSaving
    <3>2. saves \in Nat /\ now \in Nat /\ job[g].end \in Nat /\ Cycle \in Nat
      BY DEF TypeInv, TypeOK, Days, Job, RenewalAssumption
    <3>3. Limit(now, saves + 1) <= Limit(now, saves + 2) /\ Limit(now, saves + 2) \in Nat
          /\ Limit(now, saves + 1) \in Nat
      <4>1. saves + 1 \in Nat /\ (saves + 1) + 1 = saves + 2
        BY <3>2
      <4>2. Limit(now, (saves + 1) + 1) = Limit(now, saves + 1) + Cycle
            /\ Limit(now, saves + 1) \in Nat
        BY <3>2, <4>1, LimitFacts
      <4> QED BY <3>2, <4>1, <4>2
    <3>4. job[g].at = "renewing" => job[g].end <= Limit(now, saves + 1)
      BY DEF PlanInv, CopyGood
    <3>5. Limit(now, saves + 1)' \in {Limit(now, saves + 1), Limit(now, saves + 2)}
      <4>1. CASE saves' = saves
        BY <4>1 DEF Limit
      <4>2. CASE saves' = saves + 1
        <5>1. saves' + 1 = saves + 2
          BY <3>2, <4>2
        <5> QED BY <5>1 DEF Limit
      <4> QED BY <4>1, <4>2
    <3>6. job[g].at = "renewing" => job[g].end <= Limit(now, saves + 1)'
      <4> HIDE DEF Limit
      <4> QED BY <3>2, <3>3, <3>4, <3>5
    <3> QED BY <3>1, <3>6 DEF CopyGood, Holding
  <2> QED BY <2>1, <2>2
<1> QED BY <1>1 DEF PlanInv

LEMMA PlanInit == ASSUME RenewalAssumption, Init PROVE PlanInv
<1>1. plan.end <= Limit(now, saves)
  <2>1. plan.end = End0 /\ now = 0 /\ saves = 0 /\ End0 \in Nat /\ Cycle \in Nat
    BY DEF Init, RenewalAssumption
  <2>2. Limit(now, saves) = Later(End0, now)
    BY <2>1 DEF Limit, Later
  <2> QED BY <2>1, <2>2 DEF Later
<1>2. ExpiredIsOver
  BY DEF Init, ExpiredIsOver
<1>3. \A h \in Handlers : CopyGood(job[h])
  BY PlainCopies DEF Init
<1> QED BY <1>1, <1>2, <1>3 DEF PlanInv, PlanGood

\* A renewal reads a plan within the limit.
LEMMA ReadIsGood ==
  ASSUME RenewalAssumption, TypeInv, PlanInv, NEW t
  PROVE  CopyGood(OfPlan("renewing", t, Later(plan.end, now) + Cycle, plan.active, {}))
<1>1. saves \in Nat /\ now \in Nat /\ plan.end \in Nat /\ Cycle \in Nat
  BY DEF TypeInv, TypeOK, Days, RenewalAssumption
<1>2. plan.end <= Limit(now, saves) /\ now <= Limit(now, saves) /\ Limit(now, saves) \in Nat
      /\ Limit(now, saves + 1) = Limit(now, saves) + Cycle
  BY <1>1, LimitFacts DEF PlanInv, PlanGood
<1>3. /\ Later(plan.end, now) + Cycle <= Limit(now, saves + 1)
      /\ Later(plan.end, now) + Cycle >= plan.end + Cycle
  <2> HIDE DEF Limit
  <2> QED BY <1>1, <1>2 DEF Later
<1> QED BY <1>3 DEF CopyGood, OfPlan

LEMMA RenewalGood ==
  ASSUME RenewalAssumption, TypeInv, PlanInv, NEW h \in Handlers, SaveRenewal(h)
  PROVE  PlanGood'
<1>1. saves \in Nat /\ now \in Nat /\ job[h].at = "renewing" /\ job[h].active \in BOOLEAN
      /\ plan.active \in BOOLEAN /\ CopyGood(job[h])
  BY DEF TypeInv, TypeOK, Days, SaveRenewal, PlanInv, Job
<1>2. /\ plan' = [end |-> job[h].end, active |-> plan.active \/ ~job[h].active]
      /\ now' = now /\ saves' = saves + 1 /\ lost' = (lost \/ ~job[h].fresh)
  BY DEF SaveRenewal
<1>3. plan'.end <= Limit(now, saves + 1)
  BY <1>1, <1>2 DEF CopyGood
<1>4. Limit(now, saves)' = Limit(now, saves + 1)
  BY <1>2 DEF Limit
<1>5. ~lost' => plan'.active
  BY <1>1, <1>2 DEF CopyGood
<1> QED BY <1>2, <1>3, <1>4, <1>5 DEF PlanGood, ExpiredIsOver

LEMMA ActivationGood ==
  ASSUME RenewalAssumption, TypeInv, NEW h \in Handlers, SaveActivation(h)
  PROVE  PlanGood'
<1>1. saves \in Nat /\ now \in Nat /\ Cycle \in Nat
  BY DEF TypeInv, TypeOK, Days, RenewalAssumption
<1>2. plan' = [end |-> now + Cycle, active |-> TRUE] /\ now' = now /\ saves' = saves + 1
  BY DEF SaveActivation
<1>3. /\ now <= Limit(now, saves) /\ Limit(now, saves) \in Nat
      /\ Limit(now, saves + 1) = Limit(now, saves) + Cycle
  BY <1>1, LimitFacts
<1>4. Limit(now, saves)' = Limit(now, saves + 1)
  BY <1>2 DEF Limit
<1> QED BY <1>1, <1>2, <1>3, <1>4 DEF PlanGood, ExpiredIsOver

LEMMA ExpiryGood ==
  ASSUME TypeInv, PlanInv, NEW h \in Handlers, Expire(h)
  PROVE  PlanGood'
<1>1. job[h].at = "scanned" /\ job[h].end <= now /\ CopyGood(job[h])
      /\ plan \in [end : Days, active : BOOLEAN]
  BY DEF TypeInv, TypeOK, Expire, PlanInv
<1>2. /\ plan'.end = plan.end /\ now' = now /\ saves' = saves
      /\ lost' = (lost \/ ~job[h].fresh)
  BY <1>1 DEF Expire
<1>3. Limit(now, saves)' = Limit(now, saves)
  BY <1>2 DEF Limit
<1>4. ~lost' => plan.end <= now
  BY <1>1, <1>2 DEF CopyGood
<1> QED BY <1>2, <1>3, <1>4 DEF PlanGood, ExpiredIsOver, PlanInv

LEMMA TickGood ==
  ASSUME RenewalAssumption, TypeInv, PlanInv, Tick
  PROVE  PlanInv'
<1>1. saves \in Nat /\ now \in Nat /\ saves + 1 \in Nat /\ plan.end \in Nat
  BY DEF TypeInv, TypeOK, Days
<1>2. now' = now + 1 /\ UNCHANGED <<plan, saves, lost, job>>
  BY DEF Tick
<1>3. ASSUME NEW n \in {saves, saves + 1}
      PROVE  Limit(now, n) \in Nat /\ Limit(now + 1, n) \in Nat /\ Limit(now, n) <= Limit(now + 1, n)
  <2>1. n \in Nat /\ now + 1 \in Nat
    BY <1>1
  <2> QED BY <1>1, <2>1, LimitFacts
<1>4. /\ Limit(now, saves)' = Limit(now + 1, saves)
      /\ Limit(now, saves + 1)' = Limit(now + 1, saves + 1)
  BY <1>2 DEF Limit
<1>5. PlanGood'
  BY <1>1, <1>2, <1>3, <1>4 DEF PlanInv, PlanGood, ExpiredIsOver
<1>6. ASSUME NEW g \in Handlers PROVE CopyGood(job[g])'
  <2>1. CopyGood(job[g]) /\ job[g].end \in Nat
    BY DEF PlanInv, TypeInv, TypeOK, Job, Days
  <2>2. job[g].end <= Limit(now, saves + 1) => job[g].end <= Limit(now, saves + 1)'
    BY <1>3, <1>4, <2>1
  <2> QED BY <1>2, <2>1, <2>2 DEF CopyGood
<1> QED BY <1>5, <1>6 DEF PlanInv

LEMMA PlanNext ==
  ASSUME RenewalAssumption, TypeInv, PlanInv, [Next]_vars
  PROVE  PlanInv'
<1>1. CASE Tick
  BY <1>1, TickGood
<1>2. ASSUME NEW t \in Txns, CreateOrder(t) \/ Capture(t) PROVE PlanInv'
  BY <1>2, QuietPlan DEF CreateOrder, Capture
<1>3. ASSUME NEW h \in Handlers, SaveTxn(h) PROVE PlanInv'
  <2> DEFINE j == IF job[h].at = "gotTxn" /\ job[h].to = "SUCCESS"
                  THEN OfTxn("paid", job[h].txn, "none", "none") ELSE NoJob
  <2>1. Moved(h, j)
    BY <1>3, SaveTxnMoves
  <2>2. CopyGood(j)
    BY PlainCopies
  <2> HIDE DEF j
  <2> QED BY <1>3, <2>1, <2>2, QuietPlan DEF SaveTxn, Moved
<1>4. ASSUME NEW h \in Handlers, NEW t \in Txns, NEW ok \in BOOLEAN, Deliver(h, t, ok)
      PROVE  PlanInv'
  BY <1>4, DeliverMoves, PlainCopies, QuietPlan DEF Deliver, Moved
<1>5. ASSUME NEW h \in Handlers, ReadToActivate(h) PROVE PlanInv'
  BY <1>5, ReadToActivateMoves, PlainCopies, QuietPlan DEF ReadToActivate, Moved
<1>6. ASSUME NEW h \in Handlers, ReadToScan(h) PROVE PlanInv'
  <2>1. CopyGood(OfPlan("scanned", NoTxn, plan.end, plan.active, {}))
    BY DEF CopyGood, OfPlan
  <2> QED BY <1>6, <2>1, ReadToScanMoves, QuietPlan DEF ReadToScan, Moved
<1>7. ASSUME NEW h \in Handlers, NEW n \in Retriggers, Retrigger(h, n) PROVE PlanInv'
  BY <1>7, RetriggerMoves, PlainCopies, QuietPlan DEF Retrigger, Moved
<1>8. ASSUME NEW h \in Handlers, NEW t \in Txns, NEW forced \in Forced \cup {"none"},
             Sync(h, t, forced)
      PROVE  PlanInv'
  BY <1>8, SyncMoves, PlainCopies, QuietPlan DEF Sync, Moved
<1>9. ASSUME NEW h \in Handlers, ReadToRenew(h) PROVE PlanInv'
  <2> DEFINE j == OfPlan("renewing", job[h].txn, Later(plan.end, now) + Cycle, plan.active, {})
  <2>1. Moved(h, j)
    BY <1>9, ReadToRenewMoves
  <2>2. CopyGood(j)
    BY ReadIsGood
  <2> HIDE DEF j
  <2> QED BY <1>9, <2>1, <2>2, QuietPlan DEF ReadToRenew, Moved
<1>10. ASSUME NEW h \in Handlers, SaveRenewal(h) PROVE PlanInv'
  <2> DEFINE j == OfNotices(job[h].end, <<"PLAN_RENEWED", "PAYMENT_RECEIVED">>, FALSE)
  <2>1. MovedSaving(h, j) /\ PlanGood'
    BY <1>10, SaveRenewalMoves, RenewalGood
  <2>2. j.at = "emitting" /\ j \in Job
    BY <2>1 DEF OfNotices, MovedSaving
  <2> HIDE DEF j
  <2> QED BY <1>10, <2>1, <2>2, SavingPlan DEF SaveRenewal
<1>11. ASSUME NEW h \in Handlers, SaveActivation(h) PROVE PlanInv'
  <2> DEFINE j == OfNotices(now + Cycle, <<"PLAN_ACTIVATED">>, FALSE)
  <2>1. MovedSaving(h, j) /\ PlanGood'
    BY <1>11, SaveActivationMoves, ActivationGood
  <2>2. j.at = "emitting" /\ j \in Job
    BY <2>1 DEF OfNotices, MovedSaving
  <2> HIDE DEF j
  <2> QED BY <1>11, <2>1, <2>2, SavingPlan DEF SaveActivation
<1>12. ASSUME NEW h \in Handlers, Expire(h) PROVE PlanInv'
  <2> DEFINE j == OfNotices(job[h].end, <<"PLAN_EXPIRED">>, FALSE)
  <2>1. MovedSaving(h, j) /\ PlanGood'
    BY <1>12, ExpireMoves, ExpiryGood
  <2>2. j.at = "emitting" /\ j \in Job
    BY <2>1 DEF OfNotices, MovedSaving
  <2> HIDE DEF j
  <2> QED BY <1>12, <2>1, <2>2, SavingPlan DEF Expire
<1>13. ASSUME NEW h \in Handlers, Announce(h) PROVE PlanInv'
  BY <1>13, AnnounceMoves, PlainCopies, QuietPlan DEF Announce, Moved
<1>14. ASSUME NEW h \in Handlers, NEW place \in {"sending", "recording"},
              Put(h, [job[h] EXCEPT !.at = place]), UNCHANGED <<now, plan, saves, lost>>
       PROVE  PlanInv'
  <2> DEFINE j == [job[h] EXCEPT !.at = place]
  <2>1. Moved(h, j)
    BY <1>14, PlaceMoves
  <2>2. CopyGood(j)
    <3>1. job[h] \in Job
      BY DEF TypeInv, TypeOK
    <3>2. j.at = place
      BY <3>1 DEF Job
    <3> QED BY <3>2 DEF CopyGood
  <2> HIDE DEF j
  <2> QED BY <1>14, <2>1, <2>2, QuietPlan DEF Moved
<1>15. ASSUME NEW h \in Handlers, CheckHistory(h) \/ \E connected \in BOOLEAN : Send(h, connected)
       PROVE  PlanInv'
  BY <1>14, <1>15 DEF CheckHistory, Send
<1>16. ASSUME NEW h \in Handlers, SkipNotice(h) \/ Record(h) PROVE PlanInv'
  <2>1. Moved(h, Done(job[h])) /\ job[h] \in Job /\ job[h].todo # <<>>
    BY <1>16, DoneMoves DEF SkipNotice, Record, TypeInv, TypeOK, JobsWhole, Whole
  <2>2. CopyGood(Done(job[h])) /\ Done(job[h]) \in Job
    BY <2>1, DoneType, PlainCopies
  <2> QED BY <1>16, <2>1, <2>2, QuietPlan DEF SkipNotice, Record
<1>17. ASSUME NEW h \in Handlers, Abort(h) PROVE PlanInv'
  BY <1>17, AbortMoves, PlainCopies, NoJobType, QuietPlan DEF Abort
<1>18. CASE UNCHANGED vars
  BY <1>18, QuietPlan DEF vars
<1> QED
  BY <1>1, <1>2, <1>3, <1>4, <1>5, <1>6, <1>7, <1>8, <1>9, <1>10, <1>11, <1>12, <1>13,
     <1>15, <1>16, <1>17, <1>18
  DEF Next, Webhook, Operator, Renewing, Scanning, Notifying

\* The plan and every copy of it stay within what was paid for, and copies nobody has
\* overtaken stay true (renewCustomerPlan, activateCustomerPlan,
\* runAutomatedExpiryScanner).
THEOREM PlanInvariance == Spec => [](TypeInv /\ PlanInv)
<1>1. Init => TypeInv /\ PlanInv
  BY RenewalAssumption, TypeInit, PlanInit
<1>2. TypeInv /\ PlanInv /\ [Next]_vars => (TypeInv /\ PlanInv)'
  BY RenewalAssumption, TypeNext, PlanNext
<1> QED BY <1>1, <1>2, PTL DEF Spec

\* Renewals, activations and scans give no day away (customerPlanService.ts).
THEOREM NoFreeDays == Spec => []DaysArePaidFor
<1>1. TypeInv /\ PlanInv => DaysArePaidFor
  BY DEF PlanInv, PlanGood, DaysArePaidFor, Limit
<1> QED BY <1>1, PlanInvariance, PTL

\* Without a save from an outdated copy, an expired plan is over.
THEOREM OnlyOverExpires == Spec => []ExpiredIsOver
<1>1. TypeInv /\ PlanInv => ExpiredIsOver
  BY DEF PlanInv, PlanGood
<1> QED BY <1>1, PlanInvariance, PTL

\* Without a save from an outdated copy, a credited payment adds a whole cycle.
THEOREM CreditAddsACycle == Spec => CreditAddsCycle
<1>1. ASSUME TypeInv, PlanInv, [Next]_vars, NEW t \in Txns, credited'[t] > credited[t], ~lost'
      PROVE  plan'.end >= plan.end + Cycle
  <2>1. credited \in [Txns -> Nat]
    BY <1>1 DEF TypeInv, TypeOK
  <2>2. credited' # credited
    BY <1>1, <2>1
  <2>3. PICK h \in Handlers : SaveRenewal(h)
    <3>1. \E h \in Handlers : SaveRenewal(h)
      BY <1>1, <2>2
      DEF Next, Webhook, Operator, Renewing, Scanning, Notifying, Tick, CreateOrder, Capture,
          SaveTxn, Deliver, ReadToActivate, ReadToScan, Retrigger, Sync, ReadToRenew,
          SaveActivation, Expire, Announce, CheckHistory, SkipNotice, Record, Send, Abort,
          vars, payments
    <3> QED BY <3>1
  <2>4. CopyGood(job[h]) /\ job[h].at = "renewing" /\ job[h].fresh \in BOOLEAN
    BY <1>1, <2>3 DEF PlanInv, SaveRenewal, TypeInv, TypeOK, Job
  <2>5. plan'.end = job[h].end /\ lost' = (lost \/ ~job[h].fresh)
    BY <2>3 DEF SaveRenewal
  <2> QED BY <1>1, <2>4, <2>5 DEF CopyGood
<1>2. TypeInv /\ PlanInv /\ [Next]_vars
      => [\A t \in Txns : credited'[t] > credited[t] /\ ~lost' => plan'.end >= plan.end + Cycle]_vars
  BY <1>1
<1> QED BY <1>2, PlanInvariance, PTL DEF Spec, CreditAddsCycle

-------------------------------------------------------------------------------
(***************************************************************************)
(* Payments.  Between the two saves of a webhook its transaction is        *)
(* captured and closed, has not been credited, and no other handler is     *)
(* about to credit it - unless it is contested.                            *)
(***************************************************************************)
Serves(j, t) == j.txn = t /\ j.at \in {"paid", "renewing"}

PayJob(j) ==
  /\ j.txn \in Txns => j.at \in {"gotTxn", "syncing", "paid", "renewing"}
  /\ j.at = "gotTxn" => /\ j.read \notin Closed /\ j.to \in {"SUCCESS", "FAILED"}
                        /\ j.to = "SUCCESS" => j.txn \in captured
  /\ \A t \in Txns : Serves(j, t) => t \in captured

\* The transaction t as long as nobody contests it.
ServedOnce(t) ==
  /\ credited[t] > 0 => txn[t] \in Closed
  /\ \A h \in Handlers : Serves(job[h], t) =>
       /\ credited[t] = 0 /\ txn[t] \in Closed
       /\ \A g \in Handlers : Serves(job[g], t) => g = h

PayInv ==
  /\ \A h \in Handlers : PayJob(job[h])
  /\ \A t \in Txns : t \notin contested => ServedOnce(t)
  /\ ClosedIsServed

LEMMA PlainPay ==
  /\ PayJob(NoJob) /\ \A t \in Txns : ~Serves(NoJob, t)
  /\ \A place \in {"activating", "scanned"} : \A end, active, keys :
       /\ PayJob(OfPlan(place, NoTxn, end, active, keys))
       /\ \A t \in Txns : ~Serves(OfPlan(place, NoTxn, end, active, keys), t)
  /\ \A end, notices, again :
       /\ PayJob(OfNotices(end, notices, again))
       /\ \A t \in Txns : ~Serves(OfNotices(end, notices, again), t)
<1>1. NoTxn \notin Txns
  BY RenewalAssumption DEF RenewalAssumption
<1> QED BY <1>1 DEF PayJob, Serves, OfPlan, OfNotices, NoJob, OfTxn

\* Steps that leave the transactions alone, and who serves them.
LEMMA QuietPay ==
  ASSUME PayInv, UNCHANGED <<txn, credited, contested, dropped>>, captured \subseteq captured',
         \A g \in Handlers : /\ PayJob(job[g]) => PayJob(job'[g])
                             /\ \A t \in Txns : Serves(job'[g], t) <=> Serves(job[g], t)
  PROVE  PayInv'
<1>1. ASSUME NEW g \in Handlers PROVE PayJob(job[g])'
  <2>1. PayJob(job'[g])
    BY DEF PayInv
  <2> QED BY <2>1 DEF PayJob, Serves
<1>2. ASSUME NEW t \in Txns, t \notin contested' PROVE ServedOnce(t)'
  <2>1. ServedOnce(t)
    BY <1>2 DEF PayInv
  <2>2. \A g \in Handlers : Serves(job[g], t)' <=> Serves(job[g], t)
    BY DEF Serves
  <2> QED BY <2>1, <2>2 DEF ServedOnce
<1>3. ClosedIsServed'
  <2>1. ASSUME NEW t \in Txns, txn'[t] \in Closed, ~(credited'[t] > 0), t \notin dropped'
        PROVE  \E h \in Handlers : job'[h].txn = t /\ job'[h].at \in {"paid", "renewing"}
    <3>1. PICK h \in Handlers : job[h].txn = t /\ job[h].at \in {"paid", "renewing"}
      BY <2>1 DEF PayInv, ClosedIsServed
    <3>2. Serves(job'[h], t)
      BY <3>1 DEF Serves
    <3> QED BY <3>2 DEF Serves
  <2> QED BY <2>1 DEF ClosedIsServed
<1> QED BY <1>1, <1>2, <1>3 DEF PayInv

LEMMA QuietMove ==
  ASSUME TypeInv, PayInv, UNCHANGED <<txn, credited, contested, dropped>>,
         captured' = captured, NEW h \in Handlers, NEW j,
         Moved(h, j) \/ MovedSaving(h, j), PayJob(j),
         \A t \in Txns : Serves(j, t) <=> Serves(job[h], t)
  PROVE  PayInv'
<1>1. ASSUME NEW g \in Handlers, g # h
      PROVE  /\ PayJob(job[g]) => PayJob(job'[g])
             /\ \A t \in Txns : Serves(job'[g], t) <=> Serves(job[g], t)
  BY <1>1 DEF Moved, MovedSaving, PayJob, Serves
<1>2. job'[h] = j
  BY DEF Moved, MovedSaving
<1> QED BY <1>1, <1>2, QuietPay

LEMMA PayInit == ASSUME Init PROVE PayInv
<1>1. \A h \in Handlers : PayJob(job[h]) /\ \A t \in Txns : ~Serves(job[h], t)
  BY PlainPay DEF Init
<1>2. \A t \in Txns : txn[t] \notin Closed /\ credited[t] = 0
  BY DEF Init, Closed
<1> QED BY <1>1, <1>2 DEF PayInv, ServedOnce, ClosedIsServed

LEMMA CreateKeepsPay ==
  ASSUME TypeInv, PayInv, NEW t \in Txns, CreateOrder(t)
  PROVE  PayInv'
<1>1. /\ txn \in [Txns -> TxnStatuses] /\ txn[t] = "none"
      /\ txn' = [txn EXCEPT ![t] = "INITIATED"]
      /\ UNCHANGED <<job, captured, credited, contested, dropped>>
  BY DEF CreateOrder, TypeInv, TypeOK
<1>2. \A u \in Txns : txn'[u] \in Closed <=> txn[u] \in Closed
  BY <1>1 DEF Closed
<1>3. \A h \in Handlers : PayJob(job[h])'
  BY <1>1 DEF PayInv, PayJob, Serves
<1>4. \A u \in Txns : u \notin contested' => ServedOnce(u)'
  BY <1>1, <1>2 DEF PayInv, ServedOnce, Serves
<1>5. ClosedIsServed'
  BY <1>1, <1>2 DEF PayInv, ClosedIsServed
<1> QED BY <1>3, <1>4, <1>5 DEF PayInv

\* The transaction is saved: the one step that closes or reopens it.
LEMMA SaveTxnKeepsPay ==
  ASSUME TypeInv, PayInv, NEW h \in Handlers, SaveTxn(h)
  PROVE  PayInv'
<1> DEFINE t == job[h].txn
           j == IF job[h].at = "gotTxn" /\ job[h].to = "SUCCESS"
                THEN OfTxn("paid", t, "none", "none") ELSE NoJob
<1>1. /\ job[h].at \in {"gotTxn", "syncing"} /\ t \in Txns /\ PayJob(job[h])
      /\ txn \in [Txns -> TxnStatuses] /\ credited \in [Txns -> Nat]
  BY DEF SaveTxn, TypeInv, TypeOK, JobsWhole, Whole, PayInv
<1>2. /\ txn'[t] = Saved(h) /\ \A u \in Txns : u # t => txn'[u] = txn[u]
      /\ UNCHANGED <<captured, credited>>
  BY <1>1 DEF SaveTxn
<1>3. /\ contested \subseteq contested' /\ dropped \subseteq dropped'
      /\ Contests(h) => t \in contested'
      /\ job[h].at = "syncing" /\ Saved(h) \in Closed => t \in dropped'
  BY DEF SaveTxn
<1>4. job'[h] = j /\ \A g \in Handlers : g # h => job'[g] = job[g]
  BY SaveTxnMoves DEF Moved
<1>5. \A u \in Txns : ~Serves(job[h], u)
  BY <1>1 DEF Serves
<1>6. /\ \A u \in Txns : u # t => ~Serves(j, u)
      /\ Serves(j, t) => job[h].at = "gotTxn" /\ job[h].to = "SUCCESS"
      /\ job[h].at = "gotTxn" /\ job[h].to = "SUCCESS" => Serves(j, t)
  <2>1. CASE job[h].at = "gotTxn" /\ job[h].to = "SUCCESS"
    <3>1. j.txn = t /\ j.at = "paid"
      BY <2>1 DEF OfTxn
    <3> HIDE DEF j
    <3> QED BY <2>1, <3>1 DEF Serves
  <2>2. CASE ~(job[h].at = "gotTxn" /\ job[h].to = "SUCCESS")
    <3>1. j = NoJob
      BY <2>2
    <3> HIDE DEF j
    <3> QED BY <1>1, <2>2, <3>1, PlainPay
  <2> QED BY <2>1, <2>2
<1>7. \A g \in Handlers : PayJob(job[g])'
  <2>1. PayJob(j)
    <3>1. CASE job[h].at = "gotTxn" /\ job[h].to = "SUCCESS"
      BY <1>1, <3>1 DEF PayJob, Serves, OfTxn
    <3>2. CASE ~(job[h].at = "gotTxn" /\ job[h].to = "SUCCESS")
      BY <3>2, PlainPay
    <3> QED BY <3>1, <3>2
  <2> HIDE DEF j
  <2> QED BY <1>2, <1>4, <2>1 DEF PayInv, PayJob, Serves
<1>8. job[h].at = "gotTxn" => /\ job[h].read \notin Closed /\ job[h].to \in {"SUCCESS", "FAILED"}
                              /\ job[h].to = "SUCCESS" => Saved(h) = "SUCCESS"
                              /\ job[h].to = "FAILED" /\ Saved(h) \in Closed => Saved(h) = txn[t]
  BY <1>1 DEF PayJob, Saved, Closed
<1>9. ASSUME NEW u \in Txns, u \notin contested' PROVE ServedOnce(u)'
  <2>1. ServedOnce(u)
    BY <1>3, <1>9 DEF PayInv
  <2> HIDE DEF j
  <2>2. CASE u # t
    <3>1. \A g \in Handlers : Serves(job[g], u)' <=> Serves(job[g], u)
      BY <1>4, <1>5, <1>6, <2>2 DEF Serves
    <3> QED BY <1>2, <2>1, <2>2, <3>1 DEF ServedOnce
  <2>3. CASE u = t /\ txn[t] \in Closed
    <3>1. ~Contests(h)
      BY <1>3, <1>9, <2>3
    <3>2. Saved(h) \in Closed /\ job[h].at # "gotTxn"
      BY <1>8, <2>3, <3>1 DEF Contests
    <3>3. \A g \in Handlers : Serves(job[g], u)' <=> Serves(job[g], u)
      BY <1>4, <1>5, <1>6, <2>3, <3>2 DEF Serves
    <3> QED BY <1>2, <2>1, <2>3, <3>2, <3>3 DEF ServedOnce
  <2>4. CASE u = t /\ txn[t] \notin Closed
    <3>1. credited[t] = 0 /\ \A g \in Handlers : ~Serves(job[g], t)
      BY <1>1, <2>1, <2>4 DEF ServedOnce
    <3>2. ASSUME NEW g \in Handlers, Serves(job'[g], u)
          PROVE  g = h /\ Saved(h) \in Closed
      <4>1. g = h
        BY <1>4, <2>4, <3>1, <3>2
      <4>2. Saved(h) = "SUCCESS"
        BY <1>4, <1>6, <1>8, <2>4, <3>2, <4>1
      <4> QED BY <4>1, <4>2 DEF Closed
    <3>3. credited'[u] = 0 /\ txn'[u] = Saved(h)
      BY <1>2, <2>4, <3>1
    <3>4. \A g \in Handlers : Serves(job[g], u)' => g = h /\ Saved(h) \in Closed
      BY <3>2 DEF Serves
    <3> QED BY <3>3, <3>4 DEF ServedOnce
  <2> QED BY <2>2, <2>3, <2>4
<1>10. ClosedIsServed'
  <2> HIDE DEF j
  <2>1. ASSUME NEW u \in Txns, txn'[u] \in Closed, ~(credited'[u] > 0), u \notin dropped',
               txn[u] \in Closed
        PROVE  \E g \in Handlers : Serves(job'[g], u)
    <3>1. PICK g \in Handlers : Serves(job[g], u)
      BY <1>2, <1>3, <2>1 DEF PayInv, ClosedIsServed, Serves
    <3>2. g # h
      BY <1>5, <3>1
    <3> QED BY <1>4, <3>1, <3>2
  <2>2. ASSUME txn'[t] \in Closed, t \notin dropped', txn[t] \notin Closed
        PROVE  Serves(job'[h], t)
    BY <1>1, <1>2, <1>3, <1>4, <1>6, <1>8, <2>2
  <2>3. ASSUME NEW u \in Txns, txn'[u] \in Closed, ~(credited'[u] > 0), u \notin dropped'
        PROVE  \E g \in Handlers : Serves(job'[g], u)
    BY <1>2, <2>1, <2>2, <2>3
  <2> QED BY <2>3 DEF ClosedIsServed, Serves
<1> QED BY <1>7, <1>9, <1>10 DEF PayInv

\* A renewal credits the transaction it serves, and serves it no longer.
LEMMA RenewalKeepsPay ==
  ASSUME TypeInv, PayInv, NEW h \in Handlers, SaveRenewal(h)
  PROVE  PayInv'
<1> DEFINE t == job[h].txn
           j == OfNotices(job[h].end, <<"PLAN_RENEWED", "PAYMENT_RECEIVED">>, FALSE)
<1>1. /\ job[h].at = "renewing" /\ credited \in [Txns -> Nat]
      /\ UNCHANGED <<txn, captured, contested, dropped>> /\ credited' = Credit(t)
  BY DEF SaveRenewal, TypeInv, TypeOK
<1>2. /\ \A u \in Txns : u # t => credited'[u] = credited[u]
      /\ t \in Txns => credited'[t] = credited[t] + 1
      /\ credited' \in [Txns -> Nat]
  BY <1>1 DEF Credit
<1>3. MovedSaving(h, j)
  BY SaveRenewalMoves
<1>4. PayJob(j) /\ \A u \in Txns : ~Serves(j, u)
  BY PlainPay
<1> HIDE DEF j
<1>5. /\ job'[h] = j
      /\ \A g \in Handlers : g # h => /\ PayJob(job[g]) => PayJob(job'[g])
                                      /\ \A u \in Txns : Serves(job'[g], u) <=> Serves(job[g], u)
  BY <1>3 DEF MovedSaving, PayJob, Serves
<1>6. \A g \in Handlers : PayJob(job[g])'
  <2>1. \A g \in Handlers : PayJob(job'[g])
    BY <1>4, <1>5 DEF PayInv
  <2> QED BY <1>1, <2>1 DEF PayJob, Serves
<1>7. t \in Txns => Serves(job[h], t)
  BY <1>1 DEF Serves
<1>8. ASSUME NEW u \in Txns, u \notin contested' PROVE ServedOnce(u)'
  <2>1. ServedOnce(u)
    BY <1>1, <1>8 DEF PayInv
  <2>2. \A g \in Handlers : Serves(job[g], u)' => g # h /\ Serves(job[g], u)
    BY <1>4, <1>5 DEF Serves
  <2>3. CASE u # t
    <3>1. credited'[u] = credited[u] /\ txn'[u] = txn[u]
      BY <1>1, <1>2, <2>3
    <3> QED BY <2>1, <2>2, <3>1 DEF ServedOnce
  <2>4. CASE u = t
    <3>1. txn'[u] \in Closed
      BY <1>1, <1>7, <2>1, <2>4 DEF ServedOnce
    <3>2. \A g \in Handlers : ~Serves(job[g], u)'
      BY <1>7, <2>1, <2>2, <2>4 DEF ServedOnce
    <3> QED BY <3>1, <3>2 DEF ServedOnce
  <2> QED BY <2>3, <2>4
<1>9. ClosedIsServed'
  <2>1. ASSUME NEW u \in Txns, txn'[u] \in Closed, ~(credited'[u] > 0), u \notin dropped'
        PROVE  \E g \in Handlers : Serves(job'[g], u)
    <3>1. u # t
      BY <1>1, <1>2, <2>1
    <3>2. PICK g \in Handlers : Serves(job[g], u)
      BY <1>1, <1>2, <2>1, <3>1 DEF PayInv, ClosedIsServed, Serves
    <3>3. g # h
      BY <3>1, <3>2 DEF Serves
    <3> QED BY <1>5, <3>2, <3>3
  <2> QED BY <2>1 DEF ClosedIsServed, Serves
<1> QED BY <1>6, <1>8, <1>9 DEF PayInv

\* What a failure leaves unserved is on record as dropped.
LEMMA AbortKeepsPay ==
  ASSUME TypeInv, PayInv, NEW h \in Handlers, Abort(h)
  PROVE  PayInv'
<1>1. /\ UNCHANGED <<txn, captured, credited, contested>> /\ dropped \subseteq dropped'
      /\ \A t \in Txns : Serves(job[h], t) => t \in dropped'
  <2>1. NoTxn \notin Txns
    BY RenewalAssumption DEF RenewalAssumption
  <2> QED BY <2>1 DEF Abort, Serves
<1>2. job'[h] = NoJob /\ \A g \in Handlers : g # h => job'[g] = job[g]
  BY AbortMoves DEF Moved
<1>3. \A g \in Handlers : PayJob(job[g])'
  <2>1. \A g \in Handlers : PayJob(job'[g])
    BY <1>2, PlainPay DEF PayInv
  <2> QED BY <1>1, <2>1 DEF PayJob, Serves
<1>4. ASSUME NEW u \in Txns, u \notin contested' PROVE ServedOnce(u)'
  <2>1. ServedOnce(u)
    BY <1>1, <1>4 DEF PayInv
  <2>2. \A g \in Handlers : Serves(job[g], u)' => Serves(job[g], u)
    BY <1>2, PlainPay DEF Serves
  <2> QED BY <1>1, <2>1, <2>2 DEF ServedOnce
<1>5. ClosedIsServed'
  <2>1. ASSUME NEW u \in Txns, txn'[u] \in Closed, ~(credited'[u] > 0), u \notin dropped'
        PROVE  \E g \in Handlers : Serves(job'[g], u)
    <3>1. PICK g \in Handlers : Serves(job[g], u)
      BY <1>1, <2>1 DEF PayInv, ClosedIsServed, Serves
    <3>2. g # h
      BY <1>1, <2>1, <3>1
    <3> QED BY <1>2, <3>1, <3>2
  <2> QED BY <2>1 DEF ClosedIsServed, Serves
<1> QED BY <1>3, <1>4, <1>5 DEF PayInv

LEMMA PayNext ==
  ASSUME TypeInv, PayInv, [Next]_vars
  PROVE  PayInv'
<1>0. ASSUME NEW h \in Handlers, job[h].at \notin {"gotTxn", "syncing", "paid", "renewing"}
      PROVE  job[h].txn \notin Txns
  BY <1>0 DEF PayInv, PayJob
<1>1. CASE Tick
  BY <1>1, QuietPay DEF Tick, payments
<1>2. ASSUME NEW t \in Txns, CreateOrder(t) PROVE PayInv'
  BY <1>2, CreateKeepsPay
<1>3. ASSUME NEW t \in Txns, Capture(t) PROVE PayInv'
  BY <1>3, QuietPay DEF Capture
<1>4. ASSUME NEW h \in Handlers, SaveTxn(h) PROVE PayInv'
  BY <1>4, SaveTxnKeepsPay
<1>5. ASSUME NEW h \in Handlers, NEW t \in Txns, NEW ok \in BOOLEAN, Deliver(h, t, ok)
      PROVE  PayInv'
  <2> DEFINE j == OfTxn("gotTxn", t, txn[t], IF ok THEN "SUCCESS" ELSE "FAILED")
  <2>1. Moved(h, j)
    BY <1>5, DeliverMoves
  <2>2. PayJob(j) /\ \A u \in Txns : ~Serves(j, u)
    BY <1>5 DEF PayJob, Serves, OfTxn, Deliver
  <2>3. \A u \in Txns : ~Serves(job[h], u)
    BY <1>5 DEF Deliver, Start, Serves
  <2> HIDE DEF j
  <2> QED BY <1>5, <2>1, <2>2, <2>3, QuietMove DEF Deliver, payments
<1>6. ASSUME NEW h \in Handlers, ReadToActivate(h) PROVE PayInv'
  <2> DEFINE j == OfPlan("activating", NoTxn, 0, FALSE, history)
  <2>1. Moved(h, j)
    BY <1>6, ReadToActivateMoves
  <2>2. PayJob(j) /\ \A u \in Txns : ~Serves(j, u) /\ ~Serves(job[h], u)
    BY <1>6, PlainPay DEF ReadToActivate, Start, Serves
  <2> HIDE DEF j
  <2> QED BY <1>6, <2>1, <2>2, QuietMove DEF ReadToActivate, payments
<1>7. ASSUME NEW h \in Handlers, ReadToScan(h) PROVE PayInv'
  <2> DEFINE j == OfPlan("scanned", NoTxn, plan.end, plan.active, {})
  <2>1. Moved(h, j)
    BY <1>7, ReadToScanMoves
  <2>2. PayJob(j) /\ \A u \in Txns : ~Serves(j, u) /\ ~Serves(job[h], u)
    BY <1>7, PlainPay DEF ReadToScan, Start, Serves
  <2> HIDE DEF j
  <2> QED BY <1>7, <2>1, <2>2, QuietMove DEF ReadToScan, payments
<1>8. ASSUME NEW h \in Handlers, NEW n \in Retriggers, Retrigger(h, n) PROVE PayInv'
  <2> DEFINE j == OfNotices(plan.end, <<n>>, TRUE)
  <2>1. Moved(h, j)
    BY <1>8, RenewalAssumption, RetriggerMoves
  <2>2. PayJob(j) /\ \A u \in Txns : ~Serves(j, u) /\ ~Serves(job[h], u)
    BY <1>8, PlainPay DEF Retrigger, Start, Serves
  <2> HIDE DEF j
  <2> QED BY <1>8, <2>1, <2>2, QuietMove DEF Retrigger, payments
<1>9. ASSUME NEW h \in Handlers, NEW t \in Txns, NEW forced \in Forced \cup {"none"},
             Sync(h, t, forced)
      PROVE  PayInv'
  <2> DEFINE j == OfTxn("syncing", t, txn[t], SyncTarget(t, forced))
  <2>1. Moved(h, j)
    BY <1>9, RenewalAssumption, SyncMoves
  <2>2. PayJob(j) /\ \A u \in Txns : ~Serves(j, u)
    BY DEF PayJob, Serves, OfTxn
  <2>3. \A u \in Txns : ~Serves(job[h], u)
    BY <1>9 DEF Sync, Start, Serves
  <2> HIDE DEF j
  <2> QED BY <1>9, <2>1, <2>2, <2>3, QuietMove DEF Sync, payments
<1>10. ASSUME NEW h \in Handlers, ReadToRenew(h) PROVE PayInv'
  <2> DEFINE j == OfPlan("renewing", job[h].txn, Later(plan.end, now) + Cycle, plan.active, {})
  <2>1. Moved(h, j)
    BY <1>10, RenewalAssumption, ReadToRenewMoves
  <2>2. j.txn = job[h].txn /\ j.at = "renewing"
    BY DEF OfPlan
  <2> HIDE DEF j
  <2>3. job[h].at = "paid" \/ (job[h].at = "idle" /\ job[h].txn \notin Txns)
    BY <1>0, <1>10 DEF ReadToRenew, Start
  <2>4. \A u \in Txns : Serves(j, u) <=> Serves(job[h], u)
    BY <2>2, <2>3 DEF Serves
  <2>5. PayJob(job[h])
    BY DEF PayInv
  <2>6. PayJob(j)
    BY <2>2, <2>4, <2>5 DEF PayJob
  <2> QED BY <1>10, <2>1, <2>4, <2>6, QuietMove DEF ReadToRenew, payments
<1>11. ASSUME NEW h \in Handlers, SaveRenewal(h) PROVE PayInv'
  BY <1>11, RenewalKeepsPay
<1>12. ASSUME NEW h \in Handlers, SaveActivation(h) PROVE PayInv'
  <2> DEFINE j == OfNotices(now + Cycle, <<"PLAN_ACTIVATED">>, FALSE)
  <2>1. MovedSaving(h, j)
    BY <1>12, RenewalAssumption, SaveActivationMoves
  <2>2. PayJob(j) /\ \A u \in Txns : ~Serves(j, u) /\ ~Serves(job[h], u)
    BY <1>12, PlainPay DEF SaveActivation, Serves
  <2> HIDE DEF j
  <2> QED BY <1>12, <2>1, <2>2, QuietMove DEF SaveActivation, payments
<1>13. ASSUME NEW h \in Handlers, Expire(h) PROVE PayInv'
  <2> DEFINE j == OfNotices(job[h].end, <<"PLAN_EXPIRED">>, FALSE)
  <2>1. MovedSaving(h, j)
    BY <1>13, ExpireMoves
  <2>2. PayJob(j) /\ \A u \in Txns : ~Serves(j, u) /\ ~Serves(job[h], u)
    BY <1>13, PlainPay DEF Expire, Serves
  <2> HIDE DEF j
  <2> QED BY <1>13, <2>1, <2>2, QuietMove DEF Expire, payments
<1>14. ASSUME NEW h \in Handlers, Announce(h) PROVE PayInv'
  <2>1. PICK j : Moved(h, j) /\ PayJob(j) /\ \A u \in Txns : ~Serves(j, u)
    BY <1>14, AnnounceMoves, PlainPay
  <2>2. \A u \in Txns : ~Serves(job[h], u)
    BY <1>14 DEF Announce, Serves
  <2> QED BY <1>14, <2>1, <2>2, QuietMove DEF Announce, payments
<1>15. ASSUME NEW h \in Handlers, NEW place \in {"sending", "recording"},
              job[h].at \in {"emitting", "sending"},
              Put(h, [job[h] EXCEPT !.at = place]), UNCHANGED payments
       PROVE  PayInv'
  <2> DEFINE j == [job[h] EXCEPT !.at = place]
  <2>1. Moved(h, j)
    BY <1>15, PlaceMoves
  <2>2. j.txn = job[h].txn /\ j.at = place
    BY DEF TypeInv, TypeOK, Job
  <2> HIDE DEF j
  <2>3. job[h].txn \notin Txns
    BY <1>0, <1>15
  <2>4. PayJob(j) /\ \A u \in Txns : ~Serves(j, u) /\ ~Serves(job[h], u)
    BY <2>2, <2>3 DEF PayJob, Serves
  <2> QED BY <1>15, <2>1, <2>4, QuietMove DEF payments
<1>16. ASSUME NEW h \in Handlers, CheckHistory(h) \/ \E connected \in BOOLEAN : Send(h, connected)
       PROVE  PayInv'
  BY <1>15, <1>16 DEF CheckHistory, Send
<1>17. ASSUME NEW h \in Handlers, SkipNotice(h) \/ Record(h) PROVE PayInv'
  <2>1. Moved(h, Done(job[h])) /\ job[h] \in Job /\ job[h].todo # <<>>
    BY <1>17, DoneMoves DEF SkipNotice, Record, TypeInv, TypeOK, JobsWhole, Whole
  <2>2. PayJob(Done(job[h])) /\ \A u \in Txns : ~Serves(Done(job[h]), u)
    BY <2>1, DoneType, PlainPay
  <2>3. \A u \in Txns : ~Serves(job[h], u)
    BY <1>17 DEF SkipNotice, Record, Serves
  <2> QED BY <1>17, <2>1, <2>2, <2>3, QuietMove DEF SkipNotice, Record, payments
<1>18. ASSUME NEW h \in Handlers, Abort(h) PROVE PayInv'
  BY <1>18, AbortKeepsPay
<1>19. CASE UNCHANGED vars
  BY <1>19, QuietPay DEF vars
<1> QED
  BY <1>1, <1>2, <1>3, <1>4, <1>5, <1>6, <1>7, <1>8, <1>9, <1>10, <1>11, <1>12, <1>13,
     <1>14, <1>16, <1>17, <1>18, <1>19
  DEF Next, Webhook, Operator, Renewing, Scanning, Notifying

\* Every open transaction is unserved, every closed one is served, and nobody serves
\* an uncontested one twice (handleWebhook, syncTransactionStatus).
THEOREM PayInvariance == Spec => [](TypeInv /\ PayInv)
<1>1. Init => TypeInv /\ PayInv
  BY RenewalAssumption, TypeInit, PayInit
<1>2. TypeInv /\ PayInv /\ [Next]_vars => (TypeInv /\ PayInv)'
  BY RenewalAssumption, TypeNext, PayNext
<1> QED BY <1>1, <1>2, PTL DEF Spec

\* A closed transaction has renewed the plan, is about to, or was dropped on record.
THEOREM ClosedAreServed == Spec => []ClosedIsServed
<1>1. TypeInv /\ PayInv => ClosedIsServed
  BY DEF PayInv
<1> QED BY <1>1, PayInvariance, PTL

\* The webhook implements the promise of PaidRenewal.
THEOREM Refinement == Spec => PaidOnce
<1>1. Init => Promise!Init
  BY DEF Init, Promise!Init
<1>2. ASSUME TypeInv, PayInv, [Next]_vars PROVE [Promise!Next]_(Promise!vars)
  <2>1. ASSUME NEW t \in Txns, Capture(t) PROVE Promise!Next
    BY <2>1 DEF Capture, Promise!Next, Promise!Capture
  <2>2. ASSUME NEW h \in Handlers, SaveTxn(h) PROVE [Promise!Next]_(Promise!vars)
    <3>1. job[h].txn \in Txns
      BY <1>2, <2>2 DEF SaveTxn, TypeInv, JobsWhole, Whole
    <3>2. UNCHANGED <<captured, credited>>
          /\ contested' \in {contested, contested \cup {job[h].txn}}
      BY <2>2 DEF SaveTxn
    <3> QED BY <3>1, <3>2 DEF Promise!Next, Promise!Contest, Promise!vars
  <2>3. ASSUME NEW h \in Handlers, SaveRenewal(h) PROVE [Promise!Next]_(Promise!vars)
    <3> DEFINE t == job[h].txn
    <3>1. credited' = Credit(t) /\ UNCHANGED <<captured, contested>> /\ job[h].at = "renewing"
      BY <2>3 DEF SaveRenewal
    <3>2. CASE t \notin Txns
      BY <3>1, <3>2 DEF Credit, Promise!vars
    <3>3. CASE t \in Txns
      <4>1. Serves(job[h], t)
        BY <3>1 DEF Serves
      <4>2. t \in captured
        BY <1>2, <3>3, <4>1 DEF PayInv, PayJob
      <4>3. credited[t] = 0 \/ t \in contested
        BY <1>2, <3>3, <4>1 DEF PayInv, ServedOnce
      <4> QED BY <3>1, <3>3, <4>2, <4>3 DEF Credit, Promise!Next, Promise!Renew
    <3> QED BY <3>2, <3>3
  <2>4. CASE UNCHANGED <<captured, contested, credited>>
    BY <2>4 DEF Promise!vars
  <2> QED
    BY <1>2, <2>1, <2>2, <2>3, <2>4
    DEF Next, Webhook, Operator, Renewing, Scanning, Notifying, Tick, CreateOrder,
        Deliver, ReadToActivate, ReadToScan, Retrigger, Sync, ReadToRenew,
        SaveActivation, Expire, Announce, CheckHistory, SkipNotice, Record, Send, Abort,
        vars, payments
<1> QED BY <1>1, <1>2, PayInvariance, PTL DEF Spec, PaidOnce, Promise!Spec

-------------------------------------------------------------------------------
(***************************************************************************)
(* Notices.  A notice sent is in the history, about to be recorded, or     *)
(* excused; two handlers with the same notice in hand have it excused.     *)
(***************************************************************************)
InHand(j) == j.at \in {"sending", "recording"}

SentIsKnown(k) ==
  \/ k \in history \cup excused
  \/ \E g \in Handlers : job[g].at = "recording" /\ KeyOf(job[g]) = k

\* Handler h, with respect to what others have sent or have in hand.
Careful(h) ==
  /\ job[h].at = "sending" /\ ~job[h].force /\ KeyOf(job[h]) \in sent => KeyOf(job[h]) \in excused
  /\ \A g \in Handlers \ {h} :
       InHand(job[h]) /\ InHand(job[g]) /\ KeyOf(job[g]) = KeyOf(job[h]) => KeyOf(job[h]) \in excused

NoticeInv ==
  /\ \A k \in sent : SentIsKnown(k)
  /\ \A h \in Handlers : Careful(h)
  /\ RepeatIsExcused

\* What the proof looks at in the local variables.
Alike(j, i) == j.at = i.at /\ KeyOf(j) = KeyOf(i) /\ j.force = i.force

LEMMA OthersAlike ==
  ASSUME NEW h \in Handlers, NEW j, Moved(h, j) \/ MovedSaving(h, j)
  PROVE  job'[h] = j /\ \A g \in Handlers \ {h} : Alike(job'[g], job[g])
BY DEF Moved, MovedSaving, Alike, KeyOf

\* Steps in which a handler comes to a place without a notice in hand.
LEMMA QuietNotice ==
  ASSUME NoticeInv, sent' = sent, repeated' = repeated, excused \subseteq excused',
         history \subseteq history' \cup excused',
         NEW h \in Handlers, NEW j, ~InHand(j),
         job'[h] = j, \A g \in Handlers \ {h} : Alike(job'[g], job[g]),
         job[h].at = "recording" => KeyOf(job[h]) \in history' \cup excused'
  PROVE  NoticeInv'
<1>1. ASSUME NEW k \in sent PROVE SentIsKnown(k)'
  <2>1. CASE k \in history \cup excused
    BY <2>1 DEF SentIsKnown
  <2>2. CASE \E g \in Handlers : job[g].at = "recording" /\ KeyOf(job[g]) = k
    <3>1. PICK g \in Handlers : job[g].at = "recording" /\ KeyOf(job[g]) = k
      BY <2>2
    <3>2. CASE g = h
      BY <3>1, <3>2 DEF SentIsKnown
    <3>3. CASE g # h
      <4>1. job'[g].at = "recording" /\ KeyOf(job'[g]) = k
        BY <3>1, <3>3 DEF Alike
      <4>2. \E f \in Handlers : job'[f].at = "recording" /\ KeyOf(job'[f]) = k
        BY <4>1
      <4> QED BY <4>2 DEF SentIsKnown, KeyOf
    <3> QED BY <3>2, <3>3
  <2> QED BY <1>1, <2>1, <2>2 DEF NoticeInv, SentIsKnown
<1>2. ASSUME NEW g \in Handlers PROVE Careful(g)'
  <2>1. CASE g = h
    BY <2>1 DEF Careful, InHand
  <2>2. CASE g # h
    <3>1. Alike(job'[g], job[g]) /\ Careful(g)
      BY <2>2 DEF NoticeInv
    <3>2. job'[g].at = "sending" /\ ~job'[g].force /\ KeyOf(job'[g]) \in sent'
          => KeyOf(job'[g]) \in excused'
      BY <3>1 DEF Careful, Alike
    <3>3. ASSUME NEW f \in Handlers \ {g}, InHand(job'[g]), InHand(job'[f]),
                 KeyOf(job'[f]) = KeyOf(job'[g])
          PROVE  KeyOf(job'[g]) \in excused'
      <4>1. f # h
        BY <3>3
      <4>2. Alike(job'[f], job[f])
        BY <4>1
      <4> QED BY <3>1, <3>3, <4>2 DEF Careful, Alike, InHand
    <3> QED BY <3>2, <3>3 DEF Careful, InHand, KeyOf
  <2> QED BY <2>1, <2>2
<1>3. RepeatIsExcused'
  BY DEF NoticeInv, RepeatIsExcused
<1> QED BY <1>1, <1>2, <1>3 DEF NoticeInv

LEMMA SameNotices ==
  ASSUME NoticeInv, UNCHANGED <<job, history, sent, repeated, excused>>
  PROVE  NoticeInv'
BY DEF NoticeInv, SentIsKnown, Careful, InHand, KeyOf, RepeatIsExcused

LEMMA NothingInHand ==
  /\ ~InHand(NoJob)
  /\ \A place \in {"gotTxn", "syncing", "paid"} : \A t, status, next :
       ~InHand(OfTxn(place, t, status, next))
  /\ \A place \in Holding : \A t, end, active, keys : ~InHand(OfPlan(place, t, end, active, keys))
  /\ \A end, notices, again : ~InHand(OfNotices(end, notices, again))
BY DEF InHand, OfTxn, OfPlan, OfNotices, NoJob, Holding

LEMMA NoticeInit == ASSUME Init PROVE NoticeInv
BY NothingInHand DEF Init, NoticeInv, Careful, RepeatIsExcused, InHand, NoJob, OfTxn

\* The history is read: a notice others have in hand is excused from here on.
LEMMA CheckKeepsNotices ==
  ASSUME TypeInv, NoticeInv, NEW h \in Handlers, CheckHistory(h)
  PROVE  NoticeInv'
<1> DEFINE j == [job[h] EXCEPT !.at = "sending"]
           k == KeyOf(job[h])
<1>1. /\ job[h].at = "emitting" /\ (k \in history => job[h].force)
      /\ UNCHANGED <<history, sent, repeated>>
      /\ excused' = IF k \in Emitting(Handlers \ {h}) THEN excused \cup {k} ELSE excused
      /\ Put(h, j) /\ job[h] \in Job
  BY DEF CheckHistory, TypeInv, TypeOK
<1>2. Moved(h, j)
  BY <1>1, PlaceMoves
<1>3. job'[h] = j /\ \A g \in Handlers \ {h} : job'[g] = job[g]
  BY <1>2 DEF Moved
<1>4. j.at = "sending" /\ KeyOf(j) = k /\ j.force = job[h].force
  BY <1>1 DEF Job, KeyOf
<1> HIDE DEF j, k
<1>5. \A g \in Handlers \ {h} : InHand(job[g]) /\ KeyOf(job[g]) = k => k \in excused'
  BY <1>1 DEF Emitting, InHand
<1>6. excused \subseteq excused'
  BY <1>1
<1>7. ASSUME NEW m \in sent PROVE SentIsKnown(m)'
  <2>1. CASE m \in history \cup excused
    BY <1>1, <1>6, <2>1 DEF SentIsKnown
  <2>2. CASE \E g \in Handlers : job[g].at = "recording" /\ KeyOf(job[g]) = m
    <3>1. PICK g \in Handlers : job[g].at = "recording" /\ KeyOf(job[g]) = m
      BY <2>2
    <3>2. job'[g].at = "recording" /\ KeyOf(job'[g]) = m
      BY <1>1, <1>3, <3>1
    <3>3. \E f \in Handlers : job'[f].at = "recording" /\ KeyOf(job'[f]) = m
      BY <3>2
    <3> QED BY <3>3 DEF SentIsKnown, KeyOf
  <2> QED BY <1>7, <2>1, <2>2 DEF NoticeInv, SentIsKnown
<1>8. ~job[h].force /\ k \in sent => k \in excused'
  <2>1. ASSUME ~job[h].force, k \in sent PROVE k \in excused'
    <3>1. k \notin history /\ SentIsKnown(k)
      BY <1>1, <2>1 DEF NoticeInv
    <3>2. CASE k \in excused
      BY <1>6, <3>2
    <3>3. CASE k \notin excused
      <4>1. PICK g \in Handlers : job[g].at = "recording" /\ KeyOf(job[g]) = k
        BY <3>1, <3>3 DEF SentIsKnown
      <4>2. g # h
        BY <1>1, <4>1
      <4> QED BY <1>5, <4>1, <4>2 DEF InHand
    <3> QED BY <3>2, <3>3
  <2> QED BY <2>1
<1>9. ASSUME NEW g \in Handlers PROVE Careful(g)'
  <2>1. CASE g = h
    <3>1. ASSUME NEW f \in Handlers \ {h}, InHand(job'[f]), KeyOf(job'[f]) = k
          PROVE  k \in excused'
      BY <1>3, <1>5, <3>1
    <3>2. /\ job'[h].at = "sending" /\ ~job'[h].force /\ KeyOf(job'[h]) \in sent'
             => KeyOf(job'[h]) \in excused'
          /\ \A f \in Handlers \ {h} :
               InHand(job'[h]) /\ InHand(job'[f]) /\ KeyOf(job'[f]) = KeyOf(job'[h])
               => KeyOf(job'[h]) \in excused'
      BY <1>1, <1>3, <1>4, <1>8, <3>1
    <3> QED BY <2>1, <3>2 DEF Careful, InHand, KeyOf
  <2>2. CASE g # h
    <3>1. job'[g] = job[g] /\ Careful(g)
      BY <1>3, <2>2 DEF NoticeInv
    <3>2. job'[g].at = "sending" /\ ~job'[g].force /\ KeyOf(job'[g]) \in sent'
          => KeyOf(job'[g]) \in excused'
      BY <1>1, <1>6, <3>1 DEF Careful
    <3>3. ASSUME NEW f \in Handlers \ {g}, InHand(job'[g]), InHand(job'[f]),
                 KeyOf(job'[f]) = KeyOf(job'[g])
          PROVE  KeyOf(job'[g]) \in excused'
      <4>1. CASE f = h
        BY <1>3, <1>4, <1>5, <2>2, <3>1, <3>3, <4>1
      <4>2. CASE f # h
        BY <1>3, <1>6, <3>1, <3>3, <4>2 DEF Careful
      <4> QED BY <4>1, <4>2
    <3> QED BY <3>2, <3>3 DEF Careful, InHand, KeyOf
  <2> QED BY <2>1, <2>2
<1>10. RepeatIsExcused'
  BY <1>1, <1>6 DEF NoticeInv, RepeatIsExcused
<1> QED BY <1>1, <1>7, <1>9, <1>10 DEF NoticeInv

\* The notice is sent, and its record still to be saved.
LEMMA SendKeepsNotices ==
  ASSUME TypeInv, NoticeInv, NEW h \in Handlers, NEW connected \in BOOLEAN, Send(h, connected)
  PROVE  NoticeInv'
<1> DEFINE j == [job[h] EXCEPT !.at = "recording"]
           k == KeyOf(job[h])
<1>1. /\ job[h].at = "sending" /\ UNCHANGED <<history, excused>>
      /\ sent' \in {sent, sent \cup {k}}
      /\ repeated' = IF connected /\ k \in sent /\ ~job[h].force THEN repeated \cup {k} ELSE repeated
      /\ Put(h, j) /\ job[h] \in Job
  BY DEF Send, TypeInv, TypeOK
<1>2. Moved(h, j)
  BY <1>1, PlaceMoves
<1>3. job'[h] = j /\ \A g \in Handlers \ {h} : job'[g] = job[g]
  BY <1>2 DEF Moved
<1>4. j.at = "recording" /\ KeyOf(j) = k /\ j.force = job[h].force
  BY <1>1 DEF Job, KeyOf
<1>5. Careful(h)
  BY DEF NoticeInv
<1>6. job[h].at = "sending" /\ ~job[h].force /\ k \in sent => k \in excused
  BY <1>5 DEF Careful
<1> HIDE DEF j, k
<1>7. ASSUME NEW m \in sent' PROVE SentIsKnown(m)'
  <2>1. CASE m = k
    <3>1. \E f \in Handlers : job'[f].at = "recording" /\ KeyOf(job'[f]) = m
      BY <1>3, <1>4, <2>1
    <3> QED BY <3>1 DEF SentIsKnown, KeyOf
  <2>2. CASE m # k
    <3>1. SentIsKnown(m)
      BY <1>1, <1>7, <2>2 DEF NoticeInv
    <3>2. CASE m \in history \cup excused
      BY <1>1, <3>2 DEF SentIsKnown
    <3>3. CASE \E g \in Handlers : job[g].at = "recording" /\ KeyOf(job[g]) = m
      <4>1. \E f \in Handlers : job'[f].at = "recording" /\ KeyOf(job'[f]) = m
        BY <1>1, <1>3, <3>3
      <4> QED BY <4>1 DEF SentIsKnown, KeyOf
    <3> QED BY <3>1, <3>2, <3>3 DEF SentIsKnown
  <2> QED BY <2>1, <2>2
<1>8. ASSUME NEW g \in Handlers PROVE Careful(g)'
  <2>1. Careful(g) /\ Careful(h)
    BY DEF NoticeInv
  <2>2. ASSUME NEW f \in Handlers \ {g}, InHand(job'[g]), InHand(job'[f]),
               KeyOf(job'[f]) = KeyOf(job'[g])
        PROVE  KeyOf(job'[g]) \in excused'
    <3>1. /\ InHand(job[g]) /\ InHand(job[f])
          /\ KeyOf(job[f]) = KeyOf(job[g]) /\ KeyOf(job'[g]) = KeyOf(job[g])
      <4>1. ASSUME NEW e \in Handlers, InHand(job'[e])
            PROVE  InHand(job[e]) /\ KeyOf(job'[e]) = KeyOf(job[e])
        <5>1. CASE e = h
          BY <1>1, <1>3, <1>4, <5>1 DEF InHand, k
        <5>2. CASE e # h
          BY <1>3, <4>1, <5>2
        <5> QED BY <5>1, <5>2
      <4> QED BY <2>2, <4>1
    <3> QED BY <1>1, <2>1, <3>1 DEF Careful
  <2>3. ASSUME job'[g].at = "sending", ~job'[g].force, KeyOf(job'[g]) \in sent'
        PROVE  KeyOf(job'[g]) \in excused'
    <3>1. g # h /\ job'[g] = job[g]
      BY <1>3, <1>4, <2>3
    <3>2. CASE KeyOf(job[g]) = k
      BY <1>1, <2>1, <2>3, <3>1, <3>2 DEF Careful, InHand, k
    <3>3. CASE KeyOf(job[g]) # k
      BY <1>1, <2>1, <2>3, <3>1, <3>3 DEF Careful
    <3> QED BY <3>2, <3>3
  <2> QED BY <2>2, <2>3 DEF Careful, InHand, KeyOf
<1>9. RepeatIsExcused'
  BY <1>1, <1>6 DEF NoticeInv, RepeatIsExcused
<1> QED BY <1>7, <1>8, <1>9 DEF NoticeInv

LEMMA NoticeNext ==
  ASSUME RenewalAssumption, TypeInv, NoticeInv, [Next]_vars
  PROVE  NoticeInv'
<1>1. CASE Tick \/ \E t \in Txns : CreateOrder(t) \/ Capture(t)
  BY <1>1, SameNotices DEF Tick, CreateOrder, Capture, notified
<1>2. ASSUME NEW h \in Handlers, NEW j, ~InHand(j), Moved(h, j) \/ MovedSaving(h, j),
             UNCHANGED notified, job[h].at # "recording"
      PROVE  NoticeInv'
  BY <1>2, OthersAlike, QuietNotice DEF notified
<1>3. ASSUME NEW h \in Handlers, SaveTxn(h) PROVE NoticeInv'
  <2> DEFINE j == IF job[h].at = "gotTxn" /\ job[h].to = "SUCCESS"
                  THEN OfTxn("paid", job[h].txn, "none", "none") ELSE NoJob
  <2>1. Moved(h, j) /\ ~InHand(j)
    BY <1>3, SaveTxnMoves, NothingInHand
  <2> HIDE DEF j
  <2> QED BY <1>2, <1>3, <2>1 DEF SaveTxn
<1>4. ASSUME NEW h \in Handlers, NEW t \in Txns, NEW ok \in BOOLEAN, Deliver(h, t, ok)
      PROVE  NoticeInv'
  BY <1>2, <1>4, DeliverMoves, NothingInHand DEF Deliver, Start
<1>5. ASSUME NEW h \in Handlers, ReadToActivate(h) PROVE NoticeInv'
  BY <1>2, <1>5, ReadToActivateMoves, NothingInHand DEF ReadToActivate, Start, Holding
<1>6. ASSUME NEW h \in Handlers, ReadToScan(h) PROVE NoticeInv'
  BY <1>2, <1>6, ReadToScanMoves, NothingInHand DEF ReadToScan, Start, Holding
<1>7. ASSUME NEW h \in Handlers, NEW n \in Retriggers, Retrigger(h, n) PROVE NoticeInv'
  BY <1>2, <1>7, RetriggerMoves, NothingInHand DEF Retrigger, Start
<1>8. ASSUME NEW h \in Handlers, NEW t \in Txns, NEW forced \in Forced \cup {"none"},
             Sync(h, t, forced)
      PROVE  NoticeInv'
  BY <1>2, <1>8, SyncMoves, NothingInHand DEF Sync, Start
<1>9. ASSUME NEW h \in Handlers, ReadToRenew(h) PROVE NoticeInv'
  BY <1>2, <1>9, ReadToRenewMoves, NothingInHand DEF ReadToRenew, Start, Holding
<1>10. ASSUME NEW h \in Handlers, SaveRenewal(h) PROVE NoticeInv'
  BY <1>2, <1>10, SaveRenewalMoves, NothingInHand DEF SaveRenewal
<1>11. ASSUME NEW h \in Handlers, SaveActivation(h) PROVE NoticeInv'
  <2> DEFINE j == OfNotices(now + Cycle, <<"PLAN_ACTIVATED">>, FALSE)
  <2>1. MovedSaving(h, j) /\ ~InHand(j)
    BY <1>11, SaveActivationMoves, NothingInHand
  <2> HIDE DEF j
  <2>2. job'[h] = j /\ \A g \in Handlers \ {h} : Alike(job'[g], job[g])
    BY <2>1, OthersAlike
  <2>3. /\ history' = job[h].seen /\ excused' = excused \cup (history \ job[h].seen)
        /\ UNCHANGED <<sent, repeated>> /\ job[h].at = "activating"
    BY <1>11 DEF SaveActivation
  <2> QED BY <2>1, <2>2, <2>3, QuietNotice
<1>12. ASSUME NEW h \in Handlers, Expire(h) PROVE NoticeInv'
  BY <1>2, <1>12, ExpireMoves, NothingInHand DEF Expire
<1>13. ASSUME NEW h \in Handlers, Announce(h) PROVE NoticeInv'
  BY <1>2, <1>13, AnnounceMoves, NothingInHand DEF Announce
<1>14. ASSUME NEW h \in Handlers, SkipNotice(h) \/ Record(h) PROVE NoticeInv'
  <2>1. Moved(h, Done(job[h])) /\ job[h] \in Job /\ job[h].todo # <<>>
    BY <1>14, DoneMoves DEF SkipNotice, Record, TypeInv, TypeOK, JobsWhole, Whole
  <2>2. ~InHand(Done(job[h]))
    BY <2>1, DoneType, NothingInHand
  <2>3. job'[h] = Done(job[h]) /\ \A g \in Handlers \ {h} : Alike(job'[g], job[g])
    BY <2>1, OthersAlike
  <2> QED BY <1>14, <2>2, <2>3, QuietNotice DEF SkipNotice, Record, notified
<1>15. ASSUME NEW h \in Handlers, CheckHistory(h) PROVE NoticeInv'
  BY <1>15, CheckKeepsNotices
<1>16. ASSUME NEW h \in Handlers, NEW connected \in BOOLEAN, Send(h, connected) PROVE NoticeInv'
  BY <1>16, SendKeepsNotices
<1>17. ASSUME NEW h \in Handlers, Abort(h) PROVE NoticeInv'
  <2>1. job'[h] = NoJob /\ \A g \in Handlers \ {h} : Alike(job'[g], job[g])
    BY <1>17, AbortMoves, OthersAlike
  <2>2. /\ UNCHANGED <<history, sent, repeated>> /\ excused \subseteq excused'
        /\ job[h].at = "recording" => KeyOf(job[h]) \in excused'
    BY <1>17 DEF Abort
  <2> QED BY <2>1, <2>2, NothingInHand, QuietNotice
<1>18. CASE UNCHANGED vars
  BY <1>18, SameNotices DEF vars
<1> QED
  BY <1>1, <1>3, <1>4, <1>5, <1>6, <1>7, <1>8, <1>9, <1>10, <1>11, <1>12, <1>13, <1>14,
     <1>15, <1>16, <1>17, <1>18
  DEF Next, Webhook, Operator, Renewing, Scanning, Notifying

\* A notice is repeated only where the code cannot know that it was sent.
THEOREM RepeatsAreExcused == Spec => []RepeatIsExcused
<1>1. Init => TypeInv /\ NoticeInv
  BY RenewalAssumption, TypeInit, NoticeInit
<1>2. TypeInv /\ NoticeInv /\ [Next]_vars => (TypeInv /\ NoticeInv)'
  BY RenewalAssumption, TypeNext, NoticeNext
<1>3. NoticeInv => RepeatIsExcused
  BY DEF NoticeInv
<1> QED BY <1>1, <1>2, <1>3, PTL DEF Spec
============================================================================
