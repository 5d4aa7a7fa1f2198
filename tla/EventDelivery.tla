--------------------------- MODULE EventDelivery ---------------------------
(***************************************************************************)
(* The event bus with its dead letters (services/eventBusService.ts) and   *)
(* the worker queues (services/workerQueueService.ts), which publish an    *)
(* event for every job that has used up its attempts.                      *)
(*                                                                         *)
(* All of it is one process: what runs between two awaits is one step, and *)
(* a handler may take any time.  Everything is in memory; a restart loses  *)
(* it all and is not modelled.                                             *)
(***************************************************************************)
EXTENDS Naturals, Sequences, SequencesExt

CONSTANTS
  Jobs,        \* jobs; each has an event of its own, published if it fails for good
  OtherEvents, \* events that other services publish
  Subscribers, \* number of handlers subscribed to the events
  MaxDlq,      \* maxDlqSize
  Redrivers,   \* requests that redrive a dead letter
  Queues, NoJob,
  MaxAttempts  \* of a job

ASSUME DeliveryAssumption ==
  /\ Jobs \cap OtherEvents = {} /\ NoJob \notin Jobs
  /\ Subscribers \in Nat \ {0} /\ MaxDlq \in Nat \ {0} /\ MaxAttempts \in Nat \ {0}

Events == Jobs \cup OtherEvents

\* A dead letter: the event, and the handler that failed.  A redrive does not make
\* new ones, so that there is one at most.
Letters == Events \X (1..Subscribers)

VARIABLES
  pub,     \* per event: the handler that publish awaits; 0: unpublished; more: done
  dlq,     \* deadLetterQueue, the newest first
  redrive, \* per redriver: the letter, the index computed, the handler awaited (0: none)
  order,   \* the queues in the order of the Map
  waiting, \* the jobs of each queue
  workers, \* queues with a handler
  job,     \* status and attempts
  wakes,   \* timers of enqueue that have not fired
  loop,    \* processNextJobs: the queue it is at (0: not processing), its job
  \* What the properties are about:
  served,  \* the handler has handled the event
  lost,    \* letters that went without being redriven
  shifted, \* redrivers whose letter no longer is at the index
  passed   \* jobs queued behind the loop, or before their queue had a handler

bus  == <<pub, dlq, redrive, served, lost, shifted>>
pool == <<order, waiting, workers, job, wakes, loop, passed>>
vars == <<bus, pool>>

NoRedrive == [letter |-> <<>>, index |-> 0, next |-> 0]
Asleep    == [at |-> 0, job |-> NoJob]

Init ==
  /\ pub = [e \in Events |-> 0]
  /\ dlq = <<>>
  /\ redrive = [r \in Redrivers |-> NoRedrive]
  /\ order = <<>>
  /\ waiting = [q \in Queues |-> <<>>]
  /\ workers = {}
  /\ job = [j \in Jobs |-> [status |-> "NEW", attempts |-> 0]]
  /\ wakes = 0
  /\ loop = Asleep
  /\ served = {} /\ lost = {} /\ shifted = {} /\ passed = {}

-------------------------------------------------------------------------------
(***************************************************************************)
(* The event bus.                                                          *)
(***************************************************************************)

Redriving == {r \in Redrivers : redrive[r].next # 0}

\* Redrivers, other than those who are done, whose index does not show their letter.
Shifted(queue, done) ==
  {r \in Redriving \ done :
     ~(redrive[r].index <= Len(queue) /\ queue[redrive[r].index] = redrive[r].letter)}

\* Mutant: one letter more than the limit.
CaptureOneMore(letter) ==
  LET queue == <<letter>> \o dlq
      kept  == SubSeq(queue, 1, IF Len(queue) > MaxDlq + 1 THEN Len(queue) - 1 ELSE Len(queue))
  IN  /\ dlq' = kept
      /\ lost' = lost \cup (ToSet(queue) \ ToSet(kept))
      /\ shifted' = Shifted(kept, {})

\* Mutant: push and shift in place of unshift and pop.
CaptureAtTheBack(letter) ==
  LET queue == dlq \o <<letter>>
      kept  == SubSeq(queue, IF Len(queue) > MaxDlq THEN 2 ELSE 1, Len(queue))
  IN  /\ dlq' = kept
      /\ lost' = lost \cup (ToSet(queue) \ ToSet(kept))
      /\ shifted' = Shifted(kept, {})

\* captureDeadLetter.
Capture(letter) ==
  LET queue == <<letter>> \o dlq
      kept  == SubSeq(queue, 1, IF Len(queue) > MaxDlq THEN Len(queue) - 1 ELSE Len(queue))
  IN  /\ dlq' = kept
      /\ lost' = lost \cup (ToSet(queue) \ ToSet(kept))
      /\ shifted' = Shifted(kept, {})

Publish(e) ==
  /\ e \in OtherEvents /\ pub[e] = 0
  /\ pub' = [pub EXCEPT ![e] = 1]
  /\ UNCHANGED <<dlq, redrive, served, lost, shifted, pool>>

Publishing(e) == pub[e] \in 1..Subscribers

Handled(e) ==
  /\ Publishing(e)
  /\ pub' = [pub EXCEPT ![e] = @ + 1]
  /\ served' = served \cup {<<e, pub[e]>>}
  /\ UNCHANGED <<dlq, redrive, lost, shifted, pool>>

HandlerFailed(e) ==
  /\ Publishing(e)
  /\ pub' = [pub EXCEPT ![e] = @ + 1]
  /\ Capture(<<e, pub[e]>>)
  /\ UNCHANGED <<redrive, served, pool>>

\* redriveDeadLetter finds the index, and calls the first handler.
Redrive(r, i) ==
  /\ r \notin Redriving
  /\ i \in DOMAIN dlq
  /\ redrive' = [redrive EXCEPT ![r] = [letter |-> dlq[i], index |-> i, next |-> 1]]
  /\ UNCHANGED <<pub, dlq, served, lost, shifted, pool>>

RedriveHandled(r) ==
  LET d == redrive[r] IN
  /\ r \in Redriving /\ d.next < Subscribers
  /\ redrive' = [redrive EXCEPT ![r].next = @ + 1]
  /\ served' = served \cup {<<d.letter[1], d.next>>}
  /\ UNCHANGED <<pub, dlq, lost, shifted, pool>>

\* The last handler: what is now at the index goes.
Redriven(r) ==
  LET d    == redrive[r]
      kept == IF d.index <= Len(dlq) THEN RemoveAt(dlq, d.index) ELSE dlq
  IN
  /\ r \in Redriving /\ d.next = Subscribers
  /\ redrive' = [redrive EXCEPT ![r] = NoRedrive]
  /\ served' = served \cup {<<d.letter[1], d.next>>}
  /\ dlq' = kept
  /\ lost' = lost \cup ((ToSet(dlq) \ ToSet(kept)) \ {d.letter})
  /\ shifted' = Shifted(kept, {r})
  /\ UNCHANGED <<pub, pool>>

\* Mutant: the letter is taken out before the handlers are called.
RedriveFailedDropped(r) ==
  /\ r \in Redriving
  /\ redrive' = [redrive EXCEPT ![r] = NoRedrive]
  /\ dlq' = Remove(dlq, redrive[r].letter)
  /\ shifted' = Shifted(dlq', {r})
  /\ UNCHANGED <<pub, served, lost, pool>>

\* A handler fails: the letter stays, with one more retry on its count.
RedriveFailed(r) ==
  /\ r \in Redriving
  /\ redrive' = [redrive EXCEPT ![r] = NoRedrive]
  /\ shifted' = shifted \ {r}
  /\ UNCHANGED <<pub, dlq, served, lost, pool>>

-------------------------------------------------------------------------------
(***************************************************************************)
(* The worker queues.                                                      *)
(***************************************************************************)

Listed(q) == IF q \in ToSet(order) THEN order ELSE Append(order, q)

PlaceOf(q) == CHOOSE k \in DOMAIN order : order[k] = q

\* registerWorker.
Register(q) ==
  /\ q \notin workers
  /\ workers' = workers \cup {q}
  /\ order' = Listed(q)
  /\ passed' = passed \cup ToSet(waiting[q])
  /\ UNCHANGED <<bus, waiting, job, wakes, loop>>

Enqueue(j, q) ==
  /\ job[j].status = "NEW"
  /\ job' = [job EXCEPT ![j].status = "QUEUED"]
  /\ order' = Listed(q)
  /\ waiting' = [waiting EXCEPT ![q] = Append(@, j)]
  /\ wakes' = wakes + 1
  /\ passed' = IF q \in ToSet(order) /\ PlaceOf(q) < loop.at THEN passed \cup {j} ELSE passed
  /\ UNCHANGED <<bus, workers, loop>>

\* The loop takes the next job, of jobs js in queues ws, from place k on; or ends.
Advance(js, ws, k) ==
  LET Ready(i) == i >= k /\ order[i] \in workers /\ ws[order[i]] # <<>> IN
  \/ /\ \A i \in DOMAIN order : ~Ready(i)
     /\ loop' = Asleep /\ job' = js /\ waiting' = ws
  \/ \E at \in DOMAIN order :
       /\ Ready(at) /\ \A i \in 1..(at - 1) : ~Ready(i)
       /\ LET j == Head(ws[order[at]]) IN
          /\ loop' = [at |-> at, job |-> j]
          /\ job' = [js EXCEPT ![j] = [status |-> "PROCESSING", attempts |-> @.attempts + 1]]
       /\ waiting' = [ws EXCEPT ![order[at]] = Tail(@)]

\* Mutant: isProcessing is not looked at.
WakeWhileProcessing ==
  /\ wakes > 0
  /\ wakes' = wakes - 1
  /\ Advance(job, waiting, 1)
  /\ UNCHANGED <<bus, order, workers, passed>>

\* The timer of an enqueue: it returns if isProcessing.
Wake ==
  /\ wakes > 0
  /\ wakes' = wakes - 1
  /\ IF loop.at = 0 THEN Advance(job, waiting, 1) ELSE UNCHANGED <<job, waiting, loop>>
  /\ UNCHANGED <<bus, order, workers, passed>>

Working == loop.at # 0 /\ job[loop.job].status = "PROCESSING"

\* Mutant: one job of each queue (if in place of while).
JobDoneOncePerQueue ==
  /\ Working
  /\ Advance([job EXCEPT ![loop.job].status = "COMPLETED"], waiting, loop.at + 1)
  /\ UNCHANGED <<bus, order, workers, wakes, passed>>

JobDone ==
  /\ Working
  /\ Advance([job EXCEPT ![loop.job].status = "COMPLETED"], waiting, loop.at)
  /\ UNCHANGED <<bus, order, workers, wakes, passed>>

\* Mutant: not pushed back.
JobRetriedNowhere ==
  LET j == loop.job IN
  /\ Working /\ job[j].attempts < MaxAttempts
  /\ Advance([job EXCEPT ![j].status = "QUEUED"], waiting, loop.at)
  /\ UNCHANGED <<bus, order, workers, wakes, passed>>

\* Pushed back to its own queue, which the loop has not left.
JobRetried ==
  LET j == loop.job IN
  /\ Working /\ job[j].attempts < MaxAttempts
  /\ Advance([job EXCEPT ![j].status = "QUEUED"],
             [waiting EXCEPT ![order[loop.at]] = Append(@, j)], loop.at)
  /\ UNCHANGED <<bus, order, workers, wakes, passed>>

\* Failed for good: its event is published, and the loop awaits that.
JobExhausted ==
  LET j == loop.job IN
  /\ Working /\ job[j].attempts >= MaxAttempts
  /\ job' = [job EXCEPT ![j].status = "FAILED"]
  /\ pub' = [pub EXCEPT ![j] = 1]
  /\ UNCHANGED <<dlq, redrive, served, lost, shifted, order, waiting, workers, wakes, loop,
                 passed>>

\* Mutant: the publication is not awaited.
ReportedAtOnce ==
  /\ loop.at # 0 /\ job[loop.job].status = "FAILED"
  /\ Advance(job, waiting, loop.at)
  /\ UNCHANGED <<bus, order, workers, wakes, passed>>

Reported ==
  /\ loop.at # 0 /\ job[loop.job].status = "FAILED" /\ ~Publishing(loop.job)
  /\ Advance(job, waiting, loop.at)
  /\ UNCHANGED <<bus, order, workers, wakes, passed>>

-------------------------------------------------------------------------------
Bus ==
  \/ \E e \in Events : Publish(e) \/ Handled(e) \/ HandlerFailed(e)
  \/ \E r \in Redrivers : \/ \E i \in 1..MaxDlq : Redrive(r, i)
                          \/ RedriveHandled(r) \/ Redriven(r) \/ RedriveFailed(r)

Pool ==
  \/ \E q \in Queues : Register(q) \/ \E j \in Jobs : Enqueue(j, q)
  \/ Wake \/ JobDone \/ JobRetried \/ JobExhausted \/ Reported

Next == Bus \/ Pool

\* Timers fire, and a handler that was called returns or throws.
Fairness ==
  /\ WF_vars(Wake)
  /\ WF_vars(JobDone \/ JobRetried \/ JobExhausted)
  /\ WF_vars(Reported)
  /\ \A e \in Events : WF_vars(Handled(e) \/ HandlerFailed(e))

Spec     == Init /\ [][Next]_vars
FairSpec == Spec /\ Fairness

-------------------------------------------------------------------------------
(***************************************************************************)
(* Properties.                                                             *)
(***************************************************************************)

Ended(j)  == job[j].status \in {"COMPLETED", "FAILED"}
Manned(j) == \E q \in workers : j \in ToSet(waiting[q])

TypeOK ==
  /\ pub \in [Events -> 0..(Subscribers + 1)]
  /\ dlq \in Seq(Letters) /\ Len(dlq) <= MaxDlq
  /\ redrive \in [Redrivers -> {NoRedrive} \cup
                    [letter : Letters, index : 1..MaxDlq, next : 1..Subscribers]]
  /\ order \in Seq(Queues) /\ waiting \in [Queues -> Seq(Jobs)] /\ workers \subseteq Queues
  /\ job \in [Jobs -> [status : {"NEW", "QUEUED", "PROCESSING", "COMPLETED", "FAILED"},
                       attempts : 0..MaxAttempts]]
  /\ wakes \in Nat
  /\ loop = Asleep \/ loop \in [at : 1..Len(order), job : Jobs]
  /\ served \subseteq Letters /\ lost \subseteq Letters
  /\ shifted \subseteq Redrivers /\ passed \subseteq Jobs

\* A handler that publish has called has handled the event, or there is a dead letter
\* of its failure, until the letter is dropped at the limit or goes in the place of
\* another one (publish, captureDeadLetter).
FailureIsOnRecord ==
  \A e \in Events, h \in 1..Subscribers :
    pub[e] > h => \/ <<e, h>> \in served
                  \/ <<e, h>> \in ToSet(dlq)
                  \/ <<e, h>> \in lost

\* A job that failed for good and that the loop has left is known to every subscriber:
\* handled, on record, or lost as other letters are (processNextJobs, publish).
ExhaustedIsOnRecord ==
  \A j \in Jobs, h \in 1..Subscribers :
    job[j].status = "FAILED" /\ loop.job # j
    => <<j, h>> \in served \cup ToSet(dlq) \cup lost

\* A letter goes unredriven only from the end of a full queue, or to a redrive during
\* which the queue has moved (redriveDeadLetter).
LossIsExplained ==
  [][\A l \in ToSet(dlq) \ ToSet(dlq') :
       \/ \E r \in Redriving : redrive[r].letter = l /\ <<l[1], Subscribers>> \in served'
       \/ Len(dlq) = MaxDlq /\ l = Last(dlq)
       \/ \E r \in shifted : redrive[r].next = Subscribers /\ dlq[redrive[r].index] = l]_vars

\* A job that is ready while nobody is awake to take it was queued behind the running
\* loop, or before its queue had a handler (enqueue, processNextJobs).
NoneStranded ==
  loop.at = 0 /\ wakes = 0
  => \A j \in Jobs : job[j].status = "QUEUED" /\ Manned(j) => j \in passed

\* The worker of JobPool is the loop: which failures have been published, and of which
\* every subscriber has been told.
ReportedJobs == {j \in Jobs : pub[j] > 0}
HeardJobs    == {j \in Jobs : pub[j] > Subscribers}

Work == INSTANCE JobPool WITH
  Nobody <- NoJob, busy <- loop.job, reported <- ReportedJobs, heard <- HeardJobs

\* The queues keep the promise of JobPool: one loop serves them all, one job at a time
\* and each at most MaxAttempts times, and awaits the report of a failure before it goes
\* on (processNextJobs, publish).
OneJobAtATime == Work!Spec

\* Each job whose queue has a handler ends, except one so queued (processNextJobs).
JobsEnd ==
  \A j \in Jobs : (job[j].status = "QUEUED" /\ Manned(j)) ~> (Ended(j) \/ j \in passed)
===============================================================================
