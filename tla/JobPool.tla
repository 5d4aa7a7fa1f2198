-------------------------------- MODULE JobPool --------------------------------
(***************************************************************************)
(* What the worker queues promise about a job, whatever the queues, their  *)
(* handlers and the timers: there is one worker for all jobs; it works on  *)
(* one job at a time and gives each at most MaxAttempts attempts; a job    *)
(* that has ended is not started again; and the worker starts no other job *)
(* before all subscribers have heard of a job that failed for good.        *)
(***************************************************************************)
EXTENDS Naturals

CONSTANTS Jobs, Nobody, MaxAttempts

VARIABLES
  job,       \* status and attempts of each job
  busy,      \* the job that the worker is at
  reported,  \* the jobs whose failure has been published
  heard      \* those of them of which every subscriber has heard

vars == <<job, busy, reported, heard>>

Init ==
  /\ job = [j \in Jobs |-> [status |-> "NEW", attempts |-> 0]]
  /\ busy = Nobody
  /\ reported = {} /\ heard = {}

Enqueue(j) ==
  /\ job[j].status = "NEW"
  /\ job' = [job EXCEPT ![j].status = "QUEUED"]
  /\ UNCHANGED <<busy, reported, heard>>

\* The worker goes on: with jobs js, it starts a queued one or rests.
GoOn(js) ==
  /\ \/ busy' = Nobody /\ job' = js
     \/ \E j \in Jobs :
          /\ js[j].status = "QUEUED" /\ js[j].attempts < MaxAttempts
          /\ busy' = j
          /\ job' = [js EXCEPT ![j] = [status |-> "PROCESSING", attempts |-> @.attempts + 1]]
  /\ UNCHANGED <<reported, heard>>

Start == busy = Nobody /\ GoOn(job)

Working == busy # Nobody /\ job[busy].status = "PROCESSING"

Done == Working /\ GoOn([job EXCEPT ![busy].status = "COMPLETED"])

Retry ==
  /\ Working /\ job[busy].attempts < MaxAttempts
  /\ GoOn([job EXCEPT ![busy].status = "QUEUED"])

\* The last attempt has failed, which is published once.
Exhausted ==
  /\ Working /\ job[busy].attempts = MaxAttempts /\ busy \notin reported
  /\ job' = [job EXCEPT ![busy].status = "FAILED"]
  /\ reported' = reported \cup {busy}
  /\ UNCHANGED <<busy, heard>>

Hear(j) ==
  /\ j \in reported
  /\ heard' = heard \cup {j}
  /\ UNCHANGED <<job, busy, reported>>

GoOnAfterReport ==
  /\ busy \in heard
  /\ GoOn(job)

Next ==
  \/ \E j \in Jobs : Enqueue(j) \/ Hear(j)
  \/ Start \/ Done \/ Retry \/ Exhausted \/ GoOnAfterReport

Spec == Init /\ [][Next]_vars
===============================================================================
