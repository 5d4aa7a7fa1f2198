# TLA+ models of the AI-ACS OS

AI-ACS OS is a multi-tenant platform with which fibre ISPs run their customers'
routers (ONTs). Its core is a TR-069 auto-configuration server (ACS): operators ask
for changes over a REST API, the changes become `DeviceCommand` documents in
MongoDB, and the ACS delivers them when the router (the CPE) opens a CWMP session,
one RPC per HTTP answer. Around that core there are billing, field operations,
inventory, GIS and messaging services, many of them CRUD.

This directory holds formal models of that core and of those services whose steps
interleave, the TLC runs that check them, and TLAPS proofs.

    tlc -workers 2 -config wifi_commands.cfg  MCCommandEngine    # likewise wan_commands, one_command,
                                                                 # queue_live, claim_*
    tlc -workers 2 -config plan_renewal.cfg   MCPlanRenewal
    tlc -workers 2 -config claim_paid_once.cfg PlanRenewalClaims
    tlc -workers 2 -config device_binding.cfg MCDeviceBinding
    tlc -workers 2 -config dead_letters.cfg   MCEventDelivery    # likewise job_queues
    tlc -workers 2 -config approvals.cfg      MCApprovals
    for m in CommandEngineProofs CommandEngineActions PlanRenewalProofs \
             CommandEngineOrder DeviceBindingProofs EventDeliveryProofs ApprovalsProofs; do tlapm $m.tla; done

## 1. Inventory

Paths are below `src/backend/src/`. "Hard" names what makes the part hard to test.

| part | state | operations | hard | correct when | model |
|---|---|---|---|---|---|
| command engine: `services/cwmpService.ts` (poll, answers, faults), `models/DeviceCommand.ts` | commands in MongoDB; sessions in two in-memory maps; the ACS's copy of the parameter tree (`rawParameters`), `addObjectNotSupported` | Inform, empty POST, GPV/SPV/SPA/AddObject/GPN answers, faults | awaits between reading and saving a command; sessions lost at any point; answers without a reference to their command; re-dispatch; ages | an RPC is charged to the command it belongs to; nothing closed is sent again; every write is read back; the queue never sticks | `CommandEngine` |
| device REST API: `routes/operatorRoutes.ts`, `services/deviceManagementService.ts`, the commands of `services/whatsAppBotService.ts` | the same documents; `wanProfiles` | save, WAN add/edit/delete/rollback/sync-live, clients refresh, actions, synchronous commands, the bot's menu, summon, cancel, retry, regenerate, workspace | runs between any two steps of the engine; some routes heed the lock and supersede, some do neither | an operator's answer stays true | `CommandEngine` |
| WAN discovery: `services/tr098WanDiscoveryService.ts` | none | choose a slot, build and validate parameters | vendor trees | never writes the management slot, never two profiles on one slot | known place or not, only |
| session and tenant binding: `handleInform`, assign/claim/transfer in `routes/operatorRoutes.ts` and `superAdminRoutes.ts` | `Device.tenantId`, `PendingDeviceMapping`, sessions | resolve tenant, block, quarantine, create, assign, claim, sync, transfer, import, delete | several requests about one ONT, several documents of one ONT, two spellings of its serial number | an Inform does not take an ONT from its tenant; answers reach the right document | `DeviceBinding` |
| event bus: `services/eventBusService.ts` | in-memory `deadLetterQueue` | publish, capture, redrive | handlers await while the array moves under an index | no failure vanishes unseen | `EventDelivery` |
| worker queues: `services/workerQueueService.ts` | in-memory queues, `isProcessing` | register, enqueue, one drain loop | jobs queued while the loop runs | every job ends | `EventDelivery` |
| payments: `services/paymentGatewayService.ts`, `reconciliationService.ts` | `PaymentTransaction` | order, webhook, status sync | duplicate webhooks, a crash between two saves | paid once, renewed once | `PlanRenewal` |
| subscriptions: `services/customerPlanService.ts`, `planNotificationService.ts` | `Customer.servicePlan` | renew, activate, expiry scan, notices | read-modify-write by several requests | days are paid for, payments add days, notices come once | `PlanRenewal` |
| approvals: `services/approvalPolicyService.ts`, `aiToolRegistry.ts` | `ApprovalRequest` | propose, decide, execute | a decision is read, executed and then saved | a request is decided and executed once | `Approvals` |
| circuit breaker: `services/circuitBreaker.ts` | counters | execute | - | - | none: no code of the server calls it |
| work orders, warehouse | in-memory map, stock items | transitions, evidence, stock moves | check-then-save | COMPLETED only through the optical gate, one place per item | none |
| the rest (GIS, reports, XML and vendor tables, auth, front end) | single documents or none | views, CRUD, text | little concurrency | - | none: `PROJECT.json` says why for each |

How the parts interact: a REST handler writes a command and rings the CPE
(connection request, best effort). The CPE sends Inform, which resolves its tenant
and binds its document (`DeviceBinding`) and opens a session, then an empty POST;
`checkPendingRpcOrPoll` chooses a command, saves it as `sending` and returns one
RPC; the CPE's answer is the next POST, whose handler updates commands, may return
the next RPC, and otherwise ends the session with 204 (`CommandEngine`). Three answers
have no handler and leave the session as it is. The
workspace view, opened by any operator, is the only place where commands time out.
An approved request queues its command through `queueAndExecuteCommand`, as the
customer portal and the synchronous routes do. A paid webhook renews the plan,
which emits notices (`PlanRenewal`). A job that fails for good publishes an event on
the bus (`EventDelivery`, which composes the two). The models meet only in
single acts (a command is created, an Inform opens a session), so that each is
checked by itself.

## 2. Modules

| module | what it is |
|---|---|
| `CommandTypes` | kinds, statuses, stages, records of commands, sessions and RPCs, the age limits with their assumptions |
| `CommandEngine` | the engine, the REST handlers, the CPE and the environment of one device |
| `CommandEngineClaims` | what the repository's documents, comments and tests claim and the code does not do |
| `WifiName` | the abstract promise about the Wi-Fi name: only open requests change it, a closed one never again |
| `CommandEngineProofs`, `CommandEngineActions`, `CommandEngineOrder` | the inductive invariant; the action properties about ended commands; the order of Wi-Fi saves and the refinement of `WifiName` |
| `PaidRenewal` | the abstract promise: an order renews the plan after its capture, and once |
| `PlanRenewal` | payments, plan and notices of one customer; implements `PaidRenewal` |
| `PlanRenewalClaims`, `PlanRenewalProofs` | a comment the code does not keep; the proofs |
| `DeviceBinding`, `DeviceBindingProofs` | one ONT, its documents, its quarantine record, its tenants |
| `JobPool` | the abstract promise of the worker queues: one worker, one job at a time, bounded attempts |
| `EventDelivery`, `EventDeliveryProofs` | event bus, dead letters, worker queues; implements `JobPool` |
| `Approvals`, `ApprovalsProofs` | approval requests, deciders, commands |
| `MC...` | what the configurations instantiate: the model and its symmetry sets |

One convention holds in all of them, the operators' handlers of the engine excepted
(below). A handler that reads a document, awaits, and saves it is two steps, with every
other handler's steps possible in between; a mongoose save writes the fields whose value
differs from the one read, so saving a copy does not undo what others wrote to other
fields, and does undo it in the same one. Where the code is in memory (the bus and the
queues), one step is what runs between two awaits. A failing await or a stop of the server
is an action (`Abort`, `Fail`, `SessionLost`) that ends a request at any of its awaits and
leaves what it had saved. The properties of the last four models are stated with history
variables, listed apart in each module, which no action of the code reads (`captured`,
what the gateway knows, is read only by what the gateway reports).

### CommandEngine

| variable | code |
|---|---|
| `cmds`, `created` | the `DeviceCommand` documents of the device, numbered in order of creation, so `queuedAt` order is number order |
| `sess` | `ActiveSessionContext`: `stage`, `lastQueriedPaths` |
| `rpc` | the RPC in the last HTTP answer, not yet answered by the CPE (network and CPE) |
| `picked` | the local variables of the running handler, of a poll or of an answer: the command it found, the statuses it will save |
| `raw`, `noAddObject` | `device.rawParameters`, `device.addObjectNotSupported` |
| `cpe` | the parameter tree of the router itself |

The parameter tree has two paths, the SSID and the customer WAN connection; a value
is the factory one, the payload of a command, or "switched off". Passwords and
passphrases have no path because the evaluation skips them. A command's boolean
fields say whether it has `cwmpRequestId` 3 (`rid`), verification targets
(`target`), parameters (`params`), `requiresAddObject` (`needs`),
`addObjectAttempted` (`tried`), and what its `targetObjectName` is (`object`; "known" when
its own copy of the profile has received the `cpeObjectPath`, from which parameters can
be built). Time is the age of each command in ticks,
saturating just above 15 minutes.

`checkPendingRpcOrPoll` reads a command, awaits several queries and only then saves
the document it holds. It is two steps, `PollRead` (`PickVerification`,
`PickOldest`, `PickNewest`, `PickTelemetry`: priorities 0, 1, 2 and none) and one
of the `Send...` actions, and any operator action may come between. A mongoose save
writes only changed fields: `Saved` writes the status only if the poll read another
one, which decides whether a cancel in between survives.

The handlers of answers and faults are split in the same way. The first step finds
the commands to act upon and keeps what it will save in `picked.writes`; a later one
(`SaveWrite`, `SaveRecheck`, `SaveAndClose`, `SaveVerdicts`) saves it, over whatever has
become of the command in between, and answers. So an AddObjectResponse, an AddObject
fault, a DeleteObject fault, an acknowledgement and a read-back may each bring back a
command that an operator canceled, or the workspace view timed out, while the handler
ran. The activation of commands that wait for a slot comes first in every such
handler and is split too (`FindWaiting`, `SaveActivated`). An `updateMany` is one step: it
reads and writes in the database. The saves of one handler are one step where it makes
several, because they touch different documents and nothing is read in between;
`SpvAnswer`'s `updateMany` and the look-up after it are one step as well.

The operator handlers are the disjuncts of `Operator`, one per route, and one step
each: superseding and creating are two awaits in the code and not told apart here.
`GpnAnswer`, `TelemetryFault` and `WriteFault` save no status from a copy.

The CPE performing an RPC and the ACS starting on the answer are one step: no operator
action reads or writes the CPE, so the answer could as well arrive later. A lost
answer is `AnswerUnmatched` (the CPE did its part or not, nobody hears of it). `SessionLost`
covers broken connections, the 120 s session expiry and a restart of the server, which
stops a running handler. A handler that outlives its connection saves all the same; that
is the schedule in which the connection breaks after its save. `ManualSlot` does not run
while commands are activated: the answer that is being handled left the router before,
so that a slot added then shows in the next one.

The answers are attributed as in the code: by `session.stage` for faults, by
`sentAt`/`queuedAt` order for AddObject and DeleteObject, to every unfinished command for
SetParameterValues. `UnroutedAnswer` stands for the answers the router in `cwmpRoutes.ts`
does not recognise (Reboot, FactoryReset, DeleteObject): it answers 200 with an
InformResponse (104-106), no handler runs, the session and its stage stay, and the CPE may
post again. After a DeleteObject the next poll therefore starts with the stage
`CUSTOM_RPC_SENT`. It dispatches no second DeleteObject (`SendDelete` has the code's
guard; such a command falls through to the baseline GPV, `Unhandled`), but it may dispatch
a Reboot, a FactoryReset or a GetParameterNames, which leave the stage alone. A fault to a
Reboot or a FactoryReset is then taken for the fault of a DeleteObject: it fails every
command that is sending (`WriteFault`), or rewrites a DELETE as a SetParameterValues
(`DeleteFallback`). The model has these steps, and `StageTellsRpc` says that nothing else
can be mistaken.

`checkPendingRpcOrPoll` refuses Reboot, FactoryReset and GetParameterNames commands without
a `requestedBy.userId` (1371-1378, 1394-1401). The schema gives the field a default
(`DeviceCommand.ts:154-158`), so the guard never fires and `SendBare` does not have it.

Not all routes go through the same gates, and that is kept: save, actions, edit,
delete, summon and retry first cancel the uncollected commands of their action;
edit, delete and summon heed the 90 s lock; adding and rolling back a profile,
`summon-all`, `wan/sync-live`, `connected-clients/refresh`, the synchronous commands
(`QueueCommand`) and the customer's bot (`BotCommand`) do neither. The bot queues
Wi-Fi commands without parameters, for which the poll has no branch (`Unhandled`).
`connected-clients/refresh` sets fields the schema does not have, so that the
document gets the default action GET_PARAMETERS, which has no branch either.

Properties:

* `StageTellsRpc` - in a live session a write, an AddObject and a request for
  notifications are outstanding exactly under their stages; a DeleteObject only under
  `CUSTOM_RPC_SENT`, and under that stage, which may be stale, only it or a bare RPC.
* `WriteIsAccounted` - a write on its way is on record and was not closed by the engine.
* `CpeValueWasSent` - no configuration of unknown origin on the router.
* `WaitingCanActivate` - what waits for a slot is what the activation check looks at.
* `EndedNotResent` - no poll and no answer takes up a command that has ended. Only a
  handler that had read it before it ended (`Taken`) may save `sending` or `queued` over
  the end. That exception is real: `claim_canceled` shows it for the poll, and the answers
  at 2469, 2896 and 2986 do the same.
* `UnwrittenEndIsFinal` - a command that ended unwritten is not revived by other
  commands' answers and not counted as written, with the same exception (`Holds`).
  Without the request id it can come back only as `success` does.
* `VerifiedNotOverwritten` - a verified SSID is not overwritten by an older save.
* `ClosedStaysClosed` - the refinement of `WifiName`: the Wi-Fi name changes only to what
  an open request asks for or by a factory reset. A request is open while it can be
  collected, is held by a poll that will send it, or is on its way, be it canceled or
  not in the meantime; once closed it never changes the name again.
* `QueueDrains` - every command leaves the queue, unless a command that is never judged
  stands at Priority 0 and no poll gets past it (`Starving`). The code has such a command,
  the save of only a passphrase; the runs include it, and `claim_terminates` is about it.
* `WrittenIsJudged` - every written command with a value that is compared is judged or
  canceled. It says nothing of the passphrase save, which never is.

### PlanRenewal

| variable | code |
|---|---|
| `txn`, `plan`, `history` | `PaymentTransaction.status`; `servicePlan.endDate` and its status; `servicePlan.notificationHistory` |
| `job` | the local variables of each request, copies included |
| `now`, `calls` | the day; requests made so far (bounds `MaxDay`, `MaxCalls`) |
| `captured`, `credited`, `saves`, `contested`, `dropped`, `lost`, `sent`, `repeated`, `excused` | history of what happened |

`Deliver` is `handleWebhook` up to its early return, `SaveTxn` the save after it,
`ReadToRenew` and `SaveRenewal` the renewal it goes on to, with the notices that
`CheckHistory`, `Send` and `Record` emit one by one. `Sync` is the status
synchronisation, `ReadToActivate`/`SaveActivation` the activation, which assigns the
whole plan, `ReadToScan`/`Expire`/`Announce` the expiry scanner, `Retrigger` an
operator's repetition. The gateway (`Capture`, and how often `Deliver` runs) is
external: it reports success only of captured payments, and reports in any number
and order.

* `PaidOnce` - the refinement: every step is a step of `PaidRenewal` or a stutter. A
  payment renews the plan after its capture, and once unless two requests contest it.
* `ClosedIsServed` - a closed payment has renewed the plan, or is about to, or the
  failure between the two saves (or an operator's sync) that prevents it happened.
* `DaysArePaidFor` - no schedule gives more than a cycle per save.
* `CreditAddsCycle`, `ExpiredIsOver` - a credited payment adds a cycle, an expired plan
  is over, unless a save from an outdated copy came between (`lost`).
* `RepeatIsExcused` - a notice comes twice only for one of the listed reasons.

### DeviceBinding

| variable | code |
|---|---|
| `owner`, `used`, `exact` | the `Device` documents of one ONT: `tenantId`, whether created, how the serial number is spelt |
| `pending` | its `PendingDeviceMapping`: status, `mappedTenantId`, the address it was last seen by |
| `job` | the local variables of each request, and of an Inform its session |
| `disturbed`, `missed`, `parted`, `dropped` | history of what happened |

The Inform is `InformResolve`, `InformCheck` (the ownership gate), `InformLookup` or
`InformQuarantine`, then `InformSave`, `InformCreate`, or `InformCollide` and
`InformUpsert`; its session polls and answers. `Assign`/`AssignLookup`/`MoveSave`/
`SameSave`/`MissingCreate`/`ClaimNext` are the assigning routes, `Sync...` the fleet
synchronisation, `Transfer`, `Import`, `Delete`, `Ignore`, `Forget` the rest.
`findOne` has no order: any of several matching documents is returned.

* `AnswersAreKept` - an answer is dropped only if the documents changed since the Inform.
* `TwinsExplained` - two documents of one ONT have one of three origins.
* `GateHolds` - a session by a tenant's path gets the commands of that tenant's document.
* `AssignedIsAdmitted` - after an assignment the ONT is not blocked at its new tenant.
* `OwnerMovesByHand` - an Inform takes a document from its owner only if the documents
  changed while it ran.

### EventDelivery

| variable | code |
|---|---|
| `pub`, `dlq`, `redrive` | which handler `publish` awaits; `deadLetterQueue`; the local variables of each `redriveDeadLetter` |
| `order`, `waiting`, `workers`, `job`, `wakes`, `loop` | the Map of queues, their jobs, handlers, timers, and `processNextJobs` |
| `served`, `lost`, `shifted`, `passed` | history of what happened |

* `FailureIsOnRecord` - every failed handler is handled later, on record, or lost.
* `LossIsExplained` - a letter that was not redriven goes only from the end of a full
  queue or to a redrive whose index has moved.
* `ExhaustedIsOnRecord` - a job that failed for good and that the loop has left is, for
  every subscriber, handled, on record or lost: `publish` is awaited before the loop
  goes on.
* `OneJobAtATime` - the refinement of `JobPool`. The worker's job is `loop.job`; a
  failure is reported when `publish` has begun on it, and heard when it has been
  through all subscribers.
* `NoneStranded`, `JobsEnd` - when nobody is awake, and eventually, every job whose
  queue has a handler has ended, except those queued behind the running loop or
  before their queue had a handler.

### Approvals

`request` are the `ApprovalRequest` documents, `decider` the calls of
`decideRequest` (`Read`, `Queue`, `Save`, `Fail`), `madeFor` the commands they queued.

* `ExecutedOnce`, `UnapprovedIsNotExecuted`, `DecisionStands` - with the two
  exceptions the code has: two calls that both read the request as pending, and a
  call that failed after it had queued the command.
* `ApprovedIsExecuted` - an approved request names its command. (No deletion of a WAN
  profile can be approved: the action is not in the enum of the command's schema.)

Where the code loses something, the property says when it may: the exceptions above
are part of what is checked. Each stands for a schedule that TLC finds when the
exception is left out.

## 3. Runs

| run | instance | what it shows |
|---|---|---|
| `wifi_commands` | 2 commands of Wi-Fi save, passphrase save, factory reset; cancel, retry; faults 9005 and other; omitted parameters | type invariant, writes on record, the promise of `WifiName`, no revival of the unwritten, no old SSID over a verified one |
| `wan_commands` | 2 commands of WAN profile (place known or not), Wi-Fi save, delete, reboot, regenerate; router with and without the slot; fault 9003 and another | misattributed answers and faults, stale stage, read-then-save windows: stage, origin of values, ended commands |
| `one_command` | 1 command of any kind by any route, cancel, retry, all faults, under fairness | the command drains and is judged, the passphrase save excepted by name; slot waiters can be activated |
| `queue_live` | 2 commands of Wi-Fi save, passphrase save, sync-live, under fairness | the queue drains behind a command its answer never completes, and stands still only behind one that is never judged |
| `plan_renewal` | 1 payment, 2 requests at a time, 3 in all, cycle 2 days, 2 days | the promise of `PaidRenewal`, days, expiry, notices |
| `device_binding` | 2 tenants, 2 documents, 2 requests at a time, 4 in all | the five properties of tenancy |
| `dead_letters` | 1 job, 1 other event, 2 subscribers, 2 redrivers, queue of 2 | dead letters, and what remains of a job that failed for good |
| `job_queues` | 3 jobs, 2 queues, 2 attempts, under fairness | the drain loop, the promise of `JobPool` |
| `approvals` | 2 requests, 3 calls at a time, 3 commands | decisions and executions |
| `claim_success`, `claim_terminates`, `claim_paid_once` | 1 or 2 commands; 1 payment | counterexamples, section 4 |

The engine's runs reach 1 035 077 (`wifi_commands`), 1 431 537 (`wan_commands`), 62 369
(`one_command`) and 74 944 (`queue_live`) distinct states, in one to three minutes each.

**Bounds of the engine.** An instance is chosen by `Requests` (what operators ask for),
`Faults` (what the CPE answers) and `Slots` (whether the router has the customer's WAN
slot at first). All use `LockAge = RecentAge = 1` and `TimeoutAge = 0`. With `ExpireAge =
1` one tick takes a command past 90, 120 and 180 s, the second past 900 s. `wan_commands`,
which has the most kinds, is coarser: with `ExpireAge = 0` a tick is 15 minutes, and what
happens to a command that is old but not yet expired is left to the other three runs. All
orders of the four limits that `AgesAssumption` allows are covered by the proofs; in the
runs each limit is passed at a different point of every schedule because ticks interleave
with everything except a running handler (whose awaits take milliseconds). Two commands
are enough for the interference the properties are about: every handler treats "the
command of the answer", "the newest", "the oldest" and "the others" separately, and with
two commands all of these differ already. Wi-Fi saves and WAN commands meet in
`wan_commands`, where an acknowledgement, a write fault or a read-back of one kind is
charged to the other; `wifi_commands` has the retries and the finer time that the order of
Wi-Fi saves depends on. Liveness is split over `queue_live` and `one_command` because the
liveness graph of two commands of every kind is too large.

**Bounds of the others.** The hazards are races of two requests that hold copies of one
document, so two at a time, with a third or fourth before or after them, meet
every pair of reads and saves; a plan ends on the day after the first, so that it
expires, is announced and is renewed in each order. A queue of two dead letters is
full while one is redriven and another arrives. Three jobs in two queues put a job
behind, at and before the loop. Three deciders let one contested request be decided
twice more. Everything proved in section 5 holds without these bounds.

**Deadlock** is checked for the engine. The other runs have `CHECK_DEADLOCK FALSE`
because the number of requests, jobs or events of an instance is finite and runs
out. **Symmetry** is used where no liveness is checked.

**Fairness of the engine.** `FairSpec` assumes that the environment keeps turning: a session
that stands still expires, an answer without a session is rejected, and the CPE informs
again (`Reconnect`, weak: `cleanExpiredSessions`, socket close, periodic Inform), and the
clock advances (`Tick`, strong because a running handler disables it). Connections may
break and the server may restart infinitely often, in the middle of any handler, so
whatever needs both alive is only strongly fair: a poll and its second half (`PollRead`,
`PollSend`), an acknowledgement (`Acknowledgement`), the answer to a GPV (`ReadBack`) and the
save of its verdicts (`SaveVerdicts`) that get the chance again and again happen at last.
No fairness is assumed of operators, of faults, of the other saves, of activation or of
`ManualSlot`: a command that waits for a slot leaves the queue by the dispatch of
Priority 1 or by expiry.

**Fairness of the queues.** Timers fire (`Wake`), a handler that was called returns or
throws (`JobDone`, `JobRetried` or `JobExhausted`; `Handled` or `HandlerFailed`), and
the loop goes on after it (`Reported`): all weak, and all that the event loop of the
server guarantees if no handler hangs. Nothing is assumed of whoever enqueues.

## 4. Where the code and what is said of it differ

Each `claim_` configuration states one line of the repository and TLC finds the
code's behaviour against it. Three are runs of `PROJECT.json`, whose findings quote the
lines; the others are kept to be run by hand (`tlc -config claim_lock.cfg
MCCommandEngine`).

| configuration | claim | what happens |
|---|---|---|
| `claim_success` | never successful just because a SOAP response was 200 | one command's acknowledgement marks another, never sent, success |
| `claim_paid_once` | idempotent update of the transaction | two deliveries of one webhook read it open and renew twice |
| `claim_lock` | do not dispatch any other command | Priority 2 ignores the lock and the action filter |
| `claim_observed` | verified if the observed value matches | the look-up falls back on the ACS's own optimistic copy |
| `claim_terminates` | mismatch or timeout gives VERIFICATION_FAILED | a passphrase-only change verifies for ever, and starves the queue |
| `claim_canceled` | CANCELLED is final | a running poll overwrites it and sends the RPC |
| `claim_reboot` | zero duplicate execution | the RebootResponse is not routed; the next session reboots again |

Others met while modelling, which have no run of their own: a save pending while another
write is answered is moved to `verifying` with nothing to verify and never sent
(`cwmpService.ts:2617`); a verdict can be taken back, because commands with
`cwmpRequestId` 3 are moved to `verifying` by every later acknowledgement
(`cwmpService.ts:2505`); a fault to a Reboot after an unrouted DeleteObjectResponse fails
or rewrites another command (`cwmpService.ts:2934`, `cwmpRoutes.ts:104`); a command
canceled while an answer is handled is sent (`cwmpService.ts:2469`); "Root ACS access ...
MUST NEVER auto-assign" (`cwmpService.ts:554`) stands below code that returns a sole
tenant for such a request (524-536), which `DeviceBinding` models and no property is
about; a command waiting for a slot is dispatched by Priority 1 before the slot exists
(`cwmpService.ts:1323`); the locked WAN edit promises a delivery it does not queue
(`operatorRoutes.ts:2083`); the WAN commit stores an un-awaited promise as its parameters
(`operatorRoutes.ts:2688`); a redrive that removes by a stale index leaves its own letter
and drops another (`eventBusService.ts:122`); a crash after SUCCESS is saved costs the
customer the renewal, and no later webhook makes up for it
(`paymentGatewayService.ts:313`).

## 5. Proofs

Every theorem holds for all values of the constants that satisfy the named
assumptions (`BoundsAssumption`, `AgesAssumption`, `RenewalAssumption`,
`BindingAssumption`, `DeliveryAssumption`, `ApprovalAssumption`).

| module | theorems (property) |
|---|---|
| `CommandEngineProofs` | `Invariance`, `TypeCorrectness` (`TypeOK`), `StageIsTruthful` (`StageTellsRpc`), `WritesAreAccounted` (`WriteIsAccounted`), `ConfigurationHasOrigin` (`CpeValueWasSent`), `WaitersCanBeActivated` (`WaitingCanActivate`) |
| `CommandEngineActions` | `EndedIsNotResent` (`EndedNotResent`), `UnwrittenEndsStay` (`UnwrittenEndIsFinal`) |
| `CommandEngineOrder` | `WifiStaysInOrder`, `VerifiedIsNotOverwritten` (`VerifiedNotOverwritten`), `NamesAreDelivered` (`ClosedStaysClosed`) |
| `PlanRenewalProofs` | `TypeCorrectness`, `NoFreeDays` (`DaysArePaidFor`), `OnlyOverExpires` (`ExpiredIsOver`), `CreditAddsACycle` (`CreditAddsCycle`), `ClosedAreServed` (`ClosedIsServed`), `Refinement` (`PaidOnce`), `RepeatsAreExcused` (`RepeatIsExcused`) |
| `DeviceBindingProofs` | `BindingInvariance`, `TypeCorrectness`, `TwinsHaveACause` (`TwinsExplained`), `NoAnswerIsDropped` (`AnswersAreKept`), `TheGateHolds` (`GateHolds`), `AssignedAreAdmitted` (`AssignedIsAdmitted`), `OwnersMoveByHand` (`OwnerMovesByHand`) |
| `EventDeliveryProofs` | `TypeCorrectness`, `FailuresAreOnRecord` (`FailureIsOnRecord`), `LossesAreExplained` (`LossIsExplained`), `NobodyIsStranded` (`NoneStranded`), `ExhaustedAreOnRecord` (`ExhaustedIsOnRecord`), `JobsRunOneAtATime` (`OneJobAtATime`) |
| `ApprovalsProofs` | `TypeCorrectness`, `ExecutesOnce` (`ExecutedOnce`), `UnapprovedStaysUnexecuted` (`UnapprovedIsNotExecuted`), `ApprovedExecutes` (`ApprovedIsExecuted`), `DecisionsStand` (`DecisionStands`) |

### The engine

None of the four safety invariants is inductive. `IInv` is their conjunction with
`TypeOK` and four more facts:

* `RestIsAcked`: while a session waits for a poll, and while one runs, its stage is
  `INFORM_ACKED` or, after an unrouted answer, `CUSTOM_RPC_SENT`; a poll and the second half
  of an answer run with no RPC out, an activation with one. Every handler that does not
  return an RPC ends the session, so that no other stage is left behind. `StageTellsRpc`
  rests on it, since Reboot, FactoryReset and GetParameterNames leave the stage as it was.
* `PickedExists`: what a running handler holds is an existing command, and one whose
  status it will not save, because it read `sending`, has meanwhile at most been
  canceled, timed out or moved on to its read-back. The write it sends then still
  satisfies `WriteIsAccounted`.
* `PlansExist`: what a handler will save is a document, and what it lets wait for a slot
  may wait for one.
* `SpvExists`: an outstanding SetParameterValues belongs to an existing command, which no
  running activation will put back in the queue.

The proof that a step preserves `IInv` has one lemma per action. Most actions
change either the documents or the session, so the invariant is split into `DataOK`
and `CwmpOK`; two relations carry the rest: `Revised` (documents are neither created
nor removed, keep what they ask for and what was recorded of them, and none starts
waiting for a slot) and `Relied` (what a running poll or a write on its way needs
of its command is kept). Lemmas about `Mark`, `Recorded`,
`Planned`, `Overwritten` and the record constructors give the types once.

The action properties need two more facts, added in `JInv`: `TargetHasId`
(verification targets are stored together with the request id) and
`VerifiesWritten` (a poll that asks for a read-back holds a command with the request
id). Without them a poll could turn a command that was canceled unwritten into a
verifying one. The proof then says two things of the steps. Every step that saves nothing
it had read before `Settles`: it leaves the commands that have ended alone, but for
canceling them. Every step that reads `Spares` them: what it will save is no command that
has ended, except to read back one with the request id or `success`. The saves, and the
second half of a poll, change no command but the ones they hold.

The order of Wi-Fi saves needs a fact of its own, `WifiInOrder`: once a Wi-Fi command has
been acknowledged (its status is one of `Covered`, a poll is reading it back, or a handler
is about to save such a status), no older Wi-Fi command is outstanding - in an uncollected
status, held by a dispatching poll, or on its way. It is what makes re-dispatch after a
lost answer harmless: the engine may send an old write again and again, but only until
some write is answered, and that answer moves every open command of the device on. `OInv`
is `IInv` with `WifiInOrder` and `PlansForWifi` (what an answer's handler will save of a
Wi-Fi command acknowledges it, and the writes that follow an AddObject or a fault are no
Wi-Fi command's). Every step is shown to keep the order and to reopen no Wi-Fi command
(`Kept`): most updates of documents neither acknowledge nor open one (`Calm`), an
acknowledgement leaves none open, a poll sends only what was open, and a new command is
older than no other. `VerifiedNotOverwritten` follows, because the command on its way is
outstanding.

The refinement of `WifiName` maps `asked` to the payloads of the Wi-Fi commands, `open` to
`OpenNames` and `name` to the CPE's SSID. `CreatesOne` gives the abstract `Ask`;
`TakesDelivers` gives `Deliver`: an SPV that changes the SSID carries the payload of an
outstanding command and closes all open requests, its own, or none; `KeepsCloses`
covers every other step (`Close`, or a stutter).

### The plan

Three invariants, each on top of the type invariant, to which `JobsWhole` adds what
the places of a handler imply (a renewing one aims past what it read, an emitting one
has a notice left).
`PlanInv` says of every copy that nobody has saved over that it still agrees with the
plan (`CopyGood`), and bounds what any running save could write by one cycle more than
the plan may have (the limit is an invariant only with the pending saves counted).
`PayInv` says what each running webhook still owes (`PayJob`) and that an uncontested
payment is served at most once, by the handler or by the credit but not both
(`ServedOnce`); it gives `ClosedIsServed` and, step by step, the refinement.
`NoticeInv` says that what was sent is known - recorded, about to be, or excused
(`SentIsKnown`) - and that a handler about to send has looked or is excused
(`Careful`).

### The binding

`BindInv` says what an undisturbed request has seen (`Named`, `Seen`): the document
it found is still there with the owner it read, and if it found none there is none
that its search could show. `AssignmentStands` says that while nothing has parted a document
from the last assignment, the documents are its tenant's or the assignment is still
running. The action properties follow from it at the steps in question.

### The bus, the queues and the approvals

`BusInv`: a redriver has been through the handlers before the one it awaits
(`RedriveServed`), an unshifted one points at its letter (`PointsAtLetter`), every failure
is on record. `PoolInv`: a job is new, in one queue once, at the loop, or ended (`Fresh`,
`Once`, `ListedOnce`), and the queues the loop has left hold only jobs that were passed
(`LeftPassed`), from which `NoneStranded` follows when the loop ends. `WorkInv` adds
`FailedIsPublished`: `publish` has begun on exactly the jobs that failed for good, so that
each failure is reported once. The refinement of `JobPool` needs it for that step. The
abstract worker goes on after a failure only when everybody has heard of it, which gives
`HeardBeforeNext` by its steps alone; with `FailureIsOnRecord` it gives
`ExhaustedIsOnRecord`. The approvals rest on six facts: a call has read its request
(`CallsReadRequests`), holds a command made for it (`CommandsOfCalls`), is alone with it
or the request is contested (`Alone`), a decided request is held by nobody else
(`Settled`), an approved one has its command (`ApprovedHasCommand`), and every command is
accounted for by a call, a request, or an exception (`Accounted`).

Model-checked only: liveness (`QueueDrains`, `WrittenIsJudged`, `JobsEnd`), which
TLAPS cannot prove under fairness. Every other property of the passing runs is stated
by a theorem.

## 6. What is not modelled

* In the engine: `CUSTOM_RPC`, `DELETE_OR_DISABLE`, root discovery of a device whose tree
  is unknown, auto-alignment of slot 2 to slot 1, the suffix look-up of read-backs, TR-181
  devices, the statuses that no code of the engine writes (`created`, `authorized`,
  `sent`, ...). The save of a stale device document in `handleParameterValuesResponse`
  (3673, which overwrites a `rawParameters` that an operator has changed since) is listed
  as a hazard: the merge of an answer is one step with the values it merges into.
  Superseding and creating are two awaits in the code and one step here. AddObject in the
  model allocates the place the command needs; slot numbers are abstracted.
* In the REST API: `wifi/ssid` (other WLAN instances), WAN `commit` (its parameters
  are a promise, and what is sent depends on how mongoose stores one), `scan-wifi`,
  `refresh-telemetry`, the online flag set by `connected-clients/refresh`.
* In the binding: the telemetry and alerts of an Inform, the two session maps by
  cookie and by connection.
* In the payments: signatures and formats of the gateways, refunds, outgoing
  webhooks, plan catalogue, invoices.
* In the bus: a restart, which loses all of its memory; counts and messages that are
  only shown.
* `approveAction` of the AI commands (one save that starts nothing), the policy
  check `requiresApproval` (nothing calls it), the circuit breaker (nothing calls it).
* Warehouse (check-then-save on one item) and work orders (one actor).
* Text: XML, vendor tables, parameter names, slot selection; real-valued
  calculations of the optical budget; views, reports and the web front end, which
  keep no state of the system. These are most of the repository's lines, which is why
  the modelled share of it is small.

## 7. Done and left

Done: the engine with all routes named above and the refinement of `WifiName`, payments
and plan with that of `PaidRenewal`, tenant binding, event bus and queues with that of
`JobPool`, approvals, and their proofs.

Left, in this order: a module for the warehouse's stock moves; the WAN commit and
the splitting of supersede-and-create into two steps; the documented lifecycle of a
command (part-2-2) as an abstract specification and the engine shown to implement
its acyclic part; slot choice and parameter validation as pure operators.
