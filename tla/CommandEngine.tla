---------------------------- MODULE CommandEngine ----------------------------
(***************************************************************************)
(* One managed ONT and the ACS that configures it: operators queue, retry  *)
(* and cancel DeviceCommands over the REST API; the CPE opens CWMP         *)
(* sessions and polls; the ACS dispatches one RPC at a time, handles the   *)
(* CPE's answers and evaluates read-backs; anyone who opens the device     *)
(* workspace reconciles stale commands.  Sessions live in the memory of    *)
(* the server, commands in MongoDB.                                        *)
(*                                                                         *)
(* Granularity.  checkPendingRpcOrPoll reads its command, awaits, and only *)
(* then saves it and answers; the handler of an answer finds commands and  *)
(* later saves the documents it holds.  What they read is kept in picked,  *)
(* the saves are steps of their own, and every operator action may run in  *)
(* between.  An updateMany, the handlers of the operators and handlers     *)
(* that save no status are one step; the CPE performing an RPC and the ACS *)
(* starting on its answer are one step, because nothing the operators do   *)
(* changes the CPE.                                                        *)
(***************************************************************************)
EXTENDS CommandTypes

VARIABLES
  created,      \* how many DeviceCommand documents exist
  cmds,         \* the DeviceCommand collection of this device
  sess,         \* the session object of the current CWMP session
  rpc,          \* the RPC the CPE has received and not answered yet
  picked,       \* what the running CWMP handler has read, if any
  raw,          \* device.rawParameters, the ACS's copy of the parameter tree
  noAddObject,  \* device.addObjectNotSupported
  cpe           \* the parameter tree of the CPE itself

vars == <<created, cmds, sess, rpc, picked, raw, noAddObject, cpe>>
device == <<raw, noAddObject, cpe>>
cwmp   == <<sess, rpc, picked>>

Init ==
  /\ created = 0
  /\ cmds = [c \in Cmds |-> Blank]
  /\ sess = NoSession /\ rpc = NoRpc /\ picked = Idle
  /\ \E slot \in Slots :
       cpe = [p \in Paths |-> IF p = "ssid" \/ slot THEN Factory ELSE Absent]
  /\ raw = cpe
  /\ noAddObject = FALSE

-------------------------------------------------------------------------------
(* Operators: the REST handlers of operatorRoutes.ts, for a device that is    *)
(* online.  Each creates at most one document.                                *)

\* A new document of kind k.
New(k, st, v) == [Blank EXCEPT !.kind = k, !.status = st, !.val = v,
                               !.params = k \in {"WIFI", "PASS"}]

\* The collection cs and one more document.
Create(cs, new) ==
  /\ created < MaxCmds
  /\ created' = created + 1
  /\ cmds' = [cs EXCEPT ![created + 1] = new]

\* Mutant of Superseded: a status the schema does not have (updateMany does not
\* validate it).
SupersededUnknown(cs, action, sts) ==
  Mark(cs, {c \in WithStatus(cs, sts) : Action(cs[c].kind) = action}, "superseded")

\* The de-duplication every handler runs first: cancel the uncollected commands
\* of an action.
Superseded(cs, action, sts) ==
  Mark(cs, {c \in WithStatus(cs, sts) : Action(cs[c].kind) = action}, "canceled")

\* PUT /devices/:id/configuration writes the new SSID into the ACS's own copy
\* of the parameter tree before the CPE has seen it.
SaveWifi(k) ==
  /\ k \in {"WIFI", "PASS"} \cap Requests
  /\ Create(Superseded(cmds, "SET_WIFI_CONFIG", Uncollected), New(k, "pending", created + 1))
  /\ raw' = IF k = "WIFI" THEN [raw EXCEPT !["ssid"] = created + 1] ELSE raw
  /\ UNCHANGED <<cwmp, noAddObject, cpe>>

\* A WAN profile whose place in the parameter tree is not known needs a new object;
\* parameters can be built for a known place only.
MayNeed(needs) == "WAN" \in Requests /\ (needs => "NEW_SLOT" \in Requests)

NewWan(needs, object) ==
  [New("WAN", "queued", created + 1) EXCEPT
     !.needs = needs, !.params = ~needs, !.object = object]

\* POST wan/profiles: no lock and no de-duplication.
AddWan(needs) ==
  /\ MayNeed(needs)
  /\ Create(cmds, NewWan(needs, "parent"))
  /\ UNCHANGED <<cwmp, device>>

\* POST wan/profiles/:profileId/rollback: neither, and never a new slot.
RollbackWan ==
  /\ "WAN" \in Requests
  /\ Create(cmds, NewWan(FALSE, "none"))
  /\ UNCHANGED <<cwmp, device>>

\* The in-flight commands, one of which findOne returns, and their age.
Locking == {c \in WithStatus(cmds, InFlight) : ~IsPoll(cmds[c].kind)}
Age(c)  == IF cmds[c].sAge = NotSent THEN cmds[c].qAge ELSE cmds[c].sAge
MayPass == Locking = {} \/ \E l \in Locking : Age(l) >= LockAge
MayHold == \E l \in Locking : Age(l) < LockAge

\* PUT wan/profiles/:profileId.  When the lock holds, the profile is saved, the
\* operator is told that delivery is queued, and no command is created: nothing
\* of this state changes.
EditWan(needs) ==
  /\ MayNeed(needs)
  /\ MayPass
  /\ Create(Superseded(cmds, "WAN", Uncollected),
            NewWan(needs, IF needs THEN "parent" ELSE "none"))
  /\ UNCHANGED <<cwmp, device>>

\* DELETE wan/profiles/:profileId purges the slot from the ACS's copy at once.
DeleteWan ==
  /\ "DELETE" \in Requests
  /\ MayPass
  /\ Create(Superseded(cmds, "WAN", Uncollected), New("DELETE", "queued", Off))
  /\ raw' = [raw EXCEPT !["wan"] = Absent]
  /\ UNCHANGED <<cwmp, noAddObject, cpe>>

\* POST actions/:action (reboot, factory reset, sync).
DeviceAction(k) ==
  /\ k \in {"REBOOT", "RESET", "DIAG"} \cap Requests
  /\ Create(Superseded(cmds, k, Uncollected), New(k, "pending", Factory))
  /\ UNCHANGED <<cwmp, device>>

\* POST summon.
Summon ==
  /\ "SUMMON" \in Requests
  /\ MayPass
  /\ Create(Superseded(cmds, "SUMMON", Uncollected \cup {"sending"}),
            New("SUMMON", "pending", Factory))
  /\ UNCHANGED <<cwmp, device>>

\* POST devices/summon-all, for this device of the fleet: no lock, no
\* de-duplication.
SummonAll ==
  /\ "SUMMON" \in Requests
  /\ Create(cmds, New("SUMMON", "pending", Factory))
  /\ UNCHANGED <<cwmp, device>>

\* POST wan/sync-live.
SyncLive ==
  /\ "SYNC" \in Requests
  /\ Create(cmds, New("SYNC", "queued", Factory))
  /\ UNCHANGED <<cwmp, device>>

\* POST connected-clients/refresh.
RefreshClients ==
  /\ "CLIENTS" \in Requests
  /\ Create(cmds, New("CLIENTS", "pending", Factory))
  /\ UNCHANGED <<cwmp, device>>

Payload(k) == IF k \in {"WIFI", "PASS", "WAN"} THEN created + 1 ELSE Factory

\* DeviceManagementService.queueAndExecuteCommand, for POST wifi, wan, block-client,
\* diagnostics and reboot: no lock, no de-duplication.  A WAN command always has
\* parameters, a Wi-Fi command those that the request names.
QueueCommand(k, named) ==
  /\ "DIRECT" \in Requests
  /\ k \in {"WIFI", "PASS", "WAN", "BLOCK", "DIAG", "REBOOT"} \cap Requests
  /\ Create(cmds, [New(k, "pending", Payload(k)) EXCEPT
                     !.params = k = "WAN" \/ (k \in {"WIFI", "PASS"} /\ named)])
  /\ UNCHANGED <<cwmp, device>>

\* The customer's menu on WhatsApp: neither, and no parameters for the CPE.
BotCommand(k) ==
  /\ "BOT" \in Requests
  /\ k \in {"WIFI", "PASS", "BLOCK", "REBOOT"} \cap Requests
  /\ Create(cmds, [New(k, "queued", Payload(k)) EXCEPT !.params = FALSE])
  /\ UNCHANGED <<cwmp, device>>

\* POST commands/:commandId/cancel refuses only success and failed.
Cancel(c) ==
  /\ "CANCEL" \in Requests
  /\ cmds[c].status \notin {"none", "success", "failed"}
  /\ cmds' = Mark(cmds, {c}, "canceled")
  /\ UNCHANGED <<created, cwmp, device>>

\* POST commands/:commandId/retry: whatever the status of the old command.  The
\* new one carries its parameters, addObjectAttempted included; those of a WAN
\* command are built afresh when the ACS's copy of the tree has a place for them.
Retry(c) ==
  LET old == cmds[c] IN
  /\ "RETRY" \in Requests
  /\ old.status # "none"
  /\ Create(Superseded(cmds, Action(old.kind), Uncollected),
            [New(old.kind, "pending", old.val) EXCEPT
               !.params = old.params \/ (IsWan(old.kind) /\ raw["wan"] # Absent),
               !.needs = old.needs, !.tried = old.tried, !.object = old.object])
  /\ UNCHANGED <<cwmp, device>>

\* The same request refused as an identical payload: the handler has already
\* canceled what was uncollected.
RetryRefused(c) ==
  /\ "RETRY" \in Requests
  /\ IsWan(cmds[c].kind) /\ ~cmds[c].retryable
  /\ cmds' = Superseded(cmds, Action(cmds[c].kind), Uncollected)
  /\ UNCHANGED <<created, cwmp, device>>

\* POST commands/:commandId/refresh-and-regenerate.
Regenerate(c) ==
  /\ "NAMES" \in Requests
  /\ cmds[c].status # "none"
  /\ Create(Mark(cmds, {c}, "canceled"), New("NAMES", "pending", Factory))
  /\ UNCHANGED <<cwmp, device>>

\* GET workspace: the only place where commands time out.
Stale == {c \in WithStatus(cmds, {"sending"}) : cmds[c].sAge > TimeoutAge}
Workspace ==
  LET await  == {c \in Stale : IsWan(cmds[c].kind) /\ cmds[c].rid}
      waited == {c \in WithStatus(cmds, Uncollected) : cmds[c].qAge > TimeoutAge}
      polls  == {c \in WithStatus(cmds, {"verifying"}) : cmds[c].kind \in {"SUMMON", "SYNC"}}
  IN /\ await \cup Stale \cup waited \cup polls # {}
     /\ cmds' = Mark(Mark(Mark(cmds, await, "applied_pending_verification"),
                          (Stale \ await) \cup waited, "timed_out"),
                     polls, "success")
     /\ UNCHANGED <<created, cwmp, device>>

Operator ==
  \/ \E k \in Requests : \/ SaveWifi(k) \/ DeviceAction(k) \/ BotCommand(k)
                         \/ \E named \in BOOLEAN : QueueCommand(k, named)
  \/ \E needs \in BOOLEAN : AddWan(needs) \/ EditWan(needs)
  \/ RollbackWan \/ DeleteWan \/ Summon \/ SummonAll \/ SyncLive \/ RefreshClients
  \/ Workspace
  \/ \E c \in Cmds : Cancel(c) \/ Retry(c) \/ RetryRefused(c) \/ Regenerate(c)

-------------------------------------------------------------------------------
(* checkPendingRpcOrPoll, first half: what the empty POST's handler reads.    *)

\* Mutants of Ready: failed read-backs are retried by themselves; commands that
\* wait for a slot are left alone until it is there.
ReadyRetriesFailed ==
  {c \in WithStatus(cmds, Uncollected \cup {"sending", "waiting_for_wan_slot", "verification_failed"}) :
     ~IsPoll(cmds[c].kind)}
ReadyWithoutWaiting ==
  {c \in WithStatus(cmds, Uncollected \cup {"sending"}) : ~IsPoll(cmds[c].kind)}

\* Mutant of Sendable: everything that has not succeeded or failed.
SendableUnlessClosed ==
  {c \in Cmds : cmds[c].status \notin {"none", "success", "failed"}}

Awaiting == {c \in WithStatus(cmds, {"applied_pending_verification", "verifying"}) :
               cmds[c].target}
Ready    == {c \in WithStatus(cmds, Uncollected \cup {"sending", "waiting_for_wan_slot"}) :
               ~IsPoll(cmds[c].kind)}
Sendable == WithStatus(cmds, Uncollected \cup {"sending"})

ForDispatch(c) == [Idle EXCEPT !.mode = "dispatch", !.cmd = c, !.slot = raw["wan"] # Absent,
                               !.same = cmds[c].status = "sending"]

\* Priority 0: the newest command that awaits its read-back.
PickVerification == \E c \in Cmds :
  /\ IsNewest(c, Awaiting)
  /\ picked' = [Idle EXCEPT !.mode = "verify", !.cmd = c, !.same = cmds[c].status = "verifying"]

\* Priority 1: the oldest configuration command, unless the lock holds.
PickOldest == \E c \in Cmds :
  /\ Awaiting = {} /\ MayPass
  /\ IsOldest(c, Ready)
  /\ picked' = ForDispatch(c)

\* Priority 2: the newest command of any action, also when the lock held.
PickNewest == \E c \in Cmds :
  /\ Awaiting = {} /\ (Ready = {} \/ MayHold)
  /\ IsNewest(c, Sendable)
  /\ picked' = ForDispatch(c)

PickTelemetry ==
  /\ Awaiting = {} /\ (Ready = {} \/ MayHold)
  /\ Sendable = {}
  /\ picked' = [Idle EXCEPT !.mode = "telemetry"]

PollRead ==
  /\ sess.stage # "NONE" /\ rpc = NoRpc /\ picked = Idle
  /\ PickVerification \/ PickOldest \/ PickNewest \/ PickTelemetry
  /\ UNCHANGED <<created, cmds, sess, rpc, device>>

-------------------------------------------------------------------------------
(* checkPendingRpcOrPoll, second half: save the command and answer the POST.  *)

\* The handler's answer to the POST: the RPC r.
Answer(stage, lastQ, r) ==
  picked' = Idle /\ sess' = [stage |-> stage, lastQ |-> lastQ] /\ rpc' = r

\* 204 No Content: the CPE closes the session.
NoContent == picked' = Idle /\ sess' = NoSession /\ rpc' = NoRpc

\* The command a poll has read, saved with a status.
Saved(cs, c, st) == IF picked.same THEN cs ELSE Mark(cs, {c}, st)

\* cs with c saved as sending, sentAt now.
Dispatched(cs, c) == [Saved(cs, c, "sending") EXCEPT ![c].sAge = 0]

SendVerification ==
  LET c == picked.cmd IN
  /\ picked.mode = "verify"
  /\ cmds' = Saved(cmds, c, "verifying")
  /\ Answer("VERIFICATION_GPV_SENT", sess.lastQ,
            [type |-> "GPV", cmd |-> c, q |-> TargetPaths(cmds[c].kind)])
  /\ UNCHANGED <<created, device>>

\* Mutant of Expired: the age is counted from the last dispatch.
ExpiredSinceSent(c) == cmds[c].sAge > ExpireAge

Expired(c) == cmds[c].qAge > ExpireAge

DropStale ==
  LET c == picked.cmd IN
  /\ picked.mode = "dispatch" /\ Expired(c)
  /\ cmds' = Mark(cmds, {c}, "expired")
  /\ NoContent
  /\ UNCHANGED <<created, device>>

\* The command the handler goes on with.
Dispatching(c) == picked.mode = "dispatch" /\ picked.cmd = c /\ ~Expired(c)

\* Reboot, FactoryReset and GetParameterNames leave the session's stage alone.  Their
\* guard on requestedBy never refuses: the schema gives every command a userId.
SendBare(c) ==
  /\ Dispatching(c) /\ cmds[c].kind \in {"REBOOT", "RESET", "NAMES"}
  /\ cmds' = Dispatched(cmds, c)
  /\ Answer(sess.stage, sess.lastQ,
            [type |-> IF cmds[c].kind = "NAMES" THEN "GPN" ELSE cmds[c].kind,
             cmd |-> c, q |-> {}])
  /\ UNCHANGED <<created, device>>

\* The GPV of a live poll, of a live synchronisation and of the periodic baseline:
\* each reads the SSID and the WAN subtree.
Baseline(c) == [type |-> "GPV", cmd |-> c, q |-> Paths]

SendSummon(c) ==
  /\ Dispatching(c) /\ cmds[c].kind \in {"SUMMON", "SYNC"}
  /\ cmds' = Dispatched(cmds, c)
  /\ Answer("BASELINE_SENT", Paths, Baseline(c))
  /\ UNCHANGED <<created, device>>

\* Mutant of SendDelete: the session does not learn that a DeleteObject is out.
SendDeleteUnstaged(c) ==
  /\ Dispatching(c) /\ cmds[c].kind = "DELETE" /\ sess.stage # "CUSTOM_RPC_SENT"
  /\ cmds' = Dispatched(cmds, c)
  /\ Answer(sess.stage, sess.lastQ, [type |-> "DEL", cmd |-> c, q |-> {}])
  /\ UNCHANGED <<created, device>>

\* One DeleteObject per session.
SendDelete(c) ==
  /\ Dispatching(c) /\ cmds[c].kind = "DELETE" /\ sess.stage # "CUSTOM_RPC_SENT"
  /\ cmds' = Dispatched(cmds, c)
  /\ Answer("CUSTOM_RPC_SENT", sess.lastQ, [type |-> "DEL", cmd |-> c, q |-> {}])
  /\ UNCHANGED <<created, device>>

\* A command has parameters, or its profile says from where to build them.
HasParams(c) == cmds[c].params \/ cmds[c].object = "known"

\* AddObject goes first when the command asks for a new object, or has
\* parameters for a slot that was not in the ACS's copy of the tree.
AsksObject(c)  == IsWan(cmds[c].kind) /\ ~cmds[c].tried /\ cmds[c].needs
LacksObject(c) == IsWan(cmds[c].kind) /\ ~cmds[c].tried /\ cmds[c].params /\ ~picked.slot
NeedsObject(c) == AsksObject(c) \/ LacksObject(c)

\* The object asked for: the stored one; else the slot, or the connection in a slot
\* that is there.
ObjectsAsked(c) == CASE ~AsksObject(c)           -> {"parent", "child"}
                     [] cmds[c].object = "none"  -> {"parent"}
                     [] OTHER                    -> {cmds[c].object}

SendAddObject(c) ==
  /\ Dispatching(c) /\ NeedsObject(c)
  /\ \E object \in ObjectsAsked(c) :
       cmds' = [Dispatched(cmds, c) EXCEPT ![c].tried = TRUE, ![c].object = object]
  /\ Answer("ADD_OBJECT_SENT", sess.lastQ, [type |-> "ADD", cmd |-> c, q |-> {}])
  /\ UNCHANGED <<created, device>>

\* Pre-dispatch validation refuses the parameters, or leaves none of them.
RejectParameters(c) ==
  /\ Dispatching(c) /\ HasParams(c) /\ ~AsksObject(c)
  /\ cmds' = [Dispatched(cmds, c) EXCEPT ![c].status = "failed"]
  /\ NoContent
  /\ UNCHANGED <<created, device>>

\* Mutants of Recorded: the request id, the target values are forgotten.
RecordedWithoutId(cs, c)     == [cs EXCEPT ![c].target = TRUE]
RecordedWithoutTarget(cs, c) == [cs EXCEPT ![c].rid = TRUE]

\* What a SetParameterValues dispatch stores on its command.
Recorded(cs, c) == [cs EXCEPT ![c].rid = TRUE, ![c].target = TRUE]

SendParameters(c) ==
  /\ Dispatching(c) /\ HasParams(c) /\ ~NeedsObject(c)
  /\ cmds' = Recorded(Dispatched(cmds, c), c)
  /\ Answer("SPV_SENT", sess.lastQ, [type |-> "SPV", cmd |-> c, q |-> {}])
  /\ UNCHANGED <<created, device>>

\* Nothing to dispatch: no command, or one no branch handles.  GET_PARAMETERS,
\* RUN_DIAGNOSTICS and BLOCK_CLIENT have no branch; a WAN command whose AddObject
\* was tried may have no parameters, a Wi-Fi command of the bot has none, and a
\* session deletes one object only.
Unhandled(c) ==
  /\ Dispatching(c)
  /\ \/ /\ cmds[c].kind \in {"CLIENTS", "DIAG", "BLOCK", "WAN", "WIFI", "PASS"}
        /\ ~HasParams(c) /\ ~NeedsObject(c)
     \/ cmds[c].kind = "DELETE" /\ sess.stage = "CUSTOM_RPC_SENT"

SendBaseline ==
  /\ picked.mode = "telemetry" \/ \E c \in Cmds : Unhandled(c)
  /\ Answer("BASELINE_SENT", Paths, Baseline(0))
  /\ UNCHANGED <<created, cmds, device>>

PollSend ==
  \/ SendVerification \/ DropStale \/ SendBaseline
  \/ \E c \in Cmds : \/ SendBare(c) \/ SendSummon(c) \/ SendDelete(c)
                     \/ SendAddObject(c) \/ RejectParameters(c) \/ SendParameters(c)

-------------------------------------------------------------------------------
(* The CPE performs the outstanding RPC.                                      *)

Writable == rpc.type = "SPV" /\ (cmds[rpc.cmd].kind \in {"WIFI", "PASS"} \/ cpe["wan"] # Absent)

Performed ==
  CASE rpc.type = "SPV"   -> [p \in Paths |-> IF p \in TargetPaths(cmds[rpc.cmd].kind)
                                               THEN cmds[rpc.cmd].val ELSE cpe[p]]
    [] rpc.type = "ADD"   -> [cpe EXCEPT !["wan"] = IF @ = Absent THEN Factory ELSE @]
    [] rpc.type = "DEL"   -> [cpe EXCEPT !["wan"] = Absent]
    [] rpc.type = "RESET" -> [p \in Paths |-> IF p = "ssid" THEN Factory ELSE Absent]
    [] OTHER              -> cpe

Doable == rpc.type = "SPV" => Writable

-------------------------------------------------------------------------------
(* handleParameterValuesResponse and handleParameterNamesResponse.            *)

\* Pruning and merging the answer's values R into the ACS's copy: a path that
\* was queried and did not come back is deleted.
Ingested(R) == [p \in Paths |-> IF p \in R THEN cpe[p]
                                ELSE IF p \in sess.lastQ THEN Absent ELSE raw[p]]

\* Poll-then-provision: is there a command that waits for a slot the copy now has?
Waiting == WithStatus(cmds, {"waiting_for_wan_slot"})
MayActivate(tree) == noAddObject /\ tree["wan"] # Absent /\ Waiting # {}

\* The CPE returns the values of R of the paths it was asked for.
Returned(R) ==
  LET found == {p \in rpc.q : cpe[p] # Absent} IN R \subseteq found /\ (Omits \/ R = found)

\* The handler of an answer or a fault first finds the commands to activate ...
FindWaiting(R) ==
  /\ sess.stage # "NONE" /\ rpc # NoRpc /\ picked = Idle
  /\ \/ rpc.type \in {"GPV", "SPV", "SPA", "ADD"} /\ Doable /\ Returned(R)
     \/ Faults # {} /\ R = {}
  /\ MayActivate(Ingested(R))
  /\ picked' = [Idle EXCEPT !.mode = "activate", !.q = R,
                            !.writes = Planned(cmds, Waiting, "queued")]
  /\ UNCHANGED <<created, cmds, sess, rpc, device>>

\* ... saves them as queued ...
SaveActivated ==
  /\ picked.mode = "activate"
  /\ cmds' = Overwritten(cmds, picked.writes)
  /\ picked' = [picked EXCEPT !.mode = "activated", !.writes = NoWrites]
  /\ UNCHANGED <<created, sess, rpc, device>>

\* ... and goes on.
Handles(R) == \/ picked.mode = "activated" /\ picked.q = R
              \/ picked = Idle /\ ~MayActivate(Ingested(R))

Answers(type) == sess.stage # "NONE" /\ rpc.type = type

\* A handler has found what it will save; the CPE waits for its answer.
Await(p) == picked' = p /\ rpc' = NoRpc /\ UNCHANGED sess

\* After an SPV or SPA answer: read back everything the recent commands wrote.
VerifyNow(cs, flight) ==
  LET targets == {c \in flight : cs[c].target} IN
  /\ cmds' = cs
  /\ IF targets = {} THEN NoContent
       ELSE Await([Idle EXCEPT !.mode = "recheck",
                     !.q = UNION {TargetPaths(cs[c].kind) : c \in targets},
                     !.writes = Planned(cs, flight, "verifying")])

\* Mutant of Recent: in any status.
RecentOfAnyStatus(cs, sts) ==
  {c \in Cmds : cs[c].kind # "NONE" /\ cs[c].qAge < RecentAge /\ ~IsRead(cs[c].kind)}

\* Commands queued within RecentAge in one of the statuses sts, read-only
\* actions apart.
Recent(cs, sts) == {c \in WithStatus(cs, sts) : cs[c].qAge < RecentAge /\ ~IsRead(cs[c].kind)}

\* SetParameterValuesResponse.  The update covers every unfinished command of
\* the device, whichever one was written; a command that ever had CWMP id 3 is
\* in flight again.  A WAN command among them asks for notifications first.
SpvAnswer(status) ==
  LET cs1    == Mark(cmds, WithStatus(cmds, {"sending"} \cup Uncollected),
                     IF status = 1 THEN "applied_pending_verification" ELSE "success")
      flight == {c \in Cmds : cs1[c].rid /\ ~IsRead(cs1[c].kind)}
                  \cup Recent(cs1, {"sending", "applied_pending_verification", "success"})
      cs2    == [c \in Cmds |-> IF c \in flight THEN [cs1[c] EXCEPT !.rid = TRUE] ELSE cs1[c]]
  IN /\ Answers("SPV") /\ Handles({}) /\ Writable
     /\ cpe' = Performed
     /\ IF \E c \in flight : IsWan(cs2[c].kind)
                              \/ (cs2[c].target /\ "wan" \in TargetPaths(cs2[c].kind))
          THEN /\ cmds' = cs2
               /\ Answer("SPA_SENT", sess.lastQ, [type |-> "SPA", cmd |-> rpc.cmd, q |-> {}])
          ELSE VerifyNow(cs2, flight)
     /\ UNCHANGED <<created, raw, noAddObject>>

\* SetParameterAttributesResponse.
SpaAnswer ==
  LET cs == Mark(cmds,
                 WithStatus(cmds, {"sending", "applied_pending_verification"} \cup Uncollected),
                 "success")
  IN /\ Answers("SPA") /\ Handles({})
     /\ VerifyNow(cs, Recent(cs, {"success"}))
     /\ UNCHANGED <<created, device>>

\* Mutant of AddObjectOwner: the last one sent, in whatever status it is.
AddObjectOwnerOfAnyStatus(c) ==
  LET sent == {d \in Cmds : IsWan(cmds[d].kind) /\ cmds[d].sAge # NotSent}
  IN c \in sent /\ (rpc.cmd \in sent => c = rpc.cmd)

\* The SET_WAN_CONFIG an AddObjectResponse is taken for: the one sent last, and
\* when none is sending the newest queued one.  Of several sending ones the
\* order of sentAt is kept only for the command the answer is really for.
AddObjectOwner(c) ==
  LET sending == {d \in WithStatus(cmds, {"sending"}) : IsWan(cmds[d].kind)}
      queued  == {d \in WithStatus(cmds, {"queued"}) : IsWan(cmds[d].kind)}
  IN IF sending # {} THEN c \in sending /\ (rpc.cmd \in sending => c = rpc.cmd)
                     ELSE IsNewest(c, queued)

\* The command is found and will be saved as sending, with its parameters as targets.
ToWrite(c) == [Idle EXCEPT !.mode = "write", !.cmd = c, !.writes = Planned(cmds, {c}, "sending")]

\* AddObjectResponse with an instance number: the parent slot first, then the
\* connection inside it, then the parameters.  Only the last saves a status.  The
\* place is stored in a profile of the device, or in the command's own copy of it.
AddObjectAnswer(c) ==
  /\ Answers("ADD") /\ Handles({}) /\ AddObjectOwner(c)
  /\ cpe' = Performed
  /\ IF cmds[c].object = "parent"
       THEN /\ cmds' = [cmds EXCEPT ![c].object = "child"]
            /\ Answer("ADD_OBJECT_SENT", sess.lastQ, [rpc EXCEPT !.cmd = c])
       ELSE /\ \/ UNCHANGED cmds
               \/ cmds[c].needs /\ cmds' = [cmds EXCEPT ![c].object = "known"]
            /\ Await(ToWrite(c))
  /\ UNCHANGED <<created, raw, noAddObject>>

\* AddObjectResponse nobody owns, or without an instance number.
AddObjectLost ==
  /\ Answers("ADD") /\ Handles({})
  /\ cpe' = Performed
  /\ \/ (~\E c \in Cmds : AddObjectOwner(c)) /\ NoContent
     \/ \E c \in Cmds : /\ AddObjectOwner(c)
                       /\ Await([Idle EXCEPT !.mode = "close", !.writes = Planned(cmds, {c}, "failed")])
  /\ UNCHANGED <<created, cmds, raw, noAddObject>>

\* DeleteObjectResponse, RebootResponse and FactoryResetResponse: the router
\* recognises none of them, so no handler runs.  It answers 200 with an
\* InformResponse; the session keeps its stage and the CPE may post again.
UnroutedAnswer ==
  /\ (\E t \in {"DEL", "REBOOT", "RESET"} : Answers(t)) /\ picked = Idle
  /\ cpe' = Performed
  /\ rpc' = NoRpc
  /\ UNCHANGED <<created, cmds, sess, picked, raw, noAddObject>>

\* GetParameterNamesResponse: query what exists.  The command that asked for
\* the names is not touched.
GpnAnswer ==
  /\ Answers("GPN") /\ picked = Idle
  /\ Answer("OPTICAL_SENT", sess.lastQ,
            [type |-> "GPV", cmd |-> 0, q |-> {p \in Paths : cpe[p] # Absent}])
  /\ UNCHANGED <<created, cmds, device>>

\* Mutant of Judged: recently queued commands only.
JudgedRecent ==
  {c \in WithStatus(cmds, {"verifying", "applied_pending_verification"}) :
     cmds[c].target /\ TargetPaths(cmds[c].kind) # {} /\ cmds[c].qAge < RecentAge}

\* The commands a read-back decides, whatever came back.
Judged ==
  {c \in WithStatus(cmds, {"verifying", "applied_pending_verification"}) :
     cmds[c].target /\ TargetPaths(cmds[c].kind) # {}}

\* GetParameterValuesResponse with the values of R: every command that awaits
\* verification is evaluated, against the ACS's copy where R has no value.
GpvAnswer(R) ==
  LET tree  == Ingested(R)
      wrong == {c \in Judged : \E p \in TargetPaths(cmds[c].kind) :
                   tree[p] # Absent /\ tree[p] # cmds[c].val}
  IN /\ Answers("GPV") /\ Returned(R) /\ Handles(R)
     /\ raw' = tree
     /\ picked' = [Idle EXCEPT !.mode = "judge", !.writes =
                     [c \in Cmds |-> CASE c \in wrong  -> "verification_failed"
                                       [] c \in Judged -> "verified"
                                       [] OTHER        -> "none"]]
     /\ rpc' = NoRpc
     /\ sess' = [sess EXCEPT !.lastQ = {}]
     /\ UNCHANGED <<created, cmds, noAddObject, cpe>>

-------------------------------------------------------------------------------
(* Faults, by the stage of the session.                                       *)

\* The SET_WAN_CONFIG an AddObject fault is taken for: the newest unfinished one.
AddObjectFaulted(c) ==
  IsNewest(c, {d \in WithStatus(cmds, {"sending"} \cup Uncollected) : IsWan(cmds[d].kind)})

FaultAnswer(code) == code \in Faults /\ sess.stage # "NONE" /\ rpc # NoRpc /\ Handles({})

\* Mutant of Refused: every refused command waits for a slot.
RefusedWaits(c) == Planned(cmds, {c}, "waiting_for_wan_slot")

\* A refused command waits when it has parameters to write into a slot.
Refused(c) == Planned(cmds, {c}, IF cmds[c].params THEN "waiting_for_wan_slot" ELSE "failed")

\* Fault 9003: the firmware cannot add WAN objects.  The command waits for a
\* slot somebody adds on the router, or fails when its slot is unknown.
AddObjectUnsupported ==
  /\ FaultAnswer("9003") /\ sess.stage = "ADD_OBJECT_SENT"
  /\ noAddObject' = TRUE
  /\ \/ (~\E c \in Cmds : AddObjectFaulted(c)) /\ NoContent
     \/ \E c \in Cmds : /\ AddObjectFaulted(c)
                       /\ Await([Idle EXCEPT !.mode = "close", !.writes = Refused(c)])
  /\ UNCHANGED <<created, cmds, raw, cpe>>

\* Any other AddObject fault: write the parameters to the intended slot anyway.
AddObjectRefused(code) ==
  LET found == {c \in Cmds : AddObjectFaulted(c) /\ cmds[c].params}
  IN /\ FaultAnswer(code) /\ code # "9003" /\ sess.stage = "ADD_OBJECT_SENT"
     /\ \/ \E c \in found : Await(ToWrite(c))
        \/ found = {} /\ NoContent
     /\ UNCHANGED <<created, cmds, device>>

\* A baseline GPV or a GetParameterNames (CWMP id 2): discover the tree.
TelemetryFault(code) ==
  /\ FaultAnswer(code) /\ sess.stage # "ADD_OBJECT_SENT"
  /\ sess.stage = "BASELINE_SENT" \/ rpc.type = "GPN"
  /\ raw' = Ingested({})
  /\ Answer("GPN_SENT", {}, [type |-> "GPN", cmd |-> 0, q |-> {}])
  /\ UNCHANGED <<created, cmds, noAddObject, cpe>>

\* The WAN command a DeleteObject fault is taken for: the one sent last.
DeleteFaulted(c) ==
  LET open == {d \in WithStatus(cmds, {"sending"} \cup Uncollected) :
                 cmds[d].kind \in {"DELETE", "WAN"}}
      sent == {d \in open : cmds[d].sAge # NotSent}
  IN IF sent # {} THEN c \in sent /\ (rpc.cmd \in sent => c = rpc.cmd)
                  ELSE IsNewest(c, open)

\* DeleteObject refused: disable the connection with an SPV instead.  The stage is
\* all that tells: the refused RPC may be a Reboot that followed a DeleteObject.
DeleteFallback(code) ==
  \E c \in Cmds :
  /\ FaultAnswer(code) /\ sess.stage = "CUSTOM_RPC_SENT" /\ rpc.type # "GPN"
  /\ DeleteFaulted(c) /\ cmds[c].kind = "DELETE"
  /\ Await(ToWrite(c))
  /\ UNCHANGED <<created, cmds, device>>

\* A write refused: every command of the device that is sending fails.
WriteFault(code) ==
  /\ FaultAnswer(code)
  /\ \/ sess.stage = "SPV_SENT"
     \/ /\ sess.stage = "CUSTOM_RPC_SENT" /\ rpc.type # "GPN"
        /\ ~\E c \in Cmds : DeleteFaulted(c) /\ cmds[c].kind = "DELETE"
  /\ cmds' = [c \in Cmds |-> IF cmds[c].status = "sending"
                 THEN [cmds[c] EXCEPT !.status = "failed",
                                     !.retryable = @ /\ code # "9005"]
                 ELSE cmds[c]]
  /\ NoContent
  /\ UNCHANGED <<created, device>>

\* In every other stage a fault changes no command.
OtherFault(code) ==
  /\ FaultAnswer(code) /\ rpc.type # "GPN"
  /\ sess.stage \in {"INFORM_ACKED", "OPTICAL_SENT", "SPA_SENT", "VERIFICATION_GPV_SENT"}
  /\ NoContent
  /\ UNCHANGED <<created, cmds, device>>

-------------------------------------------------------------------------------
(* The second half of an answer: the documents it holds are saved.            *)

\* An SPV follows, and its targets are stored.
SaveWrite ==
  LET c == picked.cmd IN
  /\ picked.mode = "write"
  /\ cmds' = Recorded(Overwritten(cmds, picked.writes), c)
  /\ Answer("SPV_SENT", sess.lastQ, [type |-> "SPV", cmd |-> c, q |-> {}])
  /\ UNCHANGED <<created, device>>

\* The read-back follows.
SaveRecheck ==
  /\ picked.mode = "recheck"
  /\ cmds' = Overwritten(cmds, picked.writes)
  /\ Answer("VERIFICATION_GPV_SENT", picked.q, [type |-> "GPV", cmd |-> 0, q |-> picked.q])
  /\ UNCHANGED <<created, device>>

SaveAndClose ==
  /\ picked.mode = "close"
  /\ cmds' = Overwritten(cmds, picked.writes)
  /\ NoContent
  /\ UNCHANGED <<created, device>>

\* The verdicts; then whatever summon is open has been answered.
SaveVerdicts ==
  LET judged == Overwritten(cmds, picked.writes)
      polls  == {c \in WithStatus(judged, {"sending", "verifying"} \cup Uncollected) :
                   judged[c].kind = "SUMMON"}
  IN /\ picked.mode = "judge"
     /\ cmds' = Mark(judged, polls, "success")
     /\ NoContent
     /\ UNCHANGED <<created, device>>

SaveAnswer == SaveWrite \/ SaveRecheck \/ SaveAndClose \/ SaveVerdicts

Cwmp ==
  \/ PollRead \/ PollSend \/ SaveActivated \/ SaveAnswer
  \/ \E status \in {0, 1} : SpvAnswer(status)
  \/ SpaAnswer \/ AddObjectLost \/ UnroutedAnswer \/ GpnAnswer
  \/ \E c \in Cmds : AddObjectAnswer(c)
  \/ \E R \in SUBSET Paths : FindWaiting(R) \/ GpvAnswer(R)
  \/ AddObjectUnsupported
  \/ \E code \in FaultCodes : \/ AddObjectRefused(code) \/ TelemetryFault(code)
                              \/ DeleteFallback(code) \/ WriteFault(code)
                              \/ OtherFault(code)

-------------------------------------------------------------------------------
(* The CPE on its own, the connection, and time.                              *)

\* The part of handleInform that concerns commands: a new session object.
Inform ==
  /\ sess.stage = "NONE" /\ rpc = NoRpc /\ picked = Idle
  /\ sess' = [stage |-> "INFORM_ACKED", lastQ |-> {}]
  /\ UNCHANGED <<created, cmds, rpc, picked, device>>

\* The connection breaks, the session expires or the server restarts: an RPC may have
\* reached the CPE or not, and a handler that runs stops with the server.  One that
\* outlives its connection saves all the same and loses only its answer, as if the
\* connection had broken after it.
SessionLost ==
  /\ sess.stage # "NONE"
  /\ sess' = NoSession
  /\ rpc' \in {rpc, NoRpc}
  /\ picked' = Idle
  /\ UNCHANGED <<created, cmds, device>>

\* An answer no session matches is rejected, but the CPE has done its part.
AnswerUnmatched ==
  /\ sess.stage = "NONE" /\ rpc # NoRpc
  /\ cpe' \in {cpe, IF Doable THEN Performed ELSE cpe}
  /\ rpc' = NoRpc
  /\ UNCHANGED <<created, cmds, sess, picked, raw, noAddObject>>

\* Somebody adds the WAN slot in the router's own GUI; an answer that is being handled
\* left the router before.
ManualSlot ==
  /\ cpe["wan"] = Absent /\ picked.mode \notin {"activate", "activated"}
  /\ cpe' = [cpe EXCEPT !["wan"] = Factory]
  /\ UNCHANGED <<created, cmds, cwmp, raw, noAddObject>>

Older(a) == IF a = NotSent \/ a = AgeCap THEN a ELSE a + 1

\* The awaits of a handler are short: no limit passes while one runs.
Tick ==
  /\ picked = Idle
  /\ \E c \in 1 .. created : cmds[c].qAge < AgeCap
  /\ cmds' = [c \in Cmds |-> IF c <= created
                 THEN [cmds[c] EXCEPT !.qAge = Older(@), !.sAge = Older(@)]
                 ELSE cmds[c]]
  /\ UNCHANGED <<created, cwmp, device>>

Environment == Inform \/ SessionLost \/ AnswerUnmatched \/ ManualSlot \/ Tick

Next == Operator \/ Cwmp \/ Environment

Spec == Init /\ [][Next]_vars

-------------------------------------------------------------------------------
(* Fairness.  The server finishes the handlers it has started, a session that  *)
(* stands still expires, the CPE keeps informing (periodic Inform) and the     *)
(* clock runs.  Connections and servers may break again and again, so what     *)
(* needs a live one is fair in the strong sense only: a handler that is        *)
(* started infinitely often gets to its end infinitely often, and a CPE that   *)
(* gets the chance infinitely often answers infinitely often, and answers some *)
(* read-back.                                                                  *)

Acknowledgement ==
  \/ \E status \in {0, 1} : SpvAnswer(status)
  \/ SpaAnswer \/ UnroutedAnswer \/ GpnAnswer
  \/ \E c \in Cmds : AddObjectAnswer(c)

ReadBack == \E R \in SUBSET Paths : GpvAnswer(R)

Reconnect == SessionLost \/ AnswerUnmatched \/ Inform

Fairness ==
  /\ WF_vars(Reconnect) /\ SF_vars(Tick)
  /\ SF_vars(PollRead) /\ SF_vars(PollSend)
  /\ SF_vars(Acknowledgement) /\ SF_vars(ReadBack) /\ SF_vars(SaveVerdicts)

FairSpec == Spec /\ Fairness

-------------------------------------------------------------------------------
(* Invariants.                                                                 *)

\* The variables keep their types, and the documents beyond created are blank.
TypeOK ==
  /\ created \in 0 .. MaxCmds
  /\ cmds \in [Cmds -> Command]
  /\ sess \in Session /\ rpc \in Rpc /\ picked \in Pick
  /\ raw \in [Paths -> Values \cup {Absent}]
  /\ cpe \in [Paths -> Values \cup {Absent}]
  /\ noAddObject \in BOOLEAN
  /\ \A c \in Cmds : IF c <= created THEN cmds[c].kind # "NONE" /\ cmds[c].status # "none"
                                     ELSE cmds[c] = Blank

\* A fault carries no reference to the RPC it answers: the handler attributes it by
\* the stage of the session.  So as long as the session lives, the stage must tell
\* which of the RPCs that a fault can fail is outstanding.  It does, except that a
\* DeleteObject that was answered leaves its stage behind, and the bare RPCs do not set
\* theirs: under CUSTOM_RPC_SENT a Reboot, a FactoryReset or a GetParameterNames may be
\* outstanding instead, but never a write, a read-back or an AddObject.
StageTellsRpc ==
  sess.stage # "NONE" /\ rpc # NoRpc =>
    /\ rpc.type = "SPV" <=> sess.stage = "SPV_SENT"
    /\ rpc.type = "ADD" <=> sess.stage = "ADD_OBJECT_SENT"
    /\ rpc.type = "SPA" <=> sess.stage = "SPA_SENT"
    /\ rpc.type = "DEL" => sess.stage = "CUSTOM_RPC_SENT"
    /\ sess.stage = "CUSTOM_RPC_SENT" => rpc.type \in {"DEL", "REBOOT", "RESET", "GPN"}

\* A SetParameterValues that is on its way is on record: its command has the
\* request id by which the answer finds it and the targets by which its read-back
\* is judged, and while the session lives nobody but the operator and the
\* workspace view has taken it out of "sending".
WriteIsAccounted ==
  rpc.type = "SPV" =>
    /\ cmds[rpc.cmd].rid /\ cmds[rpc.cmd].target
    /\ sess.stage # "NONE" => cmds[rpc.cmd].status \in
         {"sending", "canceled", "timed_out", "applied_pending_verification"}

\* Whatever value the CPE has that an operator chose was written by a command
\* that records it as a verification target: no configuration of unknown origin.
CpeValueWasSent ==
  \A p \in Paths : cpe[p] \notin {Factory, Absent} =>
    \E c \in Cmds : /\ cmds[c].target /\ p \in TargetPaths(cmds[c].kind)
                    /\ cmds[c].val = cpe[p]

\* Only WAN commands with parameters wait for a slot, and only on a device whose
\* firmware is known to refuse AddObject: the activation check looks at no other
\* command and no other device, so any other would wait in vain.
WaitingCanActivate ==
  \A c \in WithStatus(cmds, {"waiting_for_wan_slot"}) :
    noAddObject /\ IsWan(cmds[c].kind) /\ cmds[c].params

-------------------------------------------------------------------------------
(* What a step may never do.                                                   *)

Queued == Uncollected \cup {"sending", "waiting_for_wan_slot"}

\* A running handler has read c and will send it, or put it back in the queue.
Taken(c) == \/ picked.mode = "dispatch" /\ picked.cmd = c
            \/ picked.writes[c] \in Queued

\* A command that has ended is not sent to the CPE again, nor queued again: no poll and
\* no answer takes it up.  Only a handler that had read it before it ended may still
\* save its "sending" over the end.
EndedNotResent ==
  [][\A c \in WithStatus(cmds, Ended) : cmds'[c].status \in Queued \/ Taken(c)' => Taken(c)]_vars

\* A running handler holds c: it will save c, whatever has become of it.
Holds(c) == \/ picked.mode \in {"dispatch", "write"} /\ picked.cmd = c
            \/ picked.writes[c] # "none"

\* A command that ended without ever being written to the CPE keeps its status and
\* is not taken for a written one, whatever answers to other commands arrive later; the
\* operator may still cancel it, and a handler that had read it before it ended may
\* still save what it decided.
UnwrittenEndIsFinal ==
  [][\A c \in WithStatus(cmds, Ended \ {"success"}) :
       ~cmds[c].rid => \/ Holds(c)
                       \/ /\ cmds'[c].status \in {cmds[c].status, "canceled"}
                          /\ ~cmds'[c].rid /\ ~Holds(c)']_vars

\* A Wi-Fi name that has been read back as verified is not overwritten by an older
\* command: old writes that were lost on the way are not repeated once a newer one
\* has gone through.
VerifiedNotOverwritten ==
  [][rpc.type = "SPV" /\ cpe' # cpe /\ cpe' = Performed =>
       \A c \in WithStatus(cmds, {"verified"}) :
         cmds[c].kind = "WIFI" /\ cmds[rpc.cmd].kind = "WIFI" => c <= rpc.cmd]_vars

\* A request for a name is open while its command can be collected, has been read by a
\* poll that will send it, or is on its way to the CPE - even if it was canceled or
\* timed out in the meantime.
Open == Uncollected \cup {"sending"}
Outstanding(c) == \/ cmds[c].status \in Open
                  \/ picked.mode = "dispatch" /\ picked.cmd = c
                  \/ rpc.type = "SPV" /\ rpc.cmd = c

IsName(c) == cmds[c].kind = "WIFI"
Asked     == [c \in Cmds |-> IF IsName(c) THEN cmds[c].val ELSE Absent]
OpenNames == {c \in Cmds : IsName(c) /\ Outstanding(c)}

Wifi == INSTANCE WifiName WITH
  Requests <- Cmds, Names <- Values, NotAsked <- Absent, FactoryName <- Factory,
  asked <- Asked, open <- OpenNames, name <- cpe["ssid"]

\* The engine keeps the promise of WifiName: the name of the ONT comes from an open
\* request or a factory reset; a write closes all open requests, its own, or none; and
\* a closed one never reaches the ONT again.
ClosedStaysClosed == Wifi!Spec

-------------------------------------------------------------------------------
(* What must happen.                                                           *)

\* Priority 0 serves the newest command that awaits its read-back; one whose values
\* are never compared (a passphrase) is never judged, and no poll gets past it.
Starving == \E c \in Cmds : IsNewest(c, Awaiting) /\ TargetPaths(cmds[c].kind) = {}

\* Every command leaves the queue: it is answered, refused, or dropped as too old,
\* whatever the commands before it do and however often the connection breaks; unless
\* a command that can never be judged holds up the polls.
QueueDrains ==
  \A c \in Cmds : cmds[c].status \in Queued ~> cmds[c].status \notin Queued \/ Starving

\* Every command that was written to the CPE, awaits its read-back and has a value
\* that is compared gets its verdict, or is canceled.
WrittenIsJudged ==
  \A c \in Cmds :
    (/\ cmds[c].target /\ TargetPaths(cmds[c].kind) # {}
     /\ cmds[c].status \in {"applied_pending_verification", "verifying"})
      ~> cmds[c].status \in Ended
===============================================================================
