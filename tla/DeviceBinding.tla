---------------------------- MODULE DeviceBinding ----------------------------
(***************************************************************************)
(* To which tenant an ONT belongs: the Informs of one ONT (handleInform,   *)
(* resolveTenant and the session look-ups of services/cwmpService.ts), its *)
(* Device documents, its quarantine record (PendingDeviceMapping), and the *)
(* requests that assign, claim, transfer, import or delete it              *)
(* (routes/operatorRoutes.ts, routes/superAdminRoutes.ts).                 *)
(*                                                                         *)
(* A Device document is unique per tenant and serial number, so that one   *)
(* ONT can have several.  Its serial number has more than one spelling:    *)
(* Informs search all of them, assignments search the one they were given. *)
(* A request reads a document, awaits, and saves it: two steps.  findOne   *)
(* has no order: of several documents it may return any.                   *)
(***************************************************************************)
EXTENDS Naturals

CONSTANTS
  Tenants, NoTenant,
  Root,        \* the tenant a host without subdomain resolves to, or NoTenant
  Docs, NoDoc, \* the Device documents the ONT may get; none is used twice
  Requests,    \* the requests served at the same time
  MaxCalls     \* bound: requests that are made

ASSUME BindingAssumption ==
  NoTenant \notin Tenants /\ Root \in Tenants \cup {NoTenant} /\ NoDoc \notin Docs
  /\ MaxCalls \in Nat

\* How an Inform arrives: by a URL path that is the slug of a tenant, or begins
\* one, or matches none; by the subdomain of a tenant; by another host name or an
\* address; without a Host header.
Routes == [kind : {"path", "prefix", "subdomain"}, tenant : Tenants]
          \cup [kind : {"unknown", "bare", "hostless"}, tenant : {NoTenant}]
NoRoute == [kind |-> "hostless", tenant |-> NoTenant]

VARIABLES
  owner,     \* Device.tenantId; NoTenant: there is no such document
  used,      \* the documents that have been created
  exact,     \* ... with the serial number spelt as Informs and quarantine spell it
  pending,   \* PendingDeviceMapping: status, to = mappedTenantId, route
  job,       \* the local variables of each request, and its session
  calls,     \* requests made so far
  \* What the properties are about:
  disturbed, \* requests that saw the documents change since they looked
  missed,    \* a document was created by a search that could not see the other one
  parted,    \* since the last assignment a document was changed against it, or it failed
  dropped    \* an answer was dropped though nothing had changed since the Inform

vars == <<owner, used, exact, pending, job, calls, disturbed, missed, parted,
          dropped>>

Owners   == Tenants \cup {NoTenant}
Statuses == {"none", "PENDING", "MAPPED", "IGNORED"}

\* Inform: resolved, checked, found or absent or collided; then its session: open,
\* asked.  Assignment: mapped, then moving or missing.  claim-all ends with claiming.
\* sync-fleet: syncing, moving or missing, synced.
\* same: as moving, but the document was read with the tenant it is to get.
Places == {"idle", "resolved", "checked", "found", "absent", "collided", "open", "asked",
           "mapped", "moving", "same", "missing", "claiming", "syncing", "synced"}

\* tenant: resolved, of the session, or chosen by the operator.  mapped: resolved by
\* an assignment.  doc: found or bound.  dev: the document whose command was sent.
\* blocked: MISMATCH_BLOCKED.  then: what follows a move.
Job == [at : Places, route : Routes, tenant : Owners, mapped : BOOLEAN,
        doc : Docs \cup {NoDoc}, dev : Docs \cup {NoDoc}, blocked : BOOLEAN,
        then : {"idle", "claiming", "synced"}]

NoJob == [at |-> "idle", route |-> NoRoute, tenant |-> NoTenant, mapped |-> FALSE,
          doc |-> NoDoc, dev |-> NoDoc, blocked |-> FALSE, then |-> "idle"]

Present == {d \in Docs : owner[d] # NoTenant}
Twins   == \E d, e \in Present : d # e

\* The index on tenantId and serialNumber forbids document d, spelt so, to be t's.
Clash(d, spelt, t) == \E e \in Present \ {d} : owner[e] = t /\ (e \in exact <=> spelt)

Init ==
  /\ owner = [d \in Docs |-> NoTenant]
  /\ used = {} /\ exact = {}
  /\ pending = [status |-> "none", to |-> NoTenant, route |-> NoRoute]
  /\ job = [r \in Requests |-> NoJob]
  /\ calls = 0
  /\ disturbed = {} /\ missed = FALSE /\ parted = FALSE /\ dropped = FALSE

Put(r, j) == job' = [job EXCEPT ![r] = j]

Start(r) ==
  /\ job[r].at = "idle"
  /\ calls < MaxCalls
  /\ calls' = calls + 1

-------------------------------------------------------------------------------
(***************************************************************************)
(* What is done to the documents.                                          *)
(***************************************************************************)
documents == <<owner, used, exact>>
history   == <<missed, parted, dropped>>

Disturb(r) == disturbed' = disturbed \cup (Requests \ {r})
Looks(r)   == disturbed' = disturbed \ {r}

\* Device.create.  blind: what was searched before did not show every document.
Create(r, d, spelt, t, blind) ==
  /\ d \notin used
  /\ ~Clash(d, spelt, t)
  /\ owner' = [owner EXCEPT ![d] = t]
  /\ used' = used \cup {d}
  /\ exact' = IF spelt THEN exact \cup {d} ELSE exact
  /\ missed' = (missed \/ blind)
  /\ Disturb(r)

\* A save or update that sets tenantId.
Move(r, d, t) ==
  /\ d \in Present
  /\ ~Clash(d, d \in exact, t)
  /\ owner' = [owner EXCEPT ![d] = t]
  /\ parted' = (parted \/ pending.to # t)
  /\ IF owner[d] = t THEN UNCHANGED disturbed ELSE Disturb(r)
  /\ UNCHANGED <<used, exact, missed>>

\* Mutant: a status the schema does not have.
QuarantinedOnHold(route) == [pending EXCEPT !.route = route, !.status = "MANUAL_HOLD"]

\* The record of quarantine, which an Inform creates or refreshes.
Quarantined(route) ==
  [pending EXCEPT !.route = route,
                  !.status = IF @ = "none" THEN "PENDING" ELSE @]

-------------------------------------------------------------------------------
(***************************************************************************)
(* handleInform.                                                           *)
(***************************************************************************)

\* resolveTenant: an assignment counts most, then the path or the subdomain, and
\* the fallback for every Host header that is left.
Resolve(route, to) ==
  IF to # NoTenant THEN to
  ELSE IF route.kind \in {"path", "prefix", "subdomain"} THEN route.tenant
  ELSE IF route.kind \in {"unknown", "bare"} THEN Root ELSE NoTenant

InformResolve(r, route) ==
  /\ Start(r)
  /\ Put(r, [NoJob EXCEPT !.at = "resolved", !.route = route,
                          !.tenant = Resolve(route, pending.to),
                          !.mapped = pending.to # NoTenant])
  /\ UNCHANGED <<documents, pending, disturbed, history>>

\* Mutant: only the subdomain is compared.
MismatchOfHost(route, d) == route.kind = "subdomain" /\ d # NoDoc /\ owner[d] # route.tenant

\* Only a path that is the slug of another tenant is a mismatch.
Mismatch(route, d) == route.kind = "path" /\ d # NoDoc /\ owner[d] # route.tenant

\* findOne over every spelling.
AnyOf(S) == IF S = {} THEN {NoDoc} ELSE S

\* The ownership gate, and the session object.
InformCheck(r) ==
  /\ job[r].at = "resolved"
  /\ \E d \in AnyOf(Present) :
       LET blocked == Mismatch(job[r].route, d) IN
       /\ Put(r, [job[r] EXCEPT !.at = "checked", !.blocked = blocked,
                                !.tenant = IF blocked THEN NoTenant ELSE @])
       /\ pending' = IF blocked THEN Quarantined(job[r].route) ELSE pending
  /\ Looks(r)
  /\ UNCHANGED <<documents, calls, history>>

\* Mutant: the session keeps the tenant the Inform was resolved to.
InformLookupUnlocked(r) ==
  LET t == job[r].tenant IN
  /\ job[r].at = "checked" /\ t # NoTenant
  /\ \E d \in AnyOf(IF \E e \in Present : owner[e] = t
                    THEN {e \in Present : owner[e] = t} ELSE Present) :
       Put(r, IF d = NoDoc THEN [job[r] EXCEPT !.at = "absent"]
              ELSE [job[r] EXCEPT !.at = "found", !.doc = d])
  /\ UNCHANGED <<documents, pending, calls, disturbed, history>>

\* Mutant: only a document of the tenant is looked for.
InformLookupOfTenant(r) ==
  LET t == job[r].tenant IN
  /\ job[r].at = "checked" /\ t # NoTenant
  /\ \E d \in AnyOf({e \in Present : owner[e] = t}) :
       Put(r, IF d = NoDoc THEN [job[r] EXCEPT !.at = "absent"]
              ELSE [job[r] EXCEPT !.at = "found", !.doc = d])
  /\ UNCHANGED <<documents, pending, calls, disturbed, history>>

\* The document of the tenant is preferred; the tenant of the one found is the
\* session's.
InformLookup(r) ==
  LET t == job[r].tenant IN
  /\ job[r].at = "checked" /\ t # NoTenant
  /\ \E d \in AnyOf(IF \E e \in Present : owner[e] = t
                    THEN {e \in Present : owner[e] = t} ELSE Present) :
       Put(r, IF d = NoDoc THEN [job[r] EXCEPT !.at = "absent"]
              ELSE [job[r] EXCEPT !.at = "found", !.doc = d, !.tenant = owner[d]])
  /\ UNCHANGED <<documents, pending, calls, disturbed, history>>

\* Blocked or unresolved: the quarantine record, and a session without RPCs.
InformQuarantine(r) ==
  /\ job[r].at = "checked" /\ job[r].tenant = NoTenant
  /\ pending' = Quarantined(job[r].route)
  /\ Put(r, [job[r] EXCEPT !.at = "open"])
  /\ UNCHANGED <<documents, calls, disturbed, history>>

\* Mutant: an Inform binds the document to the tenant of an assignment.
InformSaveRebinding(r) ==
  /\ job[r].at = "found" /\ job[r].doc \in Present
  /\ LET t == Resolve(job[r].route, pending.to) IN
     t # NoTenant /\ Move(r, job[r].doc, t)
  /\ Put(r, [job[r] EXCEPT !.at = "open"])
  /\ UNCHANGED <<pending, calls, dropped>>

\* device.save(): telemetry only.
InformSave(r) ==
  /\ job[r].at = "found" /\ job[r].doc \in Present
  /\ Put(r, [job[r] EXCEPT !.at = "open"])
  /\ UNCHANGED <<documents, pending, calls, disturbed, history>>

InformCreate(r, d) ==
  /\ job[r].at = "absent"
  /\ Create(r, d, TRUE, job[r].tenant, r \in disturbed)
  /\ Put(r, [job[r] EXCEPT !.at = "open", !.doc = d])
  /\ UNCHANGED <<pending, calls, parted, dropped>>

InformCollide(r) ==
  /\ job[r].at = "absent"
  /\ Clash(NoDoc, TRUE, job[r].tenant)
  /\ Put(r, [job[r] EXCEPT !.at = "collided"])
  /\ UNCHANGED <<documents, pending, calls, disturbed, history>>

\* findOneAndUpdate by serial number alone, tenantId included; upsert.
InformUpsert(r, d) ==
  /\ job[r].at = "collided"
  /\ \/ d \in Present \cap exact /\ Move(r, d, job[r].tenant)
     \/ /\ Present \cap exact = {}
        /\ Create(r, d, TRUE, job[r].tenant, r \in disturbed)
        /\ UNCHANGED parted
  /\ Put(r, [job[r] EXCEPT !.at = "open", !.doc = d])
  /\ UNCHANGED <<pending, calls, dropped>>

\* checkPendingRpcOrPoll: the commands are those of a document of the serial number.
Poll(r) ==
  /\ job[r].at = "open" /\ ~job[r].blocked /\ job[r].tenant # NoTenant
  /\ \E d \in AnyOf(Present) : Put(r, [job[r] EXCEPT !.at = "asked", !.dev = d])
  /\ UNCHANGED <<documents, pending, calls, disturbed, history>>

\* handleParameterValuesResponse: the document of the session, or one of the serial
\* number, if it is of the session's tenant; else the answer is dropped.
Heard(r) ==
  IF owner[job[r].doc] = job[r].tenant THEN {job[r].doc}
  ELSE {e \in Present : owner[e] = job[r].tenant}

Answer(r) ==
  /\ job[r].at = "asked"
  /\ dropped' = (dropped \/ (Heard(r) = {} /\ r \notin disturbed))
  /\ Put(r, [job[r] EXCEPT !.at = "open", !.dev = NoDoc])
  /\ UNCHANGED <<documents, pending, calls, disturbed, missed, parted>>

\* The CPE ends the session, or cleanExpiredSessions does.
EndSession(r) ==
  /\ job[r].at \in {"open", "asked"}
  /\ Put(r, NoJob)
  /\ UNCHANGED <<documents, pending, calls, disturbed, history>>

-------------------------------------------------------------------------------
(***************************************************************************)
(* Operators and super admins.                                             *)
(***************************************************************************)

Assigned(t) == [pending EXCEPT !.status = "MAPPED", !.to = t]

\* assign, bulk-assign, claim; with all, claim-all, which goes on to every document.
Assign(r, t, all) ==
  /\ Start(r)
  /\ pending.status # "none"
  /\ pending' = Assigned(t)
  /\ parted' = FALSE
  /\ Put(r, [NoJob EXCEPT !.at = "mapped", !.tenant = t,
                          !.then = IF all THEN "claiming" ELSE "idle"])
  /\ UNCHANGED <<documents, disturbed, missed, dropped>>

ClaimNothing(r, t) ==
  /\ Start(r)
  /\ pending.status = "none"
  /\ Put(r, [NoJob EXCEPT !.at = "claiming", !.tenant = t])
  /\ UNCHANGED <<documents, pending, disturbed, history>>

\* mongoose saves tenantId only if it was set to another value than it was read with.
Toward(d, t) == IF d = NoDoc THEN "missing" ELSE IF owner[d] = t THEN "same" ELSE "moving"

\* It looks for the document under the spelling of the record only.
AssignLookup(r) ==
  /\ job[r].at = "mapped"
  /\ \E d \in AnyOf(Present \cap exact) :
       Put(r, [job[r] EXCEPT !.at = Toward(d, job[r].tenant), !.doc = d])
  /\ missed' = (missed \/ (Present # {} /\ Present \cap exact = {}))
  /\ Looks(r)
  /\ UNCHANGED <<documents, pending, calls, parted, dropped>>

Then(j) == IF j.then = "idle" THEN NoJob ELSE [j EXCEPT !.at = j.then, !.then = "idle"]

\* Mutant: the document keeps its tenant.
MoveSaveStatusOnly(r) ==
  /\ job[r].at = "moving"
  /\ job[r].doc \in Present
  /\ Put(r, Then(job[r]))
  /\ UNCHANGED <<documents, pending, calls, disturbed, history>>

MoveSave(r) ==
  /\ job[r].at = "moving"
  /\ Move(r, job[r].doc, job[r].tenant)
  /\ Put(r, Then(job[r]))
  /\ UNCHANGED <<pending, calls, dropped>>

SameSave(r) ==
  /\ job[r].at = "same" /\ job[r].doc \in Present
  /\ Put(r, Then(job[r]))
  /\ UNCHANGED <<documents, pending, calls, disturbed, history>>

MissingCreate(r, d) ==
  /\ job[r].at = "missing"
  /\ Create(r, d, TRUE, job[r].tenant, r \in disturbed)
  /\ Put(r, Then(job[r]))
  /\ UNCHANGED <<pending, calls, parted, dropped>>

\* claim-all: updateMany over all documents, which stops at the first that clashes.
ClaimNext(r, d) ==
  /\ job[r].at = "claiming"
  /\ owner[d] # job[r].tenant
  /\ Move(r, d, job[r].tenant)
  /\ UNCHANGED <<pending, job, calls, dropped>>

ClaimEnd(r) ==
  /\ job[r].at = "claiming"
  /\ Put(r, NoJob)
  /\ UNCHANGED <<documents, pending, calls, disturbed, history>>

\* syncAllPendingDevicesToFleet reads the record, and its tenant from the route of
\* the last quarantined Inform; it assigns the record last.
Sync(r) ==
  /\ Start(r)
  /\ pending.status = "PENDING" \/ (pending.status # "none" /\ pending.to = NoTenant)
  /\ LET t == Resolve(pending.route, pending.to) IN
     /\ t # NoTenant
     /\ Put(r, [NoJob EXCEPT !.at = "syncing", !.tenant = t])
  /\ UNCHANGED <<documents, pending, disturbed, history>>

SyncLookup(r) ==
  /\ job[r].at = "syncing"
  /\ \E d \in AnyOf(Present) :
       Put(r, [job[r] EXCEPT !.at = Toward(d, job[r].tenant), !.doc = d, !.then = "synced"])
  /\ Looks(r)
  /\ UNCHANGED <<documents, pending, calls, history>>

SyncSave(r) ==
  /\ job[r].at = "synced"
  /\ pending.status # "none"
  /\ pending' = Assigned(job[r].tenant)
  /\ parted' = (r \in disturbed)
  /\ Put(r, NoJob)
  /\ UNCHANGED <<documents, calls, disturbed, missed, dropped>>

\* transfer-tenant reads the document of its operator.
Transfer(r, d, t) ==
  /\ Start(r)
  /\ d \in Present
  /\ Put(r, [NoJob EXCEPT !.at = Toward(d, t), !.tenant = t, !.doc = d])
  /\ UNCHANGED <<documents, pending, disturbed, history>>

\* importSubscribers looks for the tenant's own document under the spelling given.
Import(r, d, spelt, t) ==
  /\ Start(r)
  /\ Create(r, d, spelt, t, Present # {})
  /\ UNCHANGED <<pending, job, parted, dropped>>

Delete(r, d) ==
  /\ Start(r)
  /\ d \in Present
  /\ owner' = [owner EXCEPT ![d] = NoTenant]
  /\ parted' = TRUE
  /\ Disturb(r)
  /\ UNCHANGED <<used, exact, pending, job, missed, dropped>>

Ignore(r) ==
  /\ Start(r)
  /\ pending.status # "none"
  /\ pending' = [pending EXCEPT !.status = "IGNORED"]
  /\ UNCHANGED <<documents, job, disturbed, history>>

Forget(r) ==
  /\ Start(r)
  /\ pending.status # "none"
  /\ pending' = [status |-> "none", to |-> NoTenant, route |-> NoRoute]
  /\ UNCHANGED <<documents, job, disturbed, history>>

\* An await rejects, a document is gone or clashes, or the server stops.  claim-all
\* goes on after a document it cannot create.
Abort(r) ==
  /\ job[r].at \notin {"idle", "open", "asked"}
  /\ Put(r, NoJob)
  /\ parted' = (parted \/ job[r].at \in {"mapped", "moving", "missing"})
  /\ UNCHANGED <<documents, pending, calls, disturbed, missed, dropped>>

ClaimAnyway(r) ==
  /\ job[r].at = "missing" /\ job[r].then = "claiming"
  /\ Put(r, Then(job[r]))
  /\ parted' = TRUE
  /\ UNCHANGED <<documents, pending, calls, disturbed, missed, dropped>>

Inform(r) ==
  \/ \E route \in Routes : InformResolve(r, route)
  \/ InformCheck(r) \/ InformLookup(r) \/ InformQuarantine(r) \/ InformSave(r)
  \/ InformCollide(r)
  \/ \E d \in Docs : InformCreate(r, d) \/ InformUpsert(r, d)
Session(r)  == Poll(r) \/ Answer(r) \/ EndSession(r)
Assigning(r) ==
  \/ \E t \in Tenants : ClaimNothing(r, t) \/ \E all \in BOOLEAN : Assign(r, t, all)
  \/ AssignLookup(r) \/ MoveSave(r) \/ SameSave(r) \/ ClaimEnd(r) \/ ClaimAnyway(r)
  \/ \E d \in Docs : MissingCreate(r, d) \/ ClaimNext(r, d)
Syncing(r)  == Sync(r) \/ SyncLookup(r) \/ SyncSave(r)
Managing(r) ==
  \/ \E d \in Docs, t \in Tenants : Transfer(r, d, t) \/ \E spelt \in BOOLEAN : Import(r, d, spelt, t)
  \/ \E d \in Docs : Delete(r, d)
  \/ Ignore(r) \/ Forget(r)

Next == \E r \in Requests :
          Inform(r) \/ Session(r) \/ Assigning(r) \/ Syncing(r) \/ Managing(r) \/ Abort(r)

Spec == Init /\ [][Next]_vars

-------------------------------------------------------------------------------
(***************************************************************************)
(* Properties.                                                             *)
(***************************************************************************)

TypeOK ==
  /\ owner \in [Docs -> Owners] /\ used \subseteq Docs /\ exact \subseteq used
  /\ \A d \in Docs \ used : owner[d] = NoTenant
  /\ pending \in [status : Statuses, to : Owners, route : Routes]
  /\ job \in [Requests -> Job]
  /\ calls \in Nat /\ disturbed \subseteq Requests
  /\ missed \in BOOLEAN /\ parted \in BOOLEAN /\ dropped \in BOOLEAN

\* An answer of the CPE is recorded unless the ONT's documents have changed since
\* the Inform of its session looked at them (handleInform,
\* handleParameterValuesResponse).
AnswersAreKept == ~dropped

\* An ONT has two documents only if one was created by a request that had looked
\* before the other came, by an import for a second tenant, or by an assignment that
\* does not know the other's spelling (handleInform, assign, claim, sync-fleet).
TwinsExplained == Twins => missed

\* In a session by the path of a tenant, only commands of that tenant's document are
\* sent, unless an assignment resolved the Inform, the documents changed since the
\* Inform was checked, or the ONT has two (handleInform, checkPendingRpcOrPoll).
GateHolds ==
  \A r \in Requests :
    /\ job[r].at = "asked" /\ job[r].route.kind = "path" /\ job[r].dev \in Present
    /\ ~job[r].mapped /\ r \notin disturbed /\ ~Twins
    => owner[job[r].dev] = job[r].route.tenant

\* After an assignment has run to its end, the ONT is not blocked under the path of
\* its new tenant, unless its documents were changed since or are two.
AssignedIsAdmitted ==
  [][\A r \in Requests :
       /\ job[r].at = "resolved" /\ job'[r].at = "checked" /\ job'[r].blocked
       /\ pending.status = "MAPPED" /\ job[r].route.tenant = pending.to
       => \/ parted \/ Twins
          \/ \E q \in Requests : job[q].at \in {"mapped", "moving", "missing"}]_vars

\* An Inform takes an existing document from its owner only if the documents changed
\* while it ran (handleInform, "Registered Owner Tenant is IMMUTABLE").
OwnerMovesByHand ==
  [][\A r \in Requests, d \in Docs :
       /\ job[r].at \in {"resolved", "checked", "found", "absent", "collided", "open", "asked"}
       /\ job'[r] # job[r] /\ owner[d] # NoTenant /\ owner'[d] # owner[d]
       => r \in disturbed]_vars
===============================================================================
