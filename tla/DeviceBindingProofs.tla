------------------------- MODULE DeviceBindingProofs -------------------------
(***************************************************************************)
(* Proofs about DeviceBinding, for any tenants, documents, requests and    *)
(* bounds: when an ONT has two documents, whose commands its sessions get, *)
(* whose answers are recorded, and who moves a document.                   *)
(***************************************************************************)
EXTENDS DeviceBinding, TLAPS

-------------------------------------------------------------------------------
(***************************************************************************)
(* What the parts of a step do.                                            *)
(***************************************************************************)

\* The step gives request r the local variables j.
Moved(r, j) ==
  /\ job' \in [Requests -> Job] /\ j \in Job
  /\ job'[r] = j
  /\ \A q \in Requests : q # r => job'[q] = job[q]

LEMMA PutMoves ==
  ASSUME job \in [Requests -> Job], NEW r \in Requests, NEW j \in Job, Put(r, j)
  PROVE  Moved(r, j)
BY DEF Put, Moved

LEMMA NoJobType == NoJob \in Job
BY DEF NoJob, Job, Places, Owners, Routes, NoRoute

\* A document is created, or changes hands.
Created(r, d, t) ==
  /\ d \in Docs /\ owner[d] = NoTenant
  /\ owner' = [owner EXCEPT ![d] = t]
  /\ disturbed' = disturbed \cup (Requests \ {r})

Given(r, d, t) ==
  /\ d \in Docs /\ owner[d] # NoTenant
  /\ owner' = [owner EXCEPT ![d] = t]
  /\ parted' = (parted \/ pending.to # t)
  /\ missed' = missed
  /\ \/ owner' = owner /\ disturbed' = disturbed
     \/ disturbed' = disturbed \cup (Requests \ {r})

DocsTyped ==
  /\ owner \in [Docs -> Owners] /\ used \subseteq Docs /\ exact \subseteq used
  /\ \A d \in Docs \ used : owner[d] = NoTenant
  /\ disturbed \subseteq Requests
  /\ missed \in BOOLEAN /\ parted \in BOOLEAN /\ dropped \in BOOLEAN

PendingTyped == pending \in [status : Statuses, to : Owners, route : Routes]

LEMMA TypeParts ==
  /\ TypeOK <=> DocsTyped /\ PendingTyped /\ job \in [Requests -> Job] /\ calls \in Nat
  /\ TypeOK' <=> DocsTyped' /\ PendingTyped' /\ job' \in [Requests -> Job] /\ calls' \in Nat
BY DEF TypeOK, DocsTyped, PendingTyped

LEMMA MoveGives ==
  ASSUME DocsTyped, NEW r \in Requests, NEW d \in Docs, NEW t \in Tenants, Move(r, d, t),
         dropped' \in BOOLEAN
  PROVE  Given(r, d, t) /\ DocsTyped'
<1>1. /\ d \in Present /\ owner' = [owner EXCEPT ![d] = t]
      /\ UNCHANGED <<used, exact, missed>>
      /\ parted' = (parted \/ pending.to # t)
      /\ IF owner[d] = t THEN UNCHANGED disturbed ELSE Disturb(r)
  BY DEF Move
<1>2. owner[d] = t => owner' = owner
  BY <1>1 DEF DocsTyped
<1>3. Given(r, d, t)
  BY <1>1, <1>2 DEF Given, Present, Disturb
<1>4. DocsTyped'
  BY <1>1, <1>3 DEF DocsTyped, Given, Present, Owners
<1> QED BY <1>3, <1>4

LEMMA ResolveType ==
  ASSUME BindingAssumption, NEW route \in Routes, NEW to \in Owners
  PROVE  Resolve(route, to) \in Owners
BY DEF Resolve, Routes, Owners, BindingAssumption

LEMMA QuarantinedType ==
  ASSUME PendingTyped, NEW route \in Routes
  PROVE  /\ Quarantined(route) \in [status : Statuses, to : Owners, route : Routes]
         /\ Quarantined(route).to = pending.to
         /\ Quarantined(route).status = "MAPPED" <=> pending.status = "MAPPED"
BY DEF Quarantined, PendingTyped, Statuses

LEMMA AssignedType ==
  ASSUME PendingTyped, NEW t \in Tenants
  PROVE  /\ Assigned(t) \in [status : Statuses, to : Owners, route : Routes]
         /\ Assigned(t).to = t /\ Assigned(t).status = "MAPPED"
BY DEF Assigned, PendingTyped, Statuses, Owners

LEMMA ThenType ==
  ASSUME NEW j \in Job
  PROVE  /\ Then(j) \in Job
         /\ Then(j).at \in {"idle", "claiming", "synced"} /\ Then(j).at = j.then
         /\ Then(j).at # "idle" => Then(j).tenant = j.tenant
<1>1. CASE j.then = "idle"
  BY <1>1, NoJobType DEF Then, NoJob
<1>2. CASE j.then # "idle"
  BY <1>2 DEF Then, Job, Places
<1> QED BY <1>1, <1>2

LEMMA TowardPlace ==
  ASSUME NEW d, NEW t
  PROVE  /\ Toward(d, t) \in {"missing", "same", "moving"}
         /\ Toward(d, t) = "missing" <=> d = NoDoc
         /\ Toward(d, t) = "same" => owner[d] = t
BY DEF Toward

-------------------------------------------------------------------------------
(***************************************************************************)
(* The invariant: what a request knows while nobody has changed the        *)
(* documents it looked at, and where an assignment stands.                 *)
(***************************************************************************)
Working == {"found", "absent", "collided", "mapped", "moving", "same", "missing",
            "claiming", "syncing", "synced", "asked"}

\* A session the path of a tenant has led to that tenant.
OnPath(j) == j.route.kind = "path" /\ ~j.mapped /\ j.tenant # NoTenant

Named(j) ==
  /\ j.at \in Working => j.tenant \in Tenants
  /\ j.at \in {"found", "moving", "same"} => j.doc \in Docs
  /\ j.at = "resolved" /\ OnPath(j) => j.tenant = j.route.tenant

Bound(j) == j.doc \in Docs /\ owner[j.doc] = j.tenant

Seen(r) ==
  r \notin disturbed =>
    /\ job[r].at \in {"absent", "collided"} => Present = {}
    /\ job[r].at = "missing" => Present = {} \/ missed
    /\ job[r].at \in {"found", "same"} => Bound(job[r])
    /\ job[r].at \in {"open", "asked"} /\ job[r].tenant # NoTenant => Bound(job[r])
    /\ job[r].at = "synced" => \E d \in Docs : owner[d] = job[r].tenant
    /\ job[r].at = "checked" /\ OnPath(job[r])
       => Present = {} \/ \E d \in Docs : owner[d] = job[r].tenant
    /\ /\ job[r].at \in {"checked", "found", "absent", "collided", "open", "asked"}
       /\ OnPath(job[r])
       => job[r].tenant = job[r].route.tenant

\* The last assignment has a document, or a request that has yet to give it one.
Placed      == \E d \in Docs : owner[d] = pending.to
Settling(q) == job[q].at \in {"mapped", "moving", "missing"} /\ job[q].tenant = pending.to

AssignmentStands ==
  pending.status = "MAPPED" /\ ~parted =>
    /\ pending.to \in Tenants
    /\ Placed \/ \E q \in Requests : Settling(q)

BindInv ==
  /\ TypeOK
  /\ \A r \in Requests : Named(job[r]) /\ Seen(r)
  /\ TwinsExplained /\ AnswersAreKept /\ AssignmentStands

\* What request r leaves of what the others know ...
SparesOthers(r) ==
  /\ missed => missed'
  /\ \A q \in Requests \ {r} : q \notin disturbed' => q \notin disturbed /\ owner' = owner

\* ... and of the assignment.
SparesAssignment(r) ==
  /\ UNCHANGED <<pending.to, pending.status>> \/ pending'.status # "MAPPED"
  /\ parted => parted'
  /\ pending.to \in Tenants /\ Placed => parted' \/ Placed'
  /\ Settling(r) => parted' \/ Placed' \/ Settling(r)'

LEMMA SeenStays ==
  ASSUME NEW r \in Requests, NEW q \in Requests \ {r}, SparesOthers(r), Seen(q), job'[q] = job[q]
  PROVE  Seen(q)'
<1>1. ASSUME q \notin disturbed' PROVE q \notin disturbed /\ owner' = owner /\ Present' = Present
  BY <1>1 DEF SparesOthers, Present
<1>2. missed => missed'
  BY DEF SparesOthers
<1> QED BY <1>1, <1>2 DEF Seen, Bound, OnPath

LEMMA PlainPlace ==
  ASSUME NEW r \in Requests,
         job'[r].at \in {"idle", "resolved", "mapped", "moving", "claiming", "syncing"}
  PROVE  Seen(r)'
BY DEF Seen

LEMMA Stands ==
  ASSUME AssignmentStands, NEW r \in Requests, SparesAssignment(r),
         \A q \in Requests \ {r} : job'[q] = job[q]
  PROVE  AssignmentStands'
<1> SUFFICES ASSUME pending'.status = "MAPPED", ~parted'
             PROVE  pending'.to \in Tenants /\ (Placed' \/ \E q \in Requests : Settling(q)')
  BY DEF AssignmentStands
<1>1. pending.status = "MAPPED" /\ ~parted /\ pending'.to = pending.to
  BY DEF SparesAssignment
<1>2. \A q \in Requests \ {r} : Settling(q) => Settling(q)'
  BY <1>1 DEF Settling
<1> QED BY <1>1, <1>2 DEF AssignmentStands, SparesAssignment

\* A step of request r keeps the invariant if it keeps what is r's own.
LEMMA StepKeeps ==
  ASSUME BindInv, NEW r \in Requests, TypeOK',
         \A q \in Requests \ {r} : job'[q] = job[q],
         SparesOthers(r), Named(job'[r]), Seen(r)',
         TwinsExplained', AnswersAreKept', AssignmentStands'
  PROVE  BindInv'
<1>1. ASSUME NEW q \in Requests PROVE Named(job[q])' /\ Seen(q)'
  <2>1. CASE q = r
    BY <2>1 DEF Named, OnPath
  <2>2. CASE q # r
    <3>1. job'[q] = job[q] /\ Named(job[q]) /\ Seen(q)
      BY <2>2 DEF BindInv
    <3>2. Seen(q)'
      BY <2>2, <3>1, SeenStays
    <3> QED BY <3>1, <3>2 DEF Named, OnPath
  <2> QED BY <2>1, <2>2
<1> QED BY <1>1 DEF BindInv

LEMMA InvParts ==
  ASSUME BindInv, NEW r \in Requests
  PROVE  /\ DocsTyped /\ PendingTyped /\ job \in [Requests -> Job] /\ calls \in Nat
         /\ job[r] \in Job /\ Named(job[r]) /\ Seen(r)
BY TypeParts DEF BindInv

\* Steps that leave the documents alone ...
Quiet(r) ==
  /\ UNCHANGED <<owner, used, exact, parted, dropped>>
  /\ missed' \in {missed, TRUE}
  /\ disturbed' \in {disturbed, disturbed \ {r}}

LEMMA QuietSpares ==
  ASSUME BindInv, NEW r \in Requests, Quiet(r)
  PROVE  /\ SparesOthers(r) /\ DocsTyped' /\ TwinsExplained' /\ AnswersAreKept'
         /\ Present' = Present
<1>0. missed \in BOOLEAN /\ (missed => missed')
  <2>1. missed \in BOOLEAN
    BY InvParts DEF DocsTyped
  <2>2. missed' = missed \/ missed' = TRUE
    BY DEF Quiet
  <2>3. CASE missed' = missed
    BY <2>1, <2>3
  <2>4. CASE missed' = TRUE
    BY <2>1, <2>4
  <2> QED BY <2>2, <2>3, <2>4
<1>1. SparesOthers(r)
  BY <1>0 DEF Quiet, SparesOthers
<1>2. DocsTyped'
  BY TypeParts DEF BindInv, Quiet, DocsTyped
<1>3. Present' = Present
  BY DEF Quiet, Present
<1>4. TwinsExplained' /\ AnswersAreKept'
  BY <1>0, <1>3 DEF BindInv, Quiet, TwinsExplained, AnswersAreKept, Twins
<1> QED BY <1>1, <1>2, <1>3, <1>4

\* ... and do not end an assignment.
LEMMA QuietKeeps ==
  ASSUME BindInv, NEW r \in Requests, NEW j, Quiet(r), Moved(r, j), PendingTyped',
         calls' \in Nat, Named(j), Seen(r)',
         pending'.to = pending.to,
         pending'.status = "MAPPED" <=> pending.status = "MAPPED",
         Settling(r) => Settling(r)' \/ Placed
  PROVE  BindInv'
<1>1. Placed' <=> Placed
  BY DEF Quiet, Placed
<1>2. AssignmentStands'
  <2>1. \A q \in Requests \ {r} : Settling(q) => Settling(q)'
    BY DEF Settling, Moved
  <2> QED BY <1>1, <2>1 DEF BindInv, AssignmentStands, Quiet
<1>3. TypeOK'
  BY QuietSpares, TypeParts DEF Moved
<1> QED BY <1>2, <1>3, QuietSpares, StepKeeps DEF Moved

-------------------------------------------------------------------------------
(***************************************************************************)
(* The Inform.                                                             *)
(***************************************************************************)
LEMMA NamedNoJob == Named(NoJob) /\ NoJob.at = "idle" /\ NoJob.tenant = NoTenant
BY DEF Named, NoJob, Working

LEMMA ResolveKeeps ==
  ASSUME BindingAssumption, BindInv, NEW r \in Requests, NEW route \in Routes,
         InformResolve(r, route)
  PROVE  BindInv'
<1> DEFINE j == [NoJob EXCEPT !.at = "resolved", !.route = route,
                              !.tenant = Resolve(route, pending.to),
                              !.mapped = pending.to # NoTenant]
<1>1. /\ DocsTyped /\ PendingTyped /\ job \in [Requests -> Job] /\ calls \in Nat
      /\ pending.to \in Owners
  BY InvParts DEF PendingTyped
<1>2. Resolve(route, pending.to) \in Owners
  BY <1>1, ResolveType
<1>3. j \in Job
  BY <1>2, NoJobType DEF Job, Places
<1>4. /\ j.at = "resolved" /\ j.route = route /\ j.tenant = Resolve(route, pending.to)
      /\ j.mapped = (pending.to # NoTenant)
  BY DEF NoJob
<1>5. Moved(r, j)
  <2>1. Put(r, j)
    BY DEF InformResolve
  <2> HIDE DEF j
  <2> QED BY <1>1, <1>3, <2>1, PutMoves
<1> HIDE DEF j
<1>6. Named(j)
  BY <1>4 DEF Named, Working, OnPath, Resolve
<1>7. Seen(r)'
  BY <1>4, <1>5, PlainPlace DEF Moved
<1>8. Quiet(r) /\ pending' = pending /\ calls' \in Nat /\ ~Settling(r)
  BY <1>1 DEF InformResolve, Start, Quiet, documents, history, Settling
<1> QED BY <1>1, <1>5, <1>6, <1>7, <1>8, QuietKeeps DEF PendingTyped

\* The gate: what passes it by a path has that tenant's document, or none.
LEMMA CheckKeeps ==
  ASSUME BindInv, NEW r \in Requests, InformCheck(r)
  PROVE  BindInv'
<1>1. /\ DocsTyped /\ PendingTyped /\ job \in [Requests -> Job] /\ calls \in Nat
      /\ job[r] \in Job /\ Named(job[r]) /\ job[r].at = "resolved"
  BY InvParts DEF InformCheck
<1>2. PICK d \in AnyOf(Present) :
        LET blocked == Mismatch(job[r].route, d) IN
        /\ Put(r, [job[r] EXCEPT !.at = "checked", !.blocked = blocked,
                                 !.tenant = IF blocked THEN NoTenant ELSE @])
        /\ pending' = IF blocked THEN Quarantined(job[r].route) ELSE pending
  BY DEF InformCheck
<1> DEFINE b == Mismatch(job[r].route, d)
           t == IF b THEN NoTenant ELSE job[r].tenant
           j == [job[r] EXCEPT !.at = "checked", !.blocked = b, !.tenant = t]
<1>3. b \in BOOLEAN /\ t \in Owners
  BY <1>1 DEF Mismatch, Job, Owners
<1>4. j \in Job
  <2> HIDE DEF b, t
  <2> QED BY <1>1, <1>3 DEF Job, Places
<1>5. /\ j.at = "checked" /\ j.route = job[r].route /\ j.tenant = t
      /\ j.mapped = job[r].mapped
  BY <1>1 DEF Job
<1>6. Moved(r, j)
  <2>1. Put(r, j)
    BY <1>2
  <2> HIDE DEF j
  <2> QED BY <1>1, <1>4, <2>1, PutMoves
<1> HIDE DEF j
<1>7. Named(j)
  BY <1>5 DEF Named, Working
<1>8. Quiet(r) /\ r \notin disturbed'
  BY DEF InformCheck, Quiet, documents, history, Looks
<1>9. ASSUME OnPath(j)
      PROVE  j.tenant = j.route.tenant /\ (Present = {} \/ \E e \in Docs : owner[e] = j.tenant)
  <2>1. ~b /\ OnPath(job[r]) /\ j.tenant = job[r].tenant
    BY <1>5, <1>9 DEF OnPath
  <2>2. j.tenant = j.route.tenant
    BY <1>1, <1>5, <2>1 DEF Named
  <2>3. d = NoDoc \/ owner[d] = j.tenant
    BY <1>5, <1>9, <2>1, <2>2 DEF Mismatch, OnPath
  <2>4. Present = {} \/ d \in Present
    BY DEF AnyOf
  <2>5. d \in Present => d \in Docs /\ d # NoDoc
    BY BindingAssumption DEF Present, BindingAssumption
  <2> QED BY <2>2, <2>3, <2>4, <2>5
<1>10. Seen(r)'
  <2>1. Present' = Present /\ owner' = owner /\ job'[r] = j
    BY <1>6, <1>8 DEF Quiet, Present, Moved
  <2>2. OnPath(job[r])' <=> OnPath(j)
    BY <2>1 DEF OnPath
  <2> QED BY <1>5, <1>9, <2>1, <2>2 DEF Seen
<1>11. /\ PendingTyped' /\ pending'.to = pending.to
       /\ pending'.status = "MAPPED" <=> pending.status = "MAPPED"
  <2>1. pending' = pending \/ pending' = Quarantined(job[r].route)
    BY <1>2
  <2>2. job[r].route \in Routes
    BY <1>1 DEF Job
  <2> QED BY <1>1, <2>1, <2>2, QuarantinedType DEF PendingTyped
<1>12. calls' = calls /\ ~Settling(r)
  BY <1>1 DEF InformCheck, Settling
<1> QED BY <1>1, <1>6, <1>7, <1>8, <1>10, <1>11, <1>12, QuietKeeps

LEMMA LookupKeeps ==
  ASSUME BindInv, NEW r \in Requests, InformLookup(r)
  PROVE  BindInv'
<1> DEFINE t == job[r].tenant
           own == {e \in Present : owner[e] = t}
           some == IF \E e \in Present : owner[e] = t THEN own ELSE Present
<1>1. /\ DocsTyped /\ PendingTyped /\ job \in [Requests -> Job] /\ calls \in Nat
      /\ job[r] \in Job /\ Seen(r) /\ job[r].at = "checked" /\ t # NoTenant
      /\ NoDoc \notin Docs
  BY InvParts, BindingAssumption DEF InformLookup, BindingAssumption
<1>2. PICK d \in AnyOf(some) :
        Put(r, IF d = NoDoc THEN [job[r] EXCEPT !.at = "absent"]
               ELSE [job[r] EXCEPT !.at = "found", !.doc = d, !.tenant = owner[d]])
  BY DEF InformLookup
<1>3. some \subseteq Present /\ Present \subseteq Docs /\ (some = {} => Present = {})
      /\ d \in some \cup {NoDoc} /\ (d = NoDoc => some = {})
  BY <1>1 DEF AnyOf, Present
<1>4. ASSUME \E e \in Docs : owner[e] = t, d # NoDoc PROVE owner[d] = t
  BY <1>1, <1>3, <1>4 DEF Present
<1> HIDE DEF some
<1> DEFINE j == IF d = NoDoc THEN [job[r] EXCEPT !.at = "absent"]
                ELSE [job[r] EXCEPT !.at = "found", !.doc = d, !.tenant = owner[d]]
<1>5. CASE d = NoDoc
  <2>1. /\ j \in Job /\ j.at = "absent" /\ j.tenant = t /\ j.route = job[r].route
        /\ j.mapped = job[r].mapped
    BY <1>1, <1>5 DEF Job, Places
  <2>2. Moved(r, j)
    <3>1. Put(r, j)
      BY <1>2
    <3> HIDE DEF j
    <3> QED BY <1>1, <2>1, <3>1, PutMoves
  <2> HIDE DEF j
  <2>3. Named(j)
    BY <1>1, <2>1 DEF Named, Job, Owners
  <2>4. Quiet(r) /\ disturbed' = disturbed
    BY DEF InformLookup, Quiet, documents, history
  <2>5. Present' = {} /\ job'[r] = j
    BY <1>3, <1>5, <2>2, <2>4 DEF Quiet, Present, Moved
  <2>6. OnPath(job[r])' => OnPath(job[r])
    BY <1>1, <2>1, <2>5 DEF OnPath
  <2>7. Seen(r)'
    BY <1>1, <2>1, <2>4, <2>5, <2>6 DEF Seen
  <2>8. pending' = pending /\ calls' = calls /\ ~Settling(r)
    BY <1>1 DEF InformLookup, Settling
  <2> QED BY <1>1, <2>2, <2>3, <2>4, <2>7, <2>8, QuietKeeps DEF PendingTyped
<1>6. CASE d # NoDoc
  <2>1. d \in Docs /\ owner[d] \in Tenants /\ owner[d] \in Owners
    BY <1>1, <1>3, <1>6 DEF Present, DocsTyped, Owners
  <2>2. /\ j \in Job /\ j.at = "found" /\ j.tenant = owner[d] /\ j.doc = d
        /\ j.route = job[r].route /\ j.mapped = job[r].mapped
    BY <1>1, <1>6, <2>1 DEF Job, Places
  <2>3. Moved(r, j)
    <3>1. Put(r, j)
      BY <1>2
    <3> HIDE DEF j
    <3> QED BY <1>1, <2>2, <3>1, PutMoves
  <2> HIDE DEF j
  <2>4. Named(j)
    BY <2>1, <2>2 DEF Named
  <2>5. Quiet(r) /\ disturbed' = disturbed
    BY DEF InformLookup, Quiet, documents, history
  <2>6. owner' = owner /\ job'[r] = j
    BY <2>3, <2>5 DEF Quiet, Moved
  <2>7. ASSUME OnPath(j), r \notin disturbed PROVE j.tenant = j.route.tenant
    <3>1. OnPath(job[r])
      BY <1>1, <2>2, <2>7 DEF OnPath
    <3>2. t = job[r].route.tenant /\ (Present = {} \/ \E e \in Docs : owner[e] = t)
      BY <1>1, <2>7, <3>1 DEF Seen
    <3>3. owner[d] = t
      BY <1>3, <1>4, <1>6, <3>2
    <3> QED BY <2>2, <3>2, <3>3
  <2>8. OnPath(job[r])' => OnPath(j)
    BY <2>6 DEF OnPath
  <2>9. Bound(job[r])'
    BY <2>1, <2>2, <2>6 DEF Bound
  <2>10. Seen(r)'
    BY <2>2, <2>5, <2>6, <2>7, <2>8, <2>9 DEF Seen
  <2>11. pending' = pending /\ calls' = calls /\ ~Settling(r)
    BY <1>1 DEF InformLookup, Settling
  <2> QED BY <1>1, <2>3, <2>4, <2>5, <2>10, <2>11, QuietKeeps DEF PendingTyped
<1> QED BY <1>5, <1>6

\* Steps that change the place only.
LEMMA PlaceMoves ==
  ASSUME BindInv, NEW r \in Requests, NEW place \in Places, Put(r, [job[r] EXCEPT !.at = place])
  PROVE  /\ Moved(r, [job[r] EXCEPT !.at = place])
         /\ job'[r].at = place /\ job'[r].tenant = job[r].tenant /\ job'[r].doc = job[r].doc
         /\ job'[r].route = job[r].route /\ job'[r].mapped = job[r].mapped
<1> DEFINE j == [job[r] EXCEPT !.at = place]
<1>1. job \in [Requests -> Job] /\ job[r] \in Job
  BY InvParts
<1>2. /\ j \in Job /\ j.at = place /\ j.tenant = job[r].tenant /\ j.doc = job[r].doc
      /\ j.route = job[r].route /\ j.mapped = job[r].mapped
  BY <1>1 DEF Job
<1>3. Moved(r, j)
  <2>1. Put(r, j)
    OBVIOUS
  <2> HIDE DEF j
  <2> QED BY <1>1, <1>2, <2>1, PutMoves
<1> QED BY <1>2, <1>3 DEF Moved

LEMMA QuarantineKeeps ==
  ASSUME BindInv, NEW r \in Requests, InformQuarantine(r)
  PROVE  BindInv'
<1>1. /\ PendingTyped /\ calls \in Nat /\ job[r] \in Job /\ job[r].at = "checked"
      /\ job[r].tenant = NoTenant /\ job[r].route \in Routes
  BY InvParts DEF InformQuarantine, Job
<1>2. Moved(r, [job[r] EXCEPT !.at = "open"]) /\ job'[r].at = "open" /\ job'[r].tenant = NoTenant
  BY <1>1, PlaceMoves DEF InformQuarantine, Places
<1>3. Named(job'[r])
  BY <1>2 DEF Named, Working
<1>4. Quiet(r)
  BY DEF InformQuarantine, Quiet, documents, history
<1>5. Seen(r)'
  BY <1>2 DEF Seen, OnPath
<1>6. /\ PendingTyped' /\ pending'.to = pending.to
      /\ pending'.status = "MAPPED" <=> pending.status = "MAPPED"
  BY <1>1, QuarantinedType DEF InformQuarantine, PendingTyped
<1>7. calls' = calls /\ ~Settling(r)
  BY <1>1 DEF InformQuarantine, Settling
<1>8. job'[r] = [job[r] EXCEPT !.at = "open"]
  BY <1>2 DEF Moved
<1> QED BY <1>1, <1>2, <1>3, <1>4, <1>5, <1>6, <1>7, <1>8, QuietKeeps

LEMMA SaveKeeps ==
  ASSUME BindInv, NEW r \in Requests, InformSave(r)
  PROVE  BindInv'
<1>1. /\ PendingTyped /\ calls \in Nat /\ job[r].at = "found" /\ Named(job[r]) /\ Seen(r)
  BY InvParts DEF InformSave
<1>2. /\ Moved(r, [job[r] EXCEPT !.at = "open"])
      /\ job'[r].at = "open" /\ job'[r].tenant = job[r].tenant /\ job'[r].doc = job[r].doc
      /\ job'[r].route = job[r].route /\ job'[r].mapped = job[r].mapped
  BY PlaceMoves DEF InformSave, Places
<1>3. Named(job'[r])
  BY <1>2 DEF Named, Working
<1>4. Quiet(r) /\ disturbed' = disturbed
  BY DEF InformSave, Quiet, documents, history
<1>5. Seen(r)'
  BY <1>1, <1>2, <1>4 DEF Seen, OnPath, Bound, Quiet
<1>6. pending' = pending /\ calls' = calls /\ ~Settling(r)
  BY <1>1 DEF InformSave, Settling
<1>7. job'[r] = [job[r] EXCEPT !.at = "open"]
  BY <1>2 DEF Moved
<1> QED BY <1>1, <1>2, <1>3, <1>4, <1>5, <1>6, <1>7, QuietKeeps DEF PendingTyped

LEMMA CollideKeeps ==
  ASSUME BindInv, NEW r \in Requests, InformCollide(r)
  PROVE  BindInv'
<1>1. /\ PendingTyped /\ calls \in Nat /\ job[r].at = "absent" /\ Named(job[r]) /\ Seen(r)
  BY InvParts DEF InformCollide
<1>2. /\ Moved(r, [job[r] EXCEPT !.at = "collided"])
      /\ job'[r].at = "collided" /\ job'[r].tenant = job[r].tenant /\ job'[r].doc = job[r].doc
      /\ job'[r].route = job[r].route /\ job'[r].mapped = job[r].mapped
  BY PlaceMoves DEF InformCollide, Places
<1>3. Named(job'[r])
  BY <1>1, <1>2 DEF Named, Working
<1>4. Quiet(r) /\ disturbed' = disturbed
  BY DEF InformCollide, Quiet, documents, history
<1>5. Seen(r)'
  BY <1>1, <1>2, <1>4 DEF Seen, OnPath, Present, Quiet
<1>6. pending' = pending /\ calls' = calls /\ ~Settling(r)
  BY <1>1 DEF InformCollide, Settling
<1>7. job'[r] = [job[r] EXCEPT !.at = "collided"]
  BY <1>2 DEF Moved
<1> QED BY <1>1, <1>2, <1>3, <1>4, <1>5, <1>6, <1>7, QuietKeeps DEF PendingTyped

LEMMA PollKeeps ==
  ASSUME BindInv, NEW r \in Requests, Poll(r)
  PROVE  BindInv'
<1>1. /\ PendingTyped /\ calls \in Nat /\ job \in [Requests -> Job] /\ job[r] \in Job
      /\ job[r].at = "open" /\ job[r].tenant # NoTenant /\ Seen(r)
  BY InvParts DEF Poll
<1>2. PICK d \in AnyOf(Present) : Put(r, [job[r] EXCEPT !.at = "asked", !.dev = d])
  BY DEF Poll
<1> DEFINE j == [job[r] EXCEPT !.at = "asked", !.dev = d]
<1>3. d \in Docs \cup {NoDoc}
  BY DEF AnyOf, Present
<1>4. /\ j \in Job /\ j.at = "asked" /\ j.tenant = job[r].tenant /\ j.doc = job[r].doc
      /\ j.route = job[r].route /\ j.mapped = job[r].mapped
  BY <1>1, <1>3 DEF Job, Places
<1>5. Moved(r, j)
  <2>1. Put(r, j)
    BY <1>2
  <2> HIDE DEF j
  <2> QED BY <1>1, <1>4, <2>1, PutMoves
<1> HIDE DEF j
<1>6. Named(j)
  BY <1>1, <1>4 DEF Named, Job, Owners
<1>7. Quiet(r) /\ disturbed' = disturbed
  BY DEF Poll, Quiet, documents, history
<1>8. job'[r] = j
  BY <1>5 DEF Moved
<1>9. Seen(r)'
  BY <1>1, <1>4, <1>7, <1>8 DEF Seen, OnPath, Bound, Quiet
<1>10. pending' = pending /\ calls' = calls /\ ~Settling(r)
  BY <1>1 DEF Poll, Settling
<1> QED BY <1>1, <1>5, <1>6, <1>7, <1>9, <1>10, QuietKeeps DEF PendingTyped

\* An answer is heard unless somebody has changed the documents.
LEMMA AnswerKeeps ==
  ASSUME BindInv, NEW r \in Requests, Answer(r)
  PROVE  BindInv'
<1>1. /\ DocsTyped /\ PendingTyped /\ calls \in Nat /\ job \in [Requests -> Job]
      /\ job[r] \in Job /\ job[r].at = "asked" /\ Seen(r) /\ Named(job[r]) /\ NoTenant \notin Tenants
  BY InvParts, BindingAssumption DEF Answer, BindingAssumption
<1> DEFINE j == [job[r] EXCEPT !.at = "open", !.dev = NoDoc]
<1>2. /\ j \in Job /\ j.at = "open" /\ j.tenant = job[r].tenant /\ j.doc = job[r].doc
      /\ j.route = job[r].route /\ j.mapped = job[r].mapped
  BY <1>1 DEF Job, Places
<1>3. Moved(r, j)
  <2>1. Put(r, j)
    BY DEF Answer
  <2> HIDE DEF j
  <2> QED BY <1>1, <1>2, <2>1, PutMoves
<1> HIDE DEF j
<1>4. UNCHANGED <<owner, used, exact, disturbed, missed, parted, pending, calls>>
  BY DEF Answer, documents
<1>5. job[r].tenant # NoTenant
  BY <1>1 DEF Named, Working
<1>6. Heard(r) = {} => r \in disturbed
  BY <1>1, <1>5 DEF Seen, Bound, Heard
<1>7. dropped' = dropped /\ dropped' \in BOOLEAN
  BY <1>1, <1>6 DEF Answer, DocsTyped
<1>8. Quiet(r)
  BY <1>4, <1>7 DEF Quiet
<1>9. Named(j)
  BY <1>2 DEF Named, Working
<1>10. job'[r] = j
  BY <1>3 DEF Moved
<1>11. Seen(r)'
  BY <1>1, <1>2, <1>4, <1>5, <1>10 DEF Seen, OnPath, Bound
<1>12. ~Settling(r)
  BY <1>1 DEF Settling
<1> QED BY <1>1, <1>3, <1>4, <1>8, <1>9, <1>11, <1>12, QuietKeeps DEF PendingTyped

\* Steps after which the request is idle and has done nothing.
LEMMA EndKeeps ==
  ASSUME BindInv, NEW r \in Requests, Put(r, NoJob), Quiet(r), UNCHANGED <<pending, calls>>,
         ~Settling(r)
  PROVE  BindInv'
<1>1. PendingTyped /\ calls \in Nat /\ job \in [Requests -> Job]
  BY InvParts
<1>2. Moved(r, NoJob) /\ Named(NoJob)
  BY <1>1, NoJobType, PutMoves, NamedNoJob
<1>3. Seen(r)'
  BY <1>2, NamedNoJob, PlainPlace DEF Moved
<1> QED BY <1>1, <1>2, <1>3, QuietKeeps DEF PendingTyped

LEMMA EndSessionKeeps ==
  ASSUME BindInv, NEW r \in Requests, EndSession(r) \/ ClaimEnd(r)
  PROVE  BindInv'
BY EndKeeps DEF EndSession, ClaimEnd, Quiet, documents, history, Settling

-------------------------------------------------------------------------------
(***************************************************************************)
(* Steps that change the documents.                                        *)
(***************************************************************************)
LEMMA AfterCreate ==
  ASSUME BindInv, NEW r \in Requests, NEW d \in Docs, NEW t \in Tenants, NEW blind \in BOOLEAN,
         Created(r, d, t), missed' = (missed \/ blind), ~blind => Present = {} \/ missed,
         UNCHANGED <<pending, dropped>>, parted => parted',
         Settling(r) => parted' \/ t = pending.to,
         \A q \in Requests \ {r} : job'[q] = job[q],
         TypeOK', Named(job'[r]), Seen(r)'
  PROVE  BindInv'
<1>1. /\ DocsTyped /\ NoTenant \notin Tenants /\ owner' = [owner EXCEPT ![d] = t]
      /\ disturbed' = disturbed \cup (Requests \ {r}) /\ owner[d] = NoTenant
  BY InvParts, BindingAssumption DEF BindingAssumption, Created
<1>2. owner'[d] = t /\ \A e \in Docs : e # d => owner'[e] = owner[e]
  BY <1>1 DEF DocsTyped
<1>3. SparesOthers(r)
  BY <1>1 DEF SparesOthers
<1>4. TwinsExplained'
  <2>1. Present = {} => ~Twins'
    BY <1>2 DEF Present, Twins
  <2> QED BY <2>1 DEF TwinsExplained
<1>5. AnswersAreKept'
  BY DEF BindInv, AnswersAreKept
<1>6. SparesAssignment(r)
  BY <1>1, <1>2 DEF SparesAssignment, Placed
<1>7. AssignmentStands'
  BY <1>6, Stands DEF BindInv
<1> QED BY <1>3, <1>4, <1>5, <1>7, StepKeeps

LEMMA AfterMove ==
  ASSUME BindInv, NEW r \in Requests, NEW d \in Docs, NEW t \in Tenants, Given(r, d, t),
         UNCHANGED <<pending, dropped>>, Settling(r) => Settling(r)' \/ t = pending.to,
         \A q \in Requests \ {r} : job'[q] = job[q],
         TypeOK', Named(job'[r]), Seen(r)'
  PROVE  BindInv'
<1>1. /\ DocsTyped /\ NoTenant \notin Tenants /\ owner' = [owner EXCEPT ![d] = t]
      /\ owner[d] # NoTenant /\ parted' = (parted \/ pending.to # t) /\ missed' = missed
      /\ (owner' = owner /\ disturbed' = disturbed) \/ disturbed' = disturbed \cup (Requests \ {r})
  BY InvParts, BindingAssumption DEF BindingAssumption, Given
<1>2. owner'[d] = t /\ \A e \in Docs : e # d => owner'[e] = owner[e]
  BY <1>1 DEF DocsTyped
<1>3. SparesOthers(r)
  BY <1>1 DEF SparesOthers
<1>4. TwinsExplained' /\ AnswersAreKept'
  <2>1. Present' = Present
    BY <1>1, <1>2 DEF Present
  <2> QED BY <1>1, <2>1 DEF BindInv, TwinsExplained, AnswersAreKept, Twins
<1>5. SparesAssignment(r)
  BY <1>1, <1>2 DEF SparesAssignment, Placed
<1>6. AssignmentStands'
  BY <1>5, Stands DEF BindInv
<1> QED BY <1>3, <1>4, <1>6, StepKeeps

LEMMA MakeTypes ==
  ASSUME BindInv, NEW r \in Requests, DocsTyped', NEW j, Moved(r, j), UNCHANGED pending, calls' \in Nat
  PROVE  TypeOK' /\ \A q \in Requests \ {r} : job'[q] = job[q]
BY InvParts, TypeParts DEF Moved, PendingTyped

LEMMA InformCreateKeeps ==
  ASSUME BindInv, NEW r \in Requests, NEW d \in Docs, InformCreate(r, d)
  PROVE  BindInv'
<1> DEFINE t == job[r].tenant
           j == [job[r] EXCEPT !.at = "open", !.doc = d]
           blind == r \in disturbed
<1>1. /\ DocsTyped /\ PendingTyped /\ calls \in Nat /\ job \in [Requests -> Job]
      /\ job[r] \in Job /\ job[r].at = "absent" /\ Seen(r) /\ Named(job[r])
  BY InvParts DEF InformCreate
<1>2. t \in Tenants
  BY <1>1 DEF Named, Working
<1>3. UNCHANGED <<pending, calls, parted, dropped>> /\ Create(r, d, TRUE, t, blind)
  BY DEF InformCreate
<1>4. Created(r, d, t) /\ missed' = (missed \/ blind) /\ DocsTyped'
  <2>1. parted' \in BOOLEAN /\ dropped' \in BOOLEAN
    BY <1>1, <1>3 DEF DocsTyped
  <2> HIDE DEF t, blind
  <2> QED BY <1>1, <1>2, <1>3, <2>1 DEF Create, Created, Disturb, DocsTyped, Owners
<1>5. /\ j \in Job /\ j.at = "open" /\ j.tenant = t /\ j.doc = d
      /\ j.route = job[r].route /\ j.mapped = job[r].mapped
  BY <1>1 DEF Job, Places
<1>6. Moved(r, j)
  <2>1. Put(r, j)
    BY DEF InformCreate
  <2> HIDE DEF j
  <2> QED BY <1>1, <1>5, <2>1, PutMoves
<1> HIDE DEF j
<1>7. TypeOK' /\ \A q \in Requests \ {r} : job'[q] = job[q]
  BY <1>1, <1>3, <1>4, <1>6, MakeTypes
<1>8. job'[r] = j /\ Named(j)
  BY <1>5, <1>6 DEF Moved, Named, Working
<1>9. Seen(r)'
  <2>1. disturbed' = disturbed \cup (Requests \ {r}) /\ owner'[d] = t
    BY <1>1, <1>4 DEF Created, DocsTyped
  <2>2. r \notin disturbed => (OnPath(job[r]) => t = job[r].route.tenant)
    BY <1>1 DEF Seen
  <2>3. OnPath(job[r])' <=> OnPath(job[r])
    BY <1>5, <1>8 DEF OnPath
  <2>4. Bound(job[r])'
    BY <1>5, <1>8, <2>1 DEF Bound
  <2> QED BY <1>5, <1>8, <2>1, <2>2, <2>3, <2>4 DEF Seen
<1>10. ~blind => Present = {} \/ missed
  BY <1>1 DEF Seen
<1>11. ~Settling(r)
  BY <1>1 DEF Settling
<1> HIDE DEF t
<1> QED BY <1>2, <1>3, <1>4, <1>7, <1>8, <1>9, <1>10, <1>11, AfterCreate

LEMMA UpsertKeeps ==
  ASSUME BindInv, NEW r \in Requests, NEW d \in Docs, InformUpsert(r, d)
  PROVE  BindInv'
<1> DEFINE t == job[r].tenant
           j == [job[r] EXCEPT !.at = "open", !.doc = d]
           blind == r \in disturbed
<1>1. /\ DocsTyped /\ PendingTyped /\ calls \in Nat /\ job \in [Requests -> Job]
      /\ job[r] \in Job /\ job[r].at = "collided" /\ Seen(r) /\ Named(job[r])
  BY InvParts DEF InformUpsert
<1>2. t \in Tenants
  BY <1>1 DEF Named, Working
<1>3. UNCHANGED <<pending, calls, dropped>>
  BY DEF InformUpsert
<1>4. /\ j \in Job /\ j.at = "open" /\ j.tenant = t /\ j.doc = d
      /\ j.route = job[r].route /\ j.mapped = job[r].mapped
  BY <1>1 DEF Job, Places
<1>5. Moved(r, j)
  <2>1. Put(r, j)
    BY DEF InformUpsert
  <2> HIDE DEF j
  <2> QED BY <1>1, <1>4, <2>1, PutMoves
<1> HIDE DEF j
<1>6. job'[r] = j /\ Named(j) /\ ~Settling(r)
  BY <1>1, <1>4, <1>5 DEF Moved, Named, Working, Settling
<1>7. r \notin disturbed => Present = {} /\ (OnPath(job[r]) => t = job[r].route.tenant)
  BY <1>1 DEF Seen
<1>8. ASSUME owner'[d] = t, r \notin disturbed' => r \notin disturbed PROVE Seen(r)'
  <2>1. OnPath(job[r])' <=> OnPath(job[r])
    BY <1>4, <1>6 DEF OnPath
  <2>2. Bound(job[r])'
    BY <1>4, <1>6, <1>8 DEF Bound
  <2> QED BY <1>4, <1>6, <1>7, <1>8, <2>1, <2>2 DEF Seen
<1> HIDE DEF t
<1>9. CASE d \in Present \cap exact /\ Move(r, d, t)
  <2>1. dropped' \in BOOLEAN
    BY <1>1, <1>3 DEF DocsTyped
  <2>2. Given(r, d, t) /\ DocsTyped'
    BY <1>1, <1>2, <1>9, <2>1, MoveGives
  <2>3. TypeOK' /\ \A q \in Requests \ {r} : job'[q] = job[q]
    BY <1>1, <1>3, <1>5, <2>2, MakeTypes
  <2>4. Seen(r)'
    BY <1>1, <1>8, <2>2 DEF Given, DocsTyped
  <2> QED BY <1>2, <1>3, <1>6, <2>2, <2>3, <2>4, AfterMove
<1>10. CASE Create(r, d, TRUE, t, blind) /\ UNCHANGED parted
  <2>1. parted' \in BOOLEAN /\ dropped' \in BOOLEAN
    BY <1>1, <1>3, <1>10 DEF DocsTyped
  <2>2. Created(r, d, t) /\ missed' = (missed \/ blind) /\ DocsTyped'
    <3> HIDE DEF blind
    <3> QED BY <1>1, <1>2, <1>3, <1>10, <2>1 DEF Create, Created, Disturb, DocsTyped, Owners
  <2>3. TypeOK' /\ \A q \in Requests \ {r} : job'[q] = job[q]
    BY <1>1, <1>3, <1>5, <2>2, MakeTypes
  <2>4. Seen(r)'
    BY <1>1, <1>8, <2>2 DEF Created, DocsTyped
  <2> QED BY <1>2, <1>3, <1>6, <1>7, <1>10, <2>2, <2>3, <2>4, AfterCreate
<1> QED BY <1>9, <1>10 DEF InformUpsert, t

-------------------------------------------------------------------------------
(***************************************************************************)
(* Assignments.                                                            *)
(***************************************************************************)
\* An assignment starts: it is the one that stands.
LEMMA AssignKeeps ==
  ASSUME BindInv, NEW r \in Requests, NEW t \in Tenants, NEW all \in BOOLEAN, Assign(r, t, all)
  PROVE  BindInv'
<1> DEFINE then == IF all THEN "claiming" ELSE "idle"
           j == [NoJob EXCEPT !.at = "mapped", !.tenant = t, !.then = then]
<1>1. /\ DocsTyped /\ PendingTyped /\ calls \in Nat /\ job \in [Requests -> Job]
  BY InvParts
<1>2. then \in {"idle", "claiming", "synced"}
  OBVIOUS
<1>3. /\ j \in Job /\ j.at = "mapped" /\ j.tenant = t
  <2> HIDE DEF then
  <2> QED BY <1>2, NoJobType DEF Job, Places, Owners, NoJob
<1>4. Moved(r, j)
  <2>1. Put(r, j)
    BY DEF Assign
  <2> HIDE DEF j
  <2> QED BY <1>1, <1>3, <2>1, PutMoves
<1> HIDE DEF j, then
<1>5. job'[r] = j /\ Named(j)
  BY <1>3, <1>4 DEF Moved, Named
<1>6. Seen(r)'
  BY <1>3, <1>5, PlainPlace
<1>7. /\ UNCHANGED <<owner, used, exact, disturbed, missed, dropped>> /\ parted' = FALSE
      /\ pending' = Assigned(t) /\ calls' = calls + 1
  BY DEF Assign, documents, Start
<1>8. /\ PendingTyped' /\ pending'.to = t
  BY <1>1, <1>7, AssignedType DEF PendingTyped
<1>9. TypeOK'
  <2>1. DocsTyped' /\ calls' \in Nat
    <3>1. parted' \in BOOLEAN
      BY <1>7
    <3>2. missed' \in BOOLEAN /\ dropped' \in BOOLEAN
      BY <1>1, <1>7 DEF DocsTyped
    <3>3. calls' \in Nat
      BY <1>1, <1>7
    <3> QED BY <1>1, <1>7, <3>1, <3>2, <3>3, Zenon DEF DocsTyped
  <2> QED BY <1>4, <1>8, <2>1, TypeParts DEF Moved
<1>10. SparesOthers(r)
  BY <1>7 DEF SparesOthers
<1>11. TwinsExplained' /\ AnswersAreKept'
  BY <1>7 DEF BindInv, TwinsExplained, AnswersAreKept, Twins, Present
<1>12. AssignmentStands'
  BY <1>3, <1>5, <1>8 DEF AssignmentStands, Settling
<1> QED BY <1>4, <1>5, <1>6, <1>9, <1>10, <1>11, <1>12, StepKeeps DEF Moved

\* Requests that start and have looked at nothing yet.
LEMMA StartKeeps ==
  ASSUME BindInv, NEW r \in Requests, NEW t \in Tenants, NEW place \in {"claiming", "syncing"},
         Start(r), Put(r, [NoJob EXCEPT !.at = place, !.tenant = t]),
         UNCHANGED <<documents, pending, disturbed, history>>
  PROVE  BindInv'
<1> DEFINE j == [NoJob EXCEPT !.at = place, !.tenant = t]
<1>1. PendingTyped /\ calls \in Nat /\ job \in [Requests -> Job]
  BY InvParts
<1>2. /\ j \in Job /\ j.at = place /\ j.tenant = t /\ j.route = NoRoute
  BY NoJobType DEF Job, Places, Owners, NoJob
<1>3. Moved(r, j)
  <2>1. Put(r, j)
    OBVIOUS
  <2> HIDE DEF j
  <2> QED BY <1>1, <1>2, <2>1, PutMoves
<1> HIDE DEF j
<1>4. Named(j)
  BY <1>2 DEF Named
<1>5. Seen(r)'
  BY <1>2, <1>3, PlainPlace DEF Moved
<1>6. Quiet(r) /\ calls' \in Nat /\ ~Settling(r)
  BY <1>1 DEF Quiet, documents, history, Start, Settling
<1> QED BY <1>1, <1>3, <1>4, <1>5, <1>6, QuietKeeps DEF PendingTyped

LEMMA ClaimNothingKeeps ==
  ASSUME BindInv, NEW r \in Requests, NEW t \in Tenants, ClaimNothing(r, t)
  PROVE  BindInv'
BY StartKeeps DEF ClaimNothing

LEMMA SyncKeeps ==
  ASSUME BindingAssumption, BindInv, NEW r \in Requests, Sync(r)
  PROVE  BindInv'
<1>1. PendingTyped
  BY InvParts
<1>2. PICK t : t = Resolve(pending.route, pending.to)
  OBVIOUS
<1>3. t \in Tenants
  <2>1. t \in Owners /\ t # NoTenant
    BY <1>1, <1>2, ResolveType DEF Sync, PendingTyped
  <2> QED BY <2>1 DEF Owners
<1>4. Put(r, [NoJob EXCEPT !.at = "syncing", !.tenant = t])
  BY <1>2 DEF Sync
<1> QED BY <1>3, <1>4, StartKeeps DEF Sync

\* The document is looked up: what is found has to move, or has its tenant.
LEMMA TowardKeeps ==
  ASSUME BindInv, NEW r \in Requests, NEW d \in Docs \cup {NoDoc},
         NEW t \in Tenants, NEW j \in Job,
         j.at = Toward(d, t), j.tenant = t, j.doc = d,
         Moved(r, j), Quiet(r), UNCHANGED pending, calls' \in Nat,
         Settling(r) => t = pending.to,
         d = NoDoc => r \in disturbed' \/ Present = {} \/ missed'
  PROVE  BindInv'
<1>1. /\ j.at \in {"missing", "same", "moving"} /\ (j.at = "missing" <=> d = NoDoc)
      /\ (j.at = "same" => owner[d] = t)
  BY TowardPlace
<1>2. Named(j)
  BY <1>1 DEF Named
<1>3. job'[r] = j /\ owner' = owner /\ Present' = Present
  BY DEF Moved, Quiet, Present
<1>4. Seen(r)'
  BY <1>1, <1>3 DEF Seen, Bound
<1>5. Settling(r) => Settling(r)' \/ Placed
  <2>1. CASE j.at = "same"
    BY <1>1, <2>1 DEF Placed
  <2>2. CASE j.at # "same"
    BY <1>1, <1>3, <2>2 DEF Settling
  <2> QED BY <2>1, <2>2
<1> QED BY <1>2, <1>4, <1>5, InvParts, QuietKeeps DEF PendingTyped

LEMMA AssignLookupKeeps ==
  ASSUME BindInv, NEW r \in Requests, AssignLookup(r)
  PROVE  BindInv'
<1>1. /\ DocsTyped /\ PendingTyped /\ calls \in Nat /\ job \in [Requests -> Job]
      /\ job[r] \in Job /\ job[r].at = "mapped" /\ job[r].tenant \in Tenants
  BY InvParts DEF AssignLookup, Named, Working
<1>2. PICK d \in AnyOf(Present \cap exact) :
        Put(r, [job[r] EXCEPT !.at = Toward(d, job[r].tenant), !.doc = d])
  BY DEF AssignLookup
<1> DEFINE p == Toward(d, job[r].tenant)
           j == [job[r] EXCEPT !.at = p, !.doc = d]
<1>3. d \in Docs \cup {NoDoc} /\ p \in Places
  BY TowardPlace DEF AnyOf, Present, Places
<1>4. /\ j \in Job /\ j.at = p /\ j.tenant = job[r].tenant /\ j.doc = d
  <2> HIDE DEF p
  <2> QED BY <1>1, <1>3 DEF Job
<1>5. Moved(r, j)
  <2>1. Put(r, j)
    BY <1>2
  <2> HIDE DEF j
  <2> QED BY <1>1, <1>4, <2>1, PutMoves
<1> HIDE DEF j
<1>6. Quiet(r) /\ pending' = pending /\ calls' \in Nat
  BY <1>1 DEF AssignLookup, Quiet, documents, Looks, DocsTyped
<1>7. d = NoDoc => Present = {} \/ missed'
  <2>1. d = NoDoc => Present \cap exact = {}
    BY <1>2, BindingAssumption DEF AnyOf, Present, BindingAssumption
  <2> QED BY <2>1 DEF AssignLookup
<1> QED BY <1>1, <1>3, <1>4, <1>5, <1>6, <1>7, TowardKeeps DEF Settling

LEMMA SyncLookupKeeps ==
  ASSUME BindInv, NEW r \in Requests, SyncLookup(r)
  PROVE  BindInv'
<1>1. /\ PendingTyped /\ calls \in Nat /\ job \in [Requests -> Job]
      /\ job[r] \in Job /\ job[r].at = "syncing" /\ job[r].tenant \in Tenants
  BY InvParts DEF SyncLookup, Named, Working
<1>2. PICK d \in AnyOf(Present) :
        Put(r, [job[r] EXCEPT !.at = Toward(d, job[r].tenant), !.doc = d, !.then = "synced"])
  BY DEF SyncLookup
<1> DEFINE p == Toward(d, job[r].tenant)
           j == [job[r] EXCEPT !.at = p, !.doc = d, !.then = "synced"]
<1>3. d \in Docs \cup {NoDoc} /\ p \in Places
  BY TowardPlace DEF AnyOf, Present, Places
<1>4. /\ j \in Job /\ j.at = p /\ j.tenant = job[r].tenant /\ j.doc = d
  <2> HIDE DEF p
  <2> QED BY <1>1, <1>3 DEF Job
<1>5. Moved(r, j)
  <2>1. Put(r, j)
    BY <1>2
  <2> HIDE DEF j
  <2> QED BY <1>1, <1>4, <2>1, PutMoves
<1> HIDE DEF j
<1>6. Quiet(r) /\ pending' = pending /\ calls' \in Nat /\ ~Settling(r)
  BY <1>1 DEF SyncLookup, Quiet, documents, history, Looks, Settling
<1>7. d = NoDoc => Present = {}
  BY <1>2, BindingAssumption DEF AnyOf, Present, BindingAssumption
<1> QED BY <1>1, <1>3, <1>4, <1>5, <1>6, <1>7, TowardKeeps

LEMMA TransferKeeps ==
  ASSUME BindInv, NEW r \in Requests, NEW d \in Docs, NEW t \in Tenants, Transfer(r, d, t)
  PROVE  BindInv'
<1>1. /\ PendingTyped /\ calls \in Nat /\ job \in [Requests -> Job] /\ job[r].at = "idle"
  BY InvParts DEF Transfer, Start
<1> DEFINE p == Toward(d, t)
           j == [NoJob EXCEPT !.at = p, !.tenant = t, !.doc = d]
<1>2. p \in Places /\ d # NoDoc
  BY TowardPlace, BindingAssumption DEF Places, BindingAssumption
<1>3. /\ j \in Job /\ j.at = p /\ j.tenant = t /\ j.doc = d
  <2> HIDE DEF p
  <2> QED BY <1>2, NoJobType DEF Job, Owners, NoJob
<1>4. Moved(r, j)
  <2>1. Put(r, j)
    BY DEF Transfer
  <2> HIDE DEF j
  <2> QED BY <1>1, <1>3, <2>1, PutMoves
<1> HIDE DEF j
<1>5. Quiet(r) /\ pending' = pending /\ calls' \in Nat /\ ~Settling(r)
  BY <1>1 DEF Transfer, Quiet, documents, history, Start, Settling
<1> QED BY <1>2, <1>3, <1>4, <1>5, TowardKeeps

LEMMA ThenNamed ==
  ASSUME NEW j \in Job, j.tenant \in Tenants
  PROVE  Named(Then(j)) /\ Then(j).at \in {"idle", "claiming", "synced"}
<1>1. /\ Then(j).at \in {"idle", "claiming", "synced"}
      /\ Then(j).at # "idle" => Then(j).tenant = j.tenant
  BY ThenType
<1> QED BY <1>1 DEF Named, Working

\* The document is saved under its new tenant.
LEMMA MoveSaveKeeps ==
  ASSUME BindInv, NEW r \in Requests, MoveSave(r)
  PROVE  BindInv'
<1> DEFINE t == job[r].tenant
           d == job[r].doc
           j == Then(job[r])
<1>1. /\ DocsTyped /\ PendingTyped /\ calls \in Nat /\ job \in [Requests -> Job]
      /\ job[r] \in Job /\ job[r].at = "moving" /\ t \in Tenants /\ d \in Docs
  BY InvParts DEF MoveSave, Named, Working
<1>2. Move(r, d, t) /\ Put(r, j) /\ UNCHANGED <<pending, calls, dropped>>
  BY DEF MoveSave
<1>3. j \in Job /\ Named(j) /\ j.at \in {"idle", "claiming", "synced"}
      /\ (j.at # "idle" => j.tenant = t)
  BY <1>1, ThenType, ThenNamed
<1> HIDE DEF j
<1>4. Moved(r, j) /\ job'[r] = j
  BY <1>1, <1>2, <1>3, PutMoves DEF Moved
<1>5. dropped' \in BOOLEAN
  BY <1>1, <1>2 DEF DocsTyped
<1>6. Settling(r) => t = pending.to
  BY DEF Settling
<1> HIDE DEF t, d
<1>7. Given(r, d, t) /\ DocsTyped'
  BY <1>1, <1>2, <1>5, MoveGives
<1>8. owner'[d] = t
  BY <1>1, <1>7 DEF Given, DocsTyped
<1>9. Seen(r)'
  BY <1>1, <1>3, <1>4, <1>8 DEF Seen
<1>10. TypeOK' /\ \A q \in Requests \ {r} : job'[q] = job[q]
  BY <1>1, <1>2, <1>4, <1>7, MakeTypes
<1> QED BY <1>1, <1>2, <1>3, <1>4, <1>6, <1>7, <1>9, <1>10, AfterMove

\* The document had its tenant already.
LEMMA SameSaveKeeps ==
  ASSUME BindInv, NEW r \in Requests, SameSave(r)
  PROVE  BindInv'
<1> DEFINE j == Then(job[r])
<1>1. /\ DocsTyped /\ PendingTyped /\ calls \in Nat /\ job \in [Requests -> Job] /\ Seen(r)
      /\ job[r] \in Job /\ job[r].at = "same" /\ job[r].tenant \in Tenants /\ job[r].doc \in Docs
  BY InvParts DEF SameSave, Named, Working
<1>2. j \in Job /\ Named(j) /\ j.at \in {"idle", "claiming", "synced"}
      /\ (j.at # "idle" => j.tenant = job[r].tenant)
  BY <1>1, ThenType, ThenNamed
<1>3. Put(r, j)
  BY DEF SameSave
<1> HIDE DEF j
<1>4. Moved(r, j) /\ job'[r] = j
  BY <1>1, <1>2, <1>3, PutMoves DEF Moved
<1>5. Quiet(r) /\ disturbed' = disturbed /\ pending' = pending /\ calls' = calls /\ ~Settling(r)
  BY <1>1 DEF SameSave, Quiet, documents, history, Settling
<1>6. Seen(r)'
  BY <1>1, <1>2, <1>4, <1>5 DEF Seen, Bound, Quiet
<1> QED BY <1>1, <1>2, <1>4, <1>5, <1>6, QuietKeeps DEF PendingTyped

LEMMA MissingCreateKeeps ==
  ASSUME BindInv, NEW r \in Requests, NEW d \in Docs, MissingCreate(r, d)
  PROVE  BindInv'
<1> DEFINE t == job[r].tenant
           j == Then(job[r])
           blind == r \in disturbed
<1>1. /\ DocsTyped /\ PendingTyped /\ calls \in Nat /\ job \in [Requests -> Job] /\ Seen(r)
      /\ job[r] \in Job /\ job[r].at = "missing" /\ t \in Tenants
  BY InvParts DEF MissingCreate, Named, Working
<1>2. Create(r, d, TRUE, t, blind) /\ Put(r, j) /\ UNCHANGED <<pending, calls, parted, dropped>>
  BY DEF MissingCreate
<1>3. j \in Job /\ Named(j) /\ j.at \in {"idle", "claiming", "synced"}
      /\ (j.at # "idle" => j.tenant = t)
  BY <1>1, ThenType, ThenNamed
<1> HIDE DEF j
<1>4. Moved(r, j) /\ job'[r] = j
  BY <1>1, <1>2, <1>3, PutMoves DEF Moved
<1>5. parted' \in BOOLEAN /\ dropped' \in BOOLEAN
  BY <1>1, <1>2 DEF DocsTyped
<1>6. (Settling(r) => t = pending.to) /\ (~blind => Present = {} \/ missed)
  BY <1>1 DEF Settling, Seen
<1> HIDE DEF t, blind
<1>7. Created(r, d, t) /\ missed' = (missed \/ blind) /\ DocsTyped'
  BY <1>1, <1>2, <1>5 DEF Create, Created, Disturb, DocsTyped, Owners
<1>8. owner'[d] = t
  BY <1>1, <1>7 DEF Created, DocsTyped
<1>9. Seen(r)'
  BY <1>3, <1>4, <1>8 DEF Seen
<1>10. TypeOK' /\ \A q \in Requests \ {r} : job'[q] = job[q]
  BY <1>1, <1>2, <1>4, <1>7, MakeTypes
<1> QED
  <2> USE DEF blind
  <2> QED BY <1>1, <1>2, <1>3, <1>4, <1>6, <1>7, <1>9, <1>10, AfterCreate

LEMMA ClaimNextKeeps ==
  ASSUME BindInv, NEW r \in Requests, NEW d \in Docs, ClaimNext(r, d)
  PROVE  BindInv'
<1> DEFINE t == job[r].tenant
<1>1. /\ DocsTyped /\ PendingTyped /\ calls \in Nat /\ job \in [Requests -> Job]
      /\ Named(job[r]) /\ job[r].at = "claiming" /\ t \in Tenants
  BY InvParts DEF ClaimNext, Named, Working
<1>2. Move(r, d, t) /\ UNCHANGED <<pending, job, calls, dropped>>
  BY DEF ClaimNext
<1>3. dropped' \in BOOLEAN /\ ~Settling(r)
  BY <1>1, <1>2 DEF DocsTyped, Settling
<1>4. Given(r, d, t) /\ DocsTyped'
  <2> HIDE DEF t
  <2> QED BY <1>1, <1>2, <1>3, MoveGives
<1>5. Seen(r)'
  BY <1>1, <1>2, PlainPlace
<1>6. TypeOK'
  BY <1>1, <1>2, <1>4, TypeParts DEF PendingTyped
<1> HIDE DEF t
<1> QED BY <1>1, <1>2, <1>3, <1>4, <1>5, <1>6, AfterMove

\* sync-fleet assigns the record: it stands if the document is still the tenant's.
LEMMA SyncSaveKeeps ==
  ASSUME BindInv, NEW r \in Requests, SyncSave(r)
  PROVE  BindInv'
<1> DEFINE t == job[r].tenant
<1>1. /\ DocsTyped /\ PendingTyped /\ calls \in Nat /\ job \in [Requests -> Job] /\ Seen(r)
      /\ job[r].at = "synced" /\ t \in Tenants
  BY InvParts DEF SyncSave, Named, Working
<1>2. /\ pending' = Assigned(t) /\ parted' = (r \in disturbed) /\ Put(r, NoJob)
      /\ UNCHANGED <<owner, used, exact, calls, disturbed, missed, dropped>>
  BY DEF SyncSave, documents
<1>3. r \notin disturbed => \E d \in Docs : owner[d] = t
  BY <1>1 DEF Seen
<1> HIDE DEF t
<1>4. Moved(r, NoJob) /\ job'[r] = NoJob
  BY <1>1, <1>2, NoJobType, PutMoves DEF Moved
<1>5. PendingTyped' /\ pending'.to = t
  BY <1>1, <1>2, AssignedType DEF PendingTyped
<1>6. TypeOK'
  <2>1. parted' \in BOOLEAN
    BY <1>2
  <2>2. missed' \in BOOLEAN /\ dropped' \in BOOLEAN /\ calls' \in Nat
    BY <1>1, <1>2 DEF DocsTyped
  <2>3. DocsTyped'
    BY <1>1, <1>2, <2>1, <2>2, Zenon DEF DocsTyped
  <2> QED BY <1>4, <1>5, <2>2, <2>3, TypeParts DEF Moved
<1>7. SparesOthers(r)
  BY <1>2 DEF SparesOthers
<1>8. TwinsExplained' /\ AnswersAreKept'
  BY <1>2 DEF BindInv, TwinsExplained, AnswersAreKept, Twins, Present
<1>9. AssignmentStands'
  BY <1>1, <1>2, <1>3, <1>5 DEF AssignmentStands, Placed
<1>10. Named(job'[r]) /\ Seen(r)'
  BY <1>4, NamedNoJob, PlainPlace
<1> QED BY <1>4, <1>6, <1>7, <1>8, <1>9, <1>10, StepKeeps DEF Moved

LEMMA ImportKeeps ==
  ASSUME BindInv, NEW r \in Requests, NEW d \in Docs, NEW t \in Tenants, NEW spelt \in BOOLEAN,
         Import(r, d, spelt, t)
  PROVE  BindInv'
<1> DEFINE blind == Present # {}
<1>1. /\ DocsTyped /\ PendingTyped /\ calls \in Nat /\ job \in [Requests -> Job]
      /\ Named(job[r]) /\ job[r].at = "idle"
  BY InvParts DEF Import, Start
<1>2. Create(r, d, spelt, t, blind) /\ UNCHANGED <<pending, job, parted, dropped>>
      /\ calls' = calls + 1
  BY DEF Import, Start
<1>3. parted' \in BOOLEAN /\ dropped' \in BOOLEAN /\ calls' \in Nat /\ ~Settling(r)
  BY <1>1, <1>2 DEF DocsTyped, Settling
<1>4. Created(r, d, t) /\ missed' = (missed \/ blind) /\ DocsTyped'
  <2> HIDE DEF blind
  <2> QED BY <1>1, <1>2, <1>3 DEF Create, Created, Disturb, DocsTyped, Owners
<1>5. Seen(r)'
  BY <1>1, <1>2, PlainPlace
<1>6. TypeOK'
  BY <1>1, <1>2, <1>3, <1>4, TypeParts DEF PendingTyped
<1> QED BY <1>1, <1>2, <1>3, <1>4, <1>5, <1>6, AfterCreate

LEMMA DeleteKeeps ==
  ASSUME BindInv, NEW r \in Requests, NEW d \in Docs, Delete(r, d)
  PROVE  BindInv'
<1>1. /\ DocsTyped /\ PendingTyped /\ calls \in Nat /\ job \in [Requests -> Job]
      /\ Named(job[r]) /\ job[r].at = "idle" /\ NoTenant \in Owners
  BY InvParts DEF Delete, Start, Owners
<1>2. /\ owner' = [owner EXCEPT ![d] = NoTenant] /\ parted' = TRUE
      /\ disturbed' = disturbed \cup (Requests \ {r}) /\ calls' = calls + 1
      /\ UNCHANGED <<used, exact, pending, job, missed, dropped>>
  BY DEF Delete, Disturb, Start
<1>3. DocsTyped'
  BY <1>1, <1>2 DEF DocsTyped
<1>4. TypeOK'
  BY <1>1, <1>2, <1>3, TypeParts DEF PendingTyped
<1>5. SparesOthers(r)
  BY <1>2 DEF SparesOthers
<1>6. Present' \subseteq Present
  BY <1>1, <1>2 DEF Present, DocsTyped
<1>7. TwinsExplained' /\ AnswersAreKept'
  BY <1>2, <1>6 DEF BindInv, TwinsExplained, AnswersAreKept, Twins
<1>8. AssignmentStands'
  BY <1>2 DEF AssignmentStands
<1>9. Seen(r)'
  BY <1>1, <1>2, PlainPlace
<1> QED BY <1>1, <1>2, <1>4, <1>5, <1>7, <1>8, <1>9, StepKeeps

\* The record is ignored or forgotten: no assignment stands.
LEMMA WithdrawKeeps ==
  ASSUME BindInv, NEW r \in Requests, Ignore(r) \/ Forget(r)
  PROVE  BindInv'
<1>1. /\ DocsTyped /\ PendingTyped /\ calls \in Nat /\ job \in [Requests -> Job]
      /\ Named(job[r]) /\ job[r].at = "idle"
  BY InvParts DEF Ignore, Forget, Start
<1>2. UNCHANGED <<owner, used, exact, job, disturbed, missed, parted, dropped>>
      /\ calls' = calls + 1
  BY DEF Ignore, Forget, documents, history, Start
<1>3. PendingTyped' /\ pending'.status # "MAPPED"
  BY <1>1 DEF Ignore, Forget, PendingTyped, Statuses, Owners, Routes, NoRoute
<1>4. TypeOK'
  BY <1>1, <1>2, <1>3, TypeParts DEF DocsTyped
<1>5. SparesOthers(r)
  BY <1>2 DEF SparesOthers
<1>6. TwinsExplained' /\ AnswersAreKept'
  BY <1>2 DEF BindInv, TwinsExplained, AnswersAreKept, Twins, Present
<1>7. AssignmentStands'
  BY <1>3 DEF AssignmentStands
<1>8. Seen(r)'
  BY <1>1, <1>2, PlainPlace
<1> QED BY <1>1, <1>2, <1>4, <1>5, <1>6, <1>7, <1>8, StepKeeps

\* What fails on the way of an assignment parts it from the document.
LEMMA PartingKeeps ==
  ASSUME BindInv, NEW r \in Requests, NEW j \in Job, Put(r, j), Named(j),
         j.at \in {"idle", "claiming"},
         UNCHANGED <<owner, used, exact, pending, calls, disturbed, missed, dropped>>,
         parted' \in BOOLEAN, parted => parted', Settling(r) => parted'
  PROVE  BindInv'
<1>1. DocsTyped /\ PendingTyped /\ calls \in Nat /\ job \in [Requests -> Job]
  BY InvParts
<1>2. Moved(r, j) /\ job'[r] = j
  BY <1>1, PutMoves DEF Moved
<1>3. TypeOK'
  BY <1>1, <1>2, TypeParts DEF Moved, DocsTyped, PendingTyped
<1>4. SparesOthers(r)
  BY DEF SparesOthers
<1>5. TwinsExplained' /\ AnswersAreKept'
  BY DEF BindInv, TwinsExplained, AnswersAreKept, Twins, Present
<1>6. SparesAssignment(r)
  BY DEF SparesAssignment, Placed
<1>7. AssignmentStands'
  BY <1>2, <1>6, Stands DEF BindInv, Moved
<1>8. Seen(r)'
  BY <1>2, PlainPlace
<1> QED BY <1>2, <1>3, <1>4, <1>5, <1>7, <1>8, StepKeeps DEF Moved

LEMMA AbortKeeps ==
  ASSUME BindInv, NEW r \in Requests, Abort(r)
  PROVE  BindInv'
<1>1. DocsTyped
  BY InvParts
<1>2. parted' \in BOOLEAN /\ (parted => parted') /\ (Settling(r) => parted')
  BY <1>1 DEF DocsTyped, Abort, Settling
<1>3. Put(r, NoJob) /\ UNCHANGED <<owner, used, exact, pending, calls, disturbed, missed, dropped>>
  BY DEF Abort, documents
<1> QED BY <1>2, <1>3, NoJobType, NamedNoJob, PartingKeeps

LEMMA ClaimAnywayKeeps ==
  ASSUME BindInv, NEW r \in Requests, ClaimAnyway(r)
  PROVE  BindInv'
<1>1. job[r] \in Job /\ job[r].at = "missing" /\ job[r].then = "claiming"
      /\ job[r].tenant \in Tenants
  BY InvParts DEF ClaimAnyway, Named, Working
<1>2. Then(job[r]) \in Job /\ Named(Then(job[r])) /\ Then(job[r]).at = "claiming"
  BY <1>1, ThenType, ThenNamed
<1>3. Put(r, Then(job[r])) /\ parted' = TRUE
      /\ UNCHANGED <<owner, used, exact, pending, calls, disturbed, missed, dropped>>
  BY DEF ClaimAnyway, documents
<1> QED BY <1>2, <1>3, PartingKeeps

-------------------------------------------------------------------------------
(***************************************************************************)
(* The theorems.                                                           *)
(***************************************************************************)
LEMMA BindInit == ASSUME BindingAssumption, Init PROVE BindInv
<1>1. TypeOK
  BY NoJobType DEF Init, TypeOK, Owners, Statuses, Routes, NoRoute
<1>2. Present = {} /\ \A r \in Requests : job[r] = NoJob
  BY DEF Init, Present
<1>3. \A r \in Requests : Named(job[r]) /\ Seen(r)
  BY <1>2, NamedNoJob DEF Seen
<1>4. TwinsExplained /\ AnswersAreKept /\ AssignmentStands
  BY <1>2 DEF Init, TwinsExplained, AnswersAreKept, AssignmentStands, Twins
<1> QED BY <1>1, <1>3, <1>4 DEF BindInv

LEMMA BindNext == ASSUME BindingAssumption, BindInv, [Next]_vars PROVE BindInv'
<1>1. ASSUME NEW r \in Requests, Inform(r) PROVE BindInv'
  BY <1>1, ResolveKeeps, CheckKeeps, LookupKeeps, QuarantineKeeps, SaveKeeps, CollideKeeps,
     InformCreateKeeps, UpsertKeeps
  DEF Inform
<1>2. ASSUME NEW r \in Requests, Session(r) PROVE BindInv'
  BY <1>2, PollKeeps, AnswerKeeps, EndSessionKeeps DEF Session
<1>3. ASSUME NEW r \in Requests, Assigning(r) PROVE BindInv'
  BY <1>3, ClaimNothingKeeps, AssignKeeps, AssignLookupKeeps, MoveSaveKeeps, SameSaveKeeps,
     EndSessionKeeps, ClaimAnywayKeeps, MissingCreateKeeps, ClaimNextKeeps
  DEF Assigning
<1>4. ASSUME NEW r \in Requests, Syncing(r) PROVE BindInv'
  BY <1>4, SyncKeeps, SyncLookupKeeps, SyncSaveKeeps DEF Syncing
<1>5. ASSUME NEW r \in Requests, Managing(r) PROVE BindInv'
  BY <1>5, TransferKeeps, ImportKeeps, DeleteKeeps, WithdrawKeeps DEF Managing
<1>6. ASSUME NEW r \in Requests, Abort(r) PROVE BindInv'
  BY <1>6, AbortKeeps
<1>7. CASE UNCHANGED vars
  BY <1>7 DEF BindInv, vars, TypeOK, Named, OnPath, Seen, Bound, Present, TwinsExplained, Twins,
              AnswersAreKept, AssignmentStands, Placed, Settling
<1> QED BY <1>1, <1>2, <1>3, <1>4, <1>5, <1>6, <1>7 DEF Next

\* What an undisturbed request has seen of the documents is still so, and an assignment
\* stands until something parts a document from it (handleInform, assign, claim).
THEOREM BindingInvariance == Spec => []BindInv
<1>1. Init => BindInv
  BY BindingAssumption, BindInit
<1>2. BindInv /\ [Next]_vars => BindInv'
  BY BindingAssumption, BindNext
<1> QED BY <1>1, <1>2, PTL DEF Spec

\* The variables have their types.
THEOREM TypeCorrectness == Spec => []TypeOK
<1>1. BindInv => TypeOK
  BY DEF BindInv
<1> QED BY <1>1, BindingInvariance, PTL

\* An ONT with two documents owes one to a request that could not see the other.
THEOREM TwinsHaveACause == Spec => []TwinsExplained
<1>1. BindInv => TwinsExplained
  BY DEF BindInv
<1> QED BY <1>1, BindingInvariance, PTL

\* No answer is dropped while the documents are as the Inform saw them.
THEOREM NoAnswerIsDropped == Spec => []AnswersAreKept
<1>1. BindInv => AnswersAreKept
  BY DEF BindInv
<1> QED BY <1>1, BindingInvariance, PTL

\* A session by the path of a tenant gets the commands of that tenant's document.
THEOREM TheGateHolds == Spec => []GateHolds
<1>1. ASSUME BindInv, NEW r \in Requests, job[r].at = "asked", job[r].route.kind = "path",
             job[r].dev \in Present, ~job[r].mapped, r \notin disturbed, ~Twins
      PROVE  owner[job[r].dev] = job[r].route.tenant
  <2>1. Named(job[r]) /\ Seen(r) /\ NoTenant \notin Tenants
    BY <1>1, BindingAssumption DEF BindInv, BindingAssumption
  <2>2. job[r].tenant # NoTenant
    BY <1>1, <2>1 DEF Named, Working
  <2>3. job[r].tenant = job[r].route.tenant /\ Bound(job[r])
    BY <1>1, <2>1, <2>2 DEF Seen, OnPath
  <2>4. job[r].doc \in Present
    BY <2>2, <2>3 DEF Bound, Present
  <2>5. job[r].dev = job[r].doc
    BY <1>1, <2>4 DEF Twins
  <2> QED BY <2>3, <2>5 DEF Bound
<1>2. BindInv => GateHolds
  BY <1>1 DEF GateHolds
<1> QED BY <1>2, BindingInvariance, PTL

\* Who is blocked under the path of the assigned tenant: only an ONT whose
\* assignment is under way, or whose documents have parted from it or are two.
THEOREM AssignedAreAdmitted == Spec => AssignedIsAdmitted
<1>1. ASSUME BindInv, [Next]_vars, NEW r \in Requests,
             job[r].at = "resolved", job'[r].at = "checked", job'[r].blocked,
             pending.status = "MAPPED", job[r].route.tenant = pending.to, ~parted, ~Twins
      PROVE  \E q \in Requests : job[q].at \in {"mapped", "moving", "missing"}
  <2>1. DocsTyped /\ job \in [Requests -> Job] /\ NoTenant \notin Tenants /\ NoDoc \notin Docs
    BY <1>1, InvParts, BindingAssumption DEF BindingAssumption
  <2>2. InformCheck(r)
    <3>1. ASSUME NEW q \in Requests, q # r,
                 Inform(q) \/ Session(q) \/ Assigning(q) \/ Syncing(q) \/ Managing(q) \/ Abort(q)
          PROVE  job'[r] = job[r]
      BY <2>1, <3>1
      DEF Inform, Session, Assigning, Syncing, Managing, InformResolve, InformCheck, InformLookup,
          InformQuarantine, InformSave, InformCreate, InformCollide, InformUpsert, Poll, Answer,
          EndSession, Assign, ClaimNothing, AssignLookup, MoveSave, SameSave, MissingCreate,
          ClaimNext, ClaimEnd, Sync, SyncLookup, SyncSave, Transfer, Import, Delete, Ignore,
          Forget, Abort, ClaimAnyway, Put
    <3>2. Inform(r) \/ Session(r) \/ Assigning(r) \/ Syncing(r) \/ Managing(r) \/ Abort(r)
      BY <1>1, <3>1 DEF Next, vars
    <3>3. Inform(r) \/ Abort(r)
      BY <1>1, <3>2
      DEF Session, Assigning, Syncing, Managing, Poll, Answer, EndSession, Assign, ClaimNothing,
          AssignLookup, MoveSave, SameSave, MissingCreate, ClaimNext, ClaimEnd, Sync, SyncLookup,
          SyncSave, Transfer, Import, Delete, Ignore, Forget, ClaimAnyway, Start
    <3>4. ~Abort(r)
      BY <1>1, <2>1, NamedNoJob DEF Abort, Put
    <3> QED
      BY <1>1, <3>3, <3>4
      DEF Inform, InformResolve, InformLookup, InformQuarantine, InformSave, InformCreate,
          InformCollide, InformUpsert, Start
  <2>3. PICK d \in AnyOf(Present) :
          Put(r, [job[r] EXCEPT !.at = "checked", !.blocked = Mismatch(job[r].route, d),
                                !.tenant = IF Mismatch(job[r].route, d) THEN NoTenant ELSE @])
    BY <2>2 DEF InformCheck
  <2>4. job'[r].blocked = Mismatch(job[r].route, d)
    BY <2>1, <2>3 DEF Put, Job
  <2>5. d # NoDoc /\ owner[d] # pending.to
    BY <1>1, <2>4 DEF Mismatch
  <2>6. d \in Present
    BY <2>5 DEF AnyOf
  <2>7. pending.to \in Tenants /\ (Placed \/ \E q \in Requests : Settling(q))
    BY <1>1 DEF BindInv, AssignmentStands
  <2>8. ~Placed
    BY <1>1, <2>1, <2>5, <2>6, <2>7 DEF Placed, Present, Twins
  <2> QED BY <2>7, <2>8 DEF Settling
<1>2. BindInv /\ [Next]_vars =>
        [\A r \in Requests :
           /\ job[r].at = "resolved" /\ job'[r].at = "checked" /\ job'[r].blocked
           /\ pending.status = "MAPPED" /\ job[r].route.tenant = pending.to
           => \/ parted \/ Twins
              \/ \E q \in Requests : job[q].at \in {"mapped", "moving", "missing"}]_vars
  BY <1>1
<1> QED BY <1>2, BindingInvariance, PTL DEF Spec, AssignedIsAdmitted

\* An Inform takes no document from its owner unless the documents changed meanwhile.
THEOREM OwnersMoveByHand == Spec => OwnerMovesByHand
<1>1. ASSUME BindInv, [Next]_vars, NEW r \in Requests, NEW d \in Docs,
             job[r].at \in {"resolved", "checked", "found", "absent", "collided", "open", "asked"},
             job'[r] # job[r], owner[d] # NoTenant, owner'[d] # owner[d]
      PROVE  r \in disturbed
  <2>1. DocsTyped /\ job \in [Requests -> Job] /\ Seen(r)
    BY <1>1, InvParts
  <2>2. ASSUME NEW q \in Requests, q # r,
               Inform(q) \/ Session(q) \/ Assigning(q) \/ Syncing(q) \/ Managing(q) \/ Abort(q)
        PROVE  job'[r] = job[r]
    BY <2>1, <2>2
    DEF Inform, Session, Assigning, Syncing, Managing, InformResolve, InformCheck, InformLookup,
        InformQuarantine, InformSave, InformCreate, InformCollide, InformUpsert, Poll, Answer,
        EndSession, Assign, ClaimNothing, AssignLookup, MoveSave, SameSave, MissingCreate,
        ClaimNext, ClaimEnd, Sync, SyncLookup, SyncSave, Transfer, Import, Delete, Ignore,
        Forget, Abort, ClaimAnyway, Put
  <2>3. Inform(r) \/ Session(r) \/ Assigning(r) \/ Syncing(r) \/ Managing(r) \/ Abort(r)
    BY <1>1, <2>2 DEF Next, vars
  <2>4. \E e \in Docs : InformCreate(r, e) \/ InformUpsert(r, e)
    BY <1>1, <2>3
    DEF Inform, Session, Assigning, Syncing, Managing, InformResolve, InformCheck, InformLookup,
        InformQuarantine, InformSave, InformCollide, Poll, Answer, EndSession, Assign,
        ClaimNothing, AssignLookup, MoveSave, SameSave, MissingCreate, ClaimNext, ClaimEnd, Sync,
        SyncLookup, SyncSave, Transfer, Import, Delete, Ignore, Forget, Abort, ClaimAnyway,
        Start, documents
  <2>5. job[r].at \in {"absent", "collided"}
    BY <2>4 DEF InformCreate, InformUpsert
  <2> QED BY <1>1, <2>1, <2>5 DEF Seen, Present
<1>2. BindInv /\ [Next]_vars =>
        [\A r \in Requests, d \in Docs :
           /\ job[r].at \in {"resolved", "checked", "found", "absent", "collided", "open", "asked"}
           /\ job'[r] # job[r] /\ owner[d] # NoTenant /\ owner'[d] # owner[d]
           => r \in disturbed]_vars
  BY <1>1
<1> QED BY <1>2, BindingInvariance, PTL DEF Spec, OwnerMovesByHand
============================================================================
