-------------------------- MODULE CommandEngineProofs --------------------------
(***************************************************************************)
(* Proofs about CommandEngine, for every number of commands, every set of  *)
(* requests and faults and every choice of the time limits.                *)
(***************************************************************************)
EXTENDS CommandEngine, TLAPS

-------------------------------------------------------------------------------
(* The inductive invariant.                                                    *)

\* The stages in which nothing but a bare RPC may be out.
RestStages == {"INFORM_ACKED", "CUSTOM_RPC_SENT"}

\* A handler runs only in a live session; that of an answer still has the RPC until it
\* has activated what waited.  Otherwise a session with no RPC out is one in which
\* nothing has been asked, or whose last answer no handler took.
RestIsAcked ==
  /\ picked # Idle => sess.stage # "NONE" /\ picked.mode # "idle"
  /\ picked.mode \in {"activate", "activated"} => rpc # NoRpc
  /\ picked.mode \notin {"idle", "activate", "activated"} => rpc = NoRpc
  /\ sess.stage # "NONE" /\ rpc = NoRpc /\ picked.mode \in {"idle", "verify", "dispatch", "telemetry"}
       => sess.stage \in RestStages
  /\ sess.stage # "NONE" /\ rpc.type \in {"REBOOT", "RESET"} => sess.stage \in RestStages

\* The statuses a command that was read as "sending" may have by the time the handler
\* saves it: only the operator and the workspace view run in between.
Held == {"sending", "canceled", "timed_out", "applied_pending_verification"}

\* What a running handler has read exists, and what it does not save it had.
PickedExists ==
  /\ picked.mode \in {"verify", "dispatch", "write"} =>
       picked.cmd \in Cmds /\ cmds[picked.cmd].status # "none"
  /\ picked.mode = "dispatch" /\ picked.same => cmds[picked.cmd].status \in Held
  /\ picked.mode = "write" => \/ picked.writes[picked.cmd] = "sending"
                              \/ /\ picked.writes[picked.cmd] = "none"
                                 /\ cmds[picked.cmd].status \in Held

\* So does what a handler is about to save; what it lets wait can be activated.
PlansExist ==
  \A c \in Cmds :
    /\ picked.writes[c] # "none" => cmds[c].status # "none"
    /\ picked.writes[c] = "waiting_for_wan_slot"
         => noAddObject /\ IsWan(cmds[c].kind) /\ cmds[c].params

\* A SetParameterValues is some command's, which was not waiting when it was sent.
SpvExists ==
  rpc.type = "SPV" =>
    rpc.cmd \in Cmds /\ (picked.mode = "activate" => picked.writes[rpc.cmd] = "none")

IInv == /\ TypeOK /\ RestIsAcked /\ PickedExists /\ PlansExist /\ SpvExists
        /\ StageTellsRpc /\ WriteIsAccounted /\ CpeValueWasSent /\ WaitingCanActivate

-------------------------------------------------------------------------------
(* Revisions of the DeviceCommand collection.                                  *)

\* The documents 1 .. n exist, the others are blank.
Docs(cs, n) == \A c \in Cmds : IF c <= n THEN cs[c].kind # "NONE" /\ cs[c].status # "none"
                                         ELSE cs[c] = Blank

\* A command that may wait for a slot.
MayWait(r) == noAddObject /\ IsWan(r.kind) /\ r.params

\* cs2 is cs after updates of documents that exist: what a command is never
\* changes, what was recorded of it stays, and none starts to wait for a slot in vain.
Revised(cs, cs2) ==
  /\ cs2 \in [Cmds -> Command]
  /\ \A c \in Cmds :
       /\ cs2[c].kind = cs[c].kind /\ cs2[c].val = cs[c].val /\ cs2[c].params = cs[c].params
       /\ cs[c].rid => cs2[c].rid
       /\ cs[c].target => cs2[c].target
       /\ cs[c].status = "none" => cs2[c] = cs[c]
       /\ cs[c].status # "none" => cs2[c].status # "none"
       /\ cs2[c].status = "waiting_for_wan_slot"
            => cs[c].status = "waiting_for_wan_slot" \/ MayWait(cs[c])

\* Leaving the collection alone revises it.
LEMMA RevisedReflexive ==
  ASSUME NEW cs \in [Cmds -> Command]
  PROVE  Revised(cs, cs)
BY DEF Revised

\* Two revisions one after the other are a revision.
LEMMA RevisedTransitive ==
  ASSUME NEW cs \in [Cmds -> Command], NEW cs2, NEW cs3, Revised(cs, cs2), Revised(cs2, cs3)
  PROVE  Revised(cs, cs3)
BY DEF Revised, MayWait

\* A document with another status is still a document.
LEMMA StatusTyped ==
  ASSUME NEW r \in Command, NEW st \in Statuses
  PROVE  LET r2 == [r EXCEPT !.status = st]
         IN /\ r2 \in Command /\ r2.status = st
            /\ r2.kind = r.kind /\ r2.val = r.val /\ r2.params = r.params
            /\ r2.rid = r.rid /\ r2.target = r.target /\ r2.object = r.object
BY DEF Command

\* Setting the status of existing documents revises the collection.
LEMMA MarkRevises ==
  ASSUME NEW cs \in [Cmds -> Command], NEW S, NEW st \in Statuses \ {"none", "waiting_for_wan_slot"},
         \A c \in S : c \in Cmds => cs[c].status # "none"
  PROVE  Revised(cs, Mark(cs, S, st))
<1>1. \A c \in Cmds : [cs[c] EXCEPT !.status = st] \in Command
  BY StatusTyped
<1>2. Mark(cs, S, st) \in [Cmds -> Command]
  BY <1>1 DEF Mark
<1>3. \A c \in Cmds : Mark(cs, S, st)[c] = IF c \in S THEN [cs[c] EXCEPT !.status = st] ELSE cs[c]
  BY DEF Mark
<1>4. \A c \in Cmds : cs[c] \in Command
  OBVIOUS
<1> QED
  BY <1>2, <1>3, <1>4 DEF Revised, Command

\* What a handler holds to be saved, of documents that exist.
Saves(cs, writes) ==
  /\ writes \in [Cmds -> Statuses]
  /\ \A c \in Cmds : /\ writes[c] # "none" => cs[c].status # "none"
                     /\ writes[c] = "waiting_for_wan_slot" => MayWait(cs[c])

\* Saving the documents a handler holds changes statuses only.
LEMMA OverwrittenRevises ==
  ASSUME NEW cs \in [Cmds -> Command], NEW writes, Saves(cs, writes)
  PROVE  LET cs2 == Overwritten(cs, writes)
         IN /\ Revised(cs, cs2)
            /\ \A c \in Cmds :
                 /\ cs2[c].status = IF writes[c] = "none" THEN cs[c].status ELSE writes[c]
                 /\ cs2[c].rid = cs[c].rid /\ cs2[c].target = cs[c].target
                 /\ cs2[c].object = cs[c].object
<1> DEFINE cs2 == Overwritten(cs, writes)
<1>1. \A c \in Cmds : writes[c] \in Statuses /\ cs[c] \in Command
  BY DEF Saves
<1>2. \A c \in Cmds :
        cs2[c] = IF writes[c] = "none" THEN cs[c] ELSE [cs[c] EXCEPT !.status = writes[c]]
  BY DEF Overwritten
<1>3. cs2 = [c \in Cmds |-> cs2[c]]
  BY DEF Overwritten
<1> HIDE DEF cs2
<1>4. \A c \in Cmds :
        /\ cs2[c] \in Command
        /\ cs2[c].status = IF writes[c] = "none" THEN cs[c].status ELSE writes[c]
        /\ cs2[c].kind = cs[c].kind /\ cs2[c].val = cs[c].val /\ cs2[c].params = cs[c].params
        /\ cs2[c].rid = cs[c].rid /\ cs2[c].target = cs[c].target
        /\ cs2[c].object = cs[c].object
  <2> TAKE c \in Cmds
  <2>1. CASE writes[c] = "none"
    BY <1>1, <1>2, <2>1
  <2>2. CASE writes[c] # "none"
    <3> DEFINE r2 == [cs[c] EXCEPT !.status = writes[c]]
    <3>1. /\ r2 \in Command /\ r2.status = writes[c]
          /\ r2.kind = cs[c].kind /\ r2.val = cs[c].val /\ r2.params = cs[c].params
          /\ r2.rid = cs[c].rid /\ r2.target = cs[c].target /\ r2.object = cs[c].object
      BY <1>1, StatusTyped
    <3>2. cs2[c] = r2
      BY <1>2, <2>2
    <3> QED
      BY <2>2, <3>1, <3>2
  <2> QED
    BY <2>1, <2>2
<1>5. cs2 \in [Cmds -> Command]
  BY <1>3, <1>4
<1>6. \A c \in Cmds : writes[c] = "none" => cs2[c] = cs[c]
  BY <1>2
<1>7. Revised(cs, cs2)
  BY <1>4, <1>5, <1>6 DEF Revised, Saves
<1> QED
  BY <1>4, <1>7 DEF cs2

\* What is found to be saved later.
LEMMA PlannedTyped ==
  ASSUME NEW cs, NEW S, NEW st \in Statuses
  PROVE  LET w == Planned(cs, S, st)
         IN /\ w \in [Cmds -> Statuses]
            /\ \A c \in Cmds : /\ w[c] \in {"none", st}
                               /\ w[c] # "none" => c \in S
                               /\ c \in S => w[c] = st \/ (w[c] = "none" /\ cs[c].status = st)
<1> DEFINE w == Planned(cs, S, st)
<1>1. "none" \in Statuses
  BY DEF Statuses
<1>2. w = [c \in Cmds |-> IF c \in S /\ cs[c].status # st THEN st ELSE "none"]
  BY DEF Planned
<1> HIDE DEF w
<1>3. \A c \in Cmds : w[c] = IF c \in S /\ cs[c].status # st THEN st ELSE "none"
  BY <1>2
<1>4. w \in [Cmds -> Statuses]
  BY <1>1, <1>2
<1>5. \A c \in Cmds : /\ w[c] \in {"none", st}
                      /\ w[c] # "none" => c \in S
                      /\ c \in S => w[c] = st \/ (w[c] = "none" /\ cs[c].status = st)
  BY <1>3, Zenon
<1> QED
  BY <1>4, <1>5 DEF w

\* The commands with one of the statuses sts exist.
LEMMA WithStatusExists ==
  ASSUME NEW cs \in [Cmds -> Command], NEW sts, "none" \notin sts
  PROVE  \A c \in WithStatus(cs, sts) : c \in Cmds /\ cs[c].status # "none"
BY DEF WithStatus

\* A revision neither creates nor removes documents.
LEMMA RevisedDocs ==
  ASSUME NEW cs \in [Cmds -> Command], NEW cs2, NEW n, Docs(cs, n), Revised(cs, cs2)
  PROVE  Docs(cs2, n)
BY DEF Docs, Revised, Blank

\* A saturating age one tick later is an age.
LEMMA AgesClosed ==
  /\ AgeCap \in Nat /\ 0 \in Ages
  /\ \A a \in Ages : Older(a) \in Ages
  /\ \A a \in Ages \cup {NotSent} : Older(a) \in Ages \cup {NotSent}
BY AgesAssumption DEF AgeCap, Ages, Older, NotSent

\* Replacing one existing document by a later form of it.
LEMMA EditRevises ==
  ASSUME NEW cs \in [Cmds -> Command], NEW c \in Cmds, cs[c].status # "none", NEW r \in Command,
         r.kind = cs[c].kind, r.val = cs[c].val, r.params = cs[c].params,
         cs[c].rid => r.rid, cs[c].target => r.target, r.status # "none",
         r.status = "waiting_for_wan_slot" => cs[c].status = "waiting_for_wan_slot"
  PROVE  Revised(cs, [cs EXCEPT ![c] = r])
BY DEF Revised

\* A status that is neither "none" nor "waiting_for_wan_slot".
Plain == Statuses \ {"none", "waiting_for_wan_slot"}

\* Saving the status a poll sets, if it differs from the one it read.
LEMMA SavedRevises ==
  ASSUME NEW cs \in [Cmds -> Command], NEW c \in Cmds, cs[c].status # "none", NEW st \in Plain
  PROVE  Revised(cs, Saved(cs, c, st))
<1>1. Revised(cs, Mark(cs, {c}, st))
  BY MarkRevises DEF Plain
<1> QED
  BY <1>1, RevisedReflexive DEF Saved

\* What a dispatch saves of a command: the status sending and the time.
LEMMA DispatchedRevises ==
  ASSUME NEW cs \in [Cmds -> Command], NEW c \in Cmds, cs[c].status # "none"
  PROVE  /\ Revised(cs, Dispatched(cs, c))
         /\ Dispatched(cs, c)[c].status = IF picked.same THEN cs[c].status ELSE "sending"
<1> DEFINE s == Saved(cs, c, "sending")
           r == [s[c] EXCEPT !.sAge = 0]
<1>1. Revised(cs, s)
  BY SavedRevises DEF Plain, Statuses
<1>2. s \in [Cmds -> Command] /\ s[c].status # "none"
  BY <1>1 DEF Revised
<1>3. s[c].status = IF picked.same THEN cs[c].status ELSE "sending"
  BY DEF Saved, Mark, Command
<1>4. r \in Command
  <2>1. \A x \in Command : [x EXCEPT !.sAge = 0] \in Command
    BY AgesClosed DEF Command
  <2> QED
    BY <1>2, <2>1
<1>5. /\ r.kind = s[c].kind /\ r.val = s[c].val /\ r.params = s[c].params /\ r.rid = s[c].rid
      /\ r.target = s[c].target /\ r.status = s[c].status
  BY <1>2 DEF Command
<1>6. Revised(s, [s EXCEPT ![c] = r])
  BY <1>2, <1>4, <1>5, EditRevises
<1>7. Dispatched(cs, c) = [s EXCEPT ![c] = r]
  BY <1>2 DEF Dispatched
<1>8. [s EXCEPT ![c] = r][c].status = s[c].status
  BY <1>2, <1>5
<1> QED
  BY <1>1, <1>2, <1>3, <1>6, <1>7, <1>8, RevisedTransitive

\* What the dispatch of parameters saves besides: the request id and the targets.
LEMMA RecordedRevises ==
  ASSUME NEW cs \in [Cmds -> Command], NEW c \in Cmds, cs[c].status # "none"
  PROVE  /\ Revised(cs, Recorded(cs, c))
         /\ Recorded(cs, c)[c].rid /\ Recorded(cs, c)[c].target
         /\ Recorded(cs, c)[c].status = cs[c].status
<1> DEFINE r == [cs[c] EXCEPT !.rid = TRUE, !.target = TRUE]
<1>1. cs[c] \in Command
  OBVIOUS
<1>2. r \in Command
  BY <1>1 DEF Command
<1>3. /\ r.kind = cs[c].kind /\ r.val = cs[c].val /\ r.params = cs[c].params /\ r.rid
      /\ r.target /\ r.status = cs[c].status
  BY <1>1 DEF Command
<1>4. Revised(cs, [cs EXCEPT ![c] = r])
  BY <1>2, <1>3, EditRevises
<1>5. Recorded(cs, c) = [cs EXCEPT ![c] = r]
  BY DEF Recorded
<1>6. [cs EXCEPT ![c] = r][c] = r
  OBVIOUS
<1> QED
  BY <1>3, <1>4, <1>5, <1>6

-------------------------------------------------------------------------------
(* The two halves of the invariant: the documents and trees, and the session.  *)

Trees == [Paths -> Values \cup {Absent}]

\* Where a value of the CPE may come from.
Sourced(p, v) ==
  \/ v \in {Factory, Absent}
  \/ \E c \in Cmds : cmds[c].target /\ p \in TargetPaths(cmds[c].kind) /\ cmds[c].val = v

DataOK ==
  /\ created \in 0 .. MaxCmds
  /\ cmds \in [Cmds -> Command] /\ Docs(cmds, created)
  /\ raw \in Trees /\ cpe \in Trees /\ noAddObject \in BOOLEAN
  /\ \A p \in Paths : Sourced(p, cpe[p])
  /\ WaitingCanActivate

CwmpOK ==
  /\ sess \in Session /\ rpc \in Rpc /\ picked \in Pick
  /\ RestIsAcked /\ PickedExists /\ PlansExist /\ SpvExists /\ StageTellsRpc /\ WriteIsAccounted

\* The invariant is what holds of the documents and what holds of the session.
LEMMA Split == /\ IInv <=> DataOK /\ CwmpOK
               /\ IInv' <=> DataOK' /\ CwmpOK'
<1>1. TypeOK /\ CpeValueWasSent /\ WaitingCanActivate
        <=> DataOK /\ sess \in Session /\ rpc \in Rpc /\ picked \in Pick
  BY DEF TypeOK, DataOK, Docs, Trees, CpeValueWasSent, Sourced
<1>2. TypeOK' /\ CpeValueWasSent' /\ WaitingCanActivate'
        <=> DataOK' /\ sess' \in Session /\ rpc' \in Rpc /\ picked' \in Pick
  BY DEF TypeOK, DataOK, Docs, Trees, CpeValueWasSent, Sourced
<1> QED
  BY <1>1, <1>2 DEF IInv, CwmpOK

\* A step that revises documents, with values of the CPE that a command recorded; the
\* device may turn out not to support AddObject.
LEMMA RevisionKeepsData ==
  ASSUME DataOK, created' = created, Revised(cmds, cmds'),
         raw' \in Trees, cpe' \in Trees, noAddObject' \in {noAddObject, TRUE},
         \A p \in Paths : Sourced(p, cpe'[p])
  PROVE  DataOK'
<1>1. Docs(cmds', created)
  BY RevisedDocs DEF DataOK
<1>2. \A p \in Paths : \A v : Sourced(p, v) => Sourced(p, v)'
  BY DEF DataOK, Sourced, Revised
<1>3. \A p \in Paths : Sourced(p, cpe[p])'
  BY <1>2
<1>4. WaitingCanActivate'
  BY DEF DataOK, WaitingCanActivate, WithStatus, Revised, MayWait
<1>5. noAddObject' \in BOOLEAN
  BY DEF DataOK
<1> QED
  BY <1>1, <1>3, <1>4, <1>5 DEF DataOK, Revised, Docs

\* The commands of a session are still what its handlers rely on.
Relied(cs, cs2) ==
  \A c \in Cmds : /\ cs[c].rid => cs2[c].rid
                  /\ cs[c].target => cs2[c].target
                  /\ cs[c].status # "none" =>
                       /\ cs2[c].status # "none"
                       /\ cs2[c].kind = cs[c].kind /\ cs2[c].params = cs[c].params
                  /\ cs[c].status \in Held => cs2[c].status \in Held

\* Documents that keep what the session relies on keep its part of the invariant.
LEMMA ReliedKeepsCwmp ==
  ASSUME CwmpOK, Relied(cmds, cmds'), UNCHANGED <<cwmp, noAddObject>>
  PROVE  CwmpOK'
<1> USE DEF CwmpOK, cwmp
<1>1. RestIsAcked' /\ SpvExists' /\ StageTellsRpc'
  BY DEF RestIsAcked, SpvExists, StageTellsRpc
<1>2. PickedExists'
  BY DEF PickedExists, Relied
<1>3. PlansExist'
  BY DEF PlansExist, Relied
<1>4. WriteIsAccounted'
  BY DEF WriteIsAccounted, SpvExists, Relied, Held
<1> QED
  BY <1>1, <1>2, <1>3, <1>4

-------------------------------------------------------------------------------
(* The operators.                                                              *)

\* Superseding the open commands of an action.
LEMMA SupersededRevises ==
  ASSUME NEW cs \in [Cmds -> Command], NEW action, NEW sts, sts \subseteq Uncollected \cup {"sending"}
  PROVE  Revised(cs, Superseded(cs, action, sts)) /\ Relied(cs, Superseded(cs, action, sts))
<1> DEFINE S == {c \in WithStatus(cs, sts) : Action(cs[c].kind) = action}
<1>1. Revised(cs, Mark(cs, S, "canceled"))
  BY MarkRevises, WithStatusExists DEF Statuses, Uncollected
<1>2. \A c \in Cmds : Mark(cs, S, "canceled")[c].status \in {cs[c].status, "canceled"}
  BY DEF Mark, Command
<1> QED
  BY <1>1, <1>2 DEF Superseded, Revised, Relied, Held

\* The documents the REST handlers create.
LEMMA NewTyped ==
  ASSUME NEW k \in CommandKinds, NEW st \in Statuses, NEW v \in Values
  PROVE  New(k, st, v) \in Command /\ New(k, st, v).kind = k /\ New(k, st, v).status = st
<1>1. Blank \in Command
  BY AgesClosed, BoundsAssumption DEF Blank, Command, Statuses, Values, Factory, Off, NotSent
<1>2. \A b \in BOOLEAN :
        LET r == [Blank EXCEPT !.kind = k, !.status = st, !.val = v, !.params = b]
        IN r \in Command /\ r.kind = k /\ r.status = st
  BY <1>1 DEF Command
<1>3. (k \in {"WIFI", "PASS"}) = TRUE \/ (k \in {"WIFI", "PASS"}) = FALSE
  OBVIOUS
<1>4. \E b \in BOOLEAN :
        New(k, st, v) = [Blank EXCEPT !.kind = k, !.status = st, !.val = v, !.params = b]
  BY <1>3, Zenon DEF New
<1> QED
  BY <1>2, <1>4

\* A step that creates a document.
LEMMA CreateKeeps ==
  ASSUME DataOK, NEW cs, Revised(cmds, cs), Relied(cmds, cs), NEW new \in Command,
         new.kind # "NONE", new.status \in {"pending", "queued"}, Create(cs, new),
         raw' \in Trees, UNCHANGED <<noAddObject, cpe>>
  PROVE  DataOK' /\ Relied(cmds, cmds')
<1> USE DEF DataOK
<1> DEFINE n == created + 1
<1>a. n \in Cmds /\ ~(n <= created)
  BY BoundsAssumption DEF Create, Cmds
<1>b. cs \in [Cmds -> Command] /\ Docs(cs, created)
  BY RevisedDocs DEF Revised
<1>1. /\ cs \in [Cmds -> Command] /\ Docs(cs, created)
      /\ n \in Cmds /\ cs[n] = Blank /\ cmds[n] = Blank
  BY <1>a, <1>b DEF Docs
<1>2. /\ cmds' \in [Cmds -> Command]
      /\ \A c \in Cmds : cmds'[c] = IF c = n THEN new ELSE cs[c]
  BY <1>1 DEF Create
<1>3. Docs(cmds', created')
  BY <1>1, <1>2, BoundsAssumption DEF Create, Docs, Cmds
<1>4. Relied(cmds, cmds')
  BY <1>1, <1>2 DEF Relied, Blank, Held
<1>5. \A p \in Paths : Sourced(p, cpe[p])'
  BY <1>1, <1>2 DEF Sourced, Revised, Blank
<1>6. WaitingCanActivate'
  BY <1>1, <1>2 DEF WaitingCanActivate, WithStatus, Revised, MayWait
<1> QED
  BY <1>2, <1>3, <1>4, <1>5, <1>6, BoundsAssumption DEF Create, Docs

\* The same for a step that creates nothing.
LEMMA ReviseKeeps ==
  ASSUME IInv, Revised(cmds, cmds'), Relied(cmds, cmds'),
         UNCHANGED <<created, sess, rpc, picked, raw, noAddObject, cpe>>
  PROVE  IInv'
<1>1. DataOK /\ CwmpOK
  BY Split
<1>2. DataOK'
  BY <1>1, RevisionKeepsData DEF DataOK
<1>3. CwmpOK'
  BY <1>1, ReliedKeepsCwmp DEF cwmp
<1> QED
  BY <1>2, <1>3, Split

\* The documents of WAN profiles, with or without a slot to write to.
LEMMA NewWanTyped ==
  ASSUME NEW needs \in BOOLEAN, NEW object \in {"none", "parent", "child"},
         created + 1 \in Values
  PROVE  /\ NewWan(needs, object) \in Command
         /\ NewWan(needs, object).kind = "WAN" /\ NewWan(needs, object).status = "queued"
<1> DEFINE r == New("WAN", "queued", created + 1)
<1>1. r \in Command /\ r.kind = "WAN" /\ r.status = "queued"
  BY NewTyped DEF CommandKinds, Statuses
<1>2. NewWan(needs, object) = [r EXCEPT !.needs = needs, !.params = ~needs, !.object = object]
  BY DEF NewWan
<1>3. (~needs) = TRUE \/ (~needs) = FALSE
  OBVIOUS
<1> HIDE DEF r
<1> QED
  BY <1>1, <1>2, <1>3 DEF Command

\* What the handlers without a lock create.
LEMMA UnlockedTyped ==
  ASSUME NEW k \in CommandKinds, NEW st \in Statuses, NEW v \in Values, NEW b \in BOOLEAN
  PROVE  LET new == [New(k, st, v) EXCEPT !.params = b]
         IN new \in Command /\ new.kind = k /\ new.status = st
<1> DEFINE r == New(k, st, v)
<1>1. r \in Command /\ r.kind = k /\ r.status = st
  BY NewTyped
<1> HIDE DEF r
<1>2. [r EXCEPT !.params = b] \in Command
  BY <1>1 DEF Command
<1>3. [r EXCEPT !.params = b].kind = k /\ [r EXCEPT !.params = b].status = st
  BY <1>1 DEF Command
<1> QED
  BY <1>2, <1>3 DEF r

\* What Retry creates.
LEMMA RetriedTyped ==
  ASSUME NEW old \in Command, old.kind \in CommandKinds, NEW b \in BOOLEAN
  PROVE  LET new == [New(old.kind, "pending", old.val) EXCEPT
                       !.params = b, !.needs = old.needs, !.tried = old.tried,
                       !.object = old.object]
         IN new \in Command /\ new.kind = old.kind /\ new.status = "pending"
<1> DEFINE r == New(old.kind, "pending", old.val)
<1>0. old.val \in Values
  BY DEF Command
<1>1. r \in Command /\ r.kind = old.kind /\ r.status = "pending"
  BY <1>0, NewTyped DEF Statuses
<1> HIDE DEF r
<1>2. [r EXCEPT !.params = b, !.needs = old.needs, !.tried = old.tried,
                !.object = old.object] \in Command
  BY <1>1 DEF Command
<1>3. LET new == [r EXCEPT !.params = b, !.needs = old.needs, !.tried = old.tried,
                           !.object = old.object]
      IN new.kind = old.kind /\ new.status = "pending"
  BY <1>1 DEF Command
<1> QED
  BY <1>2, <1>3 DEF r

\* Every action of the operators keeps the invariant.
LEMMA OperatorStep ==
  ASSUME IInv, Operator
  PROVE  IInv'
<1>1. DataOK /\ CwmpOK
  BY Split
<1>2. cmds \in [Cmds -> Command] /\ raw \in Trees /\ created \in 0 .. MaxCmds
  BY <1>1 DEF DataOK
<1>3. created < MaxCmds => created + 1 \in Values
  BY <1>2, BoundsAssumption DEF Values, Off
<1>4. Factory \in Values /\ Off \in Values /\ Absent \in Values \cup {Absent}
  BY BoundsAssumption DEF Values, Off, Factory
<1>5. "ssid" \in Paths /\ "wan" \in Paths
  BY DEF Paths
<1>6. ASSUME NEW cs, NEW new \in Command, Revised(cmds, cs), Relied(cmds, cs),
             new.kind # "NONE", new.status \in {"pending", "queued"}, Create(cs, new),
             raw' \in Trees, UNCHANGED <<cwmp, noAddObject, cpe>>
      PROVE  IInv'
  <2>1. DataOK' /\ Relied(cmds, cmds')
    BY <1>1, <1>6, CreateKeeps
  <2>2. CwmpOK'
    BY <1>1, <1>6, <2>1, ReliedKeepsCwmp
  <2> QED
    BY <2>1, <2>2, Split
<1>7. \A action, sts : sts \subseteq Uncollected \cup {"sending"} =>
        Revised(cmds, Superseded(cmds, action, sts)) /\ Relied(cmds, Superseded(cmds, action, sts))
  BY <1>2, SupersededRevises
<1>8. Revised(cmds, cmds) /\ Relied(cmds, cmds)
  BY <1>2, RevisedReflexive DEF Relied
<1>9. \A c \in Cmds : cmds[c].status # "none" => cmds[c].kind \in CommandKinds
  BY <1>1, <1>2 DEF DataOK, Docs, Command, Blank
<1>10. ASSUME NEW k \in Requests, SaveWifi(k) PROVE IInv'
  <2>1. raw' \in Trees
    BY <1>2, <1>3, <1>10 DEF SaveWifi, Create, Trees
  <2>2. /\ New(k, "pending", created + 1) \in Command
        /\ New(k, "pending", created + 1).kind = k
        /\ New(k, "pending", created + 1).status = "pending"
        /\ k # "NONE"
    BY <1>3, <1>10, NewTyped DEF SaveWifi, Create, CommandKinds, Statuses
  <2> QED
    BY <1>6, <1>7, <1>10, <2>1, <2>2 DEF SaveWifi
<1>11. ASSUME NEW k \in Requests, DeviceAction(k) PROVE IInv'
  <2>1. /\ New(k, "pending", Factory) \in Command
        /\ New(k, "pending", Factory).kind = k
        /\ New(k, "pending", Factory).status = "pending"
        /\ k # "NONE"
    BY <1>4, <1>11, NewTyped DEF DeviceAction, CommandKinds, Statuses
  <2> QED
    BY <1>2, <1>6, <1>7, <1>11, <2>1 DEF DeviceAction, device
<1>12. ASSUME NEW needs \in BOOLEAN, AddWan(needs) PROVE IInv'
  BY <1>2, <1>3, <1>6, <1>8, <1>12, NewWanTyped DEF AddWan, device, Create
<1>13. ASSUME NEW needs \in BOOLEAN, EditWan(needs) PROVE IInv'
  <2>1. created + 1 \in Values
    BY <1>3, <1>13 DEF EditWan, Create
  <2> QED
    BY <1>2, <1>6, <1>7, <1>13, <2>1, NewWanTyped DEF EditWan, device
<1>14. ASSUME DeleteWan PROVE IInv'
  <2>1. /\ New("DELETE", "queued", Off) \in Command
        /\ New("DELETE", "queued", Off).kind = "DELETE"
        /\ New("DELETE", "queued", Off).status = "queued"
    BY <1>4, NewTyped DEF CommandKinds, Statuses
  <2>2. raw' \in Trees
    BY <1>2, <1>14 DEF DeleteWan, Trees
  <2> QED
    BY <1>6, <1>7, <1>14, <2>1, <2>2 DEF DeleteWan
<1>15. ASSUME Summon PROVE IInv'
  <2>1. /\ New("SUMMON", "pending", Factory) \in Command
        /\ New("SUMMON", "pending", Factory).kind = "SUMMON"
        /\ New("SUMMON", "pending", Factory).status = "pending"
    BY <1>4, NewTyped DEF CommandKinds, Statuses
  <2> QED
    BY <1>2, <1>6, <1>7, <1>15, <2>1 DEF Summon, device
<1>15b. ASSUME SummonAll PROVE IInv'
  <2>1. /\ New("SUMMON", "pending", Factory) \in Command
        /\ New("SUMMON", "pending", Factory).kind = "SUMMON"
        /\ New("SUMMON", "pending", Factory).status = "pending"
    BY <1>4, NewTyped DEF CommandKinds, Statuses
  <2> QED
    BY <1>2, <1>6, <1>8, <1>15b, <2>1 DEF SummonAll, device
<1>15c. ASSUME RollbackWan PROVE IInv'
  <2>1. created + 1 \in Values
    BY <1>3, <1>15c DEF RollbackWan, Create
  <2>2. /\ NewWan(FALSE, "none") \in Command
        /\ NewWan(FALSE, "none").kind = "WAN" /\ NewWan(FALSE, "none").status = "queued"
    BY <2>1, NewWanTyped
  <2> QED
    BY <1>2, <1>6, <1>8, <1>15c, <2>2 DEF RollbackWan, device
<1>15d. ASSUME SyncLive PROVE IInv'
  <2>1. /\ New("SYNC", "queued", Factory) \in Command
        /\ New("SYNC", "queued", Factory).kind = "SYNC"
        /\ New("SYNC", "queued", Factory).status = "queued"
    BY <1>4, NewTyped DEF CommandKinds, Statuses
  <2> QED
    BY <1>2, <1>6, <1>8, <1>15d, <2>1 DEF SyncLive, device
<1>15e. ASSUME RefreshClients PROVE IInv'
  <2>1. /\ New("CLIENTS", "pending", Factory) \in Command
        /\ New("CLIENTS", "pending", Factory).kind = "CLIENTS"
        /\ New("CLIENTS", "pending", Factory).status = "pending"
    BY <1>4, NewTyped DEF CommandKinds, Statuses
  <2> QED
    BY <1>2, <1>6, <1>8, <1>15e, <2>1 DEF RefreshClients, device
<1>15f. ASSUME NEW k \in Requests, NEW named \in BOOLEAN, QueueCommand(k, named) PROVE IInv'
  <2> DEFINE new(b) == [New(k, "pending", Payload(k)) EXCEPT !.params = b]
  <2>1. k \in CommandKinds /\ k # "NONE" /\ Payload(k) \in Values
    BY <1>3, <1>4, <1>15f DEF QueueCommand, Payload, Create, CommandKinds
  <2>2. (k = "WAN" \/ (k \in {"WIFI", "PASS"} /\ named)) \in BOOLEAN
    OBVIOUS
  <2>3. PICK b \in BOOLEAN : Create(cmds, new(b))
    BY <1>15f, <2>2, Zenon DEF QueueCommand
  <2>4. new(b) \in Command /\ new(b).kind = k /\ new(b).status = "pending"
    BY <2>1, UnlockedTyped DEF Statuses
  <2> HIDE DEF new
  <2> QED
    BY <1>2, <1>6, <1>8, <1>15f, <2>1, <2>3, <2>4 DEF QueueCommand, device
<1>15g. ASSUME NEW k \in Requests, BotCommand(k) PROVE IInv'
  <2> DEFINE new(b) == [New(k, "queued", Payload(k)) EXCEPT !.params = b]
  <2>1. k \in CommandKinds /\ k # "NONE" /\ Payload(k) \in Values
    BY <1>3, <1>4, <1>15g DEF BotCommand, Payload, Create, CommandKinds
  <2>2. PICK b \in BOOLEAN : Create(cmds, new(b))
    BY <1>15g, Zenon DEF BotCommand
  <2>3. new(b) \in Command /\ new(b).kind = k /\ new(b).status = "queued"
    BY <2>1, UnlockedTyped DEF Statuses
  <2> HIDE DEF new
  <2> QED
    BY <1>2, <1>6, <1>8, <1>15g, <2>1, <2>2, <2>3 DEF BotCommand, device
<1>16. ASSUME Workspace PROVE IInv'
  <2> DEFINE await  == {c \in Stale : IsWan(cmds[c].kind) /\ cmds[c].rid}
             waited == {c \in WithStatus(cmds, Uncollected) : cmds[c].qAge > TimeoutAge}
             polls  == {c \in WithStatus(cmds, {"verifying"}) : cmds[c].kind \in {"SUMMON", "SYNC"}}
             late   == (Stale \ await) \cup waited
             cs1    == Mark(cmds, await, "applied_pending_verification")
             cs2    == Mark(cs1, late, "timed_out")
             cs3    == Mark(cs2, polls, "success")
  <2>1. /\ \A c \in await : c \in Cmds /\ cmds[c].status = "sending"
        /\ \A c \in late : c \in Cmds /\ cmds[c].status \in {"sending"} \cup Uncollected
        /\ \A c \in polls : c \in Cmds /\ cmds[c].status = "verifying"
    BY DEF WithStatus, Stale
  <2>2. cmds' = cs3
    BY <1>16 DEF Workspace
  <2> HIDE DEF await, late, polls
  <2>3. Revised(cmds, cs1)
    BY <1>2, <2>1, MarkRevises DEF Statuses
  <2>4. Revised(cs1, cs2)
    BY <2>1, <2>3, MarkRevises DEF Statuses, Revised, Uncollected
  <2>5. Revised(cs2, cs3)
    BY <2>1, <2>3, <2>4, MarkRevises DEF Statuses, Revised
  <2>6. Revised(cmds, cs3)
    BY <1>2, <2>3, <2>4, <2>5, RevisedTransitive DEF Revised
  <2>7. cs1 \in [Cmds -> Command] /\ cs2 \in [Cmds -> Command]
    BY <2>3, <2>4 DEF Revised
  <2>8. \A c \in Cmds : cmds[c].status \in Held => cs3[c].status \in Held
    BY <1>2, <2>1, <2>7 DEF Mark, Command, Held
  <2>9. Relied(cmds, cs3)
    BY <2>6, <2>8 DEF Relied, Revised
  <2> QED
    BY <1>16, <2>2, <2>6, <2>9, ReviseKeeps DEF Workspace, cwmp, device
<1>17. ASSUME NEW c \in Cmds, Cancel(c) PROVE IInv'
  <2>1. Revised(cmds, cmds')
    BY <1>2, <1>17, MarkRevises DEF Cancel, Statuses
  <2>2. \A d \in Cmds : cmds'[d].status \in {cmds[d].status, "canceled"}
    BY <1>2, <1>17 DEF Cancel, Mark, Command
  <2>3. Relied(cmds, cmds')
    BY <2>1, <2>2 DEF Relied, Revised, Held
  <2> QED
    BY <1>17, <2>1, <2>3, ReviseKeeps DEF Cancel, cwmp, device
<1>18. ASSUME NEW c \in Cmds, Retry(c) PROVE IInv'
  <2> DEFINE old == cmds[c]
             new(b) == [New(old.kind, "pending", old.val) EXCEPT
                          !.params = b, !.needs = old.needs, !.tried = old.tried,
                          !.object = old.object]
  <2>1. old \in Command /\ old.kind \in CommandKinds /\ old.kind # "NONE"
    BY <1>2, <1>9, <1>18 DEF Retry, CommandKinds
  <2>2. (old.params \/ (IsWan(old.kind) /\ raw["wan"] # Absent)) \in {TRUE, FALSE}
    OBVIOUS
  <2>3. PICK b \in BOOLEAN :
          Create(Superseded(cmds, Action(old.kind), Uncollected), new(b))
    BY <1>18, <2>2, Zenon DEF Retry
  <2>4. new(b) \in Command /\ new(b).kind = old.kind /\ new(b).status = "pending"
    BY <2>1, RetriedTyped
  <2> HIDE DEF new
  <2> QED
    BY <1>2, <1>6, <1>7, <1>18, <2>1, <2>3, <2>4 DEF Retry, device
<1>19. ASSUME NEW c \in Cmds, RetryRefused(c) PROVE IInv'
  BY <1>7, <1>19, ReviseKeeps DEF RetryRefused, cwmp, device
<1>20. ASSUME NEW c \in Cmds, Regenerate(c) PROVE IInv'
  <2> DEFINE cs == Mark(cmds, {c}, "canceled")
  <2>1. /\ New("NAMES", "pending", Factory) \in Command
        /\ New("NAMES", "pending", Factory).kind = "NAMES"
        /\ New("NAMES", "pending", Factory).status = "pending"
    BY <1>4, NewTyped DEF CommandKinds, Statuses
  <2>2. Revised(cmds, cs)
    BY <1>2, <1>20, MarkRevises DEF Regenerate, Statuses
  <2>3. \A d \in Cmds : cs[d].status \in {cmds[d].status, "canceled"}
    BY <1>2 DEF Mark, Command
  <2>4. Relied(cmds, cs)
    BY <2>2, <2>3 DEF Relied, Revised, Held
  <2> QED
    BY <1>2, <1>6, <1>20, <2>1, <2>2, <2>4 DEF Regenerate, device
<1> QED
  BY <1>10, <1>11, <1>12, <1>13, <1>14, <1>15, <1>15b, <1>15c, <1>15d,
     <1>15e, <1>15f, <1>15g, <1>16, <1>17, <1>18,
     <1>19, <1>20 DEF Operator

-------------------------------------------------------------------------------
(* Steps that end a handler or an RPC.                                         *)

\* No handler runs: nothing is held.
LEMMA IdleTyped ==
  /\ Idle \in Pick /\ Idle.mode = "idle" /\ \A c \in Cmds : Idle.writes[c] = "none"
  /\ NoWrites \in [Cmds -> Statuses] /\ \A c \in Cmds : NoWrites[c] = "none"
  /\ NoRpc \in Rpc /\ NoRpc.type = "none"
  /\ NoSession \in Session /\ NoSession.stage = "NONE"
<1>1. NoWrites \in [Cmds -> Statuses] /\ \A c \in Cmds : NoWrites[c] = "none"
  BY DEF NoWrites, Statuses
<1>2. Idle \in Pick /\ Idle.mode = "idle" /\ Idle.writes = NoWrites
  BY <1>1 DEF Idle, Pick
<1> QED
  BY <1>1, <1>2 DEF NoRpc, Rpc, RpcTypes, NoSession, Session, Stages

\* The session has gone or ends: nothing is out.
LEMMA QuietKeeps ==
  ASSUME DataOK', sess' \in Session, sess'.stage = "NONE", rpc' = NoRpc, picked' = Idle
  PROVE  IInv'
<1>1. CwmpOK'
  BY IdleTyped
     DEF CwmpOK, RestIsAcked, PickedExists, PlansExist, SpvExists, StageTellsRpc, WriteIsAccounted
<1> QED
  BY <1>1, Split

\* A step that closes the session keeps the invariant if its documents do.
LEMMA NoContentKeeps ==
  ASSUME DataOK', NoContent
  PROVE  IInv'
BY QuietKeeps, IdleTyped DEF NoContent

\* The kinds of RPC that may be out in a stage.
Fits(stage, type) ==
  /\ type = "SPV" <=> stage = "SPV_SENT"
  /\ type = "ADD" <=> stage = "ADD_OBJECT_SENT"
  /\ type = "SPA" <=> stage = "SPA_SENT"
  /\ type = "DEL" => stage = "CUSTOM_RPC_SENT"
  /\ stage = "CUSTOM_RPC_SENT" => type \in {"DEL", "REBOOT", "RESET", "GPN"}
  /\ type \in {"REBOOT", "RESET"} => stage \in RestStages

\* The session goes on with the RPC r.
LEMMA AnswerKeeps ==
  ASSUME DataOK', NEW stage \in Stages, stage # "NONE", NEW q \in SUBSET Paths, NEW r \in Rpc,
         Answer(stage, q, r), r.type # "none", Fits(stage, r.type),
         r.type = "SPV" => /\ r.cmd \in Cmds /\ cmds'[r.cmd].rid /\ cmds'[r.cmd].target
                           /\ cmds'[r.cmd].status \in Held
  PROVE  IInv'
<1>1. picked' = Idle /\ rpc' = r /\ sess' \in Session /\ sess'.stage = stage
  BY DEF Answer, Session
<1>2. rpc' # NoRpc
  BY <1>1, IdleTyped
<1>3. CwmpOK'
  BY <1>1, <1>2, IdleTyped
     DEF CwmpOK, RestIsAcked, PickedExists, PlansExist, SpvExists, StageTellsRpc,
         WriteIsAccounted, Held, Fits
<1> QED
  BY <1>3, Split

\* A handler has found what it will save.
LEMMA AwaitKeeps ==
  ASSUME DataOK', sess' \in Session, sess'.stage # "NONE", rpc' = NoRpc, picked' \in Pick,
         picked'.mode \in {"write", "recheck", "close", "judge"}, PickedExists', PlansExist'
  PROVE  IInv'
<1>1. CwmpOK'
  BY IdleTyped DEF CwmpOK, RestIsAcked, SpvExists, StageTellsRpc, WriteIsAccounted
<1> QED
  BY <1>1, Split

\* The paths a command is verified by are paths of the model's tree.
LEMMA TargetPathsInPaths == \A k : TargetPaths(k) \subseteq Paths
BY DEF TargetPaths, Paths

\* Ingesting a read-back gives a parameter tree.
LEMMA IngestedTyped ==
  ASSUME raw \in Trees, cpe \in Trees, NEW R
  PROVE  Ingested(R) \in Trees
BY DEF Ingested, Trees

\* What the CPE does with an RPC leaves on it only values that commands recorded.
LEMMA PerformedSourced ==
  ASSUME IInv, rpc # NoRpc
  PROVE  Performed \in Trees /\ \A p \in Paths : Sourced(p, Performed[p])
<1>1. /\ rpc \in Rpc /\ cpe \in Trees /\ cmds \in [Cmds -> Command]
      /\ \A p \in Paths : Sourced(p, cpe[p])
  BY Split DEF DataOK, CwmpOK
<1>2. Factory \in Values /\ "ssid" \in Paths /\ "wan" \in Paths
  BY BoundsAssumption DEF Values, Off, Factory, Paths
<1>3. CASE rpc.type = "SPV"
  <2>1. rpc.cmd \in Cmds /\ cmds[rpc.cmd].target /\ cmds[rpc.cmd].val \in Values
    BY <1>1, <1>3 DEF IInv, SpvExists, WriteIsAccounted, Command
  <2>2. Performed = [p \in Paths |-> IF p \in TargetPaths(cmds[rpc.cmd].kind)
                                       THEN cmds[rpc.cmd].val ELSE cpe[p]]
    BY <1>3 DEF Performed
  <2> QED
    BY <1>1, <2>1, <2>2 DEF Trees, Sourced
<1>4. CASE rpc.type = "ADD"
  <2>1. Performed = [cpe EXCEPT !["wan"] = IF @ = Absent THEN Factory ELSE @]
    BY <1>4 DEF Performed
  <2> QED
    BY <1>1, <1>2, <2>1 DEF Trees, Sourced
<1>5. CASE rpc.type = "DEL"
  <2>1. Performed = [cpe EXCEPT !["wan"] = Absent]
    BY <1>5 DEF Performed
  <2> QED
    BY <1>1, <1>2, <2>1 DEF Trees, Sourced
<1>6. CASE rpc.type = "RESET"
  <2>1. Performed = [p \in Paths |-> IF p = "ssid" THEN Factory ELSE Absent]
    BY <1>6 DEF Performed
  <2> QED
    BY <1>1, <1>2, <2>1 DEF Trees, Sourced
<1>7. CASE rpc.type \notin {"SPV", "ADD", "DEL", "RESET"}
  BY <1>1, <1>7 DEF Performed
<1> QED
  BY <1>3, <1>4, <1>5, <1>6, <1>7

\* What the handlers of the session may rely on.
LEMMA Context ==
  ASSUME IInv
  PROVE  /\ DataOK /\ CwmpOK /\ cmds \in [Cmds -> Command] /\ created \in 0 .. MaxCmds
         /\ raw \in Trees /\ cpe \in Trees /\ sess \in Session /\ rpc \in Rpc /\ picked \in Pick
         /\ sess.lastQ \in SUBSET Paths /\ sess.stage \in Stages /\ picked.q \in SUBSET Paths
         /\ \A p \in Paths : Sourced(p, cpe[p])
BY Split DEF DataOK, CwmpOK, Session, Pick

\* A step that revises documents and neither tree.
LEMMA RevisedData ==
  ASSUME IInv, Revised(cmds, cmds'), UNCHANGED <<created, raw, cpe>>, noAddObject' \in {noAddObject, TRUE}
  PROVE  DataOK'
BY Context, RevisionKeepsData

\* The documents a handler holds exist, and saving them revises the collection.
LEMMA SavesRevise ==
  ASSUME IInv
  PROVE  LET cs2 == Overwritten(cmds, picked.writes)
         IN /\ Revised(cmds, cs2)
            /\ \A c \in Cmds :
                 /\ cs2[c].status = IF picked.writes[c] = "none" THEN cmds[c].status
                                                                 ELSE picked.writes[c]
                 /\ cs2[c].rid = cmds[c].rid /\ cs2[c].target = cmds[c].target
                 /\ cs2[c].object = cmds[c].object
<1>1. Saves(cmds, picked.writes)
  BY Context DEF CwmpOK, PlansExist, Pick, Saves, MayWait
<1> QED
  BY <1>1, Context, OverwrittenRevises

-------------------------------------------------------------------------------
(* checkPendingRpcOrPoll.                                                      *)

\* Choosing the command of a poll.
LEMMA PollReadStep ==
  ASSUME IInv, PollRead
  PROVE  IInv'
<1>1. DataOK /\ CwmpOK /\ cmds \in [Cmds -> Command]
  BY Context
<1>2. DataOK'
  BY <1>1, RevisedData, RevisedReflexive DEF PollRead, device
<1>3. /\ picked' \in Pick /\ picked'.mode \in {"verify", "dispatch", "telemetry"}
      /\ picked'.writes = NoWrites /\ PickedExists'
  <2>1. ASSUME NEW c \in Cmds, cmds[c].status # "none",
               picked' = [Idle EXCEPT !.mode = "verify", !.cmd = c, !.same = cmds[c].status = "verifying"]
        PROVE  /\ picked' \in Pick /\ picked'.mode \in {"verify", "dispatch", "telemetry"}
               /\ picked'.writes = NoWrites /\ PickedExists'
    <3>1. (cmds[c].status = "verifying") = TRUE \/ (cmds[c].status = "verifying") = FALSE
      OBVIOUS
    <3>2. PICK b \in BOOLEAN : picked' = [Idle EXCEPT !.mode = "verify", !.cmd = c, !.same = b]
      BY <2>1, <3>1, Zenon
    <3>3. /\ picked' \in Pick /\ picked'.mode = "verify" /\ picked'.cmd = c
          /\ picked'.writes = NoWrites
      BY <3>2, IdleTyped DEF Idle, Pick
    <3> QED
      BY <2>1, <3>3 DEF PollRead, PickedExists
  <2>2. ASSUME NEW c \in Cmds, cmds[c].status # "none", picked' = ForDispatch(c)
        PROVE  /\ picked' \in Pick /\ picked'.mode \in {"verify", "dispatch", "telemetry"}
               /\ picked'.writes = NoWrites /\ PickedExists'
    <3>1. /\ (cmds[c].status = "sending") = TRUE \/ (cmds[c].status = "sending") = FALSE
          /\ (raw["wan"] # Absent) = TRUE \/ (raw["wan"] # Absent) = FALSE
      OBVIOUS
    <3>2. PICK b \in BOOLEAN, s \in BOOLEAN :
            /\ picked' = [Idle EXCEPT !.mode = "dispatch", !.cmd = c, !.slot = s, !.same = b]
            /\ b = (cmds[c].status = "sending")
      BY <2>2, <3>1, Zenon DEF ForDispatch
    <3>3. /\ picked' \in Pick /\ picked'.cmd = c /\ picked'.mode = "dispatch"
          /\ picked'.same = b /\ picked'.writes = NoWrites
      BY <3>2, IdleTyped DEF Idle, Pick
    <3> QED
      BY <2>2, <3>2, <3>3 DEF PollRead, PickedExists, Held
  <2>3. CASE PickVerification
    BY <2>1, <2>3, <1>1 DEF PickVerification, IsNewest, Awaiting, WithStatus
  <2>4. CASE PickOldest
    BY <2>2, <2>4, <1>1 DEF PickOldest, IsOldest, Ready, WithStatus, Uncollected
  <2>5. CASE PickNewest
    BY <2>2, <2>5, <1>1 DEF PickNewest, IsNewest, Sendable, WithStatus, Uncollected
  <2>6. CASE PickTelemetry
    BY <2>6, IdleTyped DEF PickTelemetry, Pick, Idle, PickedExists
  <2> QED
    BY <2>3, <2>4, <2>5, <2>6 DEF PollRead
<1>4. SpvExists' /\ StageTellsRpc' /\ WriteIsAccounted'
  BY <1>1, <1>3 DEF PollRead, CwmpOK, SpvExists, StageTellsRpc, WriteIsAccounted
<1>5. RestIsAcked'
  BY <1>1, <1>3, IdleTyped DEF PollRead, CwmpOK, RestIsAcked
<1>6. PlansExist'
  BY <1>3, IdleTyped DEF PlansExist
<1>7. CwmpOK'
  BY <1>1, <1>3, <1>4, <1>5, <1>6 DEF CwmpOK, PollRead
<1> QED
  BY <1>2, <1>7, Split

\* The command a poll dispatches, and the stage it dispatches it in.
LEMMA DispatchingExists ==
  ASSUME IInv, NEW c, Dispatching(c)
  PROVE  /\ c \in Cmds /\ cmds[c].status # "none" /\ cmds[c] \in Command
         /\ sess.stage \in RestStages
         /\ Revised(cmds, Dispatched(cmds, c))
         /\ Dispatched(cmds, c) \in [Cmds -> Command]
         /\ Dispatched(cmds, c)[c].status \in Held
<1>1. /\ picked.mode = "dispatch" /\ c \in Cmds /\ cmds[c].status # "none"
      /\ picked.same => cmds[c].status \in Held
  BY Context DEF CwmpOK, PickedExists, Dispatching
<1>2. sess.stage \in RestStages
  BY <1>1, Context, IdleTyped DEF CwmpOK, RestIsAcked
<1> QED
  BY <1>1, <1>2, Context, DispatchedRevises DEF Held, Revised

\* The second half of a poll, for every branch of the dispatch.
LEMMA PollSendStep ==
  ASSUME IInv, PollSend
  PROVE  IInv'
<1>1. /\ cmds \in [Cmds -> Command] /\ CwmpOK
      /\ sess.lastQ \in SUBSET Paths /\ Paths \in SUBSET Paths
  BY Context
<1>2. RestStages \subseteq Stages \ {"NONE"}
  BY DEF RestStages, Stages
<1>3. ASSUME UNCHANGED <<created, device>>, Revised(cmds, cmds') PROVE DataOK'
  BY <1>3, RevisedData DEF device
<1>4. CASE SendVerification
  <2> DEFINE c == picked.cmd
             r == [type |-> "GPV", cmd |-> c, q |-> TargetPaths(cmds[c].kind)]
  <2>1. c \in Cmds /\ cmds[c].status # "none"
    BY <1>1, <1>4 DEF SendVerification, CwmpOK, PickedExists
  <2>2. Revised(cmds, cmds')
    BY <1>1, <1>4, <2>1, SavedRevises DEF SendVerification, Plain, Statuses
  <2>3. r \in Rpc /\ r.type = "GPV"
    BY <2>1, TargetPathsInPaths DEF Rpc, RpcTypes
  <2>4. "VERIFICATION_GPV_SENT" \in Stages /\ Fits("VERIFICATION_GPV_SENT", "GPV")
    BY DEF Stages, Fits
  <2>5. Answer("VERIFICATION_GPV_SENT", sess.lastQ, r) /\ UNCHANGED <<created, device>>
    BY <1>4 DEF SendVerification
  <2> HIDE DEF r
  <2> QED
    BY <1>1, <1>3, <2>2, <2>3, <2>4, <2>5, AnswerKeeps
<1>5. CASE DropStale
  <2>1. picked.cmd \in Cmds /\ cmds[picked.cmd].status # "none"
    BY <1>1, <1>5 DEF DropStale, CwmpOK, PickedExists
  <2>2. Revised(cmds, cmds')
    BY <1>1, <1>5, <2>1, MarkRevises DEF DropStale, Statuses
  <2> QED
    BY <1>3, <1>5, <2>2, NoContentKeeps DEF DropStale
<1>6. ASSUME NEW c \in Cmds, SendBare(c) PROVE IInv'
  <2> DEFINE t == IF cmds[c].kind = "NAMES" THEN "GPN" ELSE cmds[c].kind
             r == [type |-> t, cmd |-> c, q |-> {}]
  <2>1. t \in {"GPN", "REBOOT", "RESET"}
    BY <1>6 DEF SendBare
  <2>2. sess.stage \in RestStages /\ Revised(cmds, cmds')
    BY <1>6, DispatchingExists DEF SendBare
  <2>3. r \in Rpc /\ r.type = t
    BY <2>1 DEF Rpc, RpcTypes
  <2>4. Answer(sess.stage, sess.lastQ, r) /\ UNCHANGED <<created, device>>
    BY <1>6 DEF SendBare
  <2>5. Fits(sess.stage, t)
    BY <2>1, <2>2 DEF Fits, RestStages
  <2> HIDE DEF r, t
  <2> QED
    BY <1>1, <1>2, <1>3, <2>1, <2>2, <2>3, <2>4, <2>5, AnswerKeeps
<1>7. ASSUME NEW r \in Rpc, r.type = "GPV", Revised(cmds, cmds'), UNCHANGED <<created, device>>,
             Answer("BASELINE_SENT", Paths, r)
      PROVE  IInv'
  <2>1. "BASELINE_SENT" \in Stages /\ Fits("BASELINE_SENT", "GPV")
    BY DEF Stages, Fits
  <2> QED
    BY <1>1, <1>3, <1>7, <2>1, AnswerKeeps
<1>8. ASSUME NEW c \in Cmds, SendSummon(c) PROVE IInv'
  <2>1. Revised(cmds, cmds')
    BY <1>8, DispatchingExists DEF SendSummon
  <2>2. Baseline(c) \in Rpc /\ Baseline(c).type = "GPV"
    BY DEF Baseline, Rpc, RpcTypes
  <2> QED
    BY <1>7, <1>8, <2>1, <2>2 DEF SendSummon
<1>9. ASSUME NEW c \in Cmds, SendDelete(c) PROVE IInv'
  <2> DEFINE r == [type |-> "DEL", cmd |-> c, q |-> {}]
  <2>1. Revised(cmds, cmds')
    BY <1>9, DispatchingExists DEF SendDelete
  <2>2. /\ r \in Rpc /\ r.type = "DEL" /\ "CUSTOM_RPC_SENT" \in Stages
        /\ Fits("CUSTOM_RPC_SENT", "DEL")
    BY DEF Rpc, RpcTypes, Stages, Fits
  <2>3. Answer("CUSTOM_RPC_SENT", sess.lastQ, r) /\ UNCHANGED <<created, device>>
    BY <1>9 DEF SendDelete
  <2> HIDE DEF r
  <2> QED
    BY <1>1, <1>3, <2>1, <2>2, <2>3, AnswerKeeps
<1>10. ASSUME NEW c \in Cmds, SendAddObject(c) PROVE IInv'
  <2> DEFINE d  == Dispatched(cmds, c)
             r  == [type |-> "ADD", cmd |-> c, q |-> {}]
  <2>1. /\ cmds[c].status # "none" /\ cmds[c] \in Command /\ Revised(cmds, d)
        /\ d \in [Cmds -> Command] /\ d[c].status # "none"
    BY <1>10, DispatchingExists DEF SendAddObject, Held
  <2>2. PICK object \in ObjectsAsked(c) :
          cmds' = [d EXCEPT ![c].tried = TRUE, ![c].object = object]
    BY <1>10 DEF SendAddObject
  <2>3. object \in {"none", "parent", "child", "known"}
    BY <2>1, <2>2 DEF ObjectsAsked, Command
  <2> DEFINE e == [d[c] EXCEPT !.tried = TRUE, !.object = object]
  <2> HIDE DEF d
  <2>4. /\ e \in Command /\ e.kind = d[c].kind /\ e.val = d[c].val /\ e.params = d[c].params
        /\ e.rid = d[c].rid /\ e.target = d[c].target /\ e.status = d[c].status
    BY <2>1, <2>3 DEF Command
  <2>5. Revised(d, [d EXCEPT ![c] = e])
    BY <2>1, <2>4, EditRevises
  <2>6. cmds' = [d EXCEPT ![c] = e]
    BY <2>1, <2>2
  <2>7. Revised(cmds, cmds')
    BY <1>1, <2>1, <2>5, <2>6, RevisedTransitive DEF Revised
  <2>8. /\ r \in Rpc /\ r.type = "ADD" /\ "ADD_OBJECT_SENT" \in Stages
        /\ Fits("ADD_OBJECT_SENT", "ADD")
    BY DEF Rpc, RpcTypes, Stages, Fits
  <2>9. Answer("ADD_OBJECT_SENT", sess.lastQ, r) /\ UNCHANGED <<created, device>>
    BY <1>10 DEF SendAddObject
  <2> HIDE DEF r
  <2> QED
    BY <1>1, <1>3, <2>7, <2>8, <2>9, AnswerKeeps
<1>11. ASSUME NEW c \in Cmds, RejectParameters(c) PROVE IInv'
  <2> DEFINE d == Dispatched(cmds, c)
             e == [d[c] EXCEPT !.status = "failed"]
  <2>1. Revised(cmds, d) /\ d \in [Cmds -> Command] /\ d[c].status # "none"
    BY <1>11, DispatchingExists DEF RejectParameters, Held
  <2> HIDE DEF d
  <2>2. /\ e \in Command /\ e.kind = d[c].kind /\ e.val = d[c].val /\ e.params = d[c].params
        /\ e.rid = d[c].rid /\ e.target = d[c].target /\ e.status = "failed"
    BY <2>1 DEF Command, Statuses
  <2>3. Revised(d, [d EXCEPT ![c] = e])
    BY <2>1, <2>2, EditRevises
  <2>4. cmds' = [d EXCEPT ![c] = e]
    BY <1>11, <2>1 DEF RejectParameters, d
  <2>5. Revised(cmds, cmds')
    BY <1>1, <2>1, <2>3, <2>4, RevisedTransitive DEF Revised
  <2> QED
    BY <1>3, <1>11, <2>5, NoContentKeeps DEF RejectParameters
<1>12. ASSUME NEW c \in Cmds, SendParameters(c) PROVE IInv'
  <2> DEFINE d == Dispatched(cmds, c)
             r == [type |-> "SPV", cmd |-> c, q |-> {}]
  <2>1. /\ Revised(cmds, d) /\ d \in [Cmds -> Command]
        /\ d[c].status \in Held /\ d[c].status # "none"
    BY <1>12, DispatchingExists DEF SendParameters, Held
  <2>2. cmds' = Recorded(d, c)
    BY <1>12 DEF SendParameters
  <2> HIDE DEF d
  <2>3. /\ Revised(d, cmds') /\ cmds'[c].rid /\ cmds'[c].target
        /\ cmds'[c].status \in Held
    BY <2>1, <2>2, RecordedRevises
  <2>4. Revised(cmds, cmds')
    BY <1>1, <2>1, <2>3, RevisedTransitive
  <2>5. /\ r \in Rpc /\ r.type = "SPV" /\ r.cmd = c /\ "SPV_SENT" \in Stages
        /\ Fits("SPV_SENT", "SPV")
    BY DEF Rpc, RpcTypes, Stages, Fits
  <2>6. Answer("SPV_SENT", sess.lastQ, r) /\ UNCHANGED <<created, device>>
    BY <1>12 DEF SendParameters
  <2> HIDE DEF r
  <2> QED
    BY <1>1, <1>3, <2>3, <2>4, <2>5, <2>6, AnswerKeeps
<1>13. CASE SendBaseline
  <2>1. Revised(cmds, cmds')
    BY <1>1, <1>13, RevisedReflexive DEF SendBaseline
  <2>2. Baseline(0) \in Rpc /\ Baseline(0).type = "GPV"
    BY DEF Baseline, Rpc, RpcTypes
  <2> QED
    BY <1>7, <1>13, <2>1, <2>2 DEF SendBaseline
<1> QED
  BY <1>4, <1>5, <1>6, <1>8, <1>9, <1>10, <1>11, <1>12, <1>13 DEF PollSend

-------------------------------------------------------------------------------
(* Answers: activation, and what every handler does after it.                  *)

\* The handler of an answer or a fault looks for commands to activate.
LEMMA FindWaitingStep ==
  ASSUME IInv, NEW R \in SUBSET Paths, FindWaiting(R)
  PROVE  IInv'
<1> DEFINE w == Planned(cmds, Waiting, "queued")
<1>1. DataOK /\ CwmpOK /\ cmds \in [Cmds -> Command]
  BY Context
<1>2. DataOK'
  BY <1>1, RevisedData, RevisedReflexive DEF FindWaiting, device
<1>3. /\ w \in [Cmds -> Statuses]
      /\ \A c \in Cmds : /\ w[c] \in {"none", "queued"}
                         /\ w[c] # "none" => cmds[c].status = "waiting_for_wan_slot"
  <2>1. "queued" \in Statuses
    BY DEF Statuses
  <2> QED
    BY <2>1, PlannedTyped DEF Waiting, WithStatus
<1>4. picked' = [Idle EXCEPT !.mode = "activate", !.q = R, !.writes = w]
  BY DEF FindWaiting
<1> HIDE DEF w
<1>5. picked' \in Pick /\ picked'.mode = "activate" /\ picked'.writes = w
  BY <1>3, <1>4, IdleTyped DEF Idle, Pick
<1>6. RestIsAcked'
  BY <1>1, <1>5, IdleTyped DEF FindWaiting, CwmpOK, RestIsAcked
<1>7. PickedExists' /\ PlansExist'
  BY <1>3, <1>5 DEF FindWaiting, PickedExists, PlansExist
<1>8. SpvExists' /\ StageTellsRpc' /\ WriteIsAccounted'
  BY <1>1, <1>3, <1>5
     DEF FindWaiting, CwmpOK, SpvExists, StageTellsRpc, WriteIsAccounted
<1>9. CwmpOK'
  BY <1>1, <1>5, <1>6, <1>7, <1>8 DEF CwmpOK, FindWaiting
<1> QED
  BY <1>2, <1>9, Split

\* It saves them as queued.
LEMMA SaveActivatedStep ==
  ASSUME IInv, SaveActivated
  PROVE  IInv'
<1>1. DataOK /\ CwmpOK /\ picked \in Pick
  BY Context
<1>2. /\ Revised(cmds, cmds')
      /\ \A c \in Cmds : /\ cmds'[c].status = IF picked.writes[c] = "none" THEN cmds[c].status
                                                                           ELSE picked.writes[c]
                         /\ cmds'[c].rid = cmds[c].rid /\ cmds'[c].target = cmds[c].target
  BY SavesRevise DEF SaveActivated
<1>3. DataOK'
  BY <1>2, RevisedData DEF SaveActivated, device
<1>4. picked' \in Pick /\ picked'.mode = "activated" /\ picked'.writes = NoWrites
  BY <1>1, IdleTyped DEF SaveActivated, Pick
<1>5. RestIsAcked'
  BY <1>1, <1>4, IdleTyped DEF SaveActivated, CwmpOK, RestIsAcked
<1>6. PickedExists' /\ PlansExist'
  BY <1>4, IdleTyped DEF PickedExists, PlansExist
<1>7. SpvExists' /\ StageTellsRpc'
  BY <1>1, <1>4 DEF SaveActivated, CwmpOK, SpvExists, StageTellsRpc
<1>8. WriteIsAccounted'
  BY <1>1, <1>2 DEF SaveActivated, CwmpOK, SpvExists, WriteIsAccounted
<1>9. CwmpOK'
  BY <1>1, <1>4, <1>5, <1>6, <1>7, <1>8 DEF CwmpOK, SaveActivated
<1> QED
  BY <1>3, <1>9, Split

\* An answer after which the CPE has done what it was asked.
LEMMA PerformedData ==
  ASSUME IInv, rpc # NoRpc, Revised(cmds, cmds'), cpe' = Performed,
         UNCHANGED <<created, raw, noAddObject>>
  PROVE  DataOK'
BY Context, PerformedSourced, RevisionKeepsData

\* What a handler holds when it has found the documents to save.
LEMMA PlanTyped ==
  ASSUME NEW m \in {"recheck", "close", "judge"}, NEW w \in [Cmds -> Statuses],
         NEW q \in SUBSET Paths
  PROVE  /\ LET p == [Idle EXCEPT !.mode = m, !.writes = w]
            IN p \in Pick /\ p.mode = m /\ p.writes = w
         /\ LET p == [Idle EXCEPT !.mode = m, !.q = q, !.writes = w]
            IN p \in Pick /\ p.mode = m /\ p.writes = w
BY IdleTyped DEF Idle, Pick

\* A handler goes on to save them.
LEMMA PlanKeeps ==
  ASSUME DataOK', sess' \in Session, sess'.stage # "NONE", rpc' = NoRpc, picked' \in Pick,
         picked'.mode \in {"recheck", "close", "judge"},
         \A c \in Cmds :
           /\ picked'.writes[c] # "none" => cmds'[c].status # "none"
           /\ picked'.writes[c] = "waiting_for_wan_slot"
                => noAddObject' /\ IsWan(cmds'[c].kind) /\ cmds'[c].params
  PROVE  IInv'
BY AwaitKeeps DEF PickedExists, PlansExist

\* A handler goes on to write the parameters of c.
LEMMA ToWriteKeeps ==
  ASSUME IInv, DataOK', sess.stage # "NONE", NEW c \in Cmds, cmds[c].status # "none",
         cmds'[c].status = cmds[c].status, Await(ToWrite(c))
  PROVE  IInv'
<1> DEFINE w == Planned(cmds, {c}, "sending")
<1>1. /\ w \in [Cmds -> Statuses]
      /\ \A d \in Cmds : /\ w[d] \in {"none", "sending"}
                         /\ w[d] # "none" => d = c
      /\ w[c] = "sending" \/ (w[c] = "none" /\ cmds[c].status = "sending")
  <2>1. "sending" \in Statuses
    BY DEF Statuses
  <2> QED
    BY <2>1, PlannedTyped
<1>2. picked' = [Idle EXCEPT !.mode = "write", !.cmd = c, !.writes = w]
  BY DEF Await, ToWrite
<1>3. rpc' = NoRpc /\ sess' \in Session /\ sess'.stage # "NONE"
  BY Context DEF Await
<1> HIDE DEF w
<1>4. picked' \in Pick /\ picked'.mode = "write" /\ picked'.cmd = c /\ picked'.writes = w
  BY <1>1, <1>2, IdleTyped DEF Idle, Pick
<1>5. PickedExists' /\ PlansExist'
  BY <1>1, <1>4 DEF PickedExists, PlansExist, Held
<1> QED
  BY <1>3, <1>4, <1>5, AwaitKeeps

\* A handler goes on to read back what the commands of flight wrote, or closes the session.
LEMMA VerifyNowKeeps ==
  ASSUME IInv, DataOK', sess.stage # "NONE",
         NEW cs \in [Cmds -> Command], NEW flight, flight \subseteq Cmds,
         \A c \in flight : cs[c].status # "none", VerifyNow(cs, flight)
  PROVE  IInv'
<1> DEFINE targets == {c \in flight : cs[c].target}
           q == UNION {TargetPaths(cs[c].kind) : c \in targets}
           w == Planned(cs, flight, "verifying")
<1>1. CASE targets = {}
  BY <1>1, NoContentKeeps DEF VerifyNow
<1>2. CASE targets # {}
  <2>1. /\ w \in [Cmds -> Statuses]
        /\ \A c \in Cmds : w[c] \in {"none", "verifying"} /\ (w[c] # "none" => c \in flight)
    <3>1. "verifying" \in Statuses
      BY DEF Statuses
    <3> QED
      BY <3>1, PlannedTyped
  <2>2. q \in SUBSET Paths
    BY TargetPathsInPaths
  <2>3. /\ cmds' = cs /\ rpc' = NoRpc /\ sess' = sess
        /\ picked' = [Idle EXCEPT !.mode = "recheck", !.q = q, !.writes = w]
    BY <1>2 DEF VerifyNow, Await
  <2>4. sess' \in Session /\ sess'.stage # "NONE"
    BY <2>3, Context
  <2> HIDE DEF q, w
  <2>5. picked' \in Pick /\ picked'.mode = "recheck" /\ picked'.writes = w
    BY <2>1, <2>2, <2>3, IdleTyped DEF Idle, Pick
  <2> QED
    BY <2>1, <2>3, <2>4, <2>5, PlanKeeps
<1> QED
  BY <1>1, <1>2

-------------------------------------------------------------------------------
(* The answers, one by one.                                                    *)

\* SetParameterValuesResponse.
LEMMA SpvAnswerStep ==
  ASSUME IInv, NEW status \in {0, 1}, SpvAnswer(status)
  PROVE  IInv'
<1> DEFINE cs1    == Mark(cmds, WithStatus(cmds, {"sending"} \cup Uncollected),
                          IF status = 1 THEN "applied_pending_verification" ELSE "success")
           flight == {c \in Cmds : cs1[c].rid /\ ~IsRead(cs1[c].kind)}
                       \cup Recent(cs1, {"sending", "applied_pending_verification", "success"})
           cs2    == [c \in Cmds |-> IF c \in flight THEN [cs1[c] EXCEPT !.rid = TRUE] ELSE cs1[c]]
           notify == \E c \in flight : IsWan(cs2[c].kind)
                              \/ (cs2[c].target /\ "wan" \in TargetPaths(cs2[c].kind))
           r      == [type |-> "SPA", cmd |-> rpc.cmd, q |-> {}]
<1>1. rpc # NoRpc /\ sess.stage # "NONE"
  BY IdleTyped DEF SpvAnswer, Answers
<1>2. /\ DataOK /\ cmds \in [Cmds -> Command] /\ Docs(cmds, created) /\ rpc \in Rpc
      /\ sess.lastQ \in SUBSET Paths
  BY Context DEF DataOK
<1>3. Revised(cmds, cs1)
  <2> DEFINE st == IF status = 1 THEN "applied_pending_verification" ELSE "success"
             S  == WithStatus(cmds, {"sending"} \cup Uncollected)
  <2>1. st \in Statuses \ {"none", "waiting_for_wan_slot"}
    BY DEF Statuses
  <2>2. \A c \in S : cmds[c].status # "none"
    BY DEF WithStatus, Uncollected
  <2> HIDE DEF st, S
  <2>3. Revised(cmds, Mark(cmds, S, st))
    BY <1>2, <2>1, <2>2, MarkRevises
  <2> QED
    BY <2>3 DEF st, S
<1> HIDE DEF cs1
<1>4. cs1 \in [Cmds -> Command] /\ Docs(cs1, created)
  BY <1>2, <1>3, RevisedDocs DEF Revised
<1>5. flight \subseteq Cmds /\ \A c \in flight : cs1[c].status # "none"
  BY <1>4 DEF Recent, WithStatus, Docs, Blank
<1> HIDE DEF flight
<1>6. /\ \A c \in Cmds : [cs1[c] EXCEPT !.rid = TRUE] \in Command
      /\ cs2 \in [Cmds -> Command]
  <2>1. \A x \in Command : [x EXCEPT !.rid = TRUE] \in Command
    BY DEF Command
  <2> QED
    BY <1>4, <2>1
<1>7. Revised(cs1, cs2) /\ \A c \in flight : cs2[c].status # "none"
  BY <1>4, <1>5, <1>6 DEF Revised, Command
<1> HIDE DEF cs2
<1>8. Revised(cmds, cs2)
  BY <1>2, <1>3, <1>7, RevisedTransitive
<1>9. cmds' = cs2 /\ cpe' = Performed /\ UNCHANGED <<created, raw, noAddObject>>
  BY DEF SpvAnswer, VerifyNow, cs1, flight, cs2
<1>10. DataOK'
  BY <1>1, <1>8, <1>9, PerformedData
<1>11. CASE notify
  <2>1. Answer("SPA_SENT", sess.lastQ, r)
    BY <1>11 DEF SpvAnswer, cs1, flight, cs2
  <2>2. r \in Rpc /\ r.type = "SPA" /\ "SPA_SENT" \in Stages /\ Fits("SPA_SENT", "SPA")
    BY <1>2 DEF Rpc, RpcTypes, Stages, Fits
  <2> HIDE DEF r
  <2> QED
    BY <1>2, <1>10, <2>1, <2>2, AnswerKeeps
<1>12. CASE ~notify
  <2>1. VerifyNow(cs2, flight)
    BY <1>12 DEF SpvAnswer, cs1, flight, cs2
  <2> QED
    BY <1>1, <1>5, <1>6, <1>7, <1>10, <2>1, VerifyNowKeeps DEF cs2
<1> QED
  BY <1>11, <1>12

\* SetParameterAttributesResponse.
LEMMA SpaAnswerStep ==
  ASSUME IInv, SpaAnswer
  PROVE  IInv'
<1> DEFINE cs     == Mark(cmds, WithStatus(cmds, {"sending", "applied_pending_verification"} \cup Uncollected),
                          "success")
           flight == Recent(cs, {"success"})
<1>1. sess.stage # "NONE" /\ cmds \in [Cmds -> Command]
  BY Context DEF SpaAnswer, Answers
<1>2. VerifyNow(cs, flight) /\ UNCHANGED <<created, device>>
  BY DEF SpaAnswer
<1>3. Revised(cmds, cs)
  BY <1>1, WithStatusExists, MarkRevises DEF Statuses, Uncollected
<1> HIDE DEF cs
<1>4. cs \in [Cmds -> Command] /\ cmds' = cs
  BY <1>2, <1>3 DEF Revised, VerifyNow
<1>5. DataOK'
  BY <1>2, <1>3, <1>4, RevisedData DEF device
<1>6. flight \subseteq Cmds /\ \A c \in flight : cs[c].status # "none"
  BY DEF Recent, WithStatus
<1> QED
  BY <1>1, <1>2, <1>4, <1>5, <1>6, VerifyNowKeeps

\* AddObjectResponse for a command that is found.
LEMMA AddObjectAnswerStep ==
  ASSUME IInv, NEW c \in Cmds, AddObjectAnswer(c)
  PROVE  IInv'
<1>1. rpc # NoRpc /\ sess.stage # "NONE" /\ rpc.type = "ADD"
  BY IdleTyped DEF AddObjectAnswer, Answers
<1>2. /\ cmds \in [Cmds -> Command] /\ cmds[c] \in Command /\ rpc \in Rpc
      /\ sess.lastQ \in SUBSET Paths
  BY Context
<1>3. cmds[c].status # "none"
  BY <1>2 DEF AddObjectAnswer, AddObjectOwner, WithStatus, IsNewest
<1>4. ASSUME NEW object \in {"child", "known"}, cmds' = [cmds EXCEPT ![c].object = object]
      PROVE  Revised(cmds, cmds') /\ cmds'[c].status = cmds[c].status
  <2> DEFINE k == [cmds[c] EXCEPT !.object = object]
  <2>1. /\ k \in Command /\ k.kind = cmds[c].kind /\ k.val = cmds[c].val /\ k.params = cmds[c].params
        /\ k.rid = cmds[c].rid /\ k.target = cmds[c].target /\ k.status = cmds[c].status
    BY <1>2 DEF Command
  <2>2. Revised(cmds, [cmds EXCEPT ![c] = k])
    BY <1>2, <1>3, <2>1, EditRevises
  <2>3. cmds' = [cmds EXCEPT ![c] = k]
    BY <1>2, <1>4
  <2> QED
    BY <1>2, <2>1, <2>2, <2>3
<1>5. Revised(cmds, cmds) /\ (UNCHANGED cmds => cmds'[c].status = cmds[c].status)
  BY <1>2, RevisedReflexive
<1>6. Revised(cmds, cmds') /\ cmds'[c].status = cmds[c].status
  BY <1>4, <1>5 DEF AddObjectAnswer
<1>7. DataOK'
  BY <1>1, <1>6, PerformedData DEF AddObjectAnswer
<1>8. CASE cmds[c].object = "parent"
  <2> DEFINE r == [rpc EXCEPT !.cmd = c]
  <2>1. Answer("ADD_OBJECT_SENT", sess.lastQ, r)
    BY <1>8 DEF AddObjectAnswer
  <2>2. /\ r \in Rpc /\ r.type = "ADD" /\ "ADD_OBJECT_SENT" \in Stages
        /\ Fits("ADD_OBJECT_SENT", "ADD")
    BY <1>1, <1>2 DEF Rpc, Stages, Fits
  <2> HIDE DEF r
  <2> QED
    BY <1>2, <1>7, <2>1, <2>2, AnswerKeeps
<1>9. CASE cmds[c].object # "parent"
  <2>1. Await(ToWrite(c))
    BY <1>9 DEF AddObjectAnswer
  <2> QED
    BY <1>1, <1>3, <1>6, <1>7, <2>1, ToWriteKeeps
<1> QED
  BY <1>8, <1>9

\* AddObjectResponse for which no command is found.
LEMMA AddObjectLostStep ==
  ASSUME IInv, AddObjectLost
  PROVE  IInv'
<1>1. rpc # NoRpc /\ sess.stage # "NONE" /\ cmds \in [Cmds -> Command]
  BY IdleTyped, Context DEF AddObjectLost, Answers
<1>2. DataOK'
  BY <1>1, RevisedReflexive, PerformedData DEF AddObjectLost
<1>3. ASSUME NEW c \in Cmds, AddObjectOwner(c),
             Await([Idle EXCEPT !.mode = "close", !.writes = Planned(cmds, {c}, "failed")])
      PROVE  IInv'
  <2> DEFINE w == Planned(cmds, {c}, "failed")
  <2>1. cmds[c].status # "none"
    BY <1>3 DEF AddObjectOwner, WithStatus, IsNewest
  <2>2. "failed" \in Statuses
    BY DEF Statuses
  <2>3. /\ w \in [Cmds -> Statuses]
        /\ \A d \in Cmds : w[d] \in {"none", "failed"} /\ (w[d] # "none" => d = c)
    BY <2>2, PlannedTyped
  <2>4. /\ rpc' = NoRpc /\ sess' \in Session /\ sess'.stage # "NONE" /\ cmds' = cmds
        /\ picked' = [Idle EXCEPT !.mode = "close", !.writes = w]
    BY <1>1, <1>3, Context DEF Await, AddObjectLost
  <2> HIDE DEF w
  <2>5. picked' \in Pick /\ picked'.mode = "close" /\ picked'.writes = w
    BY <2>3, <2>4, PlanTyped
  <2> QED
    BY <1>2, <2>1, <2>3, <2>4, <2>5, PlanKeeps
<1> QED
  BY <1>2, <1>3, NoContentKeeps DEF AddObjectLost

\* Answers the router does not recognise: the session stays in its stage.
LEMMA UnroutedAnswerStep ==
  ASSUME IInv, UnroutedAnswer
  PROVE  IInv'
<1>1. /\ rpc # NoRpc /\ sess.stage # "NONE" /\ rpc.type \in {"DEL", "REBOOT", "RESET"}
      /\ picked = Idle /\ CwmpOK /\ cmds \in [Cmds -> Command]
  BY IdleTyped, Context DEF UnroutedAnswer, Answers
<1>2. DataOK'
  BY <1>1, RevisedReflexive, PerformedData DEF UnroutedAnswer
<1>3. sess.stage \in RestStages
  BY <1>1 DEF CwmpOK, RestIsAcked, StageTellsRpc, RestStages
<1>4. RestIsAcked'
  BY <1>1, <1>3, IdleTyped DEF UnroutedAnswer, RestIsAcked
<1>5. PickedExists' /\ PlansExist'
  BY <1>1, IdleTyped DEF UnroutedAnswer, PickedExists, PlansExist
<1>6. CwmpOK'
  BY <1>1, <1>4, <1>5, IdleTyped
     DEF UnroutedAnswer, CwmpOK, SpvExists, StageTellsRpc, WriteIsAccounted
<1> QED
  BY <1>2, <1>6, Split

\* GetParameterNamesResponse.
LEMMA GpnAnswerStep ==
  ASSUME IInv, GpnAnswer
  PROVE  IInv'
<1> DEFINE r == [type |-> "GPV", cmd |-> 0, q |-> {p \in Paths : cpe[p] # Absent}]
<1>1. sess.lastQ \in SUBSET Paths /\ Revised(cmds, cmds)
  BY Context, RevisedReflexive
<1>2. r \in Rpc /\ r.type = "GPV" /\ "OPTICAL_SENT" \in Stages /\ Fits("OPTICAL_SENT", "GPV")
  BY DEF Rpc, RpcTypes, Stages, Fits
<1>3. DataOK'
  BY <1>1, RevisedData DEF GpnAnswer, device
<1>4. Answer("OPTICAL_SENT", sess.lastQ, r)
  BY DEF GpnAnswer
<1> HIDE DEF r
<1> QED
  BY <1>1, <1>2, <1>3, <1>4, AnswerKeeps

\* GetParameterValuesResponse, with the verdicts it will give.
LEMMA GpvAnswerStep ==
  ASSUME IInv, NEW R, GpvAnswer(R)
  PROVE  IInv'
<1> DEFINE tree  == Ingested(R)
           wrong == {c \in Judged : \E p \in TargetPaths(cmds[c].kind) :
                        tree[p] # Absent /\ tree[p] # cmds[c].val}
           w     == [c \in Cmds |-> CASE c \in wrong  -> "verification_failed"
                                      [] c \in Judged -> "verified"
                                      [] OTHER        -> "none"]
<1>1. /\ sess.stage # "NONE" /\ sess \in Session /\ cmds \in [Cmds -> Command]
      /\ raw \in Trees /\ cpe \in Trees /\ \A p \in Paths : Sourced(p, cpe[p])
  BY Context DEF GpvAnswer, Answers
<1>2. tree \in Trees
  BY <1>1, IngestedTyped
<1>3. /\ raw' = tree /\ rpc' = NoRpc /\ sess' = [sess EXCEPT !.lastQ = {}]
      /\ picked' = [Idle EXCEPT !.mode = "judge", !.writes = w]
      /\ UNCHANGED <<created, cmds, noAddObject, cpe>>
  BY DEF GpvAnswer
<1> HIDE DEF tree
<1>4. DataOK'
  BY <1>1, <1>2, <1>3, RevisedReflexive, Context, RevisionKeepsData
<1>5. wrong \subseteq Judged /\ \A c \in Judged : cmds[c].status # "none"
  BY DEF Judged, WithStatus
<1> HIDE DEF wrong
<1>6. \A c \in Cmds : /\ w[c] \in {"none", "verified", "verification_failed"}
                      /\ w[c] # "none" => c \in Judged
  BY <1>5
<1>7. w \in [Cmds -> Statuses]
  BY DEF Statuses
<1>8. sess' \in Session /\ sess'.stage # "NONE"
  BY <1>1, <1>3 DEF Session
<1> HIDE DEF w
<1>9. picked' \in Pick /\ picked'.mode = "judge" /\ picked'.writes = w
  BY <1>3, <1>7, PlanTyped
<1> QED
  BY <1>3, <1>4, <1>5, <1>6, <1>8, <1>9, PlanKeeps

-------------------------------------------------------------------------------
(* Faults.                                                                     *)

\* What holds when a fault arrives.
LEMMA FaultContext ==
  ASSUME IInv, NEW code, FaultAnswer(code)
  PROVE  /\ sess.stage # "NONE" /\ rpc # NoRpc /\ sess \in Session
         /\ cmds \in [Cmds -> Command] /\ Revised(cmds, cmds)
         /\ UNCHANGED <<created, cmds, device>> => DataOK'
<1>1. cmds \in [Cmds -> Command] /\ sess \in Session /\ Revised(cmds, cmds)
  BY Context, RevisedReflexive
<1>2. UNCHANGED <<created, cmds, device>> => DataOK'
  BY <1>1, RevisedData DEF device
<1> QED
  BY <1>1, <1>2 DEF FaultAnswer

\* Fault of an AddObject the CPE does not support.
LEMMA AddObjectUnsupportedStep ==
  ASSUME IInv, AddObjectUnsupported
  PROVE  IInv'
<1>1. /\ sess.stage # "NONE" /\ sess \in Session /\ cmds \in [Cmds -> Command]
      /\ Revised(cmds, cmds') /\ noAddObject' = TRUE
  BY FaultContext DEF AddObjectUnsupported
<1>2. DataOK'
  BY <1>1, RevisedData DEF AddObjectUnsupported
<1>3. ASSUME NEW c \in Cmds, AddObjectFaulted(c),
             Await([Idle EXCEPT !.mode = "close", !.writes = Refused(c)])
      PROVE  IInv'
  <2> DEFINE st == IF cmds[c].params THEN "waiting_for_wan_slot" ELSE "failed"
             w  == Refused(c)
  <2>1. cmds[c].status # "none" /\ IsWan(cmds[c].kind)
    BY <1>3 DEF AddObjectFaulted, IsNewest, WithStatus, Uncollected
  <2>2. st \in Statuses /\ (st = "waiting_for_wan_slot" => cmds[c].params)
    BY DEF Statuses
  <2>3. w = Planned(cmds, {c}, st)
    BY DEF Refused
  <2>4. /\ rpc' = NoRpc /\ sess' = sess /\ cmds' = cmds
        /\ picked' = [Idle EXCEPT !.mode = "close", !.writes = w]
    BY <1>3 DEF Await, AddObjectUnsupported
  <2> HIDE DEF st, w
  <2>5. /\ w \in [Cmds -> Statuses]
        /\ \A d \in Cmds : w[d] \in {"none", st} /\ (w[d] # "none" => d = c)
    BY <2>2, <2>3, PlannedTyped
  <2>6. picked' \in Pick /\ picked'.mode = "close" /\ picked'.writes = w
    BY <2>4, <2>5, PlanTyped
  <2> QED
    BY <1>1, <1>2, <2>1, <2>2, <2>4, <2>5, <2>6, PlanKeeps
<1> QED
  BY <1>2, <1>3, NoContentKeeps DEF AddObjectUnsupported

\* Any other fault of an AddObject.
LEMMA AddObjectRefusedStep ==
  ASSUME IInv, NEW code, AddObjectRefused(code)
  PROVE  IInv'
<1>1. sess.stage # "NONE" /\ DataOK' /\ cmds' = cmds
  BY FaultContext DEF AddObjectRefused
<1>2. ASSUME NEW c \in Cmds, AddObjectFaulted(c), Await(ToWrite(c)) PROVE IInv'
  <2>1. cmds[c].status # "none"
    BY <1>2 DEF AddObjectFaulted, IsNewest, WithStatus, Uncollected
  <2> QED
    BY <1>1, <1>2, <2>1, ToWriteKeeps
<1> QED
  BY <1>1, <1>2, NoContentKeeps DEF AddObjectRefused

\* Fault of a telemetry read.
LEMMA TelemetryFaultStep ==
  ASSUME IInv, NEW code, TelemetryFault(code)
  PROVE  IInv'
<1> DEFINE r == [type |-> "GPN", cmd |-> 0, q |-> {}]
<1>1. Revised(cmds, cmds') /\ raw' \in Trees
  BY Context, FaultContext, IngestedTyped DEF TelemetryFault
<1>2. DataOK'
  BY <1>1, Context, RevisionKeepsData DEF TelemetryFault
<1>3. /\ r \in Rpc /\ r.type = "GPN" /\ {} \in SUBSET Paths
      /\ "GPN_SENT" \in Stages /\ Fits("GPN_SENT", "GPN")
  BY DEF Rpc, RpcTypes, Stages, Fits
<1>4. Answer("GPN_SENT", {}, r)
  BY DEF TelemetryFault
<1> HIDE DEF r
<1> QED
  BY <1>2, <1>3, <1>4, AnswerKeeps

\* Fault of a DeleteObject, to be answered by switching the connection off.
LEMMA DeleteFallbackStep ==
  ASSUME IInv, NEW code, DeleteFallback(code)
  PROVE  IInv'
<1>1. PICK c \in Cmds : FaultAnswer(code) /\ DeleteFaulted(c) /\ Await(ToWrite(c))
                        /\ UNCHANGED <<created, cmds, device>>
  BY DEF DeleteFallback
<1>2. cmds[c].status # "none"
  BY <1>1 DEF DeleteFaulted, IsNewest, WithStatus, Uncollected
<1> QED
  BY <1>1, <1>2, FaultContext, ToWriteKeeps

\* Fault of a SetParameterValues.
LEMMA WriteFaultStep ==
  ASSUME IInv, NEW code, WriteFault(code)
  PROVE  IInv'
<1> DEFINE f(x) == [x EXCEPT !.status = "failed", !.retryable = @ /\ code # "9005"]
<1>1. cmds \in [Cmds -> Command]
  BY Context
<1>2. \A x \in Command :
        /\ f(x) \in Command /\ f(x).kind = x.kind /\ f(x).val = x.val /\ f(x).params = x.params
        /\ f(x).rid = x.rid /\ f(x).target = x.target /\ f(x).status = "failed"
  <2> TAKE x \in Command
  <2>1. (x.retryable /\ code # "9005") = TRUE \/ (x.retryable /\ code # "9005") = FALSE
    OBVIOUS
  <2>2. PICK b \in BOOLEAN : f(x) = [x EXCEPT !.status = "failed", !.retryable = b]
    BY <2>1, Zenon
  <2> HIDE DEF f
  <2> QED
    BY <2>2 DEF Command, Statuses
<1>3. cmds' = [c \in Cmds |-> IF cmds[c].status = "sending" THEN f(cmds[c]) ELSE cmds[c]]
  BY DEF WriteFault
<1> HIDE DEF f
<1>4. Revised(cmds, cmds')
  BY <1>1, <1>2, <1>3 DEF Revised
<1>5. DataOK'
  BY <1>4, RevisedData DEF WriteFault, device
<1> QED
  BY <1>5, NoContentKeeps DEF WriteFault

\* A fault the server cannot attribute by the stage.
LEMMA OtherFaultStep ==
  ASSUME IInv, NEW code, OtherFault(code)
  PROVE  IInv'
BY FaultContext, NoContentKeeps DEF OtherFault

-------------------------------------------------------------------------------
(* The second half of an answer.                                               *)

\* Saving what a handler holds, whatever the commands have become.
LEMMA SaveAnswerStep ==
  ASSUME IInv, SaveAnswer
  PROVE  IInv'
<1> DEFINE cs2 == Overwritten(cmds, picked.writes)
<1>1. /\ Revised(cmds, cs2) /\ cs2 \in [Cmds -> Command] /\ cmds \in [Cmds -> Command]
      /\ \A c \in Cmds : cs2[c].status = IF picked.writes[c] = "none" THEN cmds[c].status
                                                                    ELSE picked.writes[c]
  BY SavesRevise, Context DEF Revised
<1>2. CwmpOK /\ sess.lastQ \in SUBSET Paths /\ picked.q \in SUBSET Paths
  BY Context
<1> HIDE DEF cs2
<1>3. ASSUME UNCHANGED <<created, device>>, Revised(cmds, cmds') PROVE DataOK'
  BY <1>3, RevisedData DEF device
<1>4. CASE SaveWrite
  <2> DEFINE c == picked.cmd
             r == [type |-> "SPV", cmd |-> c, q |-> {}]
  <2>1. c \in Cmds /\ cs2[c].status # "none" /\ cs2[c].status \in Held
    BY <1>1, <1>2, <1>4 DEF SaveWrite, CwmpOK, PickedExists, Revised, Held
  <2>2. /\ cmds' = Recorded(cs2, c) /\ Answer("SPV_SENT", sess.lastQ, r)
        /\ UNCHANGED <<created, device>>
    BY <1>4 DEF SaveWrite, cs2
  <2>3. /\ Revised(cs2, cmds') /\ cmds'[c].rid /\ cmds'[c].target /\ cmds'[c].status \in Held
    BY <1>1, <2>1, <2>2, RecordedRevises
  <2>4. DataOK'
    BY <1>1, <1>3, <2>2, <2>3, RevisedTransitive
  <2>5. /\ r \in Rpc /\ r.type = "SPV" /\ r.cmd = c /\ "SPV_SENT" \in Stages
        /\ Fits("SPV_SENT", "SPV")
    BY <2>1 DEF Rpc, RpcTypes, Stages, Fits
  <2> HIDE DEF r
  <2> QED
    BY <1>2, <2>1, <2>2, <2>3, <2>4, <2>5, AnswerKeeps
<1>5. CASE SaveRecheck
  <2> DEFINE r == [type |-> "GPV", cmd |-> 0, q |-> picked.q]
  <2>1. /\ cmds' = cs2 /\ Answer("VERIFICATION_GPV_SENT", picked.q, r)
        /\ UNCHANGED <<created, device>>
    BY <1>5 DEF SaveRecheck, cs2
  <2>2. /\ r \in Rpc /\ r.type = "GPV" /\ "VERIFICATION_GPV_SENT" \in Stages
        /\ Fits("VERIFICATION_GPV_SENT", "GPV")
    BY <1>2 DEF Rpc, RpcTypes, Stages, Fits
  <2> HIDE DEF r
  <2> QED
    BY <1>1, <1>2, <1>3, <2>1, <2>2, AnswerKeeps
<1>6. CASE SaveAndClose
  BY <1>1, <1>3, <1>6, NoContentKeeps DEF SaveAndClose, cs2
<1>7. CASE SaveVerdicts
  <2> DEFINE polls == {c \in WithStatus(cs2, {"sending", "verifying"} \cup Uncollected) :
                         cs2[c].kind = "SUMMON"}
  <2>1. cmds' = Mark(cs2, polls, "success") /\ UNCHANGED <<created, device>> /\ NoContent
    BY <1>7 DEF SaveVerdicts, cs2
  <2>2. \A c \in polls : c \in Cmds => cs2[c].status # "none"
    BY DEF WithStatus, Uncollected
  <2> HIDE DEF polls
  <2>3. Revised(cs2, cmds')
    BY <1>1, <2>1, <2>2, MarkRevises DEF Statuses
  <2> QED
    BY <1>1, <1>3, <2>1, <2>3, RevisedTransitive, NoContentKeeps
<1> QED
  BY <1>4, <1>5, <1>6, <1>7 DEF SaveAnswer

-------------------------------------------------------------------------------
(* The environment.                                                            *)

\* New sessions, lost sessions and answers, the manual slot and the clock.
LEMMA EnvironmentStep ==
  ASSUME IInv, Environment
  PROVE  IInv'
<1>1. /\ DataOK /\ CwmpOK /\ cmds \in [Cmds -> Command] /\ raw \in Trees /\ cpe \in Trees
      /\ sess \in Session /\ rpc \in Rpc /\ picked \in Pick
      /\ \A p \in Paths : Sourced(p, cpe[p])
  BY Context
<1>2. Revised(cmds, cmds)
  BY <1>1, RevisedReflexive
<1>3. CASE Inform
  <2>1. DataOK'
    BY <1>2, <1>3, RevisedData DEF Inform, device
  <2>2. sess' \in Session /\ sess'.stage = "INFORM_ACKED"
    BY <1>3 DEF Inform, Session, Stages
  <2>3. CwmpOK'
    BY <1>1, <1>3, <2>2, IdleTyped
       DEF Inform, CwmpOK, RestIsAcked, RestStages, PickedExists, PlansExist, SpvExists,
           StageTellsRpc, WriteIsAccounted
  <2> QED
    BY <2>1, <2>3, Split
<1>4. CASE SessionLost
  <2>1. DataOK'
    BY <1>2, <1>4, RevisedData DEF SessionLost, device
  <2>2. sess' \in Session /\ sess'.stage = "NONE" /\ rpc' \in Rpc /\ picked' = Idle
    BY <1>1, <1>4, IdleTyped DEF SessionLost
  <2>3. RestIsAcked' /\ StageTellsRpc' /\ PickedExists' /\ PlansExist'
    BY <2>2, IdleTyped DEF RestIsAcked, StageTellsRpc, PickedExists, PlansExist
  <2>4. SpvExists' /\ WriteIsAccounted'
    BY <1>1, <1>4, <2>2, IdleTyped DEF SessionLost, CwmpOK, SpvExists, WriteIsAccounted
  <2> QED
    BY <2>1, <2>2, <2>3, <2>4, IdleTyped, Split DEF CwmpOK
<1>5. CASE AnswerUnmatched
  <2>1. cpe' \in Trees /\ \A p \in Paths : Sourced(p, cpe'[p])
    BY <1>1, <1>5, PerformedSourced DEF AnswerUnmatched
  <2>2. DataOK'
    BY <1>1, <1>2, <1>5, <2>1, RevisionKeepsData DEF AnswerUnmatched
  <2>3. picked' = Idle
    BY <1>1, <1>5 DEF AnswerUnmatched, CwmpOK, RestIsAcked
  <2> QED
    BY <1>1, <1>5, <2>2, <2>3, QuietKeeps DEF AnswerUnmatched
<1>6. CASE ManualSlot
  <2>1. cpe' \in Trees /\ \A p \in Paths : Sourced(p, cpe'[p])
    <3>1. Factory \in Values
      BY BoundsAssumption DEF Values, Off, Factory
    <3>2. cpe' = [cpe EXCEPT !["wan"] = Factory]
      BY <1>6 DEF ManualSlot
    <3> QED
      BY <1>1, <3>1, <3>2 DEF Trees, Sourced
  <2>2. DataOK'
    BY <1>1, <1>2, <1>6, <2>1, RevisionKeepsData DEF ManualSlot
  <2>3. Relied(cmds, cmds')
    BY <1>6 DEF ManualSlot, Relied
  <2>4. CwmpOK'
    BY <1>1, <1>6, <2>3, ReliedKeepsCwmp DEF ManualSlot
  <2> QED
    BY <2>2, <2>4, Split
<1>7. CASE Tick
  <2> DEFINE f(x) == [x EXCEPT !.qAge = Older(@), !.sAge = Older(@)]
  <2>1. \A x \in Command :
          /\ f(x) \in Command /\ f(x).kind = x.kind /\ f(x).val = x.val
          /\ f(x).params = x.params /\ f(x).rid = x.rid /\ f(x).target = x.target
          /\ f(x).status = x.status
    BY AgesClosed DEF Command
  <2>2. cmds' = [c \in Cmds |-> IF c <= created THEN f(cmds[c]) ELSE cmds[c]]
    BY <1>7 DEF Tick
  <2>3. \A c \in Cmds : c <= created => cmds[c].status # "none"
    BY <1>1 DEF DataOK, Docs
  <2> HIDE DEF f
  <2>4. Revised(cmds, cmds')
    BY <1>1, <2>1, <2>2, <2>3 DEF Revised
  <2>5. Relied(cmds, cmds')
    BY <1>1, <2>1, <2>2 DEF Relied
  <2> QED
    BY <1>7, <2>4, <2>5, ReviseKeeps DEF Tick, cwmp, device
<1> QED
  BY <1>3, <1>4, <1>5, <1>6, <1>7 DEF Environment

-------------------------------------------------------------------------------
(* The theorems.                                                               *)

\* The invariant holds before anything has happened.
LEMMA InitIInv == Init => IInv
<1> SUFFICES ASSUME Init PROVE IInv
  OBVIOUS
<1>1. Blank \in Command
  BY AgesClosed, BoundsAssumption DEF Blank, Command, Statuses, Values, Factory, Off, NotSent
<1>2. cmds \in [Cmds -> Command] /\ Docs(cmds, created)
  BY <1>1 DEF Init, Docs, Cmds
<1>3. /\ cpe \in Trees /\ raw \in Trees /\ \A p \in Paths : Sourced(p, cpe[p])
  <2>1. PICK slot \in Slots : cpe = [p \in Paths |-> IF p = "ssid" \/ slot THEN Factory ELSE Absent]
    BY DEF Init
  <2>2. Factory \in Values
    BY BoundsAssumption DEF Values, Off, Factory
  <2>3. \A p \in Paths : cpe[p] \in {Factory, Absent}
    BY <2>1
  <2>4. cpe \in Trees /\ raw = cpe
    BY <2>1, <2>2 DEF Init, Trees
  <2> QED
    BY <2>3, <2>4 DEF Sourced
<1>4. WaitingCanActivate
  BY DEF Init, WaitingCanActivate, WithStatus, Blank
<1>5. DataOK
  <2>1. created = 0 /\ noAddObject = FALSE
    BY DEF Init
  <2>2. created \in 0 .. MaxCmds
    BY <2>1, BoundsAssumption
  <2>3. noAddObject \in BOOLEAN
    BY <2>1
  <2> QED
    BY <1>2, <1>3, <1>4, <2>2, <2>3 DEF DataOK
<1>6. CwmpOK
  BY IdleTyped DEF Init, CwmpOK, RestIsAcked, PickedExists, PlansExist, SpvExists,
                   StageTellsRpc, WriteIsAccounted
<1> QED
  BY <1>5, <1>6, Split

\* A poll, an answer or a fault of a CWMP session keeps the invariant.
LEMMA CwmpStep ==
  ASSUME IInv, Cwmp
  PROVE  IInv'
<1>1. CASE PollRead
  BY <1>1, PollReadStep
<1>2. CASE PollSend
  BY <1>2, PollSendStep
<1>3. CASE SaveActivated \/ SaveAnswer
  BY <1>3, SaveActivatedStep, SaveAnswerStep
<1>4. ASSUME NEW status \in {0, 1}, SpvAnswer(status) PROVE IInv'
  BY <1>4, SpvAnswerStep
<1>5. CASE SpaAnswer \/ AddObjectLost \/ UnroutedAnswer \/ GpnAnswer
  BY <1>5, SpaAnswerStep, AddObjectLostStep, UnroutedAnswerStep, GpnAnswerStep
<1>6. ASSUME NEW c \in Cmds, AddObjectAnswer(c) PROVE IInv'
  BY <1>6, AddObjectAnswerStep
<1>7. ASSUME NEW R \in SUBSET Paths, FindWaiting(R) \/ GpvAnswer(R) PROVE IInv'
  BY <1>7, FindWaitingStep, GpvAnswerStep
<1>8. CASE AddObjectUnsupported
  BY <1>8, AddObjectUnsupportedStep
<1>9. ASSUME NEW code \in FaultCodes,
             \/ AddObjectRefused(code) \/ TelemetryFault(code) \/ DeleteFallback(code)
             \/ WriteFault(code) \/ OtherFault(code)
      PROVE  IInv'
  BY <1>9, AddObjectRefusedStep, TelemetryFaultStep, DeleteFallbackStep, WriteFaultStep,
     OtherFaultStep
<1> QED
  BY <1>1, <1>2, <1>3, <1>4, <1>5, <1>6, <1>7, <1>8, <1>9 DEF Cwmp

\* A step that changes nothing keeps the invariant.
LEMMA StutterKeeps ==
  ASSUME IInv, UNCHANGED vars
  PROVE  IInv'
<1>1. DataOK'
  BY Split DEF vars, DataOK, Docs, Sourced, WaitingCanActivate, WithStatus
<1>2. CwmpOK'
  BY Split DEF vars, CwmpOK, RestIsAcked, PickedExists, PlansExist, SpvExists, StageTellsRpc,
               WriteIsAccounted
<1> QED
  BY <1>1, <1>2, Split

\* The inductive invariant holds in every reachable state, whatever the number of
\* commands, the requests, the faults of the CPE and the time limits.
THEOREM Invariance == Spec => []IInv
<1>1. IInv /\ [Next]_vars => IInv'
  BY OperatorStep, CwmpStep, EnvironmentStep, StutterKeeps DEF Next
<1> QED
  BY InitIInv, <1>1, PTL DEF Spec

\* The collection, the session and the trees keep their types: in particular no
\* handler creates a document by updating one that does not exist, although what it
\* saves it read some steps before.
THEOREM TypeCorrectness == Spec => []TypeOK
<1>1. IInv => TypeOK
  BY DEF IInv
<1> QED
  BY <1>1, Invariance, PTL

\* A fault is attributed by the stage of its session.  The stage tells a write, an
\* AddObject, a read-back and a DeleteObject from each other, also after answers that
\* no handler takes and that leave the session in its stage; under CUSTOM_RPC_SENT a
\* bare RPC may be out instead of the DeleteObject.
THEOREM StageIsTruthful == Spec => []StageTellsRpc
<1>1. IInv => StageTellsRpc
  BY DEF IInv
<1> QED
  BY <1>1, Invariance, PTL

\* A SetParameterValues on its way always belongs to a command that has the id and
\* the verification targets by which its answer and its read-back find it.
THEOREM WritesAreAccounted == Spec => []WriteIsAccounted
<1>1. IInv => WriteIsAccounted
  BY DEF IInv
<1> QED
  BY <1>1, Invariance, PTL

\* Every configured value of the CPE was written by a command that records it.
THEOREM ConfigurationHasOrigin == Spec => []CpeValueWasSent
<1>1. IInv => CpeValueWasSent
  BY DEF IInv
<1> QED
  BY <1>1, Invariance, PTL

\* Whatever waits for a WAN slot is something the activation check can find.
THEOREM WaitersCanBeActivated == Spec => []WaitingCanActivate
<1>1. IInv => WaitingCanActivate
  BY DEF IInv
<1> QED
  BY <1>1, Invariance, PTL
===============================================================================
