------------------------- MODULE CommandEngineActions -------------------------
(***************************************************************************)
(* Proofs of what a step of CommandEngine may never do: a command that has *)
(* ended is neither sent nor queued again, except by a handler that holds  *)
(* it from before.  They rest on the inductive invariant of                *)
(* CommandEngineProofs and two more facts.                                 *)
(***************************************************************************)
EXTENDS CommandEngineProofs

\* Targets are stored together with the request id, so a command whose write can
\* be read back is one that was written.
TargetHasId == \A c \in Cmds : cmds[c].target => cmds[c].rid

\* A poll asks for the read-back of a written command only.
VerifiesWritten == picked.mode = "verify" => cmds[picked.cmd].rid

JInv == IInv /\ TargetHasId /\ VerifiesWritten

\* The step leaves the commands that have ended alone, but for canceling them; none that
\* ended without success is taken for a written one, and no target is stored without
\* the request id.
Settles(cs, cs2) ==
  \A c \in Cmds :
    /\ cs[c].status \in Ended => cs2[c].status \in {cs[c].status, "canceled"}
    /\ cs[c].status \in Ended \ {"success"} /\ ~cs[c].rid => ~cs2[c].rid
    /\ cs[c].rid => cs2[c].rid
    /\ cs2[c].target /\ ~cs2[c].rid => cs[c].target /\ ~cs[c].rid

\* A handler that reads p will save no command that has ended, except to read back one
\* that was written or has succeeded.
Spares(p) ==
  \A c \in Cmds : cmds[c].status \in Ended =>
    /\ p.mode \in {"dispatch", "write"} => p.cmd # c
    /\ \/ p.writes[c] = "none"
       \/ p.writes[c] = "verifying" /\ (cmds[c].rid \/ cmds[c].status = "success")

\* What EndedNotResent and UnwrittenEndIsFinal say of one step.
NotResent ==
  \A c \in WithStatus(cmds, Ended) : cmds'[c].status \in Queued \/ Taken(c)' => Taken(c)

StaysEnded ==
  \A c \in WithStatus(cmds, Ended \ {"success"}) :
    ~cmds[c].rid => \/ Holds(c)
                    \/ /\ cmds'[c].status \in {cmds[c].status, "canceled"}
                       /\ ~cmds'[c].rid /\ ~Holds(c)'

StepOK == TargetHasId' /\ VerifiesWritten' /\ NotResent /\ StaysEnded

-------------------------------------------------------------------------------
(* Steps that settle.                                                          *)

\* Leaving the collection alone settles.
LEMMA SettlesReflexive == \A cs : Settles(cs, cs)
BY DEF Settles

\* Two settling steps one after the other settle.
LEMMA SettlesTransitive ==
  \A cs, cs2, cs3 : Settles(cs, cs2) /\ Settles(cs2, cs3) => Settles(cs, cs3)
BY DEF Settles, Ended

\* Setting a status changes the status and nothing else.
LEMMA MarkFields ==
  ASSUME NEW cs \in [Cmds -> Command], NEW S, NEW st \in Statuses
  PROVE  /\ Mark(cs, S, st) \in [Cmds -> Command]
         /\ \A c \in Cmds :
              /\ Mark(cs, S, st)[c].status = IF c \in S THEN st ELSE cs[c].status
              /\ Mark(cs, S, st)[c].rid = cs[c].rid
              /\ Mark(cs, S, st)[c].target = cs[c].target
              /\ Mark(cs, S, st)[c].kind = cs[c].kind
              /\ Mark(cs, S, st)[c].val = cs[c].val
              /\ c \notin S => Mark(cs, S, st)[c] = cs[c]
<1>1. \A c \in Cmds : /\ [cs[c] EXCEPT !.status = st] \in Command
                      /\ [cs[c] EXCEPT !.status = st].status = st
                      /\ [cs[c] EXCEPT !.status = st].rid = cs[c].rid
                      /\ [cs[c] EXCEPT !.status = st].target = cs[c].target
                      /\ [cs[c] EXCEPT !.status = st].kind = cs[c].kind
                      /\ [cs[c] EXCEPT !.status = st].val = cs[c].val
  BY StatusTyped DEF Command
<1> QED
  BY <1>1 DEF Mark

\* Closing or moving commands that have not ended settles, and so does canceling.
LEMMA MarkSettles ==
  ASSUME NEW cs \in [Cmds -> Command], NEW S, NEW st \in Statuses,
         \A c \in S : c \in Cmds => cs[c].status \notin Ended \/ st = "canceled"
  PROVE  Settles(cs, Mark(cs, S, st)) /\ Mark(cs, S, st) \in [Cmds -> Command]
BY MarkFields DEF Settles

\* Storing the request id and the targets of a command changes nothing else.
LEMMA RecordedFields ==
  ASSUME NEW cs \in [Cmds -> Command], NEW c \in Cmds
  PROVE  /\ Recorded(cs, c)[c].rid /\ Recorded(cs, c)[c].target
         /\ Recorded(cs, c)[c].status = cs[c].status
         /\ Recorded(cs, c)[c].kind = cs[c].kind
         /\ Recorded(cs, c)[c].val = cs[c].val
         /\ \A d \in Cmds \ {c} : Recorded(cs, c)[d] = cs[d]
<1> DEFINE r == [cs[c] EXCEPT !.rid = TRUE, !.target = TRUE]
<1>1. r.rid /\ r.target /\ r.status = cs[c].status /\ r.kind = cs[c].kind
      /\ r.val = cs[c].val
  BY DEF Command
<1>2. Recorded(cs, c) = [cs EXCEPT ![c] = r]
  BY DEF Recorded
<1>3. [cs EXCEPT ![c] = r][c] = r /\ \A d \in Cmds \ {c} : [cs EXCEPT ![c] = r][d] = cs[d]
  OBVIOUS
<1> HIDE DEF r
<1> QED
  BY <1>1, <1>2, <1>3

\* Neither Queued nor "verifying" is an end, and an end is neither.
LEMMA EndsApart ==
  /\ Ended \cap Queued = {} /\ "verifying" \notin Queued \cup Ended
  /\ "canceled" \notin Queued /\ "none" \notin Queued \cup Ended
BY DEF Ended, Verdicts, Queued, Uncollected

\* A settling step of a handler that goes on as it was, ends, or reads for later what
\* has not ended.
LEMMA SettlesOK ==
  ASSUME JInv, Settles(cmds, cmds'),
         picked' = picked \/ (picked'.mode # "verify" /\ Spares(picked'))
  PROVE  StepOK
<1>1. picked \in Pick /\ PickedExists
  BY DEF JInv, IInv, TypeOK
<1>2. TargetHasId'
  BY DEF JInv, TargetHasId, Settles
<1>3. VerifiesWritten'
  BY <1>1 DEF JInv, VerifiesWritten, Settles, PickedExists
<1>4. NotResent
  <2> SUFFICES ASSUME NEW c \in WithStatus(cmds, Ended), cmds'[c].status \in Queued \/ Taken(c)'
               PROVE  Taken(c)
    BY DEF NotResent
  <2>1. c \in Cmds /\ cmds[c].status \in Ended
    BY DEF WithStatus
  <2>2. cmds'[c].status \notin Queued
    BY <2>1, EndsApart DEF Settles
  <2>3. CASE picked' = picked
    BY <2>2, <2>3 DEF Taken
  <2>4. CASE Spares(picked')
    BY <2>1, <2>2, <2>4, EndsApart DEF Taken, Spares
  <2> QED
    BY <2>3, <2>4
<1>5. StaysEnded
  <2> SUFFICES ASSUME NEW c \in WithStatus(cmds, Ended \ {"success"}), ~cmds[c].rid, ~Holds(c)
               PROVE  /\ cmds'[c].status \in {cmds[c].status, "canceled"}
                      /\ ~cmds'[c].rid /\ ~Holds(c)'
    BY DEF StaysEnded
  <2>1. c \in Cmds /\ cmds[c].status \in Ended \ {"success"}
    BY DEF WithStatus
  <2>2. cmds'[c].status \in {cmds[c].status, "canceled"} /\ ~cmds'[c].rid
    BY <2>1 DEF Settles
  <2>3. CASE picked' = picked
    BY <2>2, <2>3 DEF Holds
  <2>4. CASE Spares(picked')
    BY <2>1, <2>2, <2>4 DEF Holds, Spares
  <2> QED
    BY <2>2, <2>3, <2>4
<1> QED
  BY <1>2, <1>3, <1>4, <1>5 DEF StepOK

\* A handler that has ended spares everything.
LEMMA IdleSpares == Spares(Idle) /\ Idle.mode = "idle"
BY IdleTyped DEF Spares

-------------------------------------------------------------------------------
(* The operators, the environment.                                             *)

\* Creating a document after a settling revision of the others.
LEMMA CreateSettles ==
  ASSUME DataOK, NEW cs \in [Cmds -> Command], Settles(cmds, cs), NEW new,
         ~new.target, Create(cs, new)
  PROVE  Settles(cmds, cmds')
<1>a. created + 1 \in Cmds /\ ~(created + 1 <= created)
  BY BoundsAssumption DEF DataOK, Create, Cmds
<1>1. created + 1 \in Cmds /\ cmds[created + 1] = Blank
  BY <1>a DEF DataOK, Docs
<1>2. cmds'[created + 1] = new /\ \A c \in Cmds \ {created + 1} : cmds'[c] = cs[c]
  BY <1>1 DEF Create
<1>3. Blank.status \notin Ended /\ ~Blank.rid
  BY DEF Blank, Ended, Verdicts
<1> QED
  BY <1>1, <1>2, <1>3 DEF Settles

\* Nothing an operator asks for concerns the commands that have ended, but for
\* canceling them.
LEMMA OperatorSettles ==
  ASSUME IInv, Operator
  PROVE  Settles(cmds, cmds') /\ picked' = picked
<1>1. DataOK /\ cmds \in [Cmds -> Command]
  BY Split DEF DataOK
<1>2. \A k, st, v : ~New(k, st, v).target
  BY DEF New, Blank
<1>3. \A needs, object : ~NewWan(needs, object).target
  BY DEF NewWan, New, Blank
<1>4. \A action, sts : /\ Settles(cmds, Superseded(cmds, action, sts))
                       /\ Superseded(cmds, action, sts) \in [Cmds -> Command]
  BY <1>1, MarkSettles DEF Superseded, Statuses
<1>5. Settles(cmds, cmds)
  BY SettlesReflexive
<1>6. ASSUME NEW k \in Requests, SaveWifi(k) \/ DeviceAction(k)
      PROVE  Settles(cmds, cmds') /\ picked' = picked
  BY <1>1, <1>2, <1>4, <1>6, CreateSettles DEF SaveWifi, DeviceAction, cwmp
<1>7. ASSUME NEW needs \in BOOLEAN, AddWan(needs) \/ EditWan(needs)
      PROVE  Settles(cmds, cmds') /\ picked' = picked
  BY <1>1, <1>3, <1>4, <1>5, <1>7, CreateSettles DEF AddWan, EditWan, cwmp
<1>8. ASSUME RollbackWan \/ DeleteWan \/ Summon \/ SummonAll \/ SyncLive \/ RefreshClients
      PROVE  Settles(cmds, cmds') /\ picked' = picked
  BY <1>1, <1>2, <1>3, <1>4, <1>5, <1>8, CreateSettles
  DEF RollbackWan, DeleteWan, Summon, SummonAll, SyncLive, RefreshClients, cwmp
<1>8b. ASSUME NEW k \in Requests, NEW named \in BOOLEAN, QueueCommand(k, named) \/ BotCommand(k)
       PROVE  Settles(cmds, cmds') /\ picked' = picked
  <2> DEFINE new(st, b) == [New(k, st, Payload(k)) EXCEPT !.params = b]
  <2>1. PICK st, b : Create(cmds, new(st, b))
    BY <1>8b, Zenon DEF QueueCommand, BotCommand
  <2>2. ~new(st, b).target
    BY DEF New, Blank
  <2> HIDE DEF new
  <2> QED
    BY <1>1, <1>5, <1>8b, <2>1, <2>2, CreateSettles DEF QueueCommand, BotCommand, cwmp
<1>9. ASSUME Workspace PROVE Settles(cmds, cmds') /\ picked' = picked
  <2> DEFINE await  == {c \in Stale : IsWan(cmds[c].kind) /\ cmds[c].rid}
             waited == {c \in WithStatus(cmds, Uncollected) : cmds[c].qAge > TimeoutAge}
             polls  == {c \in WithStatus(cmds, {"verifying"}) : cmds[c].kind \in {"SUMMON", "SYNC"}}
             late   == (Stale \ await) \cup waited
             cs1    == Mark(cmds, await, "applied_pending_verification")
             cs2    == Mark(cs1, late, "timed_out")
  <2>1. \A c \in await \cup late \cup polls :
          c \in Cmds /\ cmds[c].status \in Uncollected \cup {"sending", "verifying"}
    BY DEF WithStatus, Stale
  <2>2. \A c \in await \cap polls : FALSE
    BY DEF WithStatus, Stale
  <2>3. \A c \in late \cap (await \cup polls) : FALSE
    BY DEF WithStatus, Stale, Uncollected
  <2>4. cmds' = Mark(cs2, polls, "success")
    BY <1>9 DEF Workspace
  <2> HIDE DEF await, late, polls
  <2>5. /\ cs1 \in [Cmds -> Command]
        /\ \A c \in Cmds : cs1[c].status = IF c \in await THEN "applied_pending_verification"
                                                          ELSE cmds[c].status
        /\ Settles(cmds, cs1)
    <3>1. \A c \in await : c \in Cmds => cmds[c].status \notin Ended
      BY <2>1 DEF Ended, Verdicts, Uncollected
    <3>2. "applied_pending_verification" \in Statuses
      BY DEF Statuses
    <3> QED
      BY <1>1, <3>1, <3>2, MarkFields, MarkSettles
  <2>6. /\ cs2 \in [Cmds -> Command]
        /\ \A c \in Cmds : cs2[c].status = IF c \in late THEN "timed_out" ELSE cs1[c].status
        /\ Settles(cs1, cs2)
    <3>1. \A c \in late : c \in Cmds => cs1[c].status \notin Ended
      BY <2>1, <2>3, <2>5 DEF Ended, Verdicts, Uncollected
    <3>2. "timed_out" \in Statuses
      BY DEF Statuses
    <3> QED
      BY <2>5, <3>1, <3>2, MarkFields, MarkSettles
  <2>7. Settles(cs2, cmds')
    <3>1. \A c \in polls : c \in Cmds => cs2[c].status \notin Ended
      BY <2>1, <2>2, <2>3, <2>5, <2>6 DEF Ended, Verdicts, Uncollected
    <3> QED
      BY <2>4, <2>6, <3>1, MarkSettles DEF Statuses
  <2> QED
    BY <1>9, <2>5, <2>6, <2>7, SettlesTransitive DEF Workspace, cwmp
<1>10. ASSUME NEW c \in Cmds, Cancel(c) \/ RetryRefused(c)
       PROVE  Settles(cmds, cmds') /\ picked' = picked
  BY <1>1, <1>4, <1>10, MarkSettles DEF Cancel, RetryRefused, cwmp, Statuses
<1>11. ASSUME NEW c \in Cmds, Retry(c) PROVE Settles(cmds, cmds') /\ picked' = picked
  <2> DEFINE old    == cmds[c]
             new(b) == [New(old.kind, "pending", old.val) EXCEPT
                          !.params = b, !.needs = old.needs, !.tried = old.tried,
                          !.object = old.object]
  <2>1. PICK b : Create(Superseded(cmds, Action(old.kind), Uncollected), new(b))
    BY <1>11, Zenon DEF Retry
  <2>2. ~new(b).target
    BY DEF New, Blank
  <2> HIDE DEF new
  <2> QED
    BY <1>1, <1>4, <1>11, <2>1, <2>2, CreateSettles DEF Retry, cwmp
<1>12. ASSUME NEW c \in Cmds, Regenerate(c) PROVE Settles(cmds, cmds') /\ picked' = picked
  BY <1>1, <1>2, <1>12, MarkSettles, CreateSettles DEF Regenerate, cwmp, Statuses
<1> QED
  BY <1>6, <1>7, <1>8, <1>8b, <1>9, <1>10, <1>11, <1>12 DEF Operator

\* Neither does anything the CPE, the connection or the clock does.
LEMMA EnvironmentSettles ==
  ASSUME IInv, Environment
  PROVE  Settles(cmds, cmds') /\ picked' \in {picked, Idle}
<1>1. cmds \in [Cmds -> Command]
  BY Split DEF DataOK
<1>2. CASE Inform \/ SessionLost \/ AnswerUnmatched \/ ManualSlot
  BY <1>2, SettlesReflexive DEF Inform, SessionLost, AnswerUnmatched, ManualSlot, cwmp
<1>3. CASE Tick
  <2> DEFINE f(x) == [x EXCEPT !.qAge = Older(@), !.sAge = Older(@)]
  <2>1. \A x \in Command : /\ f(x).rid = x.rid /\ f(x).target = x.target
                            /\ f(x).status = x.status
    BY DEF Command
  <2>2. cmds' = [c \in Cmds |-> IF c <= created THEN f(cmds[c]) ELSE cmds[c]]
    BY <1>3 DEF Tick
  <2> HIDE DEF f
  <2>3. \A c \in Cmds : /\ cmds'[c].rid = cmds[c].rid /\ cmds'[c].target = cmds[c].target
                        /\ cmds'[c].status = cmds[c].status
    BY <1>1, <2>1, <2>2
  <2>4. Settles(cmds, cmds')
    BY <2>3 DEF Settles
  <2> QED
    BY <1>3, <2>4 DEF Tick, cwmp
<1> QED
  BY <1>2, <1>3 DEF Environment

-------------------------------------------------------------------------------
(* Polls.                                                                      *)

\* What a poll holds when it has read c, and nothing to save.
LEMMA ReadTyped ==
  ASSUME NEW c
  PROVE  /\ ForDispatch(c).mode = "dispatch" /\ ForDispatch(c).cmd = c
         /\ \A d \in Cmds : ForDispatch(c).writes[d] = "none"
         /\ \A b : LET p == [Idle EXCEPT !.mode = "verify", !.cmd = c, !.same = b]
                   IN /\ p.mode = "verify" /\ p.cmd = c
                      /\ \A d \in Cmds : p.writes[d] = "none"
<1>1. \A b, s : LET p == [Idle EXCEPT !.mode = "dispatch", !.cmd = c, !.slot = s, !.same = b]
                IN p.mode = "dispatch" /\ p.cmd = c /\ p.writes = NoWrites
  BY DEF Idle
<1>2. PICK same, slot : ForDispatch(c) =
        [Idle EXCEPT !.mode = "dispatch", !.cmd = c, !.slot = slot, !.same = same]
  BY Zenon DEF ForDispatch
<1>3. \A b : LET p == [Idle EXCEPT !.mode = "verify", !.cmd = c, !.same = b]
            IN p.mode = "verify" /\ p.cmd = c /\ p.writes = NoWrites
  BY DEF Idle
<1> QED
  BY <1>1, <1>2, <1>3, IdleTyped

\* A poll takes up no command that has ended, and asks only for read-backs of
\* written ones.
LEMMA PollReadOK ==
  ASSUME JInv, PollRead
  PROVE  StepOK
<1>1. cmds' = cmds
  BY DEF PollRead
<1>2. /\ \A c \in WithStatus(cmds, Ended) : cmds'[c].status \notin Queued
      /\ \A c \in WithStatus(cmds, Ended \ {"success"}) : cmds'[c].status = cmds[c].status
  BY <1>1, EndsApart DEF WithStatus
<1>3. ASSUME NEW c \in Cmds, picked' = ForDispatch(c), cmds[c].status \notin Ended
      PROVE  picked'.mode # "verify" /\ Spares(picked')
  BY <1>3, ReadTyped DEF Spares
<1>4. CASE PickVerification
  <2>1. PICK c \in Cmds :
          /\ cmds[c].target
          /\ picked' = [Idle EXCEPT !.mode = "verify", !.cmd = c, !.same = cmds[c].status = "verifying"]
    BY <1>4 DEF PickVerification, IsNewest, Awaiting
  <2>2. /\ picked'.mode = "verify" /\ picked'.cmd = c
        /\ \A d \in Cmds : picked'.writes[d] = "none"
    BY <2>1, ReadTyped
  <2>3. VerifiesWritten' /\ TargetHasId'
    BY <1>1, <2>1, <2>2 DEF JInv, TargetHasId, VerifiesWritten
  <2>4. NotResent
    BY <1>2, <2>2, EndsApart DEF NotResent, WithStatus, Taken
  <2>5. StaysEnded
    BY <1>1, <1>2, <2>2 DEF StaysEnded, WithStatus, Holds
  <2> QED
    BY <2>3, <2>4, <2>5 DEF StepOK
<1>5. CASE PickOldest
  <2>1. PICK c \in Cmds : c \in Ready /\ picked' = ForDispatch(c)
    BY <1>5 DEF PickOldest, IsOldest
  <2>2. cmds[c].status \notin Ended
    BY <2>1 DEF Ready, WithStatus, Uncollected, Ended, Verdicts
  <2> QED
    BY <1>1, <1>3, <2>1, <2>2, SettlesReflexive, SettlesOK
<1>6. CASE PickNewest
  <2>1. PICK c \in Cmds : c \in Sendable /\ picked' = ForDispatch(c)
    BY <1>6 DEF PickNewest, IsNewest
  <2>2. cmds[c].status \notin Ended
    BY <2>1 DEF Sendable, WithStatus, Uncollected, Ended, Verdicts
  <2> QED
    BY <1>1, <1>3, <2>1, <2>2, SettlesReflexive, SettlesOK
<1>7. CASE PickTelemetry
  <2>1. picked'.mode = "telemetry" /\ picked'.writes = NoWrites
    BY <1>7 DEF PickTelemetry, Idle
  <2>2. Spares(picked')
    BY <2>1, IdleTyped DEF Spares
  <2> QED
    BY <1>1, <2>1, <2>2, SettlesReflexive, SettlesOK
<1> QED
  BY <1>4, <1>5, <1>6, <1>7 DEF PollRead

\* A step of the poll that had read the command c and changes no other.
LEMMA OwnCommandOK ==
  ASSUME JInv, NEW c \in Cmds, picked.mode = "dispatch", picked.cmd = c, picked' = Idle,
         \A d \in Cmds \ {c} : cmds'[d] = cmds[d],
         cmds'[c].target => cmds'[c].rid
  PROVE  StepOK
<1>1. TargetHasId' /\ VerifiesWritten'
  BY IdleTyped DEF JInv, TargetHasId, VerifiesWritten
<1>2. NotResent
  BY IdleTyped, EndsApart DEF NotResent, WithStatus, Taken
<1>3. StaysEnded
  BY IdleTyped DEF StaysEnded, WithStatus, Holds
<1> QED
  BY <1>1, <1>2, <1>3 DEF StepOK

\* Dispatching a command changes its status and time and no other command.
LEMMA DispatchedFields ==
  ASSUME NEW cs \in [Cmds -> Command], NEW c \in Cmds, cs[c].status # "none"
  PROVE  /\ Dispatched(cs, c) \in [Cmds -> Command]
         /\ \A d \in Cmds \ {c} : Dispatched(cs, c)[d] = cs[d]
         /\ Dispatched(cs, c)[c].rid = cs[c].rid
         /\ Dispatched(cs, c)[c].target = cs[c].target
<1> DEFINE s == Saved(cs, c, "sending")
           r == [s[c] EXCEPT !.sAge = 0]
<1>1. Dispatched(cs, c) \in [Cmds -> Command]
  BY DispatchedRevises DEF Revised
<1>2. /\ s \in [Cmds -> Command] /\ s[c].rid = cs[c].rid /\ s[c].target = cs[c].target
      /\ \A d \in Cmds \ {c} : s[d] = cs[d]
  <2>1. s \in {cs, Mark(cs, {c}, "sending")}
    BY DEF Saved
  <2>2. "sending" \in Statuses
    BY DEF Statuses
  <2> HIDE DEF s
  <2> QED
    BY <2>1, <2>2, MarkFields
<1>3. r.rid = s[c].rid /\ r.target = s[c].target
  BY <1>2 DEF Command
<1>4. Dispatched(cs, c) = [s EXCEPT ![c] = r]
  BY <1>2 DEF Dispatched
<1> HIDE DEF s, r
<1> QED
  BY <1>1, <1>2, <1>3, <1>4

\* Whatever a poll sends, it sends for the command it had read.
LEMMA PollSendOK ==
  ASSUME JInv, PollSend
  PROVE  StepOK
<1>1. /\ cmds \in [Cmds -> Command] /\ PickedExists /\ IInv
      /\ \A c \in Cmds : cmds[c].target => cmds[c].rid
  BY Split DEF JInv, DataOK, CwmpOK, TargetHasId
<1>2. \A stage, lastQ, r : Answer(stage, lastQ, r) => picked' = Idle
  BY DEF Answer
<1>3. CASE SendVerification
  <2> DEFINE c == picked.cmd
  <2>1. c \in Cmds /\ cmds[c].rid /\ picked.mode = "verify" /\ picked' = Idle
    BY <1>1, <1>2, <1>3 DEF SendVerification, PickedExists, JInv, VerifiesWritten
  <2>2. \A d \in Cmds : /\ \/ cmds'[d].status = cmds[d].status
                           \/ d = c /\ cmds'[d].status = "verifying"
                        /\ cmds'[d].rid = cmds[d].rid /\ cmds'[d].target = cmds[d].target
    <3>1. cmds' \in {cmds, Mark(cmds, {c}, "verifying")}
      BY <1>3 DEF SendVerification, Saved
    <3>2. "verifying" \in Statuses
      BY DEF Statuses
    <3> QED
      BY <1>1, <3>1, <3>2, MarkFields
  <2>3. TargetHasId' /\ VerifiesWritten'
    BY <1>1, <2>1, <2>2, IdleTyped DEF TargetHasId, VerifiesWritten
  <2>4. NotResent
    BY <2>1, <2>2, EndsApart, IdleTyped DEF NotResent, WithStatus, Taken
  <2>5. StaysEnded
    BY <2>1, <2>2, IdleTyped DEF StaysEnded, WithStatus, Holds
  <2> QED
    BY <2>3, <2>4, <2>5 DEF StepOK
<1>4. CASE DropStale
  <2> DEFINE c == picked.cmd
  <2>1. c \in Cmds /\ picked.mode = "dispatch" /\ picked' = Idle
    BY <1>1, <1>4 DEF DropStale, PickedExists, NoContent
  <2>2. cmds' = Mark(cmds, {c}, "expired")
    BY <1>4 DEF DropStale
  <2>3. /\ \A d \in Cmds \ {c} : cmds'[d] = cmds[d]
        /\ cmds'[c].rid = cmds[c].rid /\ cmds'[c].target = cmds[c].target
    BY <1>1, <2>1, <2>2, MarkFields DEF Statuses
  <2> QED
    BY <1>1, <2>1, <2>3, OwnCommandOK
<1>5. CASE SendBaseline
  <2>1. cmds' = cmds /\ picked' = Idle
    BY <1>2, <1>5 DEF SendBaseline
  <2> QED
    BY <2>1, IdleSpares, SettlesReflexive, SettlesOK
<1>6. ASSUME NEW c \in Cmds, Dispatching(c), picked' = Idle,
             \A d \in Cmds \ {c} : cmds'[d] = Dispatched(cmds, c)[d],
             \/ cmds'[c].rid
             \/ /\ cmds'[c].rid = Dispatched(cmds, c)[c].rid
                /\ cmds'[c].target = Dispatched(cmds, c)[c].target
      PROVE  StepOK
  <2>1. picked.mode = "dispatch" /\ picked.cmd = c /\ cmds[c].status # "none"
    BY <1>1, <1>6 DEF Dispatching, PickedExists
  <2>2. /\ \A d \in Cmds \ {c} : Dispatched(cmds, c)[d] = cmds[d]
        /\ Dispatched(cmds, c)[c].rid = cmds[c].rid
        /\ Dispatched(cmds, c)[c].target = cmds[c].target
    BY <1>1, <2>1, DispatchedFields
  <2> QED
    BY <1>1, <1>6, <2>1, <2>2, OwnCommandOK
<1>7. ASSUME NEW c \in Cmds, SendBare(c) \/ SendSummon(c) \/ SendDelete(c) PROVE StepOK
  BY <1>2, <1>6, <1>7 DEF SendBare, SendSummon, SendDelete
<1>8. ASSUME NEW c \in Cmds, Dispatching(c) PROVE Dispatched(cmds, c) \in [Cmds -> Command]
  BY <1>1, <1>8, DispatchedFields DEF Dispatching, PickedExists
<1>9. ASSUME NEW c \in Cmds, SendAddObject(c) PROVE StepOK
  <2> DEFINE s    == Dispatched(cmds, c)
             r(o) == [s[c] EXCEPT !.tried = TRUE, !.object = o]
  <2>1. s \in [Cmds -> Command] /\ Dispatching(c) /\ picked' = Idle
    BY <1>2, <1>8, <1>9 DEF SendAddObject
  <2>2. PICK o : cmds' = [s EXCEPT ![c].tried = TRUE, ![c].object = o]
    BY <1>9 DEF SendAddObject
  <2>3. r(o).rid = s[c].rid /\ r(o).target = s[c].target
    BY <2>1 DEF Command
  <2>4. cmds' = [s EXCEPT ![c] = r(o)]
    BY <2>1, <2>2
  <2> HIDE DEF s, r
  <2>5. cmds'[c] = r(o) /\ \A d \in Cmds \ {c} : cmds'[d] = s[d]
    BY <2>1, <2>4
  <2> QED
    BY <1>6, <2>1, <2>3, <2>5 DEF s
<1>10. ASSUME NEW c \in Cmds, RejectParameters(c) PROVE StepOK
  <2> DEFINE s == Dispatched(cmds, c)
             r == [s[c] EXCEPT !.status = "failed"]
  <2>1. s \in [Cmds -> Command] /\ Dispatching(c) /\ picked' = Idle
    BY <1>8, <1>10 DEF RejectParameters, NoContent
  <2>2. r.rid = s[c].rid /\ r.target = s[c].target
    BY <2>1 DEF Command
  <2>3. cmds' = [s EXCEPT ![c] = r]
    BY <1>10, <2>1 DEF RejectParameters
  <2> HIDE DEF s, r
  <2>4. cmds'[c] = r /\ \A d \in Cmds \ {c} : cmds'[d] = s[d]
    BY <2>1, <2>3
  <2> QED
    BY <1>6, <2>1, <2>2, <2>4 DEF s
<1>11. ASSUME NEW c \in Cmds, SendParameters(c) PROVE StepOK
  <2>1. Dispatched(cmds, c) \in [Cmds -> Command] /\ Dispatching(c) /\ picked' = Idle
    BY <1>2, <1>8, <1>11 DEF SendParameters
  <2>2. cmds' = Recorded(Dispatched(cmds, c), c)
    BY <1>11 DEF SendParameters
  <2>3. cmds'[c].rid /\ \A d \in Cmds \ {c} : cmds'[d] = Dispatched(cmds, c)[d]
    BY <2>1, <2>2, RecordedFields
  <2> QED
    BY <1>6, <2>1, <2>3
<1> QED
  BY <1>3, <1>4, <1>5, <1>7, <1>9, <1>10, <1>11 DEF PollSend

-------------------------------------------------------------------------------
(* Answers and faults, first half: what a handler finds.                       *)

\* The handler of an answer or a fault that looks for commands to activate finds some
\* that wait, and saves those.
LEMMA FindWaitingOK ==
  ASSUME JInv, NEW R \in SUBSET Paths, FindWaiting(R)
  PROVE  StepOK
<1> DEFINE w == Planned(cmds, Waiting, "queued")
<1>1. \A c \in Waiting : c \in Cmds => cmds[c].status \notin Ended
  BY DEF Waiting, WithStatus, Ended, Verdicts
<1>2. /\ w \in [Cmds -> Statuses]
      /\ \A c \in Cmds : w[c] # "none" => c \in Waiting
  <2>1. "queued" \in Statuses
    BY DEF Statuses
  <2> QED
    BY <2>1, PlannedTyped
<1>3. cmds' = cmds /\ picked' = [Idle EXCEPT !.mode = "activate", !.q = R, !.writes = w]
  BY DEF FindWaiting
<1> HIDE DEF w
<1>4. picked'.mode = "activate" /\ picked'.writes = w
  BY <1>2, <1>3, IdleTyped DEF Idle, Pick
<1>5. picked'.mode # "verify" /\ Spares(picked')
  BY <1>1, <1>2, <1>4 DEF Spares
<1> QED
  BY <1>3, <1>5, SettlesReflexive, SettlesOK

\* A handler goes on to write the parameters of a command that has not ended.
LEMMA ToWriteSpares ==
  ASSUME NEW c \in Cmds, cmds[c].status \notin Ended, Await(ToWrite(c))
  PROVE  picked'.mode # "verify" /\ Spares(picked')
<1> DEFINE w == Planned(cmds, {c}, "sending")
<1>1. /\ w \in [Cmds -> Statuses]
      /\ \A d \in Cmds : w[d] # "none" => d = c
  <2>1. "sending" \in Statuses
    BY DEF Statuses
  <2> QED
    BY <2>1, PlannedTyped
<1>2. picked' = [Idle EXCEPT !.mode = "write", !.cmd = c, !.writes = w]
  BY DEF Await, ToWrite
<1> HIDE DEF w
<1>3. picked'.mode = "write" /\ picked'.cmd = c /\ picked'.writes = w
  BY <1>1, <1>2, IdleTyped DEF Idle, Pick
<1> QED
  BY <1>1, <1>3 DEF Spares

\* A handler goes on to save st for c, which has not ended, and to close the session.
LEMMA ToCloseSpares ==
  ASSUME NEW c \in Cmds, cmds[c].status \notin Ended, NEW st \in Statuses,
         Await([Idle EXCEPT !.mode = "close", !.writes = Planned(cmds, {c}, st)])
  PROVE  picked'.mode # "verify" /\ Spares(picked')
<1> DEFINE w == Planned(cmds, {c}, st)
<1>1. /\ w \in [Cmds -> Statuses]
      /\ \A d \in Cmds : w[d] # "none" => d \in {c}
  BY PlannedTyped
<1>2. picked' = [Idle EXCEPT !.mode = "close", !.writes = w]
  BY DEF Await
<1> HIDE DEF w
<1>3. picked'.mode = "close" /\ picked'.writes = w
  BY <1>1, <1>2, PlanTyped
<1>4. \A d \in {c} : d \in Cmds => cmds[d].status \notin Ended
  OBVIOUS
<1> QED
  BY <1>1, <1>3, <1>4 DEF Spares

\* Reading back a flight of commands, all of which were written or have succeeded.
LEMMA VerifyNowOK ==
  ASSUME JInv, NEW cs \in [Cmds -> Command], Settles(cmds, cs), NEW flight,
         VerifyNow(cs, flight),
         \A c \in flight : c \in Cmds /\ cmds[c].status \in Ended
                             => cmds[c].status = "success" \/ cmds[c].rid
  PROVE  StepOK
<1> DEFINE targets == {c \in flight : cs[c].target}
           q == UNION {TargetPaths(cs[c].kind) : c \in targets}
           w == Planned(cs, flight, "verifying")
<1>1. cmds' = cs
  BY DEF VerifyNow
<1>2. CASE targets = {}
  <2>1. picked' = Idle
    BY <1>2 DEF VerifyNow, NoContent
  <2> QED
    BY <1>1, <2>1, IdleSpares, SettlesOK
<1>3. CASE targets # {}
  <2>1. /\ w \in [Cmds -> Statuses]
        /\ \A c \in Cmds : w[c] \in {"none", "verifying"} /\ (w[c] # "none" => c \in flight)
    <3>1. "verifying" \in Statuses
      BY DEF Statuses
    <3> QED
      BY <3>1, PlannedTyped
  <2>2. q \in SUBSET Paths
    BY TargetPathsInPaths
  <2>3. picked' = [Idle EXCEPT !.mode = "recheck", !.q = q, !.writes = w]
    BY <1>3 DEF VerifyNow, Await
  <2> HIDE DEF q, w
  <2>4. picked'.mode = "recheck" /\ picked'.writes = w
    BY <2>1, <2>2, <2>3, IdleTyped DEF Idle, Pick
  <2>5. Spares(picked')
    BY <2>1, <2>4 DEF Spares
  <2> QED
    BY <1>1, <2>4, <2>5, SettlesOK
<1> QED
  BY <1>2, <1>3

\* SetParameterValuesResponse: of the commands that have ended, those come into
\* flight again that were written or have succeeded.
LEMMA SpvAnswerOK ==
  ASSUME JInv, NEW status \in {0, 1}, SpvAnswer(status)
  PROVE  StepOK
<1> DEFINE open   == WithStatus(cmds, {"sending"} \cup Uncollected)
           done   == IF status = 1 THEN "applied_pending_verification" ELSE "success"
           cs1    == Mark(cmds, open, done)
           flight == {c \in Cmds : cs1[c].rid /\ ~IsRead(cs1[c].kind)}
                       \cup Recent(cs1, {"sending", "applied_pending_verification", "success"})
           cs2    == [c \in Cmds |-> IF c \in flight THEN [cs1[c] EXCEPT !.rid = TRUE] ELSE cs1[c]]
           notify == \E c \in flight : IsWan(cs2[c].kind)
                              \/ (cs2[c].target /\ "wan" \in TargetPaths(cs2[c].kind))
<1>1. cmds \in [Cmds -> Command]
  BY Context DEF JInv
<1>2. done \in Statuses
  BY DEF Statuses
<1>3. \A c \in open : c \in Cmds /\ cmds[c].status \notin Ended
  BY DEF WithStatus, Uncollected, Ended, Verdicts
<1> HIDE DEF open, done
<1>4. /\ cs1 \in [Cmds -> Command] /\ Settles(cmds, cs1)
      /\ \A c \in Cmds : /\ cs1[c].status = IF c \in open THEN done ELSE cmds[c].status
                         /\ cs1[c].rid = cmds[c].rid
  BY <1>1, <1>2, <1>3, MarkFields, MarkSettles
<1>5. \A c \in flight : /\ c \in Cmds
                        /\ \/ cs1[c].rid
                           \/ cs1[c].status \in {"sending", "applied_pending_verification", "success"}
  BY DEF Recent, WithStatus
<1> HIDE DEF cs1, flight
<1>6. \A x \in Command : /\ [x EXCEPT !.rid = TRUE] \in Command
                         /\ [x EXCEPT !.rid = TRUE].rid
                         /\ [x EXCEPT !.rid = TRUE].status = x.status
  BY DEF Command
<1>7. cs2 \in [Cmds -> Command]
  BY <1>4, <1>6
<1>8. \A c \in flight : c \in Cmds /\ cmds[c].status \in Ended
                            => cmds[c].status = "success" \/ cmds[c].rid
  <2> SUFFICES ASSUME NEW c \in flight, c \in Cmds, cmds[c].status \in Ended, ~cmds[c].rid
               PROVE  cmds[c].status = "success"
    OBVIOUS
  <2>1. cs1[c].status = cmds[c].status /\ ~cs1[c].rid
    BY <1>3, <1>4
  <2> QED
    BY <1>5, <2>1 DEF Ended, Verdicts
<1>9. \A c \in Cmds : /\ cs2[c].status = cs1[c].status /\ (cs1[c].rid => cs2[c].rid)
                      /\ c \in flight => cs2[c].rid
                      /\ c \notin flight => cs2[c] = cs1[c]
  BY <1>4, <1>6
<1> HIDE DEF cs2
<1>10. Settles(cmds, cs2)
  <2> SUFFICES ASSUME NEW c \in Cmds
               PROVE  /\ cmds[c].status \in Ended => cs2[c].status \in {cmds[c].status, "canceled"}
                      /\ cmds[c].status \in Ended \ {"success"} /\ ~cmds[c].rid => ~cs2[c].rid
                      /\ cmds[c].rid => cs2[c].rid
                      /\ cs2[c].target /\ ~cs2[c].rid => cmds[c].target /\ ~cmds[c].rid
    BY DEF Settles
  <2>1. CASE c \in flight
    BY <1>4, <1>8, <1>9, <2>1 DEF Settles
  <2>2. CASE c \notin flight
    BY <1>4, <1>9, <2>2 DEF Settles
  <2> QED
    BY <2>1, <2>2
<1>11. CASE notify
  <2>1. cmds' = cs2 /\ picked' = Idle
    BY <1>11 DEF SpvAnswer, Answer, open, done, cs1, flight, cs2
  <2> QED
    BY <1>10, <2>1, IdleSpares, SettlesOK
<1>12. CASE ~notify
  <2>1. VerifyNow(cs2, flight)
    BY <1>12 DEF SpvAnswer, open, done, cs1, flight, cs2
  <2> QED
    BY <1>7, <1>8, <1>10, <2>1, VerifyNowOK
<1> QED
  BY <1>11, <1>12

\* SetParameterAttributesResponse: the read-back covers what has succeeded.
LEMMA SpaAnswerOK ==
  ASSUME JInv, SpaAnswer
  PROVE  StepOK
<1> DEFINE open   == WithStatus(cmds, {"sending", "applied_pending_verification"} \cup Uncollected)
           cs     == Mark(cmds, open, "success")
           flight == Recent(cs, {"success"})
<1>1. VerifyNow(cs, flight) /\ cmds \in [Cmds -> Command]
  BY Context DEF SpaAnswer, JInv
<1>2. \A c \in open : c \in Cmds /\ cmds[c].status \notin Ended
  BY DEF WithStatus, Uncollected, Ended, Verdicts
<1>3. \A c \in flight : c \in Cmds /\ cs[c].status = "success"
  BY DEF Recent, WithStatus
<1> HIDE DEF open
<1>4. /\ cs \in [Cmds -> Command] /\ Settles(cmds, cs)
      /\ \A c \in Cmds : cs[c].status = IF c \in open THEN "success" ELSE cmds[c].status
  BY <1>1, <1>2, MarkFields, MarkSettles DEF Statuses
<1> HIDE DEF cs, flight
<1>5. \A c \in flight : c \in Cmds /\ cmds[c].status \in Ended => cmds[c].status = "success"
  BY <1>3, <1>4 DEF Settles
<1> QED
  BY <1>1, <1>4, <1>5, VerifyNowOK

\* An AddObjectResponse, however it is attributed, is taken for a command that has
\* not ended.
LEMMA AddObjectAnswerOK ==
  ASSUME JInv, (\E c \in Cmds : AddObjectAnswer(c)) \/ AddObjectLost
  PROVE  StepOK
<1>1. cmds \in [Cmds -> Command]
  BY Context DEF JInv
<1>2. \A c \in Cmds : AddObjectOwner(c) => cmds[c].status \notin Ended
  BY DEF AddObjectOwner, IsNewest, WithStatus, Ended, Verdicts
<1>3. ASSUME NEW c \in Cmds, AddObjectAnswer(c) PROVE StepOK
  <2>1. ASSUME NEW o, cmds' = [cmds EXCEPT ![c].object = o] PROVE Settles(cmds, cmds')
    <3> DEFINE r == [cmds[c] EXCEPT !.object = o]
    <3>1. r.status = cmds[c].status /\ r.rid = cmds[c].rid /\ r.target = cmds[c].target
      BY <1>1 DEF Command
    <3>2. cmds' = [cmds EXCEPT ![c] = r]
      BY <1>1, <2>1
    <3> HIDE DEF r
    <3>3. cmds'[c] = r /\ \A d \in Cmds \ {c} : cmds'[d] = cmds[d]
      BY <1>1, <3>2
    <3> QED
      BY <3>1, <3>3 DEF Settles
  <2>2. Settles(cmds, cmds')
    BY <1>3, <2>1, SettlesReflexive DEF AddObjectAnswer
  <2>3. CASE cmds[c].object = "parent"
    <3>1. picked' = Idle
      BY <1>3, <2>3 DEF AddObjectAnswer, Answer
    <3> QED
      BY <2>2, <3>1, IdleSpares, SettlesOK
  <2>4. CASE cmds[c].object # "parent"
    <3>1. Await(ToWrite(c)) /\ cmds[c].status \notin Ended
      BY <1>2, <1>3, <2>4 DEF AddObjectAnswer
    <3> QED
      BY <2>2, <3>1, ToWriteSpares, SettlesOK
  <2> QED
    BY <2>3, <2>4
<1>4. ASSUME AddObjectLost PROVE StepOK
  <2>1. cmds' = cmds
    BY <1>4 DEF AddObjectLost
  <2>2. CASE NoContent
    BY <2>1, <2>2, IdleSpares, SettlesReflexive, SettlesOK DEF NoContent
  <2>3. ASSUME NEW c \in Cmds, AddObjectOwner(c),
               Await([Idle EXCEPT !.mode = "close", !.writes = Planned(cmds, {c}, "failed")])
        PROVE  StepOK
    <3>1. "failed" \in Statuses
      BY DEF Statuses
    <3>2. picked'.mode # "verify" /\ Spares(picked')
      BY <1>2, <2>3, <3>1, ToCloseSpares
    <3> QED
      BY <2>1, <3>2, SettlesReflexive, SettlesOK
  <2> QED
    BY <1>4, <2>2, <2>3 DEF AddObjectLost
<1> QED
  BY <1>3, <1>4

\* A read-back prepares verdicts for commands that await one.
LEMMA GpvAnswerOK ==
  ASSUME JInv, NEW R \in SUBSET Paths, GpvAnswer(R)
  PROVE  StepOK
<1> DEFINE tree  == Ingested(R)
           wrong == {c \in Judged : \E p \in TargetPaths(cmds[c].kind) :
                        tree[p] # Absent /\ tree[p] # cmds[c].val}
           w     == [c \in Cmds |-> CASE c \in wrong  -> "verification_failed"
                                      [] c \in Judged -> "verified"
                                      [] OTHER        -> "none"]
<1>1. cmds' = cmds /\ picked' = [Idle EXCEPT !.mode = "judge", !.writes = w]
  BY DEF GpvAnswer
<1>2. wrong \subseteq Judged /\ \A c \in Judged : c \in Cmds => cmds[c].status \notin Ended
  BY DEF Judged, WithStatus, Ended, Verdicts
<1> HIDE DEF wrong
<1>3. w \in [Cmds -> Statuses] /\ \A c \in Cmds : w[c] # "none" => c \in Judged
  BY <1>2 DEF Statuses
<1> HIDE DEF w
<1>4. picked'.mode = "judge" /\ picked'.writes = w
  BY <1>1, <1>3, PlanTyped
<1>5. picked'.mode # "verify" /\ Spares(picked')
  BY <1>2, <1>3, <1>4 DEF Spares
<1> QED
  BY <1>1, <1>5, SettlesReflexive, SettlesOK

\* A fault fails commands that have not ended, or prepares to fail or write one.
LEMMA FaultOK ==
  ASSUME JInv, NEW code \in FaultCodes,
         \/ AddObjectUnsupported \/ AddObjectRefused(code) \/ TelemetryFault(code)
         \/ DeleteFallback(code) \/ WriteFault(code) \/ OtherFault(code)
  PROVE  StepOK
<1>1. cmds \in [Cmds -> Command]
  BY Context DEF JInv
<1>2. \A c \in Cmds : AddObjectFaulted(c) \/ DeleteFaulted(c) => cmds[c].status \notin Ended
  BY DEF AddObjectFaulted, DeleteFaulted, IsNewest, WithStatus, Uncollected, Ended, Verdicts
<1>3. NoContent \/ (\E stage, q, r : Answer(stage, q, r)) => picked' = Idle
  BY DEF NoContent, Answer
<1>4. cmds' = cmds /\ picked' = Idle => StepOK
  BY IdleSpares, SettlesReflexive, SettlesOK
<1>5. ASSUME NEW c \in Cmds, cmds[c].status \notin Ended, cmds' = cmds, Await(ToWrite(c))
      PROVE  StepOK
  BY <1>5, ToWriteSpares, SettlesReflexive, SettlesOK
<1>6. CASE AddObjectUnsupported
  <2>1. ASSUME NEW c \in Cmds, AddObjectFaulted(c),
               Await([Idle EXCEPT !.mode = "close", !.writes = Refused(c)])
        PROVE  StepOK
    <3> DEFINE st == IF cmds[c].params THEN "waiting_for_wan_slot" ELSE "failed"
    <3>1. st \in Statuses /\ cmds' = cmds
      BY <1>6 DEF Statuses, AddObjectUnsupported
    <3>2. Await([Idle EXCEPT !.mode = "close", !.writes = Planned(cmds, {c}, st)])
      BY <2>1 DEF Refused
    <3> HIDE DEF st
    <3>3. picked'.mode # "verify" /\ Spares(picked')
      BY <1>2, <2>1, <3>1, <3>2, ToCloseSpares
    <3> QED
      BY <3>1, <3>3, SettlesReflexive, SettlesOK
  <2> QED
    BY <1>3, <1>4, <1>6, <2>1 DEF AddObjectUnsupported
<1>7. CASE AddObjectRefused(code)
  BY <1>2, <1>3, <1>4, <1>5, <1>7 DEF AddObjectRefused
<1>8. CASE TelemetryFault(code) \/ OtherFault(code)
  BY <1>3, <1>4, <1>8 DEF TelemetryFault, OtherFault
<1>9. CASE DeleteFallback(code)
  BY <1>2, <1>5, <1>9 DEF DeleteFallback
<1>10. CASE WriteFault(code)
  <2> DEFINE f(x) == [x EXCEPT !.status = "failed", !.retryable = @ /\ code # "9005"]
  <2>1. \A x \in Command : f(x).rid = x.rid /\ f(x).target = x.target
    BY DEF Command
  <2>2. /\ cmds' = [c \in Cmds |-> IF cmds[c].status = "sending" THEN f(cmds[c]) ELSE cmds[c]]
        /\ picked' = Idle
    BY <1>3, <1>10 DEF WriteFault
  <2> HIDE DEF f
  <2>3. \A c \in Cmds : /\ cmds[c].status # "sending" => cmds'[c] = cmds[c]
                        /\ cmds'[c].rid = cmds[c].rid /\ cmds'[c].target = cmds[c].target
    BY <1>1, <2>1, <2>2
  <2>4. Settles(cmds, cmds')
    BY <2>3 DEF Settles, Ended, Verdicts
  <2> QED
    BY <2>2, <2>4, IdleSpares, SettlesOK
<1> QED
  BY <1>6, <1>7, <1>8, <1>9, <1>10

-------------------------------------------------------------------------------
(* Answers and faults, second half: what a handler saves.                      *)

\* A save touches the commands the handler holds, besides closing some that have not
\* ended.
LEMMA SaveOK ==
  ASSUME JInv, picked'.mode \notin {"verify", "dispatch", "write"},
         \A c \in Cmds : picked'.writes[c] = "none",
         NEW cs2, cs2 = Overwritten(cmds, picked.writes),
         \A c \in Cmds :
           /\ \/ cmds'[c].status = cs2[c].status
              \/ cmds'[c].status = "success" /\ cs2[c].status \notin Ended
           /\ \/ cmds'[c].rid = cs2[c].rid /\ cmds'[c].target = cs2[c].target
              \/ cmds'[c].rid /\ picked.mode = "write" /\ picked.cmd = c
  PROVE  StepOK
<1>1. \A c \in Cmds : /\ cs2[c].status = IF picked.writes[c] = "none" THEN cmds[c].status
                                                                      ELSE picked.writes[c]
                      /\ cs2[c].rid = cmds[c].rid /\ cs2[c].target = cmds[c].target
  BY SavesRevise DEF JInv
<1>2. TargetHasId' /\ VerifiesWritten'
  BY <1>1 DEF JInv, TargetHasId, VerifiesWritten
<1>3. NotResent
  <2> SUFFICES ASSUME NEW c \in WithStatus(cmds, Ended), cmds'[c].status \in Queued \/ Taken(c)'
               PROVE  Taken(c)
    BY DEF NotResent
  <2>1. c \in Cmds /\ cmds[c].status \in Ended
    BY DEF WithStatus
  <2>2. ~Taken(c)'
    BY <2>1, EndsApart DEF Taken
  <2>3. cmds'[c].status \in Queued /\ "success" \notin Queued
    BY <2>2 DEF Queued, Uncollected
  <2>4. cs2[c].status \in Queued
    BY <2>1, <2>3
  <2> QED
    BY <1>1, <2>1, <2>4, EndsApart DEF Taken
<1>4. StaysEnded
  <2> SUFFICES ASSUME NEW c \in WithStatus(cmds, Ended \ {"success"}), ~cmds[c].rid, ~Holds(c)
               PROVE  /\ cmds'[c].status \in {cmds[c].status, "canceled"}
                      /\ ~cmds'[c].rid /\ ~Holds(c)'
    BY DEF StaysEnded
  <2>1. /\ c \in Cmds /\ cmds[c].status \in Ended /\ picked.writes[c] = "none"
        /\ ~(picked.mode = "write" /\ picked.cmd = c)
    BY DEF WithStatus, Holds
  <2>2. cs2[c].status = cmds[c].status /\ cs2[c].rid = cmds[c].rid
    BY <1>1, <2>1
  <2> QED
    BY <2>1, <2>2 DEF Holds
<1> QED
  BY <1>2, <1>3, <1>4 DEF StepOK

\* Whatever the commands have become, a handler saves only those it holds.
LEMMA SavesOK ==
  ASSUME JInv, SaveActivated \/ SaveAnswer
  PROVE  StepOK
<1> DEFINE cs2 == Overwritten(cmds, picked.writes)
<1>1. /\ cs2 \in [Cmds -> Command] /\ picked \in Pick
      /\ picked.mode = "write" => picked.cmd \in Cmds
  BY SavesRevise, Context DEF JInv, Revised, CwmpOK, PickedExists
<1>2. Idle.mode \notin {"verify", "dispatch", "write"} /\ \A c \in Cmds : Idle.writes[c] = "none"
  BY IdleTyped
<1>3. \A stage, q, r : Answer(stage, q, r) \/ NoContent => picked' = Idle
  BY DEF Answer, NoContent
<1> HIDE DEF cs2
<1>4. CASE SaveActivated
  <2>1. cmds' = cs2 /\ picked'.mode = "activated" /\ picked'.writes = NoWrites
    BY <1>1, <1>4 DEF SaveActivated, Pick, cs2
  <2> QED
    BY <2>1, IdleTyped, SaveOK DEF cs2
<1>5. CASE SaveWrite
  <2> DEFINE c == picked.cmd
  <2>1. cmds' = Recorded(cs2, c) /\ picked' = Idle /\ picked.mode = "write" /\ c \in Cmds
    BY <1>1, <1>3, <1>5 DEF SaveWrite, cs2
  <2>2. /\ cmds'[c].rid /\ cmds'[c].status = cs2[c].status
        /\ \A d \in Cmds \ {c} : cmds'[d] = cs2[d]
    BY <1>1, <2>1, RecordedFields
  <2> QED
    BY <1>2, <2>1, <2>2, SaveOK DEF cs2
<1>6. CASE SaveRecheck \/ SaveAndClose
  <2>1. cmds' = cs2 /\ picked' = Idle
    BY <1>3, <1>6 DEF SaveRecheck, SaveAndClose, cs2
  <2> QED
    BY <1>2, <2>1, SaveOK DEF cs2
<1>7. CASE SaveVerdicts
  <2> DEFINE polls == {c \in WithStatus(cs2, {"sending", "verifying"} \cup Uncollected) :
                         cs2[c].kind = "SUMMON"}
  <2>1. cmds' = Mark(cs2, polls, "success") /\ picked' = Idle
    BY <1>3, <1>7 DEF SaveVerdicts, cs2
  <2>2. \A c \in polls : cs2[c].status \notin Ended
    BY DEF WithStatus, Uncollected, Ended, Verdicts
  <2> HIDE DEF polls
  <2>3. \A c \in Cmds : /\ cmds'[c].status = IF c \in polls THEN "success" ELSE cs2[c].status
                        /\ cmds'[c].rid = cs2[c].rid /\ cmds'[c].target = cs2[c].target
    BY <1>1, <2>1, MarkFields DEF Statuses
  <2> QED
    BY <1>2, <2>1, <2>2, <2>3, SaveOK DEF cs2
<1> QED
  BY <1>4, <1>5, <1>6, <1>7 DEF SaveAnswer

-------------------------------------------------------------------------------
(* The theorems.                                                               *)

\* Every step keeps the strengthened invariant and respects what has ended.
LEMMA NextOK ==
  ASSUME JInv, Next
  PROVE  StepOK
<1>1. CASE Operator
  BY <1>1, OperatorSettles, SettlesOK DEF JInv
<1>2. CASE Environment
  BY <1>2, EnvironmentSettles, IdleSpares, SettlesOK DEF JInv
<1>3. CASE Cwmp
  <2>1. CASE PollRead \/ PollSend
    BY <2>1, PollReadOK, PollSendOK
  <2>2. ASSUME NEW status \in {0, 1}, SpvAnswer(status) PROVE StepOK
    BY <2>2, SpvAnswerOK
  <2>3. CASE SpaAnswer
    BY <2>3, SpaAnswerOK
  <2>4. CASE AddObjectLost \/ \E c \in Cmds : AddObjectAnswer(c)
    BY <2>4, AddObjectAnswerOK
  <2>5. CASE UnroutedAnswer \/ GpnAnswer
    <3>1. cmds' = cmds /\ picked' \in {picked, Idle}
      BY <2>5 DEF UnroutedAnswer, GpnAnswer, Answer
    <3> QED
      BY <3>1, IdleSpares, SettlesReflexive, SettlesOK
  <2>6. ASSUME NEW R \in SUBSET Paths, FindWaiting(R) \/ GpvAnswer(R) PROVE StepOK
    BY <2>6, FindWaitingOK, GpvAnswerOK
  <2>7. CASE SaveActivated \/ SaveAnswer
    BY <2>7, SavesOK
  <2>8. CASE AddObjectUnsupported
    BY <2>8, FaultOK DEF FaultCodes
  <2>9. ASSUME NEW code \in FaultCodes,
               \/ AddObjectRefused(code) \/ TelemetryFault(code) \/ DeleteFallback(code)
               \/ WriteFault(code) \/ OtherFault(code)
        PROVE  StepOK
    BY <2>9, FaultOK
  <2> QED
    BY <1>3, <2>1, <2>2, <2>3, <2>4, <2>5, <2>6, <2>7, <2>8, <2>9 DEF Cwmp
<1> QED
  BY <1>1, <1>2, <1>3 DEF Next

\* The strengthened invariant holds initially.
LEMMA InitJInv == Init => JInv
<1> SUFFICES ASSUME Init PROVE JInv
  OBVIOUS
<1>1. TargetHasId /\ VerifiesWritten
  BY IdleTyped DEF Init, TargetHasId, VerifiesWritten, Blank
<1> QED
  BY <1>1, InitIInv DEF JInv

\* ... and in every reachable state.
LEMMA JInvariance == Spec => []JInv
<1>1. JInv /\ [Next]_vars => TargetHasId' /\ VerifiesWritten'
  <2>1. ASSUME JInv, UNCHANGED vars PROVE TargetHasId' /\ VerifiesWritten'
    BY <2>1 DEF JInv, TargetHasId, VerifiesWritten, vars
  <2> QED
    BY <2>1, NextOK DEF StepOK
<1>2. JInv <=> IInv /\ TargetHasId /\ VerifiesWritten
  BY DEF JInv
<1> QED
  BY <1>1, <1>2, InitJInv, Invariance, PTL DEF Spec

\* A command that has ended is neither sent nor queued again, by no poll and by no
\* answer, except by a handler that had read it before it ended.
THEOREM EndedIsNotResent == Spec => EndedNotResent
<1>1. JInv /\ [Next]_vars =>
        [\A c \in WithStatus(cmds, Ended) : cmds'[c].status \in Queued \/ Taken(c)' => Taken(c)]_vars
  BY NextOK DEF StepOK, NotResent
<1> QED
  BY <1>1, JInvariance, PTL DEF Spec, EndedNotResent

\* A command that ended without having been written keeps its status, but for being
\* canceled, and is not taken for a written one, unless a handler holds it from before.
THEOREM UnwrittenEndsStay == Spec => UnwrittenEndIsFinal
<1>1. JInv /\ [Next]_vars =>
        [\A c \in WithStatus(cmds, Ended \ {"success"}) :
           ~cmds[c].rid => \/ Holds(c)
                           \/ /\ cmds'[c].status \in {cmds[c].status, "canceled"}
                              /\ ~cmds'[c].rid /\ ~Holds(c)']_vars
  BY NextOK DEF StepOK, StaysEnded
<1> QED
  BY <1>1, JInvariance, PTL DEF Spec, UnwrittenEndIsFinal
===============================================================================
