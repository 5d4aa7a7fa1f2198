-------------------------- MODULE CommandEngineOrder --------------------------
(***************************************************************************)
(* Proofs of the order in which Wi-Fi commands take effect, for any number *)
(* of commands: a Wi-Fi name that was verified is not overwritten by an    *)
(* older command, and the engine keeps the promise of WifiName.  They rest *)
(* on the invariants of CommandEngineProofs and two more, WifiInOrder and   *)
(* PlansForWifi.                                                           *)
(***************************************************************************)
EXTENDS CommandEngineActions

WifiKinds == {"WIFI", "PASS"}

\* The statuses of a command that an acknowledgement of the CPE covered.  A handler may
\* be about to write one of them back after the command was canceled.
Covered == Verdicts \cup {"applied_pending_verification", "verifying", "success"}

Acknowledged(c) == \/ cmds[c].status \in Covered
                   \/ picked.mode = "verify" /\ picked.cmd = c
                   \/ picked.writes[c] \in Covered

\* Once a Wi-Fi command has been acknowledged, no older one is outstanding: the
\* acknowledgement closes whatever the device has open.
WifiInOrder ==
  \A c, d \in Cmds :
    /\ cmds[c].kind \in WifiKinds /\ cmds[d].kind \in WifiKinds /\ d < c
    /\ Acknowledged(c)
    => ~Outstanding(d)

\* The parameters that follow another RPC are no Wi-Fi command's, and what a handler of an
\* answer is about to save of one acknowledges it.
PlansForWifi ==
  /\ picked.mode = "write" => cmds[picked.cmd].kind \notin WifiKinds
  /\ \A c \in Cmds : cmds[c].kind \in WifiKinds => picked.writes[c] \in Covered \cup {"none"}

OInv == IInv /\ WifiInOrder /\ PlansForWifi

\* A document keeps its kind and payload.
Same(cs, cs2) == \A c \in Cmds : cs2[c].kind = cs[c].kind /\ cs2[c].val = cs[c].val

\* What every step does: it keeps the order, reopens no Wi-Fi command, keeps the
\* requests, and new ones can be collected.
Kept ==
  /\ WifiInOrder' /\ PlansForWifi'
  /\ \A c \in Cmds :
       /\ cmds[c].kind \in WifiKinds /\ Outstanding(c)' => Outstanding(c)
       /\ cmds[c].kind # "NONE" => cmds'[c].kind = cmds[c].kind /\ cmds'[c].val = cmds[c].val
       /\ cmds[c].kind = "NONE" /\ cmds'[c].kind # "NONE" => cmds'[c].status \in Uncollected

-------------------------------------------------------------------------------
(* Updates that neither acknowledge nor open a Wi-Fi command.                  *)

Calm(cs, cs2) ==
  \A c \in Cmds :
    /\ cs2[c].kind = cs[c].kind /\ cs2[c].val = cs[c].val
    /\ cs2[c].kind \in WifiKinds =>
         /\ cs2[c].status \in Covered => cs[c].status \in Covered
         /\ cs2[c].status \in Open => cs[c].status \in Open

\* Leaving the collection alone is calm.
LEMMA CalmReflexive == \A cs : Calm(cs, cs)
BY DEF Calm

\* Two calm updates one after the other are calm.
LEMMA CalmTransitive ==
  \A cs, cs2, cs3 : Calm(cs, cs2) /\ Calm(cs2, cs3) => Calm(cs, cs3)
BY DEF Calm

\* Closing commands is calm, and so is any status given to commands of other kinds,
\* or a verdict on commands that await it.
LEMMA MarkCalm ==
  ASSUME NEW cs \in [Cmds -> Command], NEW S, NEW st \in Statuses,
         \/ st \in {"canceled", "expired", "timed_out", "failed"}
         \/ \A c \in S : c \in Cmds => cs[c].kind \notin WifiKinds
         \/ st \in Covered /\ \A c \in S : c \in Cmds => cs[c].status \in Covered
  PROVE  Calm(cs, Mark(cs, S, st)) /\ Mark(cs, S, st) \in [Cmds -> Command]
<1>1. Covered \cap Open = {} /\ {"canceled", "expired", "timed_out", "failed"} \cap (Covered \cup Open) = {}
  BY DEF Covered, Open, Verdicts, Uncollected
<1> QED
  BY <1>1, MarkFields DEF Calm

\* An open command is not covered, and no open status is "none".
LEMMA CoveredApart == Covered \cap Open = {} /\ "none" \notin Covered \cup Open
BY DEF Covered, Open, Verdicts, Uncollected

\* A step by which no Wi-Fi command becomes acknowledged or outstanding.
LEMMA NothingNew ==
  ASSUME WifiInOrder, Same(cmds, cmds'), PlansForWifi',
         \A c \in Cmds : cmds'[c].kind \in WifiKinds =>
           /\ Acknowledged(c)' => Acknowledged(c)
           /\ Outstanding(c)' => Outstanding(c)
  PROVE  Kept
BY DEF Kept, WifiInOrder, Same

\* A handler that goes on as it was, or holds nothing to save, is none of a Wi-Fi command's.
LEMMA PlansStay ==
  ASSUME OInv, Same(cmds, cmds'),
         picked' = picked \/ (picked'.mode # "write" /\ \A c \in Cmds : picked'.writes[c] = "none")
  PROVE  PlansForWifi'
BY DEF OInv, IInv, PickedExists, PlansForWifi, Same

\* A calm step that passes nothing on to a handler and sends no Wi-Fi command.
LEMMA CalmKeeps ==
  ASSUME OInv, Calm(cmds, cmds'), picked' \in {picked, Idle},
         rpc'.type = "SPV" /\ cmds'[rpc'.cmd].kind \in WifiKinds => rpc' = rpc
  PROVE  Kept
<1>1. ASSUME NEW c \in Cmds, cmds'[c].kind \in WifiKinds
      PROVE  /\ Acknowledged(c)' => Acknowledged(c)
             /\ Outstanding(c)' => Outstanding(c)
  BY <1>1, IdleTyped, CoveredApart DEF Calm, Acknowledged, Outstanding
<1>2. Same(cmds, cmds')
  BY DEF Calm, Same
<1>3. PlansForWifi'
  BY <1>2, PlansStay, IdleTyped
<1> QED
  BY <1>1, <1>2, <1>3, NothingNew DEF OInv

\* A calm step by which the handler of an answer finds what it will save: of Wi-Fi
\* commands those that are acknowledged, and no parameters to write.
LEMMA FindsKeeps ==
  ASSUME OInv, Calm(cmds, cmds'), picked'.mode \notin {"dispatch", "verify"},
         picked'.mode = "write" => picked'.cmd \in Cmds /\ cmds[picked'.cmd].kind \notin WifiKinds,
         \A c \in Cmds : cmds[c].kind \in WifiKinds =>
           picked'.writes[c] = "none" \/ (picked'.writes[c] \in Covered /\ cmds[c].status \in Covered),
         rpc'.type = "SPV" => rpc' = rpc
  PROVE  Kept
<1>1. ASSUME NEW c \in Cmds, cmds'[c].kind \in WifiKinds
      PROVE  /\ Acknowledged(c)' => Acknowledged(c)
             /\ Outstanding(c)' => Outstanding(c)
  BY <1>1, CoveredApart DEF Calm, Acknowledged, Outstanding
<1>2. Same(cmds, cmds')
  BY DEF Calm, Same
<1>3. PlansForWifi'
  BY <1>2 DEF PlansForWifi, Same
<1> QED
  BY <1>1, <1>2, <1>3, NothingNew DEF OInv

\* A new command is newer than every other, and nothing of it is acknowledged.
LEMMA CreateKeepsOrder ==
  ASSUME OInv, NEW cs \in [Cmds -> Command], Calm(cmds, cs), NEW new,
         new.status \in Uncollected, Create(cs, new), UNCHANGED cwmp
  PROVE  Kept
<1> DEFINE n == created + 1
<1>1. DataOK /\ CwmpOK
  BY Split DEF OInv
<1>2. n \in Cmds /\ cmds[n] = Blank /\ \A c \in Cmds : c > n => cmds[c] = Blank
  BY <1>1, BoundsAssumption DEF DataOK, Docs, Create, Cmds
<1>3. cmds'[n] = new /\ \A c \in Cmds \ {n} : cmds'[c] = cs[c]
  BY <1>2 DEF Create
<1>4. /\ ~(picked.mode \in {"verify", "write"} /\ picked.cmd = n)
      /\ picked.writes[n] = "none"
      /\ new.status \notin Covered
  BY <1>1, <1>2 DEF CwmpOK, PickedExists, PlansExist, Blank, Uncollected, Covered, Verdicts
<1> HIDE DEF n
<1>5. \A d \in Cmds \ {n} : Outstanding(d)' /\ cmds'[d].kind \in WifiKinds
                            => Outstanding(d) /\ cmds[d].kind \in WifiKinds
  BY <1>3 DEF Outstanding, Calm, cwmp
<1>6. WifiInOrder'
  <2>1. SUFFICES ASSUME NEW c \in Cmds, NEW d \in Cmds, cmds'[c].kind \in WifiKinds,
                        cmds'[d].kind \in WifiKinds, d < c, Acknowledged(c)', Outstanding(d)'
                 PROVE  FALSE
    BY DEF WifiInOrder
  <2>2. c # n /\ cmds[c].kind \in WifiKinds /\ Acknowledged(c)
    BY <1>3, <1>4, <2>1, CoveredApart DEF Acknowledged, Calm, cwmp
  <2>3. d # n
    BY <1>2, <2>1, <2>2 DEF Blank, WifiKinds
  <2> QED
    BY <1>5, <2>1, <2>2, <2>3 DEF OInv, WifiInOrder
<1>7. cmds[n].kind = "NONE"
  BY <1>2 DEF Blank
<1>8. \A c \in Cmds \ {n} : cmds'[c].kind = cmds[c].kind /\ cmds'[c].val = cmds[c].val
  BY <1>3 DEF Calm
<1>9. PlansForWifi'
  BY <1>1, <1>4, <1>8 DEF OInv, PlansForWifi, CwmpOK, PickedExists, cwmp
<1> QED
  BY <1>3, <1>5, <1>6, <1>7, <1>8, <1>9 DEF Kept, WifiKinds

-------------------------------------------------------------------------------
(* The operators and the environment.                                          *)

\* Operators cancel what is open, time it out, or add what is newer.
LEMMA OperatorOrder ==
  ASSUME OInv, Operator
  PROVE  Kept
<1>1. cmds \in [Cmds -> Command] /\ WifiInOrder
  BY Split DEF OInv, DataOK
<1>2. \A k, v : New(k, "pending", v).status = "pending" /\ New(k, "queued", v).status = "queued"
  BY DEF New, Blank
<1>3. \A needs, object : NewWan(needs, object).status = "queued"
  BY DEF NewWan, New, Blank
<1>4. \A action, sts : /\ Calm(cmds, Superseded(cmds, action, sts))
                       /\ Superseded(cmds, action, sts) \in [Cmds -> Command]
  BY <1>1, MarkCalm DEF Superseded, Statuses
<1>5. Calm(cmds, cmds)
  BY CalmReflexive
<1>6. ASSUME NEW k \in Requests, SaveWifi(k) \/ DeviceAction(k) PROVE Kept
  BY <1>1, <1>2, <1>4, <1>6, CreateKeepsOrder DEF SaveWifi, DeviceAction, Uncollected
<1>7. ASSUME NEW needs \in BOOLEAN, AddWan(needs) \/ EditWan(needs) PROVE Kept
  BY <1>1, <1>3, <1>4, <1>5, <1>7, CreateKeepsOrder DEF AddWan, EditWan, Uncollected
<1>8. ASSUME RollbackWan \/ DeleteWan \/ Summon \/ SummonAll \/ SyncLive \/ RefreshClients
      PROVE  Kept
  <2> "pending" \in Uncollected /\ "queued" \in Uncollected
    BY DEF Uncollected
  <2>1. CASE RollbackWan \/ SummonAll \/ SyncLive \/ RefreshClients
    BY <1>1, <1>2, <1>3, <1>5, <2>1, CreateKeepsOrder
    DEF RollbackWan, SummonAll, SyncLive, RefreshClients
  <2>2. CASE DeleteWan \/ Summon
    BY <1>1, <1>2, <1>4, <2>2, CreateKeepsOrder DEF DeleteWan, Summon
  <2> QED
    BY <1>8, <2>1, <2>2
<1>9. ASSUME NEW k \in Requests, NEW named \in BOOLEAN, QueueCommand(k, named) \/ BotCommand(k)
      PROVE  Kept
  <2> DEFINE new(st, b) == [New(k, st, Payload(k)) EXCEPT !.params = b]
  <2>1. QueueCommand(k, named) => \E b : Create(cmds, new("pending", b))
    BY Zenon DEF QueueCommand
  <2>2. BotCommand(k) => \E b : Create(cmds, new("queued", b))
    BY Zenon DEF BotCommand
  <2>3. \A b : new("pending", b).status = "pending" /\ new("queued", b).status = "queued"
    BY DEF New, Blank
  <2>4. UNCHANGED cwmp
    BY <1>9 DEF QueueCommand, BotCommand
  <2> HIDE DEF new
  <2>5. PICK st \in Uncollected : \E b : Create(cmds, new(st, b)) /\ new(st, b).status = st
    BY <1>9, <2>1, <2>2, <2>3 DEF Uncollected
  <2>6. PICK b : Create(cmds, new(st, b)) /\ new(st, b).status = st
    BY <2>5
  <2> QED
    BY <1>1, <1>5, <2>4, <2>6, CreateKeepsOrder
<1>10. ASSUME Workspace PROVE Kept
  <2> DEFINE await  == {c \in Stale : IsWan(cmds[c].kind) /\ cmds[c].rid}
             waited == {c \in WithStatus(cmds, Uncollected) : cmds[c].qAge > TimeoutAge}
             polls  == {c \in WithStatus(cmds, {"verifying"}) : cmds[c].kind \in {"SUMMON", "SYNC"}}
             late   == (Stale \ await) \cup waited
             cs1    == Mark(cmds, await, "applied_pending_verification")
             cs2    == Mark(cs1, late, "timed_out")
  <2>1. \A c \in await : cmds[c].kind \notin WifiKinds
    BY DEF IsWan, WifiKinds
  <2>2. \A c \in polls : c \in Cmds /\ cmds[c].kind \notin WifiKinds
    BY DEF WithStatus, WifiKinds
  <2>3. cmds' = Mark(cs2, polls, "success") /\ UNCHANGED cwmp
    BY <1>10 DEF Workspace
  <2> HIDE DEF await, late, polls
  <2>4. Calm(cmds, cs1) /\ cs1 \in [Cmds -> Command]
    BY <1>1, <2>1, MarkCalm DEF Statuses
  <2> HIDE DEF cs1
  <2>5. Calm(cs1, cs2) /\ cs2 \in [Cmds -> Command]
    BY <2>4, MarkCalm DEF Statuses
  <2> HIDE DEF cs2
  <2>6. \A c \in polls : c \in Cmds => cs2[c].kind \notin WifiKinds
    BY <2>2, <2>4, <2>5 DEF Calm
  <2>7. Calm(cs2, cmds')
    BY <2>3, <2>5, <2>6, MarkCalm DEF Statuses
  <2> QED
    BY <1>1, <2>3, <2>4, <2>5, <2>7, CalmTransitive, CalmKeeps DEF cwmp
<1>11. ASSUME NEW c \in Cmds, Cancel(c) \/ RetryRefused(c) PROVE Kept
  <2>1. Calm(cmds, cmds') /\ UNCHANGED cwmp
    BY <1>1, <1>4, <1>11, MarkCalm DEF Cancel, RetryRefused, Statuses
  <2> QED
    BY <1>1, <2>1, CalmKeeps DEF cwmp
<1>12. ASSUME NEW c \in Cmds, Retry(c) PROVE Kept
  <2> DEFINE old    == cmds[c]
             new(b) == [New(old.kind, "pending", old.val) EXCEPT
                          !.params = b, !.needs = old.needs, !.tried = old.tried,
                          !.object = old.object]
  <2>1. PICK b : Create(Superseded(cmds, Action(old.kind), Uncollected), new(b))
    BY <1>12, Zenon DEF Retry
  <2>2. new(b).status = "pending"
    BY DEF New, Blank
  <2> HIDE DEF new
  <2> QED
    BY <1>1, <1>4, <1>12, <2>1, <2>2, CreateKeepsOrder DEF Retry, Uncollected
<1>13. ASSUME NEW c \in Cmds, Regenerate(c) PROVE Kept
  <2>1. Calm(cmds, Mark(cmds, {c}, "canceled")) /\ Mark(cmds, {c}, "canceled") \in [Cmds -> Command]
    BY <1>1, MarkCalm DEF Statuses
  <2> QED
    BY <1>2, <1>13, <2>1, CreateKeepsOrder DEF Regenerate, Uncollected
<1> QED
  BY <1>6, <1>7, <1>8, <1>9, <1>10, <1>11, <1>12, <1>13 DEF Operator

\* Neither the clock nor the connection changes what a command is.
LEMMA EnvironmentOrder ==
  ASSUME OInv, Environment
  PROVE  Kept
<1>1. cmds \in [Cmds -> Command] /\ WifiInOrder
  BY Split DEF OInv, DataOK
<1>2. Calm(cmds, cmds')
  <2>1. CASE Inform \/ SessionLost \/ AnswerUnmatched \/ ManualSlot
    BY <2>1, CalmReflexive DEF Inform, SessionLost, AnswerUnmatched, ManualSlot
  <2>2. CASE Tick
    <3> DEFINE f(x) == [x EXCEPT !.qAge = Older(@), !.sAge = Older(@)]
    <3>1. \A x \in Command : f(x).kind = x.kind /\ f(x).status = x.status /\ f(x).val = x.val
      BY DEF Command
    <3>2. cmds' = [c \in Cmds |-> IF c <= created THEN f(cmds[c]) ELSE cmds[c]]
      BY <2>2 DEF Tick
    <3> HIDE DEF f
    <3> QED
      BY <1>1, <3>1, <3>2 DEF Calm
  <2> QED
    BY <2>1, <2>2 DEF Environment
<1>3. picked' \in {picked, Idle} /\ rpc' \in {rpc, NoRpc}
  BY DEF Environment, Inform, SessionLost, AnswerUnmatched, ManualSlot, Tick, cwmp
<1> QED
  BY <1>1, <1>2, <1>3, CalmKeeps DEF NoRpc

-------------------------------------------------------------------------------
(* Polls.                                                                      *)

\* What a poll takes up is open, or acknowledged, already.
LEMMA PollReadOrder ==
  ASSUME OInv, PollRead
  PROVE  Kept
<1>1. /\ cmds' = cmds /\ rpc' = rpc /\ Same(cmds, cmds')
      /\ WifiInOrder /\ WaitingCanActivate
  BY DEF PollRead, OInv, IInv, Same
<1>a. ASSUME picked'.mode # "write", \A c \in Cmds : picked'.writes[c] = "none",
             \A c \in Cmds : cmds[c].kind \in WifiKinds =>
               /\ picked'.mode = "dispatch" /\ picked'.cmd = c => cmds[c].status \in Open
               /\ picked'.mode = "verify" /\ picked'.cmd = c => cmds[c].status \in Covered
      PROVE  Kept
  <2>1. PlansForWifi'
    BY <1>1, <1>a, PlansStay
  <2>2. \A c \in Cmds : cmds'[c].kind \in WifiKinds =>
          /\ Acknowledged(c)' => Acknowledged(c)
          /\ Outstanding(c)' => Outstanding(c)
    BY <1>1, <1>a, CoveredApart DEF Acknowledged, Outstanding
  <2> QED
    BY <1>1, <2>1, <2>2, NothingNew
<1>2. ASSUME NEW c \in Cmds, picked' = ForDispatch(c),
             cmds[c].kind \in WifiKinds => cmds[c].status \in Open
      PROVE  Kept
  BY <1>2, <1>a, ReadTyped
<1>3. CASE PickVerification
  <2>1. PICK c \in Cmds :
          /\ cmds[c].status \in Covered
          /\ picked' = [Idle EXCEPT !.mode = "verify", !.cmd = c, !.same = cmds[c].status = "verifying"]
    BY <1>3 DEF PickVerification, IsNewest, Awaiting, WithStatus, Covered
  <2>2. /\ picked'.mode = "verify" /\ picked'.cmd = c
        /\ \A d \in Cmds : picked'.writes[d] = "none"
    BY <2>1, ReadTyped
  <2> QED
    BY <1>a, <2>1, <2>2
<1>4. CASE PickOldest
  <2>1. PICK c \in Cmds : c \in Ready /\ picked' = ForDispatch(c)
    BY <1>4 DEF PickOldest, IsOldest
  <2>2. cmds[c].kind \in WifiKinds => cmds[c].status \in Open
    BY <1>1, <2>1 DEF Ready, WithStatus, WaitingCanActivate, IsWan, WifiKinds, Open
  <2> QED
    BY <1>2, <2>1, <2>2
<1>5. CASE PickNewest
  <2>1. PICK c \in Cmds : c \in Sendable /\ picked' = ForDispatch(c)
    BY <1>5 DEF PickNewest, IsNewest
  <2> QED
    BY <1>2, <2>1 DEF Sendable, WithStatus, Open
<1>6. CASE PickTelemetry
  <2>1. picked'.mode = "telemetry" /\ picked'.writes = NoWrites
    BY <1>6 DEF PickTelemetry, Idle
  <2> QED
    BY <1>a, <2>1, IdleTyped
<1> QED
  BY <1>3, <1>4, <1>5, <1>6 DEF PollRead

\* Sending the command a poll had read for dispatch, whatever becomes of it.
LEMMA OwnCommandOrder ==
  ASSUME OInv, NEW c \in Cmds, picked.mode = "dispatch", picked.cmd = c, picked' = Idle,
         \A d \in Cmds \ {c} : cmds'[d] = cmds[d],
         cmds'[c].kind = cmds[c].kind, cmds'[c].val = cmds[c].val,
         cmds'[c].status \in {cmds[c].status, "sending", "failed", "expired"},
         rpc'.type = "SPV" => rpc'.cmd = c \/ rpc' = rpc
  PROVE  Kept
<1>1. \A d \in Cmds : (Acknowledged(d)' => Acknowledged(d)) /\ (Outstanding(d)' => Outstanding(d))
  BY IdleTyped, CoveredApart DEF Acknowledged, Outstanding, Covered, Verdicts
<1>2. Same(cmds, cmds')
  BY DEF Same
<1>3. PlansForWifi'
  BY <1>2, PlansStay, IdleTyped
<1> QED
  BY <1>1, <1>2, <1>3, NothingNew DEF OInv

\* The status and the kind of a command that is dispatched.
LEMMA DispatchedStatus ==
  ASSUME NEW cs \in [Cmds -> Command], NEW c \in Cmds, cs[c].status # "none"
  PROVE  /\ Dispatched(cs, c) \in [Cmds -> Command]
         /\ Dispatched(cs, c)[c].kind = cs[c].kind /\ Dispatched(cs, c)[c].val = cs[c].val
         /\ Dispatched(cs, c)[c].status \in {cs[c].status, "sending"}
BY DispatchedRevises DEF Revised

\* A poll sends what it had read, and nothing else of the device changes.
LEMMA PollSendOrder ==
  ASSUME OInv, PollSend
  PROVE  Kept
<1>1. cmds \in [Cmds -> Command] /\ PickedExists /\ RestIsAcked /\ WifiInOrder
  BY Split DEF OInv, DataOK, CwmpOK
<1>2. \A stage, lastQ, r : Answer(stage, lastQ, r) => picked' = Idle /\ rpc' \in {r, rpc}
  BY DEF Answer
<1>3. NoContent => picked' = Idle /\ rpc'.type = "none"
  BY DEF NoContent, NoRpc
<1>4. CASE SendVerification
  <2> DEFINE c == picked.cmd
  <2>1. c \in Cmds /\ picked.mode = "verify" /\ rpc = NoRpc
    BY <1>1, <1>4, IdleTyped DEF SendVerification, PickedExists, RestIsAcked
  <2>2. picked' = Idle /\ rpc'.type # "SPV"
    BY <1>2, <1>4, <2>1 DEF SendVerification, NoRpc
  <2>3. \A d \in Cmds : /\ \/ cmds'[d].status = cmds[d].status
                           \/ d = c /\ cmds'[d].status = "verifying"
                        /\ cmds'[d].kind = cmds[d].kind /\ cmds'[d].val = cmds[d].val
    <3>1. cmds' \in {cmds, Mark(cmds, {c}, "verifying")}
      BY <1>4 DEF SendVerification, Saved
    <3>2. "verifying" \in Statuses
      BY DEF Statuses
    <3> QED
      BY <1>1, <3>1, <3>2, MarkFields
  <2>4. \A d \in Cmds : /\ Acknowledged(d)' => Acknowledged(d)
                        /\ Outstanding(d)' => Outstanding(d)
    BY <2>1, <2>2, <2>3, IdleTyped, CoveredApart
       DEF Acknowledged, Outstanding, Open, Uncollected
  <2>5. Same(cmds, cmds')
    BY <2>3 DEF Same
  <2>6. PlansForWifi'
    BY <2>2, <2>5, PlansStay, IdleTyped
  <2> QED
    BY <1>1, <2>4, <2>5, <2>6, NothingNew
<1>5. CASE DropStale
  <2> DEFINE c == picked.cmd
  <2>1. c \in Cmds /\ picked.mode = "dispatch"
    BY <1>1, <1>5 DEF DropStale, PickedExists
  <2>2. /\ \A d \in Cmds \ {c} : cmds'[d] = cmds[d]
        /\ cmds'[c].kind = cmds[c].kind /\ cmds'[c].val = cmds[c].val
        /\ cmds'[c].status = "expired"
    BY <1>1, <1>5, <2>1, MarkFields DEF DropStale, Statuses
  <2> QED
    BY <1>3, <1>5, <2>1, <2>2, OwnCommandOrder DEF DropStale
<1>6. CASE SendBaseline
  <2>1. cmds' = cmds /\ picked' = Idle /\ (rpc'.type = "SPV" => rpc' = rpc)
    BY <1>2, <1>6 DEF SendBaseline, Baseline
  <2> QED
    BY <1>1, <2>1, CalmReflexive, CalmKeeps
<1>7. ASSUME NEW c \in Cmds, Dispatching(c)
      PROVE  /\ picked.mode = "dispatch" /\ picked.cmd = c /\ cmds[c].status # "none"
             /\ Dispatched(cmds, c) \in [Cmds -> Command]
             /\ Dispatched(cmds, c)[c].kind = cmds[c].kind
             /\ Dispatched(cmds, c)[c].val = cmds[c].val
             /\ Dispatched(cmds, c)[c].status \in {cmds[c].status, "sending"}
             /\ \A d \in Cmds \ {c} : Dispatched(cmds, c)[d] = cmds[d]
  <2>1. picked.mode = "dispatch" /\ picked.cmd = c /\ cmds[c].status # "none"
    BY <1>1, <1>7 DEF Dispatching, PickedExists
  <2> QED
    BY <1>1, <2>1, DispatchedStatus, DispatchedFields
<1>8. ASSUME NEW c \in Cmds, SendBare(c) \/ SendSummon(c) \/ SendDelete(c) PROVE Kept
  <2>1. /\ Dispatching(c) /\ cmds' = Dispatched(cmds, c) /\ picked' = Idle
        /\ rpc'.type = "SPV" => rpc' = rpc
    BY <1>2, <1>8 DEF SendBare, SendSummon, SendDelete, Baseline
  <2> QED
    BY <1>7, <2>1, OwnCommandOrder
<1>9. ASSUME NEW c \in Cmds, SendAddObject(c) PROVE Kept
  <2> DEFINE s    == Dispatched(cmds, c)
             r(o) == [s[c] EXCEPT !.tried = TRUE, !.object = o]
  <2>1. Dispatching(c) /\ picked' = Idle /\ (rpc'.type = "SPV" => rpc' = rpc)
    BY <1>2, <1>9 DEF SendAddObject
  <2>2. PICK o : cmds' = [s EXCEPT ![c].tried = TRUE, ![c].object = o]
    BY <1>9 DEF SendAddObject
  <2>3. r(o).kind = s[c].kind /\ r(o).val = s[c].val /\ r(o).status = s[c].status
    BY <1>7, <2>1 DEF Command
  <2>4. cmds' = [s EXCEPT ![c] = r(o)]
    BY <1>7, <2>1, <2>2
  <2> HIDE DEF r
  <2>5. cmds'[c] = r(o) /\ \A d \in Cmds \ {c} : cmds'[d] = s[d]
    BY <1>7, <2>1, <2>4
  <2> QED
    BY <1>7, <2>1, <2>3, <2>5, OwnCommandOrder
<1>10. ASSUME NEW c \in Cmds, RejectParameters(c) PROVE Kept
  <2> DEFINE s == Dispatched(cmds, c)
             r == [s[c] EXCEPT !.status = "failed"]
  <2>1. Dispatching(c) /\ picked' = Idle /\ rpc'.type = "none"
    BY <1>3, <1>10 DEF RejectParameters
  <2>2. r.kind = s[c].kind /\ r.val = s[c].val /\ r.status = "failed"
    BY <1>7, <2>1 DEF Command
  <2>3. cmds' = [s EXCEPT ![c] = r]
    BY <1>7, <1>10, <2>1 DEF RejectParameters
  <2> HIDE DEF r
  <2>4. cmds'[c] = r /\ \A d \in Cmds \ {c} : cmds'[d] = s[d]
    BY <1>7, <2>1, <2>3
  <2> QED
    BY <1>7, <2>1, <2>2, <2>4, OwnCommandOrder
<1>11. ASSUME NEW c \in Cmds, SendParameters(c) PROVE Kept
  <2> DEFINE s == Dispatched(cmds, c)
  <2>1. Dispatching(c) /\ picked' = Idle /\ (rpc'.type = "SPV" => rpc'.cmd = c \/ rpc' = rpc)
    BY <1>2, <1>11 DEF SendParameters
  <2>2. cmds' = Recorded(s, c)
    BY <1>11 DEF SendParameters
  <2>3. /\ cmds'[c].kind = s[c].kind /\ cmds'[c].val = s[c].val
        /\ cmds'[c].status = s[c].status
        /\ \A d \in Cmds \ {c} : cmds'[d] = s[d]
    BY <1>7, <2>1, <2>2, RecordedFields
  <2> HIDE DEF s
  <2> QED
    BY <1>7, <2>1, <2>3, OwnCommandOrder DEF s
<1> QED
  BY <1>4, <1>5, <1>6, <1>8, <1>9, <1>10, <1>11 DEF PollSend

-------------------------------------------------------------------------------
(* Answers and faults, first half: what a handler finds.                       *)

\* The handler of an answer or a fault that looks for commands to activate finds WAN
\* commands: no other waits for a slot.
LEMMA FindWaitingOrder ==
  ASSUME OInv, NEW R \in SUBSET Paths, FindWaiting(R)
  PROVE  Kept
<1> DEFINE w == Planned(cmds, Waiting, "queued")
<1>1. \A c \in Waiting : cmds[c].kind \notin WifiKinds
  BY DEF OInv, IInv, WaitingCanActivate, Waiting, IsWan, WifiKinds
<1>2. /\ w \in [Cmds -> Statuses]
      /\ \A c \in Cmds : w[c] # "none" => c \in Waiting
  <2>1. "queued" \in Statuses
    BY DEF Statuses
  <2> QED
    BY <2>1, PlannedTyped
<1>3. /\ cmds' = cmds /\ rpc' = rpc
      /\ picked' = [Idle EXCEPT !.mode = "activate", !.q = R, !.writes = w]
  BY DEF FindWaiting
<1> HIDE DEF w
<1>4. picked'.mode = "activate" /\ picked'.writes = w
  BY <1>2, <1>3, IdleTyped DEF Idle, Pick
<1> QED
  BY <1>1, <1>2, <1>3, <1>4, CalmReflexive, FindsKeeps

\* A handler goes on to write the parameters of a command which is no Wi-Fi command.
LEMMA ToWriteOrder ==
  ASSUME OInv, Calm(cmds, cmds'), NEW c \in Cmds, cmds[c].kind \notin WifiKinds, Await(ToWrite(c))
  PROVE  Kept
<1> DEFINE w == Planned(cmds, {c}, "sending")
<1>1. /\ w \in [Cmds -> Statuses]
      /\ \A d \in Cmds : w[d] # "none" => d = c
  <2>1. "sending" \in Statuses
    BY DEF Statuses
  <2> QED
    BY <2>1, PlannedTyped
<1>2. picked' = [Idle EXCEPT !.mode = "write", !.cmd = c, !.writes = w] /\ rpc' = NoRpc
  BY DEF Await, ToWrite
<1> HIDE DEF w
<1>3. picked'.mode = "write" /\ picked'.cmd = c /\ picked'.writes = w
  BY <1>1, <1>2, IdleTyped DEF Idle, Pick
<1> QED
  BY <1>1, <1>2, <1>3, IdleTyped, FindsKeeps

\* A handler goes on to save st for such a command, and to close the session.
LEMMA ToCloseOrder ==
  ASSUME OInv, cmds' = cmds, NEW c \in Cmds, cmds[c].kind \notin WifiKinds, NEW st \in Statuses,
         Await([Idle EXCEPT !.mode = "close", !.writes = Planned(cmds, {c}, st)])
  PROVE  Kept
<1> DEFINE w == Planned(cmds, {c}, st)
<1>1. /\ w \in [Cmds -> Statuses]
      /\ \A d \in Cmds : w[d] # "none" => d = c
  BY PlannedTyped
<1>2. picked' = [Idle EXCEPT !.mode = "close", !.writes = w] /\ rpc' = NoRpc
  BY DEF Await
<1> HIDE DEF w
<1>3. picked'.mode = "close" /\ picked'.writes = w
  BY <1>1, <1>2, PlanTyped
<1> QED
  BY <1>1, <1>2, <1>3, IdleTyped, CalmReflexive, FindsKeeps

\* After an acknowledgement no command is open, and none is on the way.
LEMMA AllClosed ==
  ASSUME picked'.mode # "dispatch", rpc'.type # "SPV", Same(cmds, cmds'), PlansForWifi',
         \A c \in Cmds : cmds'[c].status \notin Open
  PROVE  Kept /\ \A c \in Cmds : ~Outstanding(c)'
<1>1. \A c \in Cmds : ~Outstanding(c)'
  BY DEF Outstanding
<1> QED
  BY <1>1 DEF Kept, WifiInOrder, Same

\* Going on to read back what was acknowledged opens nothing.
LEMMA VerifyNowOrder ==
  ASSUME NEW cs \in [Cmds -> Command], Same(cmds, cs), NEW flight, VerifyNow(cs, flight),
         \A c \in Cmds : cs[c].status \notin Open
  PROVE  Kept /\ Same(cmds, cmds') /\ \A c \in Cmds : ~Outstanding(c)'
<1> DEFINE targets == {c \in flight : cs[c].target}
           q == UNION {TargetPaths(cs[c].kind) : c \in targets}
           w == Planned(cs, flight, "verifying")
<1>1. cmds' = cs /\ rpc' = NoRpc
  BY DEF VerifyNow, NoContent, Await
<1>2. picked'.mode \notin {"dispatch", "write"} /\ PlansForWifi'
  <2>1. CASE targets = {}
    <3>1. picked' = Idle
      BY <2>1 DEF VerifyNow, NoContent
    <3> QED
      BY <3>1, IdleTyped DEF PlansForWifi
  <2>2. CASE targets # {}
    <3>1. w \in [Cmds -> Statuses] /\ \A c \in Cmds : w[c] \in {"none", "verifying"}
      <4>1. "verifying" \in Statuses
        BY DEF Statuses
      <4> QED
        BY <4>1, PlannedTyped
    <3>2. q \in SUBSET Paths
      BY TargetPathsInPaths
    <3>3. picked' = [Idle EXCEPT !.mode = "recheck", !.q = q, !.writes = w]
      BY <2>2 DEF VerifyNow, Await
    <3> HIDE DEF q, w
    <3>4. picked'.mode = "recheck" /\ picked'.writes = w
      BY <3>1, <3>2, <3>3, IdleTyped DEF Idle, Pick
    <3> QED
      BY <3>1, <3>4 DEF PlansForWifi, Covered
  <2> QED
    BY <2>1, <2>2
<1> QED
  BY <1>1, <1>2, IdleTyped, AllClosed

\* SetParameterValuesResponse covers every command that is open, whichever of
\* them was written.
LEMMA SpvAnswerOrder ==
  ASSUME OInv, NEW status \in {0, 1}, SpvAnswer(status)
  PROVE  Kept /\ Same(cmds, cmds') /\ \A c \in Cmds : ~Outstanding(c)'
<1> DEFINE open   == WithStatus(cmds, {"sending"} \cup Uncollected)
           done   == IF status = 1 THEN "applied_pending_verification" ELSE "success"
           cs1    == Mark(cmds, open, done)
           flight == {c \in Cmds : cs1[c].rid /\ ~IsRead(cs1[c].kind)}
                       \cup Recent(cs1, {"sending", "applied_pending_verification", "success"})
           cs2    == [c \in Cmds |-> IF c \in flight THEN [cs1[c] EXCEPT !.rid = TRUE] ELSE cs1[c]]
           notify == \E c \in flight : IsWan(cs2[c].kind)
                              \/ (cs2[c].target /\ "wan" \in TargetPaths(cs2[c].kind))
<1>1. cmds \in [Cmds -> Command]
  BY Context DEF OInv
<1>2. done \in Statuses /\ done \notin Open
  BY DEF Statuses, Open, Uncollected
<1>3. \A c \in Cmds : c \in open <=> cmds[c].status \in Open
  BY DEF WithStatus, Open
<1> HIDE DEF open, done
<1>4. /\ cs1 \in [Cmds -> Command] /\ Same(cmds, cs1)
      /\ \A c \in Cmds : cs1[c].status \notin Open
  BY <1>1, <1>2, <1>3, MarkFields DEF Same
<1> HIDE DEF cs1, flight
<1> DEFINE f(x) == [x EXCEPT !.rid = TRUE]
<1>5. \A x \in Command : /\ f(x) \in Command /\ f(x).status = x.status
                         /\ f(x).kind = x.kind /\ f(x).val = x.val
  BY DEF Command
<1>a. cs2 = [c \in Cmds |-> IF c \in flight THEN f(cs1[c]) ELSE cs1[c]]
  OBVIOUS
<1> HIDE DEF f, cs2
<1>6. /\ cs2 \in [Cmds -> Command] /\ Same(cmds, cs2)
      /\ \A c \in Cmds : cs2[c].status \notin Open
  BY <1>4, <1>5, <1>a DEF Same
<1> HIDE DEF cs2
<1>7. CASE notify
  <2>1. /\ cmds' = cs2 /\ Same(cmds, cmds') /\ picked' = Idle
        /\ rpc' = [type |-> "SPA", cmd |-> rpc.cmd, q |-> {}]
    BY <1>6, <1>7 DEF SpvAnswer, Answer, open, done, cs1, flight, cs2
  <2>2. rpc'.type # "SPV" /\ picked'.mode # "dispatch" /\ PlansForWifi'
    BY <2>1, IdleTyped DEF PlansForWifi
  <2> QED
    BY <1>6, <2>1, <2>2, AllClosed
<1>8. CASE ~notify
  <2>1. VerifyNow(cs2, flight)
    BY <1>8 DEF SpvAnswer, open, done, cs1, flight, cs2
  <2> QED
    BY <1>6, <2>1, VerifyNowOrder
<1> QED
  BY <1>7, <1>8

\* So does SetParameterAttributesResponse.
LEMMA SpaAnswerOrder ==
  ASSUME OInv, SpaAnswer
  PROVE  Kept
<1> DEFINE open == WithStatus(cmds, {"sending", "applied_pending_verification"} \cup Uncollected)
           cs   == Mark(cmds, open, "success")
<1>1. cmds \in [Cmds -> Command]
  BY Context DEF OInv
<1>2. "success" \in Statuses /\ "success" \notin Open
  BY DEF Statuses, Open, Uncollected
<1>3. \A c \in Cmds : cmds[c].status \in Open => c \in open
  BY DEF WithStatus, Open
<1>4. VerifyNow(cs, Recent(cs, {"success"}))
  BY DEF SpaAnswer
<1> HIDE DEF open
<1>5. /\ cs \in [Cmds -> Command] /\ Same(cmds, cs)
      /\ \A c \in Cmds : cs[c].status \notin Open
  BY <1>1, <1>2, <1>3, MarkFields DEF Same
<1> HIDE DEF cs
<1> QED
  BY <1>4, <1>5, VerifyNowOrder

\* A step that closes the session and leaves the documents alone.
LEMMA QuietOrder ==
  ASSUME OInv, cmds' = cmds, NoContent
  PROVE  Kept
BY CalmReflexive, CalmKeeps, IdleTyped DEF NoContent

\* AddObject concerns WAN commands only.
LEMMA AddObjectOrder ==
  ASSUME OInv, (\E c \in Cmds : AddObjectAnswer(c)) \/ AddObjectLost
  PROVE  Kept
<1>1. cmds \in [Cmds -> Command] /\ rpc \in Rpc
  BY Context DEF OInv
<1>2. \A c \in Cmds : AddObjectOwner(c) => cmds[c].kind \notin WifiKinds
  BY DEF AddObjectOwner, IsNewest, WithStatus, IsWan, WifiKinds
<1>3. ASSUME NEW c \in Cmds, AddObjectAnswer(c) PROVE Kept
  <2>1. ASSUME NEW o, cmds' = [cmds EXCEPT ![c].object = o] PROVE Calm(cmds, cmds')
    <3> DEFINE r == [cmds[c] EXCEPT !.object = o]
    <3>1. r.status = cmds[c].status /\ r.kind = cmds[c].kind /\ r.val = cmds[c].val
      BY <1>1 DEF Command
    <3>2. cmds' = [cmds EXCEPT ![c] = r]
      BY <1>1, <2>1
    <3> HIDE DEF r
    <3>3. cmds'[c] = r /\ \A d \in Cmds \ {c} : cmds'[d] = cmds[d]
      BY <1>1, <3>2
    <3> QED
      BY <3>1, <3>3 DEF Calm
  <2>2. Calm(cmds, cmds') /\ cmds[c].kind \notin WifiKinds
    BY <1>2, <1>3, <2>1, CalmReflexive DEF AddObjectAnswer
  <2>3. CASE cmds[c].object = "parent"
    <3> DEFINE q == [rpc EXCEPT !.cmd = c]
    <3>1. q.type = "ADD"
      BY <1>1, <1>3 DEF Rpc, AddObjectAnswer, Answers
    <3>2. picked' = Idle /\ rpc' = q
      BY <1>3, <2>3 DEF AddObjectAnswer, Answer
    <3> HIDE DEF q
    <3> QED
      BY <2>2, <3>1, <3>2, CalmKeeps
  <2>4. CASE cmds[c].object # "parent"
    <3>1. Await(ToWrite(c))
      BY <1>3, <2>4 DEF AddObjectAnswer
    <3> QED
      BY <2>2, <3>1, ToWriteOrder
  <2> QED
    BY <2>3, <2>4
<1>4. ASSUME AddObjectLost PROVE Kept
  <2>1. cmds' = cmds /\ "failed" \in Statuses
    BY <1>4 DEF AddObjectLost, Statuses
  <2>2. ASSUME NEW c \in Cmds, AddObjectOwner(c),
               Await([Idle EXCEPT !.mode = "close", !.writes = Planned(cmds, {c}, "failed")])
        PROVE  Kept
    BY <1>2, <2>1, <2>2, ToCloseOrder
  <2> QED
    BY <1>4, <2>1, <2>2, QuietOrder DEF AddObjectLost
<1> QED
  BY <1>3, <1>4

\* A read-back judges acknowledged commands.
LEMMA GpvAnswerOrder ==
  ASSUME OInv, NEW R \in SUBSET Paths, GpvAnswer(R)
  PROVE  Kept
<1> DEFINE tree  == Ingested(R)
           wrong == {c \in Judged : \E p \in TargetPaths(cmds[c].kind) :
                        tree[p] # Absent /\ tree[p] # cmds[c].val}
           w     == [c \in Cmds |-> CASE c \in wrong  -> "verification_failed"
                                      [] c \in Judged -> "verified"
                                      [] OTHER        -> "none"]
<1>1. /\ cmds' = cmds /\ rpc' = NoRpc
      /\ picked' = [Idle EXCEPT !.mode = "judge", !.writes = w]
  BY DEF GpvAnswer
<1>2. wrong \subseteq Judged /\ \A c \in Judged : cmds[c].status \in Covered
  BY DEF Judged, WithStatus, Covered
<1> HIDE DEF wrong
<1>3. /\ w \in [Cmds -> Statuses]
      /\ \A c \in Cmds : \/ w[c] = "none"
                         \/ w[c] \in Covered /\ c \in Judged
  BY <1>2 DEF Statuses, Covered, Verdicts
<1> HIDE DEF w
<1>4. picked'.mode = "judge" /\ picked'.writes = w
  BY <1>1, <1>3, PlanTyped
<1> QED
  BY <1>1, <1>2, <1>3, <1>4, IdleTyped, CalmReflexive, FindsKeeps

\* A fault closes what is being sent, or goes on to write the parameters of a WAN command.
LEMMA FaultOrder ==
  ASSUME OInv, NEW code \in FaultCodes,
         \/ AddObjectUnsupported \/ AddObjectRefused(code) \/ TelemetryFault(code)
         \/ DeleteFallback(code) \/ WriteFault(code) \/ OtherFault(code)
  PROVE  Kept
<1>1. cmds \in [Cmds -> Command] /\ Calm(cmds, cmds)
  BY Context, CalmReflexive DEF OInv
<1>2. \A c \in Cmds : AddObjectFaulted(c) => cmds[c].kind \notin WifiKinds
  BY DEF AddObjectFaulted, IsNewest, WithStatus, IsWan, WifiKinds
<1>3. CASE AddObjectUnsupported
  <2>1. ASSUME NEW c \in Cmds, AddObjectFaulted(c),
               Await([Idle EXCEPT !.mode = "close", !.writes = Refused(c)])
        PROVE  Kept
    <3> DEFINE st == IF cmds[c].params THEN "waiting_for_wan_slot" ELSE "failed"
    <3>1. st \in Statuses /\ cmds' = cmds
      BY <1>3 DEF Statuses, AddObjectUnsupported
    <3>2. Await([Idle EXCEPT !.mode = "close", !.writes = Planned(cmds, {c}, st)])
      BY <2>1 DEF Refused
    <3> HIDE DEF st
    <3> QED
      BY <1>2, <2>1, <3>1, <3>2, ToCloseOrder
  <2> QED
    BY <1>3, <2>1, QuietOrder DEF AddObjectUnsupported
<1>4. CASE AddObjectRefused(code)
  BY <1>1, <1>2, <1>4, ToWriteOrder, QuietOrder DEF AddObjectRefused
<1>5. CASE TelemetryFault(code)
  <2>1. cmds' = cmds /\ picked' = Idle /\ rpc'.type # "SPV"
    BY <1>5 DEF TelemetryFault, Answer
  <2> QED
    BY <1>1, <2>1, CalmKeeps
<1>6. CASE OtherFault(code)
  BY <1>6, QuietOrder DEF OtherFault
<1>7. CASE DeleteFallback(code)
  <2>1. PICK c \in Cmds : cmds[c].kind = "DELETE" /\ Await(ToWrite(c)) /\ cmds' = cmds
    BY <1>7 DEF DeleteFallback
  <2>2. cmds[c].kind \notin WifiKinds
    BY <2>1 DEF WifiKinds
  <2> QED
    BY <1>1, <2>1, <2>2, ToWriteOrder
<1>8. CASE WriteFault(code)
  <2> DEFINE f(x) == [x EXCEPT !.status = "failed", !.retryable = @ /\ code # "9005"]
  <2>1. \A x \in Command : f(x).kind = x.kind /\ f(x).val = x.val /\ f(x).status = "failed"
    BY DEF Command
  <2>2. /\ cmds' = [c \in Cmds |-> IF cmds[c].status = "sending" THEN f(cmds[c]) ELSE cmds[c]]
        /\ picked' = Idle /\ rpc' = NoRpc
    BY <1>8 DEF WriteFault, NoContent
  <2> HIDE DEF f
  <2>3. Calm(cmds, cmds')
    BY <1>1, <2>1, <2>2 DEF Calm, Covered, Open, Verdicts, Uncollected
  <2> QED
    BY <2>2, <2>3, IdleTyped, CalmKeeps
<1> QED
  BY <1>3, <1>4, <1>5, <1>6, <1>7, <1>8

-------------------------------------------------------------------------------
(* Answers and faults, second half: what a handler saves.                      *)

\* A save gives Wi-Fi commands the statuses the handler holds, and sends the parameters of
\* none.
LEMMA SaveOrder ==
  ASSUME OInv, picked'.mode \notin {"verify", "dispatch", "write"},
         \A c \in Cmds : picked'.writes[c] = "none",
         NEW cs2, cs2 = Overwritten(cmds, picked.writes), Same(cs2, cmds'),
         \A c \in Cmds : cmds[c].kind \in WifiKinds => cmds'[c].status = cs2[c].status,
         rpc'.type = "SPV" => rpc' = rpc \/ cmds[rpc'.cmd].kind \notin WifiKinds
  PROVE  Kept
<1>1. \A c \in Cmds : /\ cs2[c].status = IF picked.writes[c] = "none" THEN cmds[c].status
                                                                      ELSE picked.writes[c]
                      /\ cs2[c].kind = cmds[c].kind /\ cs2[c].val = cmds[c].val
  BY SavesRevise DEF OInv, Revised
<1>2. Same(cmds, cmds')
  BY <1>1 DEF Same
<1>3. PlansForWifi'
  BY <1>2, PlansStay
<1>4. ASSUME NEW c \in Cmds, cmds'[c].kind \in WifiKinds
      PROVE  /\ Acknowledged(c)' => Acknowledged(c)
             /\ Outstanding(c)' => Outstanding(c)
  <2>1. cmds[c].kind \in WifiKinds /\ picked.writes[c] \in Covered \cup {"none"}
    BY <1>2, <1>4 DEF Same, OInv, PlansForWifi
  <2>2. cmds'[c].status = IF picked.writes[c] = "none" THEN cmds[c].status ELSE picked.writes[c]
    BY <1>1, <2>1
  <2>3. rpc'.type = "SPV" /\ rpc'.cmd = c => rpc' = rpc
    BY <2>1
  <2> QED
    BY <2>1, <2>2, <2>3, CoveredApart DEF Acknowledged, Outstanding
<1> QED
  BY <1>2, <1>3, <1>4, NothingNew DEF OInv

\* Whatever the commands have become, a handler reopens no Wi-Fi command.
LEMMA SavesOrder ==
  ASSUME OInv, SaveActivated \/ SaveAnswer
  PROVE  Kept
<1> DEFINE cs2 == Overwritten(cmds, picked.writes)
<1>1. /\ cs2 \in [Cmds -> Command] /\ picked \in Pick /\ Same(cs2, cs2)
      /\ \A c \in Cmds : cs2[c].kind = cmds[c].kind
      /\ picked.mode = "write" => picked.cmd \in Cmds /\ cmds[picked.cmd].kind \notin WifiKinds
  BY SavesRevise, Context DEF OInv, PlansForWifi, Revised, CwmpOK, PickedExists, Same
<1>2. Idle.mode \notin {"verify", "dispatch", "write"} /\ \A c \in Cmds : Idle.writes[c] = "none"
  BY IdleTyped
<1>3. /\ \A stage, q, r : Answer(stage, q, r) => picked' = Idle /\ rpc' = r
      /\ NoContent => picked' = Idle /\ rpc'.type = "none"
  BY IdleTyped DEF Answer, NoContent
<1> HIDE DEF cs2
<1>4. CASE SaveActivated
  <2>1. cmds' = cs2 /\ picked'.mode = "activated" /\ picked'.writes = NoWrites /\ rpc' = rpc
    BY <1>1, <1>4 DEF SaveActivated, Pick, cs2
  <2> QED
    BY <1>1, <2>1, IdleTyped, SaveOrder DEF cs2
<1>5. CASE SaveWrite
  <2> DEFINE c == picked.cmd
  <2>1. /\ cmds' = Recorded(cs2, c) /\ picked' = Idle /\ picked.mode = "write" /\ c \in Cmds
        /\ rpc' = [type |-> "SPV", cmd |-> c, q |-> {}] /\ cmds[c].kind \notin WifiKinds
    BY <1>1, <1>3, <1>5 DEF SaveWrite, cs2
  <2>2. /\ cmds'[c].kind = cs2[c].kind /\ cmds'[c].val = cs2[c].val /\ cmds'[c].status = cs2[c].status
        /\ \A d \in Cmds \ {c} : cmds'[d] = cs2[d]
    BY <1>1, <2>1, RecordedFields
  <2>3. Same(cs2, cmds') /\ \A d \in Cmds : cmds'[d].status = cs2[d].status
    BY <2>2 DEF Same
  <2> QED
    BY <1>2, <2>1, <2>3, SaveOrder DEF cs2
<1>6. CASE SaveRecheck
  <2>1. cmds' = cs2 /\ picked' = Idle /\ rpc'.type # "SPV"
    BY <1>3, <1>6 DEF SaveRecheck, cs2
  <2> QED
    BY <1>1, <1>2, <2>1, SaveOrder DEF cs2
<1>7. CASE SaveAndClose
  <2>1. cmds' = cs2 /\ picked' = Idle /\ rpc'.type # "SPV"
    BY <1>3, <1>7 DEF SaveAndClose, cs2
  <2> QED
    BY <1>1, <1>2, <2>1, SaveOrder DEF cs2
<1>8. CASE SaveVerdicts
  <2> DEFINE polls == {c \in WithStatus(cs2, {"sending", "verifying"} \cup Uncollected) :
                         cs2[c].kind = "SUMMON"}
  <2>1. cmds' = Mark(cs2, polls, "success") /\ picked' = Idle /\ rpc'.type # "SPV"
    BY <1>3, <1>8 DEF SaveVerdicts, cs2
  <2>2. \A c \in polls : cs2[c].kind \notin WifiKinds
    BY DEF WifiKinds
  <2> HIDE DEF polls
  <2>3. \A c \in Cmds : /\ cmds'[c].kind = cs2[c].kind /\ cmds'[c].val = cs2[c].val
                        /\ c \notin polls => cmds'[c].status = cs2[c].status
    BY <1>1, <2>1, MarkFields DEF Statuses
  <2>4. /\ Same(cs2, cmds')
        /\ \A c \in Cmds : cmds[c].kind \in WifiKinds => cmds'[c].status = cs2[c].status
    BY <1>1, <2>2, <2>3 DEF Same
  <2> QED
    BY <1>2, <2>1, <2>4, SaveOrder DEF cs2
<1> QED
  BY <1>4, <1>5, <1>6, <1>7, <1>8 DEF SaveAnswer

-------------------------------------------------------------------------------
(* The theorems.                                                               *)

\* Every step keeps the order and the requests.
LEMMA NextOrder ==
  ASSUME OInv, Next
  PROVE  Kept
<1>1. CASE Operator
  BY <1>1, OperatorOrder
<1>2. CASE Environment
  BY <1>2, EnvironmentOrder
<1>3. CASE Cwmp
  <2>1. CASE PollRead \/ PollSend
    BY <2>1, PollReadOrder, PollSendOrder
  <2>2. ASSUME NEW status \in {0, 1}, SpvAnswer(status) PROVE Kept
    BY <2>2, SpvAnswerOrder
  <2>3. CASE SpaAnswer
    BY <2>3, SpaAnswerOrder
  <2>4. CASE AddObjectLost \/ \E c \in Cmds : AddObjectAnswer(c)
    BY <2>4, AddObjectOrder
  <2>5. CASE UnroutedAnswer \/ GpnAnswer
    <3>1. cmds' = cmds /\ picked' \in {picked, Idle} /\ rpc'.type # "SPV"
      BY <2>5, IdleTyped DEF UnroutedAnswer, GpnAnswer, Answer
    <3> QED
      BY <3>1, CalmReflexive, CalmKeeps
  <2>6. ASSUME NEW R \in SUBSET Paths, FindWaiting(R) \/ GpvAnswer(R) PROVE Kept
    BY <2>6, FindWaitingOrder, GpvAnswerOrder
  <2>7. CASE AddObjectUnsupported
    BY <2>7, FaultOrder DEF FaultCodes
  <2>8. ASSUME NEW code \in FaultCodes,
               \/ AddObjectRefused(code) \/ TelemetryFault(code) \/ DeleteFallback(code)
               \/ WriteFault(code) \/ OtherFault(code)
        PROVE  Kept
    BY <2>8, FaultOrder
  <2>9. CASE SaveActivated \/ SaveAnswer
    BY <2>9, SavesOrder
  <2> QED
    BY <1>3, <2>1, <2>2, <2>3, <2>4, <2>5, <2>6, <2>7, <2>8, <2>9 DEF Cwmp
<1> QED
  BY <1>1, <1>2, <1>3 DEF Next

\* The invariants hold in every reachable state.
LEMMA OInvariance == Spec => []OInv
<1>1. Init => WifiInOrder /\ PlansForWifi
  BY IdleTyped DEF Init, WifiInOrder, PlansForWifi, WifiKinds, Blank
<1>2. OInv /\ [Next]_vars => WifiInOrder' /\ PlansForWifi'
  <2>1. ASSUME OInv, UNCHANGED vars PROVE WifiInOrder' /\ PlansForWifi'
    BY <2>1 DEF OInv, WifiInOrder, PlansForWifi, Acknowledged, Outstanding, vars
  <2> QED
    BY <2>1, NextOrder DEF Kept
<1>3. OInv <=> IInv /\ WifiInOrder /\ PlansForWifi
  BY DEF OInv
<1> QED
  BY <1>1, <1>2, <1>3, Invariance, PTL DEF Spec

\* Once a Wi-Fi command has been acknowledged, or a handler is about to save that it is,
\* no older Wi-Fi command is open, held by a poll for dispatch, or on its way to the CPE
\* (checkPendingRpcOrPoll, handleSetParameterValuesResponse).
THEOREM WifiStaysInOrder == Spec => []WifiInOrder
<1>1. OInv => WifiInOrder
  BY DEF OInv
<1> QED
  BY <1>1, OInvariance, PTL

\* A Wi-Fi name that has been read back as verified is not overwritten by a write of
\* an older command, however many commands there are.
THEOREM VerifiedIsNotOverwritten == Spec => VerifiedNotOverwritten
<1>1. IInv /\ WifiInOrder =>
        [rpc.type = "SPV" /\ cpe' # cpe /\ cpe' = Performed =>
           \A c \in WithStatus(cmds, {"verified"}) :
             cmds[c].kind = "WIFI" /\ cmds[rpc.cmd].kind = "WIFI" => c <= rpc.cmd]_vars
  <2> SUFFICES ASSUME IInv, WifiInOrder, rpc.type = "SPV",
                      NEW c \in WithStatus(cmds, {"verified"}),
                      cmds[c].kind = "WIFI", cmds[rpc.cmd].kind = "WIFI"
               PROVE  c <= rpc.cmd
    OBVIOUS
  <2>1. c \in Cmds /\ rpc.cmd \in Cmds
    BY DEF IInv, SpvExists, WithStatus
  <2>2. Acknowledged(c) /\ Outstanding(rpc.cmd)
    BY DEF Acknowledged, Outstanding, WithStatus, Covered, Verdicts
  <2>3. ~(rpc.cmd < c)
    BY <2>1, <2>2 DEF WifiInOrder, WifiKinds
  <2> QED
    BY <2>1, <2>3 DEF Cmds
<1> QED
  BY <1>1, WifiStaysInOrder, Invariance, PTL DEF VerifiedNotOverwritten

-------------------------------------------------------------------------------
(* The engine implements WifiName.                                             *)

\* A command concerns the name when its write goes to it.
LEMMA NamePath == \A k : "ssid" \in TargetPaths(k) <=> k = "WIFI"
BY DEF TargetPaths

\* A step creates at most one document.
LEMMA CreatesOne ==
  ASSUME Next
  PROVE  created' \in {created, created + 1}
<1>1. \A cs, new : Create(cs, new) => created' = created + 1
  BY DEF Create
<1>2. CASE Operator
  BY <1>1, <1>2
  DEF Operator, SaveWifi, DeviceAction, BotCommand, QueueCommand, AddWan, EditWan, RollbackWan,
      DeleteWan, Summon, SummonAll, SyncLive, RefreshClients, Workspace, Cancel, Retry,
      RetryRefused, Regenerate
<1>3. CASE Cwmp
  BY <1>3
  DEF Cwmp, PollRead, PollSend, SendVerification, DropStale, SendBaseline, SendBare, SendSummon,
      SendDelete, SendAddObject, RejectParameters, SendParameters, SpvAnswer, SpaAnswer,
      AddObjectLost, UnroutedAnswer, GpnAnswer, AddObjectAnswer, GpvAnswer,
      AddObjectUnsupported, AddObjectRefused, TelemetryFault, DeleteFallback, WriteFault,
      OtherFault, FindWaiting, SaveActivated, SaveAnswer, SaveWrite, SaveRecheck, SaveAndClose,
      SaveVerdicts
<1>4. CASE Environment
  BY <1>4 DEF Environment, Inform, SessionLost, AnswerUnmatched, ManualSlot, Tick
<1> QED
  BY <1>2, <1>3, <1>4 DEF Next

\* Three ways to deal with the name: the CPE takes the one a command asks for, goes
\* back to the factory's, or keeps what it has.
Takes ==
  /\ rpc.type = "SPV" /\ IsName(rpc.cmd) /\ cpe'["ssid"] = cmds[rpc.cmd].val
  /\ Same(cmds, cmds')
  /\ \/ \A c \in Cmds : ~Outstanding(c)'
     \/ cmds' = cmds /\ picked' = picked /\ rpc' = NoRpc

Resets ==
  /\ rpc.type = "RESET" /\ cpe'["ssid"] = Factory
  /\ cmds' = cmds /\ picked' = picked /\ rpc' = NoRpc

Keeps == cpe'["ssid"] = cpe["ssid"]

\* The CPE performing an RPC.
LEMMA PerformedName ==
  ASSUME IInv, cpe' = Performed
  PROVE  \/ Keeps
         \/ rpc.type = "RESET" /\ cpe'["ssid"] = Factory
         \/ rpc.type = "SPV" /\ IsName(rpc.cmd) /\ cpe'["ssid"] = cmds[rpc.cmd].val
<1>1. "ssid" \in Paths /\ cpe \in [Paths -> Values \cup {Absent}]
  BY DEF IInv, TypeOK, Paths
<1>2. CASE rpc.type = "SPV"
  BY <1>1, <1>2, NamePath DEF Performed, Keeps, IsName
<1>3. CASE rpc.type = "RESET"
  BY <1>1, <1>3 DEF Performed
<1>4. CASE rpc.type \notin {"SPV", "RESET"}
  BY <1>1, <1>4 DEF Performed, Keeps
<1> QED
  BY <1>2, <1>3, <1>4

\* Every step does one of the three.
LEMMA NameSteps ==
  ASSUME OInv, Next
  PROVE  Takes \/ Resets \/ Keeps
<1>1. IInv
  BY DEF OInv
<1>2. CASE Operator
  BY <1>2
  DEF Operator, SaveWifi, DeviceAction, BotCommand, QueueCommand, AddWan, EditWan, RollbackWan,
      DeleteWan, Summon, SummonAll, SyncLive, RefreshClients, Workspace, Cancel, Retry,
      RetryRefused, Regenerate, device, Keeps
<1>3. CASE PollRead \/ PollSend
  BY <1>3
  DEF PollRead, PollSend, SendVerification, DropStale, SendBaseline, SendBare, SendSummon,
      SendDelete, SendAddObject, RejectParameters, SendParameters, device, Keeps
<1>4. ASSUME NEW status \in {0, 1}, SpvAnswer(status) PROVE Takes \/ Keeps
  <2>1. cpe' = Performed /\ rpc.type = "SPV"
    BY <1>4 DEF SpvAnswer, Answers
  <2> QED
    BY <1>1, <1>4, <2>1, PerformedName, SpvAnswerOrder DEF Takes
<1>5. CASE UnroutedAnswer
  <2>1. /\ cpe' = Performed /\ rpc.type # "SPV"
        /\ cmds' = cmds /\ picked' = picked /\ rpc' = NoRpc
    BY <1>5 DEF UnroutedAnswer, Answers
  <2> QED
    BY <1>1, <2>1, PerformedName DEF Resets
<1>6. CASE AddObjectLost \/ \E c \in Cmds : AddObjectAnswer(c)
  <2>1. cpe' = Performed /\ rpc.type = "ADD"
    BY <1>6 DEF AddObjectLost, AddObjectAnswer, Answers
  <2> QED
    BY <1>1, <2>1, PerformedName
<1>7. ASSUME SpaAnswer \/ GpnAnswer \/ (\E R \in SUBSET Paths : FindWaiting(R) \/ GpvAnswer(R))
      PROVE  Keeps
  BY <1>7 DEF SpaAnswer, GpnAnswer, FindWaiting, GpvAnswer, device, Keeps
<1>7b. ASSUME SaveActivated \/ SaveAnswer PROVE Keeps
  BY <1>7b DEF SaveActivated, SaveAnswer, SaveWrite, SaveRecheck, SaveAndClose, SaveVerdicts,
               device, Keeps
<1>8. ASSUME \/ AddObjectUnsupported
             \/ \E code \in FaultCodes :
                  \/ AddObjectRefused(code) \/ TelemetryFault(code) \/ DeleteFallback(code)
                  \/ WriteFault(code) \/ OtherFault(code)
      PROVE  Keeps
  BY <1>8 DEF AddObjectUnsupported, AddObjectRefused, TelemetryFault, DeleteFallback,
              WriteFault, OtherFault, device, Keeps
<1>9. CASE AnswerUnmatched
  <2>1. /\ cpe' = cpe \/ cpe' = Performed
        /\ cmds' = cmds /\ picked' = picked /\ rpc' = NoRpc
    BY <1>9 DEF AnswerUnmatched
  <2> QED
    BY <1>1, <2>1, PerformedName DEF Takes, Resets, Keeps, Same
<1>10. CASE Inform \/ SessionLost \/ Tick
  BY <1>10 DEF Inform, SessionLost, Tick, device, Keeps
<1>11. CASE ManualSlot
  BY <1>1, <1>11 DEF ManualSlot, IInv, TypeOK, Paths, Keeps
<1> QED
  BY <1>2, <1>3, <1>4, <1>5, <1>6, <1>7, <1>7b, <1>8, <1>9, <1>10, <1>11
     DEF Next, Cwmp, Environment

\* The initial state of WifiName.
LEMMA InitMaps == Init => Wifi!Init
<1> SUFFICES ASSUME Init PROVE Wifi!Init
  OBVIOUS
<1>1. \A c \in Cmds : ~IsName(c)
  BY DEF Init, Blank, IsName
<1>2. cpe["ssid"] = Factory
  BY DEF Init, Paths
<1>3. Asked = [c \in Cmds |-> Absent] /\ OpenNames = {}
  BY <1>1 DEF Asked, OpenNames
<1> QED
  BY <1>2, <1>3 DEF Wifi!Init

\* A write that is acknowledged, or whose answer is lost, delivers its name.
LEMMA TakesDelivers ==
  ASSUME IInv, Takes
  PROVE  Wifi!Deliver(rpc.cmd)
<1> DEFINE c == rpc.cmd
<1>1. c \in Cmds /\ IsName(c) /\ c \in OpenNames
  BY DEF IInv, SpvExists, Takes, OpenNames, Outstanding
<1>2. Asked' = Asked /\ \A d \in Cmds : IsName(d)' <=> IsName(d)
  BY DEF Takes, Same, Asked, IsName
<1>3. OpenNames' \in {{}, OpenNames \ {c}, OpenNames}
  <2>1. CASE \A d \in Cmds : ~Outstanding(d)'
    BY <2>1 DEF OpenNames
  <2>2. CASE cmds' = cmds /\ picked' = picked /\ rpc' = NoRpc
    <3>1. \A d \in Cmds \ {c} : Outstanding(d)' <=> Outstanding(d)
      BY <2>2 DEF Outstanding, NoRpc
    <3>2. OpenNames' \in {OpenNames \ {c}, OpenNames}
      BY <1>1, <1>2, <3>1 DEF OpenNames
    <3> QED
      BY <3>2
  <2> QED
    BY <2>1, <2>2 DEF Takes
<1> QED
  BY <1>1, <1>2, <1>3 DEF Wifi!Deliver, Takes, Asked

\* A step that leaves the name alone closes requests, or adds one.
LEMMA KeepsCloses ==
  ASSUME IInv, IInv', Kept, Keeps, created' \in {created, created + 1}
  PROVE  Wifi!Close \/ \E c \in Cmds : Wifi!Ask(c)
<1>a. PICK n : n = created + 1
  OBVIOUS
<1>1. /\ \A c \in Cmds : cmds[c].kind = "NONE" <=> ~(c <= created)
      /\ \A c \in Cmds : cmds'[c].kind = "NONE" <=> ~(c <= created')
      /\ \A c \in Cmds : cmds'[c].val \in Values
      /\ created \in Nat
  BY DEF IInv, TypeOK, Blank, Command
<1>2. \A c \in Cmds : cmds[c].kind = "NONE" /\ cmds'[c].kind # "NONE" => c = n
  BY <1>1, <1>a DEF Cmds
<1>3. \A c \in Cmds \ {n} : IsName(c)' <=> IsName(c)
  BY <1>1, <1>2 DEF Kept, IsName
<1>4. \A c \in Cmds \ {n} : Asked'[c] = Asked[c]
  BY <1>3 DEF Asked, Kept, IsName
<1>5. \A c \in Cmds \ {n} : c \in OpenNames' => c \in OpenNames
  BY <1>3 DEF OpenNames, Kept, IsName, WifiKinds
<1>6. CASE n \in Cmds /\ IsName(n)' /\ ~IsName(n)
  <2>1. cmds[n].kind = "NONE"
    BY <1>6 DEF Kept, IsName
  <2>2. n \in OpenNames'
    BY <1>6, <2>1 DEF OpenNames, Kept, IsName, Outstanding, Open
  <2>3. Asked[n] = Absent /\ Asked'[n] = cmds'[n].val
    BY <1>6 DEF Asked
  <2>4. Asked' = [Asked EXCEPT ![n] = cmds'[n].val]
    BY <1>4, <2>3 DEF Asked
  <2> QED
    BY <1>1, <1>5, <1>6, <2>2, <2>3, <2>4 DEF Wifi!Ask, Keeps, OpenNames
<1>7. CASE ~(n \in Cmds /\ IsName(n)' /\ ~IsName(n))
  <2>1. n \in Cmds => (IsName(n)' <=> IsName(n)) /\ Asked'[n] = Asked[n]
    BY <1>7 DEF Kept, IsName, Asked
  <2>2. Asked' = Asked
    BY <1>4, <2>1 DEF Asked
  <2>3. OpenNames' \subseteq OpenNames
    BY <1>5, <2>1 DEF OpenNames, Kept, IsName, WifiKinds
  <2> QED
    BY <2>2, <2>3 DEF Wifi!Close, Keeps
<1> QED
  BY <1>6, <1>7

\* Every step of the engine is a step of WifiName, or leaves it as it is.
LEMMA StepMaps ==
  ASSUME OInv, IInv', [Next]_vars
  PROVE  [Wifi!Next]_(Wifi!vars)
<1>1. CASE UNCHANGED vars
  BY <1>1 DEF vars, Wifi!vars, Asked, OpenNames, IsName, Outstanding
<1>2. CASE Next
  <2>1. IInv /\ Kept /\ created' \in {created, created + 1}
    BY <1>2, NextOrder, CreatesOne DEF OInv
  <2>2. CASE Takes
    <3>1. rpc.cmd \in Cmds
      BY <2>1, <2>2 DEF IInv, SpvExists, Takes
    <3> QED
      BY <2>1, <2>2, <3>1, TakesDelivers DEF Wifi!Next
  <2>3. CASE Resets
    <3>1. Asked' = Asked /\ OpenNames' = OpenNames
      BY <2>3 DEF Resets, Asked, OpenNames, IsName, Outstanding, NoRpc
    <3> QED
      BY <2>3, <3>1 DEF Resets, Wifi!FactoryReset, Wifi!Next
  <2>4. CASE Keeps
    BY <2>1, <2>4, KeepsCloses DEF Wifi!Next
  <2> QED
    BY <1>2, <2>2, <2>3, <2>4, NameSteps
<1> QED
  BY <1>1, <1>2

\* The engine keeps the promise of WifiName, however many commands there are: the
\* name of the ONT comes from a request that is open; one that was superseded,
\* canceled, timed out or covered by an acknowledgement does not change it again.
THEOREM NamesAreDelivered == Spec => ClosedStaysClosed
<1>1. OInv /\ IInv' /\ [Next]_vars => [Wifi!Next]_(Wifi!vars)
  BY StepMaps
<1> QED
  BY <1>1, InitMaps, OInvariance, Invariance, PTL DEF ClosedStaysClosed, Wifi!Spec, Spec
===============================================================================
