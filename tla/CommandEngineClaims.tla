------------------------- MODULE CommandEngineClaims -------------------------
(***************************************************************************)
(* What the documents, comments, messages and tests of the repository say  *)
(* of the command engine and its code does not do.  Each definition quotes *)
(* the line it states; TLC finds a behaviour of CommandEngine that         *)
(* violates it.                                                            *)
(***************************************************************************)
EXTENDS CommandEngine

\* docs/engineering/part-2-3-command-engine.md:11: "A command is never marked
\* successful simply because an ACS connection request or SOAP response returned
\* HTTP 200."  So a successful command has at least been sent.  The code's
\* SetParameterValuesResponse handler marks every unfinished command of the device.
SuccessWasDispatched ==
  \A c \in WithStatus(cmds, {"success"}) : cmds[c].sAge # NotSent

\* cwmpService.ts:1327: "do NOT dispatch any other command".  While commands are in
\* flight and young enough to hold the lock, a poll takes up no other one.
LockRespected ==
  [][\A c \in Cmds : picked.mode = "idle" /\ picked'.mode = "dispatch" /\ picked'.cmd = c
       => \A l \in Locking : l = c \/ Age(l) >= LockAge]_vars

\* docs/engineering/part-2-3-command-engine.md:17: "If observed value strictly
\* matches requested value -> Mark VERIFIED."  When a command becomes verified the
\* CPE has what it asked for.
VerifiedWasObserved ==
  [][\A c \in Cmds : cmds[c].status # "verified" /\ cmds'[c].status = "verified"
       => \A p \in TargetPaths(cmds[c].kind) : cpe[p] = cmds[c].val]_vars

\* docs/engineering/part-2-3-command-engine.md:18: "If mismatch or timeout -> Mark
\* VERIFICATION_FAILED".  A command under verification is judged at last.
VerificationTerminates ==
  \A c \in Cmds : cmds[c].status = "verifying" ~> cmds[c].status # "verifying"

\* docs/engineering/part-2-2-api-architecture.md:50: "CANCELLED --> [*]".  A command
\* that the operator has canceled stays canceled.
CanceledIsFinal ==
  [][\A c \in Cmds : cmds[c].status = "canceled" => cmds'[c].status = "canceled"]_vars

\* tests/reboot_guard.test.ts:438: "ASYNC COMMAND LIFECYCLE & DEDUPLICATION: [...]
\* with zero duplicate execution".  A reboot that has been sent to the CPE is not
\* sent again.
RebootSentOnce ==
  [][\A c \in Cmds : rpc # rpc' /\ rpc' = [type |-> "REBOOT", cmd |-> c, q |-> {}]
       => cmds[c].sAge = NotSent]_vars
===============================================================================
