----------------------------- MODULE Approvals -----------------------------
(***************************************************************************)
(* Approval requests (services/approvalPolicyService.ts), which the AI's   *)
(* proposeRemediation tool creates (services/aiToolRegistry.ts) and        *)
(* administrators decide, and the command an approval queues               *)
(* (queueAndExecuteCommand of services/deviceManagementService.ts).        *)
(*                                                                         *)
(* decideRequest reads the request, queues the command, and saves the      *)
(* decision it made on the copy it had read: three steps, between which    *)
(* other deciders run.                                                     *)
(***************************************************************************)
CONSTANTS
  Proposals,  \* the approval requests that may be created
  Deciders,   \* calls of decideRequest at the same time
  NoProposal,
  Commands,   \* the DeviceCommand documents that may be created
  NoCommand

ASSUME ApprovalAssumption == NoProposal \notin Proposals /\ NoCommand \notin Commands

\* HighRiskActionType: REBOOT_DEVICE, FIRMWARE_UPGRADE and FACTORY_RESET are also in
\* the enum of DeviceCommand.action ("command"); DELETE_WAN_PROFILE,
\* BULK_CONFIGURATION and PON_PORT_RESET are not ("other").
Actions == {"command", "other"}

\* What the body of the REST call may ask for, as far as the schema lets it be saved:
\* "APPROVED" stands for it and the other statuses that the code never compares with.
\* "pending" is left out: mongoose does not save a field set to the value it was read
\* with.
Decisions == {"approved", "rejected", "APPROVED"}

VARIABLES
  request,   \* ApprovalRequest: status, action, executed = executedCommandId
  decider,   \* the local variables of each call
  madeFor,   \* DeviceCommand: the request it was queued for
  \* What the properties are about:
  contested, \* requests that two calls had read as pending
  broken     \* requests whose command was queued by a call that then failed

vars == <<request, decider, madeFor, contested, broken>>

NoRequest == [status |-> "none", action |-> "command", executed |-> NoCommand]
Idle      == [at |-> "idle", proposal |-> NoProposal, decision |-> "rejected",
              command |-> NoCommand]

Init ==
  /\ request = [p \in Proposals |-> NoRequest]
  /\ decider = [d \in Deciders |-> Idle]
  /\ madeFor = [c \in Commands |-> NoProposal]
  /\ contested = {} /\ broken = {}

\* Mutant: the status of the front end's older spelling.
ProposeHeld(p, action) ==
  /\ request[p].status = "none"
  /\ request' = [request EXCEPT ![p] = [status |-> "pending_approval", action |-> action,
                                        executed |-> NoCommand]]
  /\ UNCHANGED <<decider, madeFor, contested, broken>>

\* createApprovalRequest.
Propose(p, action) ==
  /\ request[p].status = "none"
  /\ request' = [request EXCEPT ![p] = [status |-> "pending", action |-> action,
                                        executed |-> NoCommand]]
  /\ UNCHANGED <<decider, madeFor, contested, broken>>

\* Mutant: a request that has been decided is decided again.
PendingOrDecided(p) == request[p].status # "none"

Pending(p) == request[p].status = "pending"

Holding(p) == {d \in Deciders : decider[d].proposal = p}

\* decideRequest: found, and pending.
Read(d, p, decision) ==
  /\ decider[d].at = "idle"
  /\ Pending(p)
  /\ decider' = [decider EXCEPT ![d] = [at |-> IF decision = "approved" THEN "approved" ELSE "ready",
                                        proposal |-> p, decision |-> decision,
                                        command |-> NoCommand]]
  /\ contested' = IF Holding(p) = {} THEN contested ELSE contested \cup {p}
  /\ UNCHANGED <<request, madeFor, broken>>

\* Mutant: a failed creation of the command is taken for its success.
QueueOrNot(d, c) ==
  LET p == decider[d].proposal IN
  /\ decider[d].at = "approved"
  /\ IF request[p].action = "command"
     THEN madeFor[c] = NoProposal /\ madeFor' = [madeFor EXCEPT ![c] = p]
     ELSE UNCHANGED madeFor
  /\ decider' = [decider EXCEPT ![d].at = "ready",
                                ![d].command = IF request[p].action = "command" THEN c ELSE @]
  /\ UNCHANGED <<request, contested, broken>>

\* Mutant: the call stays where it is, and creates another.
QueueAgain(d, c) ==
  LET p == decider[d].proposal IN
  /\ decider[d].at \in {"approved", "ready"}
  /\ request[p].action = "command"
  /\ madeFor[c] = NoProposal
  /\ madeFor' = [madeFor EXCEPT ![c] = p]
  /\ decider' = [decider EXCEPT ![d].at = "ready", ![d].command = c]
  /\ UNCHANGED <<request, contested, broken>>

\* queueAndExecuteCommand: the command is created unless its action is not in the enum.
Queue(d, c) ==
  LET p == decider[d].proposal IN
  /\ decider[d].at = "approved"
  /\ request[p].action = "command"
  /\ madeFor[c] = NoProposal
  /\ madeFor' = [madeFor EXCEPT ![c] = p]
  /\ decider' = [decider EXCEPT ![d] = [at |-> "ready", proposal |-> p,
                                        decision |-> @.decision, command |-> c]]
  /\ UNCHANGED <<request, contested, broken>>

\* Mutant: only the command is saved (status not marked as modified).
SaveCommandOnly(d) ==
  LET p == decider[d].proposal IN
  /\ decider[d].at = "ready"
  /\ request' = [request EXCEPT ![p].executed = decider[d].command]
  /\ decider' = [decider EXCEPT ![d] = Idle]
  /\ UNCHANGED <<madeFor, contested, broken>>

\* request.save() writes what this call has set, whatever the document now says.
Save(d) ==
  LET p == decider[d].proposal IN
  /\ decider[d].at = "ready"
  /\ request' = [request EXCEPT ![p] =
                   [status   |-> decider[d].decision,
                    action   |-> @.action,
                    executed |-> IF decider[d].command = NoCommand THEN @.executed
                                 ELSE decider[d].command]]
  /\ decider' = [decider EXCEPT ![d] = Idle]
  /\ UNCHANGED <<madeFor, contested, broken>>

\* The device is gone or cannot do it, the action is not in the enum, a save rejects, or
\* the server stops.
Fail(d) ==
  /\ decider[d].at # "idle"
  /\ decider' = [decider EXCEPT ![d] = Idle]
  /\ broken' = IF decider[d].command = NoCommand THEN broken
               ELSE broken \cup {decider[d].proposal}
  /\ UNCHANGED <<request, madeFor, contested>>

Next ==
  \/ \E p \in Proposals, action \in Actions : Propose(p, action)
  \/ \E d \in Deciders :
       \/ \E p \in Proposals, decision \in Decisions : Read(d, p, decision)
       \/ \E c \in Commands : Queue(d, c)
       \/ Save(d) \/ Fail(d)

Spec == Init /\ [][Next]_vars

-------------------------------------------------------------------------------
(***************************************************************************)
(* Properties.                                                             *)
(***************************************************************************)

TypeOK ==
  /\ request \in [Proposals -> [status : {"none", "pending"} \cup Decisions,
                                action : Actions, executed : Commands \cup {NoCommand}]]
  /\ decider \in [Deciders -> [at : {"idle", "approved", "ready"},
                               proposal : Proposals \cup {NoProposal},
                               decision : Decisions, command : Commands \cup {NoCommand}]]
  /\ madeFor \in [Commands -> Proposals \cup {NoProposal}]
  /\ contested \subseteq Proposals /\ broken \subseteq Proposals

\* One approval executes one command, unless two administrators decided at the same
\* time or an earlier approval failed after it had queued its command (decideRequest).
ExecutedOnce ==
  \A b, c \in Commands :
    madeFor[b] = madeFor[c] /\ madeFor[b] # NoProposal
    => b = c \/ madeFor[b] \in contested \cup broken

\* A request that was not approved has not been executed, with the same two exceptions
\* and but for the call that is just approving it (decideRequest).
UnapprovedIsNotExecuted ==
  \A c \in Commands :
    LET p == madeFor[c] IN
    p # NoProposal /\ request[p].status # "approved"
    => p \in contested \cup broken \/ \E d \in Holding(p) : decider[d].command = c

\* An approved request names the command that executes it: in particular, no deletion
\* of a WAN profile can be approved (decideRequest, queueAndExecuteCommand).
ApprovedIsExecuted ==
  \A p \in Proposals :
    request[p].status = "approved" => \E c \in Commands : request[p].executed = c /\ madeFor[c] = p

\* A decision stands, unless another administrator had read the request before it
\* (decideRequest, "Request is already ...").
DecisionStands ==
  [][\A p \in Proposals :
       request[p].status \in Decisions /\ request'[p].status # request[p].status
       => p \in contested]_vars
===============================================================================
