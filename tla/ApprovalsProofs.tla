-------------------------- MODULE ApprovalsProofs --------------------------
(***************************************************************************)
(* Proofs about Approvals, for any sets of requests, administrators and    *)
(* commands.  The inductive invariant says where the command of an         *)
(* approval is to be found: with the call that queued it, or on the        *)
(* request.                                                                *)
(***************************************************************************)
EXTENDS Approvals, TLAPS

\* A call between two steps has read a request that exists.
CallsReadRequests ==
  \A d \in Deciders :
    IF decider[d].at = "idle"
    THEN decider[d].proposal = NoProposal /\ decider[d].command = NoCommand
    ELSE decider[d].proposal \in Proposals /\ request[decider[d].proposal].status # "none"

\* A call has a command if and only if it approves and has queued it.
CommandsOfCalls ==
  \A d \in Deciders :
    /\ decider[d].at = "approved" =>
         decider[d].decision = "approved" /\ decider[d].command = NoCommand
    /\ decider[d].at = "ready" /\ decider[d].decision = "approved" =>
         decider[d].command \in Commands
    /\ decider[d].command # NoCommand =>
         /\ decider[d].at = "ready" /\ decider[d].decision = "approved"
         /\ madeFor[decider[d].command] = decider[d].proposal

\* A request with two calls is contested.
Alone ==
  \A d, e \in Deciders :
    d # e /\ decider[d].proposal = decider[e].proposal /\ decider[d].at # "idle"
    => decider[d].proposal \in contested

\* A decided request has no calls, unless it is contested.
Settled ==
  \A d \in Deciders :
    decider[d].at # "idle" /\ request[decider[d].proposal].status # "pending"
    => decider[d].proposal \in contested

ApprovedHasCommand ==
  \A p \in Proposals :
    request[p].status = "approved" =>
      request[p].executed \in Commands /\ madeFor[request[p].executed] = p

Accounted ==
  \A c \in Commands :
    madeFor[c] # NoProposal /\ madeFor[c] \notin contested \cup broken =>
      \/ \E d \in Deciders : decider[d].command = c
      \/ request[madeFor[c]].status = "approved" /\ request[madeFor[c]].executed = c

IInv == TypeOK /\ CallsReadRequests /\ CommandsOfCalls /\ Alone /\ Settled
        /\ ApprovedHasCommand /\ Accounted

LEMMA InitIInv == Init => IInv
BY ApprovalAssumption
DEF Init, IInv, TypeOK, CallsReadRequests, CommandsOfCalls, Alone, Settled,
    ApprovedHasCommand, Accounted, NoRequest, Idle, Actions, Decisions

LEMMA ProposeIInv ==
  ASSUME IInv, NEW p \in Proposals, NEW action \in Actions, Propose(p, action)
  PROVE  IInv'
<1> USE ApprovalAssumption DEF IInv, Propose
<1>1. TypeOK'
  BY DEF TypeOK, Decisions
<1>2. \A q \in Proposals : q # p => request'[q] = request[q]
  BY DEF TypeOK
<1>3. request'[p] = [status |-> "pending", action |-> action, executed |-> NoCommand]
  BY DEF TypeOK
<1>4. \A d \in Deciders : decider[d].at # "idle" => decider[d].proposal \in Proposals \ {p}
  BY DEF CallsReadRequests
<1>5. CallsReadRequests'
  BY <1>2, <1>4 DEF CallsReadRequests
<1>6. CommandsOfCalls' /\ Alone'
  BY DEF CommandsOfCalls, Alone
<1>7. Settled'
  BY <1>2, <1>4 DEF Settled
<1>8. ApprovedHasCommand'
  BY <1>2, <1>3 DEF ApprovedHasCommand
<1>9. Accounted'
  <2> SUFFICES ASSUME NEW c \in Commands, madeFor[c] # NoProposal,
                      madeFor[c] \notin contested \cup broken,
                      \A d \in Deciders : decider[d].command # c
               PROVE  request'[madeFor[c]].status = "approved"
                      /\ request'[madeFor[c]].executed = c
    BY DEF Accounted
  <2>1. request[madeFor[c]].status = "approved" /\ request[madeFor[c]].executed = c
    BY DEF Accounted
  <2>2. madeFor[c] \in Proposals \ {p}
    BY <2>1 DEF TypeOK
  <2> QED BY <1>2, <2>1, <2>2
<1> QED BY <1>1, <1>5, <1>6, <1>7, <1>8, <1>9

LEMMA ReadIInv ==
  ASSUME IInv, NEW d \in Deciders, NEW p \in Proposals, NEW decision \in Decisions,
         Read(d, p, decision)
  PROVE  IInv'
<1> USE ApprovalAssumption DEF IInv, Read, Pending
<1> DEFINE new == [at |-> IF decision = "approved" THEN "approved" ELSE "ready",
                   proposal |-> p, decision |-> decision, command |-> NoCommand]
<1>1. decider'[d] = new /\ \A e \in Deciders : e # d => decider'[e] = decider[e]
  BY DEF TypeOK
<1>2. contested \subseteq contested' /\ contested' \subseteq Proposals
  BY DEF TypeOK
<1>3. TypeOK'
  <2>1. new \in [at : {"idle", "approved", "ready"}, proposal : Proposals \cup {NoProposal},
                 decision : Decisions, command : Commands \cup {NoCommand}]
    OBVIOUS
  <2> QED BY <1>2, <2>1 DEF TypeOK
<1>4. CallsReadRequests'
  BY <1>1 DEF CallsReadRequests
<1>5. CommandsOfCalls'
  BY <1>1 DEF CommandsOfCalls
<1>6. ASSUME NEW e \in Deciders, e # d, decider[e].proposal = p
      PROVE  p \in contested'
  BY <1>6 DEF Holding
<1>7. Alone'
  BY <1>1, <1>2, <1>6 DEF Alone
<1>8. Settled'
  BY <1>1, <1>2 DEF Settled
<1>9. ApprovedHasCommand'
  BY DEF ApprovedHasCommand
<1>10. \A c \in Commands : decider[d].command # c
  BY DEF CallsReadRequests
<1>11. Accounted'
  BY <1>1, <1>2, <1>10 DEF Accounted
<1> QED BY <1>3, <1>4, <1>5, <1>7, <1>8, <1>9, <1>11

LEMMA QueueIInv ==
  ASSUME IInv, NEW d \in Deciders, NEW c \in Commands, Queue(d, c)
  PROVE  IInv'
<1> USE ApprovalAssumption DEF IInv, Queue
<1> DEFINE p == decider[d].proposal
<1>1. p \in Proposals
  BY DEF CallsReadRequests
<1>2. /\ decider'[d] = [at |-> "ready", proposal |-> p,
                         decision |-> decider[d].decision, command |-> c]
      /\ \A e \in Deciders : e # d => decider'[e] = decider[e]
  BY DEF TypeOK
<1>3. madeFor'[c] = p /\ \A b \in Commands : b # c => madeFor'[b] = madeFor[b]
  BY DEF TypeOK
<1>4. TypeOK'
  <2>1. decider'[d] \in [at : {"idle", "approved", "ready"},
                         proposal : Proposals \cup {NoProposal},
                         decision : Decisions, command : Commands \cup {NoCommand}]
    BY <1>2 DEF TypeOK
  <2> QED BY <1>1, <1>2, <2>1 DEF TypeOK
<1>5. /\ decider'[d].at = "ready" /\ decider'[d].proposal = p
      /\ decider'[d].decision = "approved" /\ decider'[d].command = c
  BY <1>2 DEF TypeOK, CommandsOfCalls
<1>6. CallsReadRequests'
  BY <1>1, <1>2, <1>5 DEF CallsReadRequests
<1>7. CommandsOfCalls'
  <2>1. \A e \in Deciders : e # d => decider[e].command # c
    BY DEF CommandsOfCalls, CallsReadRequests
  <2>2. \A e \in Deciders : decider[e].command \in Commands \cup {NoCommand}
    BY DEF TypeOK
  <2> QED BY <1>2, <1>3, <1>5, <2>1, <2>2 DEF CommandsOfCalls
<1>8. Alone'
  BY <1>2, <1>5 DEF Alone
<1>9. Settled'
  BY <1>2, <1>5 DEF Settled
<1>10. ApprovedHasCommand'
  BY <1>3 DEF ApprovedHasCommand
<1>11. Accounted'
  <2>1. \A b \in Commands : decider[d].command # b
    BY DEF CommandsOfCalls
  <2> QED BY <1>2, <1>3, <1>5, <2>1 DEF Accounted
<1> QED BY <1>4, <1>6, <1>7, <1>8, <1>9, <1>10, <1>11

LEMMA SaveIInv ==
  ASSUME IInv, NEW d \in Deciders, Save(d)
  PROVE  IInv'
<1> USE ApprovalAssumption DEF IInv, Save
<1> DEFINE p == decider[d].proposal
<1>1. p \in Proposals
  BY DEF CallsReadRequests
<1>2. decider'[d] = Idle /\ \A e \in Deciders : e # d => decider'[e] = decider[e]
  BY DEF TypeOK
<1>3. /\ request'[p].status = decider[d].decision
      /\ request'[p].action = request[p].action
      /\ request'[p].executed = IF decider[d].command = NoCommand
                                THEN request[p].executed ELSE decider[d].command
      /\ \A q \in Proposals : q # p => request'[q] = request[q]
  BY <1>1 DEF TypeOK
<1>4. TypeOK'
  <2>1. Idle \in [at : {"idle", "approved", "ready"}, proposal : Proposals \cup {NoProposal},
                  decision : Decisions, command : Commands \cup {NoCommand}]
    BY DEF Idle, Decisions
  <2> QED BY <1>1, <2>1 DEF TypeOK
<1>5. \A e \in Deciders : e # d /\ decider[e].proposal = p => p \in contested
  BY DEF Alone
<1>6. CallsReadRequests'
  BY <1>1, <1>2, <1>3 DEF CallsReadRequests, TypeOK, Idle, Decisions
<1>7. CommandsOfCalls'
  BY <1>2 DEF CommandsOfCalls, Idle
<1>8. Alone'
  BY <1>2 DEF Alone, Idle, CallsReadRequests
<1>9. Settled'
  BY <1>2, <1>3, <1>5 DEF Settled, Idle, CallsReadRequests
<1>10. ApprovedHasCommand'
  BY <1>1, <1>3 DEF ApprovedHasCommand, CommandsOfCalls
<1>11. Accounted'
  <2> SUFFICES ASSUME NEW c \in Commands, madeFor[c] # NoProposal,
                      madeFor[c] \notin contested \cup broken,
                      \A e \in Deciders : decider'[e].command # c
               PROVE  request'[madeFor[c]].status = "approved"
                      /\ request'[madeFor[c]].executed = c
    BY DEF Accounted
  <2>1. madeFor[c] \in Proposals
    BY DEF TypeOK
  <2>2. CASE decider[d].command = c
    BY <1>3, <2>2 DEF CommandsOfCalls
  <2>3. CASE decider[d].command # c
    <3>1. request[madeFor[c]].status = "approved" /\ request[madeFor[c]].executed = c
      BY <1>2, <2>3 DEF Accounted
    <3>2. madeFor[c] # p
      BY <3>1 DEF Settled
    <3> QED BY <1>3, <2>1, <3>1, <3>2
  <2> QED BY <2>2, <2>3
<1> QED BY <1>4, <1>6, <1>7, <1>8, <1>9, <1>10, <1>11

LEMMA FailIInv ==
  ASSUME IInv, NEW d \in Deciders, Fail(d)
  PROVE  IInv'
<1> USE ApprovalAssumption DEF IInv, Fail
<1>1. decider'[d] = Idle /\ \A e \in Deciders : e # d => decider'[e] = decider[e]
  BY DEF TypeOK
<1>2. broken \subseteq broken' /\ broken' \subseteq Proposals
  BY DEF TypeOK, CallsReadRequests
<1>3. TypeOK'
  <2>1. Idle \in [at : {"idle", "approved", "ready"}, proposal : Proposals \cup {NoProposal},
                  decision : Decisions, command : Commands \cup {NoCommand}]
    BY DEF Idle, Decisions
  <2> QED BY <1>2, <2>1 DEF TypeOK
<1>4. CallsReadRequests' /\ CommandsOfCalls' /\ Alone' /\ Settled'
  BY <1>1 DEF CallsReadRequests, CommandsOfCalls, Alone, Settled, Idle
<1>5. ApprovedHasCommand'
  BY DEF ApprovedHasCommand
<1>6. \A c \in Commands : decider[d].command = c => madeFor[c] \in broken'
  BY DEF CommandsOfCalls
<1>7. Accounted'
  BY <1>1, <1>2, <1>6 DEF Accounted
<1> QED BY <1>3, <1>4, <1>5, <1>7

LEMMA StutterIInv == IInv /\ UNCHANGED vars => IInv'
BY DEF IInv, vars, TypeOK, CallsReadRequests, CommandsOfCalls, Alone, Settled,
       ApprovedHasCommand, Accounted

\* The invariant holds in every state of the approvals (createApprovalRequest,
\* decideRequest).
THEOREM Invariance == Spec => []IInv
<1>1. IInv /\ [Next]_vars => IInv'
  BY ProposeIInv, ReadIInv, QueueIInv, SaveIInv, FailIInv, StutterIInv DEF Next
<1> QED BY InitIInv, <1>1, PTL DEF Spec

\* Every variable keeps its type.
THEOREM TypeCorrectness == Spec => []TypeOK
BY Invariance, PTL DEF IInv

\* One approval executes one command, unless the request was contested or an earlier
\* approval of it failed late (decideRequest).
THEOREM ExecutesOnce == Spec => []ExecutedOnce
<1>1. IInv => ExecutedOnce
  <2> SUFFICES ASSUME IInv, NEW b \in Commands, NEW c \in Commands,
                      madeFor[b] = madeFor[c], madeFor[b] # NoProposal,
                      madeFor[b] \notin contested \cup broken
               PROVE  b = c
    BY DEF ExecutedOnce
  <2> USE DEF IInv
  <2>1. \A x \in {b, c} :
          \/ \E d \in Deciders : decider[d].command = x
          \/ request[madeFor[b]].status = "approved" /\ request[madeFor[b]].executed = x
    BY DEF Accounted
  <2>2. ASSUME NEW x \in {b, c}, NEW d \in Deciders, decider[d].command = x
        PROVE  decider[d].at = "ready" /\ decider[d].proposal = madeFor[b]
    BY <2>2, ApprovalAssumption DEF CommandsOfCalls
  <2>3. ASSUME NEW x \in {b, c}, NEW d \in Deciders, decider[d].command = x
        PROVE  request[madeFor[b]].status # "approved"
    BY <2>2, <2>3 DEF Settled
  <2>4. \A d, e \in Deciders :
          decider[d].command = b /\ decider[e].command = c => d = e
    BY <2>2 DEF Alone
  <2> QED BY <2>1, <2>3, <2>4
<1> QED BY Invariance, <1>1, PTL

\* No command executes a request that is not approved, with the same exceptions and
\* but for the call that is just approving it (decideRequest).
THEOREM UnapprovedStaysUnexecuted == Spec => []UnapprovedIsNotExecuted
<1>1. IInv => UnapprovedIsNotExecuted
  <2> SUFFICES ASSUME IInv, NEW c \in Commands, madeFor[c] # NoProposal,
                      request[madeFor[c]].status # "approved",
                      madeFor[c] \notin contested \cup broken
               PROVE  \E d \in Holding(madeFor[c]) : decider[d].command = c
    BY DEF UnapprovedIsNotExecuted
  <2>1. PICK d \in Deciders : decider[d].command = c
    BY DEF IInv, Accounted
  <2>2. decider[d].proposal = madeFor[c]
    BY <2>1, ApprovalAssumption DEF IInv, CommandsOfCalls
  <2> QED BY <2>1, <2>2 DEF Holding
<1> QED BY Invariance, <1>1, PTL

\* An approved request names a command that was queued for it (decideRequest).
THEOREM ApprovedExecutes == Spec => []ApprovedIsExecuted
<1>1. IInv => ApprovedIsExecuted
  BY DEF IInv, ApprovedHasCommand, ApprovedIsExecuted
<1> QED BY Invariance, <1>1, PTL

\* A decision changes only where another administrator had read the request before it
\* was taken (decideRequest).
THEOREM DecisionsStand == Spec => DecisionStands
<1>1. IInv /\ [Next]_vars =>
        [\A p \in Proposals :
           request[p].status \in Decisions /\ request'[p].status # request[p].status
           => p \in contested]_vars
  <2> SUFFICES ASSUME IInv, Next, NEW p \in Proposals, request[p].status \in Decisions,
                      request'[p].status # request[p].status
               PROVE  p \in contested
    BY DEF vars
  <2> USE DEF IInv
  <2>1. ASSUME NEW q \in Proposals, NEW action \in Actions, Propose(q, action)
        PROVE  FALSE
    BY <2>1 DEF Propose, Decisions, TypeOK
  <2>2. ASSUME NEW d \in Deciders, Save(d)
        PROVE  p \in contested
    <3>1. decider[d].proposal = p
      BY <2>2 DEF Save, TypeOK
    <3> QED BY <2>2, <3>1 DEF Save, Settled, Decisions
  <2> QED BY <2>1, <2>2 DEF Next, Read, Queue, Fail
<1> QED BY Invariance, <1>1, PTL DEF Spec, DecisionStands
============================================================================
