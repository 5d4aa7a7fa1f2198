----------------------------- MODULE CommandTypes -----------------------------
(***************************************************************************)
(* The vocabulary of the native TR-069 command engine: the DeviceCommand   *)
(* document (models/DeviceCommand.ts), the CWMP session of one device      *)
(* (ActiveSessionContext in services/cwmpService.ts) and the two parameter *)
(* paths whose values the properties tell apart.                           *)
(*                                                                         *)
(* Commands are numbered in the order they are created, so the order of    *)
(* queuedAt (and createdAt) is the order of the numbers.  Time is kept as  *)
(* the age of each command, counted in ticks and saturating at AgeCap.     *)
(***************************************************************************)
EXTENDS Integers

CONSTANTS
  MaxCmds,      \* bound: DeviceCommand documents created for the device
  Requests,     \* what the operators of this instance ask for: kinds of command,
                \* WAN profiles with no slot yet, canceling, retrying, the routes
                \* without a lock, the WhatsApp bot
  Faults,       \* the fault codes this instance's CPE may answer
  Slots,        \* does the CPE have the customer's WAN slot when it is first seen?
  Omits,        \* may the CPE leave a queried path out of a GPV response?
  LockAge,      \* 90 s: how long an in-flight command locks dispatch
  RecentAge,    \* 120 s: how long a queued command counts as recent
  TimeoutAge,   \* 180 s: CWMP_TASK_TIMEOUT_SECONDS, used by the workspace view
  ExpireAge     \* 900 s: age from which an uncollected command is dropped

Cmds == 1 .. MaxCmds

\* SET_WIFI_CONFIG that changes the SSID, SET_WIFI_CONFIG that changes only the
\* passphrase, SET_WAN_CONFIG, DELETE_WAN_CONFIG, REBOOT_DEVICE, FACTORY_RESET,
\* GET_PARAMETER_NAMES, SUMMON_LIVE_POLL, GetParameterValues (sync-live),
\* GET_PARAMETERS (the default action, of a refresh of the connected clients),
\* RUN_DIAGNOSTICS (the "sync" action) and BLOCK_CLIENT.
CommandKinds == {"WIFI", "PASS", "WAN", "DELETE", "REBOOT", "RESET",
                 "NAMES", "SUMMON", "SYNC", "CLIENTS", "DIAG", "BLOCK"}

FaultCodes == {"9003", "9005", "other"}

ASSUME BoundsAssumption ==
  /\ MaxCmds \in Nat
  /\ Requests \subseteq CommandKinds \cup {"NEW_SLOT", "CANCEL", "RETRY", "DIRECT", "BOT"}
  /\ Faults \subseteq FaultCodes
  /\ Slots \subseteq BOOLEAN /\ Omits \in BOOLEAN

\* An age below LockAge is under 90 s, one above TimeoutAge over 180 s: every
\* limit is passed by the time the next one is.
ASSUME AgesAssumption ==
  /\ LockAge \in Nat \ {0} /\ RecentAge \in Nat /\ TimeoutAge \in Nat /\ ExpireAge \in Nat
  /\ LockAge <= RecentAge /\ RecentAge <= TimeoutAge + 1 /\ TimeoutAge <= ExpireAge

AgeCap  == ExpireAge + 1
Ages    == 0 .. AgeCap
NotSent == -1                              \* sentAt is undefined

\* The values of the status field that this engine writes ("none": no document).
Statuses == {"none", "pending", "queued", "sending", "waiting_for_wan_slot",
             "applied_pending_verification", "verifying", "verified",
             "verification_failed", "success", "failed", "expired",
             "timed_out", "canceled"}

Verdicts == {"verified", "verification_failed"}
Ended    == Verdicts \cup {"success", "failed", "expired", "timed_out", "canceled"}
Uncollected == {"pending", "queued"}
InFlight == {"sending", "verifying", "applied_pending_verification"}

\* The action field, which the two Wi-Fi kinds share.
Action(k) == IF k \in {"WIFI", "PASS"} THEN "SET_WIFI_CONFIG" ELSE k

IsWan(k)  == k = "WAN"
IsPoll(k) == k \in {"SUMMON", "CLIENTS"}   \* the action list the lock excludes
IsRead(k) == k \in {"SUMMON", "CLIENTS", "SYNC"}   \* ... the answers to writes exclude

\* Parameter paths and their values: the SSID and the customer WAN connection.
\* A value is the factory one, the payload of some command, or "switched off".
Paths   == {"ssid", "wan"}
Absent  == -1
Factory == 0
Off     == MaxCmds + 1
Values  == 0 .. Off

\* The paths a command's verification target values name and read-back can
\* compare (passwords and passphrases are skipped by the evaluation).
TargetPaths(k) == CASE k = "WIFI"             -> {"ssid"}
                    [] k \in {"WAN", "DELETE"} -> {"wan"}
                    [] OTHER                  -> {}

Stages == {"NONE", "INFORM_ACKED", "GPN_SENT", "BASELINE_SENT", "OPTICAL_SENT",
           "ADD_OBJECT_SENT", "SPV_SENT", "SPA_SENT", "CUSTOM_RPC_SENT",
           "VERIFICATION_GPV_SENT"}

RpcTypes == {"none", "GPV", "SPV", "ADD", "DEL", "SPA", "GPN", "REBOOT", "RESET"}

\* kind and payload: val is what the command writes, params whether it carries
\* tr069ParamValues, needs its requiresAddObject, object its targetObjectName (the
\* WANConnectionDevice table or a connection inside one slot; "known" when its own
\* profile has the cpeObjectPath of that connection too).  rid: it has cwmpRequestId 3;
\* target: it has verificationTargetValues and affectedParameterPaths; tried:
\* addObjectAttempted.
Command == [kind : CommandKinds \cup {"NONE"}, status : Statuses, qAge : Ages,
            sAge : Ages \cup {NotSent}, rid : BOOLEAN, target : BOOLEAN,
            params : BOOLEAN, needs : BOOLEAN, tried : BOOLEAN,
            object : {"none", "parent", "child", "known"}, val : Values, retryable : BOOLEAN]

Session == [stage : Stages, lastQ : SUBSET Paths]
Rpc     == [type : RpcTypes, cmd : Cmds \cup {0}, q : SUBSET Paths]
\* What a running handler has read and will act upon after its awaits.  The first four
\* modes are those of a poll; an answer's handler is about to queue commands that waited
\* for a slot (activate) and to go on (activated), to save a command and write its
\* parameters (write), to save commands and read them back (recheck), to save and close
\* the session (close), or to save verdicts (judge).  slot: the copy of the parameter tree had the WAN connection;
\* same: the command already had the status the poll will give it; q: the paths that
\* came back (activate, activated) or are to be read (recheck); writes: the statuses it will save,
\* whatever the commands have become.
Pick == [mode : {"idle", "verify", "dispatch", "telemetry",
                 "activate", "activated", "write", "recheck", "close", "judge"},
         cmd : Cmds \cup {0}, slot : BOOLEAN, same : BOOLEAN,
         q : SUBSET Paths, writes : [Cmds -> Statuses]]

Blank == [kind |-> "NONE", status |-> "none", qAge |-> 0, sAge |-> NotSent,
          rid |-> FALSE, target |-> FALSE, params |-> FALSE, needs |-> FALSE,
          tried |-> FALSE, object |-> "none", val |-> Factory, retryable |-> TRUE]
NoSession == [stage |-> "NONE", lastQ |-> {}]
NoRpc     == [type |-> "none", cmd |-> 0, q |-> {}]
NoWrites  == [c \in Cmds |-> "none"]
Idle      == [mode |-> "idle", cmd |-> 0, slot |-> FALSE, same |-> FALSE,
              q |-> {}, writes |-> NoWrites]

IsNewest(c, S) == c \in S /\ \A d \in S : d <= c
IsOldest(c, S) == c \in S /\ \A d \in S : c <= d

\* cs with the status of every command of S set (updateMany with $set status).
Mark(cs, S, st) ==
  [c \in Cmds |-> IF c \in S THEN [cs[c] EXCEPT !.status = st] ELSE cs[c]]

\* Read, then saved: st for the commands of S.  Saving a document writes the fields that
\* were changed after it was read, so a status it already had is not written again.
Planned(cs, S, st) ==
  [c \in Cmds |-> IF c \in S /\ cs[c].status # st THEN st ELSE "none"]
Overwritten(cs, writes) ==
  [c \in Cmds |-> IF writes[c] = "none" THEN cs[c] ELSE [cs[c] EXCEPT !.status = writes[c]]]

WithStatus(cs, sts) == {c \in Cmds : cs[c].status \in sts}
===============================================================================
