------------------------------- MODULE WifiName -------------------------------
(***************************************************************************)
(* What the command engine promises about the Wi-Fi name of the ONT: the   *)
(* name comes from a request that is open or from a factory reset; what    *)
(* closes at a write is every open request (its acknowledgement covers     *)
(* them all), the written one alone (it had been closed meanwhile and its  *)
(* answer got lost) or none (the write may be repeated); and a request     *)
(* once closed, be it superseded, canceled, timed out or covered by an     *)
(* acknowledgement, never changes the name again.                          *)
(***************************************************************************)
CONSTANTS Requests, Names, NotAsked, FactoryName

VARIABLES
  asked,   \* the name each request asks for
  open,    \* the requests that may still change the name
  name     \* the name the ONT has

vars == <<asked, open, name>>

Init ==
  /\ asked = [r \in Requests |-> NotAsked]
  /\ open = {}
  /\ name = FactoryName

\* A new request, which may supersede others.
Ask(r) ==
  /\ asked[r] = NotAsked
  /\ \E n \in Names : asked' = [asked EXCEPT ![r] = n]
  /\ r \in open' /\ open' \subseteq open \cup {r}
  /\ UNCHANGED name

Close ==
  /\ open' \subseteq open
  /\ UNCHANGED <<asked, name>>

\* The ONT takes the name: acknowledged, or with the answer lost.
Deliver(r) ==
  /\ r \in open
  /\ name' = asked[r]
  /\ open' \in {{}, open \ {r}, open}
  /\ UNCHANGED asked

FactoryReset ==
  /\ name' = FactoryName
  /\ UNCHANGED <<asked, open>>

Next == Close \/ FactoryReset \/ \E r \in Requests : Ask(r) \/ Deliver(r)

Spec == Init /\ [][Next]_vars
===============================================================================
