----------------------------- MODULE PaidRenewal -----------------------------
(***************************************************************************)
(* What the payment webhook promises the customer and the operator: a      *)
(* payment order renews the plan only when the gateway has captured the    *)
(* money, and renews it once.  The promise is void for an order that is    *)
(* contested: closed by one request and saved again by another that had    *)
(* read it open, or reopened by hand.                                      *)
(***************************************************************************)
EXTENDS Naturals

CONSTANT Orders

VARIABLES
  captured,    \* the orders whose money the gateway holds
  contested,   \* the orders the promise is void for
  renewed      \* how often each order has renewed the plan

vars == <<captured, contested, renewed>>

Init ==
  /\ captured = {}
  /\ contested = {}
  /\ renewed = [o \in Orders |-> 0]

Capture(o) ==
  /\ captured' = captured \cup {o}
  /\ UNCHANGED <<contested, renewed>>

Contest(o) ==
  /\ contested' = contested \cup {o}
  /\ UNCHANGED <<captured, renewed>>

Renew(o) ==
  /\ o \in captured
  /\ renewed[o] = 0 \/ o \in contested
  /\ renewed' = [renewed EXCEPT ![o] = @ + 1]
  /\ UNCHANGED <<captured, contested>>

Next == \E o \in Orders : Capture(o) \/ Contest(o) \/ Renew(o)

Spec == Init /\ [][Next]_vars
===============================================================================
