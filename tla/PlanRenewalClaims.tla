-------------------------- MODULE PlanRenewalClaims --------------------------
(***************************************************************************)
(* What a comment says of the payment webhook and its code does not do.    *)
(***************************************************************************)
EXTENDS PlanRenewal

\* paymentGatewayService.ts:295: "Find and update transaction record (Idempotent
\* update)".  However often the gateway reports a payment, it renews the plan once.
RenewedOncePerPayment == \A t \in Txns : credited[t] <= 1
===============================================================================
