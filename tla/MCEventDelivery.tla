--------------------------- MODULE MCEventDelivery ---------------------------
(***************************************************************************)
(* EventDelivery for TLC: redrivers are interchangeable, and so are the    *)
(* events of other services.  Declared only where no liveness property is  *)
(* checked.                                                                *)
(***************************************************************************)
EXTENDS EventDelivery, TLC

Interchangeable == Permutations(Redrivers) \cup Permutations(OtherEvents)
===============================================================================
