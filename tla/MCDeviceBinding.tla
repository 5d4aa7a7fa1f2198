--------------------------- MODULE MCDeviceBinding ---------------------------
(***************************************************************************)
(* DeviceBinding for TLC: requests are interchangeable, and so are the     *)
(* identities of documents.                                                *)
(***************************************************************************)
EXTENDS DeviceBinding, TLC

Interchangeable == Permutations(Requests) \cup Permutations(Docs)
===============================================================================
