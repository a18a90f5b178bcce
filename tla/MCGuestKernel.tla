---------------------------- MODULE MCGuestKernel ----------------------------
(***************************************************************************)
(* The guest kernel for TLC.  Dispatched fetches and a realm's own calls   *)
(* meet only in the records and the frames, so a behaviour has fetches or  *)
(* calls, chosen initially.                                                *)
(***************************************************************************)
EXTENDS GuestKernel

VARIABLE part

KernelInit == Init /\ part \in {"fetches", "calls"}

KernelNext ==
  /\ Next /\ UNCHANGED part
  /\ IF part = "fetches" THEN UNCHANGED calls ELSE UNCHANGED fetch

KernelSpec == KernelInit /\ [][KernelNext]_<<part, vars>>
==============================================================================
