-------------------------- MODULE ListingContract --------------------------
(***************************************************************************)
(* What _collect_devices (sync.py) promises to the rest of a run about the *)
(* list it returns.  The page-by-page listing is proved to keep it, and    *)
(* the run-level model relies on nothing else, so the two levels agree on  *)
(* what a run may have collected.                                          *)
(***************************************************************************)
EXTENDS Naturals, FiniteSets

(***************************************************************************)
(* `kept` of the `wanted` devices under INTUNE_DEVICE_LIMIT (0: none).     *)
(* The cap counts entries and a device may be listed twice, so less than   *)
(* the limit may be kept although more was to be had; but not nothing.     *)
(***************************************************************************)
Collected(limit, wanted, kept) ==
  /\ kept \subseteq wanted
  /\ limit = 0 => kept = wanted
  /\ limit > 0 => /\ Cardinality(kept) <= limit
                  /\ wanted # {} => kept # {}
=============================================================================
