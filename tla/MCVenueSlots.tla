--------------------------- MODULE MCVenueSlots ---------------------------
(***************************************************************************)
(* Instances of VenueSlots for TLC: the configurations name its constants. *)
(***************************************************************************)
EXTENDS VenueSlots
=============================================================================
