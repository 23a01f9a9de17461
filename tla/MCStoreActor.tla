----------------------------- MODULE MCStoreActor -----------------------------
(* Instances of StoreActor for TLC. *)
EXTENDS StoreActor
=============================================================================
