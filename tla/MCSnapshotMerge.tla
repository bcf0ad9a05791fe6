--------------------------- MODULE MCSnapshotMerge ---------------------------
(***************************************************************************)
(* Two devices; a founded the project, each mints one more event.          *)
(***************************************************************************)
EXTENDS SnapshotMerge

CONSTANTS a, b

Two == [d \in Devices |-> 2]
=============================================================================
