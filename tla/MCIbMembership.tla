--------------------------- MODULE MCIbMembership ---------------------------
(***************************************************************************)
(* IbMembership on small sets of hosts and partitions.                     *)
(***************************************************************************)
EXTENDS IbMembership
=============================================================================
