---------------------------- MODULE MCExpertStore ----------------------------
(***************************************************************************)
(* The store on a small instance: three experts for two slots, one slot on *)
(* each memory path.                                                       *)
(***************************************************************************)
EXTENDS ExpertStore

CONSTANTS k1, k2, k3

MCPathB == {1}

=============================================================================
