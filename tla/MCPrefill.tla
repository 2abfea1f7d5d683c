------------------------------ MODULE MCPrefill ------------------------------
(* The instances of Prefill that PrefillSetups lists.                            *)
EXTENDS Prefill, PrefillSetups
==============================================================================
