------------------------------ MODULE MCDmxLink ------------------------------
(* The link with its constants given by DmxLink_settles.cfg.               *)
EXTENDS DmxLink
=============================================================================
