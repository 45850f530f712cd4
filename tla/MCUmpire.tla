------------------------------ MODULE MCUmpire ------------------------------
(* Small tournaments for TLC.                                                *)
EXTENDS UmpireProperties
=============================================================================
