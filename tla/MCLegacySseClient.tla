-------------------------- MODULE MCLegacySseClient --------------------------
(* Instance of LegacySseClient: four messages, so that some can be queued,  *)
(* one written while the flush is posted and one after it.                 *)
EXTENDS LegacySseClient
=============================================================================
