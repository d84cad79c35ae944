------------------------------ MODULE MCSpool -------------------------------
(* Two exporters and a reader on one spool; three envelopes, one too large. *)
EXTENDS Spool
=============================================================================
