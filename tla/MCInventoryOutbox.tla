------------------------- MODULE MCInventoryOutbox --------------------------
(* Two overlapping drains over evidence and its publication; two stores to  *)
(* mix up, two payloads.                                                   *)
EXTENDS InventoryOutbox
=============================================================================
