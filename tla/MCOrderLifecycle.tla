--------------------------- MODULE MCOrderLifecycle ---------------------------
(* Small instances of OrderLifecycle. *)
EXTENDS OrderLifecycle
==============================================================================
