----------------------------- MODULE MCLifecycle -----------------------------
(* Two builds with different formats of the caches. *)
EXTENDS ServiceLifecycle
MCCacheVersion == [b \in Builds |-> b]
=============================================================================
