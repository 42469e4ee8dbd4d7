----------------------------- MODULE MCDiskTier -----------------------------
(* Two copies of one blob, which together exceed the cap. *)
EXTENDS DiskTier, TLC

CONSTANTS a, b, k

MCKeyOf == (a :> k) @@ (b :> k)
MCSize == (a :> 6) @@ (b :> 5)
=============================================================================
