---------------------------- MODULE MCScanFlight ----------------------------
(* Three scans of one package version: two on one replica, one on another. *)
EXTENDS ScanFlight, TLC

CONSTANTS s1, s2, s3, r1, r2, c, d

MCHome == (s1 :> r1) @@ (s2 :> r1) @@ (s3 :> r2)

MCPool == (r1 :> {c}) @@ (r2 :> {c, d})

MCMixes ==
    {(s1 :> "strict") @@ (s2 :> "strict") @@ (s3 :> "strict"),
     (s1 :> "strict") @@ (s2 :> "ephemeral") @@ (s3 :> "allowStale")}
=============================================================================
