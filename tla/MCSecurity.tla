----------------------------- MODULE MCSecurity -----------------------------
(***************************************************************************)
(* The security records a request leaves behind: claim authorizations,     *)
(* wallet sessions, the cleanup of their metadata, and the evidence about  *)
(* a signer, a first location, a phone's readings and a funding wallet.    *)
(* They share the app_metadata table but no key, so a behaviour is about   *)
(* one of them, chosen at the start, and the others rest.  Model values    *)
(* serve several of them in different roles.                               *)
(***************************************************************************)
EXTENDS ClaimAuthorization, WalletSession, MetadataCleanup, FreshClaimGuard, GpsAnchor,
        FundingClusters, TLC

CONSTANTS a1, a2, r1, r2, r3, d1, d2, x1, x2, x3, v1, v2

VARIABLE part

MCKeys == 1 .. 4

\* Two ticks between any two places.
MCFlight == [p \in Places |-> [q \in Places |-> IF p = q THEN 0 ELSE 2]]

\* r3 is the only request that is not suspicious.
MCSymmetry ==
    Permutations({a1, a2}) \cup Permutations({r1, r2})
    \cup Permutations({d1, d2}) \cup Permutations({v1, v2})

MCInit ==
    /\ part \in {"authorization", "session", "cleanup", "fresh", "gps", "clusters"}
    /\ AuthInit /\ SessionInit /\ CleanupInit /\ FreshInit /\ ClusterInit
    /\ GpsInit /\ user = x1

MCNext ==
    /\ \/ /\ part = "authorization" /\ AuthNext
          /\ UNCHANGED <<sessionVars, cleanupVars, freshVars, gpsVars, clusterVars>>
       \/ /\ part = "session" /\ SessionNext
          /\ UNCHANGED <<authVars, cleanupVars, freshVars, gpsVars, clusterVars>>
       \/ /\ part = "cleanup" /\ CleanupNext
          /\ UNCHANGED <<authVars, sessionVars, freshVars, gpsVars, clusterVars>>
       \/ /\ part = "fresh" /\ FreshNext
          /\ UNCHANGED <<authVars, sessionVars, cleanupVars, gpsVars, clusterVars>>
       \/ /\ part = "gps" /\ GpsNext
          /\ UNCHANGED <<authVars, sessionVars, cleanupVars, freshVars, clusterVars>>
       \/ /\ part = "clusters" /\ ClusterNext
          /\ UNCHANGED <<authVars, sessionVars, cleanupVars, freshVars, gpsVars>>
    /\ UNCHANGED part

MCSpec ==
    MCInit /\ [][MCNext]_<<authVars, sessionVars, cleanupVars, freshVars, gpsVars, clusterVars, part>>
=============================================================================
