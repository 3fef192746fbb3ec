------------------------------ MODULE MCReads -------------------------------
(***************************************************************************)
(* What is shown of the Spots: the read cache and the announcements on X.  *)
(* A behaviour is about one scenario, chosen at the start:                 *)
(*   serial   one task of the event loop at a time                         *)
(*   overlap  the refreshes of two tasks interleave                        *)
(*   poster   the announcement worker                                      *)
(***************************************************************************)
EXTENDS CacheRefresh, XAutoPoster

CONSTANTS s1, s2, u1, u2, x1

VARIABLE part

\* Two Spots of one owner: the clock starts one, then ends the other.
MCOwner == [s \in Spots |-> u1]
MCStarts == [s \in Spots |-> IF s = s1 THEN 0 ELSE 1]
MCEnds == [s \in Spots |-> IF s = s1 THEN 2 ELSE 9]
MCSpotOf == [x \in Trans |-> s1]

Overlapping == INSTANCE CacheRefresh WITH
    Overlap <- TRUE, Users <- {u1}, MaxNames <- 0, MaxTime <- 1

MCInit ==
    /\ part \in {"serial", "overlap", "poster"}
    /\ IF part = "overlap" THEN Overlapping!CacheInit
       ELSE CacheInit /\ (part = "poster" => seen[1] = u1)
    /\ PosterInit

MCNext ==
    /\ \/ /\ \/ part = "serial" /\ CacheNext
             \/ part = "overlap" /\ Overlapping!CacheNext /\ UNCHANGED trans
          /\ UNCHANGED posterVars
       \/ part = "poster" /\ PosterNext /\ UNCHANGED cacheVars
    /\ UNCHANGED part

MCSpec == MCInit /\ [][MCNext]_<<cacheVars, posterVars, part>>
=============================================================================
