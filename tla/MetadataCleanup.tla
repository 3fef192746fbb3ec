-------------------------- MODULE MetadataCleanup --------------------------
(***************************************************************************)
(* The bounded cleanup of ephemeral security metadata that runs with every *)
(* settlement pass: a persistent cursor rotates over the rows in key order *)
(* while requests go on creating, refreshing and ageing them.              *)
(***************************************************************************)
EXTENDS Naturals, FiniteSets, FiniteSetsExt

CONSTANTS
    Keys,      \* the ephemeral keys, as numbers in their order
    Buckets,   \* those that are rolling rate buckets
    Limit      \* MAX_ROWS_PER_PASS

ASSUME CleanupAssumption ==
    Keys \subseteq Nat \ {0} /\ Buckets \subseteq Keys /\ Limit \in Nat \ {0}

VARIABLES
    row,       \* absent, live, partly (a bucket with stamps to prune), expired
    cursor     \* last key inspected, 0 when there is none

cleanupVars == <<row, cursor>>

CleanupTypeOK ==
    /\ row \in [Keys -> {"absent", "live", "partly", "expired"}]
    /\ \A k \in Keys : row[k] = "partly" => k \in Buckets
    /\ cursor \in Keys \cup {0}

CleanupInit == row = [k \in Keys |-> "absent"] /\ cursor = 0

(* A request stores the row, or adds a stamp to a bucket: admit_timestamp   *)
(* drops what has expired.                                                  *)
StoreRow(k) ==
    /\ row[k] = "absent" \/ k \in Buckets
    /\ row' = [row EXCEPT ![k] = "live"]
    /\ UNCHANGED cursor

(* Time passes over the row.                                                *)
AgeRow(k) ==
    /\ \/ row[k] \in {"live", "partly"} /\ row' = [row EXCEPT ![k] = "expired"]
       \/ k \in Buckets /\ row[k] = "live" /\ row' = [row EXCEPT ![k] = "partly"]
    /\ UNCHANGED cursor

(* The row is used up by its request: a challenge or an authorization.      *)
ConsumeRow(k) ==
    /\ k \notin Buckets /\ row[k] = "live"
    /\ row' = [row EXCEPT ![k] = "absent"]
    /\ UNCHANGED cursor

RowsAfter(c) ==
    LET S == {k \in Keys : row[k] # "absent" /\ k > c}
    IN {k \in S : Cardinality({j \in S : j < k}) < Limit}

(* Mutant of PruneValue: a bucket with expired stamps is dropped whole. *)
PruneValueDrops(k) == IF row[k] \in {"partly", "expired"} THEN "absent" ELSE row[k]

PruneValue(k) ==
    CASE row[k] = "expired" -> "absent"
      [] row[k] = "partly" -> "live"
      [] OTHER -> row[k]

(* Mutant of NextCursor: every pass begins with the first page. *)
NextCursorNone(page) == 0

(* The last key inspected, kept although its row may be gone.               *)
NextCursor(page) == IF page = {} THEN 0 ELSE Max(page)

(* cleanup_expired_claim_security_metadata: one transaction                 *)
CleanupPass ==
    LET ahead == RowsAfter(cursor)
        page == IF ahead = {} /\ cursor # 0 THEN RowsAfter(0) ELSE ahead
    IN /\ row' = [k \in Keys |-> IF k \in page THEN PruneValue(k) ELSE row[k]]
       /\ cursor' = NextCursor(page)

CleanupNext ==
    \/ \E k \in Keys : StoreRow(k) \/ AgeRow(k) \/ ConsumeRow(k)
    \/ CleanupPass

(* Every settlement pass ends with a cleanup, whatever the pass returned.   *)
CleanupSpec == CleanupInit /\ [][CleanupNext]_cleanupVars /\ WF_cleanupVars(CleanupPass)

(* A row that has expired is removed, or renewed by its own traffic, even   *)
(* when rows that never expire fill the first page.                         *)
ExpiredRowsGo == \A k \in Keys : row[k] = "expired" ~> row[k] # "expired"

(* Cleanup never lets go of admissions that still count: a bucket is gone   *)
(* only when all of its stamps have expired.                                *)
BucketsCount ==
    [][\A k \in Buckets : row[k] \in {"live", "partly"} => row'[k] # "absent"]_cleanupVars

(* Cleanup removes what has expired, in the end all of it, and nothing else.*)
CleanupIsExact == ExpiredRowsGo /\ BucketsCount
=============================================================================
