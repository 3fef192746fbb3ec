--------------------------- MODULE FundingClusters ---------------------------
(***************************************************************************)
(* The funding-source clusters of wallet_cluster_guard.py.  For each       *)
(* claim signer an origin record names the wallet that funded it first;    *)
(* each source keeps the signers it funded, up to a limit, and flags that  *)
(* outlive them.  The chain is read outside the transaction that moves a   *)
(* signer from one source to another.  Left out: the flag for amounts      *)
(* (similar_pattern), kept exactly as the one for time, and the breadth of *)
(* a source, which only silences what it has.                              *)
(***************************************************************************)
EXTENDS Naturals, FiniteSets

CONSTANTS
    Signers, Sources,
    Observers,      \* concurrent calls of observe
    Fundings,       \* possible times of a first transfer
    MinClaimants, MemberLimit,
    TightWindow,    \* most time between the transfers of a tight cluster
    CacheTime, FailureTime,
    ObserveTime     \* bound of the clock

ASSUME ClusterAssumption ==
    /\ Fundings \subseteq Nat /\ "none" \notin Sources
    /\ {MinClaimants, MemberLimit, CacheTime, FailureTime} \subseteq Nat \ {0}
    /\ MinClaimants =< MemberLimit /\ TightWindow \in Nat /\ ObserveTime \in Nat \ {0}

VARIABLES
    clusterNow,  \* server clock
    origin,      \* durable record of each signer
    source,      \* durable record of each source
    observer     \* calls under way, with what they have read

clusterVars == <<clusterNow, origin, source, observer>>

Nowhere == [from |-> "none", at |-> 0]
Transfers == [from : Sources, at : Fundings] \cup {Nowhere}
NoOrigin == [result |-> "absent", transfer |-> Nowhere, checked |-> 0, refresh |-> 0]
NoSource == [members |-> {}, saturated |-> FALSE, uncertain |-> FALSE, evidence |-> FALSE]
Idle == [at |-> 0]

ClusterInit ==
    /\ clusterNow = 1
    /\ origin = [s \in Signers |-> NoOrigin]
    /\ source = [w \in Sources |-> NoSource]
    /\ observer = [o \in Observers |-> Idle]

-----------------------------------------------------------------------------
\* The bookkeeping of one source record.  A member is a signer and its time.

Who(members) == {m.signer : m \in members}

\* _pattern
Tight(members) ==
    /\ Cardinality(Who(members)) >= MinClaimants
    /\ \A m, n \in members : n.at =< m.at + TightWindow

Doubtful(c) == [c EXCEPT !.uncertain = TRUE, !.evidence = FALSE]
\* Mutant of Recomputed: evidence is never taken back.
RecomputedNever(c, members) == [c EXCEPT !.members = members, !.evidence = @ \/ Tight(members)]
Recomputed(c, members) == [c EXCEPT !.members = members, !.evidence = Tight(members)]

\* A new signer beyond the limit is only counted; evidence is never erased by one.
Joined(c, m) ==
    LET full == Cardinality(c.members) >= MemberLimit
        members == IF full THEN c.members ELSE c.members \cup {m}
    IN [c EXCEPT !.members = members, !.saturated = @ \/ full,
                 !.evidence = @ \/ Tight(members)]

\* _add_member
AddMember(c, m, corrects) ==
    LET old == {n \in c.members : n.signer = m.signer}
    IN IF c.uncertain \/ old = {m} THEN c
       ELSE IF c.saturated /\ (old # {} \/ corrects) THEN Doubtful(c)
       ELSE IF old # {} THEN Recomputed(c, (c.members \ old) \cup {m})
       ELSE Joined(c, m)

\* Mutant of RemoveMember: the signer that left stays a member.
RemoveMemberNot(c, s) == c

\* _remove_member
RemoveMember(c, s) ==
    IF c.saturated THEN Doubtful(c)
    ELSE IF s \in Who(c.members) THEN Recomputed(c, {n \in c.members : n.signer # s})
    ELSE c

-----------------------------------------------------------------------------
\* observe: one call for one signer.

\* A record that need not be refreshed answers the call, which changes nothing.
BeginObserve(o, s) ==
    /\ observer[o] = Idle
    /\ origin[s].refresh =< clusterNow
    /\ observer' = [observer EXCEPT ![o] = [signer |-> s, at |-> clusterNow]]
    /\ UNCHANGED <<clusterNow, origin, source>>

\* The except branch.
LookupFails(o) ==
    /\ observer[o] # Idle
    /\ LET s == observer[o].signer
           at == observer[o].at
       IN origin' = IF origin[s].result # "observed" /\ origin[s].checked =< at
                    THEN [origin EXCEPT ![s] = [result |-> "provider_failure", transfer |-> Nowhere,
                                                checked |-> at, refresh |-> at + FailureTime]]
                    ELSE origin
    /\ observer' = [observer EXCEPT ![o] = Idle]
    /\ UNCHANGED <<clusterNow, source>>

\* A lookup that began no later has been stored meanwhile.
Wins(s, at) == origin[s].result = "observed" /\ origin[s].checked >= at

Corrects(s, t) ==
    /\ origin[s].result = "observed"
    /\ origin[s].transfer.from = t.from /\ origin[s].transfer # t

\* The source that had the signer so far.
Left(s, t) == {origin[s].transfer.from} \ {t.from, "none"}

\* The history names a first transfer, or none.
ObserveCommit(o, t) ==
    /\ observer[o] # Idle
    /\ LET s == observer[o].signer
           at == observer[o].at
           member == [signer |-> s, at |-> t.at]
       IN \/ Wins(s, at) /\ UNCHANGED <<origin, source>>
          \/ /\ ~Wins(s, at)
             /\ origin' = [origin EXCEPT ![s] = [result |-> "observed", transfer |-> t,
                                                 checked |-> at, refresh |-> at + CacheTime]]
             /\ source' = [w \in Sources |->
                             IF w = t.from THEN AddMember(source[w], member, Corrects(s, t))
                             ELSE IF w \in Left(s, t) THEN RemoveMember(source[w], s)
                             ELSE source[w]]
    /\ observer' = [observer EXCEPT ![o] = Idle]
    /\ UNCHANGED clusterNow

ClusterTick ==
    /\ clusterNow < ObserveTime /\ clusterNow' = clusterNow + 1
    /\ UNCHANGED <<origin, source, observer>>

ObserversCrash ==
    /\ \E o \in Observers : observer[o] # Idle
    /\ observer' = [o \in Observers |-> Idle]
    /\ UNCHANGED <<clusterNow, origin, source>>

ClusterNext ==
    \/ \E o \in Observers :
          \/ \E s \in Signers : BeginObserve(o, s)
          \/ \E t \in Transfers : ObserveCommit(o, t)
          \/ LookupFails(o)
    \/ ClusterTick \/ ObserversCrash

ClusterSpec == ClusterInit /\ [][ClusterNext]_clusterVars

-----------------------------------------------------------------------------
ClusterTypeOK ==
    /\ clusterNow \in 1 .. ObserveTime
    /\ \A s \in Signers : origin[s].transfer \in Transfers
    /\ \A w \in Sources : Who(source[w].members) \subseteq Signers
                          /\ Cardinality(source[w].members) =< MemberLimit
    /\ \A o \in Observers : observer[o].at =< clusterNow

\* The signers the origin records give to a source.
Funded(w) == {[signer |-> s, at |-> origin[s].transfer.at] : s \in {x \in Signers : origin[x].transfer.from = w}}

\* observe, "Never combine its source with this request's stale amount /
\* timestamp", and _add_member, "superseded timestamps or amounts cannot
\* remain punitive": whichever lookup comes first, the members of a source
\* are the signers whose origin it is, all of them below the limit, and its
\* evidence rests on a tight group of signers it still has.
ClustersAreGrounded ==
    \A w \in Sources :
        ~source[w].uncertain =>
            /\ source[w].members \subseteq Funded(w)
            /\ ~source[w].saturated => source[w].members = Funded(w)
            /\ source[w].evidence => \E group \in SUBSET Funded(w) : Tight(group)
=============================================================================
