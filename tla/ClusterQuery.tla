---------------------------- MODULE ClusterQuery -----------------------------
(***************************************************************************)
(* The read side of blockchain_cluster beside its write side: the requests *)
(* of queryservice that take more than one statement, and the metrics      *)
(* scrape, against the evidence and the cluster cache of MergeStore, which *)
(* the consumer and an operator go on changing.  Each statement is a step; *)
(* no two share a transaction.                                             *)
(*                                                                         *)
(* A request's confidence threshold is either none, answered from the      *)
(* cache, or one that the candidates of Strong reach, answered by a replay *)
(* of the active evidence at each read.                                    *)
(***************************************************************************)
EXTENDS Integers, Sequences, FiniteSets

CONSTANTS
    Address, None, Cand, AddressA, AddressB, BlockOf, Ops, MaxFaults, MaxCorrections,
    Strong,         \* the candidates whose confidence reaches the threshold
    Rank,           \* [Address -> Nat]: the order of the addresses' strings
    Limit,          \* the page size a client asks for
    EvidenceLimit   \* how many members handleEvidenceOf looks at (100000)

(* What MergeStore assumes of its constants; the tables hold finitely many *)
(* addresses.                                                              *)
ASSUME StoreAssumption ==
    /\ AddressA \in [Cand -> Address] /\ AddressB \in [Cand -> Address]
    /\ None \notin Address /\ IsFiniteSet(Address)
    /\ Len(Ops) \in Nat /\ DOMAIN Ops = 1..Len(Ops)
    /\ \A k \in 1..Len(Ops) :
          \/ Ops[k].kind = "run" /\ Ops[k].cands \in Seq(Cand) /\ Ops[k].hubs \subseteq Address
          \/ Ops[k].kind = "reorg"
    /\ MaxFaults \in Nat /\ MaxCorrections \in Nat

ASSUME QueryAssumption ==
    /\ Strong \subseteq Cand
    /\ Rank \in [Address -> Nat] /\ \A a, b \in Address : Rank[a] = Rank[b] => a = b
    /\ Limit \in Nat \ {0} /\ EvidenceLimit \in Nat \ {0}

VARIABLES
    evidence, hub, cache, done, committed, dropped, tries, pc, next, list, changed, scan,
    faults, corrections, hit,   \* MergeStore's
    req,      \* the request in hand
    phase,    \* "idle", the request's next statement, or "answer"
    views,    \* the clusterings its reads of clusters saw, in order
    listed,   \* [Address -> Nat]: how often an address was listed
    offset,   \* the offset of the next page
    found,    \* positions of the evidence rows returned or counted
    answer    \* what SameCluster returned

store == <<evidence, hub, cache, done, committed, dropped, tries, pc, next, list, changed, scan,
           faults, corrections, hit>>
query == <<req, phase, views, listed, offset, found, answer>>
vars == <<store, query>>

Store == INSTANCE MergeStore
-----------------------------------------------------------------------------
(* The view of the clusters a statement gets: the cache, or a replay of    *)
(* the evidence that reaches the threshold.                                *)
ThresholdView == Store!Replay(Store!ActiveOf(evidence, Strong))

View(strict) == IF strict THEN ThresholdView ELSE cache

Members(view, id) == {a \in Address : view[a] = id}

(* Mutant of Page: the first address of the slice is lost. *)
PageShort(members, limit, from) ==
    {a \in members : LET n == Cardinality({b \in members : Rank[b] < Rank[a]})
                     IN  from < n /\ n < from + limit}

(* MembersOf: a slice of the members in the order of their addresses. *)
Page(members, limit, from) ==
    {a \in members : LET n == Cardinality({b \in members : Rank[b] < Rank[a]})
                     IN  from <= n /\ n < from + limit}

NoRequest == [kind |-> "none"]

Fresh ==
    /\ req = NoRequest
    /\ phase = "idle"
    /\ views = <<>>
    /\ listed = [a \in Address |-> 0]
    /\ offset = 0
    /\ found = {}
    /\ answer = FALSE

Init == Store!Init /\ Fresh

(* Mutant of SameFirst: that the address has a cluster is not checked. *)
SameFirstUnchecked ==
    /\ phase = "idle"
    /\ \E a, b \in Address, strict \in BOOLEAN :
          /\ req' = [kind |-> "same", a |-> a, b |-> b, strict |-> strict]
          /\ views' = <<View(strict)>>
    /\ phase' = "second"
    /\ answer' = FALSE
    /\ UNCHANGED <<store, listed, offset, found>>

(* same_cluster, the first ClusterOf: an address without a cluster is      *)
(* answered at once.                                                       *)
SameFirst ==
    /\ phase = "idle"
    /\ \E a, b \in Address, strict \in BOOLEAN :
          /\ req' = [kind |-> "same", a |-> a, b |-> b, strict |-> strict]
          /\ views' = <<View(strict)>>
          /\ phase' = IF View(strict)[a] = None THEN "answer" ELSE "second"
    /\ answer' = FALSE
    /\ UNCHANGED <<store, listed, offset, found>>

(* ... and the second, compared with what the first one found.             *)
SameSecond ==
    /\ phase = "second"
    /\ views' = Append(views, View(req.strict))
    /\ answer' = (View(req.strict)[req.b] = views[1][req.a])
    /\ phase' = "answer"
    /\ UNCHANGED <<store, req, listed, offset, found>>

(* members_of, page after page until one is empty. *)
ReadPage(id, strict) ==
    LET page == Page(Members(View(strict), id), Limit, offset) IN
    /\ views' = Append(views, View(strict))
    /\ listed' = [a \in Address |-> listed[a] + (IF a \in page THEN 1 ELSE 0)]
    /\ offset' = offset + Limit
    /\ phase' = IF page = {} THEN "answer" ELSE "page"

FirstPage ==
    /\ phase = "idle"
    /\ \E id \in Address, strict \in BOOLEAN :
          /\ req' = [kind |-> "members", id |-> id, strict |-> strict]
          /\ ReadPage(id, strict)
    /\ UNCHANGED <<store, found, answer>>

NextPage ==
    /\ phase = "page"
    /\ ReadPage(req.id, req.strict)
    /\ UNCHANGED <<store, req, found, answer>>

(* evidence_of a cluster: its members by the cache ... *)
EvidenceMembers ==
    /\ phase = "idle"
    /\ \E id \in Address :
          /\ req' = [kind |-> "evidence", id |-> id]
          /\ listed' = [a \in Address |->
                IF a \in Page(Members(cache, id), EvidenceLimit, 0) THEN 1 ELSE 0]
    /\ views' = <<cache>>
    /\ phase' = "rows"
    /\ UNCHANGED <<store, offset, found, answer>>

(* Mutant of ByAddresses: only rows that still count. *)
ByAddressesActive(as) ==
    {i \in DOMAIN evidence :
        evidence[i].status = "active" /\ Store!Ends(evidence[i].cand) \cap as # {}}

ByAddresses(as) == {i \in DOMAIN evidence : Store!Ends(evidence[i].cand) \cap as # {}}

(* ... then every row, whatever its status, that touches one of them.      *)
EvidenceRows ==
    /\ phase = "rows"
    /\ found' = ByAddresses({a \in Address : listed[a] > 0})
    /\ phase' = "answer"
    /\ UNCHANGED <<store, req, views, listed, offset, answer>>

(* The scrape of a chain: clusters, active rows, invalidated rows.  If the *)
(* clusters cannot be read the rows are counted all the same.              *)
ScrapeClusters ==
    /\ phase = "idle"
    /\ \E ok \in BOOLEAN :
          req' = [kind |-> "scrape", rows |-> Len(evidence), failed |-> ~ok]
    /\ views' = <<cache>>
    /\ phase' = "active"
    /\ UNCHANGED <<store, listed, offset, found, answer>>

(* Mutant of Counts: the invalidated rows are counted first. *)
CountsSwapped(n) ==
    IF n = 1 THEN {<<i, "invalidated">> : i \in DOMAIN evidence \ Store!Active}
    ELSE {<<i, "active">> : i \in Store!Active}

(* The rows the two queries of collectMergeEvidenceStats count. *)
Counts(n) ==
    IF n = 1 THEN {<<i, "active">> : i \in Store!Active}
    ELSE {<<i, "invalidated">> : i \in DOMAIN evidence \ Store!Active}

ScrapeActive ==
    /\ phase = "active"
    /\ found' = Counts(1)
    /\ phase' = "invalid"
    /\ UNCHANGED <<store, req, views, listed, offset, answer>>

ScrapeInvalid ==
    /\ phase = "invalid"
    /\ found' = found \cup Counts(2)
    /\ phase' = "answer"
    /\ UNCHANGED <<store, req, views, listed, offset, answer>>

(* A query fails: the rest of the section is left out.                     *)
SectionFails ==
    /\ phase \in {"active", "invalid"}
    /\ req' = [req EXCEPT !.failed = TRUE]
    /\ phase' = "answer"
    /\ UNCHANGED <<store, views, listed, offset, found, answer>>

(* Mutant of Reply: the offset is carried over to the next request. *)
ReplyKeepingOffset ==
    /\ phase # "idle"
    /\ req' = NoRequest
    /\ phase' = "idle"
    /\ views' = <<>>
    /\ listed' = [a \in Address |-> 0]
    /\ found' = {}
    /\ answer' = FALSE
    /\ UNCHANGED <<store, offset>>

(* The answer is sent, or a statement failed and an error is. *)
Reply ==
    /\ phase # "idle"
    /\ req' = NoRequest
    /\ phase' = "idle"
    /\ views' = <<>>
    /\ listed' = [a \in Address |-> 0]
    /\ offset' = 0
    /\ found' = {}
    /\ answer' = FALSE
    /\ UNCHANGED store

Query ==
    \/ SameFirst \/ SameSecond \/ FirstPage \/ NextPage
    \/ EvidenceMembers \/ EvidenceRows
    \/ ScrapeClusters \/ ScrapeActive \/ ScrapeInvalid \/ SectionFails
    \/ Reply

Write == Store!Next /\ UNCHANGED query

Next == Query \/ Write

Spec == Init /\ [][Next]_vars
-----------------------------------------------------------------------------
(* Every variable keeps its type, and nothing of a request outlives it.    *)
TypeOK ==
    /\ Store!TypeOK
    /\ req.kind \in {"none", "same", "members", "evidence", "scrape"}
    /\ phase \in {"idle", "second", "page", "rows", "active", "invalid", "answer"}
    /\ \A i \in DOMAIN views : views[i] \in [Address -> Address \cup {None}]
    /\ listed \in [Address -> Nat]
    /\ offset \in Nat
    /\ answer \in BOOLEAN
    /\ phase = "idle" => Fresh

Answered(kind) == phase = "answer" /\ req.kind = kind

(* In view v the addresses a and b are of one cluster. *)
Together(v, a, b) == v[a] # None /\ v[a] = v[b]

(* Whatever is together in view v is together in view w. *)
Grows(v, w) == \A a, b \in Address : Together(v, a, b) => Together(w, a, b)

(* SameCluster never claims what neither of its two reads saw: when the    *)
(* clusters only grew, or only split, between them, a positive answer is   *)
(* true of the later, or the earlier, view.  It rests on the id being that *)
(* of a member.                                                            *)
SameIsNotInvented ==
    Answered("same") /\ answer =>
        /\ Grows(views[1], views[2]) => Together(views[2], req.a, req.b)
        /\ Grows(views[2], views[1]) => Together(views[1], req.a, req.b)

(* Addresses that are of one cluster at both reads are reported to be      *)
(* (cluster/store.go:190-192).                                             *)
TogetherIsSame ==
    Answered("same") /\ (\A i \in DOMAIN views : Together(views[i], req.a, req.b)) => answer

(* A client that pages through a cluster misses a member only if it, or    *)
(* one before it in the order of the addresses, left meanwhile, and gets   *)
(* each member once if nothing changed: a page is found by counting from   *)
(* the start, so members that join shift others to later pages, never to   *)
(* earlier ones.                                                           *)
MissedOnlyAfterLeave ==
    Answered("members") =>
        LET m(i) == Members(views[i], req.id)
            stays(i, a) == \A b \in m(i - 1) : Rank[b] <= Rank[a] => b \in m(i)
        IN
        /\ \A a \in m(1) : (\A i \in DOMAIN views : i > 1 => stays(i, a)) => listed[a] > 0
        /\ (\A i \in DOMAIN views : m(i) = m(1)) =>
               \A a \in Address : listed[a] = IF a \in m(1) THEN 1 ELSE 0

(* A client that pages through a cluster gets every address that is a      *)
(* member at each of its reads (handlers.go:38, "paginated cluster         *)
(* membership").                                                           *)
MembersAllAlongAreListed ==
    Answered("members") =>
        \A a \in Address :
            (\A i \in DOMAIN views : a \in Members(views[i], req.id)) => listed[a] > 0

(* The rows evidence_of returns, the invalidated ones included, link all   *)
(* the members it found, whatever was recorded, rolled back or corrected   *)
(* between the rebuild that made the cluster and the read of the rows: the *)
(* audit trail of a cluster is never cut.                                  *)
EvidenceExplainsCluster ==
    Answered("evidence") =>
        LET members == Members(views[1], req.id)
            ends(i) == Store!Ends(evidence[i].cand)
        IN  Cardinality(members) <= EvidenceLimit =>
               \A S \in SUBSET members :
                   S # {} /\ S # members => \E i \in found :
                       ends(i) \cap S # {} /\ ends(i) \cap (members \ S) # {}

(* A scrape counts every evidence row that was there when it began at      *)
(* least once, active or invalidated, and finds rows for every cluster it  *)
(* counted, although its statements see different states.                  *)
ScrapeMissesNoRow ==
    Answered("scrape") /\ ~req.failed =>
        /\ \A i \in 1..req.rows : \E s \in {"active", "invalidated"} : <<i, s>> \in found
        /\ Cardinality({views[1][a] : a \in Address} \ {None}) <= Cardinality(found)
=============================================================================
