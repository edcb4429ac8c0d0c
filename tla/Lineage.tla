------------------------------- MODULE Lineage -------------------------------
(***************************************************************************)
(* Derivative lineage: POST /api/proofs/lineage (app.py), the manifest and *)
(* graph checks (lineage.py) and the lineage_events table (db.py).  The    *)
(* ancestry walk reads one record per query, and the walk, the duplicate   *)
(* check and the insert are separate transactions.                         *)
(***************************************************************************)
EXTENDS Migrations, Functions

CONSTANTS Registrants,      \* requests in progress
          Artifacts,        \* proof ids and output digests
          ParentLists,      \* the lists of parents that requests carry
          MaxFanout,        \* MAX_LINEAGE_FANOUT
          MaxLineage        \* bound on the records inserted

ASSUME LineageAssumption == ParentLists \subseteq Seq(Artifacts)

VARIABLES lineage,    \* lineage_events: sequence of [output, parents, began]; began, a ghost,
                      \* is the number of records there were when the request began
          request     \* registrant -> its request

lineageVars == <<lineage, request>>

NoRequest == [pc |-> "idle", output |-> 0, parents |-> <<>>, roots |-> <<>>, stack |-> <<>>,
              visited |-> {}, began |-> 0]

LineageInit == lineage = <<>> /\ request = [r \in Registrants |-> NoRequest]

\* canonical_lineage_manifest: the parents, of which there must be one and not too many
\* (the other fields are present, well formed and small).
canonical_lineage_manifest(parents) == parents # <<>> /\ Len(parents) <= MaxFanout

\* find_lineage_by_output_digest: any one of the records with that output ("limit 1").
find_lineage_by_output_digest(digest) == {rec \in Range(lineage) : rec.output = digest}

Finish(r) == request' = [request EXCEPT ![r] = NoRequest] /\ UNCHANGED lineage

\* validate_lineage_graph: the next parent to walk from, with an empty visited set, when
\* the walk from the last one found nothing; after the last, the duplicate check.
validate_lineage_graph(q) ==
    IF q.stack # <<>> THEN q
    ELSE IF q.roots = <<>> THEN [q EXCEPT !.pc = "duplicate", !.visited = {}]
    ELSE [q EXCEPT !.roots = Tail(@), !.stack = <<Head(q.roots)>>, !.visited = {}]

\* The request arrives; a parent that is the output is refused before any query.
register_lineage_event(r) ==
    /\ request[r].pc = "idle" /\ Len(lineage) < MaxLineage
    /\ \E output \in Artifacts, parents \in ParentLists :
          /\ canonical_lineage_manifest(parents) /\ output \notin Range(parents)
          /\ request' = [request EXCEPT ![r] = validate_lineage_graph(
                [NoRequest EXCEPT !.pc = "walk", !.output = output, !.parents = parents,
                                  !.roots = parents, !.began = Len(lineage)])]
    /\ UNCHANGED lineage

Visited(r, more) ==
    LET q == request[r] IN
    /\ request' = [request EXCEPT ![r] = validate_lineage_graph(
          [q EXCEPT !.stack = more \o Tail(@), !.visited = @ \cup {Head(q.stack)}])]
    /\ UNCHANGED lineage

_contains_in_ancestry_parents_only(r) ==
    LET q == request[r] IN
    q.pc = "walk" /\ IF Head(q.stack) = q.output THEN Finish(r) ELSE Visited(r, <<>>)
\* One call of _contains_in_ancestry: one id, one query, its parents to visit next.
_contains_in_ancestry(r) ==
    LET q == request[r] id == Head(q.stack)
        found == find_lineage_by_output_digest(id)
    IN  /\ q.pc = "walk"
        /\ \/ id \in q.visited /\ Visited(r, <<>>)
           \/ id \notin q.visited /\ id = q.output /\ Finish(r)
           \/ id \notin q.visited /\ id # q.output /\ found = {} /\ Visited(r, <<>>)
           \/ /\ id \notin q.visited /\ id # q.output
              /\ \E rec \in found : Visited(r, rec.parents)

\* "Check for duplicate submission"
check_duplicate(r) ==
    /\ request[r].pc = "duplicate"
    /\ IF find_lineage_by_output_digest(request[r].output) # {} THEN Finish(r)
       ELSE request' = [request EXCEPT ![r].pc = "insert"] /\ UNCHANGED lineage

\* insert_lineage_event: on conflict (manifest_digest) do nothing, answered with 500.
insert_lineage_event(r) ==
    LET q == request[r]
        rec == [output |-> q.output, parents |-> q.parents, began |-> q.began]
        same == \E e \in Range(lineage) : e.output = q.output /\ e.parents = q.parents
    IN  /\ q.pc = "insert"
        /\ lineage' = IF same THEN lineage ELSE Append(lineage, rec)
        /\ request' = [request EXCEPT ![r] = NoRequest]

LineageNext == \E r \in Registrants :
    \/ register_lineage_event(r) \/ _contains_in_ancestry(r)
    \/ check_duplicate(r) \/ insert_lineage_event(r)

LineageSpec == LineageInit /\ [][LineageNext]_lineageVars

-----------------------------------------------------------------------------

\* What an artifact was derived from, by the records there are.
Derived(a) == UNION {Range(rec.parents) : rec \in find_lineage_by_output_digest(a)}

\* No artifact is its own ancestor: of any artifacts, one has no parent among them.
Acyclic == \A S \in SUBSET Artifacts : S # {} => \E a \in S : Derived(a) \cap S = {}
Unoverlapped == \A i \in DOMAIN lineage : lineage[i].began = i - 1

(* As long as no registration overlapped another, nothing is its own ancestor and every
   output has one record: the walk sees every path to the output, however long, and the
   duplicate check every record.  (With overlapping requests neither is guaranteed: the
   table has no constraint on the output digest.) *)
LineageSoundAlone ==
    Unoverlapped => /\ Acyclic
                    /\ \A i, j \in DOMAIN lineage : i # j => lineage[i].output # lineage[j].output

(* The two append-only ledgers of the database tell the truth: the one of migrations is
   not ahead of the schema, whichever process died while starting, and in the one of
   lineage nothing is its own ancestor as long as registrations do not overlap. *)
LedgersAreSound == LedgerBehindSchema /\ LineageSoundAlone
=============================================================================
