------------------------------ MODULE Redaction ------------------------------
(***************************************************************************)
(* The redaction engine of the analytics log (analytics/redaction.py): the *)
(* recursive sanitizer, with the node and depth budget it shares over one  *)
(* call, and the endpoint normaliser.  A document is a tree of leaves and  *)
(* containers; a key is plain, sensitive, or one of the correlation keys   *)
(* that are exempt; a text is plain, sensitive, or already a marker.       *)
(***************************************************************************)
EXTENDS Naturals, Sequences, SequencesExt

CONSTANTS Budgets,    \* the max_total_nodes and max_depth an engine may be configured with
          Segments    \* classes of an endpoint's path segments, "" and "{id}" among them

VARIABLES document, original, budget,   \* the value being sanitized, as given, and the engine's limits
          endpoint,                     \* the path being normalised, a sequence of segment classes
          passes                        \* how often the two were sanitized

redactionVars == <<document, original, budget, endpoint, passes>>

Leaf(kind, text) == [kind |-> kind, text |-> text, items |-> <<>>]
Holder(kind, items) == [kind |-> kind, text |-> "", items |-> items]
Marker == Leaf("str", "marker")
NoField == "none"
Containers == {"map", "list"}

Leaves == {Leaf("str", t) : t \in {"plain", "sensitive", "marker"}}
          \cup {Leaf("bytes", "plain"), Leaf("number", "plain")}
Items(kind, nodes) ==
    {<<k, n>> : k \in (IF kind = "map" THEN {"plain", "sensitive", "correlation"} ELSE {NoField}), n \in nodes}
Upto1(kind, nodes) == {Holder(kind, <<>>)} \cup {Holder(kind, <<i>>) : i \in Items(kind, nodes)}
Nested == Leaves \cup UNION {Upto1(kind, Leaves) : kind \in Containers}
Documents == UNION {{Holder(kind, <<i, j>>) : i, j \in Items(kind, Nested)} : kind \in Containers}

-----------------------------------------------------------------------------
\* _is_sensitive_field, _is_sensitive_value: hints and patterns, by class.
_is_sensitive_field(field) == field = "sensitive"
_is_sensitive_value(text) == text = "sensitive"

\* The tracker: how many nodes were visited and whether a limit stopped the walk.
_make_tracker == [nodes |-> 0, stopped |-> FALSE]
_increment_nodes(t, depth) ==
    [nodes |-> t.nodes + 1,
     stopped |-> t.stopped \/ t.nodes + 1 > budget.nodes \/ depth > budget.depth]
Within(t, depth) == t.nodes <= budget.nodes /\ depth <= budget.depth

\* A correlation key exempts its text even when the text is sensitive.
_sanitize_string_by_key(text, field, category) ==
    IF text # "marker" /\ field # "correlation" /\ category THEN Marker ELSE Leaf("str", text)
_sanitize_string(text, field, category) ==
    IF text = "marker" \/ field = "correlation" THEN Leaf("str", text)
    ELSE IF category \/ _is_sensitive_value(text) THEN Marker ELSE Leaf("str", text)

\* Bytes become a summary of length and digest, or a marker under a sensitive key.
_sanitize_bytes(field) == IF _is_sensitive_field(field) THEN Marker ELSE Leaf("str", "plain")

RECURSIVE _sanitize_any(_, _, _, _, _), SanitizeItems(_, _, _, _, _)
\* _sanitize_any: <<the sanitized value, the tracker>>.
_sanitize_any(v, field, depth, tracker, parent) ==
    LET t        == _increment_nodes(tracker, depth)
        category == parent \/ _is_sensitive_field(field)
    IN  IF ~Within(t, depth) THEN <<Marker, t>>
        ELSE CASE v.kind = "str"    -> <<_sanitize_string(v.text, field, category), t>>
               [] v.kind = "bytes"  -> <<_sanitize_bytes(field), t>>
               [] v.kind = "number" -> <<v, t>>
               [] OTHER -> LET r == SanitizeItems(v.items, depth + 1, t, category, <<>>)
                           IN  <<Holder(v.kind, r[1]), r[2]>>

\* The loops over a container.  Below a sensitive key every scalar becomes a marker and
\* every container is entered as sensitive; the walk stops at the first exhausted budget.
SanitizeItems(items, depth, t, category, done) ==
    IF items = <<>> THEN <<done, t>>
    ELSE LET key == items[1][1]
             v   == items[1][2]
             t1  == _increment_nodes(t, depth)
             r   == IF ~category THEN _sanitize_any(v, key, depth, t, FALSE)
                    ELSE IF v.kind \in Containers THEN _sanitize_any(v, key, depth, t1, TRUE)
                    ELSE <<Marker, t1>>
         IN  IF category /\ ~Within(t1, depth) THEN <<done, t1>>
             ELSE IF ~category /\ t.stopped THEN <<done, t>>
             ELSE SanitizeItems(Tail(items), depth, r[2], category, Append(done, <<key, r[1]>>))

sanitize(v) == _sanitize_any(v, NoField, 0, _make_tracker, FALSE)[1]

\* sanitize_endpoint_pattern: identifiers are masked, empty segments dropped, and a run
\* of masked segments kept once.
Masked(segment) == IF segment = "identifier" THEN "{id}" ELSE segment
sanitize_endpoint_pattern_dedupe_first(path) ==
    LET named == SelectSeq(path, LAMBDA s : s # "")
        run(i) == named[i] = "{id}" /\ i > 1 /\ named[i - 1] = "{id}"
        kept  == SelectSeq([i \in 1 .. Len(named) |-> i], LAMBDA i : ~run(i))
    IN  [i \in DOMAIN kept |-> Masked(named[kept[i]])]
sanitize_endpoint_pattern(path) ==
    LET named == SelectSeq(path, LAMBDA s : s # "")
        masked == [i \in DOMAIN named |-> Masked(named[i])]
        kept  == SelectSeq([i \in 1 .. Len(masked) |-> i],
                           LAMBDA i : ~(masked[i] = "{id}" /\ i > 1 /\ masked[i - 1] = "{id}"))
    IN  [i \in DOMAIN kept |-> masked[kept[i]]]

\* A document or the path of an endpoint, and the limits of the engine it meets.
SanitizerInputs ==
    [document : Documents, endpoint : {<<>>}, budget : Budgets]
    \cup [document : {Holder("list", <<>>)}, endpoint : BoundedSeq(Segments, 4), budget : Budgets]

RedactionInit(inputs) ==
    \E i \in inputs :
        /\ document = i.document /\ original = i.document
        /\ endpoint = i.endpoint /\ budget = i.budget /\ passes = 0

Sanitize ==
    /\ passes < 2 /\ passes' = passes + 1
    /\ document' = sanitize(document) /\ endpoint' = sanitize_endpoint_pattern(endpoint)
    /\ UNCHANGED <<original, budget>>

RedactionNext == Sanitize

-----------------------------------------------------------------------------
\* The reference: the places of a document, each the sequence of keys leading to a leaf.
Places(v) == [1 .. 1 -> 1 .. Len(v.items)] \cup [1 .. 2 -> 1 .. 2]
IsPlace(v, p) == /\ p[1] \in DOMAIN v.items
                 /\ Len(p) = 2 => p[2] \in DOMAIN v.items[p[1]][2].items
At(v, p)   == IF Len(p) = 1 THEN v.items[p[1]][2] ELSE v.items[p[1]][2].items[p[2]][2]
KeysTo(v, p) == IF Len(p) = 1 THEN <<v.items[p[1]][1]>>
                ELSE <<v.items[p[1]][1], v.items[p[1]][2].items[p[2]][1]>>
MayShow(v, p) ==
    LET keys == KeysTo(v, p) text == At(v, p).text
    IN  \/ text = "marker"
        \/ Last(keys) = "correlation" /\ "sensitive" \notin ToSet(Front(keys))
        \/ "sensitive" \notin ToSet(keys) /\ text # "sensitive"

(* What the sanitizer leaves of a document: no text below a sensitive key, and no text
   that matches a sensitive pattern, outside a correlation field, whatever the nesting
   and wherever the budget ran out; and the shape of what is kept is that of the input,
   so that a place in the result is the same place of the document. *)
SensitiveTextIsGone ==
    passes > 0 => \A p \in Places(document) : IsPlace(document, p) =>
        /\ IsPlace(original, p) /\ KeysTo(document, p) = KeysTo(original, p)
        /\ At(document, p).kind = "str" /\ At(original, p).kind = "str"
              => At(document, p) = Marker \/ MayShow(original, p)

(* Sanitizing what is already sanitized changes nothing: the log re-checks endpoints by
   normalising them again and comparing (validate_log_export_safety), and markers are
   recognised (allow_idempotent). *)
SanitizingIsStable ==
    passes = 1 => document' = document /\ endpoint' = endpoint
=============================================================================
