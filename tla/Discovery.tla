------------------------------ MODULE Discovery ------------------------------
(***************************************************************************)
(* What the extension does with an answer of list_naming_instance: the     *)
(* rows are extracted, filtered and normalized (naming.list_instances),    *)
(* and one of them may be chosen (select_instance).                        *)
(*                                                                         *)
(* A row is abstracted to what these steps tell apart.  "missing" is a     *)
(* field that is absent or None.                                           *)
(***************************************************************************)
EXTENDS Sequences, Naturals

CONSTANT Clusters   \* names of clusters; a missing one counts as DEFAULT

Default == "DEFAULT"

(* metadata speaks of one key: its value, no such key, or no dictionary.   *)
(* A "malformed" weight is also a missing one, "zero" is also negative;    *)
(* "huge" weights are finite and have no finite sum.                       *)
Row == [cluster : Clusters \cup {Default, "missing"},
        metadata : {"v", "w", "missing", "malformed"},
        endpoint : {"valid", "malformed"},
        weight : {"positive", "huge", "zero", "malformed"}]

(* A filter by cluster or by metadata may be absent.  A filter for the     *)
(* value None is written "missing".                                        *)
NoFilter == "none"
Query == [cluster : Clusters \cup {Default, NoFilter}, metadata : {"v", "missing", NoFilter}]

Strategies == {"first", "random", "weight"}

(***************************************************************************)
(* discovery.py                                                            *)
(***************************************************************************)

(* _get_field with its default *)
ClusterOf(row) == IF row.cluster = "missing" THEN Default ELSE row.cluster

(* inst_metadata.get(key) is None for a missing key; what is no dictionary *)
(* matches nothing.                                                        *)
MatchesFilters(row, query) ==
    /\ query.cluster # NoFilter => ClusterOf(row) = query.cluster
    /\ query.metadata # NoFilter => row.metadata = query.metadata

(* A list built in a loop: the rows at the places, in their order *)
RowsAt(rows, places) ==
    LET kept[n \in 0 .. Len(rows)] ==
            IF n = 0 THEN <<>>
            ELSE IF n \in places THEN Append(kept[n - 1], rows[n]) ELSE kept[n - 1]
    IN  kept[Len(rows)]

FilterInstances(rows, query) == RowsAt(rows, {i \in DOMAIN rows : MatchesFilters(rows[i], query)})

(* normalize_instance raises for a malformed endpoint and replaces every   *)
(* other missing or malformed field.                                       *)
Normalizable(row) == row.endpoint = "valid"

Normalized(row) ==
    [cluster |-> ClusterOf(row),
     metadata |-> IF row.metadata = "malformed" THEN "missing" ELSE row.metadata,
     endpoint |-> "valid",
     weight |-> IF row.weight = "malformed" THEN "positive" ELSE row.weight]

NormalizeInstances(rows) ==
    LET kept == RowsAt(rows, {i \in DOMAIN rows : Normalizable(rows[i])})
    IN  [i \in DOMAIN kept |-> Normalized(kept[i])]

NormalizedFirst(rows, query, normalize) ==   \* mutant: the filter sees the normalized rows
    FilterInstances(IF normalize THEN NormalizeInstances(rows) ELSE rows, query)

(* naming.list_instances, after the call *)
ListInstances(rows, query, normalize) ==
    LET filtered == FilterInstances(rows, query)
    IN  IF normalize THEN NormalizeInstances(filtered) ELSE filtered

ZeroWeighs(row) == TRUE   \* mutant: a weight that is not positive counts

(* select_instance reads the weight again: the rows may not be normalized. *)
Weighs(row) == row.weight # "zero"

(* The positions select_instance may choose, for a supported strategy      *)
Choices(rows, strategy) ==
    CASE rows = <<>> -> {}
      [] strategy = "random" -> DOMAIN rows
      [] strategy = "weight" /\ (\E i \in DOMAIN rows : Weighs(rows[i])) ->
            {i \in DOMAIN rows : Weighs(rows[i])}
      [] OTHER -> {1}

(* random.choices refuses weights without a finite sum.                    *)
ChoiceRaises(rows, strategy) ==
    /\ strategy = "weight"
    /\ \E i, j \in DOMAIN rows : i # j /\ rows[i].weight = "huge" /\ rows[j].weight = "huge"
=============================================================================
