------------------------------- MODULE Merging ------------------------------
(* tasarch::config::merge_values: the values of an additional configuration  *)
(* file, a workspace's, are merged onto those of a base file, the user's,    *)
(* and what comes of it may be the base of the next merge.                   *)
EXTENDS Integers, Sequences, SequencesExt

CONSTANTS Keys,       \* the keys of tables
          Scalars,    \* the values of one line, each with its type
          Elements,   \* what arrays hold
          Depth,      \* how deep the tables of a file are nested
          Documents,  \* the files, parsed: tables
          MaxLayers   \* how many files are merged

\* toml::value: a table, an array, or a scalar of one of the other types. A table
\* maps the keys it does not have to `absent`.
Table(entries)       == [type |-> "table", entries |-> entries]
Array(elements)      == [type |-> "array", elements |-> elements]
Scalar(type, scalar) == [type |-> type, scalar |-> scalar]

absent == [type |-> "absent"]

\* In place of a value: toml::type_error has been thrown.
type_error == [type |-> "type_error"]

\* The values whose tables are nested at most n deep.
Values[n \in Nat] ==
    Scalars \cup [type : {"array"}, elements : Seq(Elements)]
            \cup IF n = 0 THEN {}
                 ELSE [type : {"table"}, entries : [Keys -> Values[n - 1] \cup {absent}]]

ASSUME MergingAssumption ==
    /\ Depth \in Nat /\ MaxLayers \in Nat \ {0}
    /\ \A s \in Scalars : s.type \notin {"array", "table", "absent", "type_error"}
    /\ \A d \in Documents : d \in Values[Depth] /\ d.type = "table"

VARIABLES layers,  \* the files merged so far
          merged   \* the value that came of them, or type_error

mergeVars == <<layers, merged>>

-----------------------------------------------------------------------------
(* In a call of merge_values, `below` gives what its calls of itself return. *)

\* Mutant of Concatenated: the addition's elements are inserted in front.
ConcatenatedInFront(base, addition) ==
    Array(addition.elements \o base.elements)

Concatenated(base, addition) == Array(base.elements \o addition.elements)

\* A key of one side only keeps its value.
Entry(base, addition, below) ==
    IF base = absent THEN addition
    ELSE IF addition = absent THEN base
    ELSE below[<<base, addition>>]

Overlaid(base, addition, below) ==
    LET entries == [key \in Keys |-> Entry(base.entries[key],
                                           addition.entries[key], below)]
    IN  IF \E key \in Keys : entries[key] = type_error THEN type_error
        ELSE Table(entries)

Combined(base, addition, below) ==
    IF base.type = "array" THEN Concatenated(base, addition)
    ELSE IF base.type = "table" THEN Overlaid(base, addition, below)
    ELSE addition

\* Mutant of merge_values: a value of another type replaces that of the base.
merge_values_replaces(base, addition, below) ==
    IF base.type # addition.type THEN addition
    ELSE Combined(base, addition, below)

merge_values(base, addition, below) ==
    IF base.type # addition.type THEN type_error
    ELSE Combined(base, addition, below)

\* The values that are nested at most n deep, and what is thrown instead.
Results(n) == Values[n] \cup {type_error}

merging[n \in Nat] ==
    [p \in Results(n) \X Results(n) |->
        merge_values(p[1], p[2], IF n = 0 THEN <<>> ELSE merging[n - 1])]

Merging(base, addition) == merging[Depth][<<base, addition>>]

-----------------------------------------------------------------------------

MergeInit == \E base \in Documents : layers = <<base>> /\ merged = base

Merge(addition) ==
    /\ merged # type_error
    /\ Len(layers) < MaxLayers
    /\ layers' = Append(layers, addition)
    /\ merged' = Merging(merged, addition)

MergeNext == \E addition \in Documents : Merge(addition)

MergeSpec == MergeInit /\ [][MergeNext]_mergeVars

-----------------------------------------------------------------------------
(* What the merge of all layers is, path by path.                            *)

Paths == BoundedSeq(Keys, Depth)

Child(value, key) == IF value.type = "table" THEN value.entries[key] ELSE absent

At(document, path) ==
    LET value[i \in 0..Len(path)] ==
            IF i = 0 THEN document ELSE Child(value[i - 1], path[i])
    IN  value[Len(path)]

\* The layers that have a value at the path.
With(path) == {i \in 1..Len(layers) : At(layers[i], path) # absent}

\* The elements of the arrays at the path, in the order of the layers.
AllElements(path) ==
    LET elements[i \in 0..Len(layers)] ==
            IF i = 0 THEN <<>>
            ELSE IF i \notin With(path) THEN elements[i - 1]
            ELSE elements[i - 1] \o At(layers[i], path).elements
    IN  elements[Len(layers)]

(* The result of any number of merges, path by path: a merge fails exactly   *)
(* when two layers, neighbours or not, hold different types at one path;     *)
(* otherwise nothing of any layer is lost, a scalar is that of the last      *)
(* layer that has it, and an array is those of all layers in their order     *)
(* (merging.h 8-34).                                                         *)
LayersOverlay ==
    LET Agree(path) ==
            \A i, j \in With(path) :
                At(layers[i], path).type = At(layers[j], path).type
        Overlay(path) ==
            LET value == At(merged, path)
                last  == CHOOSE i \in With(path) : \A j \in With(path) : j <= i
            IN  /\ value.type = At(layers[last], path).type
                /\ value.type = "array" => value.elements = AllElements(path)
                /\ value.type \notin {"array", "table"} =>
                       value = At(layers[last], path)
    IN  IF \A path \in Paths : Agree(path)
        THEN \A path \in Paths :
                 /\ At(merged, path) # absent <=> With(path) # {}
                 /\ With(path) # {} => Overlay(path)
        ELSE merged = type_error

(* Merging is associative: merging the later layers with each other first    *)
(* gives the same configuration, or fails just as well.                      *)
GroupingDoesNotMatter ==
    LET count == Len(layers)
        grouped[i \in 0..(count - 1)] ==
            IF i = 0 THEN layers[count]
            ELSE Merging(layers[count - i], grouped[i - 1])
    IN  merged = grouped[count - 1]
=============================================================================
