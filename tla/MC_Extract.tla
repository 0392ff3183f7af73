------------------------------ MODULE MC_Extract ------------------------------
(***************************************************************************)
(* The schema walk checked against definitions of what it should compute, *)
(* over every pair of small documents.  Top-level documents have at most  *)
(* two fields; a field is a leaf of an FTDC type, a string (which FTDC    *)
(* ignores), or an Object or Array whose own field is a leaf or an empty  *)
(* container, so with kMaxRecursion = 1 the deepest documents pass the    *)
(* recursion limit.  The state is the pair (reference, current).          *)
(***************************************************************************)
EXTENDS FTDCExtract, SequencesExt

VARIABLES ref, cur

\* One value per leaf type: the two halves of a Timestamp differ, so that
\* their order shows.
Leaf(n, t) ==
    [name |-> n, type |-> t, sub |-> << >>,
     val |-> CASE t = "ts" -> <<1, 2>> [] t = "string" -> << >> [] OTHER -> <<1>>]

Container(n, t, fs) == [name |-> n, type |-> t, val |-> << >>, sub |-> fs]

AtMost(S, k) == UNION {[1..n -> S] : n \in 0..k}

InnerFields ==
    {Leaf(n, t) : n \in {"a", "b"}, t \in {"int", "ts"}}
    \cup {Container(n, t, << >>) : n \in {"a", "b"}, t \in Containers}

TopFields ==
    {Leaf(n, t) : n \in {"a", "b"}, t \in {"int", "double", "ts", "string"}}
    \cup {Container("a", t, fs) : t \in Containers, fs \in AtMost(InnerFields, 1)}

Docs == AtMost(TopFields, 2)

Init == ref \in Docs /\ cur \in Docs

\* Every pair is examined once; the state never changes.
Next == UNCHANGED <<ref, cur>>

Spec == Init /\ [][Next]_<<ref, cur>>

-----------------------------------------------------------------------------
(* Reference definitions, written from the document rather than the walk. *)

\* The metric vector of a document: its metric leaves in document order.
RECURSIVE Flatten(_)
Flatten(doc) ==
    IF doc = << >> THEN << >>
    ELSE LET f == Head(doc)
             here == CASE f.type \in Containers -> Flatten(f.sub)
                       [] IsFTDCType(f.type)  -> f.val
                       [] OTHER               -> << >>
         IN  here \o Flatten(Tail(doc))

\* The schema: names, types up to the numeric class, nesting; nothing else.
RECURSIVE Shape(_)
Shape(doc) ==
    [k \in 1..Len(FTDCFields(doc)) |->
        LET f == FTDCFields(doc)[k]
        IN  [name |-> f.name,
             kind |-> IF f.type \in Numbers THEN "number" ELSE f.type,
             sub  |-> Shape(f.sub)]]

\* Levels of containers.
RECURSIVE Nesting(_)
Nesting(doc) ==
    IF doc = << >> THEN 0
    ELSE LET f == Head(doc)
             d == IF f.type \in Containers THEN 1 + Nesting(f.sub) ELSE 0
             rest == Nesting(Tail(doc))
         IN  IF d > rest THEN d ELSE rest

\* What a reader can tell of a sample: its metric fields, numbers as long.
RECURSIVE View(_)
View(doc) ==
    [k \in 1..Len(FTDCFields(doc)) |->
        LET f == FTDCFields(doc)[k]
        IN  [f EXCEPT !.type = IF @ \in Numbers THEN "long" ELSE @,
                      !.sub = View(@)]]

\* Metric vectors of up to three slots, for the bounds checks.
MetricVectors == AtMost({0, 1}, 3)

-----------------------------------------------------------------------------
(* The walk's verdict is the schema comparison the compressor relies on:  *)
(* it fails exactly when the current sample nests deeper than the limit,  *)
(* after appending a prefix of the sample's metrics; otherwise the vector *)
(* is the current sample's metrics whatever the reference, and it matches *)
(* exactly when the two schemas are equal up to the numeric class --      *)
(* however a name, a type, a nested document or a length differs, and     *)
(* through the degraded walk once a difference is seen.                   *)
ExtractAgreesWithSchema ==
    LET x == ExtractMetricsFromDocument(ref, cur)
    IN  /\ x.ok <=> Nesting(cur) <= MaxRecursion
        /\ ~x.ok => IsPrefix(x.metrics, Flatten(cur))
        /\ x.ok => /\ x.metrics = Flatten(cur)
                   /\ x.matches <=> Shape(ref) = Shape(cur)

(* A sample that matches the reference is rebuilt from the reference and  *)
(* its metric vector, as the decoder does for every sample of a chunk:    *)
(* the rebuild succeeds, consumes the whole vector and gives back the     *)
(* sample's metric fields, numbers as NumberLong.                         *)
RebuildRoundTrip ==
    LET x == ExtractMetricsFromDocument(ref, cur)
        y == ConstructDocumentFromMetrics(ref, x.metrics)
    IN  x.ok /\ x.matches =>
            /\ y.ok
            /\ y.pos = Len(x.metrics)
            /\ View(y.doc) = View(cur)

(* Rebuilding never reads past the end of the metric vector, and fails    *)
(* exactly when the vector is shorter than the reference's metrics or the *)
(* reference nests too deep; a Timestamp needs two slots left.            *)
RebuildChecksBounds ==
    \A m \in MetricVectors :
        LET y == ConstructDocumentFromMetrics(ref, m)
        IN  /\ ~y.oob
            /\ y.ok <=> (Nesting(ref) <= MaxRecursion /\ Len(Flatten(ref)) <= Len(m))

=============================================================================
