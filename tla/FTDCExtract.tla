----------------------------- MODULE FTDCExtract -----------------------------
(***************************************************************************)
(* The schema walk of FTDC (src/mongo/db/ftdc/util.cpp): the metric       *)
(* extraction that decides whether a sample matches the reference         *)
(* document (extractMetricsFromDocument), and the inverse that rebuilds a *)
(* sample from the reference and a metric vector                          *)
(* (constructDocumentFromMetrics).                                         *)
(*                                                                         *)
(* A document is a sequence of fields [name, type, val, sub]: val is the   *)
(* sequence of metrics a leaf holds (one for a number, a Bool or a Date,  *)
(* secs then inc for a Timestamp, none for a type FTDC ignores), sub the  *)
(* fields of an Object or an Array.  Numbers are small non-negative        *)
(* integers: numberLong() of an integral double is that integer, and the   *)
(* casts to and from uint64_t are the identity on them.                   *)
(*                                                                         *)
(* RECURSIVE operators: this module is used by TLC runs only.              *)
(***************************************************************************)
EXTENDS Naturals, Sequences

CONSTANTS
    MaxRecursion   \* kMaxRecursion

Numbers    == {"double", "int", "long", "decimal"}
Containers == {"object", "array"}

\* isFTDCType(type).
IsFTDCType(t) == t \in Numbers \cup Containers \cup {"bool", "date", "ts"}

\* A field that is not there: the BSONElement() read when matching is off.
NoField == [name |-> "", type |-> "eoo", val |-> << >>, sub |-> << >>]

\* FTDCBSONObjIterator: the fields of a document FTDC cares about, in order.
FTDCFields(doc) == SelectSeq(doc, LAMBDA f : IsFTDCType(f.type))

(* The type test of the walk: equal types, or both numeric (the looseness  *)
(* that lets one metric change between int and long).                     *)
TypesMatch(rt, ct) == rt = ct \/ (rt \in Numbers /\ ct \in Numbers)

\* The metrics a leaf adds: numberLong(), Bool(), the date's millis, or
\* the timestamp's two halves.
LeafMetrics(f) == f.val

\* A result of extraction: ok FALSE is the BadValue status, after which
\* metrics holds what the failed walk had already appended.
Extracted(ok, metrics, matches) == [ok |-> ok, metrics |-> metrics, matches |-> matches]

-----------------------------------------------------------------------------
(* extractMetricsFromDocument(referenceDoc, currentDoc, metrics, matches,  *)
(* recursion).  ExtractFrom is its loop: r and c are the reference and     *)
(* current fields not yet consumed, acc the metric vector so far.          *)

\* Mutant: the verdict of a nested document not carried to the parent.
MatchAfterSubDropped(m, sw) == m

\* matches = matches && sw.getValue().
MatchAfterSub(m, sw) == m /\ sw.matches

\* Mutant: a reference longer than the current document still matches.
MatchAtEndNoLengthCheck(m, r) == m

\* After the loop: the reference must have been consumed too.
MatchAtEnd(m, r) == m /\ r = << >>

RECURSIVE ExtractDoc(_, _, _, _, _), ExtractFrom(_, _, _, _, _)

ExtractDoc(ref, cur, acc, matches, recursion) ==
    IF recursion > MaxRecursion
      THEN Extracted(FALSE, acc, FALSE)
      ELSE ExtractFrom(FTDCFields(ref), FTDCFields(cur), acc, matches, recursion)

ExtractFrom(r, c, acc, matches, recursion) ==
    IF c = << >>
      THEN Extracted(TRUE, acc, MatchAtEnd(matches, r))
      ELSE LET m1 == matches /\ r # << >>
               ce == Head(c)
               re == IF m1 THEN Head(r) ELSE NoField
               rest == IF m1 THEN Tail(r) ELSE r
               m2 == m1 /\ re.name = ce.name /\ TypesMatch(re.type, ce.type)
           IN  IF ce.type \in Containers
                 THEN LET sw == ExtractDoc(IF m2 THEN re.sub ELSE << >>, ce.sub,
                                           acc, m2, recursion + 1)
                      IN  IF ~sw.ok THEN sw
                          ELSE ExtractFrom(rest, Tail(c), sw.metrics,
                                           MatchAfterSub(m2, sw), recursion)
                 ELSE ExtractFrom(rest, Tail(c), acc \o LeafMetrics(ce), m2, recursion)

\* The public overload: matches starts TRUE at recursion 0.
ExtractMetricsFromDocument(ref, cur) == ExtractDoc(ref, cur, << >>, TRUE, 0)

-----------------------------------------------------------------------------
(* constructDocumentFromMetrics(referenceDocument, builder, metrics, pos,  *)
(* recursion): the reference's fields in order, all of them; each metric   *)
(* leaf takes its value from metrics at pos, containers are rebuilt       *)
(* recursively, other fields are copied.  oob marks a read past the end   *)
(* of the vector, which no bounds check may let through.                   *)

Built(ok, doc, pos, oob) == [ok |-> ok, doc |-> doc, pos |-> pos, oob |-> oob]

\* The metrics leaf f needs: two for a Timestamp, one otherwise.
Need(f) == IF f.type = "ts" THEN 2 ELSE 1

\* Mutant: the Timestamp test written like the others, *pos >= size.
HasRoomTsOffByOne(f, pos, n) == pos < n

\* *pos >= metrics.size(), and *pos + 1 >= metrics.size() for a Timestamp,
\* are the errors.
HasRoom(f, pos, n) == pos + Need(f) <= n

\* The leaf rebuilt from metrics[pos...]: numbers become NumberLong, a
\* Bool is metric != 0, a Timestamp is (seconds, increment).
Rebuilt(f, m, pos) ==
    LET at(k) == IF k <= Len(m) THEN m[k] ELSE 0
    IN  [name |-> f.name,
         type |-> IF f.type \in Numbers THEN "long" ELSE f.type,
         val  |-> CASE f.type = "bool" -> << IF at(pos + 1) # 0 THEN 1 ELSE 0 >>
                    [] f.type = "ts"   -> << at(pos + 1), at(pos + 2) >>
                    [] OTHER           -> << at(pos + 1) >>,
         sub  |-> << >>]

RECURSIVE ConstructDoc(_, _, _, _, _), ConstructFrom(_, _, _, _, _, _)

ConstructDoc(ref, m, pos, oob, recursion) ==
    IF recursion > MaxRecursion
      THEN Built(FALSE, << >>, pos, oob)
      ELSE ConstructFrom(ref, m, pos, << >>, oob, recursion)

\* pos counts the metrics consumed, built holds the fields appended so far.
ConstructFrom(fs, m, pos, built, oob, recursion) ==
    IF fs = << >>
      THEN Built(TRUE, built, pos, oob)
      ELSE LET f == Head(fs) IN
           CASE f.type \in Containers ->
                  LET s == ConstructDoc(f.sub, m, pos, oob, recursion + 1)
                  IN  IF ~s.ok THEN s
                      ELSE ConstructFrom(Tail(fs), m, s.pos,
                             Append(built, [f EXCEPT !.sub = s.doc]), s.oob, recursion)
             [] IsFTDCType(f.type) /\ ~HasRoom(f, pos, Len(m)) ->
                  Built(FALSE, << >>, pos, oob)
             [] IsFTDCType(f.type) ->
                  ConstructFrom(Tail(fs), m, pos + Need(f),
                                Append(built, Rebuilt(f, m, pos)),
                                oob \/ pos + Need(f) > Len(m), recursion)
             [] OTHER -> ConstructFrom(Tail(fs), m, pos, Append(built, f), oob, recursion)

ConstructDocumentFromMetrics(ref, m) == ConstructDoc(ref, m, 0, FALSE, 0)

=============================================================================
