----------------------------- MODULE ResetCode ------------------------------
(***************************************************************************)
(* What the command reset generates for the fields of a marked struct, and  *)
(* what the generated method does to an object.                             *)
(*                                                                          *)
(* A pointer and an array have one element type, so that a type is the      *)
(* sequence of its pointers and arrays from the outside in, and the kind of *)
(* what they end in; and the statements for it are one nest, each the only  *)
(* one in the body of the statement before it.                              *)
(***************************************************************************)
EXTENDS Integers, Sequences

\* Kinds of leaves: a resetter is a struct with a Reset method, generated or not, or
\* an interface that holds one; a plain one has none.
Kinds == {"basic", "slice", "map", "chan", "typeParam", "resetter", "plain"}
Layers == [of : {"pointer"}, length : {1}] \cup [of : {"array"}, length : Nat]
Types == [layers : Seq(Layers), kind : Kinds]

Leaf(kind) == [layers |-> <<>>, kind |-> kind]
Pointer(t) == [t EXCEPT !.layers = <<[of |-> "pointer", length |-> 1]>> \o @]
Array(n, t) == [t EXCEPT !.layers = <<[of |-> "array", length |-> n]>> \o @]

Depth(t) == Len(t.layers)
Arrays(t) == {n \in DOMAIN t.layers : t.layers[n].of = "array"}
Pointers(t) == {n \in DOMAIN t.layers : t.layers[n].of = "pointer"}
Clears(t) == t.kind # "plain"

-----------------------------------------------------------------------------
(* generateReset *)

\* The expression of the n-th statement: the field, followed through the pointers and
\* arrays around it.  Every loop binds the same variable i.
Expression(t, n) == [m \in 1..(n - 1) |-> IF m \in Arrays(t) THEN "[i]" ELSE "*"]

\* A pointer is tested and followed, an array is ranged over, a leaf is one statement
\* unless it is a plain struct, for which there is none.
generateReset(t) ==
  [n \in 1..(Depth(t) + IF Clears(t) THEN 1 ELSE 0) |->
     [op |-> CASE n \in Pointers(t) -> "ifNotNil"
               [] n \in Arrays(t)   -> "range"
               [] OTHER             -> "clear",
      at |-> Expression(t, n)]]

ResetMethod(fields) == [f \in DOMAIN fields |-> generateReset(fields[f])]

\* A loop without a statement does not use its i, which Go does not compile; the
\* generator only formats the file.
Compiles(code) == code # <<>> => code[Len(code)].op # "range"

-----------------------------------------------------------------------------
(* Objects.  A place in a field is the sequence of the steps that lead there: *)
(* an index for each array, 1 for each pointer.  A field's value is the set   *)
(* of the places of its nil pointers and of its leaves that are not clear.    *)

Steps(t) == UNION {1..t.layers[n].length : n \in DOMAIN t.layers}
Places(t, n) == {p \in [1..n -> Steps(t)] : \A m \in 1..n : p[m] \in 1..t.layers[m].length}
PointerPlaces(t) == UNION {Places(t, n - 1) : n \in Pointers(t)}

\* No nil pointer is on the way to the place.
Open(v, p) == \A m \in 1..Len(p) : SubSeq(p, 1, m - 1) \notin v.nil
Exists(t, v, p) == p \in Places(t, Len(p)) /\ Open(v, p)

Values(t) ==
  {v \in [nil : SUBSET PointerPlaces(t), full : SUBSET Places(t, Depth(t))] :
     \A p \in v.nil \cup v.full : Open(v, p)}

\* All pointers that are not behind another one are nil.
Zero(t) == [nil |-> {p \in PointerPlaces(t) : \A q \in PointerPlaces(t) : Len(p) <= Len(q)},
            full |-> {}]

\* The objects of a struct with these fields.
Objects(fields) ==
  {obj \in [DOMAIN fields -> UNION {Values(fields[f]) : f \in DOMAIN fields}] :
     \A f \in DOMAIN fields : obj[f] \in Values(fields[f])}

-----------------------------------------------------------------------------
(* Running the statements.  The loops around the n-th statement, which do not *)
(* look at the object since the length of an array is part of its type, bring *)
(* each sequence k of indices, one for every array before it.                 *)

\* The loop variable at the n-th statement is that of the innermost loop around it.
Loops(code, n) == {m \in 1..(n - 1) : code[m].op = "range"}
Innermost(code, n) == CHOOSE m \in Loops(code, n) : \A l \in Loops(code, n) : l <= m

\* The place that the expression of the n-th statement stands for.
Named(code, n, k) ==
  [m \in 1..(n - 1) |-> IF code[n].at[m] = "*" THEN 1 ELSE k[Innermost(code, n)]]

\* The indices with which the n-th statement runs: those that pass each test before.
Runs(code, n, t, v) ==
  {k \in Places(t, n - 1) : \A m \in 1..(n - 1) :
     code[m].op = "ifNotNil" => Named(code, m, SubSeq(k, 1, m - 1)) \notin v.nil}

\* The places that the statements of a kind name when they run.
Visits(code, op, t, v) ==
  UNION {{Named(code, n, k) : k \in Runs(code, n, t, v)} :
          n \in {m \in DOMAIN code : code[m].op = op}}

\* A place beyond the end of an array or behind a nil pointer panics when it is tested
\* or cleared.
Panics(code, t, v) ==
  \E p \in Visits(code, "ifNotNil", t, v) \cup Visits(code, "clear", t, v) : ~Exists(t, v, p)

Exec(code, t, v) == [v EXCEPT !.full = @ \ Visits(code, "clear", t, v)]

\* The whole method; for a nil receiver the generated code returns at once.  What a
\* method that panics leaves is of no use to anybody.
Reset(fields, obj) ==
  LET code == ResetMethod(fields)
  IN  [panics |-> \E f \in DOMAIN fields : Panics(code[f], fields[f], obj[f]),
       obj    |-> [f \in DOMAIN fields |-> Exec(code[f], fields[f], obj[f])]]

-----------------------------------------------------------------------------
(* What a reset is for *)

\* Every leaf but the plain ones is clear, as far as the single i reaches: inside of
\* several arrays only where all indices are the same.
Clean(t, v) ==
  Clears(t) => \A p \in v.full : \E m, n \in Arrays(t) : p[m] # p[n]

\* Of two arrays, one inside of the other, the inner one is longer, or a pointer is between
\* them: its index may be none of the outer one, or one whose pointer was not tested.
Strays(t) ==
  \E m, n \in Arrays(t) :
    /\ m < n
    /\ t.layers[n].length > t.layers[m].length \/ \E l \in Pointers(t) : m < l /\ l < n

\* Without arrays in arrays a reset clears all of the object.
CleanObject(fields, obj) == \A f \in DOMAIN fields : Clean(fields[f], obj[f])
MayPanic(fields) == \E f \in DOMAIN fields : Strays(fields[f])
=============================================================================
