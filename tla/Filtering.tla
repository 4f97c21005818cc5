----------------------------- MODULE Filtering -----------------------------
(***************************************************************************)
(* The filter engine of src/filtering.rs: field indexes that documents are *)
(* added to and never removed from, the evaluation of filter expressions   *)
(* over them, and the translation of SQL conditions into expressions.      *)
(*                                                                         *)
(* A document maps the paths of its leaves to values.  A text is the set   *)
(* of its words; texts that spell a number or a truth value, and words in  *)
(* other words, are left out.  Results are sets: the code may list an      *)
(* identifier twice.  Places lie on a line; the nearest neighbour and the  *)
(* operators that answer with nothing whatever they are given are left out *)
(* of the expressions.                                                     *)
(***************************************************************************)
EXTENDS Integers, FiniteSets

CONSTANTS FilterDoc, NestedPath,   \* identifiers, the paths with a dot
          IdPath, Unknown,         \* the path and the text of the fallback, see Convert
          FilterContents,          \* what a document may hold
          Filter, Condition        \* the filters and the SQL conditions asked

VARIABLES entries,   \* leaves of the field indexes
          places,    \* points of the R-tree
          latest,    \* history: the contents last added under an identifier
          again      \* history: identifiers added more than once

filterVars == <<entries, places, latest, again>>

\* Values are of the kind "text", a set of words, "number", with n, or "flag", with on.
Text(words) == [kind |-> "text", words |-> words]

FilterInit == entries = {} /\ places = {} /\ latest = << >> /\ again = {}

\* add_document files every leaf under its path and, if the document has a
\* place, a point of the R-tree; nothing that is filed already goes away.
\* An identifier is added twice at most.
AddToFilter(d, contents) ==
    /\ d \notin again
    /\ entries' = entries \cup {<<d, p, contents.leaves[p]>> : p \in DOMAIN contents.leaves}
    /\ places' = places \cup {<<d, x>> : x \in contents.place}
    /\ latest' = [e \in DOMAIN latest \cup {d} |-> IF e = d THEN contents ELSE latest[e]]
    /\ again' = again \cup ({d} \cap DOMAIN latest)

FilterNext == \E d \in FilterDoc, contents \in FilterContents : AddToFilter(d, contents)

FilterSpec == FilterInit /\ [][FilterNext]_filterVars

-----------------------------------------------------------------------------
(* execute_filter.  `Holds' below is what each leaf of an expression asks  *)
(* of one value; the indexes answer it without looking at the documents.   *)

\* The identifiers a field index has filed under a path, by their values.
Filed(path, Matches(_)) == {f[1] : f \in {g \in entries : g[2] = path /\ Matches(g[3])}}

\* execute_comparison: = of texts and > of numbers; the rest finds nothing.
Comparison(e) ==
    CASE e.op = "=" /\ e.value.kind = "text" -> Filed(e.path, LAMBDA v : v = e.value)
      [] e.op = ">" /\ e.value.kind = "number" ->
            Filed(e.path, LAMBDA v : v.kind = "number" /\ v.n > e.value.n)
      [] OTHER -> {}

\* execute_nested, on paths with a dot; what contains does not know of is
\* looked up as equal.
Nested(e) ==
    CASE e.path \notin NestedPath -> {}
      [] e.op = "contains" /\ e.value.kind = "text" ->
            Filed(e.path, LAMBDA v : v.kind = "text" /\ e.value.words \subseteq v.words)
      [] OTHER -> Filed(e.path, LAMBDA v : v = e.value)

\* execute_text_search: any word of the query in any of the fields.
TextSearch(e) ==
    UNION {Filed(p, LAMBDA v : v.kind = "text" /\ v.words \cap e.words # {}) : p \in e.paths}

\* WithinDistance: locate_within_distance takes a squared radius.
WithinDistance(e) ==
    {f[1] : f \in {g \in places : (g[2] - e.center) * (g[2] - e.center) <= e.radius}}

\* get_all_document_ids: whoever has a leaf.
AllDocumentIds == {f[1] : f \in entries}

\* Mutant: a conjunction keeps what any of its operands found.
RECURSIVE ExecuteAndAsOr(_)
ExecuteAndAsOr(e) ==
    CASE e.type \in {"and", "or"} -> UNION {ExecuteAndAsOr(o) : o \in e.operands}
      [] e.type = "not" -> AllDocumentIds \ UNION {ExecuteAndAsOr(o) : o \in e.operands}
      [] e.type = "comparison" -> Comparison(e)
      [] e.type = "nested" -> Nested(e)
      [] e.type = "search" -> TextSearch(e)
      [] e.type = "within" -> WithinDistance(e)

\* execute_filter and execute_logical; a conjunction of nothing finds nothing.
RECURSIVE Execute(_)
Execute(e) ==
    CASE e.type = "and" ->
            LET found == {Execute(o) : o \in e.operands}
            IN {d \in UNION found : \A ids \in found : d \in ids}
      [] e.type = "or" -> UNION {Execute(o) : o \in e.operands}
      [] e.type = "not" -> AllDocumentIds \ UNION {Execute(o) : o \in e.operands}
      [] e.type = "comparison" -> Comparison(e)
      [] e.type = "nested" -> Nested(e)
      [] e.type = "search" -> TextSearch(e)
      [] e.type = "within" -> WithinDistance(e)

\* execute_logical fails on a NOT whose operand is not one.
RECURSIVE Refused(_)
Refused(e) ==
    /\ e.type \in {"and", "or", "not"}
    /\ \/ e.type = "not" /\ Cardinality(e.operands) # 1
       \/ \E o \in e.operands : Refused(o)

-----------------------------------------------------------------------------
(* SQL conditions: comparisons of a field with a value, in either order,   *)
(* joined by AND, OR and NOT, some of them in parentheses, and texts the   *)
(* parser of the library takes for no condition ("unparsed").              *)

\* extract_field_value knows a field without a dot and a value, in either
\* order; any other comparison is an error, and so is all it stands in.  What
\* is in parentheses is not looked at.
RECURSIVE Untranslatable(_)
Untranslatable(c) ==
    CASE c.type = "atom" -> c.path \in NestedPath
      [] c.type \in {"and", "or", "not"} -> \E o \in c.operands : Untranslatable(o)
      [] OTHER -> FALSE

\* convert_sql_expr_to_filter, where it succeeds.  extract_field_value puts the
\* field first and keeps the operator, so 5 < x becomes x < 5; an expression it
\* does not know, a pair of parentheses too, becomes id = "unknown".
RECURSIVE Convert(_)
Convert(c) ==
    CASE c.type = "atom" -> [type |-> "comparison", op |-> c.op, path |-> c.path, value |-> c.value]
      [] c.type \in {"and", "or", "not"} ->
            [type |-> c.type, operands |-> {Convert(o) : o \in c.operands}]
      [] OTHER -> [type |-> "comparison", op |-> "=", path |-> IdPath, value |-> Text({Unknown})]

\* parse_where_clause: the filter of a condition, or an error and no filter.
\* Which texts the parser refuses is the library's affair.
ParseWhereClause(c) ==
    IF c.type = "unparsed" \/ Untranslatable(c) THEN {} ELSE {Convert(c)}

-----------------------------------------------------------------------------
(* What a filter and a condition mean, of the contents of one document.    *)

Leaf(contents, path, Matches(_)) ==
    path \in DOMAIN contents.leaves /\ Matches(contents.leaves[path])

Compares(v, op, w) ==
    CASE op = "=" -> v = w
      [] op = ">" -> v.kind = "number" /\ w.kind = "number" /\ v.n > w.n

RECURSIVE Satisfies(_, _)
Satisfies(c, e) ==
    CASE e.type = "and" -> \A o \in e.operands : Satisfies(c, o)
      [] e.type = "or" -> \E o \in e.operands : Satisfies(c, o)
      [] e.type = "not" -> \A o \in e.operands : ~Satisfies(c, o)
      [] e.type \in {"comparison", "atom"} ->
            Leaf(c, e.path, LAMBDA v : Compares(v, e.op, e.value))
      [] e.type = "nested" /\ e.op = "equal" -> Leaf(c, e.path, LAMBDA v : v = e.value)
      [] e.type = "nested" /\ e.op = "contains" ->
            Leaf(c, e.path, LAMBDA v : v.kind = "text" /\ e.value.words \subseteq v.words)
      [] e.type = "search" ->
            \E p \in e.paths : Leaf(c, p, LAMBDA v : v.kind = "text" /\ v.words \cap e.words # {})
      [] e.type = "within" -> \E x \in c.place : x - e.center \in -e.radius..e.radius

\* The filters the engine takes for what they say: texts are compared with =,
\* numbers with >, conjunctions have operands, a radius is its own square.
RECURSIVE Supported(_)
Supported(e) ==
    CASE e.type \in {"and", "or", "not"} ->
            e.operands # {} /\ \A o \in e.operands : Supported(o)
      [] e.type \in {"comparison", "atom"} ->
            <<e.op, e.value.kind>> \in {<<"=", "text">>, <<">", "number">>}
      [] e.type = "nested" -> e.path \in NestedPath /\ (e.op = "contains" => e.value.kind = "text")
      [] e.type = "within" -> e.radius * e.radius = e.radius
      [] e.type = "search" -> TRUE

RECURSIVE Positive(_)
Positive(e) ==
    CASE e.type = "not" -> FALSE
      [] e.type \in {"and", "or"} -> \A o \in e.operands : Positive(o)
      [] OTHER -> TRUE

\* A condition without parentheses, its fields on the left.
RECURSIVE Plain(_)
Plain(c) ==
    CASE c.type \in {"and", "or", "not"} -> \A o \in c.operands : Plain(o)
      [] c.type = "atom" -> ~c.swapped
      [] OTHER -> FALSE

\* Documents the indexes describe as they are: added once, with a leaf.
Filable == {d \in DOMAIN latest \ again : DOMAIN latest[d].leaves # {}}

\* A supported filter finds the documents it is true of and, of those added
\* once, no other; a filter with a NOT is answered for documents with a leaf.
\* Documents added again stay findable by what they used to hold.
FilterMatchesDocuments ==
    \A e \in {f \in Filter : Supported(f) /\ ~Refused(f)} :
        /\ Positive(e) =>
              /\ {d \in DOMAIN latest : Satisfies(latest[d], e)} \subseteq Execute(e)
              /\ {d \in Execute(e) \ again : ~Satisfies(latest[d], e)} = {}
        /\ Execute(e) \cap Filable = {d \in Filable : Satisfies(latest[d], e)}

\* The filter a plain SQL condition of supported comparisons is translated to, if
\* it is, finds, of the documents added once, those the condition is true of.
SqlKeepsMeaning ==
    \A c \in {b \in Condition : Plain(b) /\ Supported(b)}, d \in Filable :
        \A e \in ParseWhereClause(c) : d \in Execute(e) <=> Satisfies(latest[d], c)
=============================================================================
