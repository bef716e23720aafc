------------------------------ MODULE Queries -------------------------------
(* Asking for a part of what is stored: pages of a list, and                *)
(* specifications.                                                          *)
EXTENDS Naturals, Sequences, SequencesExt, FiniteSets, FiniteSetsExt, TLC

(* Offset pages: Page.of, the query builders of Elasticsearch and            *)
(* OpenSearch, InMemorySearchEngine (filter, sort, slice) and the Relay      *)
(* connections of adapters/graphql.  A reader walks through the pages while  *)
(* the list changes under it.                                                *)

CONSTANTS
    Items,       \* <<first field, second field, tag>>; 0 stands for a missing value
    MaxRows, MaxChanges,
    Asked,       \* the queries a reader may walk through
    size         \* of a page

VARIABLES
    rows,     \* the list that is searched: a sequence of different items
    query,    \* [filter, sort]: what the reader asks for
    walk,     \* "idle", "walking", "done"
    at,       \* the page it reads next, the first is 1
    items_read, \* items it has read so far
    changes,  \* how often the list has changed
    moved,    \* history: what the changes during the walk were: "in", "out"
    began     \* history: the items that matched when the walk began

page_vars == <<rows, query, walk, at, items_read, changes, moved, began>>

Fields == {1, 2}
Ops == {"eq", "neq", "gt", "gte", "lt", "lte", "any"}
Sorts == {<<>>} \cup {<<<<f, d>>>> : f \in Fields, d \in {"asc", "desc"}}
            \cup {<<<<f, d>>, <<3 - f, "asc">>>> : f \in Fields, d \in {"asc", "desc"}}
Queries == [filter : Ops, sort : Sorts]
Default == [filter |-> "any", sort |-> <<>>]

PageTypeOK ==
    /\ rows \in Seq(Items) /\ query \in Queries /\ walk \in {"idle", "walking", "done"}
    /\ at \in 1..(MaxRows + 2) /\ items_read \in Seq(Items) /\ changes \in 0..MaxChanges /\ moved \subseteq {"in", "out"}
    /\ began \subseteq Items

(* _matches_filter, against the value 1 of the first field. *)
Matches(item, op) ==
    LET val == item[1] IN
    CASE op = "eq" -> val = 1 [] op = "neq" -> val # 1
      [] op = "gt" -> val # 0 /\ val > 1 [] op = "gte" -> val # 0 /\ val >= 1
      [] op = "lt" -> val # 0 /\ val < 1 [] op = "lte" -> val # 0 /\ val <= 1
      [] OTHER -> TRUE

(* results.sort(key, reverse): stable in both directions. *)
StableSort(s, f, d) ==
    LET Less(i, j) == IF s[i][f] = s[j][f] THEN i < j ELSE IF d = "asc" THEN s[i][f] < s[j][f] ELSE s[i][f] > s[j][f]
        order == SortSeq([i \in DOMAIN s |-> i], Less)
    IN [i \in DOMAIN s |-> s[order[i]]]

(* Plausible slips in the definitions below, used to test the properties. *)
Sorted_by_first_only(s, sort) == IF sort = <<>> THEN s ELSE StableSort(s, sort[1][1], sort[1][2])
offset_of_next(page) == page * size
total_pages_floor(total) == total \div size
search_on_and_on ==
    /\ walk = "walking" /\ at' = at + 1
    /\ UNCHANGED <<rows, query, walk, items_read, changes, moved, began>>
search_same_page ==
    /\ walk = "walking" /\ items_read' = items_read
    /\ UNCHANGED <<rows, query, walk, at, changes, moved, began>>

(* One sort after the other, the last criterion first. *)
Sorted(s, sort) == FoldRight(LAMBDA c, t : StableSort(t, c[1], c[2]), sort, s)

Result(q) == Sorted(SelectSeq(rows, LAMBDA x : Matches(x, q.filter)), q.sort)
Found == Result(query)

(* PageRequest.offset, paginate(page, size), and the slice they are for. *)
offset(page) == (page - 1) * size
Slice(list, page) == SubSeq(list, offset(page) + 1, Min({offset(page) + size, Len(list)}))
total_pages(total) == (total + size - 1) \div size

(* has_next_page of a connection: offset + len(items) < total_count. *)
has_next_page(page) == offset(page) + Len(Slice(Found, page)) < Len(Found)

PageInit ==
    /\ rows = <<>> /\ query = Default /\ walk = "idle" /\ at = 1 /\ items_read = <<>>
    /\ changes = 0 /\ moved = {} /\ began = {}

insert(x) ==
    /\ x \notin ToSet(rows) /\ Len(rows) < MaxRows /\ (walk = "idle" \/ changes < MaxChanges)
    /\ \E i \in (IF walk = "idle" THEN {Len(rows)} ELSE {0, Len(rows)}) : rows' = InsertAt(rows, i + 1, x)
    /\ IF walk = "idle" THEN UNCHANGED <<changes, moved, began>>
       ELSE changes' = changes + 1 /\ moved' = moved \cup {"in"}
    /\ walk # "done" /\ UNCHANGED <<query, walk, at, items_read, began>>

remove(x) ==
    /\ walk = "walking" /\ x \in ToSet(rows) /\ changes < MaxChanges
    /\ rows' = SelectSeq(rows, LAMBDA y : y # x)
    /\ changes' = changes + 1 /\ moved' = moved \cup {"out"}
    /\ UNCHANGED <<query, walk, at, items_read, began>>

begin(q) ==
    /\ walk = "idle" /\ walk' = "walking" /\ query' = q /\ began' = ToSet(Result(q))
    /\ UNCHANGED <<rows, at, items_read, changes, moved>>

(* search(): one page, until there is no next one. *)
search ==
    /\ walk = "walking"
    /\ items_read' = items_read \o Slice(Found, at)
    /\ IF has_next_page(at) THEN at' = at + 1 /\ UNCHANGED walk ELSE walk' = "done" /\ UNCHANGED at
    /\ UNCHANGED <<rows, query, changes, moved, began>>

PageNext == search \/ \E q \in Asked : begin(q)
        \/ \E x \in Items : insert(x) \/ remove(x)

-----------------------------------------------------------------------------
(* On a list that nobody changes, the pages put together are the list:     *)
(* every match once, in the order asked for.  A changing list can make a   *)
(* reader miss an item only if one was removed, and see one twice only if  *)
(* one was inserted, on a page before.                                     *)
WalkReadsAll ==
    walk = "done" =>
        /\ moved = {} => items_read = Found
        /\ "out" \notin moved => began \subseteq ToSet(items_read)
        /\ "in" \notin moved => IsInjective(items_read)

(* The sorts, one after the other, give the order of all the criteria: of  *)
(* two neighbours the first criterion that tells them apart decides, and   *)
(* two that none tells apart keep the order of the list.                   *)
SortedByAll ==
    walk = "idle" => \A sort \in Sorts :
        LET list == Sorted(rows, sort)
            precedes(x, y, c) == IF c[2] = "asc" THEN x[c[1]] < y[c[1]] ELSE x[c[1]] > y[c[1]]
            Place(x) == CHOOSE i \in DOMAIN rows : rows[i] = x
        IN \A i, j \in DOMAIN list : i < j =>
            LET told == {k \in DOMAIN sort : list[i][sort[k][1]] # list[j][sort[k][1]]} IN
            IF told = {} THEN Place(list[i]) < Place(list[j])
            ELSE precedes(list[i], list[j], sort[CHOOSE k \in told : \A l \in told : k <= l])

(* Page.total_pages (and so has_next) agrees with has_next_page. *)
PageCountsAgree ==
    \A page \in 1..(MaxRows + 1) : has_next_page(page) <=> page < total_pages(Len(Found))

(* A walk ends, however the list changes (a bounded number of times). *)
WalkEnds == walk = "walking" ~> walk = "done"

-----------------------------------------------------------------------------
(* Composite specifications: what is_satisfied_by says of a candidate, and   *)
(* what the SQL of to_expression says of its row, where NULL makes a third   *)
(* truth value.  A specification is modelled by both answers.                *)

CONSTANTS
    Rows,     \* candidates: a value of the column they are judged by, 0 is NULL
    MaxDepth, \* combinators applied
    None      \* what has no to_expression (TypeError)

VARIABLES
    operands,  \* specifications built so far, the last one on top
    built      \* combinators applied so far

spec_vars == <<operands, built>>

Truths == {"true", "false", "null"}
Kinds == {"memory", "sql"}   \* only the SQL-aware classes have to_expression
Specs == [kind : Kinds, says : [Rows -> BOOLEAN], where : [Rows -> Truths] \cup {None}]

RuleTypeOK == operands \in Seq(Specs) /\ Len(operands) <= 2 /\ built \in 0..MaxDepth

RuleInit == operands = <<>> /\ built = 0

(* A leaf: column = 1 in either language, or a LambdaSpecification. *)
leaf(kind) ==
    /\ Len(operands) < 2
    /\ operands' = Append(operands,
        [kind |-> kind, says |-> [r \in Rows |-> r = 1],
         where |-> IF kind = "memory" THEN None
                   ELSE [r \in Rows |-> IF r = 0 THEN "null" ELSE IF r = 1 THEN "true" ELSE "false"]])
    /\ UNCHANGED built

(* and_, or_ and not_ of SQL. *)
And3 == [a, b \in Truths |-> IF "false" \in {a, b} THEN "false" ELSE IF "null" \in {a, b} THEN "null" ELSE "true"]
Or3 == [a, b \in Truths |-> IF "true" \in {a, b} THEN "true" ELSE IF "null" \in {a, b} THEN "null" ELSE "false"]
Not3(a) == IF a = "null" THEN "null" ELSE IF a = "true" THEN "false" ELSE "true"

(* _get_expression of both sides: TypeError if one has none. *)
Expression(l, r, op) ==
    IF None \in {l.where, r.where} THEN None ELSE [x \in Rows |-> op[l.where[x], r.where[x]]]

(* Plausible slips in the definitions below, used to test the properties. *)
OrSpecification_of_left(l, r) ==
    [kind |-> l.kind, says |-> [x \in Rows |-> l.says[x] \/ r.says[x]],
     where |-> IF l.kind = "memory" THEN None ELSE l.where]
NotSpecification_sql_only(s) ==
    [kind |-> s.kind, says |-> s.says,
     where |-> IF None \in {s.where} THEN None ELSE [x \in Rows |-> Not3(s.where[x])]]

(* The class of the left operand decides whether the composite knows SQL. *)
AndSpecification(l, r) ==
    [kind |-> l.kind, says |-> [x \in Rows |-> l.says[x] /\ r.says[x]],
     where |-> IF l.kind = "memory" THEN None ELSE Expression(l, r, And3)]
OrSpecification(l, r) ==
    [kind |-> l.kind, says |-> [x \in Rows |-> l.says[x] \/ r.says[x]],
     where |-> IF l.kind = "memory" THEN None ELSE Expression(l, r, Or3)]
NotSpecification(s) ==
    [kind |-> s.kind, says |-> [x \in Rows |-> ~s.says[x]],
     where |-> IF None \in {s.where} THEN None ELSE [x \in Rows |-> Not3(s.where[x])]]

(* The named and_, or_ and not_ are the ones of BaseSpecification, also on *)
(* a class that knows SQL.                                                 *)
Plain(s) == [s EXCEPT !.kind = "memory", !.where = None]

combine ==
    /\ Len(operands) = 2 /\ built < MaxDepth /\ built' = built + 1
    /\ \E s \in {AndSpecification(operands[1], operands[2]), OrSpecification(operands[1], operands[2])} :
        operands' = <<s>> \/ operands' = <<Plain(s)>>
invert ==
    /\ operands # <<>> /\ built < MaxDepth /\ built' = built + 1
    /\ LET s == NotSpecification(operands[Len(operands)]) IN
        \E t \in {s, Plain(s)} : operands' = [operands EXCEPT ![Len(operands)] = t]

RuleNext == combine \/ invert \/ \E kind \in Kinds : leaf(kind)

-----------------------------------------------------------------------------
(* A WHERE clause selects exactly the rows that is_satisfied_by accepts,   *)
(* however the specification is put together, as long as the column is     *)
(* not NULL; with NULL, a negation accepts in memory what SQL leaves out.  *)
SelectsTheSame ==
    \A i \in DOMAIN operands : LET s == operands[i] IN s.where = None \/
        \A r \in Rows \ {0} : (s.where[r] = "true") <=> s.says[r]

(* No row is selected by a specification and by its negation, in either    *)
(* language, and in memory each is selected by one of the two.             *)
NegationExcludes ==
    \A i \in DOMAIN operands : LET s == operands[i] not == NotSpecification(s) IN
        \A r \in Rows :
            /\ s.says[r] # not.says[r]
            /\ s.where = None \/ ~(s.where[r] = "true" /\ not.where[r] = "true")

-----------------------------------------------------------------------------
TypeOK == PageTypeOK /\ RuleTypeOK
=============================================================================
