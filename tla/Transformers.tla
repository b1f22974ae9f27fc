----------------------------- MODULE Transformers ------------------------------
(***************************************************************************)
(* What the transformers of a manifest do to one identity (pkg/transformer)*)
(* as operators on records; Pipeline.tla runs them.  Texts are strings: a  *)
(* regular expression is the set of the texts it matches, a replacement or *)
(* a normalisation by one a function of texts, and what an expression      *)
(* replaces are parts of a text.  Where the code ranges over a map the     *)
(* result is a set: one element for each order.                            *)
(***************************************************************************)
EXTENDS Integers, Sequences, FiniteSets, SequencesExt

CONSTANTS
  Attrs,         \* names of attributes
  GroupIds,      \* the groups there are; identities may name others
  TrueTexts, FalseTexts,
  ParsedTexts    \* texts that are JSON, with their values

\* The fields of an identity that rules may name besides its attributes.
Own == {"username", "email"}

-----------------------------------------------------------------------------
\* Values: a text, a number, a bool, a list, nil, or no value at all.  Numbers are the
\* two kinds that toFloat64 and toBool have in common, int and float64.
Text(t)   == [text |-> t]
Number(n) == [number |-> n]
Bool(b)   == [bool |-> b]
Nil       == [nil |-> TRUE]
Absent    == [absent |-> TRUE]
Is(v, kind) == kind \in DOMAIN v
IsNothing(v) == v \in {Nil, Absent}

\* A list is a slice: its items, and the cell after them if its array has room for
\* one more; a list that is full reads its last item from the cell.
NoCell == "no cell"
Private(s) == [items |-> s, cell |-> NoCell, full |-> FALSE]
ItemsOf(v, heap) == IF v.full THEN Append(v.items, heap[v.cell]) ELSE v.items
InPlace(v) == v.cell # NoCell /\ ~v.full
Cloned(v, heap) == IF Is(v, "items") THEN Private(ItemsOf(v, heap)) ELSE v

\* toBool: Nil stands for "not a bool".
ToBool(v) ==
  IF Is(v, "bool") THEN v
  ELSE IF Is(v, "number") THEN Bool(v.number # 0)
  ELSE IF Is(v, "text") /\ v.text \in TrueTexts THEN Bool(TRUE)
  ELSE IF Is(v, "text") /\ v.text \in FalseTexts THEN Bool(FALSE) ELSE Nil

\* The text that a selector compares, if the field has one; sanitizers do not know
\* the field "disabled" of the identity, only an attribute of that name.
TextOf(id, f) ==
  IF f \in Own THEN Text(id.own[f]) ELSE IF Is(id.attrs[f], "text") THEN id.attrs[f] ELSE Absent
SelectorText(id, f) ==
  IF f = "disabled" THEN Text(IF id.disabled THEN "true" ELSE "false") ELSE TextOf(id, f)
WithText(id, f, t) ==
  IF f \in Own THEN [id EXCEPT !.own[f] = t] ELSE [id EXCEPT !.attrs[f] = Text(t)]

\* The groups of a list that are in a set, in the order of the list.
Among(gs, S) == FoldLeft(LAMBDA kept, g : IF g \in S THEN Append(kept, g) ELSE kept, <<>>, gs)

-----------------------------------------------------------------------------
\* Selectors.  The groups of an identity are looked at in their order, and one
\* without the field as a text ends the search.
MatchesText(s, id) == LET v == SelectorText(id, s.field) IN Is(v, "text") /\ v.text \in s.texts
MatchesBool(s, id) ==
  LET v == IF s.field = "disabled" THEN Bool(id.disabled) ELSE id.attrs[s.field]
  IN Is(v, "bool") /\ v.bool = s.bool
GroupText(s, g, groups) ==
  IF s.field = "name" THEN Text(groups[g].name)
  ELSE IF s.field = "gid" THEN Text(g)
  ELSE IF Is(groups[g].attrs[s.field], "text") THEN groups[g].attrs[s.field] ELSE Absent
MatchesGroup(s, id, groups) ==
  LET known == Among(id.groups, GroupIds)
      Hit(i) == GroupText(s, known[i], groups) = Text(s.text)
  IN \E i \in DOMAIN known : Hit(i) /\ \A j \in 1..(i - 1) : GroupText(s, known[j], groups) # Absent
Matches(s, id, groups) ==
  CASE s.type = "text"  -> MatchesText(s, id)        \* regex, strict
    [] s.type = "bool"  -> MatchesBool(s, id)
    [] s.type = "group" -> MatchesGroup(s, id, groups)

\* One selector is enough; an identity that none matches is removed.
Gone == [gone |-> TRUE]
Selected(tr, id, groups) ==
  IF \E s \in ToSet(tr.selectors) : Matches(s, id, groups) THEN id ELSE Gone

-----------------------------------------------------------------------------
\* Sanitizers.  An unknown operation fails only when there is a text to apply it to.
Failed == [failed |-> TRUE]
Rewritten(s, id) ==
  LET v == TextOf(id, s.field)
  IN IF v = Absent THEN id
     ELSE IF ~s.known THEN Failed
     ELSE WithText(id, s.field, s.change[v.text])

\* strings.ReplaceAll: what was put in is not looked at again.
Occurs(p, t, i) == i + Len(p) - 1 <= Len(t) /\ SubSeq(t, i, i + Len(p) - 1) = p
ReplaceText(t, p, v) ==
  LET From[i \in Nat] == IF i > Len(t) THEN ""
                         ELSE IF Occurs(p, t, i) THEN v \o From[i + Len(p)]
                         ELSE SubSeq(t, i, i) \o From[i + 1]
  IN From[1]

\* evaluateExpression: the fields of the identity first, then the attributes that are
\* texts in the order of the map; what one puts in the next may replace.
Placeholder(f) == "{{" \o f \o "}}"
Replaced(t, f, v) == IF Is(v, "text") THEN ReplaceText(t, Placeholder(f), v.text) ELSE t
OwnReplaced(s, id) ==
  Replaced(Replaced(s.expression, "username", Text(id.own["username"])), "email", Text(id.own["email"]))
ReplacedAll(id, start, order) == FoldLeft(LAMBDA t, a : Replaced(t, a, id.attrs[a]), start, order)
TextsIn(id) == {a \in Attrs : Is(id.attrs[a], "text")}

\* The result is an attribute, whatever the name of the target.
Computed(s, id) ==
  {[id EXCEPT !.attrs[s.target] = Text(ReplacedAll(id, OwnReplaced(s, id), order))] :
     order \in SetToSeqs(TextsIn(id))}

SanitizedBy(s, id) ==
  CASE s.type = "rewrite" -> {Rewritten(s, id)}      \* regex, normalize
    [] s.type = "compute" -> Computed(s, id)
Sanitized(tr, id) ==
  FoldLeft(LAMBDA ids, s : UNION {IF i = Failed THEN {i} ELSE SanitizedBy(s, i) : i \in ids},
           {id}, tr.sanitizers)

-----------------------------------------------------------------------------
\* Templates show a field of the snapshot as text; the text is parsed when it is
\* JSON.  A list is shown as a text that is not, and no value as "<no value>".
Rendered(v) ==
  IF IsNothing(v) THEN Text("<no value>")
  ELSE IF Is(v, "items") THEN Text("[...]")
  ELSE IF Is(v, "text") /\ v.text \in DOMAIN ParsedTexts THEN ParsedTexts[v.text] ELSE v
FieldOf(id, f) == IF f \in Own THEN Text(id.own[f]) ELSE id.attrs[f]

\* Every template reads the identity as it was before the first.
Snapshot_Live(before, now) == now
Snapshot(before, now) == before

\* A strict template calls a function that only takes texts.
Filled(tr, id, now, k) ==
  LET tmpl == tr.templates[k]
      v == IF now = Failed THEN Nil ELSE FieldOf(Snapshot(id, now), tmpl.field)
  IN IF now = Failed \/ (tmpl.strict /\ ~Is(v, "text")) THEN Failed
     ELSE [now EXCEPT !.attrs[k] = Rendered(v)]
Templated(tr, id) ==
  {FoldLeft(LAMBDA now, k : Filled(tr, id, now, k), id, order) :
     order \in SetToSeqs(DOMAIN tr.templates)}

-----------------------------------------------------------------------------
\* resolveGroups: the groups of an identity that exist, each followed by its
\* parents, and theirs, unless they were seen before.
Ahead_SiblingsLost(parents, todo) == IF parents = <<>> THEN todo ELSE parents
Ahead(parents, todo) == parents \o todo
Follow(walk, groups) ==
  LET todo == walk[1]  found == walk[2]  g == Head(todo)
  IN IF g \notin GroupIds \/ Contains(found, g) THEN <<Tail(todo), found>>
     ELSE <<Ahead(groups[g].parents, Tail(todo)), Append(found, g)>>
Resolved(tr, id, groups) ==
  LET Walk[walk \in Seq(STRING) \X Seq(GroupIds)] ==
        IF walk[1] = <<>> THEN walk[2] ELSE Walk[Follow(walk, groups)]
  IN IF tr.includeParents THEN Walk[<<id.groups, <<>>>>]
     ELSE Among(id.groups, GroupIds)

Having(m, gs, groups) == Among(gs, {g \in GroupIds : groups[g].attrs[m.source] # Absent})
Numbers(m, gs, groups) ==
  {groups[g].attrs[m.source].number :
     g \in {g \in ToSet(gs) : Is(groups[g].attrs[m.source], "number")}}
Bools(m, gs, groups) ==
  {ToBool(groups[g].attrs[m.source]) : g \in ToSet(Having(m, gs, groups))}

\* getWeightedValue: the heaviest group that has the attribute, by its place; the
\* smaller name decides between groups of the same weight.
WeightOf(m, g, groups) ==
  LET w == groups[g].attrs[m.weight] IN IF Is(w, "number") THEN w.number ELSE 0
IsWinner_FirstTie(m, g, best, groups) == WeightOf(m, g, groups) > WeightOf(m, best, groups)
IsWinner(m, g, best, groups) ==
  \/ WeightOf(m, g, groups) > WeightOf(m, best, groups)
  \/ /\ WeightOf(m, g, groups) = WeightOf(m, best, groups)
     /\ groups[g].rank < groups[best].rank          \* the order of the names
Heavier(m, gs, best, i, groups) ==
  IF groups[gs[i]].attrs[m.source] # Absent /\ (best = 0 \/ IsWinner(m, gs[i], gs[best], groups))
  THEN i ELSE best
Weighted(m, gs, groups) ==
  LET winner == FoldLeftDomain(LAMBDA best, i : Heavier(m, gs, best, i, groups), 0, gs)
  IN IF winner = 0 \/ m.weight = "" THEN Nil ELSE groups[gs[winner]].attrs[m.source]

\* applyMapping, but for the modes that append; src is a clone of the attribute.
Appends == {"append", "uniqueAppend"}
Aggregated(m, src, gs, groups) ==
  LET having == Having(m, gs, groups)
      numbers == Numbers(m, gs, groups)
  IN CASE m.mode = "first" -> IF having = <<>> THEN src ELSE groups[Head(having)].attrs[m.source]
       [] m.mode = "last"  -> IF having = <<>> THEN src ELSE groups[Last(having)].attrs[m.source]
       [] m.mode = "max"   -> IF numbers = {} THEN Nil ELSE Number(Max(numbers))
       [] m.mode = "min"   -> IF numbers = {} THEN Nil ELSE Number(Min(numbers))
       [] m.mode = "weighted" -> Weighted(m, gs, groups)
       [] m.mode = "any"      -> Bool(Bool(TRUE) \in Bools(m, gs, groups))
       [] m.mode = "all"      -> Bool(Bool(FALSE) \notin Bools(m, gs, groups))
       [] m.mode = "anyFalse" -> Bool(Bool(FALSE) \in Bools(m, gs, groups))
       [] m.mode = "allFalse" -> Bool(Bool(TRUE) \notin Bools(m, gs, groups))
       [] OTHER -> src

\* The default takes the place of nothing and of an empty list.
OrDefault(m, v) ==
  IF m.default # Nil /\ (IsNothing(v) \/ (Is(v, "items") /\ v.items = <<>> /\ ~v.full))
  THEN m.default ELSE IF v = Absent THEN Nil ELSE v

\* What the modes that append start from, and one more value of a group: a single
\* one goes into the array in place if it has room, lists make a new array.
Start(v) == IF Is(v, "items") THEN v ELSE IF IsNothing(v) THEN Private(<<>>) ELSE Private(<<v>>)
Unique(s) == FoldLeft(LAMBDA r, x : IF Contains(r, x) THEN r ELSE Append(r, x), <<>>, s)
WritesCell(m, list, v, heap) ==
  /\ ~Is(v, "items") /\ InPlace(list)
  /\ m.mode = "uniqueAppend" => ~Contains(ItemsOf(list, heap), v)
Extended(m, list, v, heap) ==
  LET items == ItemsOf(list, heap)  unique == m.mode = "uniqueAppend" IN
  IF Is(v, "items")
    THEN Private(IF unique THEN Unique(items \o ItemsOf(v, heap)) ELSE items \o ItemsOf(v, heap))
  ELSE IF unique /\ Contains(items, v) THEN list
  ELSE IF InPlace(list) THEN [list EXCEPT !.full = TRUE]
  ELSE Private(Append(items, v))

\* An identity without groups gets the defaults, whatever its attributes are.
Defaulted(tr, id) ==
  FoldLeft(LAMBDA i, m : IF m.default = Nil THEN i ELSE [i EXCEPT !.attrs[m.target] = m.default],
           id, tr.mappings)

-----------------------------------------------------------------------------
\* The prefix transformer keeps the attributes that have the prefix, without it.
Cut(tr, id) ==
  IF ~tr.prefixed THEN id
  ELSE [id EXCEPT !.attrs = [a \in Attrs |->
          IF \E b \in DOMAIN tr.field : tr.field[b] = a
          THEN id.attrs[CHOOSE b \in DOMAIN tr.field : tr.field[b] = a] ELSE Absent]]

\* createTransformer and the parsers of the configurations.
Types == {"selector", "sanitizer", "template", "groupAggregation"}
Modes == {"first", "last", "max", "min", "append", "uniqueAppend", "weighted",
          "any", "all", "anyFalse", "allFalse"}
ParsesSelectors(tr)  == \A s \in ToSet(tr.selectors) : s.type \in {"text", "bool", "group"}
ParsesSanitizers(tr) == \A s \in ToSet(tr.sanitizers) : s.type \in {"rewrite", "compute"}
ParsesMappings(tr)   == \A m \in ToSet(tr.mappings) : m.mode \in Modes
Creates(tr) ==
  /\ tr.type \in Types
  /\ tr.type = "selector"  => ParsesSelectors(tr)
  /\ tr.type = "sanitizer" => ParsesSanitizers(tr)
  /\ tr.type = "groupAggregation" => ParsesMappings(tr)
===============================================================================
