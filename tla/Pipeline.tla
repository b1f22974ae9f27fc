------------------------------- MODULE Pipeline --------------------------------
(***************************************************************************)
(* The pipelines of the targets of one batch, each in its own goroutine    *)
(* (Pipeline.Execute): they copy the identities of the source they share,  *)
(* run the transformers of their manifests one after the other, each over  *)
(* the identities in the order of a map, and end with the prefix.          *)
(*                                                                         *)
(* DeepCopy copies the map of the attributes and not the lists in it, so   *)
(* an append may write into an array that others hold: such a cell is      *)
(* shared (heap).  A step is one transformer on one identity, and in the   *)
(* modes that append it is one group.  A list that a pipeline makes itself *)
(* is taken to have no room left.                                          *)
(***************************************************************************)
EXTENDS Transformers

CONSTANTS
  Targets, Uids,
  Cells,       \* the room left in the arrays of the source's lists
  Manifests,   \* the sequences of transformers to consider, with the prefix
  SourceData   \* the identities and groups to consider

\* A list is a slice that may have room, not written to yet.
IsSlice(v) ==
  Is(v, "items") => /\ v = [items |-> v.items, cell |-> v.cell, full |-> FALSE]
                    /\ v.cell # NoCell => v.cell \in Cells /\ v.items \in Seq(ToSet(v.items))

\* What the batch fetched: identities by name, and groups that can be compared.
ASSUME SourceAssumption ==
  /\ IsFiniteSet(Attrs) /\ IsFiniteSet(GroupIds) /\ GroupIds \subseteq STRING
  /\ \A data \in SourceData :
       /\ DOMAIN data.identities = Uids
       /\ \A u \in Uids : LET id == data.identities[u] IN
            /\ id = [own |-> id.own, disabled |-> id.disabled, groups |-> id.groups,
                     attrs |-> [a \in Attrs |-> id.attrs[a]]]
            /\ id.groups \in Seq(STRING) /\ \A a \in Attrs : IsSlice(id.attrs[a])
       /\ \A g \in GroupIds : LET group == data.groups[g] IN
            /\ group = [name |-> group.name, rank |-> group.rank, parents |-> group.parents,
                        attrs |-> [a \in Attrs |-> group.attrs[a]]]
            /\ group.rank \in Int /\ group.parents \in Seq(STRING)
            /\ \A a \in Attrs : LET v == group.attrs[a]
                                IN IsSlice(v) /\ (Is(v, "number") => v.number \in Int)

\* Manifests are lists of lists, and an attribute that one names is in Attrs; a
\* mapping that names no weight has the empty text.
FieldsOf(selector) ==
  CASE selector.type = "text" -> Own \cup {"disabled"}
    [] selector.type = "bool" -> {"disabled"}
    [] OTHER -> {"name", "gid"}
ASSUME ManifestsAssumption ==
  \A mf \in Manifests :
    /\ mf.prefix.prefixed => DOMAIN mf.prefix.field \subseteq Attrs
    /\ mf.transformers \in Seq(ToSet(mf.transformers))
    /\ \A tr \in ToSet(mf.transformers) :
         /\ tr.type = "selector" =>
              \A s \in ToSet(tr.selectors) : s.field \in Attrs \cup FieldsOf(s)
         /\ tr.type = "sanitizer" =>
              /\ tr.sanitizers \in Seq(ToSet(tr.sanitizers))
              /\ \A s \in ToSet(tr.sanitizers) : s.type = "rewrite" => s.field \in Attrs \cup Own
         /\ tr.type = "template" =>
              /\ IsFiniteSet(DOMAIN tr.templates)
              /\ \A k \in DOMAIN tr.templates : tr.templates[k].field \in Attrs \cup Own
         /\ tr.type = "groupAggregation" =>
              /\ tr.mappings \in Seq(ToSet(tr.mappings))
              /\ \A m \in ToSet(tr.mappings) :
                   m.source \in Attrs /\ m.weight \in Attrs \cup {""} /\ IsSlice(m.default)

\* A list that a template makes is a new one of its own: nobody shares its array.
ASSUME ParsedAssumption ==
  \A t \in DOMAIN ParsedTexts : LET v == ParsedTexts[t] IN Is(v, "items") => v = Private(v.items)

VARIABLES
  manifest, source,   \* by target; what the batch fetched
  stage,      \* the transformer that a pipeline has come to; 0 before it is built
  todo,       \* the identities it has not transformed yet
  ids,        \* newIdentities
  acc,        \* the aggregation of a target that is under way
  outcome,    \* "none", "ok" or "error"
  heap,       \* the cells
  writers     \* history: who wrote what into a cell

vars == <<manifest, source, stage, todo, ids, acc, outcome, heap, writers>>

Idle == [u |-> "", m |-> 0, rest |-> <<>>, list |-> Private(<<>>)]

\* NewPipeline puts the prefix transformer last.
PrefixStep(p) == [type |-> "prefix", prefixed |-> p.prefixed, field |-> p.field]
Steps(t) == manifest[t].transformers \o <<PrefixStep(manifest[t].prefix)>>
Current(t) == Steps(t)[stage[t]]
Left(t) == {u \in Uids : ids[t][u] # Gone}

\* Every variable keeps its type; a pipeline never runs past its last transformer.
TypeOK ==
  /\ manifest \in [Targets -> Manifests] /\ source \in SourceData
  /\ todo \in [Targets -> SUBSET Uids] /\ DOMAIN heap = Cells
  /\ outcome \in [Targets -> {"none", "ok", "error"}]
  /\ \A t \in Targets :
       /\ stage[t] \in 0..Len(Steps(t))
       /\ acc[t] # Idle => acc[t].u \in todo[t] /\ Current(t).type = "groupAggregation"
       /\ todo[t] \subseteq Left(t)
  /\ DOMAIN writers = Cells

Init ==
  /\ manifest \in [Targets -> Manifests] /\ source \in SourceData
  /\ stage = [t \in Targets |-> 0] /\ todo = [t \in Targets |-> {}]
  /\ ids = [t \in Targets |-> [u \in Uids |-> Gone]]
  /\ acc = [t \in Targets |-> Idle] /\ outcome = [t \in Targets |-> "none"]
  /\ heap = [c \in Cells |-> Nil] /\ writers = [c \in Cells |-> {}]

-----------------------------------------------------------------------------
\* NewPipeline, and the copies at the start of Execute.
Known(t) == \A tr \in ToSet(manifest[t].transformers) : Creates(tr)
Build(t) ==
  /\ stage[t] = 0 /\ outcome[t] = "none"
  /\ IF Known(t)
       THEN /\ stage' = [stage EXCEPT ![t] = 1]
            /\ ids' = [ids EXCEPT ![t] = source.identities]
            /\ todo' = [todo EXCEPT ![t] = Uids]
            /\ UNCHANGED outcome
       ELSE outcome' = [outcome EXCEPT ![t] = "error"] /\ UNCHANGED <<stage, ids, todo>>
  /\ UNCHANGED <<manifest, source, acc, heap, writers>>

\* What a transformer may make of an identity; groupAggregation takes several steps.
Results(tr, id, groups) ==
  CASE tr.type = "selector"  -> {Selected(tr, id, groups)}
    [] tr.type = "sanitizer" -> Sanitized(tr, id)
    [] tr.type = "template"  -> Templated(tr, id)
    [] tr.type = "prefix"    -> {Cut(tr, id)}

\* The pipeline is at work on the identity.
At(t, u) ==
  stage[t] > 0 /\ outcome[t] = "none" /\ u \in todo[t] /\ acc[t] = Idle
Rest(t, u) == todo[t] \ {u}

\* The first error ends the pipeline, and nothing is returned.
Transform(t, u) ==
  /\ At(t, u) /\ Current(t).type # "groupAggregation"
  /\ \E r \in Results(Current(t), ids[t][u], source.groups) :
       IF r = Failed
         THEN /\ outcome' = [outcome EXCEPT ![t] = "error"]
              /\ ids' = [ids EXCEPT ![t] = [v \in Uids |-> Gone]]
              /\ todo' = [todo EXCEPT ![t] = {}]
         ELSE /\ ids' = [ids EXCEPT ![t][u] = r]
              /\ todo' = [todo EXCEPT ![t] = Rest(t, u)]
              /\ UNCHANGED outcome
  /\ UNCHANGED <<manifest, source, stage, acc, heap, writers>>

\* The mapping whose turn it is, and what it reads.
MappingOf(t) == Current(t).mappings[acc[t].m]
GroupsFor_Direct(t, u) == Among(ids[t][u].groups, GroupIds)
GroupsFor(t, u) == Resolved(Current(t), ids[t][u], source.groups)
Src(t, u, m) == ids[t][u].attrs[m.source]

\* The next mapping of the identity, or the next identity.
Begin(t, u, id, m) ==
  IF m > Len(Current(t).mappings)
    THEN acc' = [acc EXCEPT ![t] = Idle] /\ todo' = [todo EXCEPT ![t] = Rest(t, u)]
    ELSE LET next == Current(t).mappings[m] IN
         /\ acc' = [acc EXCEPT ![t] =
              [u |-> u, m |-> m,
               rest |-> IF next.mode \in Appends
                          THEN Having(next, GroupsFor(t, u), source.groups) ELSE <<>>,
               list |-> IF next.mode \in Appends THEN Start(id.attrs[next.source])
                          ELSE Private(<<>>)]]
         /\ UNCHANGED todo

Aggregate(t, u) ==
  /\ At(t, u) /\ Current(t).type = "groupAggregation"
  /\ IF ids[t][u].groups = <<>>
       THEN /\ ids' = [ids EXCEPT ![t][u] = Defaulted(Current(t), @)]
            /\ todo' = [todo EXCEPT ![t] = Rest(t, u)] /\ UNCHANGED acc
       ELSE Begin(t, u, ids[t][u], 1) /\ UNCHANGED ids
  /\ UNCHANGED <<manifest, source, stage, outcome, heap, writers>>

\* One group of a mapping that appends.
Extend(t) ==
  LET a == acc[t]
      v == source.groups[Head(a.rest)].attrs[MappingOf(t).source] IN
  /\ a # Idle /\ a.rest # <<>>
  /\ acc' = [acc EXCEPT ![t].rest = Tail(@), ![t].list = Extended(MappingOf(t), @, v, heap)]
  /\ IF WritesCell(MappingOf(t), a.list, v, heap)
       THEN /\ heap' = [heap EXCEPT ![a.list.cell] = v]
            /\ writers' = [writers EXCEPT ![a.list.cell] = @ \cup {<<t, a.u, stage[t], a.m, v>>}]
       ELSE UNCHANGED <<heap, writers>>
  /\ UNCHANGED <<manifest, source, stage, todo, ids, outcome>>

\* The mapping sets its attribute.
Assign(t) ==
  LET a == acc[t]  m == MappingOf(t)
      v == IF m.mode \in Appends THEN a.list
           ELSE Aggregated(m, Cloned(Src(t, a.u, m), heap), GroupsFor(t, a.u), source.groups)
      id == [ids[t][a.u] EXCEPT !.attrs[m.target] = OrDefault(m, v)] IN
  /\ a # Idle /\ a.rest = <<>>
  /\ ids' = [ids EXCEPT ![t][a.u] = id]
  /\ Begin(t, a.u, id, a.m + 1)
  /\ UNCHANGED <<manifest, source, stage, outcome, heap, writers>>

\* The loop over the identities has ended.
StageDone_First(t) == acc[t] = Idle /\ todo[t] # Left(t)
StageDone(t) == acc[t] = Idle /\ todo[t] = {}
LastStage_Past(t) == stage[t] > Len(Steps(t))
LastStage(t) == stage[t] = Len(Steps(t))

Advance(t) ==
  /\ stage[t] > 0 /\ outcome[t] = "none" /\ StageDone(t)
  /\ IF LastStage(t)
       THEN outcome' = [outcome EXCEPT ![t] = "ok"] /\ UNCHANGED <<stage, todo>>
       ELSE /\ stage' = [stage EXCEPT ![t] = @ + 1]
            /\ todo' = [todo EXCEPT ![t] = Left(t)]
            /\ UNCHANGED outcome
  /\ UNCHANGED <<manifest, source, ids, acc, heap, writers>>

Next ==
  \E t \in Targets :
    \/ Build(t) \/ Extend(t) \/ Assign(t) \/ Advance(t)
    \/ \E u \in Uids : Transform(t, u) \/ Aggregate(t, u)

Spec == Init /\ [][Next]_vars

-----------------------------------------------------------------------------
\* What the manifest makes of one identity when nothing else runs: every list is a
\* copy of its own.
NoHeap == [c \in {} |-> Nil]
AsValue(v) == IF Is(v, "items") THEN Private(v.items) ELSE v
OwnCopy(id) == [id EXCEPT !.attrs = [a \in Attrs |-> AsValue(id.attrs[a])]]
OwnGroups == [g \in GroupIds |-> OwnCopy(source.groups[g])]

MappedAlone(tr, id, m, groups) ==
  LET gs == Resolved(tr, id, groups)
      src == id.attrs[m.source]
      v == IF m.mode \in Appends
             THEN FoldLeft(LAMBDA list, g : Extended(m, list, groups[g].attrs[m.source], NoHeap),
                           Start(src), Having(m, gs, groups))
             ELSE Aggregated(m, src, gs, groups)
  IN [id EXCEPT !.attrs[m.target] = AsValue(OrDefault(m, v))]
AggregatedAlone(tr, id, groups) ==
  IF id.groups = <<>> THEN OwnCopy(Defaulted(tr, id))
  ELSE FoldLeft(LAMBDA i, m : MappedAlone(tr, i, m, groups), id, tr.mappings)

StepAlone(results, tr, groups) ==
  UNION {IF r \in {Gone, Failed} THEN {r}
         ELSE IF tr.type = "groupAggregation" THEN {AggregatedAlone(tr, r, groups)}
         ELSE Results(tr, r, groups) : r \in results}
ResultsAlone(steps, id, groups) ==
  FoldLeft(LAMBDA results, tr : StepAlone(results, tr, groups), {id}, steps)
Alone(t, u) == ResultsAlone(Steps(t), OwnCopy(source.identities[u]), OwnGroups)

\* What an identity looks like to the operator.
Seen(id) ==
  IF id = Gone THEN id ELSE [id EXCEPT !.attrs = [a \in Attrs |-> Cloned(@[a], heap)]]

\* A cell that a mapping of the identity wrote holds what somebody else wrote.
Clobbered(t, u) ==
  \E c \in Cells : \E w, x \in writers[c] : w[1] = t /\ w[2] = u /\ x[5] # w[5]

\* Every target is given what its own manifest makes of the source's identities,
\* whatever the pipelines of other targets do meanwhile.  The exception is the
\* array that DeepCopy shares (interface.go:41) and append writes into
\* (group_aggregation.go:241).
Isolated ==
  \A t \in Targets : outcome[t] = "ok" =>
    \A u \in Uids : Clobbered(t, u) \/ Seen(ids[t][u]) \in Alone(t, u)

\* One identity that fails, and nothing is returned for any of them: a target that
\* is given none either has a manifest that is refused or an identity that can fail,
\* and one that is given identities has none that must.  What somebody else wrote
\* may decide whether an identity fails, as in Isolated.
AllOrNothing ==
  \A t \in Targets :
    /\ outcome[t] = "error" =>
         /\ \A u \in Uids : ids[t][u] = Gone
         /\ ~Known(t) \/ \E u \in Uids : Clobbered(t, u) \/ Failed \in Alone(t, u)
    /\ outcome[t] = "ok" =>
         Known(t) /\ \A u \in Uids : Clobbered(t, u) \/ Alone(t, u) # {Failed}

-----------------------------------------------------------------------------
\* What follows is about what the batch fetched, which no step changes: it is looked
\* at where a behaviour starts.
Unbuilt == \A t \in Targets : stage[t] = 0

\* An expression may name an attribute with a placeholder, or a part of one, in its
\* text, or have a placeholder within another: then the order in which the attributes
\* are replaced decides (sanitizers.go:236-241).
HasBrace(t) == \E i \in 1..Len(t) : SubSeq(t, i, i) \in {"{", "}"}
Nests(t) ==
  \E i, j \in 1..Len(t) :
    /\ i < j /\ Occurs("{{", t, i) /\ Occurs("{{", t, j)
    /\ ~\E k \in i..j : Occurs("}}", t, k)
Ambiguous(id, start) ==
  \/ Nests(start)
  \/ \E a \in TextsIn(id) : /\ \E i \in 1..Len(start) : Occurs(Placeholder(a), start, i)
                            /\ HasBrace(a) \/ HasBrace(id.attrs[a].text)
Mixes(tr, id) ==
  /\ tr.type = "sanitizer"
  /\ \E k \in DOMAIN tr.sanitizers :
       /\ tr.sanitizers[k].type = "compute"
       /\ \E i \in Sanitized([sanitizers |-> SubSeq(tr.sanitizers, 1, k - 1)], id) :
            i # Failed /\ Ambiguous(i, OwnReplaced(tr.sanitizers[k], i))
MixedAlone(t, u) ==
  \E k \in DOMAIN Steps(t) :
    \E id \in ResultsAlone(SubSeq(Steps(t), 1, k - 1), OwnCopy(source.identities[u]), OwnGroups) :
      id \notin {Gone, Failed} /\ Mixes(Steps(t)[k], id)

\* The order in which Go ranges over a map decides nothing: a manifest of known
\* transformers makes one thing of an identity, but for such an expression.
OrderFree ==
  Unbuilt => \A t \in Targets : Known(t) =>
    \A u \in Uids : MixedAlone(t, u) \/ Cardinality(Alone(t, u)) = 1

-----------------------------------------------------------------------------
\* The aggregations of the manifests.
Aggregations ==
  UNION {{tr \in ToSet(manifest[t].transformers) : tr.type = "groupAggregation"} : t \in Targets}

\* The weighted value is the one of a heaviest group that has it, and among the
\* heaviest of the smallest name, in whatever order the groups come.
Beats(m, g, h) ==
  LET w == WeightOf(m, g, source.groups)  x == WeightOf(m, h, source.groups)
  IN w > x \/ (w = x /\ source.groups[g].rank <= source.groups[h].rank)
HeaviestWins ==
  Unbuilt => \A tr \in Aggregations : \A m \in ToSet(tr.mappings) :
    m.mode = "weighted" /\ m.weight # "" =>
      \A order \in SetToSeqs(GroupIds) :
        LET v == Weighted(m, order, source.groups)
            having == {g \in GroupIds : source.groups[g].attrs[m.source] # Absent}
        IN having # {} =>
             \E g \in having : v = source.groups[g].attrs[m.source] /\ \A h \in having : Beats(m, g, h)

\* includeParents gives an identity the groups that exist among its own and all
\* that a chain of parents leads to, each once, even when groups are parents of
\* each other; the walk ends.
Reach(S) == {p \in GroupIds : \E g \in S : p \in ToSet(source.groups[g].parents)}
InheritsReachable ==
  Unbuilt => \A tr \in Aggregations : tr.includeParents =>
    \A u \in Uids :
      LET found == Resolved(tr, source.identities[u], source.groups)
          own == ToSet(source.identities[u].groups) \cap GroupIds
      IN /\ own \subseteq ToSet(found) /\ Reach(ToSet(found)) \subseteq ToSet(found)
         /\ \A S \in SUBSET GroupIds :
              own \subseteq S /\ Reach(S) \subseteq S => ToSet(found) \subseteq S
         /\ Cardinality(ToSet(found)) = Len(found)
===============================================================================
