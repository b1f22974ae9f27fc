----------------------------- MODULE MCPipeline --------------------------------
(***************************************************************************)
(* A small instance of Pipeline: two targets, two identities, groups that  *)
(* are parents of each other, and manifests that meet every transformer.   *)
(***************************************************************************)
EXTENDS Pipeline

AttrNames  == {"tags", "level", "role", "x_role"}
JSON       == [t \in {"1", "true"} |-> IF t = "1" THEN Number(1) ELSE Bool(TRUE)]

Values(tags, level, role) ==
  [a \in AttrNames |-> CASE a = "tags" -> tags [] a = "level" -> level
                         [] a = "role" -> role [] OTHER -> Absent]
Group(name, rank, parents, attrs) == [name |-> name, rank |-> rank, parents |-> parents, attrs |-> attrs]
Person(name, disabled, groups, attrs) ==
  [own |-> [f \in {"username", "email"} |-> name], disabled |-> disabled, groups |-> groups, attrs |-> attrs]

\* g1 and g3 are parents of each other; g1 and g2 weigh the same, or g3 has no role.
SmallGroups(weight, role3) ==
  [g \in {"g1", "g2", "g3"} |->
     CASE g = "g1" -> Group("ops", 2, <<"g3", "lost">>, Values(Text("a"), Number(weight), Text("true")))
       [] g = "g2" -> Group("dev", 1, <<>>, Values(Text("b"), Number(2), Text("false")))
       [] g = "g3" -> Group("all", 3, <<"g1">>, Values(Private(<<Text("b"), Text("c")>>), Absent, role3))]

\* A list of three items that came from JSON has room for a fourth.  What an expression
\* inserts for u2 may hold a placeholder in its turn.
Roomy(cell) == [items |-> <<Text("a"), Text("p"), Text("q")>>, cell |-> cell, full |-> FALSE]
SmallData ==
  {[identities |-> ("u1" :> Person("1", FALSE, <<"g1", "g2", "lost">>, Values(Roomy("c1"), l, r)))
                     @@ ("u2" :> Person("amy", d, gs, Values(Absent, Text("1"), Text(IF w = 1 THEN "true" ELSE "x{{level}}")))),
    groups |-> SmallGroups(w, IF w = 2 THEN Text("x") ELSE Absent)] :
     l \in {Number(3)}, r \in {Text("{{username}}"), Nil}, d \in BOOLEAN,
     gs \in {<<>>, <<"g3", "g2">>}, w \in {1, 2}}

Mapping(src, mode, target) ==
  [source |-> src, mode |-> mode, target |-> target, default |-> Nil, weight |-> "level"]
Aggregate_(parents, mappings) ==
  [type |-> "groupAggregation", includeParents |-> parents, mappings |-> mappings]
NoPrefix == [prefixed |-> FALSE, field |-> [a \in {} |-> ""]]
X == [prefixed |-> TRUE, field |-> ("x_role" :> "role")]
Manifest(transformers, prefix) == [transformers |-> transformers, prefix |-> prefix]

Inherit == Manifest(<<Aggregate_(TRUE, <<Mapping("tags", "append", "tags")>>)>>, NoPrefix)
Direct  == Manifest(<<Aggregate_(FALSE, <<Mapping("tags", "uniqueAppend", "role"),
                                          Mapping("tags", "append", "tags")>>)>>, NoPrefix)
Numeric == Manifest(
  <<Aggregate_(TRUE, <<Mapping("level", "max", "tags"), Mapping("level", "min", "x_role"),
                       Mapping("role", "weighted", "role")>>)>>, X)
Flags == Manifest(
  <<Aggregate_(FALSE, <<Mapping("role", "any", "tags"), Mapping("role", "anyFalse", "level"),
                        Mapping("role", "allFalse", "x_role"),
                        [Mapping("role", "all", "role") EXCEPT !.default = Text("none")]>>)>>, NoPrefix)
Edges == Manifest(
  <<Aggregate_(FALSE, <<[Mapping("x_role", "append", "x_role") EXCEPT !.default = Text("none")],
                        Mapping("role", "first", "level"), Mapping("tags", "last", "role")>>)>>, NoPrefix)
Rules == Manifest(
  <<[type |-> "selector", selectors |->
       <<[type |-> "bool", field |-> "disabled", bool |-> TRUE],
         [type |-> "text", field |-> "username", texts |-> {"1"}],
         [type |-> "group", field |-> "role", text |-> "false"]>>],
    [type |-> "sanitizer", sanitizers |->
       <<[type |-> "compute", target |-> "x_role", expression |-> "{{username}}-{{role}}{{level}}"],
         [type |-> "rewrite", field |-> "role", known |-> TRUE,
          change |-> [t \in {"true", "x{{level}}", "{{username}}"} |-> "1"]]>>],
    [type |-> "template", templates |->
       ("role" :> [field |-> "level", strict |-> FALSE]) @@ ("level" :> [field |-> "role", strict |-> FALSE])]>>,
  NoPrefix)
Strict == Manifest(
  <<Aggregate_(TRUE, <<>>),
    [type |-> "template", templates |-> ("tags" :> [field |-> "role", strict |-> TRUE])],
    [type |-> "sanitizer", sanitizers |->
       <<[type |-> "rewrite", field |-> "tags", known |-> FALSE, change |-> <<>>]>>]>>, NoPrefix)
Wrong == Manifest(<<Aggregate_(TRUE, <<Mapping("level", "sum", "level")>>)>>, NoPrefix)

SmallManifests == {Inherit, Direct, Numeric, Flags, Edges, Rules, Strict, Wrong}
===============================================================================
