--------------------------- MODULE MCBaseRelPaths ---------------------------
(***************************************************************************)
(* Range tables for BaseRelPaths: three slots. Either two base rels (or   *)
(* empty slots) of the kinds below, or an append rel in slot 1 with its    *)
(* members in slots 2 and 3, or with one member and a plain base rel.      *)
(***************************************************************************)
EXTENDS BaseRelPaths

\* A plain table of 6 pages with nothing that stops parallelism.
Table == [rtekind |-> "relation", relkind |-> "table", tablesample |-> "none",
          temp |-> FALSE, safe |-> TRUE, qualsSafe |-> TRUE, excluded |-> FALSE,
          lateral |-> FALSE, pages |-> 6, relWorkers |-> -1, selfRef |-> FALSE,
          sub |-> "none", inh |-> FALSE]

\* Tables of 1, 2 and 54 pages: below, at and far above the threshold 2.
Plain1 == [Table EXCEPT !.pages = 1]
Plain2 == [Table EXCEPT !.pages = 2]
Plain54 == [Table EXCEPT !.pages = 54]
TempTable == [Table EXCEPT !.temp = TRUE, !.pages = 54]
NoWorkersOption == [Table EXCEPT !.relWorkers = 0]
ManyWorkersOption == [Table EXCEPT !.relWorkers = 6, !.pages = 1]
LateralTable == [Table EXCEPT !.lateral = TRUE]
RestrictedQuals == [Table EXCEPT !.qualsSafe = FALSE]
Excluded == [Table EXCEPT !.excluded = TRUE]
Foreign == [Table EXCEPT !.relkind = "foreign"]
Partitioned == [Table EXCEPT !.relkind = "partitioned"]
SampleOnce == [Table EXCEPT !.tablesample = "nonrepeatable"]
SampleRepeatable == [Table EXCEPT !.tablesample = "repeatable"]
Subquery(s) == [Table EXCEPT !.rtekind = "subquery", !.sub = s]
LateralSubquery == [Subquery("sortedPartial") EXCEPT !.lateral = TRUE]
Function(safe) == [Table EXCEPT !.rtekind = "function", !.safe = safe]
OfKind(k) == [Table EXCEPT !.rtekind = k]
SelfRefCte == [OfKind("cte") EXCEPT !.selfRef = TRUE]

MCRtes ==
  {Table, Plain1, Plain2, Plain54, TempTable, NoWorkersOption, ManyWorkersOption,
   LateralTable, RestrictedQuals, Excluded, Foreign, Partitioned, SampleOnce,
   SampleRepeatable, Subquery("partial"), Subquery("sortedPartial"),
   Subquery("serial"), Subquery("empty"), LateralSubquery, Function(TRUE),
   Function(FALSE), OfKind("tablefunc"), OfKind("values"), OfKind("cte"),
   SelfRefCte, OfKind("namedtuplestore")}

NoneSlot == [opt |-> "none", rte |-> Table, parent |-> 0]
Base(e) == [opt |-> "base", rte |-> e, parent |-> 0]

\* Two slots of base rels or empty ones, and an empty third.
PairSlots ==
  {<<f[1], f[2], NoneSlot>> : f \in [1..2 -> {NoneSlot} \cup {Base(e) : e \in MCRtes}]}

\* Append parents: inheritance or partitioning parents (one excluded by
\* constraints, one with a parallel-restricted qual) and a UNION ALL.
InhParents == {[e EXCEPT !.inh = TRUE] : e \in {Table, Partitioned, RestrictedQuals, Excluded}}
UnionAll == [Subquery("serial") EXCEPT !.inh = TRUE]

\* Members of an inheritance tree, and of a UNION ALL; a member has the
\* parent's quals, translated.
InhMembers == {Table, Plain1, Plain54, TempTable, Foreign, Excluded, ManyWorkersOption, Partitioned}
UnionAllMembers == {Table, Plain54, TempTable, Subquery("partial"), Subquery("sortedPartial"),
                    Subquery("serial"), Subquery("empty")}
MembersOf(p) == IF p.rtekind = "subquery" THEN UnionAllMembers ELSE InhMembers
Member(p, e) == [opt |-> "other", rte |-> [e EXCEPT !.qualsSafe = p.qualsSafe], parent |-> 1]

AppendSlots ==
  UNION {{<<Base(p), Member(p, a), Member(p, b)>> : a, b \in MembersOf(p)}
           \cup {<<Base(p), Member(p, a), Base(Plain54)>> : a \in MembersOf(p)}
         : p \in InhParents \cup {UnionAll}}

MCSlotChoices == PairSlots \cup AppendSlots

\* No special join, or a semi join with the second rel as its right side.
MCJoinInfoChoices == {{}, {[jointype |-> "semi", rhs |-> {2}]}}

\* The pages of every table are within int range.
ASSUME \A e \in MCRtes : e.pages <= IntMax
====
