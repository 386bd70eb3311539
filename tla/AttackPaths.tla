---------------------------- MODULE AttackPaths ----------------------------
(***************************************************************************)
(* The query of graph.FindAttackPaths: which chains of CAN_REACH edges lead*)
(* from an external asset to a target through exploitable assets only.     *)
(*                                                                         *)
(* A path is the sequence of its edges, first to last.  As in Cypher, it   *)
(* repeats no edge but may pass an asset twice, has at least one edge, and *)
(* its length bounds how deep the search goes.  The names and the ranking  *)
(* of the paths in the answer are left out.                                *)
(***************************************************************************)
EXTENDS Integers, Sequences, FiniteSets

CONSTANTS
  External,   \* assets whose exposure is 'external'
  PathLimit   \* LIMIT of the query: 50

\* Mutant: the pattern is *1..(maxHops - 1).
OneShort(maxHops) == IF maxHops < 1 THEN 3 ELSE IF maxHops > 8 THEN 7 ELSE maxHops - 1
HopBound(maxHops) == IF maxHops < 1 THEN 4 ELSE IF maxHops > 8 THEN 8 ELSE maxHops

\* The edges into the target, and the paths with an edge before them that they lack.
Lengthened(edges, target, paths) ==
  {<<e>> : e \in {d \in edges : d[2] = target}} \cup paths \cup
  {<<p[1]>> \o p[2] : p \in {q \in edges \X paths : /\ q[1][2] = q[2][1][1]
                                                   /\ \A i \in DOMAIN q[2] : q[2][i] # q[1]}}

\* The paths of at most n edges into the target.
Trails(edges, target, n) ==
  LET trails[k \in 0..n] == IF k = 0 THEN {} ELSE Lengthened(edges, target, trails[k - 1])
  IN  trails[n]

Nodes(path) == {path[i][1] : i \in DOMAIN path} \cup {path[i][2] : i \in DOMAIN path}

\* Those the WHERE clause lets through.
Matches(edges, exploitable, target, maxHops) ==
  {p \in Trails(edges, target, HopBound(maxHops)) :
     p[1][1] \in External /\ Nodes(p) \subseteq exploitable}

\* Every answer that ORDER BY len LIMIT allows: no path left out is shorter than one
\* that is returned.
Answers(paths) ==
  LET size      == IF Cardinality(paths) < PathLimit THEN Cardinality(paths) ELSE PathLimit
      within(n) == {p \in paths : Len(p) <= n}
      full      == {n \in 0..8 : Cardinality(within(n)) <= size}
      top       == CHOOSE n \in full : \A m \in full : m <= n
      next      == {p \in paths : Len(p) = top + 1}
  IN  {within(top) \cup s : s \in {t \in SUBSET next :
         Cardinality(t) = size - Cardinality(within(top))}}
=============================================================================
