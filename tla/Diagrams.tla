------------------------------ MODULE Diagrams ------------------------------
(***************************************************************************)
(* docs/atlas/graph.mjs: the graphs the atlas draws, and what              *)
(* mermaidSource makes of one.                                             *)
(*                                                                         *)
(* The data files write a graph as rows of text.  Here the rows that share *)
(* their kind, or their source, are one tuple that begins with it: a node  *)
(* group is <<kind, id, id, ...>>, an edge group <<from, to, to, ...>>, in *)
(* the order of the file.  Labels, titles, notes and source links are left *)
(* out.                                                                    *)
(***************************************************************************)
EXTENDS Integers, Sequences, FiniteSetsExt

SumOver(f) == FoldFunction(+, 0, f)
Put(f, x, y) == [z \in DOMAIN f \cup {x} |-> IF z = x THEN y ELSE f[z]]

(* Some sequences, one after the other.  The modules that instantiate this *)
(* one many times take no more of the libraries with them than they use.   *)
Concat(seqs) ==
  LET upTo[i \in 0..Len(seqs)] == IF i = 0 THEN <<>> ELSE upTo[i - 1] \o seqs[i] IN
  upTo[Len(seqs)]

Kinds == {"event", "depot", "etl", "state", "query", "decision", "route",
          "memory", "external", "end"}

(* Every further element of a group, with the first one.                   *)
Rows(groups) ==
  Concat([g \in DOMAIN groups |->
    [i \in 1..(Len(groups[g]) - 1) |-> <<groups[g][1], groups[g][i + 1]>>]])

Graph(view, nodes, edges) ==
  LET rows == Rows(nodes) IN
  [view  |-> view,
   nodes |-> [i \in DOMAIN rows |-> [kind |-> rows[i][1], id |-> rows[i][2]]],
   edges |-> Rows(edges)]

Scenario(nodes, edges)  == Graph("td", nodes, edges)
Partition(nodes, edges) == Graph("partition", nodes, edges)

Ids(g) == {g.nodes[i].id : i \in DOMAIN g.nodes}
Ends(g) == {g.nodes[i].id : i \in {j \in DOMAIN g.nodes : g.nodes[j].kind = "end"}}
IndexOf(g, id) == CHOOSE i \in DOMAIN g.nodes : g.nodes[i].id = id
KindOf(g, id) == g.nodes[IndexOf(g, id)].kind

(* A graph mermaidSource does not refuse: every node has its own id and a  *)
(* known kind, every edge joins nodes.                                     *)
WellFormed(g) ==
  /\ \A i, j \in DOMAIN g.nodes : g.nodes[i].id = g.nodes[j].id => i = j
  /\ \A i \in DOMAIN g.nodes : g.nodes[i].kind \in Kinds
  /\ \A i \in DOMAIN g.edges : {g.edges[i][1], g.edges[i][2]} \subseteq Ids(g)

(* validate.mjs: there are transitions, and no node is without one.        *)
Valid(g) ==
  /\ WellFormed(g)
  /\ Len(g.edges) > 0
  /\ \A id \in Ids(g) : \E i \in DOMAIN g.edges : id \in {g.edges[i][1], g.edges[i][2]}

Exits(g, id) == {i \in DOMAIN g.edges : g.edges[i][1] = id}
Entries(g, id) == {i \in DOMAIN g.edges : g.edges[i][2] = id}

(* At a decision with two exits the second is drawn first when it joins a  *)
(* shared state declared before the transform that only the first leads to.*)
Swapped(g, id) ==
  /\ KindOf(g, id) = "decision"
  /\ Cardinality(Exits(g, id)) = 2
  /\ \E i, j \in Exits(g, id) :
       LET first == g.edges[i][2]
           second == g.edges[j][2] IN
       /\ i < j
       /\ KindOf(g, first) = "etl" /\ KindOf(g, second) = "state"
       /\ IndexOf(g, second) < IndexOf(g, first)
       /\ Cardinality(Entries(g, second)) > 1
       /\ Cardinality(Entries(g, first)) = 1

(* The transitions in the order mermaidSource emits them.                  *)
EmittedEdges(g) ==
  [i \in DOMAIN g.edges |->
    LET from == g.edges[i][1] IN
    IF Swapped(g, from) THEN g.edges[CHOOSE j \in Exits(g, from) : j # i]
    ELSE g.edges[i]]

(* A walk along the arrows of g.                                           *)
Follows(g, path) ==
  /\ path[1] \in Ids(g)
  /\ \A i \in 1..(Len(path) - 1) : <<path[i], path[i + 1]>> \in Range(g.edges)
=============================================================================
