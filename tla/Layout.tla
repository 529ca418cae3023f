------------------------------- MODULE Layout -------------------------------
(***************************************************************************)
(* docs/atlas/graph.mjs, orderedColumns: the columns of an overview are    *)
(* sorted by swapping neighbours as long as a swap makes the arrows        *)
(* between adjacent columns cross less often.  One step is one neighbour   *)
(* pair of the sweep.                                                      *)
(***************************************************************************)
EXTENDS Diagrams

CONSTANT Inputs  \* graphs to lay out: [columns, edges], no edge written twice

VARIABLE state  \* input, columns, position, links, best, next, improved, done

(* A node is placed once: in which column, and where in it.                *)
Positions(columns) ==
  [id \in UNION {Range(columns[i]) : i \in DOMAIN columns} |->
    LET i == CHOOSE i \in DOMAIN columns : id \in Range(columns[i]) IN
    <<i, CHOOSE j \in DOMAIN columns[i] : columns[i][j] = id>>]

(* The arrows from one column to the next, the ones that are counted.      *)
Links(position, edges) ==
  {e \in Range(edges) : /\ {e[1], e[2]} \subseteq DOMAIN position
                        /\ position[e[2]][1] = position[e[1]][1] + 1}

(* Two links of a column cross when one starts above and ends below.       *)
Crossings(position, links) ==
  Cardinality({p \in links \X links :
    /\ position[p[1][1]][1] = position[p[2][1]][1]
    /\ position[p[1][1]][2] < position[p[2][1]][2]
    /\ position[p[1][2]][2] > position[p[2][2]][2]})

(* The neighbour pairs of a sweep, column after column.                    *)
Sweep(columns) ==
  Concat([i \in DOMAIN columns |->
    [k \in 1..(Len(columns[i]) - 1) |-> <<i, k + 1>>]])

Exchange(columns, i, j) ==
  [columns EXCEPT ![i][j - 1] = columns[i][j], ![i][j] = columns[i][j - 1]]

Moved(position, columns, i, j) ==
  [position EXCEPT ![columns[i][j - 1]] = <<i, j>>,
                   ![columns[i][j]] = <<i, j - 1>>]

LayoutInit ==
  \E g \in Inputs : \E p \in {Positions(g.columns)} :
    state = [input |-> g, columns |-> g.columns, position |-> p,
             links |-> Links(p, g.edges),
             best |-> Crossings(p, Links(p, g.edges)),
             next |-> 1, improved |-> FALSE, done |-> FALSE]

(* Mutation: an exchange that ties is kept as well.                        *)
BetterOrTied(crossings) == crossings <= state.best

Better(crossings) == crossings < state.best

TryPair ==
  /\ ~state.done
  /\ state.next <= Len(Sweep(state.columns))
  /\ LET pair == Sweep(state.columns)[state.next]
         moved == Moved(state.position, state.columns, pair[1], pair[2])
         crossings == Crossings(moved, state.links) IN
     state' = IF Better(crossings)
              THEN [state EXCEPT !.columns = Exchange(@, pair[1], pair[2]),
                                 !.position = moved, !.best = crossings,
                                 !.improved = TRUE, !.next = @ + 1]
              ELSE [state EXCEPT !.next = @ + 1]

EndSweep ==
  /\ ~state.done
  /\ state.next > Len(Sweep(state.columns))
  /\ state' = IF state.improved
              THEN [state EXCEPT !.next = 1, !.improved = FALSE]
              ELSE [state EXCEPT !.done = TRUE]

LayoutStep == TryPair \/ EndSweep

-----------------------------------------------------------------------------
(* Whatever was exchanged, every column holds the nodes it was given, and  *)
(* the arrows never cross more often than as authored; at the end no       *)
(* exchange of neighbours is an improvement, and columns without a         *)
(* crossing are as authored.                                               *)
LayoutSound ==
  LET c == state.columns
      authored == state.input.columns IN
  /\ \A i \in DOMAIN c : /\ Len(c[i]) = Len(authored[i])
                         /\ Range(c[i]) = Range(authored[i])
  /\ \A id \in DOMAIN state.position :
       c[state.position[id][1]][state.position[id][2]] = id
  /\ Crossings(state.position, state.links) = state.best
  /\ \A p \in {Positions(authored)} :
       /\ state.best <= Crossings(p, state.links)
       /\ Crossings(p, state.links) = 0 => c = authored
  /\ state.done =>
       \A p \in Range(Sweep(c)) :
         Crossings(Moved(state.position, c, p[1], p[2]), state.links) >= state.best

(* Nothing bounds the sweeps but that each step brings the end nearer:     *)
(* there are fewer crossings, or as many and no further sweep is owed for  *)
(* the exchanges made, or neither changes and fewer steps of this sweep    *)
(* are ahead.  That is an order without infinite descents.                 *)
Ahead == Cardinality(state.next..Len(Sweep(state.columns))) + (IF state.done THEN 0 ELSE 1)

Descends ==
  /\ state.best \in Nat /\ Ahead \in Nat
  /\ \/ state'.best < state.best
     \/ state'.best = state.best /\ state.improved /\ ~state'.improved
     \/ state'.best = state.best /\ state'.improved = state.improved /\ Ahead' < Ahead
=============================================================================
