--------------------------- MODULE SearchSolutions ---------------------------
(***************************************************************************)
(* Solutions that search: almost-equal, find-snuke, impartial-gift, pac.   *)
(*                                                                         *)
(* A mask of bits is the set it stands for, the index -1 that stands for   *)
(* none is 0.  The word find-snuke looks for is a constant.                *)
(***************************************************************************)
EXTENDS SolutionSteps

CONSTANT Target  \* "snuke", a sequence of letters

-----------------------------------------------------------------------------
(* almost-equal: can the strings be put in a row where neighbours differ   *)
(* in one place?  A frame is a row's strings, its last one and its length. *)
AlmostEqualDiagram == Scenario(
  << <<"event", "start">>, <<"decision", "stack">>, <<"end", "no">>, <<"etl", "pop">>,
     <<"decision", "complete">>, <<"end", "yes">>, <<"etl", "candidate">>,
     <<"decision", "used">>, <<"etl", "push", "next">> >>,
  << <<"start", "stack">>, <<"stack", "no", "pop">>, <<"pop", "complete">>,
     <<"complete", "yes", "candidate">>, <<"candidate", "used">>,
     <<"used", "push", "next">>, <<"push", "next">>, <<"next", "candidate", "stack">> >>)

(* The count stops at two.                                                 *)
CountDiffs(a, b) == Min({2, Cardinality({k \in DOMAIN a : a[k] # b[k]})})

AlmostEqualStep ==
  LET m == state.m
      strings == state.in IN
  \/ /\ At("start")
     /\ Go("stack", [stack |-> << <<{}, 0, 0>> >>, frame |-> <<>>, i |-> 0])
  \/ At("stack") /\ Branch(m.stack = <<>>, "no", "pop")
  \/ /\ At("pop")
     /\ Go("complete", [m EXCEPT !.frame = m.stack[Len(m.stack)], !.i = 1,
                                !.stack = SubSeq(@, 1, Len(@) - 1)])
  \/ At("complete") /\ Branch(m.frame[3] = Len(strings), "yes", "candidate")
  \/ At("candidate") /\ Go("used", m)
  \/ /\ At("used")
     /\ Branch(/\ m.i \notin m.frame[1]
               /\ m.frame[2] = 0 \/ CountDiffs(strings[m.frame[2]], strings[m.i]) = 1,
               "push", "next")
  \/ /\ At("push")
     /\ Go("next", [m EXCEPT
          !.stack = Append(@, <<m.frame[1] \cup {m.i}, m.i, m.frame[3] + 1>>)])
  \/ At("next") /\ Go(IF m.i < Len(strings) THEN "candidate" ELSE "stack",
                      [m EXCEPT !.i = @ + 1])

AlmostEqualAnswer(strings) ==
  \E row \in Bijection(DOMAIN strings, DOMAIN strings) :
    \A i \in 1..(Len(strings) - 1) :
      LET a == strings[row[i]]
          b == strings[row[i + 1]] IN
      \E k \in DOMAIN a : \A j \in DOMAIN a : (a[j] = b[j]) = (j # k)

-----------------------------------------------------------------------------
(* find-snuke: the cells of the word, the only one in the grid.            *)
FindSnukeDiagram == Scenario(
  << <<"event", "start">>, <<"etl", "cell">>, <<"decision", "s">>, <<"etl", "dir">>,
     <<"decision", "bounds", "match">>, <<"etl", "step">>, <<"decision", "next">>,
     <<"end", "result">> >>,
  << <<"start", "cell">>, <<"cell", "s">>, <<"s", "cell", "dir">>, <<"dir", "bounds">>,
     <<"bounds", "next", "match">>, <<"match", "result", "step">>, <<"step", "bounds">>,
     <<"next", "dir", "cell">> >>)

Dirs == << <<-1, -1>>, <<-1, 0>>, <<-1, 1>>, <<0, -1>>, <<0, 1>>, <<1, -1>>, <<1, 0>>, <<1, 1>> >>
Cells(grid) == (DOMAIN grid) \X (DOMAIN grid[1])
CellAt(grid, n) ==
  LET width == Len(grid[1]) IN <<((n - 1) \div width) + 1, ((n - 1) % width) + 1>>
Letter(grid, cell) == grid[cell[1]][cell[2]]
Along(cell, dir, step) == <<cell[1] + step * dir[1], cell[2] + step * dir[2]>>

FindSnukeStep ==
  LET m == state.m
      grid == state.in
      here == CellAt(grid, m.n)
      there == Along(here, Dirs[m.dir], m.step) IN
  \/ At("start") /\ Go("cell", [n |-> 0, dir |-> 0, step |-> 0, cells |-> <<>>])
  \/ At("cell") /\ Go("s", [m EXCEPT !.n = @ + 1, !.dir = 0])
  \/ At("s") /\ Branch(Letter(grid, here) = Target[1], "dir", "cell")
  \/ At("dir") /\ Go("bounds", [m EXCEPT !.dir = @ + 1, !.step = 0, !.cells = <<>>])
  \/ /\ At("bounds")
     /\ IF there \in Cells(grid) /\ Letter(grid, there) = Target[m.step + 1]
        THEN Go("match", [m EXCEPT !.cells = Append(@, there)])
        ELSE Go("next", m)
  \/ At("match") /\ Branch(Len(m.cells) = Len(Target), "result", "step")
  \/ At("step") /\ Go("bounds", [m EXCEPT !.step = @ + 1])
  \/ At("next") /\ Branch(m.dir < Len(Dirs), "dir", "cell")

(* Cells that spell the word, each next to the one before, on one line.    *)
Spellings(grid) ==
  {c \in [DOMAIN Target -> Cells(grid)] :
     /\ \A i \in DOMAIN Target : Letter(grid, c[i]) = Target[i]
     /\ \E dr, dc \in -1..1 :
          /\ <<dr, dc>> # <<0, 0>>
          /\ \A i \in 2..Len(Target) : c[i] = <<c[i - 1][1] + dr, c[i - 1][2] + dc>>}

-----------------------------------------------------------------------------
(* impartial-gift: the greatest sum of a gift of A and one of B that are   *)
(* at most D apart.                                                        *)
ImpartialGiftDiagram == Scenario(
  << <<"event", "start">>, <<"decision", "a">>, <<"end", "end">>, <<"etl", "search">>,
     <<"decision", "mid", "compare">>, <<"etl", "right", "left">>,
     <<"decision", "valid">>, <<"etl", "update">> >>,
  << <<"start", "a">>, <<"a", "end", "search">>, <<"search", "mid">>,
     <<"mid", "compare">>, <<"compare", "right", "left">>, <<"right", "mid">>,
     <<"left", "mid">>, <<"mid", "valid">>, <<"valid", "update", "a">>,
     <<"update", "a">> >>)

(* The gifts in order: below the k-th are fewer than k of them, and k or   *)
(* more are not above it.                                                  *)
Sorted(s) ==
  [k \in DOMAIN s |-> CHOOSE v \in Range(s) :
     /\ Cardinality({i \in DOMAIN s : s[i] < v}) < k
     /\ Cardinality({i \in DOMAIN s : s[i] <= v}) >= k]

(* Mutation: the search stops one short of the right end.                  *)
SearchBoundsShort(m) == [m EXCEPT !.left = 1, !.right = Len(m.B) - 1, !.idx = 0]

SearchBounds(m) == [m EXCEPT !.left = 1, !.right = Len(m.B), !.idx = 0]

ImpartialGiftStep ==
  LET m == state.m
      a == state.in.A[m.i]
      mid == (m.left + m.right) \div 2 IN
  \/ At("start") /\ Go("a", [i |-> 1, best |-> -1, B |-> Sorted(state.in.B),
                             left |-> 0, right |-> 0, idx |-> 0])
  \/ At("a") /\ Branch(m.i > Len(state.in.A), "end", "search")
  \/ At("search") /\ Go("mid", SearchBounds(m))
  \/ At("mid") /\ Branch(m.left <= m.right, "compare", "valid")
  \/ At("compare") /\ Branch(m.B[mid] <= a + state.in.D, "right", "left")
  \/ At("right") /\ Go("mid", [m EXCEPT !.left = mid + 1, !.idx = mid])
  \/ At("left") /\ Go("mid", [m EXCEPT !.right = mid - 1])
  \/ /\ At("valid")
     /\ IF m.idx # 0 /\ m.B[m.idx] >= a - state.in.D THEN Go("update", m)
        ELSE Go("a", [m EXCEPT !.i = @ + 1])
  \/ At("update") /\ Go("a", [m EXCEPT !.i = @ + 1, !.best = Max({@, a + m.B[m.idx]})])

ImpartialGiftAnswer(x) ==
  Max({-1} \cup {p[1] + p[2] : p \in
    {p \in Range(x.A) \X Range(x.B) : p[1] - p[2] \in -x.D..x.D}})

-----------------------------------------------------------------------------
(* pac: the most candies on a way from S to G of at most T moves.          *)
PacDiagram == Scenario(
  << <<"event", "start">>, <<"decision", "zero", "direct">>, <<"etl", "init", "state">>,
     <<"decision", "reachable", "target", "better">>, <<"etl", "update", "scan">>,
     <<"end", "result", "no", "yes">> >>,
  << <<"start", "zero">>, <<"zero", "direct">>, <<"direct", "yes", "no">>,
     <<"zero", "init">>, <<"init", "state">>, <<"state", "reachable">>,
     <<"reachable", "state", "target">>, <<"target", "state", "better">>,
     <<"better", "update", "state">>, <<"update", "state">>, <<"state", "scan">>,
     <<"scan", "result">> >>)

Near(grid, cell) ==
  {c \in {Along(cell, <<0, 1>>, 1), Along(cell, <<0, -1>>, 1),
          Along(cell, <<1, 0>>, 1), Along(cell, <<-1, 0>>, 1)} :
     c \in Cells(grid) /\ Letter(grid, c) # "#"}
Square(grid, s) == CHOOSE c \in Cells(grid) : Letter(grid, c) = s
Candies(grid) == SelectSeq([n \in 1..Cardinality(Cells(grid)) |-> CellAt(grid, n)],
                           LAMBDA c : Letter(grid, c) = "o")

(* bfs: the distance of each square, -1 when there is no way to it.        *)
Bfs(grid, from) ==
  LET wave[k \in 0..Cardinality(Cells(grid))] ==
        IF k = 0 THEN {from}
        ELSE LET before == wave[k - 1] IN
             before \cup UNION {Near(grid, c) : c \in before}
      first(c) == {k \in DOMAIN wave : c \in wave[k]} IN
  [c \in Cells(grid) |-> IF first(c) = {} THEN -1 ELSE Min(first(c))]

(* S, G and the candies, and how far they are from each other.             *)
KeyNodes(grid) == <<Square(grid, "S"), Square(grid, "G")>> \o Candies(grid)
DistMatrix(grid) ==
  LET keys == KeyNodes(grid)
      dist == [i \in DOMAIN keys |-> Bfs(grid, keys[i])] IN
  [i \in DOMAIN keys |-> [j \in DOMAIN keys |-> dist[i][keys[j]]]]

Bits(mask) == {i \in 1..mask : (mask \div 2 ^ (i - 1)) % 2 = 1}
LastMask(m) == 2 ^ m.n - 1

InitDp(dm, n) ==
  [p \in (1..(2 ^ n - 1)) \X (1..n) |->
    IF p[1] = 2 ^ (p[2] - 1) THEN dm[1][p[2] + 2] ELSE -1]

NextLast(m) == IF m.ci < m.n THEN [m EXCEPT !.ci = @ + 1, !.cj = 1]
               ELSE [m EXCEPT !.mask = @ + 1, !.ci = 1, !.cj = 1]
NextCandy(m) == IF m.cj < m.n THEN [m EXCEPT !.cj = @ + 1] ELSE NextLast(m)

(* Mutation: the first cost of an extended mask is kept.                   *)
WorthSavingFirst(m, cost, entry) == m.dp[entry] = -1

WorthSaving(m, cost, entry) == m.dp[entry] = -1 \/ cost < m.dp[entry]

(* find-best: the masks from which G is still in reach.                    *)
InReach(x, dm, cost, key) == cost # -1 /\ dm[key][2] # -1 /\ cost + dm[key][2] <= x.T
FindBest(x, m) ==
  Max({-1} \cup (IF InReach(x, m.dm, 0, 1) THEN {0} ELSE {})
      \cup {Cardinality(Bits(p[1])) : p \in
             {p \in DOMAIN m.dp : /\ p[2] \in Bits(p[1])
                                  /\ InReach(x, m.dm, m.dp[p], p[2] + 2)}})

PacStep ==
  LET m == state.m
      n == m.n
      here == <<m.mask, m.ci>>
      entry == <<m.mask + 2 ^ (m.cj - 1), m.cj>>
      leg == m.dm[m.ci + 2][m.cj + 2]
      cost == m.dp[here] + leg IN
  \/ /\ At("start")
     /\ Go("zero", [n |-> Len(Candies(state.in.grid)), dm |-> DistMatrix(state.in.grid),
                    dp |-> <<>>, mask |-> 1, ci |-> 1, cj |-> 1, best |-> -1])
  \/ At("zero") /\ Branch(n = 0, "direct", "init")
  \/ At("direct") /\ Branch(InReach(state.in, m.dm, 0, 1), "yes", "no")
  \/ At("init") /\ Go("state", [m EXCEPT !.dp = InitDp(m.dm, n)])
  \/ At("state") /\ Branch(m.mask <= LastMask(m), "reachable", "scan")
  \/ /\ At("reachable")
     /\ IF m.ci \in Bits(m.mask) /\ m.dp[here] # -1 THEN Go("target", m)
        ELSE Go("state", NextLast(m))
  \/ /\ At("target")
     /\ IF m.cj \notin Bits(m.mask) /\ leg # -1 THEN Go("better", m)
        ELSE Go("state", NextCandy(m))
  \/ /\ At("better")
     /\ IF WorthSaving(m, cost, entry) THEN Go("update", m) ELSE Go("state", NextCandy(m))
  \/ At("update") /\ Go("state", NextCandy([m EXCEPT !.dp[entry] = cost]))
  \/ At("scan") /\ Go("result", [m EXCEPT !.best = FindBest(state.in, m)])

PacOutput == IF At("result") THEN state.m.best ELSE IF At("yes") THEN 0 ELSE -1

(* Every walk of at most T moves: where it is and what it has visited.     *)
PacAnswer(x) ==
  LET candy(c) == IF Letter(x.grid, c) = "o" THEN {c} ELSE {}
      walks[t \in 0..x.T] ==
        IF t = 0 THEN {<<Square(x.grid, "S"), {}>>}
        ELSE LET before == walks[t - 1] IN
             before \cup UNION {{<<c, w[2] \cup candy(c)>> : c \in Near(x.grid, w[1])} :
                                w \in before} IN
  Max({-1} \cup {Cardinality(w[2]) : w \in {w \in walks[x.T] : w[1] = Square(x.grid, "G")}})
=============================================================================
