--------------------------- MODULE MCAtlasEntries ---------------------------
(* Instances for TLC of the atlas' entries.                                *)
EXTENDS AtlasEntries, Overviews, SequencesExt

MCUpper == {"A", "B"}
MCLower == {"a", "b"}
MCAlphabet == <<"a", "c", "z">>
MCAtcoder == {"a", "c"}
MCTarget == <<"s", "n", "e">>

Words(letters, n) == UNION {[1..k -> letters] : k \in 1..n}
GridRows == { <<"s", "n", "e">>, <<"e", "n", "s">>, <<"s", "s", "x">>,
              <<"x", "n", "x">>, <<"e", "s", "n">>, <<"n", "x", "e">> }
MCSolutionInputs ==
  "almost-equal" :> {s \in [1..3 -> [1..2 -> {"p", "q", "r"}]] : IsInjective(s)} @@
  "anti" :> Words({"A", "B", "a", "?"}, 4) @@
  "atcoder-cards" :> [s : [1..2 -> {"a", "c", "z", "@"}], t : [1..2 -> {"a", "c", "z", "@"}]] @@
  "attack" :> [a : 1..6, b : 1..6] @@
  "bitmask" :> [s : Words({"0", "1", "?"}, 3), n : 0..8] @@
  "fill-the-gaps" :> {s \in Words(1..5, 3) : /\ Len(s) > 1
                        /\ \A i \in 1..(Len(s) - 1) : s[i] # s[i + 1]} @@
  "find-snuke" :> {g \in [1..3 -> GridRows] : Cardinality(Spellings(g)) = 1} @@
  "impartial-gift" :> [A : [1..2 -> 1..3], B : [1..3 -> 1..3], D : 0..1] @@
  "overall-winner" :> Words({"T", "A"}, 5) @@
  "pac" :> [grid : {<< <<"S", c[1], c[2]>>, <<c[3], c[4], "G">> >>
                      : c \in [1..4 -> {".", "#", "o"}]}, T : {3, 5}]

Order(rid, account, side, price, qty, tif) ==
  [type |-> "submit", rid |-> rid, account |-> account, side |-> side, price |-> price,
   qty |-> qty, tif |-> tif]
Cancel(rid, account, order) ==
  [type |-> "cancel", rid |-> rid, account |-> account, order |-> order]
Stay(rid, guest, checkin, checkout, quantity) ==
  [type |-> "reserve", rid |-> rid, guest |-> guest, room |-> "r", checkin |-> checkin,
   checkout |-> checkout, quantity |-> quantity]
Claim(rid, node, worker) == [type |-> "claim", rid |-> rid, node |-> node, worker |-> worker]
Complete(node, worker, token, result) ==
  [type |-> "complete", node |-> node, worker |-> worker, token |-> token, result |-> result]
Transfer(rid, from, to, amt) ==
  [type |-> "transfer", rid |-> rid, from |-> from, to |-> to, amt |-> amt]
Offer(rid, bidder, amount) ==
  [type |-> "bid", rid |-> rid, bidder |-> bidder, amount |-> amount]

MCModuleCommands ==
  "ticketing-system" :> {
    [type |-> "create", rid |-> "e"],
    [type |-> "add", rid |-> "a", seats |-> {"s1", "s2"}],
    [type |-> "clock", rid |-> "t", now |-> 2],
    [type |-> "hold", rid |-> "h1", user |-> "u1", seats |-> {"s1", "s2"}, deadline |-> 2],
    [type |-> "hold", rid |-> "h2", user |-> "u2", seats |-> {"s2"}, deadline |-> 3],
    [type |-> "confirm", rid |-> "c1", hold |-> "h1", user |-> "u1", payment |-> "p1"],
    [type |-> "confirm", rid |-> "c2", hold |-> "h1", user |-> "u1", payment |-> "p2"],
    [type |-> "release", rid |-> "c2", hold |-> "h1", user |-> "u1"],
    [type |-> "release", rid |-> "x", hold |-> "h2", user |-> "u1"]} @@
  "payment-system" :> {
    [type |-> "create-tenant", rid |-> "t"],
    [type |-> "create-account", rid |-> "a", account |-> "cu", kind |-> "customer"],
    [type |-> "create-account", rid |-> "b", account |-> "me", kind |-> "merchant"],
    [type |-> "fund", rid |-> "f", account |-> "cu", amount |-> 2],
    [type |-> "charge", rid |-> "c1", customer |-> "cu", merchant |-> "me", amount |-> 2],
    [type |-> "charge", rid |-> "c2", customer |-> "cu", merchant |-> "me", amount |-> 1],
    [type |-> "charge", rid |-> "r2", customer |-> "me", merchant |-> "cu", amount |-> 1],
    [type |-> "refund", rid |-> "r1", charge |-> "c1", amount |-> 1],
    [type |-> "refund", rid |-> "r2", charge |-> "c1", amount |-> 2]} @@
  "stock-exchange" :> {
    Order("s1", "A", "sell", 2, 2, "gtc"), Order("s2", "B", "sell", 2, 1, "gtc"),
    Order("s3", "B", "sell", 3, 1, "gtc"), Order("b1", "C", "buy", 2, 3, "gtc"),
    Order("b2", "D", "buy", 3, 2, "ioc"), Cancel("x", "A", "s1"), Cancel("x", "B", "s2"),
    Cancel("y", "A", "s2")} @@
  "hotel-reservation" :> {
    [type |-> "create-property", rid |-> "p"],
    [type |-> "create-room-type", rid |-> "t", room |-> "r"],
    [type |-> "init-night", rid |-> "n1", room |-> "r", night |-> 1, capacity |-> 2, rate |-> 1],
    [type |-> "init-night", rid |-> "n2", room |-> "r", night |-> 2, capacity |-> 1, rate |-> 2],
    [type |-> "set-rate", rid |-> "n2", room |-> "r", night |-> 1, rate |-> 3],
    Stay("b1", "g", 1, 3, 1), Stay("b2", "h", 1, 3, 1), Stay("x", "h", 1, 2, 2),
    [type |-> "cancel", rid |-> "x", booking |-> "b1", guest |-> "g"],
    [type |-> "cancel", rid |-> "y", booking |-> "b1", guest |-> "g"]} @@
  "job-scheduler" :> {
    [type |-> "submit", dag |-> [n1 |-> {}, n2 |-> {"n1"}]],
    [type |-> "submit", dag |-> [n1 |-> {"n2"}, n2 |-> {"n1"}]],
    [type |-> "clock", clock |-> 9], [type |-> "clock", clock |-> 10],
    [type |-> "clock", clock |-> 20],
    Claim("k1", "n1", "w1"), Claim("k2", "n1", "w2"), Claim("k3", "n2", "w2"),
    Claim("k3", "n3", "w1"), Complete("n1", "w1", 1, "r1"), Complete("n1", "w2", 2, "r2"),
    Complete("n2", "w2", 1, "r3")} @@
  "bank-transfer" :> {
    [type |-> "deposit", rid |-> "d1", user |-> "ann", amt |-> 3],
    [type |-> "deposit", rid |-> "d2", user |-> "bob", amt |-> 1],
    Transfer("t1", "ann", "bob", 2), Transfer("t2", "ann", "bob", 2),
    Transfer("t3", "bob", "ann", 3), Transfer("t4", "ann", "ann", 1),
    Transfer("t5", "bob", "ann", -2)} @@
  "auction" :> {
    [type |-> "list"], Offer("o1", "b1", 1), Offer("o2", "b1", 3), Offer("o3", "b2", 2),
    Offer("o4", "b2", 3), Offer("o5", "b3", 2)}
MCBankUsers == {"ann", "bob"}

(* Two columns of three and two, three columns of two, and the real ones.  *)
Arrows(from, to) == SetToSeq(from \X to)
Chosen(columns, arrows) ==
  {[columns |-> columns, edges |-> SelectSeq(arrows, LAMBDA a : a \in e)]
     : e \in SUBSET Range(arrows)}
Shown == AllOverviews \cup {FunctionOverview(n) : n \in 1..3}
MCLayoutInputs ==
  Chosen(<< <<"a", "b", "c">>, <<"x", "y">> >>, Arrows({"a", "b", "c"}, {"x", "y"}))
    \cup Chosen(<< <<"a", "b">>, <<"x", "y">>, <<"p", "q">> >>,
                Arrows({"a", "b"}, {"x", "y"}) \o Arrows({"x", "y"}, {"p", "q"}))
    \cup {[columns |-> Columns(g), edges |-> g.edges] : g \in AllOverviews}

(* Every graph of the atlas that is modelled is one the page can draw.     *)
ASSUME \A g \in Shown \cup {DiagramOf(slug) : slug \in Slugs}
                \cup UNION {Range(DiagramsOf(m)) : m \in DOMAIN MCModuleCommands} : Valid(g)
=============================================================================
