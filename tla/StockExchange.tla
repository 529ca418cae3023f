---------------------------- MODULE StockExchange ----------------------------
(***************************************************************************)
(* challenges/hld-stock-exchange, the reference module, for one symbol.    *)
(* An order is named by the request that submitted it.  The levels and the *)
(* queues are kept beside each other, as in the code.                      *)
(***************************************************************************)
EXTENDS CommandLog

MatchDiagram == Scenario(
  << <<"event", "event">>, <<"decision", "replay">>, <<"end", "dup", "conflict">>,
     <<"etl", "init">>, <<"state", "best">>, <<"decision", "cross">>,
     <<"state", "maker", "trade">>, <<"decision", "partial">>, <<"state", "dequeue", "retain">>,
     <<"etl", "continue">>, <<"decision", "rest">>, <<"state", "own">>, <<"etl", "ioc">>,
     <<"state", "finish">>, <<"end", "done">> >>,
  << <<"event", "replay">>, <<"replay", "dup", "conflict", "init">>, <<"init", "best">>,
     <<"best", "cross">>, <<"cross", "maker", "rest">>, <<"maker", "trade">>,
     <<"trade", "partial">>, <<"partial", "dequeue", "retain">>, <<"dequeue", "continue">>,
     <<"retain", "continue">>, <<"continue", "best">>, <<"rest", "own", "ioc", "finish">>,
     <<"own", "finish">>, <<"ioc", "finish">>, <<"finish", "done">> >>)

CancelDiagram == Scenario(
  << <<"event", "call">>, <<"etl", "validate">>, <<"decision", "prior">>, <<"end", "replay">>,
     <<"state", "conflict">>, <<"decision", "exists", "owner", "open">>,
     <<"end", "missing", "notOwner", "closed">>, <<"state", "remove">>,
     <<"decision", "level">>, <<"state", "drop", "reduce", "cancelled", "outcome">> >>,
  << <<"call", "validate">>, <<"validate", "prior">>,
     <<"prior", "replay", "conflict", "exists">>, <<"exists", "missing", "owner">>,
     <<"owner", "notOwner", "open">>, <<"open", "closed", "remove">>, <<"remove", "level">>,
     <<"level", "drop", "reduce">>, <<"drop", "cancelled">>, <<"reduce", "cancelled">>,
     <<"missing", "outcome">>, <<"notOwner", "outcome">>, <<"closed", "outcome">>,
     <<"cancelled", "outcome">> >>)

SymbolPartition == Partition(
  << <<"route", "sym">>,
     <<"state", "book", "order", "bid", "ask", "bq", "aq", "tape", "requests">>,
     <<"external", "query">> >>,
  << <<"sym", "book">>, <<"book", "order", "bid", "ask", "bq", "aq", "tape", "requests">>,
     <<"order", "query">>, <<"bid", "query">>, <<"ask", "query">>, <<"tape", "query">>,
     <<"requests", "query">> >>)

StockDiagrams == [match |-> MatchDiagram, cancel |-> CancelDiagram,
                  partition |-> SymbolPartition]

-----------------------------------------------------------------------------
StockInit ==
  state = [requests |-> <<>>, walk |-> <<"partition", <<"sym", "book">> >>,
           orders |-> <<>>, trades |-> <<>>, nextSeq |-> 0,
           levels |-> [buy |-> <<>>, sell |-> <<>>],
           queue |-> [buy |-> <<>>, sell |-> <<>>]]

Opposite == [buy |-> "sell", sell |-> "buy"]
Without(f, x) == Restrict(f, DOMAIN f \ {x})
BestPrice(s, side) ==
  IF side = "buy" THEN Max(DOMAIN s.levels[side]) ELSE Min(DOMAIN s.levels[side])
Crosses(side, price, limit) == IF side = "buy" THEN price <= limit ELSE price >= limit
CanMatch(m, c) ==
  LET opp == Opposite[c.side] IN
  /\ m.left > 0 /\ DOMAIN m.s.levels[opp] # {}
  /\ Crosses(c.side, BestPrice(m.s, opp), c.price)

(* Mutation: the maker that came last is taken first.                      *)
QueueHeadLast(queue) == Max(DOMAIN queue)

QueueHead(queue) == Min(DOMAIN queue)

(* A trade with the first order of the best level, at that order's price.  *)
MatchOnce(m, c) ==
  LET opp == Opposite[c.side]
      price == BestPrice(m.s, opp)
      queue == m.s.queue[opp][price]
      seq == QueueHead(queue)
      maker == m.s.orders[queue[seq]]
      level == m.s.levels[opp][price]
      amount == Min({m.left, maker.remaining})
      consumed == amount = maker.remaining IN
  IF ~CanMatch(m, c) THEN m ELSE
  [left |-> m.left - amount,
   path |-> m.path \o <<"maker", "trade", "partial", IF consumed THEN "dequeue" ELSE "retain",
                        "continue", "best", "cross">>,
   s |-> [m.s EXCEPT
     !.trades = Append(@, [price |-> price, qty |-> amount, maker |-> queue[seq],
                           taker |-> c.rid]),
     !.orders[queue[seq]].filled = @ + amount,
     !.orders[queue[seq]].remaining = @ - amount,
     !.queue[opp] =
       IF amount = level.qty THEN Without(@, price)
       ELSE IF consumed THEN [@ EXCEPT ![price] = Without(queue, seq)] ELSE @,
     !.levels[opp] =
       IF amount = level.qty THEN Without(@, price)
       ELSE [@ EXCEPT ![price] = [qty |-> level.qty - amount,
                                  count |-> level.count - (IF consumed THEN 1 ELSE 0)]]]]

(* As long as an order crosses: at most once for each one in the book.     *)
Matched(c) ==
  LET after[n \in 0..Cardinality(DOMAIN state.orders)] ==
        IF n = 0
        THEN [s |-> state, left |-> c.qty, path |-> <<"event", "replay", "init", "best", "cross">>]
        ELSE MatchOnce(after[n - 1], c) IN
  after[Cardinality(DOMAIN state.orders)]

(* The remainder goes to the end of its own level's queue.                 *)
Rested(s, c, left, seq) ==
  LET level == IF c.price \in DOMAIN s.levels[c.side] THEN s.levels[c.side][c.price]
               ELSE [qty |-> 0, count |-> 0]
      queue == IF c.price \in DOMAIN s.queue[c.side] THEN s.queue[c.side][c.price] ELSE <<>> IN
  [s EXCEPT
    !.levels[c.side] = Put(@, c.price, [qty |-> level.qty + left, count |-> level.count + 1]),
    !.queue[c.side] = Put(@, c.price, Put(queue, seq, c.rid))]

SubmitLimitOrder(c) ==
  /\ c.type = "submit" /\ ~Known(c)
  /\ \E m \in {Matched(c)} :
       LET seq == state.nextSeq + 1
           rests == c.tif = "gtc" /\ m.left > 0
           book == IF rests THEN Rested(m.s, c, m.left, seq) ELSE m.s
           order == [account |-> c.account, side |-> c.side, price |-> c.price, qty |-> c.qty,
                     seq |-> seq, filled |-> c.qty - m.left,
                     remaining |-> IF c.tif = "gtc" THEN m.left ELSE 0,
                     cancelled |-> IF c.tif = "ioc" THEN m.left ELSE 0] IN
       Record(c, [book EXCEPT !.orders = Put(@, c.rid, order), !.nextSeq = seq],
              <<"match", m.path \o <<"rest">>
                         \o (IF m.left = 0 THEN <<>> ELSE IF rests THEN <<"own">> ELSE <<"ioc">>)
                         \o <<"finish", "done">> >>,
              "accepted")

NoOrder == [account |-> "none", side |-> "buy", price |-> 0, qty |-> 0, seq |-> 0,
            filled |-> 0, remaining |-> 0, cancelled |-> 0]

CancelOrder(c) ==
  LET order == IF c.order \in DOMAIN state.orders THEN state.orders[c.order] ELSE NoOrder
      side == order.side
      price == order.price
      level == state.levels[side][price]
      queue == state.queue[side][price]
      last == level.qty = order.remaining
      checks == << <<"exists", order # NoOrder, "no-such-order">>,
                   <<"owner", c.account = order.account, "not-owner">>,
                   <<"open", order.remaining # 0, "order-not-open">> >>
      refused == <<"missing", "notOwner", "closed">>[Len(Nodes(checks))]
      start == <<"call", "validate", "prior">> \o Nodes(checks) IN
  /\ c.type = "cancel" /\ ~Known(c)
  /\ IF Accepted(checks)
     THEN Record(c, [state EXCEPT
            !.queue[side] = IF last THEN Without(@, price)
                            ELSE [@ EXCEPT ![price] = Without(queue, order.seq)],
            !.levels[side] = IF last THEN Without(@, price)
                             ELSE [@ EXCEPT ![price] = [qty |-> level.qty - order.remaining,
                                                        count |-> level.count - 1]],
            !.orders[c.order].cancelled = order.remaining,
            !.orders[c.order].remaining = 0],
          <<"cancel", start \o <<"remove", "level", IF last THEN "drop" ELSE "reduce",
                                 "cancelled", "outcome">> >>, "accepted")
     ELSE Record(c, state, <<"cancel", start \o <<refused, "outcome">> >>, Reason(checks))

(* Either command's diagram shows what a repeated request comes to.        *)
Repeated(c, again) ==
  IF c.type = "submit" THEN <<"match", <<"event", "replay", again>> >>
  ELSE <<"cancel", <<"call", "validate", "prior",
                     IF again = "dup" THEN "replay" ELSE again>> >>

StockStep ==
  \E c \in Commands :
    \/ SubmitLimitOrder(c)
    \/ CancelOrder(c)
    \/ Replay(c, Repeated(c, "dup"))
    \/ Conflict(c, Repeated(c, "conflict"))

-----------------------------------------------------------------------------
Open(side) == {id \in DOMAIN state.orders :
                 state.orders[id].side = side /\ state.orders[id].remaining > 0}

(* Every open order waits once, at its price and under its sequence, the   *)
(* levels add up what waits, and what is left of both sides never crosses. *)
BookConsistent ==
  /\ \A side \in {"buy", "sell"} :
       LET levels == state.levels[side]
           queue == state.queue[side] IN
       /\ DOMAIN levels = DOMAIN queue
       /\ DOMAIN levels = {state.orders[id].price : id \in Open(side)}
       /\ \A price \in DOMAIN levels :
            LET here == {id \in Open(side) : state.orders[id].price = price} IN
            /\ DOMAIN queue[price] = {state.orders[id].seq : id \in here}
            /\ \A id \in here : queue[price][state.orders[id].seq] = id
            /\ levels[price] = [qty |-> SumOver([id \in here |-> state.orders[id].remaining]),
                                count |-> Cardinality(here)]
  /\ \A bid \in DOMAIN state.levels["buy"], ask \in DOMAIN state.levels["sell"] : bid < ask

(* What an order asked for is filled, open or cancelled, and what is       *)
(* filled is what the trades say, at a price within both limits; no trade  *)
(* passed over an order that was there and had priority.                   *)
TradesFair ==
  /\ \A id \in DOMAIN state.orders :
       LET o == state.orders[id] IN
       /\ o.qty = o.filled + o.remaining + o.cancelled
       /\ o.filled = SumOver([i \in {i \in DOMAIN state.trades :
                                       id \in {state.trades[i].maker, state.trades[i].taker}} |->
                                state.trades[i].qty])
  /\ \A i \in DOMAIN state.trades :
       LET t == state.trades[i]
           maker == state.orders[t.maker]
           taker == state.orders[t.taker] IN
       /\ maker.side # taker.side /\ t.price = maker.price
       /\ Crosses(taker.side, t.price, taker.price)
       /\ \A id \in Open(maker.side) \ {t.maker} :
            LET o == state.orders[id] IN
            o.seq < taker.seq =>
              \/ o.price = t.price /\ o.seq > maker.seq
              \/ o.price # t.price /\ Crosses(taker.side, t.price, o.price)
=============================================================================
