------------------------------- MODULE Auction -------------------------------
(***************************************************************************)
(* challenges/auction-module, the reference module, for one listing.       *)
(* Bids are a stream: each is handled whole, at once.  The expiration is a *)
(* microbatch: it reads the highest bid, tells the seller, then goes       *)
(* through the bidders, and what it wrote is seen once it is all done.     *)
(* Bids are handled in between.  The scheduler runs the expiration once,   *)
(* any time after the listing came; when that is, is left open.            *)
(***************************************************************************)
EXTENDS Diagrams

CONSTANT Commands  \* records: [type |-> "list"] and bids [type, rid, bidder, amount]

VARIABLE state

BidDiagram == Scenario(
  << <<"depot", "depot">>, <<"route", "owner">>, <<"decision", "closed">>, <<"end", "stop">>,
     <<"state", "bidders">>, <<"decision", "top">>, <<"state", "replace">>,
     <<"route", "route">>, <<"state", "history">> >>,
  << <<"depot", "owner">>, <<"owner", "closed">>, <<"closed", "stop", "bidders">>,
     <<"bidders", "top">>, <<"top", "replace", "route">>, <<"replace", "route">>,
     <<"route", "history">> >>)

ExpireDiagram == Scenario(
  << <<"depot", "listing">>, <<"etl", "schedule">>, <<"depot", "tick">>, <<"etl", "callback">>,
     <<"state", "finished">>, <<"etl", "top">>, <<"decision", "winner">>,
     <<"etl", "sold", "unsold">>, <<"state", "seller">>, <<"etl", "bidders">>,
     <<"route", "route">>, <<"decision", "won">>, <<"state", "notify">> >>,
  << <<"listing", "schedule">>, <<"tick", "callback">>, <<"schedule", "callback">>,
     <<"callback", "finished">>, <<"finished", "top">>, <<"top", "winner">>,
     <<"winner", "sold", "unsold">>, <<"sold", "seller">>, <<"unsold", "seller">>,
     <<"seller", "bidders">>, <<"bidders", "route">>, <<"route", "won">>,
     <<"won", "notify">> >>)

AuctionPartition == Partition(
  << <<"route", "seller">>, <<"state", "listings", "bidders", "top", "finished">>,
     <<"route", "bidder">>, <<"state", "history">>, <<"route", "user">>,
     <<"state", "notifications">> >>,
  << <<"seller", "listings", "bidders", "top", "finished">>, <<"bidder", "history">>,
     <<"user", "notifications">> >>)

AuctionDiagrams == [bid |-> BidDiagram, expire |-> ExpireDiagram,
                    partition |-> AuctionPartition]

-----------------------------------------------------------------------------
NoBid == [bidder |-> "nobody", amount |-> 0]

(* batch: what the running microbatch read, its notifications still hidden *)
AuctionInit ==
  state = [walk |-> <<"partition", <<"seller", "listings">> >>, appended |-> {},
           bidders |-> <<>>, top |-> NoBid, history |-> <<>>,
           expiry |-> "none", batch |-> [top |-> NoBid, scan |-> {}, told |-> <<>>],
           finished |-> FALSE, seller |-> <<>>, told |-> <<>>]

List(c) ==
  /\ c.type = "list" /\ c \notin state.appended
  /\ state' = [state EXCEPT !.appended = @ \cup {c}, !.expiry = "scheduled",
                            !.walk = <<"expire", <<"listing", "schedule">> >>]

(* A bidder's amount is overwritten, the highest bid only exceeded.        *)
Bid(c) ==
  LET higher == c.amount > state.top.amount
      path == <<"depot", "owner", "closed">> \o
              (IF state.finished THEN <<"stop">>
               ELSE <<"bidders", "top">> \o (IF higher THEN <<"replace">> ELSE <<>>)
                                         \o <<"route", "history">>)
      taken == [state EXCEPT
        !.bidders = Put(@, c.bidder, c.amount),
        !.top = IF higher THEN [bidder |-> c.bidder, amount |-> c.amount] ELSE @,
        !.history = Put(@, c.bidder, c.amount)] IN
  /\ c.type = "bid" /\ c \notin state.appended
  /\ state' = [(IF state.finished THEN state ELSE taken)
                 EXCEPT !.appended = @ \cup {c}, !.walk = <<"bid", path>>]

(* The tick: the highest bid of this moment, and the bidders to go through. *)
Expire ==
  /\ state.expiry = "scheduled"
  /\ state' = [state EXCEPT
       !.expiry = "scanning",
       !.batch = [top |-> state.top, scan |-> DOMAIN state.bidders, told |-> <<>>],
       !.walk = <<"expire", <<"tick", "callback", "finished", "top", "winner">>
                            \o <<IF state.top = NoBid THEN "unsold" ELSE "sold">>
                            \o <<"seller", "bidders">> >>]

(* Mutation: the winner is looked up again for each bidder.                *)
WinnerNow == state.top.bidder

Winner == state.batch.top.bidder

(* The scan may yield: one that bids meanwhile is met by it or is not.     *)
Scan ==
  /\ state.expiry = "scanning"
  /\ \E late \in SUBSET (DOMAIN state.bidders \ state.batch.scan) :
       LET met == state.batch.scan \cup late IN
       state' = [state EXCEPT
         !.expiry = "scanned",
         !.batch.told = [b \in met |-> IF b = Winner THEN "won" ELSE "lost"],
         !.walk = <<"expire", <<"bidders">> \o (IF met = {} THEN <<>>
                                                ELSE <<"route", "won", "notify">>)>>]

(* The microbatch ends: its writes appear, and bids are refused.           *)
Commit ==
  /\ state.expiry = "scanned"
  /\ state' = [state EXCEPT
       !.expiry = "done", !.finished = TRUE, !.told = state.batch.told,
       !.seller = <<state.batch.top>>, !.walk = <<"partition", <<"seller", "finished">> >>]

AuctionStep ==
  \/ \E c \in Commands : List(c) \/ Bid(c)
  \/ Expire \/ Scan \/ Commit

-----------------------------------------------------------------------------
(* Bids land between the reads of an expiration, and still everybody is    *)
(* told the same: the seller of a bid that was made, its bidder of having  *)
(* won and nobody else, and everybody who had bid by then is told.         *)
SoldToOne ==
  state.finished =>
    LET sale == state.seller[1]
        won == {b \in DOMAIN state.told : state.told[b] = "won"} IN
    /\ won = IF sale = NoBid THEN {} ELSE {sale.bidder}
    /\ sale # NoBid => \E c \in state.appended :
         c.type = "bid" /\ c.bidder = sale.bidder /\ c.amount = sale.amount
    /\ state.batch.scan \subseteq DOMAIN state.told
    /\ DOMAIN state.told \subseteq DOMAIN state.bidders
    /\ sale.amount <= state.top.amount
=============================================================================
