----------------------------- MODULE BookingProofs ----------------------------
(*****************************************************************************)
(* What TLAPS proves of what can be allotted once: of the auction, the job   *)
(* scheduler, the ticketing system and the hotel reservations, for any       *)
(* commands their clients may send.                                          *)
(*****************************************************************************)
EXTENDS EntriesProofs

-----------------------------------------------------------------------------
(* The auction.                                                            *)

(* What the module keeps.                                                   *)
AuctionFields ==
  DOMAIN state = {"walk", "appended", "bidders", "top", "history", "expiry", "batch",
                  "finished", "seller", "told"}

(* A bid that was made, by somebody who is among the bidders.              *)
Made(bid) ==
  /\ bid.bidder \in DOMAIN state.bidders
  /\ \E c \in state.appended :
       c.type = "bid" /\ bid = [bidder |-> c.bidder, amount |-> c.amount]

(* The top bid is none or one that was made.                                *)
Bids ==
  /\ state.appended \subseteq ModuleCommands["auction"]
  /\ "nobody" \notin DOMAIN state.bidders
  /\ state.top.amount \in Int
  /\ state.top = AU!NoBid \/ Made(state.top)

(* What the expiration read holds to its end: later bids only add to it.   *)
Read ==
  /\ \/ state.batch.top = AU!NoBid
     \/ /\ Made(state.batch.top)
        /\ state.batch.top.bidder \in state.batch.scan
  /\ state.batch.top.amount \in Int
  /\ state.batch.top.amount <= state.top.amount
  /\ state.batch.scan \subseteq DOMAIN state.bidders

(* Who the expiration tells, and of what: the top bid it read decides.      *)
Told ==
  /\ state.batch.scan \subseteq DOMAIN state.batch.told
  /\ DOMAIN state.batch.told \subseteq DOMAIN state.bidders
  /\ \A b \in DOMAIN state.batch.told :
       state.batch.told[b] = IF b = state.batch.top.bidder THEN "won" ELSE "lost"

(* How far the expiration has come, and what holds from then on.            *)
Expiry ==
  /\ state.expiry \in {"none", "scheduled", "scanning", "scanned", "done"}
  /\ DOMAIN state.batch = {"top", "scan", "told"}
  /\ state.expiry # "none" => [type |-> "list"] \in state.appended
  /\ state.finished <=> state.expiry = "done"
  /\ state.expiry \in {"scanning", "scanned", "done"} => Read
  /\ state.expiry \in {"scanned", "done"} => Told
  /\ state.expiry = "done" =>
       state.told = state.batch.told /\ state.seller = <<state.batch.top>>

(* The inductive invariant of the auction.                                  *)
AuctionInv == AuctionFields /\ Bids /\ Expiry

(* It holds before the listing.                                             *)
LEMMA AuctionStarts == AU!AuctionInit => AuctionInv
BY DEF AU!AuctionInit, AuctionInv, AuctionFields, Bids, Expiry, AU!NoBid

(* The listing schedules the expiration and touches no bid.                 *)
LEMMA ListStep ==
  ASSUME AuctionInv, NEW c \in ModuleCommands["auction"], AU!List(c)
  PROVE  AuctionInv'
<1>1. /\ AuctionFields'
      /\ state'.appended = state.appended \cup {c}
      /\ state'.expiry = "scheduled"
      /\ state'.bidders = state.bidders
      /\ state'.top = state.top
      /\ state'.batch = state.batch
      /\ state'.finished = state.finished
  BY DEF AuctionInv, AuctionFields, AU!List
<1>2. c = [type |-> "list"] /\ state.expiry = "none"
  BY AuctionAssumption DEF AU!List, AuctionInv, Expiry
<1>3. Bids'
  BY <1>1 DEF AuctionInv, Bids, Made
<1>4. Expiry'
  BY <1>1, <1>2 DEF AuctionInv, Expiry
<1> QED BY <1>1, <1>3, <1>4 DEF AuctionInv

(* A bid that is refused changes nothing a later step looks at; one that   *)
(* is taken adds its bidder, and is the highest if it exceeds the highest. *)
LEMMA BidStep ==
  ASSUME AuctionInv, NEW c \in ModuleCommands["auction"], AU!Bid(c)
  PROVE  AuctionInv'
<1>1. /\ AuctionFields'
      /\ state'.appended = state.appended \cup {c}
      /\ state'.expiry = state.expiry
      /\ state'.batch = state.batch
      /\ state'.finished = state.finished
      /\ state'.seller = state.seller
      /\ state'.told = state.told
  BY DEF AuctionInv, AuctionFields, AU!Bid
<1>2. \/ /\ state'.bidders = state.bidders
         /\ state'.top = state.top
      \/ /\ DOMAIN state'.bidders = DOMAIN state.bidders \cup {c.bidder}
         /\ state'.top = IF c.amount > state.top.amount
                         THEN [bidder |-> c.bidder, amount |-> c.amount] ELSE state.top
  <2>1. CASE state.finished
    BY <2>1 DEF AuctionInv, AuctionFields, AU!Bid
  <2>2. CASE ~state.finished
    <3>1. DOMAIN state'.bidders = DOMAIN state.bidders \cup {c.bidder}
      BY <2>2 DEF AuctionInv, AuctionFields, AU!Bid, AU!Put
    <3>2. state'.top = IF c.amount > state.top.amount
                       THEN [bidder |-> c.bidder, amount |-> c.amount] ELSE state.top
      BY <2>2 DEF AuctionInv, AuctionFields, AU!Bid
    <3> QED BY <3>1, <3>2
  <2> QED BY <2>1, <2>2
<1>3. c.type = "bid" /\ c.bidder # "nobody" /\ c.amount \in Int
  BY AuctionAssumption DEF AU!Bid
<1>4. \A bid : Made(bid) => Made(bid)'
  BY <1>1, <1>2 DEF Made
<1>5. Bids'
  <2>1. Made([bidder |-> c.bidder, amount |-> c.amount])'
        \/ state'.top = state.top
    BY <1>1, <1>2, <1>3 DEF Made
  <2> QED BY <1>1, <1>2, <1>3, <1>4, <2>1 DEF AuctionInv, Bids
<1>6. Expiry'
  <2>1. state.top.amount <= state'.top.amount
    BY <1>2, <1>3 DEF AuctionInv, Bids
  <2>2. Read => Read'
    BY <1>1, <1>2, <1>4, <1>5, <2>1 DEF Read, AuctionInv, Bids
  <2>3. Told => Told'
    BY <1>1, <1>2 DEF Told
  <2> QED BY <1>1, <2>2, <2>3 DEF AuctionInv, Expiry
<1> QED BY <1>1, <1>5, <1>6 DEF AuctionInv

(* The expiration reads the highest bid, whose bidder is among those it    *)
(* reads next.                                                             *)
LEMMA ExpireStep ==
  ASSUME AuctionInv, AU!Expire
  PROVE  AuctionInv'
<1>1. /\ AuctionFields'
      /\ state'.appended = state.appended
      /\ state'.bidders = state.bidders
      /\ state'.top = state.top
      /\ state'.finished = state.finished
      /\ state'.expiry = "scanning"
      /\ state'.batch = [top |-> state.top, scan |-> DOMAIN state.bidders, told |-> <<>>]
  BY DEF AuctionInv, AuctionFields, AU!Expire
<1>2. Bids'
  BY <1>1 DEF AuctionInv, Bids, Made
<1>3. Read'
  BY <1>1, <1>2 DEF Read, AuctionInv, Bids, Made
<1>4. Expiry'
  BY <1>1, <1>3 DEF AuctionInv, Expiry, AU!Expire
<1> QED BY <1>1, <1>2, <1>4 DEF AuctionInv

(* Everybody who has bid by now is told, the bidder of the top bid of it.   *)
LEMMA ScanStep ==
  ASSUME AuctionInv, AU!Scan
  PROVE  AuctionInv'
<1>1. PICK late \in SUBSET (DOMAIN state.bidders \ state.batch.scan) :
        state' = [state EXCEPT
         !.expiry = "scanned",
         !.batch.told = [b \in state.batch.scan \cup late |->
                           IF b = AU!Winner THEN "won" ELSE "lost"],
         !.walk = <<"expire", <<"bidders">> \o
                      (IF state.batch.scan \cup late = {} THEN <<>>
                       ELSE <<"route", "won", "notify">>)>>]
  BY DEF AU!Scan
<1>2. /\ AuctionFields'
      /\ state'.appended = state.appended
      /\ state'.bidders = state.bidders
      /\ state'.top = state.top
      /\ state'.finished = state.finished
      /\ state'.expiry = "scanned"
      /\ state'.batch = [state.batch EXCEPT
           !.told = [b \in state.batch.scan \cup late |->
                       IF b = AU!Winner THEN "won" ELSE "lost"]]
  BY <1>1 DEF AuctionInv, AuctionFields
<1>3. Read /\ state.expiry = "scanning" /\ DOMAIN state.batch = {"top", "scan", "told"}
  BY DEF AU!Scan, AuctionInv, Expiry
<1>4. /\ state'.batch.top = state.batch.top
      /\ state'.batch.scan = state.batch.scan
      /\ DOMAIN state'.batch = DOMAIN state.batch
      /\ state'.batch.told = [b \in state.batch.scan \cup late |->
                                IF b = AU!Winner THEN "won" ELSE "lost"]
  BY <1>2, <1>3
<1>5. Bids'
  BY <1>2 DEF AuctionInv, Bids, Made
<1>6. Read'
  BY <1>2, <1>3, <1>4 DEF Read, Made
<1>7. Told'
  BY <1>2, <1>3, <1>4 DEF Told, Read, AU!Winner
<1>8. Expiry'
  BY <1>2, <1>3, <1>4, <1>6, <1>7 DEF AuctionInv, Expiry
<1> QED BY SMTT(30), <1>2, <1>5, <1>8 DEF AuctionInv

(* The seller is told of the very bid the bidders were told of.             *)
LEMMA CommitStep ==
  ASSUME AuctionInv, AU!Commit
  PROVE  AuctionInv'
<1>1. /\ AuctionFields'
      /\ state'.appended = state.appended
      /\ state'.bidders = state.bidders
      /\ state'.top = state.top
      /\ state'.batch = state.batch
      /\ state'.finished = TRUE
      /\ state'.expiry = "done"
      /\ state'.told = state.batch.told
      /\ state'.seller = <<state.batch.top>>
      /\ state.expiry = "scanned"
  BY DEF AuctionInv, AuctionFields, AU!Commit
<1>2. Bids'
  BY <1>1 DEF AuctionInv, Bids, Made
<1>3. Read' /\ Told'
  BY <1>1 DEF AuctionInv, Expiry, Read, Told, Made
<1>4. Expiry'
  BY <1>1, <1>3 DEF AuctionInv, Expiry
<1> QED BY <1>1, <1>2, <1>4 DEF AuctionInv

(* The invariant gives the property.                                        *)
LEMMA AuctionSells == AuctionInv => AU!SoldToOne
<1> SUFFICES ASSUME AuctionInv, state.finished
             PROVE  AU!SoldToOne
  BY DEF AU!SoldToOne
<1> DEFINE sale == state.batch.top
<1>1. /\ Read /\ Told
      /\ state.told = state.batch.told
      /\ state.seller[1] = sale
  BY DEF AuctionInv, Expiry
<1>2. {b \in DOMAIN state.told : state.told[b] = "won"}
        = IF sale = AU!NoBid THEN {} ELSE {sale.bidder}
  <2>1. \A b \in DOMAIN state.told : state.told[b] = "won" <=> b = sale.bidder
    BY <1>1 DEF Told
  <2>2. CASE sale = AU!NoBid
    BY <1>1, <2>1, <2>2 DEF Told, AuctionInv, Bids, AU!NoBid
  <2>3. CASE sale # AU!NoBid
    BY <1>1, <2>1, <2>3 DEF Told, Read
  <2> QED BY <2>2, <2>3
<1>3. sale # AU!NoBid => \E c \in state.appended :
        c.type = "bid" /\ c.bidder = sale.bidder /\ c.amount = sale.amount
  <2> SUFFICES ASSUME sale # AU!NoBid
               PROVE  \E c \in state.appended :
                        c.type = "bid" /\ c.bidder = sale.bidder /\ c.amount = sale.amount
    OBVIOUS
  <2>1. PICK c \in state.appended :
          c.type = "bid" /\ sale = [bidder |-> c.bidder, amount |-> c.amount]
    BY <1>1 DEF Read, Made
  <2> QED BY <2>1
<1> QED BY <1>1, <1>2, <1>3 DEF AU!SoldToOne, Read, Told

(* Every step of the auction keeps the invariant.                           *)
LEMMA AuctionGoesOn == AuctionInv /\ AU!AuctionStep => AuctionInv'
<1> SUFFICES ASSUME AuctionInv, AU!AuctionStep PROVE AuctionInv'
  OBVIOUS
<1>1. CASE \E c \in ModuleCommands["auction"] : AU!List(c)
  BY <1>1, ListStep
<1>2. CASE \E c \in ModuleCommands["auction"] : AU!Bid(c)
  BY <1>2, BidStep
<1>3. CASE AU!Expire BY <1>3, ExpireStep
<1>4. CASE AU!Scan BY <1>4, ScanStep
<1>5. CASE AU!Commit BY <1>5, CommitStep
<1> QED BY <1>1, <1>2, <1>3, <1>4, <1>5 DEF AU!AuctionStep

(* An auction shows its listing, a bid until it is refused or in the        *)
(* history, and each part of the expiration.                                *)
LEMMA ListShows ==
  ASSUME "walk" \in DOMAIN state, NEW c, AU!List(c)
  PROVE  Shows(AU!AuctionDiagrams)
<1> DEFINE g == AU!ExpireDiagram
           path == <<"listing", "schedule">>
           appended == state.appended \cup {c}
<1>1. state' = [state EXCEPT !.appended = appended, !.expiry = "scheduled",
                             !.walk = <<"expire", path>>]
  BY DEF AU!List
<1>2. "listing" \in Ids(g) /\ Arrow(g, "listing", "schedule")
  BY ExpireArrows
<1>3. g = AU!AuctionDiagrams["expire"]
  BY DEF AU!AuctionDiagrams
<1> HIDE DEF g, appended
<1>4. Walk(g, path, "listing", "schedule")
  BY <1>2, ShortWalks
<1> HIDE DEF path
<1>5. DOMAIN state' = DOMAIN state /\ state'.walk = <<"expire", path>>
  BY <1>1
<1> QED BY <1>2, <1>3, <1>4, <1>5, ShownAs

(* A bid is drawn to the history, or to where it was refused.               *)
LEMMA BidShows ==
  ASSUME "walk" \in DOMAIN state, NEW c, AU!Bid(c)
  PROVE  Shows(AU!AuctionDiagrams)
<1> DEFINE g == AU!BidDiagram
           higher == c.amount > state.top.amount
           start == <<"depot", "owner", "closed">>
           middle == IF higher THEN <<"replace">> ELSE <<>>
           end == <<"route", "history">>
           kept == <<"bidders", "top">> \o middle \o end
           rest == IF state.finished THEN <<"stop">> ELSE kept
           path == start \o rest
           taken == [state EXCEPT
             !.bidders = AU!Put(@, c.bidder, c.amount),
             !.top = IF higher THEN [bidder |-> c.bidder, amount |-> c.amount] ELSE @,
             !.history = AU!Put(@, c.bidder, c.amount)]
           s == IF state.finished THEN state ELSE taken
           appended == s.appended \cup {c}
<1>1. state' = [s EXCEPT !.appended = appended, !.walk = <<"bid", path>>]
  BY Zenon DEF AU!Bid
<1>2. /\ "depot" \in Ids(g) /\ Arrow(g, "depot", "owner") /\ Arrow(g, "owner", "closed")
      /\ Arrow(g, "closed", "stop") /\ Arrow(g, "closed", "bidders")
      /\ Arrow(g, "bidders", "top") /\ Arrow(g, "top", "replace") /\ Arrow(g, "top", "route")
      /\ Arrow(g, "replace", "route") /\ Arrow(g, "route", "history")
  BY BidArrows
<1>3. g = AU!AuctionDiagrams["bid"]
  BY DEF AU!AuctionDiagrams
<1>4. middle = <<"replace">> \/ middle = <<>>
  OBVIOUS
<1>5. DOMAIN s = DOMAIN state
  <2>1. DOMAIN taken = DOMAIN state
    OBVIOUS
  <2> HIDE DEF taken
  <2> QED BY <2>1
<1> HIDE DEF g, higher, middle, taken, s, appended
<1>6. /\ Walk(g, start, "depot", "closed") /\ Walk(g, <<"bidders", "top">>, "bidders", "top")
      /\ Walk(g, <<"replace">>, "replace", "replace") /\ Walk(g, <<"stop">>, "stop", "stop")
      /\ Walk(g, end, "route", "history")
  BY <1>2, ShortWalks
<1>7. Walk(g, kept, "bidders", "history")
  <2> DEFINE two == <<"bidders", "top">>
  <2> HIDE DEF two, end
  <2>1. CASE middle = <<"replace">>
    <3>1. Walk(g, two \o <<"replace">> \o end, "bidders", "history")
      BY <1>2, <1>6, WalkThrough DEF two
    <3> QED BY <2>1, <3>1 DEF two
  <2>2. CASE middle = <<>>
    <3>1. two \o middle = two
      BY <1>6, <2>2, NothingAdded DEF two
    <3>2. Walk(g, two \o end, "bidders", "history")
      BY <1>2, <1>6, WalkOn DEF two
    <3> QED BY <3>1, <3>2 DEF two
  <2> QED BY <1>4, <2>1, <2>2
<1>8. \E z : Walk(g, path, "depot", z)
  <2> HIDE DEF start, kept
  <2>1. CASE state.finished
    <3>1. rest = <<"stop">>
      BY <2>1
    <3>2. Walk(g, start \o <<"stop">>, "depot", "stop")
      BY <1>2, <1>6, WalkOn
    <3> QED BY <3>1, <3>2
  <2>2. CASE ~state.finished
    <3>1. rest = kept
      BY <2>2
    <3>2. Walk(g, start \o kept, "depot", "history")
      BY <1>2, <1>6, <1>7, WalkOn
    <3> QED BY <3>1, <3>2
  <2> QED BY <2>1, <2>2
<1> HIDE DEF path
<1>9. DOMAIN state' = DOMAIN state /\ state'.walk = <<"bid", path>>
  BY <1>1, <1>5
<1> QED BY <1>2, <1>3, <1>8, <1>9, ShownAs

(* An expiration is drawn from the tick that takes it up, ...               *)
LEMMA ExpirationShows ==
  ASSUME "walk" \in DOMAIN state, AU!Expire
  PROVE  Shows(AU!AuctionDiagrams)
<1> DEFINE g == AU!ExpireDiagram
           start == <<"tick", "callback", "finished", "top", "winner">>
           outcome == IF state.top = AU!NoBid THEN "unsold" ELSE "sold"
           end == <<"seller", "bidders">>
           path == start \o <<outcome>> \o end
           batch == [top |-> state.top, scan |-> DOMAIN state.bidders, told |-> <<>>]
<1>1. state' = [state EXCEPT !.expiry = "scanning", !.batch = batch,
                             !.walk = <<"expire", path>>]
  BY DEF AU!Expire
<1>2. /\ "tick" \in Ids(g) /\ Arrow(g, "tick", "callback") /\ Arrow(g, "callback", "finished")
      /\ Arrow(g, "finished", "top") /\ Arrow(g, "top", "winner")
      /\ Arrow(g, "winner", "sold") /\ Arrow(g, "winner", "unsold")
      /\ Arrow(g, "sold", "seller") /\ Arrow(g, "unsold", "seller")
      /\ Arrow(g, "seller", "bidders")
  BY ExpireArrows
<1>3. g = AU!AuctionDiagrams["expire"]
  BY DEF AU!AuctionDiagrams
<1>4. outcome = "unsold" \/ outcome = "sold"
  OBVIOUS
<1> HIDE DEF g, outcome, batch
<1>5. Arrow(g, "winner", outcome) /\ Arrow(g, outcome, "seller")
  BY <1>2, <1>4
<1>6. /\ Walk(g, start, "tick", "winner") /\ Walk(g, <<outcome>>, outcome, outcome)
      /\ Walk(g, end, "seller", "bidders")
  BY <1>2, ShortWalks
<1>7. Walk(g, path, "tick", "bidders")
  <2> HIDE DEF start, end
  <2> QED BY <1>5, <1>6, WalkThrough
<1> HIDE DEF path
<1>8. DOMAIN state' = DOMAIN state /\ state'.walk = <<"expire", path>>
  BY <1>1
<1> QED BY <1>2, <1>3, <1>7, <1>8, ShownAs

(* ... through the scan of the bids, ...                                    *)
LEMMA ScanShows ==
  ASSUME "walk" \in DOMAIN state, AU!Scan
  PROVE  Shows(AU!AuctionDiagrams)
<1> DEFINE g == AU!ExpireDiagram
           met(late) == state.batch.scan \cup late
           start == <<"bidders">>
           told == <<"route", "won", "notify">>
           rest(late) == IF met(late) = {} THEN <<>> ELSE told
           path(late) == start \o rest(late)
           told1(late) == [b \in met(late) |-> IF b = AU!Winner THEN "won" ELSE "lost"]
<1>1. PICK late : state' = [state EXCEPT !.expiry = "scanned", !.batch.told = told1(late),
                                         !.walk = <<"expire", path(late)>>]
  BY Zenon DEF AU!Scan
<1>2. /\ "bidders" \in Ids(g) /\ Arrow(g, "bidders", "route") /\ Arrow(g, "route", "won")
      /\ Arrow(g, "won", "notify")
  BY ExpireArrows
<1>3. g = AU!AuctionDiagrams["expire"]
  BY DEF AU!AuctionDiagrams
<1>4. rest(late) = told \/ rest(late) = <<>>
  OBVIOUS
<1> HIDE DEF g, told1, rest
<1>5. Walk(g, start, "bidders", "bidders") /\ Walk(g, told, "route", "notify")
  BY <1>2, ShortWalks
<1>6. \E z : Walk(g, path(late), "bidders", z)
  <2> HIDE DEF start, told
  <2>1. CASE rest(late) = told
    <3>1. Walk(g, start \o told, "bidders", "notify")
      BY <1>2, <1>5, WalkOn
    <3> QED BY <2>1, <3>1
  <2>2. CASE rest(late) = <<>>
    <3>1. start \o rest(late) = start
      BY <1>5, <2>2, NothingAdded
    <3> QED BY <1>5, <3>1
  <2> QED BY <1>4, <2>1, <2>2
<1> HIDE DEF path
<1>7. DOMAIN state' = DOMAIN state /\ state'.walk = <<"expire", path(late)>>
  BY <1>1
<1> QED BY <1>2, <1>3, <1>6, <1>7, ShownAs

(* ... to the result and the notifications.                                 *)
LEMMA CommitShows ==
  ASSUME "walk" \in DOMAIN state, AU!Commit
  PROVE  Shows(AU!AuctionDiagrams)
<1> DEFINE g == AU!AuctionPartition
           path == <<"seller", "finished">>
<1>1. state' = [state EXCEPT !.expiry = "done", !.finished = TRUE, !.told = state.batch.told,
                             !.seller = <<state.batch.top>>, !.walk = <<"partition", path>>]
  BY DEF AU!Commit
<1>2. "seller" \in Ids(g) /\ Arrow(g, "seller", "finished")
  BY AuctionPartitionArrows
<1>3. g = AU!AuctionDiagrams["partition"]
  BY DEF AU!AuctionDiagrams
<1> HIDE DEF g
<1>4. Walk(g, path, "seller", "finished")
  BY <1>2, ShortWalks
<1> HIDE DEF path
<1>5. DOMAIN state' = DOMAIN state /\ state'.walk = <<"partition", path>>
  BY <1>1
<1> QED BY <1>2, <1>3, <1>4, <1>5, ShownAs

(* So everything the auction does is drawn.                                 *)
LEMMA AuctionShows ==
  ASSUME "walk" \in DOMAIN state, AU!AuctionStep
  PROVE  Shows(AU!AuctionDiagrams)
BY ListShows, BidShows, ExpirationShows, ScanShows, CommitShows DEF AU!AuctionStep

-----------------------------------------------------------------------------
(* The job scheduler.                                                      *)

(* What clients send.                                                       *)
JobCommands == ModuleCommands["job-scheduler"]

(* What the module keeps.                                                   *)
JobFields ==
  /\ DOMAIN state = {"walk", "exists", "dag", "clock", "nodes", "claims"}
  /\ state.exists \in BOOLEAN
  /\ state.clock \in Nat

(* The nodes are those of the one graph that was submitted.                *)
JobNodes ==
  /\ ~state.exists => DOMAIN state.nodes = {}
  /\ state.exists => /\ DOMAIN state.dag = DOMAIN state.nodes
                     /\ \A n \in DOMAIN state.dag : state.dag[n] \subseteq DOMAIN state.dag
  /\ \A n \in DOMAIN state.nodes :
       /\ DOMAIN state.nodes[n] = {"attempts", "lease", "success", "result"}
       /\ state.nodes[n].attempts \in Nat
       /\ state.nodes[n].success \in BOOLEAN

(* A claim is granted for a node of the graph.                              *)
JobClaims ==
  \A id \in DOMAIN state.claims :
    /\ state.claims[id].granted \in BOOLEAN
    /\ state.claims[id].granted => state.claims[id].node \in DOMAIN state.nodes

(* What was granted: numbered, for a node whose dependencies are done, and *)
(* not beyond the lease the node has now.                                  *)
JobGrants ==
  \A n \in DOMAIN state.nodes : \A d \in JS!Granted(n) :
    /\ JS!DepsDone(n)
    /\ d.token \in 1..state.nodes[n].attempts
    /\ d.expiry \in Nat
    /\ state.nodes[n].lease # JS!NoLease => d.expiry <= state.nodes[n].lease.expiry

(* A lease is that of the last grant, and no unfinished node without one was *)
(* ever granted.                                                            *)
JobLeases ==
  \A n \in DOMAIN state.nodes :
    /\ state.nodes[n].lease # JS!NoLease =>
         /\ ~state.nodes[n].success
         /\ state.nodes[n].lease.token = state.nodes[n].attempts
         /\ state.nodes[n].lease.expiry \in Nat
         /\ \E d \in JS!Granted(n) : /\ d.token = state.nodes[n].attempts
                                     /\ d.worker = state.nodes[n].lease.worker
    /\ state.nodes[n].lease = JS!NoLease /\ ~state.nodes[n].success =>
         JS!Granted(n) = {}

(* A node succeeded by the completion of the last worker it was granted to. *)
Fenced ==
  \A n \in DOMAIN state.nodes : state.nodes[n].success =>
    /\ JS!DepsDone(n)
    /\ \E d \in JS!Granted(n), c \in {c \in JobCommands : c.type = "complete"} :
         /\ d.token = state.nodes[n].attempts
         /\ c.node = n /\ c.worker = d.worker /\ c.token = d.token
         /\ c.result = state.nodes[n].result

(* The inductive invariant of the job scheduler.                            *)
JobInv ==
  /\ JobFields /\ JobNodes /\ JobClaims /\ JobGrants /\ JobLeases
  /\ JS!LeasesApart /\ Fenced

(* It holds before the graph is submitted.                                  *)
LEMMA JobStarts == JS!JobInit => JobInv
BY DEF JS!JobInit, JobInv, JobFields, JobNodes, JobClaims, JobGrants, JobLeases,
   JS!LeasesApart, Fenced

(* A step that grants nothing and leaves the nodes alone.                  *)
LEMMA JobIdle ==
  ASSUME JobInv, JobFields', JobClaims',
         state'.exists = state.exists, state'.dag = state.dag, state'.nodes = state.nodes,
         \A n : JS!Granted(n)' = JS!Granted(n)
  PROVE  JobInv'
<1>1. \A n : JS!DepsDone(n)' = JS!DepsDone(n)
  BY DEF JS!DepsDone, JS!Succeeded
<1>2. JobNodes'
  BY DEF JobInv, JobNodes
<1>3. JobGrants'
  BY <1>1 DEF JobInv, JobGrants
<1>4. JobLeases'
  BY DEF JobInv, JobLeases
<1>5. JS!LeasesApart'
  BY DEF JobInv, JS!LeasesApart
<1>6. Fenced'
  BY <1>1 DEF JobInv, Fenced
<1> QED BY <1>2, <1>3, <1>4, <1>5, <1>6 DEF JobInv

(* A step that changes the clock or the walk only.                          *)
LEMMA JobQuiet ==
  ASSUME JobInv, JobFields', state'.exists = state.exists, state'.dag = state.dag,
         state'.nodes = state.nodes, state'.claims = state.claims
  PROVE  JobInv'
<1>1. \A n : JS!Granted(n)' = JS!Granted(n)
  BY DEF JS!Granted
<1>2. JobClaims'
  BY DEF JobInv, JobClaims
<1> QED BY <1>1, <1>2, JobIdle

(* What a node begins with.                                                 *)
LEMMA NewNodeFacts ==
  ASSUME NEW node, node = JS!NewNode
  PROVE  /\ DOMAIN node = {"attempts", "lease", "success", "result"}
         /\ node.attempts \in Nat
         /\ node.success \in BOOLEAN
<1>1. DOMAIN node = {"attempts", "lease", "success", "result"}
  BY DEF JS!NewNode
<1>2. node.attempts \in Nat /\ node.success \in BOOLEAN
  BY DEF JS!NewNode
<1> QED BY <1>1, <1>2

(* The graph is submitted once, before anything is granted.                 *)
LEMMA JobSubmit ==
  ASSUME JobInv, NEW c \in JobCommands, JS!SubmitExecution(c)
  PROVE  JobInv'
<1>1. CASE JS!ValidDag(c.dag) /\ ~state.exists
  <2>1. /\ JobFields'
        /\ state'.exists = TRUE
        /\ state'.dag = c.dag
        /\ state'.claims = state.claims
        /\ state'.nodes = [n \in DOMAIN c.dag |-> JS!NewNode]
    BY <1>1 DEF JobInv, JobFields, JS!SubmitExecution
  <2>2. \A id \in DOMAIN state.claims : ~state.claims[id].granted
    BY <1>1 DEF JobInv, JobNodes, JobClaims
  <2>3. \A n : JS!Granted(n)' = {}
    BY <2>1, <2>2 DEF JS!Granted, JS!Range
  <2>4. JobNodes'
    <3>1. \A n \in DOMAIN c.dag : c.dag[n] \subseteq DOMAIN c.dag
      BY <1>1 DEF JS!ValidDag
    <3>3. DOMAIN state'.nodes = DOMAIN c.dag
      BY <2>1
    <3>4. \A n \in DOMAIN state'.nodes : state'.nodes[n] = JS!NewNode
      BY <2>1
    <3>5. /\ DOMAIN state'.dag = DOMAIN state'.nodes
          /\ \A n \in DOMAIN state'.dag : state'.dag[n] \subseteq DOMAIN state'.dag
      BY <2>1, <3>1, <3>3
    <3>6. \A n \in DOMAIN state'.nodes :
             /\ DOMAIN state'.nodes[n] = {"attempts", "lease", "success", "result"}
             /\ state'.nodes[n].attempts \in Nat
             /\ state'.nodes[n].success \in BOOLEAN
      BY <3>4, NewNodeFacts
    <3> QED BY <2>1, <3>5, <3>6 DEF JobNodes
  <2>5. JobGrants' /\ JobClaims'
    BY <2>1, <2>2, <2>3 DEF JobGrants, JobClaims, JobInv
  <2>6. JobLeases'
    BY <2>1, <2>3 DEF JobLeases, JS!NewNode
  <2>7. JS!LeasesApart'
    BY <2>1, <2>3 DEF JS!LeasesApart, JS!NewNode
  <2>8. Fenced'
    BY <2>1 DEF Fenced, JS!NewNode
  <2> QED BY <2>1, <2>4, <2>5, <2>6, <2>7, <2>8 DEF JobInv
<1>2. CASE ~(JS!ValidDag(c.dag) /\ ~state.exists)
  BY <1>2, JobQuiet DEF JobInv, JobFields, JS!SubmitExecution
<1> QED BY <1>1, <1>2

(* The clock changes no grant: a lease is compared with it when claimed.    *)
LEMMA JobClock ==
  ASSUME JobInv, NEW c \in JobCommands, JS!AdvanceClock(c)
  PROVE  JobInv'
<1>1. c.clock \in Int
  BY JobsAssumption DEF JS!AdvanceClock, JobCommands
<1> QED BY <1>1, JobQuiet DEF JobInv, JobFields, JS!AdvanceClock

(* A repeated claim changes nothing.                                        *)
LEMMA JobClaimAgain ==
  ASSUME JobInv, NEW c \in JobCommands, JS!ClaimAgain(c)
  PROVE  JobInv'
BY JobQuiet DEF JobInv, JobFields, JS!ClaimAgain

(* Five checks accept when every one of them passes.                        *)
LEMMA FiveChecks ==
  ASSUME NEW a1, NEW b1, NEW a2, NEW b2, NEW a3, NEW b3, NEW a4, NEW b4, NEW a5, NEW b5,
         NEW p1 \in BOOLEAN, NEW p2 \in BOOLEAN, NEW p3 \in BOOLEAN, NEW p4 \in BOOLEAN,
         NEW p5 \in BOOLEAN
  PROVE  JS!Accepted(<< <<a1, p1, b1>>, <<a2, p2, b2>>, <<a3, p3, b3>>, <<a4, p4, b4>>,
                        <<a5, p5, b5>> >>) <=> p1 /\ p2 /\ p3 /\ p4 /\ p5
BY DEF JS!Accepted, JS!Failed

(* What a granted claim found: a node that is ready.                        *)
LEMMA ClaimAccepted ==
  ASSUME NEW n, state.exists \in BOOLEAN
  PROVE  JS!Accepted(JS!ClaimChecks(n)) <=>
           /\ state.exists
           /\ n \in DOMAIN state.nodes
           /\ ~JS!Succeeded(n)
           /\ JS!DepsDone(n)
           /\ ~JS!Leased(n)
<1> DEFINE exists == state.exists
           known == n \in DOMAIN state.nodes
           fresh == known /\ ~JS!Succeeded(n)
           ready == known /\ JS!DepsDone(n)
           free == known /\ ~JS!Leased(n)
<1>1. exists \in BOOLEAN /\ known \in BOOLEAN /\ fresh \in BOOLEAN /\ ready \in BOOLEAN
      /\ free \in BOOLEAN
  OBVIOUS
<1>2. JS!ClaimChecks(n) =
        << <<"execution", exists, "unknown-execution">>, <<"node", known, "unknown-node">>,
           <<"success", fresh, "already-succeeded">>,
           <<"deps", ready, "dependencies-incomplete">>, <<"lease", free, "lease-held">> >>
  BY DEF JS!ClaimChecks
<1>3. exists /\ known /\ fresh /\ ready /\ free <=>
        /\ state.exists
        /\ n \in DOMAIN state.nodes
        /\ ~JS!Succeeded(n)
        /\ JS!DepsDone(n)
        /\ ~JS!Leased(n)
  OBVIOUS
<1> HIDE DEF exists, known, fresh, ready, free
<1> QED BY <1>1, <1>2, <1>3, FiveChecks

(* A grant is numbered after the last one and begins when its lease is over. *)
LEMMA JobClaim ==
  ASSUME JobInv, NEW c \in JobCommands, JS!Claim(c)
  PROVE  JobInv'
<1> DEFINE token == state.nodes[c.node].attempts + 1
           expiry == state.clock + JS!LeaseTime
           granted == [node |-> c.node, worker |-> c.worker, clock |-> state.clock,
                       granted |-> TRUE, token |-> token, expiry |-> expiry]
           refused == [node |-> c.node, worker |-> c.worker, clock |-> state.clock,
                       granted |-> FALSE, reason |-> JS!Reason(JS!ClaimChecks(c.node))]
<1>1. CASE ~JS!Accepted(JS!ClaimChecks(c.node))
  <2>1. /\ JobFields'
        /\ state'.exists = state.exists
        /\ state'.dag = state.dag
        /\ state'.nodes = state.nodes
        /\ state'.claims = JS!Put(state.claims, c.rid, refused)
    BY <1>1 DEF JobInv, JobFields, JS!Claim
  <2>2. ~refused.granted /\ refused.granted \in BOOLEAN
    OBVIOUS
  <2>3. /\ DOMAIN state'.claims = DOMAIN state.claims \cup {c.rid}
        /\ state'.claims[c.rid] = refused
        /\ \A id \in DOMAIN state.claims : state'.claims[id] = state.claims[id]
    BY <2>1 DEF JS!Put, JS!Claim
  <2> HIDE DEF refused
  <2>4. \A n : JS!Granted(n)' = JS!Granted(n)
    BY <2>2, <2>3 DEF JS!Granted, JS!Range
  <2>5. JobClaims'
    BY <2>1, <2>2, <2>3 DEF JobInv, JobClaims
  <2> QED BY <2>1, <2>4, <2>5, JobIdle
<1>2. CASE JS!Accepted(JS!ClaimChecks(c.node))
  <2>1. /\ JobFields'
        /\ state'.exists = state.exists
        /\ state'.dag = state.dag
        /\ state'.claims = JS!Put(state.claims, c.rid, granted)
        /\ state'.nodes = [state.nodes EXCEPT ![c.node] =
             [@ EXCEPT !.attempts = token,
                       !.lease = [worker |-> c.worker, token |-> token, expiry |-> expiry]]]
    BY <1>2 DEF JobInv, JobFields, JS!Claim
  <2>2. /\ state.exists
        /\ c.node \in DOMAIN state.nodes
        /\ ~state.nodes[c.node].success
        /\ JS!DepsDone(c.node)
        /\ ~JS!Leased(c.node)
    BY <1>2, ClaimAccepted DEF JobInv, JobFields, JS!Succeeded
  <2>3. /\ state.clock \in Nat /\ expiry \in Nat /\ state.clock <= expiry
        /\ state.nodes[c.node].attempts \in Nat
    BY <2>2 DEF JobInv, JobFields, JobNodes, JS!LeaseTime
  <2>4. /\ DOMAIN state'.nodes = DOMAIN state.nodes
        /\ \A n \in DOMAIN state.nodes : n # c.node => state'.nodes[n] = state.nodes[n]
        /\ \A n \in DOMAIN state.nodes :
             /\ DOMAIN state'.nodes[n] = DOMAIN state.nodes[n]
             /\ state'.nodes[n].success = state.nodes[n].success
             /\ state'.nodes[n].result = state.nodes[n].result
        /\ state'.nodes[c.node].attempts = token
        /\ state'.nodes[c.node].lease =
             [worker |-> c.worker, token |-> token, expiry |-> expiry]
    <3>1. /\ DOMAIN state'.nodes = DOMAIN state.nodes
          /\ \A n \in DOMAIN state.nodes : n # c.node => state'.nodes[n] = state.nodes[n]
          /\ state'.nodes[c.node] = [state.nodes[c.node] EXCEPT !.attempts = token,
               !.lease = [worker |-> c.worker, token |-> token, expiry |-> expiry]]
      BY <2>1, <2>2
    <3>2. DOMAIN state.nodes[c.node] = {"attempts", "lease", "success", "result"}
      BY <2>2 DEF JobInv, JobNodes
    <3>3. /\ DOMAIN state'.nodes[c.node] = DOMAIN state.nodes[c.node]
          /\ state'.nodes[c.node].success = state.nodes[c.node].success
          /\ state'.nodes[c.node].result = state.nodes[c.node].result
          /\ state'.nodes[c.node].attempts = token
          /\ state'.nodes[c.node].lease =
               [worker |-> c.worker, token |-> token, expiry |-> expiry]
      BY <3>1, <3>2
    <3> QED BY <3>1, <3>3
  <2>5. state'.nodes[c.node].lease # JS!NoLease
    BY <2>3, <2>4 DEF JS!NoLease
  <2>6. /\ DOMAIN state'.claims = DOMAIN state.claims \cup {c.rid}
        /\ state'.claims[c.rid] = granted
        /\ \A id \in DOMAIN state.claims : state'.claims[id] = state.claims[id]
    BY <2>1 DEF JS!Put, JS!Claim
  <2>7. /\ granted.granted = TRUE /\ granted.node = c.node /\ granted.worker = c.worker
        /\ granted.token = token /\ granted.expiry = expiry /\ granted.clock = state.clock
    OBVIOUS
  <2> HIDE DEF granted
  <2>8. \A n : JS!Granted(n)' = IF n = c.node THEN JS!Granted(n) \cup {granted}
                                ELSE JS!Granted(n)
    BY SMTT(30), <2>6, <2>7 DEF JS!Granted, JS!Range
  <2>9. \A n \in DOMAIN state.nodes : JS!DepsDone(n)' <=> JS!DepsDone(n)
    BY <2>1, <2>2, <2>4 DEF JobInv, JobNodes, JS!DepsDone, JS!Succeeded
  <2>10. \A d \in JS!Granted(c.node) : d.expiry <= state.clock /\ d.expiry \in Nat
                                       /\ d.token \in 1..state.nodes[c.node].attempts
    BY SMTT(30), <2>2, <2>3 DEF JobInv, JobGrants, JobLeases, JS!Leased
  <2>11. JobNodes'
    BY <2>1, <2>3, <2>4 DEF JobInv, JobNodes
  <2>12. JobClaims'
    BY <2>2, <2>4, <2>6, <2>7 DEF JobInv, JobClaims
  <2>13. JobGrants'
    BY <2>2, <2>3, <2>4, <2>7, <2>8, <2>9, <2>10 DEF JobInv, JobGrants
  <2>14. JobLeases'
    BY <2>2, <2>3, <2>4, <2>5, <2>7, <2>8 DEF JobInv, JobLeases
  <2>15. JS!LeasesApart'
    <3>1. SUFFICES ASSUME NEW n \in DOMAIN state.nodes
                   PROVE  /\ {d.token : d \in JS!Granted(n)'} = 1..state'.nodes[n].attempts
                          /\ \A d, later \in JS!Granted(n)' : d # later =>
                               /\ d.token # later.token
                               /\ d.token < later.token => later.clock >= d.expiry
      BY <2>4 DEF JS!LeasesApart
    <3>2. /\ {d.token : d \in JS!Granted(n)} = 1..state.nodes[n].attempts
          /\ \A d, later \in JS!Granted(n) : d # later =>
               /\ d.token # later.token
               /\ d.token < later.token => later.clock >= d.expiry
      BY DEF JobInv, JS!LeasesApart
    <3>3. CASE n # c.node
      BY <2>4, <2>8, <3>2, <3>3
    <3>4. CASE n = c.node
      <4>1. {d.token : d \in JS!Granted(n)'} = {d.token : d \in JS!Granted(n)} \cup {token}
        BY <2>7, <2>8, <3>4
      <4>2. 1..state'.nodes[n].attempts = 1..state.nodes[n].attempts \cup {token}
        BY <2>3, <2>4, <3>4
      <4>3. \A d, later \in JS!Granted(n)' : d # later =>
              /\ d.token # later.token
              /\ d.token < later.token => later.clock >= d.expiry
        BY <2>3, <2>7, <2>8, <2>10, <3>2, <3>4
      <4> QED BY <3>2, <4>1, <4>2, <4>3
    <3> QED BY <3>3, <3>4
  <2>16. Fenced'
    BY <2>2, <2>4, <2>8, <2>9 DEF JobInv, Fenced
  <2> QED BY <2>1, <2>11, <2>12, <2>13, <2>14, <2>15, <2>16 DEF JobInv
<1> QED BY <1>1, <1>2

(* Only the worker of the lease completes, with its token and in time.      *)
LEMMA JobComplete ==
  ASSUME JobInv, NEW c \in JobCommands, JS!Complete(c)
  PROVE  JobInv'
<1> DEFINE node == IF c.node \in DOMAIN state.nodes THEN state.nodes[c.node] ELSE JS!NewNode
           known == c.node \in DOMAIN state.nodes /\ ~node.success
           leased == node.lease # JS!NoLease /\ node.lease.worker = c.worker
                     /\ node.lease.token = c.token
           live == state.clock < node.lease.expiry
           checks == << <<"exists", state.exists, "none">>, <<"node", known, "none">>,
                        <<"lease", leased, "none">>, <<"live", live, "none">> >>
<1>1. JS!Accepted(checks) => known /\ leased
  <2>1. known \in BOOLEAN /\ leased \in BOOLEAN /\ live \in BOOLEAN
    OBVIOUS
  <2> HIDE DEF known, leased, live
  <2> QED BY <2>1 DEF JS!Accepted, JS!Failed
<1>2. CASE JS!Accepted(checks)
  <2>1. /\ JobFields'
        /\ state'.exists = state.exists
        /\ state'.dag = state.dag
        /\ state'.claims = state.claims
        /\ state'.nodes = [state.nodes EXCEPT ![c.node] =
             [@ EXCEPT !.success = TRUE, !.lease = JS!NoLease, !.result = c.result]]
    BY ZenonT(40), <1>2 DEF JobInv, JobFields, JS!Complete
  <2>2. /\ c.node \in DOMAIN state.nodes
        /\ ~state.nodes[c.node].success
        /\ state.nodes[c.node].lease # JS!NoLease
        /\ state.nodes[c.node].lease.worker = c.worker
        /\ state.nodes[c.node].lease.token = c.token
        /\ c.type = "complete"
    BY <1>1, <1>2 DEF JS!Complete
  <2>3. /\ DOMAIN state'.nodes = DOMAIN state.nodes
        /\ \A n \in DOMAIN state.nodes : n # c.node => state'.nodes[n] = state.nodes[n]
        /\ DOMAIN state'.nodes[c.node] = DOMAIN state.nodes[c.node]
        /\ state'.nodes[c.node].attempts = state.nodes[c.node].attempts
        /\ state'.nodes[c.node].success = TRUE
        /\ state'.nodes[c.node].lease = JS!NoLease
        /\ state'.nodes[c.node].result = c.result
    <3>1. /\ DOMAIN state'.nodes = DOMAIN state.nodes
          /\ \A n \in DOMAIN state.nodes : n # c.node => state'.nodes[n] = state.nodes[n]
          /\ state'.nodes[c.node] = [state.nodes[c.node] EXCEPT
               !.success = TRUE, !.lease = JS!NoLease, !.result = c.result]
      BY <2>1, <2>2
    <3>2. DOMAIN state.nodes[c.node] = {"attempts", "lease", "success", "result"}
      BY <2>2 DEF JobInv, JobNodes
    <3> QED BY <3>1, <3>2
  <2>4. \A n : JS!Granted(n)' = JS!Granted(n)
    BY <2>1 DEF JS!Granted
  <2>5. \A n \in DOMAIN state.nodes : JS!DepsDone(n) => JS!DepsDone(n)'
    BY <2>1, <2>2, <2>3 DEF JobInv, JobNodes, JS!DepsDone, JS!Succeeded
  <2>6. JobNodes'
    <3>1. \A n \in DOMAIN state'.nodes :
            /\ DOMAIN state'.nodes[n] = {"attempts", "lease", "success", "result"}
            /\ state'.nodes[n].attempts \in Nat
            /\ state'.nodes[n].success \in BOOLEAN
      <4>1. \A n \in DOMAIN state.nodes :
              /\ DOMAIN state.nodes[n] = {"attempts", "lease", "success", "result"}
              /\ state.nodes[n].attempts \in Nat
              /\ state.nodes[n].success \in BOOLEAN
        BY DEF JobInv, JobNodes
      <4>2. state'.nodes[c.node].success \in BOOLEAN
        BY <2>3
      <4> QED BY <2>2, <2>3, <4>1, <4>2
    <3> QED BY <2>1, <2>3, <3>1 DEF JobInv, JobNodes
  <2>7. JobClaims'
    BY <2>1, <2>3 DEF JobInv, JobClaims
  <2>8. JobGrants'
    BY <2>2, <2>3, <2>4, <2>5 DEF JobInv, JobGrants
  <2>9. JobLeases'
    BY <2>2, <2>3, <2>4 DEF JobInv, JobLeases
  <2>10. JS!LeasesApart'
    <3>1. \A n \in DOMAIN state.nodes : state'.nodes[n].attempts = state.nodes[n].attempts
      BY <2>3
    <3> QED BY <2>3, <2>4, <3>1 DEF JobInv, JS!LeasesApart
  <2>11. Fenced'
    <3>1. PICK d \in JS!Granted(c.node) : /\ d.token = state.nodes[c.node].attempts
                                          /\ d.worker = state.nodes[c.node].lease.worker
      BY <2>2 DEF JobInv, JobLeases
    <3>2. JS!DepsDone(c.node) /\ state.nodes[c.node].lease.token = state.nodes[c.node].attempts
      BY <2>2, <3>1 DEF JobInv, JobGrants, JobLeases
    <3>3. \E e \in JS!Granted(c.node)', f \in {f \in JobCommands : f.type = "complete"} :
            /\ e.token = state'.nodes[c.node].attempts
            /\ f.node = c.node /\ f.worker = e.worker /\ f.token = e.token
            /\ f.result = state'.nodes[c.node].result
      <4>1. d \in JS!Granted(c.node)' /\ c \in {f \in JobCommands : f.type = "complete"}
        BY <2>2, <2>4
      <4> QED BY ZenonT(40), <2>2, <2>3, <3>1, <3>2, <4>1
    <3> QED BY <2>2, <2>3, <2>4, <2>5, <3>2, <3>3 DEF JobInv, Fenced
  <2> QED BY <2>1, <2>6, <2>7, <2>8, <2>9, <2>10, <2>11 DEF JobInv
<1>3. CASE ~JS!Accepted(checks)
  <2>1. /\ JobFields'
        /\ state'.exists = state.exists
        /\ state'.dag = state.dag
        /\ state'.claims = state.claims
        /\ state'.nodes = state.nodes
    BY <1>3 DEF JobInv, JobFields, JS!Complete
  <2> QED BY SMTT(30), <2>1, JobQuiet
<1> QED BY <1>2, <1>3

(* The invariant gives the property.                                        *)
LEMMA JobSucceeds == JobInv => JS!SuccessFenced
<1> SUFFICES ASSUME JobInv, NEW n \in DOMAIN state.nodes
             PROVE  /\ JS!NodeStatus(n) = "ready" <=> JS!Accepted(JS!ClaimChecks(n))
                    /\ JS!Succeeded(n) =>
                         /\ JS!DepsDone(n)
                         /\ \E d \in JS!Granted(n),
                               c \in {c \in JobCommands : c.type = "complete"} :
                              /\ d.token = state.nodes[n].attempts
                              /\ c.node = n /\ c.worker = d.worker /\ c.token = d.token
                              /\ c.result = state.nodes[n].result
  BY DEF JS!SuccessFenced, JobCommands
<1>1. state.exists
  BY DEF JobInv, JobNodes, JobFields
<1>2. JS!NodeStatus(n) = "ready" <=> ~JS!Succeeded(n) /\ JS!DepsDone(n) /\ ~JS!Leased(n)
  BY DEF JS!NodeStatus
<1>3. JS!NodeStatus(n) = "ready" <=> JS!Accepted(JS!ClaimChecks(n))
  BY <1>1, <1>2, ClaimAccepted DEF JobInv, JobFields
<1> QED BY <1>3 DEF JobInv, Fenced, JS!Succeeded

(* Every step of the job scheduler keeps the invariant.                     *)
LEMMA JobGoesOn == JobInv /\ JS!JobStep => JobInv'
<1> SUFFICES ASSUME JobInv, JS!JobStep PROVE JobInv'
  OBVIOUS
<1>1. PICK c \in JobCommands :
        \/ JS!SubmitExecution(c) \/ JS!AdvanceClock(c) \/ JS!Claim(c)
        \/ JS!ClaimAgain(c) \/ JS!Complete(c)
  BY DEF JS!JobStep, JobCommands
<1>2. CASE JS!SubmitExecution(c) BY <1>2, JobSubmit
<1>3. CASE JS!AdvanceClock(c) BY <1>3, JobClock
<1>4. CASE JS!Claim(c) BY <1>4, JobClaim
<1>5. CASE JS!ClaimAgain(c) BY <1>5, JobClaimAgain
<1>6. CASE JS!Complete(c) BY <1>6, JobComplete
<1> QED BY <1>1, <1>2, <1>3, <1>4, <1>5, <1>6

(* What two sequences in a row are.                                         *)
LEMMA InARow ==
  ASSUME NEW S, NEW p \in Seq(S), NEW q \in Seq(S)
  PROVE  /\ p \o q \in Seq(S) /\ Len(p \o q) = Len(p) + Len(q)
         /\ \A i \in 1..(Len(p) + Len(q)) :
              (p \o q)[i] = IF i <= Len(p) THEN p[i] ELSE q[i - Len(p)]
OBVIOUS

(* Two and one are three.                                                   *)
LEMMA TwoAndOne ==
  ASSUME NEW a, NEW b, NEW c
  PROVE  <<a, b>> \o <<c>> = <<a, b, c>>
<1> DEFINE S == {a, b, c}
           two == <<a, b>>
           one == <<c>>
           three == <<a, b, c>>
           both == two \o one
<1>1. /\ two \in Seq(S) /\ one \in Seq(S) /\ three \in Seq(S)
      /\ Len(two) = 2 /\ Len(one) = 1 /\ Len(three) = 3
      /\ two[1] = a /\ two[2] = b /\ one[1] = c
      /\ three[1] = a /\ three[2] = b /\ three[3] = c
  OBVIOUS
<1> HIDE DEF S, two, one, three
<1>2. /\ both \in Seq(S) /\ Len(both) = Len(two) + Len(one)
      /\ \A i \in 1..(Len(two) + Len(one)) :
           both[i] = IF i <= Len(two) THEN two[i] ELSE one[i - Len(two)]
  BY <1>1, InARow
<1> HIDE DEF both
<1>3. both[1] = a /\ both[2] = b /\ both[3] = c /\ Len(both) = 3
  BY <1>1, <1>2
<1>5. both = three
  <2>1. /\ both = [i \in 1..Len(both) |-> both[i]]
        /\ three = [i \in 1..Len(three) |-> three[i]]
    BY <1>1, <1>2
  <2>2. ASSUME NEW i \in 1..3 PROVE both[i] = three[i]
    <3>1. i = 1 \/ i = 2 \/ i = 3
      OBVIOUS
    <3> QED BY <1>1, <1>3, <3>1
  <2> QED BY <1>1, <1>3, <2>1, <2>2
<1> QED BY <1>5 DEF both, two, one, three

-----------------------------------------------------------------------------
(* The commands of the job scheduler along its diagrams.                    *)

(* An execution submitted is drawn to its refusal, or into the queue.       *)
LEMMA JobSubmitShows ==
  ASSUME "walk" \in DOMAIN state, NEW c, JS!SubmitExecution(c)
  PROVE  Shows(JS!JobDiagrams)
<1> DEFINE g == JS!SubmitClaimDiagram
           new == [state EXCEPT !.exists = TRUE, !.dag = c.dag,
                                !.nodes = [n \in DOMAIN c.dag |-> JS!NewNode]]
           last == IF ~JS!ValidDag(c.dag) THEN <<"discard">>
                   ELSE IF state.exists THEN <<"prior", "keep">> ELSE <<"prior", "init">>
           path == <<"submit", "valid">> \o last
           s == IF JS!ValidDag(c.dag) /\ ~state.exists THEN new ELSE state
<1>1. state' = [s EXCEPT !.walk = <<"submitClaim", path>>]
  BY Zenon DEF JS!SubmitExecution
<1>2. DOMAIN s = DOMAIN state
  <2>1. DOMAIN new = DOMAIN state
    OBVIOUS
  <2> HIDE DEF new
  <2> QED BY <2>1
<1>3. last \in { <<"discard">>, <<"prior", "keep">>, <<"prior", "init">> }
  OBVIOUS
<1>4. /\ "submit" \in Ids(g) /\ Arrow(g, "submit", "valid") /\ Arrow(g, "valid", "discard")
      /\ Arrow(g, "valid", "prior") /\ Arrow(g, "prior", "keep") /\ Arrow(g, "prior", "init")
  BY SubmitClaimArrows
<1>5. g = JS!JobDiagrams["submitClaim"]
  BY DEF JS!JobDiagrams
<1> HIDE DEF g, last, s
<1>6. \E z : Walk(g, path, "submit", z)
  <2>1. /\ Walk(g, <<"submit", "valid">>, "submit", "valid")
        /\ Walk(g, <<"discard">>, "discard", "discard")
        /\ Walk(g, <<"prior", "keep">>, "prior", "keep")
        /\ Walk(g, <<"prior", "init">>, "prior", "init")
    BY <1>4, ShortWalks
  <2> QED BY <1>3, <1>4, <2>1, WalkOn
<1> HIDE DEF path
<1>7. DOMAIN state' = DOMAIN state /\ state'.walk = <<"submitClaim", path>>
  BY <1>1, <1>2
<1> QED BY <1>4, <1>5, <1>6, <1>7, ShownAs

(* A tick of the clock is drawn, leases that end with it or none.           *)
LEMMA JobClockShows ==
  ASSUME "walk" \in DOMAIN state, NEW c, JS!AdvanceClock(c)
  PROVE  Shows(JS!JobDiagrams)
<1> DEFINE g == JS!CompleteDiagram
           advances == state.exists /\ c.clock > state.clock
           last == IF advances THEN <<"write", "status", "reads">> ELSE <<"noop">>
           path == <<"event", "state">> \o last
<1>1. state' = [state EXCEPT !.clock = IF advances THEN c.clock ELSE @,
                             !.walk = <<"complete", path>>]
  BY Zenon DEF JS!AdvanceClock
<1>2. last \in { <<"write", "status", "reads">>, <<"noop">> }
  OBVIOUS
<1>3. /\ "event" \in Ids(g) /\ Arrow(g, "event", "state") /\ Arrow(g, "state", "noop")
      /\ Arrow(g, "state", "write") /\ Arrow(g, "write", "status") /\ Arrow(g, "status", "reads")
  BY CompleteArrows
<1>4. g = JS!JobDiagrams["complete"]
  BY DEF JS!JobDiagrams
<1> HIDE DEF g, last, advances
<1>5. \E z : Walk(g, path, "event", z)
  <2>1. /\ Walk(g, <<"event", "state">>, "event", "state")
        /\ Walk(g, <<"write", "status", "reads">>, "write", "reads")
        /\ Walk(g, <<"noop">>, "noop", "noop")
    BY <1>3, ShortWalks
  <2> QED BY <1>2, <1>3, <2>1, WalkOn
<1> HIDE DEF path
<1>6. DOMAIN state' = DOMAIN state /\ state'.walk = <<"complete", path>>
  BY <1>1
<1> QED BY <1>3, <1>4, <1>5, <1>6, ShownAs

(* A claim is drawn to its grant or its denial, a repeated one to what the  *)
(* first was told.                                                          *)
LEMMA JobClaimShows ==
  ASSUME "walk" \in DOMAIN state, NEW c, JS!Claim(c) \/ JS!ClaimAgain(c)
  PROVE  Shows(JS!JobDiagrams)
<1> DEFINE g == JS!SubmitClaimDiagram
           path(last) == <<"claim", "old", "state", "reason", last, "ready">>
           again == <<"claim", "old", "frozen">>
<1>1. /\ "claim" \in Ids(g) /\ Arrow(g, "claim", "old") /\ Arrow(g, "old", "frozen")
      /\ Arrow(g, "old", "state") /\ Arrow(g, "state", "reason")
      /\ Arrow(g, "reason", "deny") /\ Arrow(g, "reason", "grant")
      /\ Arrow(g, "deny", "ready") /\ Arrow(g, "grant", "ready")
  BY SubmitClaimArrows
<1>2. g = JS!JobDiagrams["submitClaim"]
  BY DEF JS!JobDiagrams
<1> HIDE DEF g
<1>3. /\ Walk(g, path("grant"), "claim", "ready") /\ Walk(g, path("deny"), "claim", "ready")
      /\ Walk(g, again, "claim", "frozen")
  BY <1>1, ShortWalks
<1>4. CASE JS!Claim(c)
  <2> DEFINE checks == JS!ClaimChecks(c.node)
             token == state.nodes[c.node].attempts + 1
             expiry == state.clock + JS!LeaseTime
             node == [state.nodes[c.node] EXCEPT !.attempts = token,
                        !.lease = [worker |-> c.worker, token |-> token, expiry |-> expiry]]
             granted == [state EXCEPT
               !.nodes[c.node] = [@ EXCEPT !.attempts = token,
                 !.lease = [worker |-> c.worker, token |-> token, expiry |-> expiry]]]
  <2>1. PICK s, decision, last :
          /\ state' = [s EXCEPT !.claims = JS!Put(@, c.rid, decision),
                                !.walk = <<"submitClaim", path(last)>>]
          /\ s = state \/ s = granted
          /\ last \in {"grant", "deny"}
    BY <1>4, Zenon DEF JS!Claim
  <2>2. DOMAIN granted = DOMAIN state
    <3> HIDE DEF token, expiry
    <3> QED OBVIOUS
  <2> HIDE DEF granted
  <2>3. DOMAIN s = DOMAIN state
    BY <2>1, <2>2
  <2>4. Walk(g, path(last), "claim", "ready")
    BY <1>3, <2>1
  <2> HIDE DEF path
  <2>5. DOMAIN state' = DOMAIN state /\ state'.walk = <<"submitClaim", path(last)>>
    BY <2>1, <2>3
  <2> QED BY <1>1, <1>2, <2>4, <2>5, ShownAs
<1>5. CASE JS!ClaimAgain(c)
  <2>1. state' = [state EXCEPT !.walk = <<"submitClaim", again>>]
    BY <1>5 DEF JS!ClaimAgain
  <2> HIDE DEF again
  <2>2. DOMAIN state' = DOMAIN state /\ state'.walk = <<"submitClaim", again>>
    BY <2>1
  <2> QED BY <1>1, <1>2, <1>3, <2>2, ShownAs
<1> QED BY <1>4, <1>5

(* A completion is drawn to the check that refuses it, or to the end or the *)
(* retry of its execution.                                                  *)
LEMMA JobCompleteShows ==
  ASSUME "walk" \in DOMAIN state, NEW c, JS!Complete(c)
  PROVE  Shows(JS!JobDiagrams)
<1> DEFINE g == JS!CompleteDiagram
           node == IF c.node \in DOMAIN state.nodes THEN state.nodes[c.node] ELSE JS!NewNode
           p2 == c.node \in DOMAIN state.nodes /\ ~node.success
           p3 == /\ node.lease # JS!NoLease /\ node.lease.worker = c.worker
                 /\ node.lease.token = c.token
           p4 == state.clock < node.lease.expiry
           checks == << <<"exists", state.exists, "none">>, <<"node", p2, "none">>,
                        <<"lease", p3, "none">>, <<"live", p4, "none">> >>
           ok == <<"success", "reads">>
           ko == <<"ignore">>
           path == <<"complete">> \o Visited(checks) \o (IF Refused(checks) = {} THEN ok ELSE ko)
           walk(last) == <<"complete", <<"complete">> \o JS!Nodes(checks) \o last>>
           new == [state EXCEPT
                !.nodes[c.node] = [@ EXCEPT !.success = TRUE, !.lease = JS!NoLease,
                                            !.result = c.result],
                !.walk = walk(ok)]
<1>1. state' = IF JS!Accepted(checks) THEN new ELSE [state EXCEPT !.walk = walk(ko)]
  BY Zenon DEF JS!Complete
<1> HIDE DEF node, p2, p3, p4
<1>2. /\ DOMAIN checks = 1..4 /\ Len(checks) = 4
      /\ checks[1][1] = "exists" /\ checks[2][1] = "node" /\ checks[3][1] = "lease"
      /\ checks[4][1] = "live"
  OBVIOUS
<1>3. /\ "complete" \in Ids(g) /\ Arrow(g, "complete", "exists") /\ Arrow(g, "exists", "node")
      /\ Arrow(g, "node", "lease") /\ Arrow(g, "lease", "live") /\ Arrow(g, "live", "success")
      /\ Arrow(g, "success", "reads")
      /\ Arrow(g, "exists", "ignore") /\ Arrow(g, "node", "ignore")
      /\ Arrow(g, "lease", "ignore") /\ Arrow(g, "live", "ignore")
  BY CompleteArrows
<1>4. g = JS!JobDiagrams["complete"]
  BY DEF JS!JobDiagrams
<1> HIDE DEF g, checks
<1>5. Ways(g, checks, "exists", "success", "ignore")
  <2>1. /\ \A i \in 1..(4 - 1) : i = 1 \/ i = 2 \/ i = 3
        /\ \A i \in 1..4 : i = 1 \/ i = 2 \/ i = 3 \/ i = 4
        /\ 4 \in Nat \ {0}
    OBVIOUS
  <2>2. \A i \in 1..(4 - 1) : Arrow(g, checks[i][1], checks[i + 1][1])
    BY <1>2, <1>3, <2>1
  <2>3. \/ Refused(checks) = {} /\ Walk(g, Visited(checks), checks[1][1], checks[4][1])
        \/ /\ Refused(checks) # {}
           /\ \E k \in 1..4 : ~checks[k][2] /\ Walk(g, Visited(checks), checks[1][1], checks[k][1])
    BY <1>2, <2>1, <2>2, ChecksWalk
  <2> QED BY <1>2, <1>3, <2>1, <2>3 DEF Ways
<1>6. \E z : Walk(g, path, "complete", z)
  <2>1. /\ Walk(g, <<"complete">>, "complete", "complete")
        /\ Walk(g, ok, "success", "reads") /\ Walk(g, ko, "ignore", "ignore")
    BY <1>3, ShortWalks
  <2> HIDE DEF ok, ko
  <2> QED BY <1>3, <1>5, <2>1, WayOn
<1>7. walk(IF Refused(checks) = {} THEN ok ELSE ko) = <<"complete", path>>
  <2>1. JS!Nodes(checks) = Visited(checks)
    BY ChecksAreVisited
  <2> HIDE DEF ok, ko
  <2> QED BY <2>1, Zenon
<1>8. DOMAIN state' = DOMAIN state /\ state'.walk = <<"complete", path>>
  <2> HIDE DEF walk, path, ok, ko
  <2>1. CASE Refused(checks) = {}
    <3>1. JS!Accepted(checks)
      BY <2>1, AcceptedUnlessRefused
    <3>2. state' = new
      BY <1>1, <3>1
    <3> DEFINE done == [state.nodes[c.node] EXCEPT !.success = TRUE, !.lease = JS!NoLease,
                                                   !.result = c.result]
    <3>3. DOMAIN state' = DOMAIN state /\ state'.walk = walk(ok)
      BY <3>2
    <3> QED BY <1>7, <2>1, <3>3
  <2>2. CASE Refused(checks) # {}
    <3>1. ~JS!Accepted(checks)
      BY <2>2, AcceptedUnlessRefused
    <3>2. state' = [state EXCEPT !.walk = walk(ko)]
      BY <1>1, <3>1
    <3>3. DOMAIN state' = DOMAIN state /\ state'.walk = walk(ko)
      BY <3>2
    <3> QED BY <1>7, <2>2, <3>3
  <2> QED BY <2>1, <2>2
<1> HIDE DEF path
<1> QED BY <1>3, <1>4, <1>6, <1>8, ShownAs

(* So everything the scheduler does is drawn.                               *)
LEMMA JobsShow ==
  "walk" \in DOMAIN state /\ JS!JobStep => Shows(JS!JobDiagrams)
BY JobSubmitShows, JobClockShows, JobClaimShows, JobCompleteShows DEF JS!JobStep

-----------------------------------------------------------------------------
(* The ticketing system.                                                   *)

(* The least of a set, found.                                               *)
LEMMA MinIs ==
  ASSUME NEW S \in SUBSET Int, NEW m \in S, \A y \in S : m <= y
  PROVE  TS!Min(S) = m
<1> DEFINE least == CHOOSE x \in S : \A y \in S : x <= y
<1>1. least \in S /\ \A y \in S : least <= y
  OBVIOUS
<1> HIDE DEF least
<1>2. least = m
  BY <1>1
<1> QED BY <1>2 DEF TS!Min, least

(* The cardinalities PaymentsSettled asks of.                               *)
LEMMA CardSmall == TS!Cardinality({}) = 0 /\ \A x : TS!Cardinality({x}) = 1
<1>1. \A S : TS!Cardinality(S) = Cardinality(S)
  BY DEF TS!Cardinality, Cardinality
<1> QED BY <1>1, FS_EmptySet, FS_Singleton

(* Four checks accept when all pass; otherwise the first that fails is why not. *)
LEMMA FourChecks ==
  ASSUME NEW a1, NEW b1, NEW a2, NEW b2, NEW a3, NEW b3, NEW a4, NEW b4,
         NEW p1 \in BOOLEAN, NEW p2 \in BOOLEAN, NEW p3 \in BOOLEAN, NEW p4 \in BOOLEAN,
         NEW checks,
         checks = << <<a1, p1, b1>>, <<a2, p2, b2>>, <<a3, p3, b3>>, <<a4, p4, b4>> >>
  PROVE  /\ TS!Accepted(checks) <=> p1 /\ p2 /\ p3 /\ p4
         /\ ~p1 => TS!Reason(checks) = b1
         /\ p1 /\ ~p2 => TS!Reason(checks) = b2
         /\ p1 /\ p2 /\ ~p3 => TS!Reason(checks) = b3
         /\ p1 /\ p2 /\ p3 /\ ~p4 => TS!Reason(checks) = b4
<1> DEFINE failed == {i \in 1..4 : ~checks[i][2]}
<1>1. /\ checks[1][2] = p1 /\ checks[2][2] = p2 /\ checks[3][2] = p3 /\ checks[4][2] = p4
      /\ checks[1][3] = b1 /\ checks[2][3] = b2 /\ checks[3][3] = b3 /\ checks[4][3] = b4
  OBVIOUS
<1>2. TS!Failed(checks) = failed
  BY DEF TS!Failed
<1>3. TS!Accepted(checks) <=> p1 /\ p2 /\ p3 /\ p4
  BY <1>1, <1>2 DEF TS!Accepted
<1>4. ASSUME NEW m \in 1..4, ~checks[m][2], \A y \in 1..4 : y < m => checks[y][2]
      PROVE  TS!Reason(checks) = checks[m][3]
  <2>1. m \in failed /\ \A y \in failed : m <= y
    BY <1>4
  <2>2. failed \in SUBSET Int
    OBVIOUS
  <2> HIDE DEF failed
  <2>3. TS!Min(failed) = m
    BY <2>1, <2>2, MinIs
  <2> QED BY <1>2, <2>3 DEF TS!Reason
<1>5. ~p1 => TS!Reason(checks) = b1
  BY <1>1, <1>4
<1>6. p1 /\ ~p2 => TS!Reason(checks) = b2
  <2>1. \A y \in 1..4 : y < 2 => y = 1
    OBVIOUS
  <2> QED BY <1>1, <1>4, <2>1
<1>7. p1 /\ p2 /\ ~p3 => TS!Reason(checks) = b3
  <2>1. \A y \in 1..4 : y < 3 => y \in {1, 2}
    OBVIOUS
  <2> QED BY <1>1, <1>4, <2>1
<1>8. p1 /\ p2 /\ p3 /\ ~p4 => TS!Reason(checks) = b4
  <2>1. \A y \in 1..4 : y < 4 => y \in {1, 2, 3}
    OBVIOUS
  <2> QED BY <1>1, <1>4, <2>1
<1> QED BY <1>3, <1>5, <1>6, <1>7, <1>8

(* What clients send.                                                       *)
TicketCommands == ModuleCommands["ticketing-system"]
(* What is written down of a payment to give back.                          *)
Compensations ==
  [rid : {c.rid : c \in TicketCommands},
   payment : {c.payment : c \in {c \in TicketCommands : c.type = "confirm"}},
   reason : {"hold-expired", "hold-released", "hold-confirmed"}]

(* What the module keeps.                                                   *)
TicketFields ==
  /\ DOMAIN state = {"requests", "walk", "clock", "seats", "holds", "compensations"}
  /\ state.clock \in Int
  /\ state.compensations \in Seq(Compensations)

(* A request is kept under its id, and holds and compensations have their   *)
(* requests'.                                                               *)
TicketRequests ==
  /\ \A id \in DOMAIN state.requests :
       /\ DOMAIN state.requests[id] = {"cmd", "outcome", "conflicts"}
       /\ state.requests[id].cmd.rid = id
  /\ DOMAIN state.holds \subseteq DOMAIN state.requests
  /\ \A i \in DOMAIN state.compensations : state.compensations[i].rid \in DOMAIN state.requests

(* A hold is of seats of the event.                                         *)
Holds ==
  \A h \in DOMAIN state.holds :
    /\ h # "none"
    /\ DOMAIN state.holds[h] = {"user", "seats", "status", "deadline", "payment"}
    /\ state.holds[h].seats \subseteq DOMAIN state.seats
    /\ state.holds[h].status \in {"held", "confirmed", "released"}
    /\ state.holds[h].deadline \in Int

(* The seats of a hold that still keeps them carry its name and deadline.  *)
Marked ==
  \A h \in DOMAIN state.holds : TS!Keeps(h) =>
    \A s \in state.holds[h].seats :
      /\ state.seats[s].hold = h
      /\ state.seats[s].deadline = state.holds[h].deadline
      /\ state.seats[s].confirmed \in BOOLEAN
      /\ state.seats[s].confirmed <=> state.holds[h].status = "confirmed"

(* The compensations of one request.                                        *)
CompensationsOf(id) == {i \in DOMAIN state.compensations : state.compensations[i].rid = id}

(* How a decided confirmation stands to its hold from then on.             *)
Settled(id) ==
  LET r == state.requests[id]
      h == state.holds[r.cmd.hold] IN
  /\ r.cmd.hold \in DOMAIN state.holds
  /\ r.outcome \in {"accepted", "hold-expired", "hold-released", "hold-confirmed"}
  /\ r.outcome \in {"accepted", "hold-confirmed"} => h.status = "confirmed"
  /\ r.outcome = "hold-released" => h.status = "released"
  /\ r.outcome = "hold-expired" =>
       /\ h.status # "confirmed"
       /\ h.status = "held" => state.clock >= h.deadline
  /\ \/ h.status = "confirmed" /\ h.payment = r.cmd.payment /\ CompensationsOf(id) = {}
     \/ /\ ~(h.status = "confirmed" /\ h.payment = r.cmd.payment)
        /\ \E i \in CompensationsOf(id) : CompensationsOf(id) = {i}

(* Every confirmation by the holder is settled.                             *)
Confirmations ==
  \A id \in DOMAIN state.requests :
    /\ state.requests[id].cmd.type = "confirm"
    /\ state.requests[id].outcome \notin {"no-such-event", "no-such-hold", "not-owner"}
    => Settled(id)

(* The inductive invariant of the ticketing system.                         *)
TicketInv ==
  TicketFields /\ TicketRequests /\ Holds /\ Marked /\ Confirmations

(* It holds before the event is created.                                    *)
LEMMA TicketingStarts == TS!TicketingInit => TicketInv
<1> SUFFICES ASSUME TS!TicketingInit PROVE TicketInv
  OBVIOUS
<1>1. TicketFields
  BY DEF TS!TicketingInit, TicketFields, TS!NoEvent
<1>2. TicketRequests
  BY DEF TS!TicketingInit, TicketRequests
<1>3. Holds /\ Marked /\ Confirmations
  BY DEF TS!TicketingInit, Holds, Marked, Confirmations
<1> QED BY <1>1, <1>2, <1>3 DEF TicketInv

(* What Record does when s differs from the state in what it decides only. *)
LEMMA TicketRecord ==
  ASSUME TicketInv, NEW c \in TicketCommands, ~TS!Known(c), NEW s, NEW walk, NEW outcome,
         DOMAIN s = DOMAIN state, s.requests = state.requests,
         TS!Record(c, s, walk, outcome)
  PROVE  /\ DOMAIN state' = DOMAIN state
         /\ state'.clock = s.clock
         /\ state'.seats = s.seats
         /\ state'.holds = s.holds
         /\ state'.compensations = s.compensations
         /\ DOMAIN state'.requests = DOMAIN state.requests \cup {c.rid}
         /\ c.rid \notin DOMAIN state.requests
         /\ \A id \in DOMAIN state.requests : state'.requests[id] = state.requests[id]
         /\ DOMAIN state'.requests[c.rid] = {"cmd", "outcome", "conflicts"}
         /\ state'.requests[c.rid].cmd = c
         /\ state'.requests[c.rid].outcome = outcome
<1>1. /\ DOMAIN state' = DOMAIN state
      /\ state'.clock = s.clock
      /\ state'.seats = s.seats
      /\ state'.holds = s.holds
      /\ state'.compensations = s.compensations
      /\ state'.requests = TS!Put(state.requests, c.rid,
                                  [cmd |-> c, outcome |-> outcome, conflicts |-> 0])
  BY DEF TicketInv, TicketFields, TS!Record
<1>2. c.rid \notin DOMAIN state.requests
  BY DEF TS!Known
<1>3. /\ DOMAIN state'.requests = DOMAIN state.requests \cup {c.rid}
      /\ \A id \in DOMAIN state.requests : state'.requests[id] = state.requests[id]
      /\ state'.requests[c.rid] = [cmd |-> c, outcome |-> outcome, conflicts |-> 0]
  BY SMTT(30), <1>1, <1>2 DEF TS!Put
<1> QED BY <1>1, <1>2, <1>3

(* Holds only go on: confirmed and released ones stay what they are, one   *)
(* that expired is never confirmed.                                        *)
HoldsGoOn ==
  \A h \in DOMAIN state.holds :
    /\ h \in DOMAIN state'.holds
    /\ state.holds[h].status = "confirmed" => state'.holds[h].status = "confirmed"
                                 /\ state'.holds[h].payment = state.holds[h].payment
    /\ state.holds[h].status = "released" => state'.holds[h].status = "released"
    /\ state.holds[h].status = "held" /\ state.clock >= state.holds[h].deadline =>
         /\ state'.holds[h].status # "confirmed"
         /\ state'.holds[h].status = "held" => state'.clock >= state'.holds[h].deadline

(* Settled confirmations stay so while holds go on as they may.             *)
LEMMA OldConfirmations ==
  ASSUME TicketInv, HoldsGoOn, NEW id \in DOMAIN state.requests, Settled(id),
         state'.requests[id].cmd = state.requests[id].cmd,
         state'.requests[id].outcome = state.requests[id].outcome,
         CompensationsOf(id)' = CompensationsOf(id)
  PROVE  Settled(id)'
<1> DEFINE hold == state.requests[id].cmd.hold
           outcome == state.requests[id].outcome
<1>1. /\ hold \in DOMAIN state.holds
      /\ outcome \in {"accepted", "hold-expired", "hold-released", "hold-confirmed"}
      /\ outcome \in {"accepted", "hold-confirmed"} => state.holds[hold].status = "confirmed"
      /\ outcome = "hold-released" => state.holds[hold].status = "released"
      /\ outcome = "hold-expired" => state.holds[hold].status # "confirmed"
      /\ outcome = "hold-expired" /\ state.holds[hold].status = "held" =>
           state.clock >= state.holds[hold].deadline
  BY SMTT(30) DEF Settled
<1>2. state.holds[hold].status \in {"held", "confirmed", "released"}
  BY SMTT(30), <1>1 DEF TicketInv, Holds
<1>3. /\ hold \in DOMAIN state'.holds
      /\ outcome \in {"accepted", "hold-confirmed"} =>
           /\ state'.holds[hold].status = "confirmed"
           /\ state'.holds[hold].payment = state.holds[hold].payment
      /\ outcome = "hold-released" => state'.holds[hold].status = "released"
      /\ outcome = "hold-expired" =>
           /\ state'.holds[hold].status # "confirmed"
           /\ state'.holds[hold].status = "held" => state'.clock >= state'.holds[hold].deadline
  BY <1>1, <1>2 DEF HoldsGoOn
<1> QED BY ZenonT(40), <1>1, <1>3 DEF Settled

(* A decision that compensates nobody keeps the invariant when its holds   *)
(* and seats do and it is settled itself.                                  *)
LEMMA TicketDecided ==
  ASSUME TicketInv, NEW c \in TicketCommands, ~TS!Known(c), NEW s, NEW walk, NEW outcome,
         DOMAIN s = DOMAIN state, s.requests = state.requests,
         TS!Record(c, s, walk, outcome),
         s.clock \in Int, s.compensations = state.compensations,
         DOMAIN s.holds \subseteq DOMAIN state.holds \cup {c.rid},
         HoldsGoOn, Holds', Marked',
         \/ c.type # "confirm"
         \/ outcome \in {"no-such-event", "no-such-hold", "not-owner"}
         \/ CompensationsOf(c.rid)' = {} => Settled(c.rid)'
  PROVE  TicketInv'
<1>1. /\ DOMAIN state' = DOMAIN state
      /\ state'.clock = s.clock
      /\ state'.seats = s.seats
      /\ state'.holds = s.holds
      /\ state'.compensations = s.compensations
      /\ DOMAIN state'.requests = DOMAIN state.requests \cup {c.rid}
      /\ c.rid \notin DOMAIN state.requests
      /\ \A id \in DOMAIN state.requests : state'.requests[id] = state.requests[id]
      /\ DOMAIN state'.requests[c.rid] = {"cmd", "outcome", "conflicts"}
      /\ state'.requests[c.rid].cmd = c
      /\ state'.requests[c.rid].outcome = outcome
  BY TicketRecord
<1>2. TicketFields'
  BY <1>1 DEF TicketInv, TicketFields
<1>3. TicketRequests'
  BY <1>1 DEF TicketInv, TicketRequests
<1>4. \A id : CompensationsOf(id)' = CompensationsOf(id)
  BY <1>1 DEF CompensationsOf
<1>5. CompensationsOf(c.rid) = {}
  BY <1>1 DEF TicketInv, TicketRequests, CompensationsOf
<1>6. ASSUME NEW id \in DOMAIN state'.requests,
             state'.requests[id].cmd.type = "confirm",
             state'.requests[id].outcome \notin {"no-such-event", "no-such-hold", "not-owner"}
      PROVE  Settled(id)'
  <2>1. CASE id = c.rid
    BY <1>1, <1>4, <1>5, <1>6, <2>1
  <2>2. CASE id # c.rid
    <3>1. id \in DOMAIN state.requests /\ state'.requests[id] = state.requests[id]
      BY <1>1, <2>2
    <3>2. Settled(id)
      BY <1>6, <3>1 DEF TicketInv, Confirmations
    <3> QED BY <1>4, <3>1, <3>2, OldConfirmations
  <2> QED BY <2>1, <2>2
<1>7. Confirmations'
  BY <1>6 DEF Confirmations
<1> QED BY <1>2, <1>3, <1>7 DEF TicketInv

(* Nothing but the requests.                                               *)
LEMMA TicketRefused ==
  ASSUME TicketInv, NEW c \in TicketCommands, ~TS!Known(c), NEW walk, NEW outcome,
         TS!Record(c, state, walk, outcome),
         c.type # "confirm" \/ outcome \in {"no-such-event", "no-such-hold", "not-owner"}
           \/ (CompensationsOf(c.rid)' = {} => Settled(c.rid)')
  PROVE  TicketInv'
<1>1. /\ state'.clock = state.clock
      /\ state'.seats = state.seats
      /\ state'.holds = state.holds
  BY TicketRecord
<1>2. HoldsGoOn
  BY <1>1 DEF HoldsGoOn
<1>3. Holds' /\ Marked'
  BY <1>1 DEF TicketInv, Holds, Marked, TS!Keeps
<1>4. state.clock \in Int
  BY DEF TicketInv, TicketFields
<1> QED BY <1>2, <1>3, <1>4, TicketDecided

(* One check accepts when it passes.                                        *)
LEMMA OneCheck ==
  ASSUME NEW a1, NEW b1, NEW p1 \in BOOLEAN, TS!Accepted(<< <<a1, p1, b1>> >>)
  PROVE  p1
BY DEF TS!Accepted, TS!Failed

(* The event is created before there is any hold.                           *)
LEMMA TicketCreate ==
  ASSUME TicketInv, NEW c \in TicketCommands, TS!CreateEvent(c)
  PROVE  TicketInv'
<1> DEFINE fresh == state.clock = TS!NoEvent
           checks == << <<"exists", fresh, "event-exists">> >>
           created == [state EXCEPT !.clock = 0]
<1>1. CASE TS!Accepted(checks)
  <2>1. fresh
    <3>1. fresh \in BOOLEAN
      OBVIOUS
    <3> HIDE DEF fresh
    <3> QED BY <1>1, <3>1, OneCheck
  <2>2. /\ TS!Record(c, created, TS!Dispatched(checks, "create"), "accepted")
        /\ ~TS!Known(c) /\ c.type = "create"
    BY <1>1 DEF TS!CreateEvent
  <2>3. /\ DOMAIN created = DOMAIN state
        /\ created.requests = state.requests
        /\ created.clock = 0
        /\ created.seats = state.seats
        /\ created.holds = state.holds
        /\ created.compensations = state.compensations
    BY DEF TicketInv, TicketFields
  <2> HIDE DEF created
  <2>4. /\ state'.clock = 0
        /\ state'.seats = state.seats
        /\ state'.holds = state.holds
    BY <2>2, <2>3, TicketRecord
  <2>5. HoldsGoOn
    BY <2>1, <2>4 DEF TicketInv, Holds, HoldsGoOn, TS!NoEvent
  <2>6. Holds' /\ Marked'
    BY <2>1, <2>4 DEF TicketInv, Holds, Marked, TS!Keeps, TS!NoEvent
  <2> QED BY <2>2, <2>3, <2>5, <2>6, TicketDecided
<1>2. CASE ~TS!Accepted(checks)
  BY <1>2, TicketRefused DEF TS!CreateEvent
<1> QED BY <1>1, <1>2

(* New seats are free, and the others stay as they are.                     *)
LEMMA TicketAdd ==
  ASSUME TicketInv, NEW c \in TicketCommands, TS!AddSeats(c)
  PROVE  TicketInv'
<1> DEFINE event == state.clock # TS!NoEvent
           fresh == event /\ c.seats \cap DOMAIN state.seats = {}
           checks == << <<"seats", fresh, IF event THEN "seat-exists" ELSE "no-such-event">> >>
           seats == [s \in c.seats \cup DOMAIN state.seats |->
                       IF s \in c.seats THEN TS!FreeSeat ELSE state.seats[s]]
           added == [state EXCEPT !.seats = seats]
<1>1. CASE TS!Accepted(checks)
  <2>1. fresh
    <3>1. fresh \in BOOLEAN
      OBVIOUS
    <3> HIDE DEF fresh
    <3> QED BY <1>1, <3>1, OneCheck
  <2>2. /\ TS!Record(c, added, TS!Dispatched(checks, "add"), "accepted")
        /\ ~TS!Known(c) /\ c.type = "add"
    BY <1>1 DEF TS!AddSeats
  <2>3. /\ DOMAIN added = DOMAIN state
        /\ added.requests = state.requests
        /\ added.clock = state.clock
        /\ added.seats = seats
        /\ added.holds = state.holds
        /\ added.compensations = state.compensations
    BY DEF TicketInv, TicketFields
  <2>4. /\ DOMAIN state.seats \subseteq DOMAIN seats
        /\ \A s \in DOMAIN state.seats : seats[s] = state.seats[s]
    BY <2>1
  <2> HIDE DEF added, seats
  <2>5. /\ state'.clock = state.clock
        /\ state'.seats = seats
        /\ state'.holds = state.holds
    BY <2>2, <2>3, TicketRecord
  <2>6. HoldsGoOn
    BY <2>5 DEF HoldsGoOn
  <2>7. Holds'
    BY <2>4, <2>5 DEF TicketInv, Holds
  <2>8. Marked'
    BY <2>4, <2>5 DEF TicketInv, Holds, Marked, TS!Keeps
  <2>9. state.clock \in Int
    BY DEF TicketInv, TicketFields
  <2> QED BY <2>2, <2>3, <2>6, <2>7, <2>8, <2>9, TicketDecided
<1>2. CASE ~TS!Accepted(checks)
  BY <1>2, TicketRefused DEF TS!AddSeats
<1> QED BY <1>1, <1>2

(* A later clock lets holds run out and brings none back.                   *)
LEMMA TicketClock ==
  ASSUME TicketInv, NEW c \in TicketCommands, TS!AdvanceClock(c)
  PROVE  TicketInv'
<1> DEFINE event == state.clock # TS!NoEvent
           later == event /\ c.now >= state.clock
           checks == << <<"time", later,
                          IF event THEN "clock-regression" ELSE "no-such-event">> >>
           advanced == [state EXCEPT !.clock = c.now]
<1>1. CASE TS!Accepted(checks)
  <2>1. later
    <3>1. later \in BOOLEAN
      OBVIOUS
    <3> HIDE DEF later
    <3> QED BY <1>1, <3>1, OneCheck
  <2>2. /\ TS!Record(c, advanced, TS!Dispatched(checks, "advance"), "accepted")
        /\ ~TS!Known(c) /\ c.type = "clock"
    BY <1>1 DEF TS!AdvanceClock
  <2>3. /\ DOMAIN advanced = DOMAIN state
        /\ advanced.requests = state.requests
        /\ advanced.clock = c.now
        /\ advanced.seats = state.seats
        /\ advanced.holds = state.holds
        /\ advanced.compensations = state.compensations
    BY DEF TicketInv, TicketFields
  <2> HIDE DEF advanced
  <2>4. /\ state'.clock = c.now
        /\ state'.seats = state.seats
        /\ state'.holds = state.holds
    BY <2>2, <2>3, TicketRecord
  <2>5. c.now \in Int /\ state.clock \in Int /\ c.now >= state.clock
    BY <2>1, <2>2, TicketsAssumption DEF TicketCommands, TicketInv, TicketFields
  <2>6. HoldsGoOn
    BY <2>4, <2>5 DEF TicketInv, Holds, HoldsGoOn
  <2>7. Holds' /\ Marked'
    BY <2>4, <2>5 DEF TicketInv, Holds, Marked, TS!Keeps
  <2> QED BY <2>2, <2>3, <2>5, <2>6, <2>7, TicketDecided
<1>2. CASE ~TS!Accepted(checks)
  BY <1>2, TicketRefused DEF TS!AdvanceClock
<1> QED BY <1>1, <1>2

(* The seats a hold gets are kept by no other: nobody's, or of one run out. *)
LEMMA TicketHold ==
  ASSUME TicketInv, NEW c \in TicketCommands, TS!HoldSeats(c)
  PROVE  TicketInv'
<1> DEFINE event == state.clock # TS!NoEvent
           known == c.seats \subseteq DOMAIN state.seats
           ahead == c.deadline > state.clock
           free == known /\ \A s \in c.seats : TS!Available(state.seats[s])
           checks == << <<"clock", event, "no-such-event">>,
                        <<"seats", known, "no-such-seat">>,
                        <<"deadline", ahead, "deadline-passed">>,
                        <<"available", free, "seat-unavailable">> >>
           seat == [hold |-> c.rid, deadline |-> c.deadline, confirmed |-> FALSE]
           hold == [user |-> c.user, seats |-> c.seats, status |-> "held",
                    deadline |-> c.deadline, payment |-> "none"]
           held == [state EXCEPT !.seats = TS!SetSeats(c.seats, seat),
                                 !.holds = TS!Put(@, c.rid, hold)]
           accepted == <<"hold", <<"event">> \o TS!Nodes(checks) \o <<"hold", "writes", "done">> >>
           refused == <<"hold", <<"event">> \o TS!Nodes(checks) \o <<"reject">> >>
<1>1. /\ c.type = "hold" /\ ~TS!Known(c)
      /\ IF TS!Accepted(checks) THEN TS!Record(c, held, accepted, "accepted")
         ELSE TS!Record(c, state, refused, TS!Reason(checks))
  BY DEF TS!HoldSeats
<1>2. TS!Accepted(checks) => known /\ ahead /\ free
  <2>1. event \in BOOLEAN /\ known \in BOOLEAN /\ ahead \in BOOLEAN /\ free \in BOOLEAN
    OBVIOUS
  <2> HIDE DEF event, known, ahead, free
  <2> QED BY <2>1, FourChecks
<1> HIDE DEF checks, accepted, refused
<1>3. CASE TS!Accepted(checks)
  <2>1. known /\ ahead /\ \A s \in c.seats : TS!Available(state.seats[s])
    BY <1>2, <1>3
  <2>2. /\ DOMAIN held = DOMAIN state
        /\ held.requests = state.requests
        /\ held.clock = state.clock
        /\ held.seats = TS!SetSeats(c.seats, seat)
        /\ held.holds = TS!Put(state.holds, c.rid, hold)
        /\ held.compensations = state.compensations
    BY DEF TicketInv, TicketFields
  <2> HIDE DEF held
  <2>3. /\ state'.clock = state.clock
        /\ state'.seats = TS!SetSeats(c.seats, seat)
        /\ state'.holds = TS!Put(state.holds, c.rid, hold)
    BY <1>1, <1>3, <2>2, TicketRecord
  <2>4. c.rid \notin DOMAIN state.holds /\ c.rid # "none" /\ c.deadline \in Int
    BY <1>1, TicketsAssumption DEF TicketInv, TicketRequests, TS!Known, TicketCommands
  <2>5. /\ DOMAIN state'.holds = DOMAIN state.holds \cup {c.rid}
        /\ \A h \in DOMAIN state.holds : state'.holds[h] = state.holds[h]
        /\ state'.holds[c.rid] = hold
    BY <2>3, <2>4 DEF TS!Put
  <2>6. /\ DOMAIN state'.seats = DOMAIN state.seats
        /\ \A s \in DOMAIN state.seats :
             state'.seats[s] = IF s \in c.seats THEN seat ELSE state.seats[s]
    BY <2>3 DEF TS!SetSeats
  <2>7. DOMAIN hold = {"user", "seats", "status", "deadline", "payment"}
    OBVIOUS
  <2>8. /\ hold.seats = c.seats /\ hold.status = "held" /\ hold.deadline = c.deadline
        /\ seat.hold = c.rid /\ seat.deadline = c.deadline
        /\ seat.confirmed \in BOOLEAN /\ ~seat.confirmed
    OBVIOUS
  <2> HIDE DEF hold, seat
  <2>9. HoldsGoOn
    BY <2>3, <2>5 DEF HoldsGoOn
  <2>10. Holds'
    BY <2>1, <2>4, <2>5, <2>6, <2>7, <2>8 DEF TicketInv, Holds
  <2>11. \A h \in DOMAIN state.holds : TS!Keeps(h)' => TS!Keeps(h)
    BY <2>3, <2>5 DEF TS!Keeps
  <2>12. \A h \in DOMAIN state.holds : TS!Keeps(h) => state.holds[h].seats \cap c.seats = {}
    <3>1. SUFFICES ASSUME NEW h \in DOMAIN state.holds, TS!Keeps(h),
                          NEW s \in state.holds[h].seats, s \in c.seats
                   PROVE  FALSE
      OBVIOUS
    <3>2. /\ state.seats[s].hold = h /\ h # "none"
          /\ state.seats[s].deadline = state.holds[h].deadline
          /\ state.seats[s].confirmed <=> state.holds[h].status = "confirmed"
      BY <3>1 DEF TicketInv, Holds, Marked
    <3>3. ~state.seats[s].confirmed /\ state.clock >= state.seats[s].deadline
      BY <2>1, <3>1, <3>2 DEF TS!Available
    <3> QED BY <3>1, <3>2, <3>3 DEF TS!Keeps, TicketInv, TicketFields, Holds
  <2>13. Marked'
    <3>1. SUFFICES ASSUME NEW h \in DOMAIN state'.holds, TS!Keeps(h)',
                          NEW s \in state'.holds[h].seats
                   PROVE  /\ state'.seats[s].hold = h
                          /\ state'.seats[s].deadline = state'.holds[h].deadline
                          /\ state'.seats[s].confirmed \in BOOLEAN
                          /\ state'.seats[s].confirmed <=> state'.holds[h].status = "confirmed"
      BY DEF Marked
    <3>2. CASE h = c.rid
      BY <2>1, <2>5, <2>6, <2>8, <3>1, <3>2
    <3>3. CASE h # c.rid
      <4>1. /\ h \in DOMAIN state.holds /\ TS!Keeps(h) /\ state'.holds[h] = state.holds[h]
            /\ s \in state.holds[h].seats /\ s \in DOMAIN state.seats
        BY <2>5, <2>11, <3>1, <3>3 DEF TicketInv, Holds
      <4>2. state'.seats[s] = state.seats[s]
        BY <2>6, <2>12, <4>1
      <4> QED BY <4>1, <4>2 DEF TicketInv, Marked
    <3> QED BY <3>2, <3>3
  <2>14. state.clock \in Int
    BY DEF TicketInv, TicketFields
  <2>15. DOMAIN held.holds = DOMAIN state.holds \cup {c.rid}
    BY <2>2 DEF TS!Put
  <2> QED BY <1>1, <1>3, <2>2, <2>9, <2>10, <2>13, <2>14, <2>15, TicketDecided
<1>4. CASE ~TS!Accepted(checks)
  BY <1>1, <1>4, TicketRefused
<1> QED BY <1>3, <1>4

(* Why a confirmation or a release is refused.                             *)
LEMMA HoldChecked ==
  ASSUME TicketInv, NEW c, NEW h, h = TS!HoldOf(c)
  PROVE  /\ TS!Accepted(TS!HoldChecks(c)) =>
              /\ c.hold \in DOMAIN state.holds /\ h = state.holds[c.hold]
              /\ h.status = "held" /\ state.clock < h.deadline
         /\ ~TS!Accepted(TS!HoldChecks(c)) =>
              \/ TS!Reason(TS!HoldChecks(c)) \in {"no-such-event", "no-such-hold", "not-owner"}
              \/ /\ c.hold \in DOMAIN state.holds /\ h = state.holds[c.hold]
                 /\ \/ /\ TS!Reason(TS!HoldChecks(c)) = "hold-confirmed"
                       /\ h.status = "confirmed"
                    \/ /\ TS!Reason(TS!HoldChecks(c)) = "hold-released"
                       /\ h.status = "released"
                    \/ /\ TS!Reason(TS!HoldChecks(c)) = "hold-expired"
                       /\ h.status = "held" /\ state.clock >= h.deadline
<1> DEFINE there == h # TS!NoHold
           mine == c.user = h.user
           open == h.status = "held"
           intime == state.clock < h.deadline
           missing == IF state.clock = TS!NoEvent THEN "no-such-event" ELSE "no-such-hold"
           over == IF h.status = "confirmed" THEN "hold-confirmed" ELSE "hold-released"
           checks == << <<"hold", there, missing>>, <<"owner", mine, "not-owner">>,
                        <<"terminal", open, over>>, <<"expired", intime, "hold-expired">> >>
<1>1. TS!HoldChecks(c) = checks
  BY DEF TS!HoldChecks
<1>2. there => c.hold \in DOMAIN state.holds /\ h = state.holds[c.hold]
  BY DEF TS!HoldOf
<1>3. c.hold \in DOMAIN state.holds /\ h = state.holds[c.hold] =>
        /\ h.status \in {"held", "confirmed", "released"}
        /\ h.deadline \in Int /\ state.clock \in Int
  BY DEF TicketInv, TicketFields, Holds
<1>4. there \in BOOLEAN /\ mine \in BOOLEAN /\ open \in BOOLEAN /\ intime \in BOOLEAN
  OBVIOUS
<1>5. /\ open <=> h.status = "held"
      /\ intime <=> state.clock < h.deadline
      /\ missing \in {"no-such-event", "no-such-hold"}
      /\ over = IF h.status = "confirmed" THEN "hold-confirmed" ELSE "hold-released"
  OBVIOUS
<1> HIDE DEF there, mine, open, intime, missing, over
<1>6. /\ TS!Accepted(checks) <=> there /\ mine /\ open /\ intime
      /\ ~there => TS!Reason(checks) = missing
      /\ there /\ ~mine => TS!Reason(checks) = "not-owner"
      /\ there /\ mine /\ ~open => TS!Reason(checks) = over
      /\ there /\ mine /\ open /\ ~intime => TS!Reason(checks) = "hold-expired"
  BY <1>4, FourChecks
<1> HIDE DEF checks
<1>7. TS!Accepted(checks) => c.hold \in DOMAIN state.holds /\ h = state.holds[c.hold]
                               /\ h.status = "held" /\ state.clock < h.deadline
  BY <1>2, <1>5, <1>6
<1>8. ASSUME ~TS!Accepted(checks)
      PROVE  \/ TS!Reason(checks) \in {"no-such-event", "no-such-hold", "not-owner"}
             \/ /\ c.hold \in DOMAIN state.holds /\ h = state.holds[c.hold]
                /\ \/ TS!Reason(checks) = "hold-confirmed" /\ h.status = "confirmed"
                   \/ TS!Reason(checks) = "hold-released" /\ h.status = "released"
                   \/ /\ TS!Reason(checks) = "hold-expired"
                      /\ h.status = "held" /\ state.clock >= h.deadline
  <2>1. CASE ~there \/ ~mine
    BY <1>5, <1>6, <2>1
  <2>2. CASE there /\ mine /\ ~open
    BY <1>2, <1>3, <1>5, <1>6, <2>2
  <2>3. CASE there /\ mine /\ open /\ ~intime
    BY <1>2, <1>3, <1>5, <1>6, <2>3
  <2> QED BY <1>6, <1>8, <2>1, <2>2, <2>3
<1> QED BY <1>1, <1>7, <1>8

(* The seats of a hold in time carry its name: no other one keeps them.    *)
LEMMA KeptApart ==
  ASSUME Holds, Marked, NEW h \in DOMAIN state.holds, NEW other \in DOMAIN state.holds,
         h # other, TS!Keeps(h), TS!Keeps(other)
  PROVE  state.holds[h].seats \cap state.holds[other].seats = {}
BY DEF Marked

(* The hold is in time and goes on to its end: its seats with it.          *)
LEMMA TicketTransition ==
  ASSUME TicketInv, NEW c \in TicketCommands, NEW h, NEW seat, NEW settled, ~TS!Known(c), NEW walk,
         c.type \in {"confirm", "release"},
         c.hold \in DOMAIN state.holds, state.holds[c.hold].status = "held",
         state.clock < state.holds[c.hold].deadline,
         DOMAIN h = DOMAIN state.holds[c.hold],
         h.seats = state.holds[c.hold].seats,
         h.deadline = state.holds[c.hold].deadline,
         c.type = "confirm" =>
           /\ h.status = "confirmed" /\ h.payment = c.payment
           /\ seat.hold = c.hold /\ seat.deadline = h.deadline
           /\ seat.confirmed \in BOOLEAN /\ seat.confirmed,
         c.type = "release" => h.status = "released",
         DOMAIN settled = DOMAIN state,
         settled.requests = state.requests,
         settled.clock = state.clock,
         settled.seats = TS!SetSeats(state.holds[c.hold].seats, seat),
         settled.holds = [state.holds EXCEPT ![c.hold] = h],
         settled.compensations = state.compensations,
         TS!Record(c, settled, walk, "accepted")
  PROVE  TicketInv'
<1>2. /\ state'.clock = state.clock
      /\ state'.seats = TS!SetSeats(state.holds[c.hold].seats, seat)
      /\ state'.holds = [state.holds EXCEPT ![c.hold] = h]
      /\ state'.requests[c.rid].cmd = c
      /\ state'.requests[c.rid].outcome = "accepted"
  BY TicketRecord
<1>3. /\ DOMAIN state'.seats = DOMAIN state.seats
      /\ \A s \in DOMAIN state.seats :
           state'.seats[s] = IF s \in state.holds[c.hold].seats THEN seat ELSE state.seats[s]
  BY <1>2 DEF TS!SetSeats
<1>4. /\ DOMAIN state'.holds = DOMAIN state.holds
      /\ state'.holds[c.hold] = h
      /\ \A o \in DOMAIN state.holds : o # c.hold => state'.holds[o] = state.holds[o]
  BY <1>2
<1>5. state.clock \in Int /\ state.holds[c.hold].deadline \in Int
  BY DEF TicketInv, TicketFields, Holds
<1>6. HoldsGoOn
  BY <1>2, <1>4, <1>5 DEF HoldsGoOn
<1>7. Holds'
  <2>1. ASSUME NEW o \in DOMAIN state'.holds
        PROVE  /\ o # "none"
               /\ DOMAIN state'.holds[o] = {"user", "seats", "status", "deadline", "payment"}
               /\ state'.holds[o].seats \subseteq DOMAIN state'.seats
               /\ state'.holds[o].status \in {"held", "confirmed", "released"}
               /\ state'.holds[o].deadline \in Int
    BY <1>3, <1>4, <1>5 DEF TicketInv, Holds
  <2> QED BY <2>1 DEF Holds
<1>8. Marked'
  <2>1. SUFFICES ASSUME NEW o \in DOMAIN state'.holds, TS!Keeps(o)',
                        NEW s \in state'.holds[o].seats
                 PROVE  /\ state'.seats[s].hold = o
                        /\ state'.seats[s].deadline = state'.holds[o].deadline
                        /\ state'.seats[s].confirmed \in BOOLEAN
                        /\ state'.seats[s].confirmed <=> state'.holds[o].status = "confirmed"
    BY DEF Marked
  <2>2. CASE o = c.hold
    <3>1. h.status = "confirmed"
      BY <1>4, <2>1, <2>2 DEF TS!Keeps
    <3>2. s \in state.holds[c.hold].seats /\ s \in DOMAIN state.seats
      BY <1>4, <2>1, <2>2 DEF TicketInv, Holds
    <3> QED BY <1>3, <1>4, <2>2, <3>1, <3>2
  <2>3. CASE o # c.hold
    <3>1. /\ o \in DOMAIN state.holds /\ TS!Keeps(o) /\ TS!Keeps(c.hold)
          /\ state'.holds[o] = state.holds[o]
      BY <1>2, <1>4, <2>1, <2>3 DEF TS!Keeps
    <3>2. s \notin state.holds[c.hold].seats /\ s \in DOMAIN state.seats
      BY <2>1, <2>3, <3>1, KeptApart DEF TicketInv, Holds
    <3> QED BY <1>3, <2>1, <3>1, <3>2 DEF TicketInv, Marked
  <2> QED BY <2>2, <2>3
<1>9. c.type = "confirm" => (CompensationsOf(c.rid)' = {} => Settled(c.rid)')
  BY <1>2, <1>4 DEF Settled
<1>10. DOMAIN settled.holds \subseteq DOMAIN state.holds \cup {c.rid}
  OBVIOUS
<1> QED BY <1>5, <1>6, <1>7, <1>8, <1>9, <1>10, TicketDecided

(* A payment that came too late is written down to be given back.          *)
LEMMA TicketCompensate ==
  ASSUME TicketInv, NEW c \in TicketCommands, ~TS!Known(c), NEW walk, NEW reason,
         NEW compensated, c.type = "confirm",
         c.hold \in DOMAIN state.holds,
         \/ reason = "hold-expired" /\ state.holds[c.hold].status = "held"
              /\ state.clock >= state.holds[c.hold].deadline
         \/ reason = "hold-released" /\ state.holds[c.hold].status = "released"
         \/ reason = "hold-confirmed" /\ state.holds[c.hold].status = "confirmed"
              /\ c.payment # state.holds[c.hold].payment,
         DOMAIN compensated = DOMAIN state,
         compensated.requests = state.requests,
         compensated.clock = state.clock,
         compensated.seats = state.seats,
         compensated.holds = state.holds,
         compensated.compensations = Append(state.compensations,
           [rid |-> c.rid, payment |-> c.payment, reason |-> reason]),
         TS!Record(c, compensated, walk, reason)
  PROVE  TicketInv'
<1> DEFINE one == [rid |-> c.rid, payment |-> c.payment, reason |-> reason]
<1>2. /\ DOMAIN state' = DOMAIN state
      /\ state'.clock = state.clock
      /\ state'.seats = state.seats
      /\ state'.holds = state.holds
      /\ state'.compensations = Append(state.compensations, one)
      /\ DOMAIN state'.requests = DOMAIN state.requests \cup {c.rid}
      /\ c.rid \notin DOMAIN state.requests
      /\ \A id \in DOMAIN state.requests : state'.requests[id] = state.requests[id]
      /\ DOMAIN state'.requests[c.rid] = {"cmd", "outcome", "conflicts"}
      /\ state'.requests[c.rid].cmd = c
      /\ state'.requests[c.rid].outcome = reason
  BY TicketRecord
<1>3. one \in Compensations
  BY DEF Compensations
<1>4. one.rid = c.rid
  OBVIOUS
<1> HIDE DEF one
<1> DEFINE n == Len(state.compensations)
<1>5. state.compensations \in Seq(Compensations)
  BY DEF TicketInv, TicketFields
<1>6. /\ n \in Nat
      /\ state'.compensations \in Seq(Compensations)
      /\ DOMAIN state.compensations = 1..n
      /\ DOMAIN state'.compensations = 1..(n + 1)
      /\ \A i \in 1..n : state'.compensations[i] = state.compensations[i]
      /\ state'.compensations[n + 1] = one
  BY <1>2, <1>3, <1>5
<1> HIDE DEF n
<1>7. TicketFields'
  BY <1>2, <1>6 DEF TicketInv, TicketFields
<1>8. TicketRequests'
  <2>1. DOMAIN state'.holds \subseteq DOMAIN state'.requests
    BY <1>2 DEF TicketInv, TicketRequests
  <2>2. \A i \in 1..(n + 1) : i \in 1..n \/ i = n + 1
    BY <1>6
  <2>3. \A i \in DOMAIN state'.compensations :
          state'.compensations[i].rid \in DOMAIN state'.requests
    BY <1>2, <1>4, <1>6, <2>2 DEF TicketInv, TicketRequests
  <2>4. \A id \in DOMAIN state'.requests :
          /\ DOMAIN state'.requests[id] = {"cmd", "outcome", "conflicts"}
          /\ state'.requests[id].cmd.rid = id
    BY <1>2 DEF TicketInv, TicketRequests
  <2> QED BY <2>1, <2>3, <2>4 DEF TicketRequests
<1>9. Holds' /\ Marked'
  BY <1>2 DEF TicketInv, Holds, Marked, TS!Keeps
<1>10. \A id \in DOMAIN state.requests : CompensationsOf(id)' = CompensationsOf(id)
  <2>1. \A i \in 1..(n + 1) : i \in 1..n \/ i = n + 1
    BY <1>6
  <2>2. 1..n \subseteq 1..(n + 1)
    BY <1>6
  <2> QED BY <1>2, <1>4, <1>6, <2>1, <2>2 DEF CompensationsOf
<1>11. CompensationsOf(c.rid)' = {n + 1}
  <2>1. \A i \in 1..(n + 1) : i \in 1..n \/ i = n + 1
    BY <1>6
  <2>2. \A i \in 1..n : state'.compensations[i].rid # c.rid
    BY <1>2, <1>6 DEF TicketInv, TicketRequests
  <2>3. n + 1 \in 1..(n + 1)
    BY <1>6
  <2> QED BY <1>4, <1>6, <2>1, <2>2, <2>3 DEF CompensationsOf
<1>12. Settled(c.rid)'
  BY <1>2, <1>11 DEF Settled
<1>13. HoldsGoOn
  BY <1>2 DEF HoldsGoOn
<1>14. ASSUME NEW id \in DOMAIN state'.requests,
              state'.requests[id].cmd.type = "confirm",
              state'.requests[id].outcome \notin {"no-such-event", "no-such-hold", "not-owner"}
       PROVE  Settled(id)'
  <2>1. CASE id = c.rid
    BY <1>12, <2>1
  <2>2. CASE id # c.rid
    <3>1. id \in DOMAIN state.requests /\ state'.requests[id] = state.requests[id]
      BY <1>2, <2>2
    <3>2. Settled(id)
      BY <1>14, <3>1 DEF TicketInv, Confirmations
    <3> QED BY <1>10, <1>13, <3>1, <3>2, OldConfirmations
  <2> QED BY <2>1, <2>2
<1> QED BY <1>7, <1>8, <1>9, <1>14 DEF TicketInv, Confirmations

(* Confirmations and releases, taken or refused.                            *)
LEMMA TicketEnds ==
  ASSUME TicketInv, NEW c \in TicketCommands, TS!ConfirmOrRelease(c)
  PROVE  TicketInv'
<1> DEFINE checks == TS!HoldChecks(c)
           h == TS!HoldOf(c)
           after == IF c.type = "confirm"
                    THEN [h EXCEPT !.status = "confirmed", !.payment = c.payment]
                    ELSE [h EXCEPT !.status = "released", !.payment = "none"]
           seat == IF c.type = "confirm"
                   THEN [hold |-> c.hold, deadline |-> h.deadline, confirmed |-> TRUE]
                   ELSE TS!FreeSeat
           settled == [state EXCEPT !.holds[c.hold] = after, !.seats = TS!SetSeats(h.seats, seat)]
           compensated == [state EXCEPT !.compensations =
             Append(@, [rid |-> c.rid, payment |-> c.payment, reason |-> TS!Reason(checks)])]
           walk(last) == <<"confirm", <<"event">> \o TS!Nodes(checks) \o last>>
<1>1. /\ c.type \in {"confirm", "release"} /\ ~TS!Known(c)
      /\ \/ TS!Accepted(checks) /\ TS!Record(c, settled, walk(<<"transition", "noop">>), "accepted")
         \/ /\ ~TS!Accepted(checks) /\ TS!Compensated(c, TS!Reason(checks))
            /\ TS!Record(c, compensated, walk(<<"reject", "compensate", "seq">>),
                         TS!Reason(checks))
         \/ /\ ~TS!Accepted(checks) /\ ~TS!Compensated(c, TS!Reason(checks))
            /\ TS!Record(c, state, walk(<<"reject", "compensate", "noop">>), TS!Reason(checks))
  BY DEF TS!ConfirmOrRelease
<1>2. /\ TS!Accepted(checks) =>
           /\ c.hold \in DOMAIN state.holds /\ h = state.holds[c.hold]
           /\ h.status = "held" /\ state.clock < h.deadline
      /\ ~TS!Accepted(checks) =>
           \/ TS!Reason(checks) \in {"no-such-event", "no-such-hold", "not-owner"}
           \/ /\ c.hold \in DOMAIN state.holds /\ h = state.holds[c.hold]
              /\ \/ TS!Reason(checks) = "hold-confirmed" /\ h.status = "confirmed"
                 \/ TS!Reason(checks) = "hold-released" /\ h.status = "released"
                 \/ /\ TS!Reason(checks) = "hold-expired"
                    /\ h.status = "held" /\ state.clock >= h.deadline
  BY HoldChecked
<1> HIDE DEF walk, checks
<1>3. CASE TS!Accepted(checks) /\ TS!Record(c, settled, walk(<<"transition", "noop">>), "accepted")
  <2>1. /\ c.hold \in DOMAIN state.holds /\ h = state.holds[c.hold]
        /\ state.holds[c.hold].status = "held"
        /\ state.clock < state.holds[c.hold].deadline
    BY <1>2, <1>3
  <2>2. DOMAIN h = {"user", "seats", "status", "deadline", "payment"}
    BY <2>1 DEF TicketInv, Holds
  <2> HIDE DEF h
  <2>3. /\ DOMAIN after = DOMAIN h /\ after.seats = h.seats /\ after.deadline = h.deadline
        /\ c.type = "confirm" => after.status = "confirmed" /\ after.payment = c.payment
        /\ c.type = "release" => after.status = "released"
    BY <1>1, <2>2
  <2>4. c.type = "confirm" =>
          seat.hold = c.hold /\ seat.deadline = after.deadline /\ seat.confirmed \in BOOLEAN /\ seat.confirmed
    BY <2>3
  <2>5. /\ DOMAIN settled = DOMAIN state
        /\ settled.requests = state.requests
        /\ settled.clock = state.clock
        /\ settled.seats = TS!SetSeats(state.holds[c.hold].seats, seat)
        /\ settled.holds = [state.holds EXCEPT ![c.hold] = after]
        /\ settled.compensations = state.compensations
    BY <2>1 DEF TicketInv, TicketFields
  <2> HIDE DEF after, seat, settled, compensated
  <2>6. /\ DOMAIN after = DOMAIN state.holds[c.hold]
        /\ after.seats = state.holds[c.hold].seats
        /\ after.deadline = state.holds[c.hold].deadline
        /\ c.type = "confirm" =>
             /\ after.status = "confirmed" /\ after.payment = c.payment
             /\ seat.hold = c.hold /\ seat.deadline = after.deadline
             /\ seat.confirmed \in BOOLEAN /\ seat.confirmed
        /\ c.type = "release" => after.status = "released"
    BY <1>1, <2>1, <2>3, <2>4
  <2>7. /\ c.type \in {"confirm", "release"} /\ ~TS!Known(c)
        /\ TS!Record(c, settled, walk(<<"transition", "noop">>), "accepted")
    BY SMTT(30), <1>1, <1>3
  <2> HIDE DEF checks
  <2> QED BY <2>1, <2>5, <2>6, <2>7, TicketTransition
<1>4. CASE /\ ~TS!Accepted(checks) /\ TS!Compensated(c, TS!Reason(checks))
           /\ TS!Record(c, compensated, walk(<<"reject", "compensate", "seq">>),
                        TS!Reason(checks))
  <2>1. /\ c.type = "confirm"
        /\ \/ TS!Reason(checks) \in {"hold-expired", "hold-released"}
           \/ TS!Reason(checks) = "hold-confirmed" /\ c.payment # h.payment
    BY <1>4 DEF TS!Compensated
  <2>2. /\ c.hold \in DOMAIN state.holds
        /\ \/ /\ TS!Reason(checks) = "hold-confirmed"
              /\ state.holds[c.hold].status = "confirmed"
              /\ c.payment # state.holds[c.hold].payment
           \/ /\ TS!Reason(checks) = "hold-released"
              /\ state.holds[c.hold].status = "released"
           \/ /\ TS!Reason(checks) = "hold-expired"
              /\ state.holds[c.hold].status = "held"
              /\ state.clock >= state.holds[c.hold].deadline
    <3> HIDE DEF h
    <3> QED BY <1>2, <1>4, <2>1
  <2>3. /\ DOMAIN compensated = DOMAIN state
        /\ compensated.requests = state.requests
        /\ compensated.clock = state.clock
        /\ compensated.seats = state.seats
        /\ compensated.holds = state.holds
        /\ compensated.compensations = Append(state.compensations,
             [rid |-> c.rid, payment |-> c.payment, reason |-> TS!Reason(checks)])
    BY DEF TicketInv, TicketFields
  <2> HIDE DEF h, compensated
  <2> QED BY <1>1, <1>4, <2>1, <2>2, <2>3, TicketCompensate
<1>5. CASE /\ ~TS!Accepted(checks) /\ ~TS!Compensated(c, TS!Reason(checks))
           /\ TS!Record(c, state, walk(<<"reject", "compensate", "noop">>), TS!Reason(checks))
  <2>1. CASE c.type # "confirm" \/ TS!Reason(checks) \in {"no-such-event", "no-such-hold", "not-owner"}
    BY <1>1, <1>5, <2>1, TicketRefused
  <2>2. CASE /\ c.type = "confirm"
             /\ TS!Reason(checks) \notin {"no-such-event", "no-such-hold", "not-owner"}
    <3>1. /\ c.hold \in DOMAIN state.holds
          /\ TS!Reason(checks) = "hold-confirmed"
          /\ state.holds[c.hold].status = "confirmed"
          /\ c.payment = state.holds[c.hold].payment
      <4>1. /\ TS!Reason(checks) \notin {"hold-expired", "hold-released"}
            /\ TS!Reason(checks) = "hold-confirmed" => c.payment = h.payment
        BY <1>5, <2>2 DEF TS!Compensated
      <4> HIDE DEF h
      <4> QED BY <1>2, <1>5, <2>2, <4>1
    <3>2. /\ state'.holds = state.holds
          /\ state'.requests[c.rid].cmd = c
          /\ state'.requests[c.rid].outcome = TS!Reason(checks)
      BY <1>1, <1>5, TicketRecord
    <3>3. CompensationsOf(c.rid)' = {} => Settled(c.rid)'
      BY <3>1, <3>2 DEF Settled
    <3> QED BY <1>1, <1>5, <3>3, TicketRefused
  <2> QED BY <2>1, <2>2
<1> QED BY <1>1, <1>3, <1>4, <1>5

(* A command that was decided before changes no more than its counter.     *)
LEMMA TicketAgain ==
  ASSUME TicketInv, NEW c \in TicketCommands, NEW walk, TS!Replay(c, walk) \/ TS!Conflict(c, walk)
  PROVE  TicketInv'
<1>1. /\ DOMAIN state' = DOMAIN state
      /\ state'.clock = state.clock
      /\ state'.seats = state.seats
      /\ state'.holds = state.holds
      /\ state'.compensations = state.compensations
      /\ \/ state'.requests = state.requests
         \/ state'.requests = [state.requests EXCEPT ![c.rid].conflicts = @ + 1]
  BY DEF TicketInv, TicketFields, TS!Replay, TS!Conflict
<1>2. /\ DOMAIN state'.requests = DOMAIN state.requests
      /\ \A id \in DOMAIN state.requests :
           /\ DOMAIN state'.requests[id] = DOMAIN state.requests[id]
           /\ state'.requests[id].cmd = state.requests[id].cmd
           /\ state'.requests[id].outcome = state.requests[id].outcome
  <2>1. CASE state'.requests = state.requests
    BY <2>1
  <2>2. CASE state'.requests = [state.requests EXCEPT ![c.rid].conflicts = @ + 1]
    <3>1. DOMAIN state'.requests = DOMAIN state.requests
      BY <2>2
    <3>2. ASSUME NEW id \in DOMAIN state.requests
          PROVE  /\ DOMAIN state'.requests[id] = DOMAIN state.requests[id]
                 /\ state'.requests[id].cmd = state.requests[id].cmd
                 /\ state'.requests[id].outcome = state.requests[id].outcome
      <4>1. DOMAIN state.requests[id] = {"cmd", "outcome", "conflicts"}
        BY DEF TicketInv, TicketRequests
      <4>2. state'.requests[id] = state.requests[id]
              \/ state'.requests[id] = [state.requests[id] EXCEPT !.conflicts = @ + 1]
        BY <2>2
      <4> QED BY <4>1, <4>2
    <3> QED BY <3>1, <3>2
  <2> QED BY <1>1, <2>1, <2>2
<1>3. TicketFields'
  BY <1>1 DEF TicketInv, TicketFields
<1>4. TicketRequests'
  BY <1>1, <1>2 DEF TicketInv, TicketRequests
<1>5. Holds' /\ Marked'
  BY <1>1 DEF TicketInv, Holds, Marked, TS!Keeps
<1>6. \A id : CompensationsOf(id)' = CompensationsOf(id)
  BY <1>1 DEF CompensationsOf
<1>7. HoldsGoOn
  BY <1>1 DEF HoldsGoOn
<1>8. ASSUME NEW id \in DOMAIN state'.requests,
             state'.requests[id].cmd.type = "confirm",
             state'.requests[id].outcome \notin {"no-such-event", "no-such-hold", "not-owner"}
      PROVE  Settled(id)'
  <2>1. /\ id \in DOMAIN state.requests
        /\ state'.requests[id].cmd = state.requests[id].cmd
        /\ state'.requests[id].outcome = state.requests[id].outcome
    BY <1>2
  <2>2. Settled(id)
    BY <1>8, <2>1 DEF TicketInv, Confirmations
  <2> QED BY <1>6, <1>7, <2>1, <2>2, OldConfirmations
<1> QED BY <1>3, <1>4, <1>5, <1>8 DEF TicketInv, Confirmations

(* Every step of the ticketing system keeps the invariant.                  *)
LEMMA TicketGoesOn == TicketInv /\ TS!TicketingStep => TicketInv'
<1> SUFFICES ASSUME TicketInv, TS!TicketingStep PROVE TicketInv'
  OBVIOUS
<1> DEFINE replayed == <<"request", TS!Gate \o <<"equal", "replay">> >>
           conflict == <<"request", TS!Gate \o <<"equal", "conflict">> >>
<1>1. PICK c \in TicketCommands :
        \/ TS!CreateEvent(c) \/ TS!AddSeats(c) \/ TS!AdvanceClock(c) \/ TS!HoldSeats(c)
        \/ TS!ConfirmOrRelease(c) \/ TS!Replay(c, replayed) \/ TS!Conflict(c, conflict)
  BY DEF TS!TicketingStep, TicketCommands
<1> HIDE DEF replayed, conflict
<1>2. CASE TS!CreateEvent(c) BY <1>2, TicketCreate
<1>3. CASE TS!AddSeats(c) BY <1>3, TicketAdd
<1>4. CASE TS!AdvanceClock(c) BY <1>4, TicketClock
<1>5. CASE TS!HoldSeats(c) BY <1>5, TicketHold
<1>6. CASE TS!ConfirmOrRelease(c) BY <1>6, TicketEnds
<1>7. CASE TS!Replay(c, replayed) \/ TS!Conflict(c, conflict) BY <1>7, TicketAgain
<1> QED BY <1>1, <1>2, <1>3, <1>4, <1>5, <1>6, <1>7

(* The invariant gives both properties.                                     *)
LEMMA TicketsSucceed == TicketInv => TS!SeatsKeptOnce /\ TS!PaymentsSettled
<1> SUFFICES ASSUME TicketInv PROVE TS!SeatsKeptOnce /\ TS!PaymentsSettled
  OBVIOUS
<1>1. TS!SeatsKeptOnce
  <2>1. SUFFICES ASSUME NEW h \in DOMAIN state.holds, TS!Keeps(h)
                 PROVE  /\ \A s \in state.holds[h].seats :
                             /\ state.seats[s].hold = h
                             /\ state.seats[s].confirmed = (state.holds[h].status = "confirmed")
                        /\ \A other \in DOMAIN state.holds \ {h} :
                             TS!Keeps(other) =>
                               state.holds[h].seats \cap state.holds[other].seats = {}
    BY DEF TS!SeatsKeptOnce
  <2>2. \A other \in DOMAIN state.holds \ {h} :
          TS!Keeps(other) => state.holds[h].seats \cap state.holds[other].seats = {}
    BY <2>1, KeptApart DEF TicketInv
  <2>3. ASSUME NEW s \in state.holds[h].seats
        PROVE  /\ state.seats[s].hold = h
               /\ state.seats[s].confirmed = (state.holds[h].status = "confirmed")
    <3>1. /\ state.seats[s].hold = h
          /\ state.seats[s].confirmed \in BOOLEAN
          /\ state.seats[s].confirmed <=> state.holds[h].status = "confirmed"
      BY <2>1 DEF TicketInv, Marked
    <3> QED BY <3>1
  <2> QED BY <2>2, <2>3
<1>2. TS!PaymentsSettled
  <2>1. SUFFICES ASSUME NEW r \in TS!Range(state.requests), r.cmd.type = "confirm",
                        r.outcome \notin {"no-such-event", "no-such-hold", "not-owner"}
                 PROVE  TS!Cardinality({i \in DOMAIN state.compensations :
                                          state.compensations[i].rid = r.cmd.rid}) =
                          IF /\ state.holds[r.cmd.hold].status = "confirmed"
                             /\ state.holds[r.cmd.hold].payment = r.cmd.payment
                          THEN 0 ELSE 1
    BY DEF TS!PaymentsSettled
  <2>2. PICK id \in DOMAIN state.requests : r = state.requests[id]
    BY <2>1 DEF TS!Range
  <2>3. Settled(id) /\ r.cmd.rid = id
    BY <2>1, <2>2 DEF TicketInv, Confirmations, TicketRequests
  <2> DEFINE mine == {i \in DOMAIN state.compensations : state.compensations[i].rid = r.cmd.rid}
             bought == /\ state.holds[r.cmd.hold].status = "confirmed"
                       /\ state.holds[r.cmd.hold].payment = r.cmd.payment
  <2>4. mine = CompensationsOf(id)
    BY SMTT(30), <2>3 DEF CompensationsOf
  <2>5. \/ bought /\ mine = {}
        \/ ~bought /\ \E i : mine = {i}
    BY <2>2, <2>3, <2>4 DEF Settled
  <2> HIDE DEF mine
  <2>6. TS!Cardinality(mine) = IF bought THEN 0 ELSE 1
    BY <2>5, CardSmall
  <2> QED BY <2>6 DEF mine
<1> QED BY <1>1, <1>2

-----------------------------------------------------------------------------
(* The hotel reservations.                                                 *)

(* What clients send.                                                       *)
HotelCommands == ModuleCommands["hotel-reservation"]

(* The instance's sums are those proved about.                              *)
LEMMA HotelSums == \A f : HR!SumOver(f) = SumOver(f)
BY DEF HR!SumOver, HR!FoldFunction, HR!FoldFunctionOnSet, HR!MapThenFoldSet,
       SumOver, FoldFunction, FoldFunctionOnSet, MapThenFoldSet

(* The cardinalities EventsMatchBookings asks of.                           *)
LEMMA HotelCards == HR!Cardinality({}) = 0 /\ \A x : HR!Cardinality({x}) = 1
<1>1. \A S : HR!Cardinality(S) = Cardinality(S)
  BY DEF HR!Cardinality, Cardinality
<1> QED BY <1>1, FS_EmptySet, FS_Singleton

(* Every check of an accepted command passed.                               *)
LEMMA AllPassed ==
  ASSUME NEW checks, HR!Accepted(checks), NEW i \in DOMAIN checks
  PROVE  checks[i][2]
BY DEF HR!Accepted, HR!Failed

(* The events there are.                                                    *)
Logged == {state.events[i] : i \in DOMAIN state.events}
(* What the module keeps: finitely many bookings, each of a request.        *)
HotelFields ==
  /\ DOMAIN state = {"requests", "walk", "exists", "types", "nights", "bookings", "events"}
  /\ IsFiniteSet(DOMAIN state.bookings)
  /\ DOMAIN state.bookings \subseteq DOMAIN state.requests
  /\ state.events \in Seq(Logged)

(* A night is never oversold.                                               *)
Nights ==
  \A n \in DOMAIN state.nights :
    /\ DOMAIN state.nights[n] = {"capacity", "rate", "available"}
    /\ state.nights[n].capacity \in Nat
    /\ state.nights[n].available \in Nat

(* A booking is of configured nights.                                       *)
Bookings ==
  \A id \in DOMAIN state.bookings :
    /\ DOMAIN state.bookings[id] =
         {"guest", "room", "checkin", "checkout", "quantity", "total", "state", "seq"}
    /\ state.bookings[id].quantity \in Nat
    /\ state.bookings[id].state \in {"confirmed", "cancelled"}
    /\ HR!Stay(state.bookings[id]) \subseteq DOMAIN state.nights

(* The confirmed bookings that cover a night, and their rooms.              *)
Covering(n) ==
  {id \in DOMAIN state.bookings :
     state.bookings[id].state = "confirmed" /\ n \in HR!Stay(state.bookings[id])}
(* How many rooms they took.                                                *)
Sold(n) == SumOver([id \in Covering(n) |-> state.bookings[id].quantity])

(* The rooms of a night are free or sold.                                   *)
Inventory ==
  \A n \in DOMAIN state.nights :
    state.nights[n].capacity = state.nights[n].available + Sold(n)

(* The events of one booking and type.                                      *)
EventsOf(type, id) ==
  {i \in DOMAIN state.events : state.events[i].type = type /\ state.events[i].booking = id}

(* The event log tells each booking's story.                                *)
Journal ==
  /\ \A i \in DOMAIN state.events : state.events[i].booking \in DOMAIN state.bookings
  /\ \A id \in DOMAIN state.bookings :
       /\ EventsOf("reserved", id) = {state.bookings[id].seq}
       /\ state.bookings[id].state = "confirmed" => EventsOf("cancelled", id) = {}
       /\ state.bookings[id].state = "cancelled" => \E i \in EventsOf("cancelled", id) : EventsOf("cancelled", id) = {i}
       /\ \A i \in EventsOf("cancelled", id) \cup {state.bookings[id].seq} :
            /\ i >= state.bookings[id].seq
            /\ state.events[i].total = state.bookings[id].total

(* The inductive invariant of the hotel reservations.                       *)
HotelInv == HotelFields /\ Nights /\ Bookings /\ Inventory /\ Journal

(* It holds before the property is created.                                 *)
LEMMA HotelStarts == HR!HotelInit => HotelInv
<1> SUFFICES ASSUME HR!HotelInit PROVE HotelInv
  OBVIOUS
<1>1. HotelFields
  BY FS_EmptySet DEF HR!HotelInit, HotelFields
<1>2. Nights /\ Bookings /\ Inventory /\ Journal
  BY DEF HR!HotelInit, Nights, Bookings, Inventory, Journal
<1> QED BY <1>1, <1>2 DEF HotelInv

(* What covers a night can be summed.                                       *)
LEMMA CoveringIsFinite ==
  ASSUME HotelInv, NEW n
  PROVE  /\ IsFiniteSet(Covering(n))
         /\ [id \in Covering(n) |-> state.bookings[id].quantity] \in [Covering(n) -> Int]
         /\ Sold(n) \in Int
<1>1. Covering(n) \subseteq DOMAIN state.bookings
  BY DEF Covering
<1>2. IsFiniteSet(Covering(n))
  BY <1>1, FS_Subset DEF HotelInv, HotelFields
<1>3. [id \in Covering(n) |-> state.bookings[id].quantity] \in [Covering(n) -> Int]
  BY <1>1 DEF HotelInv, Bookings
<1> QED BY <1>2, <1>3, SumIsInt DEF Sold

(* The journal's part of the invariant looks at bookings and events only.   *)
LEMMA SameJournal ==
  ASSUME Journal, state'.bookings = state.bookings, state'.events = state.events
  PROVE  Journal'
<1>1. \A type, id : EventsOf(type, id)' = EventsOf(type, id)
  BY DEF EventsOf
<1>2. \A id \in DOMAIN state'.bookings : state'.bookings[id] = state.bookings[id]
  OBVIOUS
<1>3. \A i \in DOMAIN state'.events : state'.events[i].booking \in DOMAIN state'.bookings
  BY DEF Journal
<1>4. ASSUME NEW id \in DOMAIN state'.bookings
      PROVE  /\ EventsOf("reserved", id)' = {state'.bookings[id].seq}
             /\ state'.bookings[id].state = "confirmed" => EventsOf("cancelled", id)' = {}
             /\ state'.bookings[id].state = "cancelled" => \E i \in EventsOf("cancelled", id)' : EventsOf("cancelled", id)' = {i}
             /\ \A i \in EventsOf("cancelled", id)' \cup {state'.bookings[id].seq} :
                  /\ i >= state'.bookings[id].seq
                  /\ state'.events[i].total = state'.bookings[id].total
  BY <1>1, <1>2 DEF Journal
<1> QED BY <1>3, <1>4 DEF Journal

(* Nothing but the requests, the rooms and the rates.                      *)
LEMMA HotelQuiet ==
  ASSUME HotelInv, DOMAIN state' = DOMAIN state,
         DOMAIN state.requests \subseteq DOMAIN state'.requests,
         state'.bookings = state.bookings, state'.events = state.events,
         DOMAIN state'.nights = DOMAIN state.nights,
         \A n \in DOMAIN state.nights :
           /\ DOMAIN state'.nights[n] = DOMAIN state.nights[n]
           /\ state'.nights[n].capacity = state.nights[n].capacity
           /\ state'.nights[n].available = state.nights[n].available
  PROVE  HotelInv'
<1>1. HotelFields'
  BY DEF HotelInv, HotelFields, Logged
<1>2. Nights'
  BY DEF HotelInv, Nights
<1>3. Bookings'
  BY DEF HotelInv, Bookings, HR!Stay
<1>4. \A n : Sold(n)' = Sold(n)
  BY DEF Sold, Covering, HR!Stay
<1>5. Inventory'
  BY <1>4 DEF HotelInv, Inventory
<1>6. Journal'
  BY SameJournal DEF HotelInv
<1> QED BY <1>1, <1>2, <1>3, <1>5, <1>6 DEF HotelInv

(* A decision is kept with its request, and is all there is to a refusal.   *)
LEMMA HotelDecision ==
  ASSUME HotelInv, NEW c \in HotelCommands, ~HR!Known(c), NEW checks, NEW walk, NEW s,
         DOMAIN s = DOMAIN state, s.requests = state.requests,
         HR!Decide(c, checks, walk, s)
  PROVE  /\ DOMAIN state' = DOMAIN state
         /\ DOMAIN state'.requests = DOMAIN state.requests \cup {c.rid}
         /\ c.rid \notin DOMAIN state.requests
         /\ \/ /\ HR!Accepted(checks)
               /\ state'.nights = s.nights
               /\ state'.bookings = s.bookings
               /\ state'.events = s.events
            \/ /\ ~HR!Accepted(checks)
               /\ state'.nights = state.nights
               /\ state'.bookings = state.bookings
               /\ state'.events = state.events
<1>1. c.rid \notin DOMAIN state.requests
  BY DEF HR!Known
<1>2. DOMAIN state = {"requests", "walk", "exists", "types", "nights", "bookings", "events"}
  BY DEF HotelInv, HotelFields
<1>3. ASSUME NEW t, NEW outcome, HR!Record(c, t, walk, outcome),
             DOMAIN t = DOMAIN state, t.requests = state.requests
      PROVE  /\ DOMAIN state' = DOMAIN state
             /\ DOMAIN state'.requests = DOMAIN state.requests \cup {c.rid}
             /\ state'.nights = t.nights
             /\ state'.bookings = t.bookings
             /\ state'.events = t.events
  <2>1. /\ DOMAIN state' = DOMAIN state
        /\ state'.requests = HR!Put(state.requests, c.rid,
                                    [cmd |-> c, outcome |-> outcome, conflicts |-> 0])
        /\ state'.nights = t.nights
        /\ state'.bookings = t.bookings
        /\ state'.events = t.events
    BY <1>2, <1>3 DEF HR!Record
  <2> QED BY <2>1 DEF HR!Put
<1>4. \/ HR!Accepted(checks) /\ HR!Record(c, s, walk, "accepted")
      \/ ~HR!Accepted(checks) /\ HR!Record(c, state, walk, HR!Reason(checks))
  BY DEF HR!Decide
<1> QED BY <1>1, <1>3, <1>4

(* A refusal keeps no more than the request.                               *)
LEMMA HotelRefused ==
  ASSUME HotelInv, DOMAIN state' = DOMAIN state,
         DOMAIN state.requests \subseteq DOMAIN state'.requests,
         state'.bookings = state.bookings, state'.events = state.events,
         state'.nights = state.nights
  PROVE  HotelInv'
BY HotelQuiet

(* Rooms and rates take part in no account.                                 *)
LEMMA HotelConfigure ==
  ASSUME HotelInv, NEW c \in HotelCommands,
         HR!CreateProperty(c) \/ HR!CreateRoomType(c) \/ HR!SetRate(c)
  PROVE  HotelInv'
<1>0. DOMAIN state = {"requests", "walk", "exists", "types", "nights", "bookings", "events"}
  BY DEF HotelInv, HotelFields
<1>1. ASSUME NEW checks, NEW walk, NEW s, ~HR!Known(c), HR!Decide(c, checks, walk, s),
             DOMAIN s = DOMAIN state, s.requests = state.requests,
             s.bookings = state.bookings, s.events = state.events,
             DOMAIN s.nights = DOMAIN state.nights,
             \A n \in DOMAIN state.nights :
               /\ DOMAIN s.nights[n] = DOMAIN state.nights[n]
               /\ s.nights[n].capacity = state.nights[n].capacity
               /\ s.nights[n].available = state.nights[n].available
      PROVE  HotelInv'
  <2>1. /\ DOMAIN state' = DOMAIN state
        /\ DOMAIN state'.requests = DOMAIN state.requests \cup {c.rid}
        /\ state'.bookings = state.bookings
        /\ state'.events = state.events
        /\ state'.nights = s.nights \/ state'.nights = state.nights
    BY <1>1, HotelDecision
  <2> QED BY <1>1, <2>1, HotelQuiet
<1>2. CASE HR!CreateProperty(c)
  <2> DEFINE s == [state EXCEPT !.exists = TRUE]
  <2>1. /\ DOMAIN s = DOMAIN state /\ s.requests = state.requests
        /\ s.bookings = state.bookings /\ s.events = state.events
        /\ s.nights = state.nights
    BY <1>0
  <2>2. ~HR!Known(c) /\ \E checks, walk : HR!Decide(c, checks, walk, s)
    BY <1>2 DEF HR!CreateProperty
  <2> HIDE DEF s
  <2> QED BY <1>1, <2>1, <2>2
<1>3. CASE HR!CreateRoomType(c)
  <2> DEFINE s == [state EXCEPT !.types = @ \cup {c.room}]
  <2>1. /\ DOMAIN s = DOMAIN state /\ s.requests = state.requests
        /\ s.bookings = state.bookings /\ s.events = state.events
        /\ s.nights = state.nights
    BY <1>0
  <2>2. ~HR!Known(c) /\ \E checks, walk : HR!Decide(c, checks, walk, s)
    BY <1>3 DEF HR!CreateRoomType
  <2> HIDE DEF s
  <2> QED BY <1>1, <2>1, <2>2
<1>4. CASE HR!SetRate(c)
  <2> DEFINE s == [state EXCEPT !.nights[HR!Night(c)].rate = c.rate]
  <2>1. /\ DOMAIN s = DOMAIN state /\ s.requests = state.requests
        /\ s.bookings = state.bookings /\ s.events = state.events
        /\ DOMAIN s.nights = DOMAIN state.nights
    BY <1>0
  <2>2. ASSUME NEW n \in DOMAIN state.nights
        PROVE  /\ DOMAIN s.nights[n] = DOMAIN state.nights[n]
               /\ s.nights[n].capacity = state.nights[n].capacity
               /\ s.nights[n].available = state.nights[n].available
    <3>1. DOMAIN state.nights[n] = {"capacity", "rate", "available"}
      BY DEF HotelInv, Nights
    <3>2. s.nights[n] = state.nights[n] \/ s.nights[n] = [state.nights[n] EXCEPT !.rate = c.rate]
      BY <1>0
    <3> HIDE DEF s
    <3> QED BY <3>1, <3>2
  <2>3. ~HR!Known(c) /\ \E checks, walk : HR!Decide(c, checks, walk, s)
    BY <1>4 DEF HR!SetRate
  <2> HIDE DEF s
  <2> QED BY <1>1, <2>1, <2>2, <2>3
<1> QED BY <1>2, <1>3, <1>4

(* No booking covers a night that is not configured yet.                   *)
LEMMA HotelNight ==
  ASSUME HotelInv, NEW c \in HotelCommands, HR!InitNight(c)
  PROVE  HotelInv'
<1> DEFINE new == HR!Night(c)
           night == [capacity |-> c.capacity, rate |-> c.rate, available |-> c.capacity]
           fresh == new \notin DOMAIN state.nights
           checks == HR!NightChecks(c, fresh, "night-exists")
           s == [state EXCEPT !.nights = HR!Put(@, new, night)]
<1>0. DOMAIN state = {"requests", "walk", "exists", "types", "nights", "bookings", "events"}
  BY DEF HotelInv, HotelFields
<1>1. /\ c.type = "init-night" /\ ~HR!Known(c)
      /\ HR!Decide(c, checks, HR!ConfigureWalk(checks, "init"), s)
  BY DEF HR!InitNight
<1>2. HR!Accepted(checks) => fresh
  <2>1. fresh \in BOOLEAN
    OBVIOUS
  <2> HIDE DEF fresh
  <2>2. 5 \in DOMAIN checks /\ checks[5][2] = fresh
    BY <2>1 DEF HR!NightChecks
  <2> HIDE DEF checks
  <2> QED BY <2>2, AllPassed
<1>3. /\ DOMAIN s = DOMAIN state /\ s.requests = state.requests
      /\ s.bookings = state.bookings /\ s.events = state.events
      /\ s.nights = HR!Put(state.nights, new, night)
  BY <1>0
<1> HIDE DEF s, checks
<1>4. /\ DOMAIN state' = DOMAIN state
      /\ DOMAIN state'.requests = DOMAIN state.requests \cup {c.rid}
      /\ state'.bookings = state.bookings
      /\ state'.events = state.events
      /\ \/ fresh /\ state'.nights = HR!Put(state.nights, new, night)
         \/ state'.nights = state.nights
  BY <1>1, <1>2, <1>3, HotelDecision
<1>5. CASE state'.nights = state.nights
  BY <1>4, <1>5, HotelRefused
<1>6. CASE fresh /\ state'.nights = HR!Put(state.nights, new, night)
  <2>1. /\ DOMAIN state'.nights = DOMAIN state.nights \cup {new}
        /\ \A n \in DOMAIN state.nights : state'.nights[n] = state.nights[n]
        /\ state'.nights[new] = night
    BY <1>6 DEF HR!Put
  <2>2. /\ DOMAIN night = {"capacity", "rate", "available"}
        /\ night.capacity \in Nat /\ night.available = night.capacity
    BY <1>1, HotelAssumption DEF HotelCommands
  <2> HIDE DEF night, new
  <2>3. HotelFields'
    BY <1>4 DEF HotelInv, HotelFields, Logged
  <2>4. Nights'
    BY <2>1, <2>2 DEF HotelInv, Nights
  <2>5. Bookings'
    BY <1>4, <2>1 DEF HotelInv, Bookings, HR!Stay
  <2>6. \A n : Covering(n)' = Covering(n) /\ Sold(n)' = Sold(n)
    BY <1>4 DEF Sold, Covering, HR!Stay
  <2>7. Sold(new) = 0
    <3>1. Covering(new) = {}
      BY <1>6 DEF HotelInv, Bookings, Covering
    <3> QED BY <3>1, SumOfNone DEF Sold
  <2>8. Inventory'
    BY <2>1, <2>2, <2>6, <2>7 DEF HotelInv, Inventory
  <2>9. Journal'
    BY <1>4, SameJournal DEF HotelInv
  <2> QED BY <2>3, <2>4, <2>5, <2>8, <2>9 DEF HotelInv
<1> QED BY <1>4, <1>5, <1>6

(* One more event comes last.                                               *)
LEMMA JournalGrows ==
  ASSUME HotelInv, NEW e, state'.events = Append(state.events, e)
  PROVE  /\ Len(state.events) \in Nat
         /\ DOMAIN state.events = 1..Len(state.events)
         /\ DOMAIN state'.events = DOMAIN state.events \cup {Len(state.events) + 1}
         /\ Len(state.events) + 1 \notin DOMAIN state.events
         /\ \A i \in DOMAIN state.events : state'.events[i] = state.events[i]
         /\ \A i \in DOMAIN state.events : i <= Len(state.events)
         /\ state'.events[Len(state.events) + 1] = e
         /\ state'.events \in Seq(Logged')
<1> DEFINE S == Logged
<1>1. state.events \in Seq(S)
  BY DEF HotelInv, HotelFields
<1> HIDE DEF S
<1>2. state.events \in Seq(S \cup {e})
  BY <1>1
<1>3. state'.events \in Seq(S \cup {e})
  BY <1>2
<1> DEFINE n == Len(state.events)
<1>4. n \in Nat /\ DOMAIN state.events = 1..n
  BY <1>1
<1>5. DOMAIN state'.events = 1..(n + 1) /\ state'.events[n + 1] = e
  BY <1>2
<1>6. \A i \in 1..n : state'.events[i] = state.events[i]
  BY <1>2
<1> HIDE DEF n
<1>7. 1..(n + 1) = 1..n \cup {n + 1} /\ n + 1 \notin 1..n /\ \A i \in 1..n : i <= n
  BY <1>4
<1>8. state'.events \in Seq(Logged')
  BY <1>3, SequenceOfItself DEF Logged
<1> QED BY <1>4, <1>5, <1>6, <1>7, <1>8 DEF n

(* One more event of another booking leaves the events of one as they are. *)
LEMMA OtherEvents ==
  ASSUME HotelInv, NEW e, state'.events = Append(state.events, e), NEW type, NEW id,
         e.booking # id \/ e.type # type
  PROVE  EventsOf(type, id)' = EventsOf(type, id)
BY JournalGrows DEF EventsOf

(* It is one more of its booking and type.                                  *)
LEMMA NewEvent ==
  ASSUME HotelInv, NEW e, state'.events = Append(state.events, e), NEW type, NEW id,
         e.booking = id, e.type = type
  PROVE  EventsOf(type, id)' = EventsOf(type, id) \cup {Len(state.events) + 1}
BY JournalGrows DEF EventsOf

(* A reservation takes its rooms on every night of the stay or on none.     *)
LEMMA HotelReserve ==
  ASSUME HotelInv, NEW c \in HotelCommands, HR!Reserve(c)
  PROVE  HotelInv'
<1> DEFINE stay == HR!Stay(c)
           configured == state.exists /\ c.room \in state.types /\ stay \subseteq DOMAIN state.nights
           roomy == configured /\ HR!EnoughRoom(c)
           checks == << <<"prop", state.exists, "no-such-property">>,
                        <<"room", c.room \in state.types, "no-such-room-type">>,
                        <<"scan", TRUE, "none">>,
                        <<"missing", configured, "night-not-configured">>,
                        <<"capacity", TRUE, "none">>,
                        <<"short", roomy, "insufficient-capacity">> >>
           total == HR!SumOver([n \in stay |-> c.quantity * state.nights[n].rate])
           b == [guest |-> c.guest, room |-> c.room, checkin |-> c.checkin,
                 checkout |-> c.checkout, quantity |-> c.quantity, total |-> total,
                 state |-> "confirmed", seq |-> Len(state.events) + 1]
           e == [type |-> "reserved", rid |-> c.rid, booking |-> c.rid, total |-> total]
           s == [state EXCEPT !.nights = HR!Changed(stay, -c.quantity),
                              !.bookings = HR!Put(@, c.rid, b),
                              !.events = Append(@, e)]
<1>0. DOMAIN state = {"requests", "walk", "exists", "types", "nights", "bookings", "events"}
  BY DEF HotelInv, HotelFields
<1>1. c.type = "reserve" /\ ~HR!Known(c) /\ \E walk : HR!Decide(c, checks, walk, s)
  BY DEF HR!Reserve
<1>2. HR!Accepted(checks) => roomy
  <2>1. roomy \in BOOLEAN
    OBVIOUS
  <2> HIDE DEF roomy
  <2>2. 6 \in DOMAIN checks /\ checks[6][2] = roomy
    BY <2>1
  <2> HIDE DEF checks
  <2> QED BY <2>2, AllPassed
<1>3. /\ DOMAIN s = DOMAIN state /\ s.requests = state.requests
      /\ s.nights = HR!Changed(stay, -c.quantity)
      /\ s.bookings = HR!Put(state.bookings, c.rid, b)
      /\ s.events = Append(state.events, e)
  BY <1>0
<1>4. /\ DOMAIN b = {"guest", "room", "checkin", "checkout", "quantity", "total", "state", "seq"}
      /\ b.quantity = c.quantity /\ b.state = "confirmed" /\ b.seq = Len(state.events) + 1
      /\ b.total = e.total /\ e.type = "reserved" /\ e.booking = c.rid
      /\ HR!Stay(b) = stay
  BY DEF HR!Stay
<1>5. c.quantity \in Nat
  BY <1>1, HotelAssumption DEF HotelCommands
<1> HIDE DEF s, b, e, checks
<1>6. /\ DOMAIN state' = DOMAIN state
      /\ DOMAIN state'.requests = DOMAIN state.requests \cup {c.rid}
      /\ c.rid \notin DOMAIN state.requests
      /\ \/ /\ roomy
            /\ state'.nights = HR!Changed(stay, -c.quantity)
            /\ state'.bookings = HR!Put(state.bookings, c.rid, b)
            /\ state'.events = Append(state.events, e)
         \/ /\ state'.nights = state.nights /\ state'.bookings = state.bookings
            /\ state'.events = state.events
  BY <1>1, <1>2, <1>3, HotelDecision
<1>7. CASE /\ state'.nights = state.nights /\ state'.bookings = state.bookings
           /\ state'.events = state.events
  BY <1>6, <1>7, HotelRefused
<1>8. CASE /\ roomy
           /\ state'.nights = HR!Changed(stay, -c.quantity)
           /\ state'.bookings = HR!Put(state.bookings, c.rid, b)
           /\ state'.events = Append(state.events, e)
  <2>1. stay \subseteq DOMAIN state.nights /\ \A n \in stay : state.nights[n].available >= c.quantity
    BY <1>8 DEF HR!EnoughRoom
  <2>2. c.rid \notin DOMAIN state.bookings
    BY <1>6 DEF HotelInv, HotelFields
  <2>3. /\ DOMAIN state'.bookings = DOMAIN state.bookings \cup {c.rid}
        /\ \A id \in DOMAIN state.bookings : state'.bookings[id] = state.bookings[id]
        /\ state'.bookings[c.rid] = b
    BY <1>8, <2>2 DEF HR!Put
  <2> HIDE DEF stay, roomy
  <2>4. /\ DOMAIN state'.nights = DOMAIN state.nights
        /\ \A n \in DOMAIN state.nights :
             /\ n \notin stay => state'.nights[n] = state.nights[n]
             /\ n \in stay =>
                  /\ DOMAIN state'.nights[n] = DOMAIN state.nights[n]
                  /\ state'.nights[n].capacity = state.nights[n].capacity
                  /\ state'.nights[n].available = state.nights[n].available - c.quantity
    <3>1. state'.nights = [n \in DOMAIN state.nights |->
             IF n \in stay THEN [state.nights[n] EXCEPT !.available = @ + (-c.quantity)]
             ELSE state.nights[n]]
      BY <1>8 DEF HR!Changed
    <3>2. ASSUME NEW n \in DOMAIN state.nights
          PROVE  /\ n \notin stay => state'.nights[n] = state.nights[n]
                 /\ n \in stay =>
                      /\ DOMAIN state'.nights[n] = DOMAIN state.nights[n]
                      /\ state'.nights[n].capacity = state.nights[n].capacity
                      /\ state'.nights[n].available = state.nights[n].available - c.quantity
      <4>1. /\ DOMAIN state.nights[n] = {"capacity", "rate", "available"}
            /\ state.nights[n].available \in Nat
        BY DEF HotelInv, Nights
      <4> QED BY <1>5, <3>1, <4>1
    <3> QED BY <3>1, <3>2
  <2>5. HotelFields'
    <3>1. IsFiniteSet(DOMAIN state'.bookings)
      BY <2>3, FS_AddElement DEF HotelInv, HotelFields
    <3>2. state'.events \in Seq(Logged')
      BY <1>8, JournalGrows
    <3>3. DOMAIN state'.bookings \subseteq DOMAIN state'.requests
      BY <1>6, <2>3 DEF HotelInv, HotelFields
    <3> QED BY <1>0, <1>6, <3>1, <3>2, <3>3 DEF HotelFields
  <2>6. Nights'
    <3>1. ASSUME NEW n \in DOMAIN state.nights
          PROVE  /\ DOMAIN state'.nights[n] = {"capacity", "rate", "available"}
                 /\ state'.nights[n].capacity \in Nat
                 /\ state'.nights[n].available \in Nat
      <4>1. /\ DOMAIN state.nights[n] = {"capacity", "rate", "available"}
            /\ state.nights[n].capacity \in Nat /\ state.nights[n].available \in Nat
        BY DEF HotelInv, Nights
      <4> QED BY <1>5, <2>1, <2>4, <4>1
    <3> QED BY <2>4, <3>1 DEF Nights
  <2>7. Bookings'
    <3>1. ASSUME NEW id \in DOMAIN state'.bookings
          PROVE  /\ DOMAIN state'.bookings[id] =
                      {"guest", "room", "checkin", "checkout", "quantity", "total", "state", "seq"}
                 /\ state'.bookings[id].quantity \in Nat
                 /\ state'.bookings[id].state \in {"confirmed", "cancelled"}
                 /\ HR!Stay(state'.bookings[id]) \subseteq DOMAIN state.nights
      <4>1. CASE id = c.rid
        BY <1>4, <1>5, <2>1, <2>3, <4>1
      <4>2. CASE id # c.rid
        <5>1. id \in DOMAIN state.bookings /\ state'.bookings[id] = state.bookings[id]
          BY <2>3, <4>2
        <5> QED BY <5>1 DEF HotelInv, Bookings
      <4> QED BY <4>1, <4>2
    <3>2. \A id : HR!Stay(state.bookings[id])' = HR!Stay(state'.bookings[id])
      BY DEF HR!Stay
    <3> QED BY <2>4, <3>1, <3>2 DEF Bookings
  <2>8. \A n : Covering(n)' = IF n \in stay THEN Covering(n) \cup {c.rid} ELSE Covering(n)
    <3>1. \A id : HR!Stay(state.bookings[id])' = HR!Stay(state'.bookings[id])
      BY DEF HR!Stay
    <3>2. ASSUME NEW n, NEW id
          PROVE  id \in Covering(n)' <=>
                   id \in (IF n \in stay THEN Covering(n) \cup {c.rid} ELSE Covering(n))
      <4>1. id \in Covering(n)' <=> /\ id \in DOMAIN state'.bookings
                                    /\ state'.bookings[id].state = "confirmed"
                                    /\ n \in HR!Stay(state'.bookings[id])
        BY <3>1 DEF Covering
      <4>2. id \in Covering(n) <=> /\ id \in DOMAIN state.bookings
                                   /\ state.bookings[id].state = "confirmed"
                                   /\ n \in HR!Stay(state.bookings[id])
        BY DEF Covering
      <4>3. CASE id = c.rid
        BY <1>4, <2>2, <2>3, <4>1, <4>2, <4>3
      <4>4. CASE id # c.rid
        BY <2>3, <4>1, <4>2, <4>4
      <4> QED BY <4>3, <4>4
    <3> QED BY <3>2
  <2>9. \A n : Sold(n)' = IF n \in stay THEN Sold(n) + c.quantity ELSE Sold(n)
    <3>1. ASSUME NEW n
          PROVE  Sold(n)' = IF n \in stay THEN Sold(n) + c.quantity ELSE Sold(n)
      <4>1. Sold(n)' = SumOver([id \in Covering(n)' |-> state'.bookings[id].quantity])
        BY DEF Sold
      <4>2. Covering(n) \subseteq DOMAIN state.bookings
        BY DEF Covering
      <4>3. [id \in Covering(n) |-> state'.bookings[id].quantity] =
              [id \in Covering(n) |-> state.bookings[id].quantity]
        BY <2>3, <4>2
      <4>4. CASE n \notin stay
        BY <2>8, <4>1, <4>3, <4>4 DEF Sold
      <4>5. CASE n \in stay
        <5> DEFINE D == Covering(n) \cup {c.rid}
                   f == [id \in D |-> state'.bookings[id].quantity]
        <5>1. Sold(n)' = SumOver(f)
          BY <2>8, <4>1, <4>5
        <5>2. IsFiniteSet(D)
          BY CoveringIsFinite, FS_AddElement
        <5>3. f \in [D -> Int]
          BY <1>4, <1>5, <2>3, <4>2 DEF HotelInv, Bookings
        <5>4. D \ {c.rid} = Covering(n) /\ c.rid \in D
          BY <2>2, <4>2
        <5>5. [id \in D \ {c.rid} |-> f[id]] = [id \in Covering(n) |-> state.bookings[id].quantity]
          BY <4>3, <5>4
        <5>6. f[c.rid] = c.quantity
          BY <1>4, <2>3
        <5> HIDE DEF D, f
        <5>7. SumOver(f) = f[c.rid] + SumOver([id \in D \ {c.rid} |-> f[id]])
          BY <5>2, <5>3, <5>4, SumTakeOut DEF Rest
        <5>8. Sold(n) \in Int
          BY CoveringIsFinite
        <5> QED BY <1>5, <4>5, <5>1, <5>5, <5>6, <5>7, <5>8 DEF Sold
      <4> QED BY <4>4, <4>5
    <3> QED BY <3>1
  <2>10. Inventory'
    <3>1. ASSUME NEW n \in DOMAIN state.nights
          PROVE  state'.nights[n].capacity = state'.nights[n].available + Sold(n)'
      <4>1. /\ state.nights[n].capacity = state.nights[n].available + Sold(n)
            /\ state.nights[n].available \in Nat /\ Sold(n) \in Int
        BY CoveringIsFinite DEF HotelInv, Nights, Inventory
      <4>2. Sold(n)' = IF n \in stay THEN Sold(n) + c.quantity ELSE Sold(n)
        BY <2>9
      <4> QED BY <1>5, <2>4, <4>1, <4>2
    <3> QED BY <2>4, <3>1 DEF Inventory
  <2>11. Journal'
    <3> DEFINE last == Len(state.events) + 1
    <3>1. \A id : id # c.rid => /\ EventsOf("reserved", id)' = EventsOf("reserved", id)
                                /\ EventsOf("cancelled", id)' = EventsOf("cancelled", id)
      BY <1>4, <1>8, OtherEvents
    <3>2. /\ EventsOf("reserved", c.rid)' = EventsOf("reserved", c.rid) \cup {last}
          /\ EventsOf("cancelled", c.rid)' = EventsOf("cancelled", c.rid)
      <4>1. EventsOf("reserved", c.rid)' = EventsOf("reserved", c.rid) \cup {last}
        BY <1>4, <1>8, NewEvent
      <4>2. EventsOf("cancelled", c.rid)' = EventsOf("cancelled", c.rid)
        BY <1>4, <1>8, OtherEvents
      <4> QED BY <4>1, <4>2
    <3>3. EventsOf("reserved", c.rid) = {} /\ EventsOf("cancelled", c.rid) = {}
      BY <2>2 DEF HotelInv, Journal, EventsOf
    <3>4. /\ DOMAIN state'.events = DOMAIN state.events \cup {last}
          /\ last \notin DOMAIN state.events
          /\ \A i \in DOMAIN state.events : state'.events[i] = state.events[i]
          /\ state'.events[last] = e
          /\ last \in Nat
      BY <1>8, JournalGrows
    <3> HIDE DEF last
    <3>5. \A i \in DOMAIN state'.events : state'.events[i].booking \in DOMAIN state'.bookings
      BY <1>4, <2>3, <3>4 DEF HotelInv, Journal
    <3>6. ASSUME NEW id \in DOMAIN state'.bookings
          PROVE  /\ EventsOf("reserved", id)' = {state'.bookings[id].seq}
                 /\ state'.bookings[id].state = "confirmed" => EventsOf("cancelled", id)' = {}
                 /\ state'.bookings[id].state = "cancelled" =>
                      \E i \in EventsOf("cancelled", id)' : EventsOf("cancelled", id)' = {i}
                 /\ \A i \in EventsOf("cancelled", id)' \cup {state'.bookings[id].seq} :
                      /\ i >= state'.bookings[id].seq
                      /\ state'.events[i].total = state'.bookings[id].total
      <4>1. CASE id = c.rid
        <5>1. b.seq = last
          BY <1>4 DEF last
        <5> QED BY <1>4, <2>3, <3>2, <3>3, <3>4, <4>1, <5>1
      <4>2. CASE id # c.rid
        <5>1. id \in DOMAIN state.bookings /\ state'.bookings[id] = state.bookings[id]
          BY <2>3, <4>2
        <5>2. /\ EventsOf("reserved", id) = {state.bookings[id].seq}
              /\ state.bookings[id].state = "confirmed" => EventsOf("cancelled", id) = {}
              /\ state.bookings[id].state = "cancelled" => \E i \in EventsOf("cancelled", id) : EventsOf("cancelled", id) = {i}
              /\ \A i \in EventsOf("cancelled", id) \cup {state.bookings[id].seq} :
                   /\ i >= state.bookings[id].seq
                   /\ state.events[i].total = state.bookings[id].total
          BY <5>1 DEF HotelInv, Journal
        <5>3. EventsOf("cancelled", id) \cup EventsOf("reserved", id) \subseteq DOMAIN state.events
          BY DEF EventsOf
        <5> QED BY <3>1, <3>4, <4>2, <5>1, <5>2, <5>3
      <4> QED BY <4>1, <4>2
    <3> QED BY <3>5, <3>6 DEF Journal
  <2> QED BY <2>5, <2>6, <2>7, <2>10, <2>11 DEF HotelInv
<1> QED BY SMTT(30), <1>6, <1>7, <1>8

(* A cancellation gives back what was taken, where it was taken, once.      *)
LEMMA HotelCancel ==
  ASSUME HotelInv, NEW c \in HotelCommands, HR!CancelBooking(c)
  PROVE  HotelInv'
<1> DEFINE b == IF c.booking \in DOMAIN state.bookings THEN state.bookings[c.booking]
                ELSE HR!NoBooking
           there == b # HR!NoBooking
           guest == c.guest = b.guest
           open == b.state # "cancelled"
           checks == << <<"prop", state.exists, "no-such-property">>,
                        <<"booking", there, "no-such-booking">>,
                        <<"guest", guest, "not-guest">>,
                        <<"state", open, "booking-cancelled">> >>
           e == [type |-> "cancelled", rid |-> c.rid, booking |-> c.booking, total |-> b.total]
           stay == HR!Stay(b)
           s == [state EXCEPT !.nights = HR!Changed(stay, b.quantity),
                              !.bookings[c.booking].state = "cancelled",
                              !.events = Append(@, e)]
<1>0. DOMAIN state = {"requests", "walk", "exists", "types", "nights", "bookings", "events"}
  BY DEF HotelInv, HotelFields
<1>1. ~HR!Known(c) /\ \E walk : HR!Decide(c, checks, walk, s)
  BY DEF HR!CancelBooking
<1>2. HR!Accepted(checks) => there /\ open
  <2>1. there \in BOOLEAN /\ open \in BOOLEAN
    OBVIOUS
  <2> HIDE DEF there, open, guest
  <2>2. /\ 2 \in DOMAIN checks /\ checks[2][2] = there
        /\ 4 \in DOMAIN checks /\ checks[4][2] = open
    BY <2>1
  <2> HIDE DEF checks
  <2> QED BY <2>2, AllPassed
<1>3. /\ DOMAIN s = DOMAIN state /\ s.requests = state.requests
      /\ s.nights = HR!Changed(stay, b.quantity)
      /\ s.bookings = [state.bookings EXCEPT ![c.booking].state = "cancelled"]
      /\ s.events = Append(state.events, e)
  BY <1>0
<1>4. e.type = "cancelled" /\ e.booking = c.booking /\ e.total = b.total
  OBVIOUS
<1>5. there => c.booking \in DOMAIN state.bookings /\ b = state.bookings[c.booking]
  OBVIOUS
<1>6. open <=> b.state # "cancelled"
  OBVIOUS
<1> HIDE DEF s, e, checks, b, there, open
<1>7. /\ DOMAIN state' = DOMAIN state
      /\ DOMAIN state'.requests = DOMAIN state.requests \cup {c.rid}
      /\ \/ /\ there /\ open
            /\ state'.nights = HR!Changed(stay, b.quantity)
            /\ state'.bookings = [state.bookings EXCEPT ![c.booking].state = "cancelled"]
            /\ state'.events = Append(state.events, e)
         \/ /\ state'.nights = state.nights /\ state'.bookings = state.bookings
            /\ state'.events = state.events
  BY <1>1, <1>2, <1>3, HotelDecision
<1>8. CASE /\ state'.nights = state.nights /\ state'.bookings = state.bookings
           /\ state'.events = state.events
  BY <1>7, <1>8, HotelRefused
<1>9. CASE /\ there /\ open
           /\ state'.nights = HR!Changed(stay, b.quantity)
           /\ state'.bookings = [state.bookings EXCEPT ![c.booking].state = "cancelled"]
           /\ state'.events = Append(state.events, e)
  <2>1. /\ c.booking \in DOMAIN state.bookings /\ b = state.bookings[c.booking]
        /\ DOMAIN b =
             {"guest", "room", "checkin", "checkout", "quantity", "total", "state", "seq"}
        /\ b.quantity \in Nat /\ b.state = "confirmed"
        /\ stay \subseteq DOMAIN state.nights
    BY <1>5, <1>6, <1>9 DEF HotelInv, Bookings
  <2> DEFINE after == [b EXCEPT !.state = "cancelled"]
  <2>2. /\ DOMAIN state'.bookings = DOMAIN state.bookings
        /\ \A id \in DOMAIN state.bookings :
             id # c.booking => state'.bookings[id] = state.bookings[id]
        /\ state'.bookings[c.booking] = after
    BY <1>9, <2>1
  <2>3. /\ DOMAIN after = DOMAIN b /\ after.quantity = b.quantity /\ after.state = "cancelled"
        /\ after.seq = b.seq /\ after.total = b.total /\ HR!Stay(after) = stay
    BY <2>1 DEF HR!Stay
  <2>4. \A n : n \in stay <=> n \in HR!Stay(state.bookings[c.booking])
    BY <2>1
  <2> HIDE DEF after, stay
  <2>5. /\ DOMAIN state'.nights = DOMAIN state.nights
        /\ \A n \in DOMAIN state.nights :
             /\ n \notin stay => state'.nights[n] = state.nights[n]
             /\ n \in stay =>
                  /\ DOMAIN state'.nights[n] = DOMAIN state.nights[n]
                  /\ state'.nights[n].capacity = state.nights[n].capacity
                  /\ state'.nights[n].available = state.nights[n].available + b.quantity
    <3>1. state'.nights = [n \in DOMAIN state.nights |->
             IF n \in stay THEN [state.nights[n] EXCEPT !.available = @ + b.quantity]
             ELSE state.nights[n]]
      BY <1>9 DEF HR!Changed
    <3>2. ASSUME NEW n \in DOMAIN state.nights
          PROVE  /\ n \notin stay => state'.nights[n] = state.nights[n]
                 /\ n \in stay =>
                      /\ DOMAIN state'.nights[n] = DOMAIN state.nights[n]
                      /\ state'.nights[n].capacity = state.nights[n].capacity
                      /\ state'.nights[n].available = state.nights[n].available + b.quantity
      <4>1. DOMAIN state.nights[n] = {"capacity", "rate", "available"}
        BY DEF HotelInv, Nights
      <4> QED BY <3>1, <4>1
    <3> QED BY <3>1, <3>2
  <2>6. HotelFields'
    <3>1. state'.events \in Seq(Logged')
      BY <1>9, JournalGrows
    <3> QED BY <1>7, <2>2, <3>1 DEF HotelInv, HotelFields
  <2>7. Nights'
    <3>1. ASSUME NEW n \in DOMAIN state.nights
          PROVE  /\ DOMAIN state'.nights[n] = {"capacity", "rate", "available"}
                 /\ state'.nights[n].capacity \in Nat
                 /\ state'.nights[n].available \in Nat
      <4>1. /\ DOMAIN state.nights[n] = {"capacity", "rate", "available"}
            /\ state.nights[n].capacity \in Nat /\ state.nights[n].available \in Nat
        BY DEF HotelInv, Nights
      <4> QED BY <2>1, <2>5, <4>1
    <3> QED BY <2>5, <3>1 DEF Nights
  <2>8. \A id : HR!Stay(state.bookings[id])' = HR!Stay(state'.bookings[id])
    BY DEF HR!Stay
  <2>9. Bookings'
    <3>1. ASSUME NEW id \in DOMAIN state.bookings
          PROVE  /\ DOMAIN state'.bookings[id] =
                      {"guest", "room", "checkin", "checkout", "quantity", "total", "state", "seq"}
                 /\ state'.bookings[id].quantity \in Nat
                 /\ state'.bookings[id].state \in {"confirmed", "cancelled"}
                 /\ HR!Stay(state'.bookings[id]) \subseteq DOMAIN state.nights
      <4>1. CASE id = c.booking
        BY <2>1, <2>2, <2>3, <4>1
      <4>2. CASE id # c.booking
        BY <2>2, <4>2 DEF HotelInv, Bookings
      <4> QED BY <4>1, <4>2
    <3> QED BY <2>2, <2>5, <2>8, <3>1 DEF Bookings
  <2>10. \A n : Covering(n)' = Covering(n) \ {c.booking}
    <3>1. ASSUME NEW n, NEW id PROVE id \in Covering(n)' <=> id \in Covering(n) \ {c.booking}
      <4>1. id \in Covering(n)' <=> /\ id \in DOMAIN state'.bookings
                                    /\ state'.bookings[id].state = "confirmed"
                                    /\ n \in HR!Stay(state'.bookings[id])
        BY <2>8 DEF Covering
      <4>2. id \in Covering(n) <=> /\ id \in DOMAIN state.bookings
                                   /\ state.bookings[id].state = "confirmed"
                                   /\ n \in HR!Stay(state.bookings[id])
        BY DEF Covering
      <4>3. CASE id = c.booking
        BY <2>2, <2>3, <4>1, <4>3
      <4>4. CASE id # c.booking
        BY <2>2, <4>1, <4>2, <4>4
      <4> QED BY <4>3, <4>4
    <3> QED BY <3>1
  <2>11. \A n : Sold(n) = IF n \in stay THEN Sold(n)' + b.quantity ELSE Sold(n)'
    <3>1. ASSUME NEW n
          PROVE  Sold(n) = IF n \in stay THEN Sold(n)' + b.quantity ELSE Sold(n)'
      <4> DEFINE D == Covering(n)
                 f == [id \in D |-> state.bookings[id].quantity]
                 rest == [id \in D \ {c.booking} |-> f[id]]
      <4>1. Sold(n)' = SumOver([id \in Covering(n)' |-> state'.bookings[id].quantity])
        BY DEF Sold
      <4>2. D \subseteq DOMAIN state.bookings
        BY DEF Covering
      <4>3. [id \in Covering(n)' |-> state'.bookings[id].quantity] = rest
        BY <2>2, <2>10, <4>2
      <4>4. c.booking \in D <=> n \in stay
        BY <2>1, <2>4 DEF Covering
      <4>5. IsFiniteSet(D) /\ f \in [D -> Int] /\ Sold(n) \in Int /\ Sold(n) = SumOver(f)
        BY CoveringIsFinite DEF Sold
      <4>6. CASE n \notin stay
        <5>1. rest = f
          BY <4>4, <4>6
        <5> QED BY <4>1, <4>3, <4>5, <4>6, <5>1
      <4>7. CASE n \in stay
        <5>1. f[c.booking] = b.quantity
          BY <2>1, <4>4, <4>7
        <5>2. IsFiniteSet(D \ {c.booking}) /\ rest \in [D \ {c.booking} -> Int]
          BY <4>5, FS_RemoveElement
        <5> HIDE DEF D, f
        <5>3. SumOver(f) = f[c.booking] + SumOver(rest)
          BY <4>4, <4>5, <4>7, SumTakeOut DEF Rest
        <5>4. SumOver(rest) \in Int
          BY <5>2, SumIsInt
        <5> HIDE DEF rest
        <5> QED BY <2>1, <4>1, <4>3, <4>5, <4>7, <5>1, <5>3, <5>4
      <4> QED BY <4>6, <4>7
    <3> QED BY <3>1
  <2>12. Inventory'
    <3>1. ASSUME NEW n \in DOMAIN state.nights
          PROVE  state'.nights[n].capacity = state'.nights[n].available + Sold(n)'
      <4>1. /\ state.nights[n].capacity = state.nights[n].available + Sold(n)
            /\ state.nights[n].available \in Nat
        BY DEF HotelInv, Nights, Inventory
      <4>2. Sold(n) = IF n \in stay THEN Sold(n)' + b.quantity ELSE Sold(n)'
        BY <2>11
      <4>3. Sold(n)' \in Int
        <5> DEFINE D == Covering(n) \ {c.booking}
                   f == [id \in D |-> state.bookings[id].quantity]
        <5>1. IsFiniteSet(D)
          BY CoveringIsFinite, FS_RemoveElement
        <5>2. D \subseteq DOMAIN state.bookings
          BY DEF Covering
        <5>3. f \in [D -> Int]
          BY <5>2 DEF HotelInv, Bookings
        <5>4. [id \in Covering(n)' |-> state'.bookings[id].quantity] = f
          BY <2>2, <2>10, <5>2
        <5>5. Sold(n)' = SumOver(f)
          BY <5>4 DEF Sold
        <5> HIDE DEF D, f
        <5> QED BY <5>1, <5>3, <5>5, SumIsInt
      <4> QED BY <2>1, <2>5, <4>1, <4>2, <4>3
    <3> QED BY <2>5, <3>1 DEF Inventory
  <2>13. Journal'
    <3> DEFINE last == Len(state.events) + 1
    <3>1. /\ \A id : EventsOf("reserved", id)' = EventsOf("reserved", id)
          /\ \A id : id # c.booking => EventsOf("cancelled", id)' = EventsOf("cancelled", id)
      BY <1>4, <1>9, OtherEvents
    <3>2. EventsOf("cancelled", c.booking)' = EventsOf("cancelled", c.booking) \cup {last}
      BY <1>4, <1>9, NewEvent
    <3>3. EventsOf("cancelled", c.booking) = {} /\ EventsOf("reserved", c.booking) = {b.seq}
      BY <2>1 DEF HotelInv, Journal
    <3>4. /\ DOMAIN state'.events = DOMAIN state.events \cup {last}
          /\ last \notin DOMAIN state.events
          /\ \A i \in DOMAIN state.events : state'.events[i] = state.events[i]
          /\ state'.events[last] = e
          /\ last \in Nat
          /\ \A i \in DOMAIN state.events : i <= last
          /\ DOMAIN state.events \subseteq Nat
      BY <1>9, JournalGrows
    <3>5. \A type, id : EventsOf(type, id) \subseteq DOMAIN state.events
      BY DEF EventsOf
    <3> HIDE DEF last
    <3>6. \A i \in DOMAIN state'.events : state'.events[i].booking \in DOMAIN state'.bookings
      BY <1>4, <2>1, <2>2, <3>4 DEF HotelInv, Journal
    <3>7. ASSUME NEW id \in DOMAIN state'.bookings
          PROVE  /\ EventsOf("reserved", id)' = {state'.bookings[id].seq}
                 /\ state'.bookings[id].state = "confirmed" => EventsOf("cancelled", id)' = {}
                 /\ state'.bookings[id].state = "cancelled" =>
                      \E i \in EventsOf("cancelled", id)' : EventsOf("cancelled", id)' = {i}
                 /\ \A i \in EventsOf("cancelled", id)' \cup {state'.bookings[id].seq} :
                      /\ i >= state'.bookings[id].seq
                      /\ state'.events[i].total = state'.bookings[id].total
      <4>1. CASE id = c.booking
        <5>1. /\ EventsOf("cancelled", id)' = {last} /\ EventsOf("reserved", id)' = {b.seq}
              /\ state'.bookings[id] = after
          BY <2>2, <3>1, <3>2, <3>3, <4>1
        <5>2. b.seq \in DOMAIN state.events /\ state.events[b.seq].total = b.total
          BY <2>1, <3>3, <3>5 DEF HotelInv, Journal
        <5>3. b.seq <= last /\ b.seq \in Nat /\ last \in Nat
          BY <3>4, <5>2
        <5>4. /\ state'.events[b.seq].total = b.total
              /\ state'.events[last].total = b.total
          BY <1>4, <3>4, <5>2
        <5> QED BY <2>3, <5>1, <5>3, <5>4
      <4>2. CASE id # c.booking
        <5>1. id \in DOMAIN state.bookings /\ state'.bookings[id] = state.bookings[id]
          BY <2>2, <4>2
        <5>2. /\ EventsOf("reserved", id) = {state.bookings[id].seq}
              /\ state.bookings[id].state = "confirmed" => EventsOf("cancelled", id) = {}
              /\ state.bookings[id].state = "cancelled" => \E i \in EventsOf("cancelled", id) : EventsOf("cancelled", id) = {i}
              /\ \A i \in EventsOf("cancelled", id) \cup {state.bookings[id].seq} :
                   /\ i >= state.bookings[id].seq
                   /\ state.events[i].total = state.bookings[id].total
          BY <5>1 DEF HotelInv, Journal
        <5> QED BY <3>1, <3>4, <3>5, <4>2, <5>1, <5>2
      <4> QED BY <4>1, <4>2
    <3> QED BY <3>6, <3>7 DEF Journal
  <2> QED BY <2>6, <2>7, <2>9, <2>12, <2>13 DEF HotelInv
<1> QED BY SMTT(30), <1>7, <1>8, <1>9

(* A command that was decided before changes no more than its counter.      *)
LEMMA HotelAgain ==
  ASSUME HotelInv, NEW c \in HotelCommands, NEW walk, HR!Replay(c, walk) \/ HR!Conflict(c, walk)
  PROVE  HotelInv'
<1>1. /\ DOMAIN state' = DOMAIN state
      /\ DOMAIN state'.requests = DOMAIN state.requests
      /\ state'.nights = state.nights
      /\ state'.bookings = state.bookings
      /\ state'.events = state.events
  BY DEF HotelInv, HotelFields, HR!Replay, HR!Conflict
<1> QED BY <1>1, HotelRefused

(* Every step of the hotel reservations keeps the invariant.                *)
LEMMA HotelGoesOn == HotelInv /\ HR!HotelStep => HotelInv'
<1> SUFFICES ASSUME HotelInv, HR!HotelStep PROVE HotelInv'
  OBVIOUS
<1>1. PICK c \in HotelCommands :
        \/ HR!CreateProperty(c) \/ HR!CreateRoomType(c) \/ HR!SetRate(c)
        \/ HR!InitNight(c) \/ HR!Reserve(c) \/ HR!CancelBooking(c)
        \/ HR!Replay(c, HR!Repeated(c, "replayed")) \/ HR!Conflict(c, HR!Repeated(c, "conflict"))
  BY DEF HR!HotelStep, HotelCommands
<1>2. CASE HR!CreateProperty(c) \/ HR!CreateRoomType(c) \/ HR!SetRate(c)
  BY <1>2, HotelConfigure
<1>3. CASE HR!InitNight(c) BY <1>3, HotelNight
<1>4. CASE HR!Reserve(c) BY <1>4, HotelReserve
<1>5. CASE HR!CancelBooking(c) BY <1>5, HotelCancel
<1>6. CASE HR!Replay(c, HR!Repeated(c, "replayed")) BY <1>6, HotelAgain
<1>7. CASE HR!Conflict(c, HR!Repeated(c, "conflict")) BY <1>7, HotelAgain
<1> QED BY <1>1, <1>2, <1>3, <1>4, <1>5, <1>6, <1>7

(* The invariant gives both properties.                                     *)
LEMMA HotelsSucceed == HotelInv => HR!RoomsSoldOnce /\ HR!EventsMatchBookings
<1> SUFFICES ASSUME HotelInv PROVE HR!RoomsSoldOnce /\ HR!EventsMatchBookings
  OBVIOUS
<1>1. HR!RoomsSoldOnce
  <2>1. ASSUME NEW n \in DOMAIN state.nights
        PROVE  /\ state.nights[n].available >= 0
               /\ state.nights[n].capacity = state.nights[n].available
                    + HR!SumOver([id \in Covering(n) |-> state.bookings[id].quantity])
    <3>1. HR!SumOver([id \in Covering(n) |-> state.bookings[id].quantity]) = Sold(n)
      BY HotelSums DEF Sold
    <3> QED BY <3>1 DEF HotelInv, Nights, Inventory
  <2> QED BY <2>1 DEF HR!RoomsSoldOnce, Covering
<1>2. HR!EventsMatchBookings
  <2>1. ASSUME NEW id \in DOMAIN state.bookings
        PROVE  /\ EventsOf("reserved", id) = {state.bookings[id].seq}
               /\ HR!Cardinality(EventsOf("cancelled", id)) =
                    IF state.bookings[id].state = "cancelled" THEN 1 ELSE 0
               /\ \A i \in EventsOf("cancelled", id) \cup {state.bookings[id].seq} :
                    i >= state.bookings[id].seq
                      /\ state.events[i].total = state.bookings[id].total
    <3>1. HR!Cardinality(EventsOf("cancelled", id)) =
            IF state.bookings[id].state = "cancelled" THEN 1 ELSE 0
      <4>1. \/ state.bookings[id].state = "confirmed" /\ EventsOf("cancelled", id) = {}
            \/ /\ state.bookings[id].state = "cancelled"
               /\ \E i \in EventsOf("cancelled", id) : EventsOf("cancelled", id) = {i}
        BY DEF HotelInv, Bookings, Journal
      <4> QED BY <4>1, HotelCards
    <3> QED BY <3>1 DEF HotelInv, Journal
  <2>2. \A i \in DOMAIN state.events : state.events[i].booking \in DOMAIN state.bookings
    BY DEF HotelInv, Journal
  <2> QED BY <2>1, <2>2 DEF HR!EventsMatchBookings, EventsOf
<1> QED BY <1>1, <1>2

-----------------------------------------------------------------------------
(* The entries.                                                            *)

(* Each entry's invariant while that entry runs.                           *)
EntriesInv ==
  /\ entry = "ticketing-system"  => TicketInv
  /\ entry = "hotel-reservation" => HotelInv
  /\ entry = "job-scheduler"     => JobInv
  /\ entry = "auction"           => AuctionInv

(* It holds of the entry that begins.                                       *)
LEMMA EntriesStart == Init => EntriesInv
<1> SUFFICES ASSUME Init PROVE EntriesInv
  OBVIOUS
<1>1. CASE SolutionInit
  <2>1. entry \in Slugs
    BY <1>1 DEF SolutionInit
  <2> QED BY <2>1, EntriesAssumption DEF EntriesInv
<1>2. CASE ~SolutionInit
  BY <1>2, TicketingStarts, HotelStarts, JobStarts, AuctionStarts DEF Init, EntriesInv
<1> QED BY <1>1, <1>2

(* No step changes the entry, and each entry's own keep its invariant.      *)
LEMMA EntriesGoOn == EntriesInv /\ [Next]_vars => EntriesInv'
<1> SUFFICES ASSUME EntriesInv, [Next]_vars PROVE EntriesInv'
  OBVIOUS
<1>1. entry' = entry
  BY DEF Next, SolutionStep, ModuleStep, vars
<1>2. CASE entry = "ticketing-system"
  <2>1. TicketInv /\ (TS!TicketingStep \/ state' = state)
    BY <1>2 DEF EntriesInv, Next, SolutionStep, ModuleStep, vars
  <2>2. CASE TS!TicketingStep
    BY <1>1, <1>2, <2>1, <2>2, TicketGoesOn DEF EntriesInv
  <2>3. CASE state' = state
    <3>1. \A id : CompensationsOf(id)' = CompensationsOf(id)
      BY SMTT(30), <2>3 DEF CompensationsOf
    <3>2. \A id : Settled(id)' <=> Settled(id)
      BY <2>3, <3>1 DEF Settled
    <3>3. Confirmations'
      BY <2>1, <2>3, <3>2 DEF TicketInv, Confirmations
    <3>4. TicketFields' /\ TicketRequests' /\ Holds' /\ Marked'
      BY <2>1, <2>3 DEF TicketInv, TicketFields, TicketRequests, Holds, Marked, TS!Keeps
    <3> QED BY <1>1, <1>2, <3>3, <3>4 DEF EntriesInv, TicketInv
  <2> QED BY <2>1, <2>2, <2>3
<1>3. CASE entry = "hotel-reservation"
  <2>1. HotelInv /\ (HR!HotelStep \/ state' = state)
    BY <1>3 DEF EntriesInv, Next, SolutionStep, ModuleStep, vars
  <2>2. CASE HR!HotelStep
    BY <1>1, <1>3, <2>1, <2>2, HotelGoesOn DEF EntriesInv
  <2>3. CASE state' = state
    BY <1>1, <1>3, <2>1, <2>3, HotelRefused DEF EntriesInv
  <2> QED BY <2>1, <2>2, <2>3
<1>4. CASE entry = "job-scheduler"
  <2>1. JobInv /\ (JS!JobStep \/ state' = state)
    BY <1>4 DEF EntriesInv, Next, SolutionStep, ModuleStep, vars
  <2>2. CASE JS!JobStep
    BY <1>1, <1>4, <2>1, <2>2, JobGoesOn DEF EntriesInv
  <2>3. CASE state' = state
    <3>1. JobFields'
      BY <2>1, <2>3 DEF JobInv, JobFields
    <3> QED BY <1>1, <1>4, <2>1, <2>3, <3>1, JobQuiet DEF EntriesInv
  <2> QED BY <2>1, <2>2, <2>3
<1>5. CASE entry = "auction"
  <2>1. AuctionInv /\ (AU!AuctionStep \/ state' = state)
    BY <1>5 DEF EntriesInv, Next, SolutionStep, ModuleStep, vars
  <2>2. CASE AU!AuctionStep
    BY <1>1, <1>5, <2>1, <2>2, AuctionGoesOn DEF EntriesInv
  <2>3. CASE state' = state
    <3>1. AuctionInv'
      BY <2>1, <2>3 DEF AuctionInv, AuctionFields, Bids, Expiry, Read, Told, Made
    <3> QED BY <1>1, <1>5, <3>1 DEF EntriesInv
  <2> QED BY <2>1, <2>2, <2>3
<1> QED BY <1>1, <1>2, <1>3, <1>4, <1>5 DEF EntriesInv

(* Whatever order requests, the clock, retries and late answers come in, a *)
(* seat goes to one hold and a payment to one outcome, a room night to the *)
(* bookings that cover it, a node to one worker at a time, a listing to    *)
(* one bidder: the ticketing, hotel, job scheduler and auction modules.    *)
THEOREM AllottedOnce == Spec => []NothingTwice
<1>1. Init => EntriesInv
  BY EntriesStart
<1>2. EntriesInv /\ [Next]_vars => EntriesInv'
  BY EntriesGoOn
<1>3. EntriesInv => NothingTwice
  <2> SUFFICES ASSUME EntriesInv PROVE NothingTwice
    OBVIOUS
  <2>1. CASE entry = "ticketing-system"
    BY <2>1, TicketsSucceed DEF EntriesInv, NothingTwice
  <2>2. CASE entry = "hotel-reservation"
    BY <2>2, HotelsSucceed DEF EntriesInv, NothingTwice
  <2>3. CASE entry = "job-scheduler"
    <3>1. JS!LeasesApart /\ JS!SuccessFenced
      BY <2>3, JobSucceeds DEF EntriesInv, JobInv
    <3> QED BY <2>3, <3>1 DEF NothingTwice
  <2>4. CASE entry = "auction"
    BY <2>4, AuctionSells DEF EntriesInv, NothingTwice
  <2> QED BY <2>1, <2>2, <2>3, <2>4 DEF NothingTwice
<1> QED BY <1>1, <1>2, <1>3, PTL DEF Spec

-----------------------------------------------------------------------------
(* The commands of the ticketing system along its diagrams.                 *)

(* The first nodes of a request: up to its handler, or to what a repeated   *)
(* one gets.                                                                *)
LEMMA TicketWalks ==
  /\ Walk(TS!RequestDiagram, TS!Gate, "event", "prior")
  /\ Walk(TS!RequestDiagram, TS!Gate \o <<"dispatch">>, "event", "dispatch")
  /\ Walk(TS!RequestDiagram, TS!Gate \o <<"equal", "replay">>, "event", "replay")
  /\ Walk(TS!RequestDiagram, TS!Gate \o <<"equal", "conflict">>, "event", "conflict")
<1> DEFINE g == TS!RequestDiagram
<1>0. /\ Arrow(g, "event", "prior") /\ Arrow(g, "prior", "dispatch")
      /\ Arrow(g, "prior", "equal") /\ Arrow(g, "equal", "replay")
      /\ Arrow(g, "equal", "conflict")
  BY RequestArrows
<1> HIDE DEF g
<1>1. Walk(g, TS!Gate, "event", "prior")
  BY <1>0, ShortWalks DEF TS!Gate
<1>2. /\ Walk(g, <<"dispatch">>, "dispatch", "dispatch")
      /\ Walk(g, <<"equal", "replay">>, "equal", "replay")
      /\ Walk(g, <<"equal", "conflict">>, "equal", "conflict")
  BY <1>0, ShortWalks
<1>3. Walk(g, TS!Gate \o <<"dispatch">>, "event", "dispatch")
  BY <1>0, <1>1, <1>2, WalkOn
<1>4. Walk(g, TS!Gate \o <<"equal", "replay">>, "event", "replay")
  BY <1>0, <1>1, <1>2, WalkOn
<1>5. Walk(g, TS!Gate \o <<"equal", "conflict">>, "event", "conflict")
  BY <1>0, <1>1, <1>2, WalkOn
<1> QED BY <1>1, <1>3, <1>4, <1>5 DEF g

(* A command that is dispatched to its one check.                           *)
LEMMA DispatchedShows ==
  ASSUME "walk" \in DOMAIN state, NEW c, NEW s, DOMAIN s = DOMAIN state,
         NEW a, NEW b, NEW p \in BOOLEAN, NEW accepted, NEW outcome, NEW checks,
         checks = << <<a, p, b>> >>,
         Arrow(TS!RequestDiagram, "dispatch", a), Arrow(TS!RequestDiagram, a, "reject"),
         Arrow(TS!RequestDiagram, a, accepted), Arrow(TS!RequestDiagram, accepted, "save"),
         TS!Record(c, s, TS!Dispatched(checks, accepted), outcome)
  PROVE  Shows(TS!TicketingDiagrams)
<1> DEFINE g == TS!RequestDiagram
           last == IF TS!Accepted(checks) THEN <<accepted, "save">> ELSE <<"reject", "save">>
           path == TS!Gate \o <<"dispatch">> \o Visited(checks) \o last
<1>1. state'.walk = <<"request", path>> /\ DOMAIN state' = DOMAIN state
  <2>1. TS!Dispatched(checks, accepted) = <<"request", path>>
    <3>1. TS!Nodes(checks) = Visited(checks)
      BY ChecksAreVisited
    <3> QED BY <3>1, Zenon DEF TS!Dispatched
  <2> HIDE DEF path
  <2>2. TS!Record(c, s, <<"request", path>>, outcome) /\ "walk" \in DOMAIN s
    BY <2>1
  <2> QED BY <2>2, CommandsAreNoted
<1>2. "event" \in Ids(g) /\ Arrow(g, "reject", "save")
  BY RequestArrows
<1>3. \/ TS!Accepted(checks) /\ Walk(g, Visited(checks), a, a)
      \/ ~TS!Accepted(checks) /\ Walk(g, Visited(checks), a, a)
  BY OneWalked, AcceptedUnlessRefused
<1>4. g = TS!TicketingDiagrams["request"]
  BY DEF TS!TicketingDiagrams
<1>5. Walk(g, TS!Gate \o <<"dispatch">>, "event", "dispatch")
  BY TicketWalks
<1> HIDE DEF g
<1>6. \E u : Walk(g, last, u, "save") /\ Arrow(g, a, u)
  <2>1. Walk(g, <<accepted, "save">>, accepted, "save") /\ Walk(g, <<"reject", "save">>, "reject", "save")
    BY <1>2, ShortWalks DEF g
  <2> QED BY <1>3, <2>1 DEF g
<1> HIDE DEF last
<1>7. Walk(g, path, "event", "save")
  BY <1>3, <1>5, <1>6, WalkThrough DEF g
<1> HIDE DEF path
<1> QED BY <1>1, <1>2, <1>4, <1>7, ShownAs

(* A new event, its seats and the clock have no check, or one.              *)
LEMMA TicketDispatches ==
  ASSUME "walk" \in DOMAIN state, NEW c,
         TS!CreateEvent(c) \/ TS!AddSeats(c) \/ TS!AdvanceClock(c)
  PROVE  Shows(TS!TicketingDiagrams)
<1> DEFINE g == TS!RequestDiagram
           event == state.clock # TS!NoEvent
<1>1. /\ Arrow(g, "dispatch", "exists") /\ Arrow(g, "exists", "reject")
      /\ Arrow(g, "exists", "create") /\ Arrow(g, "create", "save")
      /\ Arrow(g, "dispatch", "seats") /\ Arrow(g, "seats", "reject")
      /\ Arrow(g, "seats", "add") /\ Arrow(g, "add", "save")
      /\ Arrow(g, "dispatch", "time") /\ Arrow(g, "time", "reject")
      /\ Arrow(g, "time", "advance") /\ Arrow(g, "advance", "save")
  BY RequestArrows
<1>2. CASE TS!CreateEvent(c)
  <2> DEFINE p == state.clock = TS!NoEvent
             checks == << <<"exists", p, "event-exists">> >>
  <2>1. PICK s, outcome : /\ TS!Record(c, s, TS!Dispatched(checks, "create"), outcome)
                          /\ s = state \/ s = [state EXCEPT !.clock = 0]
    BY <1>2, Zenon DEF TS!CreateEvent
  <2>2. DOMAIN s = DOMAIN state /\ p \in BOOLEAN
    BY <2>1
  <2> HIDE DEF p
  <2> QED BY ZenonT(40), <1>1, <2>1, <2>2, DispatchedShows
<1>3. CASE TS!AddSeats(c)
  <2> DEFINE p == event /\ c.seats \cap DOMAIN state.seats = {}
             b == IF event THEN "seat-exists" ELSE "no-such-event"
             added == [s \in c.seats \cup DOMAIN state.seats |->
                         IF s \in c.seats THEN TS!FreeSeat ELSE state.seats[s]]
             checks == << <<"seats", p, b>> >>
  <2>1. PICK s, outcome : /\ TS!Record(c, s, TS!Dispatched(checks, "add"), outcome)
                          /\ s = state \/ s = [state EXCEPT !.seats = added]
    BY <1>3, Zenon DEF TS!AddSeats
  <2>2. DOMAIN s = DOMAIN state /\ p \in BOOLEAN
    BY <2>1
  <2> HIDE DEF p, b
  <2> QED BY <1>1, <2>1, <2>2, DispatchedShows
<1>4. CASE TS!AdvanceClock(c)
  <2> DEFINE p == event /\ c.now >= state.clock
             b == IF event THEN "clock-regression" ELSE "no-such-event"
             checks == << <<"time", p, b>> >>
  <2>1. PICK s, outcome : /\ TS!Record(c, s, TS!Dispatched(checks, "advance"), outcome)
                          /\ s = state \/ s = [state EXCEPT !.clock = c.now]
    BY <1>4, Zenon DEF TS!AdvanceClock
  <2>2. DOMAIN s = DOMAIN state /\ p \in BOOLEAN
    BY <2>1
  <2> HIDE DEF p, b
  <2> QED BY <1>1, <2>1, <2>2, DispatchedShows
<1> QED BY <1>2, <1>3, <1>4

(* A hold is drawn to the check that refuses it, or through the expired     *)
(* holds to the new one.                                                    *)
LEMMA TicketHoldShows ==
  ASSUME "walk" \in DOMAIN state, NEW c, TS!HoldSeats(c)
  PROVE  Shows(TS!TicketingDiagrams)
<1> DEFINE g == TS!HoldDiagram
           p1 == state.clock # TS!NoEvent
           p2 == c.seats \subseteq DOMAIN state.seats
           p3 == c.deadline > state.clock
           p4 == p2 /\ \A s \in c.seats : TS!Available(state.seats[s])
           checks == << <<"clock", p1, "no-such-event">>, <<"seats", p2, "no-such-seat">>,
                        <<"deadline", p3, "deadline-passed">>,
                        <<"available", p4, "seat-unavailable">> >>
           held == [state EXCEPT
             !.seats = TS!SetSeats(c.seats, [hold |-> c.rid, deadline |-> c.deadline,
                                             confirmed |-> FALSE]),
             !.holds = TS!Put(@, c.rid, [user |-> c.user, seats |-> c.seats, status |-> "held",
                                         deadline |-> c.deadline, payment |-> "none"])]
           taken == <<"event">> \o Visited(checks) \o <<"hold", "writes", "done">>
           refused == <<"event">> \o Visited(checks) \o <<"reject">>
<1>1. IF TS!Accepted(checks)
      THEN TS!Record(c, held, <<"hold", <<"event">> \o TS!Nodes(checks)
                                           \o <<"hold", "writes", "done">> >>, "accepted")
      ELSE TS!Record(c, state, <<"hold", <<"event">> \o TS!Nodes(checks) \o <<"reject">> >>,
                     TS!Reason(checks))
  BY Zenon DEF TS!HoldSeats
<1>2. DOMAIN held = DOMAIN state
  OBVIOUS
<1>3. /\ checks = << <<"clock", p1, "no-such-event">>, <<"seats", p2, "no-such-seat">>,
                     <<"deadline", p3, "deadline-passed">>,
                     <<"available", p4, "seat-unavailable">> >>
      /\ p1 \in BOOLEAN /\ p2 \in BOOLEAN /\ p3 \in BOOLEAN /\ p4 \in BOOLEAN
  OBVIOUS
<1>4. /\ "event" \in Ids(g) /\ Arrow(g, "event", "clock")
      /\ Arrow(g, "clock", "seats") /\ Arrow(g, "seats", "deadline")
      /\ Arrow(g, "deadline", "available") /\ Arrow(g, "available", "hold")
      /\ Arrow(g, "hold", "writes") /\ Arrow(g, "writes", "done")
      /\ Arrow(g, "clock", "reject") /\ Arrow(g, "seats", "reject")
      /\ Arrow(g, "deadline", "reject") /\ Arrow(g, "available", "reject")
  BY HoldArrows
<1>5. g = TS!TicketingDiagrams["hold"]
  BY DEF TS!TicketingDiagrams
<1> HIDE DEF g, checks, p1, p2, p3, p4, held
<1>6. \/ Refused(checks) = {} /\ Walk(g, Visited(checks), "clock", "available")
      \/ /\ Refused(checks) # {}
         /\ \/ ~p1 /\ Walk(g, Visited(checks), "clock", "clock")
            \/ ~p2 /\ Walk(g, Visited(checks), "clock", "seats")
            \/ ~p3 /\ Walk(g, Visited(checks), "clock", "deadline")
            \/ ~p4 /\ Walk(g, Visited(checks), "clock", "available")
  <2>1. Arrow(g, "clock", "seats") /\ Arrow(g, "seats", "deadline") /\ Arrow(g, "deadline", "available")
    BY <1>4
  <2>2. ChecksAre(checks, "clock", p1, "seats", p2, "deadline", p3, "available", p4)
    BY <1>3 DEF ChecksAre
  <2>3. FourWalks(g, checks, "clock", p1, "seats", p2, "deadline", p3, "available", p4)
    BY <2>1, <2>2, FourWalked
  <2> QED BY <2>3 DEF FourWalks
<1>7. /\ Walk(g, <<"event">>, "event", "event") /\ Walk(g, <<"reject">>, "reject", "reject")
      /\ Walk(g, <<"hold", "writes", "done">>, "hold", "done")
  BY <1>4, ShortWalks
<1>8. CASE Refused(checks) = {}
  <2>1. state'.walk = <<"hold", taken>> /\ DOMAIN state' = DOMAIN state
    <3>1. TS!Record(c, held, <<"hold", taken>>, "accepted")
      BY <1>1, <1>8, ChecksAreVisited, AcceptedUnlessRefused
    <3> QED BY <1>2, <3>1, CommandsAreNoted
  <2>2. Walk(g, taken, "event", "done")
    BY <1>4, <1>6, <1>7, <1>8, WalkThrough
  <2> HIDE DEF taken
  <2> QED BY <1>4, <1>5, <2>1, <2>2, ShownAs
<1>9. CASE Refused(checks) # {}
  <2>1. state'.walk = <<"hold", refused>> /\ DOMAIN state' = DOMAIN state
    <3>1. TS!Record(c, state, <<"hold", refused>>, TS!Reason(checks))
      <4>1. ~TS!Accepted(checks)
        BY <1>9, AcceptedUnlessRefused
      <4>2. TS!Nodes(checks) = Visited(checks)
        BY ChecksAreVisited
      <4> QED BY <1>1, <4>1, <4>2, Zenon
    <3> QED BY <3>1, CommandsAreNoted
  <2>2. Walk(g, refused, "event", "reject")
    BY <1>4, <1>6, <1>7, <1>9, WalkThrough
  <2> HIDE DEF refused
  <2> QED BY <1>4, <1>5, <2>1, <2>2, ShownAs
<1> QED BY <1>8, <1>9

(* A confirmation or a release is drawn to the check that refuses it, or to *)
(* what it changes.                                                         *)
LEMMA TicketConfirmShows ==
  ASSUME "walk" \in DOMAIN state, NEW c, TS!ConfirmOrRelease(c)
  PROVE  Shows(TS!TicketingDiagrams)
<1> DEFINE g == TS!ConfirmDiagram
           h == TS!HoldOf(c)
           checks == TS!HoldChecks(c)
           settled == [state EXCEPT
             !.holds[c.hold] = IF c.type = "confirm"
                               THEN [h EXCEPT !.status = "confirmed", !.payment = c.payment]
                               ELSE [h EXCEPT !.status = "released", !.payment = "none"],
             !.seats = TS!SetSeats(h.seats,
                                   IF c.type = "confirm"
                                   THEN [hold |-> c.hold, deadline |-> h.deadline,
                                         confirmed |-> TRUE]
                                   ELSE TS!FreeSeat)]
           compensated == [state EXCEPT !.compensations =
             Append(@, [rid |-> c.rid, payment |-> c.payment, reason |-> TS!Reason(checks)])]
           path(last) == <<"event">> \o Visited(checks) \o last
           walk(last) == <<"confirm", <<"event">> \o TS!Nodes(checks) \o last>>
<1>1. \/ /\ TS!Accepted(checks)
         /\ TS!Record(c, settled, walk(<<"transition", "noop">>), "accepted")
      \/ /\ ~TS!Accepted(checks)
         /\ TS!Record(c, compensated, walk(<<"reject", "compensate", "seq">>), TS!Reason(checks))
      \/ /\ ~TS!Accepted(checks)
         /\ TS!Record(c, state, walk(<<"reject", "compensate", "noop">>), TS!Reason(checks))
  BY Zenon DEF TS!ConfirmOrRelease
<1>2. DOMAIN settled = DOMAIN state /\ DOMAIN compensated = DOMAIN state
  OBVIOUS
<1> DEFINE p1 == h # TS!NoHold
           p2 == c.user = h.user
           p3 == h.status = "held"
           p4 == state.clock < h.deadline
           b1 == IF state.clock = TS!NoEvent THEN "no-such-event" ELSE "no-such-hold"
           b3 == IF h.status = "confirmed" THEN "hold-confirmed" ELSE "hold-released"
<1>3. /\ checks = << <<"hold", p1, b1>>, <<"owner", p2, "not-owner">>,
                     <<"terminal", p3, b3>>, <<"expired", p4, "hold-expired">> >>
      /\ p1 \in BOOLEAN /\ p2 \in BOOLEAN /\ p3 \in BOOLEAN /\ p4 \in BOOLEAN
  BY DEF TS!HoldChecks
<1>4. /\ "event" \in Ids(g) /\ Arrow(g, "event", "hold")
      /\ Arrow(g, "hold", "owner") /\ Arrow(g, "owner", "terminal")
      /\ Arrow(g, "terminal", "expired") /\ Arrow(g, "expired", "transition")
      /\ Arrow(g, "hold", "reject") /\ Arrow(g, "owner", "reject")
      /\ Arrow(g, "terminal", "reject") /\ Arrow(g, "expired", "reject")
      /\ Arrow(g, "reject", "compensate") /\ Arrow(g, "compensate", "seq")
      /\ Arrow(g, "compensate", "noop") /\ Arrow(g, "transition", "noop")
  BY ConfirmArrows
<1>5. g = TS!TicketingDiagrams["confirm"]
  BY DEF TS!TicketingDiagrams
<1> HIDE DEF g, h, checks, p1, p2, p3, p4, b1, b3, settled, compensated
<1>6. \/ Refused(checks) = {} /\ Walk(g, Visited(checks), "hold", "expired")
      \/ /\ Refused(checks) # {}
         /\ \/ ~p1 /\ Walk(g, Visited(checks), "hold", "hold")
            \/ ~p2 /\ Walk(g, Visited(checks), "hold", "owner")
            \/ ~p3 /\ Walk(g, Visited(checks), "hold", "terminal")
            \/ ~p4 /\ Walk(g, Visited(checks), "hold", "expired")
  <2>1. Arrow(g, "hold", "owner") /\ Arrow(g, "owner", "terminal") /\ Arrow(g, "terminal", "expired")
    BY <1>4
  <2>2. ChecksAre(checks, "hold", p1, "owner", p2, "terminal", p3, "expired", p4)
    BY <1>3 DEF ChecksAre
  <2>3. FourWalks(g, checks, "hold", p1, "owner", p2, "terminal", p3, "expired", p4)
    BY <2>1, <2>2, FourWalked
  <2> QED BY <2>3 DEF FourWalks
<1>7. /\ Walk(g, <<"event">>, "event", "event")
      /\ Walk(g, <<"transition", "noop">>, "transition", "noop")
      /\ Walk(g, <<"reject", "compensate", "seq">>, "reject", "seq")
      /\ Walk(g, <<"reject", "compensate", "noop">>, "reject", "noop")
  BY <1>4, ShortWalks
<1>8. PICK last, y : /\ state'.walk = <<"confirm", path(last)>> /\ DOMAIN state' = DOMAIN state
                     /\ Walk(g, path(last), "event", y)
  <2>1. CASE Refused(checks) = {}
    <3>1. /\ state'.walk = <<"confirm", path(<<"transition", "noop">>)>>
          /\ DOMAIN state' = DOMAIN state
      BY <1>1, <1>2, <2>1, CommandsAreNoted, ChecksAreVisited, AcceptedUnlessRefused
    <3>2. Walk(g, path(<<"transition", "noop">>), "event", "noop")
      BY <1>4, <1>6, <1>7, <2>1, WalkThrough
    <3> QED BY <3>1, <3>2
  <2>2. CASE Refused(checks) # {}
    <3>1. /\ \/ state'.walk = <<"confirm", path(<<"reject", "compensate", "seq">>)>>
             \/ state'.walk = <<"confirm", path(<<"reject", "compensate", "noop">>)>>
          /\ DOMAIN state' = DOMAIN state
      <4>1. \/ TS!Record(c, compensated, <<"confirm", path(<<"reject", "compensate", "seq">>)>>,
                         TS!Reason(checks))
            \/ TS!Record(c, state, <<"confirm", path(<<"reject", "compensate", "noop">>)>>,
                         TS!Reason(checks))
        <5>1. ~TS!Accepted(checks)
          BY <2>2, AcceptedUnlessRefused
        <5>2. TS!Nodes(checks) = Visited(checks)
          BY ChecksAreVisited
        <5> QED BY <1>1, <5>1, <5>2, Zenon
      <4> HIDE DEF path
      <4> QED BY <1>2, <4>1, CommandsAreNoted
    <3>2. /\ Walk(g, path(<<"reject", "compensate", "seq">>), "event", "seq")
          /\ Walk(g, path(<<"reject", "compensate", "noop">>), "event", "noop")
      BY <1>4, <1>6, <1>7, <2>2, WalkThrough
    <3> QED BY <3>1, <3>2
  <2> QED BY <2>1, <2>2
<1> HIDE DEF path
<1> QED BY <1>4, <1>5, <1>8, ShownAs

(* A repeated request is drawn to its replay, or to its conflict.           *)
LEMMA TicketAgainShows ==
  ASSUME "walk" \in DOMAIN state, NEW c,
         \/ TS!Replay(c, <<"request", TS!Gate \o <<"equal", "replay">> >>)
         \/ TS!Conflict(c, <<"request", TS!Gate \o <<"equal", "conflict">> >>)
  PROVE  Shows(TS!TicketingDiagrams)
<1>1. /\ "event" \in Ids(TS!RequestDiagram)
      /\ TS!RequestDiagram = TS!TicketingDiagrams["request"]
  BY RequestArrows DEF TS!TicketingDiagrams
<1>2. /\ \/ state'.walk = <<"request", TS!Gate \o <<"equal", "replay">> >>
         \/ state'.walk = <<"request", TS!Gate \o <<"equal", "conflict">> >>
      /\ DOMAIN state' = DOMAIN state
  BY CommandsAreNoted
<1> QED BY <1>1, <1>2, TicketWalks, ShownAs

(* So everything the ticketing system does is drawn.                        *)
LEMMA TicketingShows ==
  "walk" \in DOMAIN state /\ TS!TicketingStep => Shows(TS!TicketingDiagrams)
BY TicketDispatches, TicketHoldShows, TicketConfirmShows, TicketAgainShows DEF TS!TicketingStep

-----------------------------------------------------------------------------
(* The commands of the hotel along its diagrams.                            *)

(* A command decided notes the walk it was given, and no field comes or     *)
(* goes.                                                                    *)
LEMMA HotelDecides ==
  ASSUME "walk" \in DOMAIN state, NEW c, NEW checks, NEW walk, NEW s, DOMAIN s = DOMAIN state,
         HR!Decide(c, checks, walk, s)
  PROVE  state'.walk = walk /\ DOMAIN state' = DOMAIN state
<1>1. PICK u, outcome : HR!Record(c, u, walk, outcome) /\ DOMAIN u = DOMAIN state
  BY Zenon DEF HR!Decide
<1> QED BY <1>1, CommandsAreNoted

(* A command of the hotel decided along one of its diagrams.                *)
LEMMA HotelShows ==
  ASSUME "walk" \in DOMAIN state, NEW c, NEW checks, NEW s, DOMAIN s = DOMAIN state,
         NEW name, NEW g, g = HR!HotelDiagrams[name],
         NEW x \in Ids(g), NEW start, NEW ok, NEW ko,
         \E z : Walk(g, start \o Visited(checks)
                          \o (IF Refused(checks) = {} THEN ok ELSE ko), x, z),
         HR!Decide(c, checks,
           <<name, start \o HR!Nodes(checks) \o (IF HR!Accepted(checks) THEN ok ELSE ko)>>, s)
  PROVE  Shows(HR!HotelDiagrams)
<1> DEFINE path == start \o Visited(checks) \o (IF Refused(checks) = {} THEN ok ELSE ko)
<1>1. HR!Nodes(checks) = Visited(checks)
  BY ChecksAreVisited
<1>2. (IF HR!Accepted(checks) THEN ok ELSE ko) = (IF Refused(checks) = {} THEN ok ELSE ko)
  BY AcceptedUnlessRefused
<1>3. HR!Decide(c, checks, <<name, path>>, s)
  BY <1>1, <1>2, Zenon
<1>4. \E z : Walk(g, path, x, z)
  OBVIOUS
<1> HIDE DEF path
<1>5. state'.walk = <<name, path>> /\ DOMAIN state' = DOMAIN state
  BY <1>3, HotelDecides
<1> QED BY <1>4, <1>5, ShownAs

(* A command that configures the hotel goes along the diagram of the        *)
(* configuration.                                                           *)
LEMMA ConfigureShows ==
  ASSUME "walk" \in DOMAIN state, NEW c, NEW checks, NEW s, DOMAIN s = DOMAIN state,
         NEW a \in {"property", "exists"}, NEW yes \in {"create", "createRoom", "init", "rate"},
         Ways(HR!ConfigureDiagram, checks, a, yes, "reject"),
         HR!Decide(c, checks, HR!ConfigureWalk(checks, yes), s)
  PROVE  Shows(HR!HotelDiagrams)
<1> DEFINE g == HR!ConfigureDiagram
           start == <<"event", "type">>
           ok == <<yes, "outcome">>
           ko == <<"reject", "outcome">>
<1>1. /\ "event" \in Ids(g) /\ Arrow(g, "event", "type") /\ Arrow(g, "type", a)
      /\ Arrow(g, yes, "outcome") /\ Arrow(g, "reject", "outcome")
  BY ConfigureArrows
<1>2. g = HR!HotelDiagrams["configure"]
  BY DEF HR!HotelDiagrams
<1>3. Ways(g, checks, a, yes, "reject")
  OBVIOUS
<1>4. HR!ConfigureWalk(checks, yes)
        = <<"configure", start \o HR!Nodes(checks) \o (IF HR!Accepted(checks) THEN ok ELSE ko)>>
  <2>1. <<IF HR!Accepted(checks) THEN yes ELSE "reject", "outcome">>
          = IF HR!Accepted(checks) THEN ok ELSE ko
    OBVIOUS
  <2> HIDE DEF ok, ko
  <2> QED BY <2>1, Zenon DEF HR!ConfigureWalk
<1> HIDE DEF g
<1>5. /\ Walk(g, start, "event", "type") /\ Walk(g, ok, yes, "outcome")
      /\ Walk(g, ko, "reject", "outcome")
  BY <1>1, ShortWalks
<1> HIDE DEF start, ok, ko
<1>6. HR!Decide(c, checks,
        <<"configure", start \o HR!Nodes(checks) \o (IF HR!Accepted(checks) THEN ok ELSE ko)>>, s)
  BY <1>4
<1>7. \E z : Walk(g, start \o Visited(checks) \o (IF Refused(checks) = {} THEN ok ELSE ko),
                  "event", z)
  BY <1>1, <1>3, <1>5, WayOn
<1> QED BY <1>1, <1>2, <1>6, <1>7, HotelShows

(* A property is created along it, ...                                      *)
LEMMA HotelPropertyShows ==
  ASSUME "walk" \in DOMAIN state, NEW c, HR!CreateProperty(c)
  PROVE  Shows(HR!HotelDiagrams)
<1> DEFINE g == HR!ConfigureDiagram
           p == ~state.exists
           checks == << <<"property", p, "property-exists">> >>
           s == [state EXCEPT !.exists = TRUE]
<1>1. HR!Decide(c, checks, HR!ConfigureWalk(checks, "create"), s)
  BY Zenon DEF HR!CreateProperty
<1>2. DOMAIN s = DOMAIN state /\ p \in BOOLEAN /\ checks = << <<"property", p, "property-exists">> >>
  OBVIOUS
<1>3. Arrow(g, "property", "create") /\ Arrow(g, "property", "reject")
  BY ConfigureArrows
<1> HIDE DEF g, p, checks, s
<1>4. Ways(g, checks, "property", "create", "reject")
  BY <1>2, <1>3, OneWalked DEF Ways
<1> QED BY <1>1, <1>2, <1>4, ConfigureShows DEF g

(* ... a room type, ...                                                     *)
LEMMA HotelRoomTypeShows ==
  ASSUME "walk" \in DOMAIN state, NEW c, HR!CreateRoomType(c)
  PROVE  Shows(HR!HotelDiagrams)
<1> DEFINE g == HR!ConfigureDiagram
           fresh == c.room \notin state.types
           exists == <<"exists", state.exists, "no-such-property">>
           room == <<"room", TRUE, "none">>
           roomOp == <<"roomOp", FALSE, "room-type-exists">>
           two == <<exists, room>>
           three == <<exists, room, roomOp>>
           checks == two \o (IF fresh THEN <<>> ELSE <<roomOp>>)
           s == [state EXCEPT !.types = @ \cup {c.room}]
<1>1. HR!Decide(c, checks, HR!ConfigureWalk(checks, "createRoom"), s)
  BY Zenon DEF HR!CreateRoomType
<1>2. DOMAIN s = DOMAIN state
  OBVIOUS
<1>3. /\ Arrow(g, "exists", "room") /\ Arrow(g, "room", "roomOp")
      /\ Arrow(g, "room", "createRoom") /\ Arrow(g, "exists", "reject")
      /\ Arrow(g, "roomOp", "reject")
  BY ConfigureArrows
<1> HIDE DEF g, s
<1>4. Ways(g, checks, "exists", "createRoom", "reject")
  <2>1. CASE fresh
    <3>1. checks = two
      <4> HIDE DEF exists, room, roomOp
      <4> QED BY <2>1
    <3>2. /\ DOMAIN two = 1..2 /\ Len(two) = 2
          /\ two[1][1] = "exists" /\ two[2][1] = "room" /\ two[2][2] = TRUE
      OBVIOUS
    <3> HIDE DEF two, checks, fresh, three, exists, room, roomOp
    <3>3. /\ \A i \in 1..(2 - 1) : Arrow(g, two[i][1], two[i + 1][1])
          /\ 2 \in Nat \ {0} /\ \A i \in 1..2 : i = 1 \/ i = 2
      BY <1>3, <3>2
    <3>4. \/ Refused(two) = {} /\ Walk(g, Visited(two), two[1][1], two[2][1])
          \/ /\ Refused(two) # {}
             /\ \E k \in 1..2 : ~two[k][2] /\ Walk(g, Visited(two), two[1][1], two[k][1])
      BY <3>2, <3>3, ChecksWalk
    <3> QED BY <1>3, <3>1, <3>2, <3>3, <3>4 DEF Ways
  <2>2. CASE ~fresh
    <3>1. checks = three
      <4> HIDE DEF exists, room, roomOp
      <4>1. (IF fresh THEN <<>> ELSE <<roomOp>>) = <<roomOp>>
        BY <2>2
      <4>2. two \o <<roomOp>> = three
        BY TwoAndOne
      <4> HIDE DEF two, three
      <4> QED BY <4>1, <4>2
    <3>2. /\ DOMAIN three = 1..3 /\ Len(three) = 3
          /\ three[1][1] = "exists" /\ three[2][1] = "room" /\ three[2][2] = TRUE
          /\ three[3][1] = "roomOp" /\ three[3][2] = FALSE
      OBVIOUS
    <3> HIDE DEF two, checks, fresh, three, exists, room, roomOp
    <3>3. /\ \A i \in 1..(3 - 1) : Arrow(g, three[i][1], three[i + 1][1])
          /\ 3 \in Nat \ {0} /\ \A i \in 1..3 : i = 1 \/ i = 2 \/ i = 3
      <4>1. \A i \in 1..(3 - 1) : i = 1 \/ i = 2
        OBVIOUS
      <4> QED BY <1>3, <3>2, <4>1
    <3>4. \/ Refused(three) = {} /\ Walk(g, Visited(three), three[1][1], three[3][1])
          \/ /\ Refused(three) # {}
             /\ \E k \in 1..3 : ~three[k][2] /\ Walk(g, Visited(three), three[1][1], three[k][1])
      BY <3>2, <3>3, ChecksWalk
    <3>5. Refused(three) # {}
      BY <3>2 DEF Refused
    <3> QED BY <1>3, <3>1, <3>2, <3>3, <3>4, <3>5 DEF Ways
  <2> QED BY <2>1, <2>2
<1> HIDE DEF checks
<1> QED BY <1>1, <1>2, <1>4, ConfigureShows DEF g

(* The checks of a night are drawn one after the other, whichever the last  *)
(* of them asks.                                                            *)
LEMMA NightWays ==
  ASSUME NEW c, NEW p \in BOOLEAN, NEW reason, NEW yes \in {"init", "rate"}
  PROVE  Ways(HR!ConfigureDiagram, HR!NightChecks(c, p, reason), "exists", yes, "reject")
<1> DEFINE g == HR!ConfigureDiagram
           checks == HR!NightChecks(c, p, reason)
<1>1. /\ DOMAIN checks = 1..5 /\ Len(checks) = 5
      /\ checks[1][1] = "exists" /\ checks[2][1] = "room" /\ checks[3][1] = "roomOp"
      /\ checks[4][1] = "night" /\ checks[5][1] = "nightOp"
      /\ checks[3][2] = TRUE /\ checks[4][2] = TRUE
  BY DEF HR!NightChecks
<1>2. /\ Arrow(g, "exists", "room") /\ Arrow(g, "room", "roomOp") /\ Arrow(g, "roomOp", "night")
      /\ Arrow(g, "night", "nightOp") /\ Arrow(g, "nightOp", yes)
      /\ Arrow(g, "exists", "reject") /\ Arrow(g, "room", "reject")
      /\ Arrow(g, "nightOp", "reject")
  BY ConfigureArrows
<1> HIDE DEF g, checks
<1>3. /\ \A i \in 1..(5 - 1) : Arrow(g, checks[i][1], checks[i + 1][1])
      /\ 5 \in Nat \ {0} /\ \A i \in 1..5 : i = 1 \/ i = 2 \/ i = 3 \/ i = 4 \/ i = 5
  <2>1. \A i \in 1..(5 - 1) : i = 1 \/ i = 2 \/ i = 3 \/ i = 4
    OBVIOUS
  <2> QED BY <1>1, <1>2, <2>1
<1>4. \/ Refused(checks) = {} /\ Walk(g, Visited(checks), checks[1][1], checks[5][1])
      \/ /\ Refused(checks) # {}
         /\ \E k \in 1..5 : ~checks[k][2] /\ Walk(g, Visited(checks), checks[1][1], checks[k][1])
  BY <1>1, <1>3, ChecksWalk
<1>5. Ways(g, checks, "exists", yes, "reject")
  BY <1>1, <1>2, <1>3, <1>4 DEF Ways
<1> QED BY <1>5 DEF g, checks

(* ... and a night, or the rate of one.                                     *)
LEMMA HotelNightShows ==
  ASSUME "walk" \in DOMAIN state, NEW c, HR!InitNight(c) \/ HR!SetRate(c)
  PROVE  Shows(HR!HotelDiagrams)
<1>1. CASE HR!InitNight(c)
  <2> DEFINE p == HR!Night(c) \notin DOMAIN state.nights
             checks == HR!NightChecks(c, p, "night-exists")
             s == [state EXCEPT !.nights = HR!Put(@, HR!Night(c),
                     [capacity |-> c.capacity, rate |-> c.rate, available |-> c.capacity])]
  <2>1. HR!Decide(c, checks, HR!ConfigureWalk(checks, "init"), s)
    BY <1>1, Zenon DEF HR!InitNight
  <2>2. DOMAIN s = DOMAIN state /\ p \in BOOLEAN
    OBVIOUS
  <2> HIDE DEF p, s
  <2>3. Ways(HR!ConfigureDiagram, checks, "exists", "init", "reject")
    BY <2>2, NightWays
  <2> HIDE DEF checks
  <2> QED BY <2>1, <2>2, <2>3, ConfigureShows
<1>2. CASE HR!SetRate(c)
  <2> DEFINE p == HR!Night(c) \in DOMAIN state.nights
             checks == HR!NightChecks(c, p, "night-not-configured")
             nights == [state.nights EXCEPT ![HR!Night(c)].rate = c.rate]
             s == [state EXCEPT !.nights[HR!Night(c)].rate = c.rate]
  <2>1. HR!Decide(c, checks, HR!ConfigureWalk(checks, "rate"), s)
    BY <1>2, Zenon DEF HR!SetRate
  <2>2. DOMAIN s = DOMAIN state
    <3>1. s = [state EXCEPT !.nights = nights]
      OBVIOUS
    <3> HIDE DEF s, nights
    <3> QED BY <3>1
  <2>3. p \in BOOLEAN
    OBVIOUS
  <2> HIDE DEF p, s
  <2>4. Ways(HR!ConfigureDiagram, checks, "exists", "rate", "reject")
    BY <2>3, NightWays
  <2> HIDE DEF checks
  <2> QED BY <2>1, <2>2, <2>4, ConfigureShows
<1> QED BY <1>1, <1>2

(* A reservation is drawn to the check that refuses it, or to its booking.  *)
LEMMA HotelReserveShows ==
  ASSUME "walk" \in DOMAIN state, NEW c, HR!Reserve(c)
  PROVE  Shows(HR!HotelDiagrams)
<1> DEFINE g == HR!ReserveDiagram
           configured == state.exists /\ c.room \in state.types
                           /\ HR!Stay(c) \subseteq DOMAIN state.nights
           checks == << <<"prop", state.exists, "no-such-property">>,
                        <<"room", c.room \in state.types, "no-such-room-type">>,
                        <<"scan", TRUE, "none">>,
                        <<"missing", configured, "night-not-configured">>,
                        <<"capacity", TRUE, "none">>,
                        <<"short", configured /\ HR!EnoughRoom(c), "insufficient-capacity">> >>
           total == HR!SumOver([n \in HR!Stay(c) |-> c.quantity * state.nights[n].rate])
           start == <<"call", "replay">>
           ok == <<"total", "decrement", "seq", "booking", "event", "outcome">>
           ko == <<"reject", "outcome">>
           s == [state EXCEPT
             !.nights = HR!Changed(HR!Stay(c), -c.quantity),
             !.bookings = HR!Put(@, c.rid,
                [guest |-> c.guest, room |-> c.room, checkin |-> c.checkin,
                 checkout |-> c.checkout, quantity |-> c.quantity, total |-> total,
                 state |-> "confirmed", seq |-> Len(state.events) + 1]),
             !.events = Append(@, [type |-> "reserved", rid |-> c.rid, booking |-> c.rid,
                                   total |-> total])]
<1>1. HR!Decide(c, checks,
        <<"reserve", start \o HR!Nodes(checks) \o (IF HR!Accepted(checks) THEN ok ELSE ko)>>, s)
  BY Zenon DEF HR!Reserve
<1>2. DOMAIN s = DOMAIN state
  OBVIOUS
<1>3. /\ DOMAIN checks = 1..6 /\ Len(checks) = 6
      /\ checks[1][1] = "prop" /\ checks[2][1] = "room" /\ checks[3][1] = "scan"
      /\ checks[4][1] = "missing" /\ checks[5][1] = "capacity" /\ checks[6][1] = "short"
      /\ checks[3][2] = TRUE /\ checks[5][2] = TRUE
  <2> HIDE DEF configured, s
  <2> QED OBVIOUS
<1>4. /\ "call" \in Ids(g) /\ Arrow(g, "call", "replay") /\ Arrow(g, "replay", "prop")
      /\ Arrow(g, "prop", "room") /\ Arrow(g, "room", "scan") /\ Arrow(g, "scan", "missing")
      /\ Arrow(g, "missing", "capacity") /\ Arrow(g, "capacity", "short")
      /\ Arrow(g, "prop", "reject") /\ Arrow(g, "room", "reject")
      /\ Arrow(g, "missing", "reject") /\ Arrow(g, "short", "reject")
      /\ Arrow(g, "short", "total") /\ Arrow(g, "total", "decrement")
      /\ Arrow(g, "decrement", "seq") /\ Arrow(g, "seq", "booking")
      /\ Arrow(g, "booking", "event") /\ Arrow(g, "event", "outcome")
      /\ Arrow(g, "reject", "outcome")
  BY ReserveArrows
<1>5. g = HR!HotelDiagrams["reserve"]
  BY DEF HR!HotelDiagrams
<1> HIDE DEF g, checks, s, configured, total
<1>6. Ways(g, checks, "prop", "total", "reject")
  <2>1. /\ \A i \in 1..(6 - 1) : i = 1 \/ i = 2 \/ i = 3 \/ i = 4 \/ i = 5
        /\ \A i \in 1..6 : i = 1 \/ i = 2 \/ i = 3 \/ i = 4 \/ i = 5 \/ i = 6
        /\ 6 \in Nat \ {0}
    OBVIOUS
  <2>2. \A i \in 1..(6 - 1) : Arrow(g, checks[i][1], checks[i + 1][1])
    BY <1>3, <1>4, <2>1
  <2>3. \/ Refused(checks) = {} /\ Walk(g, Visited(checks), checks[1][1], checks[6][1])
        \/ /\ Refused(checks) # {}
           /\ \E k \in 1..6 : ~checks[k][2] /\ Walk(g, Visited(checks), checks[1][1], checks[k][1])
    BY <1>3, <2>1, <2>2, ChecksWalk
  <2> QED BY <1>3, <1>4, <2>1, <2>3 DEF Ways
<1>7. /\ Walk(g, start, "call", "replay") /\ Walk(g, ok, "total", "outcome")
      /\ Walk(g, ko, "reject", "outcome")
  BY <1>4, ShortWalks
<1> HIDE DEF start, ok, ko
<1>8. \E z : Walk(g, start \o Visited(checks) \o (IF Refused(checks) = {} THEN ok ELSE ko),
                  "call", z)
  BY <1>4, <1>6, <1>7, WayOn
<1> QED BY <1>1, <1>2, <1>4, <1>5, <1>8, HotelShows

(* So is a cancellation.                                                    *)
LEMMA HotelCancelShows ==
  ASSUME "walk" \in DOMAIN state, NEW c, HR!CancelBooking(c)
  PROVE  Shows(HR!HotelDiagrams)
<1> DEFINE g == HR!CancelDiagram
           b == IF c.booking \in DOMAIN state.bookings THEN state.bookings[c.booking]
                ELSE HR!NoBooking
           p2 == b # HR!NoBooking
           p3 == c.guest = b.guest
           p4 == b.state # "cancelled"
           checks == << <<"prop", state.exists, "no-such-property">>,
                        <<"booking", p2, "no-such-booking">>, <<"guest", p3, "not-guest">>,
                        <<"state", p4, "booking-cancelled">> >>
           start == <<"call", "replay">>
           ok == <<"nights", "restore", "mark", "seq", "event", "outcome">>
           ko == <<"reject", "outcome">>
           bookings == [state.bookings EXCEPT ![c.booking].state = "cancelled"]
           row == [type |-> "cancelled", rid |-> c.rid, booking |-> c.booking,
                   total |-> b.total]
           s == [state EXCEPT
             !.nights = HR!Changed(HR!Stay(b), b.quantity),
             !.bookings[c.booking].state = "cancelled",
             !.events = Append(@, row)]
<1>1. HR!Decide(c, checks,
        <<"cancel", start \o HR!Nodes(checks) \o (IF HR!Accepted(checks) THEN ok ELSE ko)>>, s)
  BY Zenon DEF HR!CancelBooking
<1>2. DOMAIN s = DOMAIN state
  <2> HIDE DEF b, row
  <2> DEFINE nights == HR!Changed(HR!Stay(b), b.quantity)
             events == Append(state.events, row)
  <2>1. s = [state EXCEPT !.nights = nights, !.bookings = bookings, !.events = events]
    OBVIOUS
  <2> HIDE DEF s, nights, bookings, events
  <2> QED BY <2>1
<1> HIDE DEF b, p2, p3, p4, s
<1>3. /\ DOMAIN checks = 1..4 /\ Len(checks) = 4
      /\ checks[1][1] = "prop" /\ checks[2][1] = "booking" /\ checks[3][1] = "guest"
      /\ checks[4][1] = "state"
  OBVIOUS
<1>4. /\ "call" \in Ids(g) /\ Arrow(g, "call", "replay") /\ Arrow(g, "replay", "prop")
      /\ Arrow(g, "prop", "booking") /\ Arrow(g, "booking", "guest") /\ Arrow(g, "guest", "state")
      /\ Arrow(g, "prop", "reject") /\ Arrow(g, "booking", "reject")
      /\ Arrow(g, "guest", "reject") /\ Arrow(g, "state", "reject")
      /\ Arrow(g, "state", "nights") /\ Arrow(g, "nights", "restore")
      /\ Arrow(g, "restore", "mark") /\ Arrow(g, "mark", "seq")
      /\ Arrow(g, "seq", "event") /\ Arrow(g, "event", "outcome")
      /\ Arrow(g, "reject", "outcome")
  BY HotelCancelArrows
<1>5. g = HR!HotelDiagrams["cancel"]
  BY DEF HR!HotelDiagrams
<1> HIDE DEF g, checks
<1>6. Ways(g, checks, "prop", "nights", "reject")
  <2>1. /\ \A i \in 1..(4 - 1) : i = 1 \/ i = 2 \/ i = 3
        /\ \A i \in 1..4 : i = 1 \/ i = 2 \/ i = 3 \/ i = 4
        /\ 4 \in Nat \ {0}
    OBVIOUS
  <2>2. \A i \in 1..(4 - 1) : Arrow(g, checks[i][1], checks[i + 1][1])
    BY <1>3, <1>4, <2>1
  <2>3. \/ Refused(checks) = {} /\ Walk(g, Visited(checks), checks[1][1], checks[4][1])
        \/ /\ Refused(checks) # {}
           /\ \E k \in 1..4 : ~checks[k][2] /\ Walk(g, Visited(checks), checks[1][1], checks[k][1])
    BY <1>3, <2>1, <2>2, ChecksWalk
  <2> QED BY <1>3, <1>4, <2>1, <2>3 DEF Ways
<1>7. /\ Walk(g, start, "call", "replay") /\ Walk(g, ok, "nights", "outcome")
      /\ Walk(g, ko, "reject", "outcome")
  BY <1>4, ShortWalks
<1> HIDE DEF start, ok, ko
<1>8. \E z : Walk(g, start \o Visited(checks) \o (IF Refused(checks) = {} THEN ok ELSE ko),
                  "call", z)
  BY <1>4, <1>6, <1>7, WayOn
<1> QED BY <1>1, <1>2, <1>4, <1>5, <1>8, HotelShows

(* A repeated request is drawn in the diagram of what it repeats.           *)
LEMMA HotelAgainShows ==
  ASSUME "walk" \in DOMAIN state, NEW c, NEW again \in {"replayed", "conflict"},
         HR!Replay(c, HR!Repeated(c, again)) \/ HR!Conflict(c, HR!Repeated(c, again))
  PROVE  Shows(HR!HotelDiagrams)
<1>1. state'.walk = HR!Repeated(c, again) /\ DOMAIN state' = DOMAIN state
  BY CommandsAreNoted
<1>2. CASE c.type = "cancel"
  <2> DEFINE last == IF again = "replayed" THEN "noop" ELSE again
             path == <<"call", "replay", last>>
  <2>1. state'.walk = <<"cancel", path>>
    BY <1>1, <1>2 DEF HR!Repeated
  <2>2. /\ "call" \in Ids(HR!CancelDiagram) /\ Walk(HR!CancelDiagram, path, "call", last)
        /\ HR!CancelDiagram = HR!HotelDiagrams["cancel"]
    <3>1. /\ "call" \in Ids(HR!CancelDiagram) /\ Arrow(HR!CancelDiagram, "call", "replay")
          /\ Arrow(HR!CancelDiagram, "replay", last)
      BY HotelCancelArrows
    <3> HIDE DEF last
    <3> QED BY <3>1, ShortWalks DEF HR!HotelDiagrams
  <2> HIDE DEF path
  <2> QED BY <1>1, <2>1, <2>2, ShownAs
<1>3. CASE c.type # "cancel"
  <2> DEFINE path == <<"call", "replay", again>>
  <2>1. state'.walk = <<"reserve", path>>
    BY <1>1, <1>3 DEF HR!Repeated
  <2>2. /\ "call" \in Ids(HR!ReserveDiagram) /\ Walk(HR!ReserveDiagram, path, "call", again)
        /\ HR!ReserveDiagram = HR!HotelDiagrams["reserve"]
    <3>1. /\ "call" \in Ids(HR!ReserveDiagram) /\ Arrow(HR!ReserveDiagram, "call", "replay")
          /\ Arrow(HR!ReserveDiagram, "replay", again)
      BY ReserveArrows
    <3> QED BY <3>1, ShortWalks DEF HR!HotelDiagrams
  <2> HIDE DEF path
  <2> QED BY <1>1, <2>1, <2>2, ShownAs
<1> QED BY <1>2, <1>3

(* So everything the hotel does is drawn.                                   *)
LEMMA HotelsShow ==
  "walk" \in DOMAIN state /\ HR!HotelStep => Shows(HR!HotelDiagrams)
BY HotelPropertyShows, HotelRoomTypeShows, HotelNightShows, HotelReserveShows,
   HotelCancelShows, HotelAgainShows DEF HR!HotelStep
===============================================================================
