---------------------------- MODULE AtlasEntries ----------------------------
(***************************************************************************)
(* What the atlas shows beside what it shows it of: one entry of the       *)
(* atlas, the program it draws running, or one of its overviews laid out.  *)
(***************************************************************************)
EXTENDS ReferenceSolutions

CONSTANTS
  ModuleCommands,  \* of each reference module, the commands its clients send
  MaxConflicts,    \* bound: conflicting commands counted for one request
  BankUsers,       \* the users of the bank
  LayoutInputs     \* overviews to lay out

(* A slug names a reference solution, never the overviews or a module, and *)
(* commands go to modules.                                                 *)
ASSUME EntriesAssumption ==
  /\ Slugs \cap {"layout", "ticketing-system", "payment-system", "stock-exchange",
                 "hotel-reservation", "job-scheduler", "bank-transfer", "auction"} = {}
  /\ DOMAIN ModuleCommands \subseteq {"ticketing-system", "payment-system",
       "stock-exchange", "hotel-reservation", "job-scheduler", "bank-transfer", "auction"}

(* An overview lists each of its nodes once.                               *)
ASSUME LayoutAssumption ==
  \A g \in LayoutInputs :
    LET c == g.columns IN
    /\ c \in Seq(Seq(UNION {Range(c[i]) : i \in DOMAIN c}))
    /\ \A i, k \in DOMAIN c : \A j \in DOMAIN c[i], n \in DOMAIN c[k] :
         c[i][j] = c[k][n] => i = k /\ j = n
    /\ g.edges \in Seq(Range(g.edges))

(* One listing; its bidders are users, and nobody is none of them.         *)
ASSUME AuctionAssumption ==
  \A c \in ModuleCommands["auction"] :
    /\ c.type = "list" => c = [type |-> "list"]
    /\ c.type = "bid" => c.bidder # "nobody" /\ c.amount \in Int

(* Request ids name holds, and none of them is called none; times are      *)
(* numbers.                                                                *)
ASSUME TicketsAssumption ==
  \A c \in ModuleCommands["ticketing-system"] :
    /\ c.rid # "none"
    /\ c.type = "clock" => c.now \in Int
    /\ c.type = "hold" => c.deadline \in Int

ASSUME JobsAssumption ==
  \A c \in ModuleCommands["job-scheduler"] : c.type = "clock" => c.clock \in Int

(* As hld-hotel-reservation's handlers demand of a command.                *)
ASSUME HotelAssumption ==
  \A c \in ModuleCommands["hotel-reservation"] :
    /\ c.type = "init-night" => c.capacity \in Nat
    /\ c.type = "reserve" => c.quantity \in Nat

(* The client functions take positive amounts, and none of them targets the *)
(* clearing account.                                                       *)
ASSUME PaymentsAssumption ==
  \A c \in ModuleCommands["payment-system"] :
    /\ c.type = "fund" => c.account # "clearing" /\ c.amount \in Nat \ {0}
    /\ c.type = "charge" => c.amount \in Nat \ {0}
    /\ c.type = "refund" => c.amount \in Nat \ {0}

(* Amounts are whole numbers, which neither the client nor the topology    *)
(* checks further; a transfer id is appended once, as the README of the    *)
(* challenge has it.                                                       *)
ASSUME BankAssumption ==
  /\ IsFiniteSet(BankUsers)
  /\ \A c \in ModuleCommands["bank-transfer"] :
       /\ c.amt \in Int
       /\ c.type = "deposit" => c.user \in BankUsers
       /\ c.type = "transfer" => {c.from, c.to} \subseteq BankUsers
  /\ \A c, d \in ModuleCommands["bank-transfer"] :
       c.type = "transfer" /\ d.type = "transfer" /\ c.rid = d.rid => c = d

(* Prices and quantities are positive.                                     *)
ASSUME StockAssumption ==
  \A c \in ModuleCommands["stock-exchange"] : c.type = "submit" =>
    /\ c.side \in {"buy", "sell"} /\ c.tif \in {"gtc", "ioc"}
    /\ c.price \in Nat \ {0} /\ c.qty \in Nat \ {0}

L  == INSTANCE Layout WITH Inputs <- LayoutInputs
TS == INSTANCE Ticketing WITH Commands <- ModuleCommands["ticketing-system"]
PS == INSTANCE Payment WITH Commands <- ModuleCommands["payment-system"]
SE == INSTANCE StockExchange WITH Commands <- ModuleCommands["stock-exchange"]
HR == INSTANCE HotelReservation WITH Commands <- ModuleCommands["hotel-reservation"]
JS == INSTANCE JobScheduler WITH Commands <- ModuleCommands["job-scheduler"]
BT == INSTANCE BankTransfer WITH Commands <- ModuleCommands["bank-transfer"],
                                 Users <- BankUsers
AU == INSTANCE Auction WITH Commands <- ModuleCommands["auction"]
vars == <<entry, state>>

DiagramsOf(module) ==
  CASE module = "ticketing-system"  -> TS!TicketingDiagrams
    [] module = "payment-system"    -> PS!PaymentDiagrams
    [] module = "stock-exchange"    -> SE!StockDiagrams
    [] module = "hotel-reservation" -> HR!HotelDiagrams
    [] module = "job-scheduler"     -> JS!JobDiagrams
    [] module = "bank-transfer"     -> BT!BankDiagrams
    [] module = "auction"           -> AU!AuctionDiagrams

Init ==
  \/ SolutionInit
  \/ entry = "layout"            /\ L!LayoutInit
  \/ entry = "ticketing-system"  /\ TS!TicketingInit
  \/ entry = "payment-system"    /\ PS!PaymentInit
  \/ entry = "stock-exchange"    /\ SE!StockInit
  \/ entry = "hotel-reservation" /\ HR!HotelInit
  \/ entry = "job-scheduler"     /\ JS!JobInit
  \/ entry = "bank-transfer"     /\ BT!BankInit
  \/ entry = "auction"           /\ AU!AuctionInit

ModuleStep ==
  /\ UNCHANGED entry
  /\ \/ entry = "layout"            /\ L!LayoutStep
     \/ entry = "ticketing-system"  /\ TS!TicketingStep
     \/ entry = "payment-system"    /\ PS!PaymentStep
     \/ entry = "stock-exchange"    /\ SE!StockStep
     \/ entry = "hotel-reservation" /\ HR!HotelStep
     \/ entry = "job-scheduler"     /\ JS!JobStep
     \/ entry = "bank-transfer"     /\ BT!BankStep
     \/ entry = "auction"           /\ AU!AuctionStep

Next == SolutionStep \/ ModuleStep
Spec == Init /\ [][Next]_vars

-----------------------------------------------------------------------------
(* The atlas' scenarios are authored beside the code and nothing but a     *)
(* reader compares the two.  Every step of a solution is an arrow of its   *)
(* scenario, and every command of a module goes along the arrows of one:   *)
(* the code never does what the page does not show.                        *)
Drawn ==
  CASE entry \in Slugs -> <<state.at, state'.at>> \in SolutionArrows[entry]
    [] entry \in DOMAIN ModuleCommands ->
         Follows(DiagramsOf(entry)[state'.walk[1]], state'.walk[2])
    [] OTHER -> TRUE
PathsAreDrawn == [][Drawn]_vars

(* At the end of its scenario a reference solution has the answer its      *)
(* problem asks for: the challenges' tests take it for right.              *)
AnswersRight ==
  entry \in Slugs /\ state.at \in Ends(DiagramOf(entry)) => Answered

(* overviews are laid out with the crossings they need and no node lost.   *)
LayoutSound == entry = "layout" => L!LayoutSound

(* The sweep over the columns starts again after every improvement and     *)
(* still comes to an end: every step of it descends in one and the same    *)
(* order, in which nothing descends for ever.                              *)
LayoutEnds == [][entry = "layout" => L!Descends]_vars

(* What a module allots is allotted once, whatever order requests, the     *)
(* clock, retries and late answers come in: a seat to one hold and a       *)
(* payment to one outcome, a room night to the bookings that cover it, a   *)
(* node to one worker at a time, a listing to one bidder.                  *)
NothingTwice ==
  CASE entry = "ticketing-system"  -> TS!SeatsKeptOnce /\ TS!PaymentsSettled
    [] entry = "hotel-reservation" -> HR!RoomsSoldOnce /\ HR!EventsMatchBookings
    [] entry = "job-scheduler"     -> JS!LeasesApart /\ JS!SuccessFenced
    [] entry = "auction"           -> AU!SoldToOne
    [] OTHER -> TRUE

(* What a module moves is neither made nor lost: money between accounts,   *)
(* refunds within their charge, orders into trades, and money on its way   *)
(* from one task to another.                                               *)
BooksBalance ==
  CASE entry = "payment-system" -> PS!LedgerBalances /\ PS!RefundsWithinCharge
    [] entry = "stock-exchange" -> SE!BookConsistent /\ SE!TradesFair
    [] entry = "bank-transfer"  -> BT!MoneyKept /\ BT!HistoriesAgree
    [] OTHER -> TRUE
=============================================================================
