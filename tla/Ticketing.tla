------------------------------ MODULE Ticketing ------------------------------
(***************************************************************************)
(* challenges/hld-ticketing-system, the reference module, for one event.   *)
(* A hold is named by the request that asked for it.                       *)
(***************************************************************************)
EXTENDS CommandLog

NoEvent == -1
FreeSeat == [hold |-> "none", deadline |-> 0, confirmed |-> FALSE]

RequestDiagram == Scenario(
  << <<"event", "event">>, <<"decision", "prior", "equal">>, <<"end", "replay">>,
     <<"state", "conflict">>, <<"decision", "dispatch", "exists">>, <<"state", "create">>,
     <<"decision", "seats">>, <<"state", "add">>, <<"decision", "time">>,
     <<"state", "advance">>, <<"end", "reject", "save">> >>,
  << <<"event", "prior">>, <<"prior", "dispatch", "equal">>, <<"equal", "replay", "conflict">>,
     <<"dispatch", "exists">>, <<"exists", "reject", "create">>, <<"create", "save">>,
     <<"dispatch", "seats">>, <<"seats", "reject", "add">>, <<"add", "save">>,
     <<"dispatch", "time">>, <<"time", "reject", "advance">>, <<"advance", "save">>,
     <<"reject", "save">> >>)

HoldDiagram == Scenario(
  << <<"event", "event">>, <<"decision", "clock", "seats", "deadline", "available">>,
     <<"end", "reject">>, <<"state", "hold", "writes">>, <<"end", "done">> >>,
  << <<"event", "clock">>, <<"clock", "reject", "seats">>, <<"seats", "reject", "deadline">>,
     <<"deadline", "reject", "available">>, <<"available", "reject", "hold">>,
     <<"hold", "writes">>, <<"writes", "done">> >>)

ConfirmDiagram == Scenario(
  << <<"event", "event">>, <<"decision", "hold", "owner", "terminal", "expired", "compensate">>,
     <<"state", "seq">>, <<"end", "reject">>, <<"state", "transition">>, <<"end", "noop">> >>,
  << <<"event", "hold">>, <<"hold", "reject", "owner">>, <<"owner", "reject", "terminal">>,
     <<"terminal", "reject", "expired">>, <<"expired", "reject", "transition">>,
     <<"reject", "compensate">>, <<"compensate", "seq", "noop">>, <<"transition", "noop">> >>)

EventPartition == Partition(
  << <<"route", "event">>, <<"state", "root", "clock", "seats", "holds", "requests", "comp">>,
     <<"route", "queries">> >>,
  << <<"event", "root">>, <<"root", "clock", "seats", "holds", "requests", "comp">>,
     <<"queries", "root">> >>)
TicketingDiagrams == [request |-> RequestDiagram, hold |-> HoldDiagram,
                      confirm |-> ConfirmDiagram, partition |-> EventPartition]

-----------------------------------------------------------------------------
TicketingInit ==
  state = [requests |-> <<>>, walk |-> <<"partition", <<"event", "root">> >>,
           clock |-> NoEvent, seats |-> <<>>, holds |-> <<>>, compensations |-> <<>>]

Gate == <<"event", "prior">>
Dispatched(checks, accepted) ==
  <<"request", Gate \o <<"dispatch">> \o Nodes(checks)
                    \o (IF Accepted(checks) THEN <<accepted, "save">> ELSE <<"reject", "save">>)>>

CreateEvent(c) ==
  LET checks == << <<"exists", state.clock = NoEvent, "event-exists">> >> IN
  /\ c.type = "create" /\ ~Known(c)
  /\ IF Accepted(checks)
     THEN Record(c, [state EXCEPT !.clock = 0], Dispatched(checks, "create"), "accepted")
     ELSE Record(c, state, Dispatched(checks, "create"), Reason(checks))

AddSeats(c) ==
  LET event == state.clock # NoEvent
      checks == << <<"seats", event /\ c.seats \cap DOMAIN state.seats = {},
                     IF event THEN "seat-exists" ELSE "no-such-event">> >>
      added == [s \in c.seats \cup DOMAIN state.seats |->
                  IF s \in c.seats THEN FreeSeat ELSE state.seats[s]] IN
  /\ c.type = "add" /\ ~Known(c)
  /\ IF Accepted(checks)
     THEN Record(c, [state EXCEPT !.seats = added], Dispatched(checks, "add"), "accepted")
     ELSE Record(c, state, Dispatched(checks, "add"), Reason(checks))

AdvanceClock(c) ==
  LET event == state.clock # NoEvent
      checks == << <<"time", event /\ c.now >= state.clock,
                     IF event THEN "clock-regression" ELSE "no-such-event">> >> IN
  /\ c.type = "clock" /\ ~Known(c)
  /\ IF Accepted(checks)
     THEN Record(c, [state EXCEPT !.clock = c.now], Dispatched(checks, "advance"), "accepted")
     ELSE Record(c, state, Dispatched(checks, "advance"), Reason(checks))

(* Mutation: only a confirmed seat is unavailable.                         *)
AvailableUnlessConfirmed(seat) == ~seat.confirmed

Available(seat) ==
  ~seat.confirmed /\ (seat.hold = "none" \/ state.clock >= seat.deadline)

SetSeats(seats, seat) ==
  [s \in DOMAIN state.seats |-> IF s \in seats THEN seat ELSE state.seats[s]]

(* All the seats of the hold or none.                                      *)
HoldSeats(c) ==
  LET known == c.seats \subseteq DOMAIN state.seats
      checks == << <<"clock", state.clock # NoEvent, "no-such-event">>,
                   <<"seats", known, "no-such-seat">>,
                   <<"deadline", c.deadline > state.clock, "deadline-passed">>,
                   <<"available", known /\ \A s \in c.seats : Available(state.seats[s]),
                     "seat-unavailable">> >>
      held == [state EXCEPT
        !.seats = SetSeats(c.seats, [hold |-> c.rid, deadline |-> c.deadline,
                                     confirmed |-> FALSE]),
        !.holds = Put(@, c.rid, [user |-> c.user, seats |-> c.seats, status |-> "held",
                                 deadline |-> c.deadline, payment |-> "none"])] IN
  /\ c.type = "hold" /\ ~Known(c)
  /\ IF Accepted(checks)
     THEN Record(c, held, <<"hold", <<"event">> \o Nodes(checks)
                                         \o <<"hold", "writes", "done">> >>, "accepted")
     ELSE Record(c, state, <<"hold", <<"event">> \o Nodes(checks) \o <<"reject">> >>,
                 Reason(checks))

NoHold == [user |-> "nobody", seats |-> {}, status |-> "none", deadline |-> 0,
           payment |-> "none"]
HoldOf(c) == IF c.hold \in DOMAIN state.holds THEN state.holds[c.hold] ELSE NoHold

HoldChecks(c) ==
  LET h == HoldOf(c) IN
  << <<"hold", h # NoHold,
       IF state.clock = NoEvent THEN "no-such-event" ELSE "no-such-hold">>,
     <<"owner", c.user = h.user, "not-owner">>,
     <<"terminal", h.status = "held",
       IF h.status = "confirmed" THEN "hold-confirmed" ELSE "hold-released">>,
     <<"expired", state.clock < h.deadline, "hold-expired">> >>

(* A payment that came too late, or that another one came before, is to be *)
(* given back.                                                             *)
Compensated(c, reason) ==
  /\ c.type = "confirm"
  /\ \/ reason \in {"hold-expired", "hold-released"}
     \/ reason = "hold-confirmed" /\ c.payment # HoldOf(c).payment

ConfirmOrRelease(c) ==
  LET checks == HoldChecks(c)
      h == HoldOf(c)
      settled == [state EXCEPT
        !.holds[c.hold] = IF c.type = "confirm"
                          THEN [h EXCEPT !.status = "confirmed", !.payment = c.payment]
                          ELSE [h EXCEPT !.status = "released", !.payment = "none"],
        !.seats = SetSeats(h.seats,
                           IF c.type = "confirm"
                           THEN [hold |-> c.hold, deadline |-> h.deadline, confirmed |-> TRUE]
                           ELSE FreeSeat)]
      compensated == [state EXCEPT !.compensations =
        Append(@, [rid |-> c.rid, payment |-> c.payment, reason |-> Reason(checks)])]
      walk(last) == <<"confirm", <<"event">> \o Nodes(checks) \o last>> IN
  /\ c.type \in {"confirm", "release"} /\ ~Known(c)
  /\ CASE Accepted(checks) -> Record(c, settled, walk(<<"transition", "noop">>), "accepted")
       [] ~Accepted(checks) /\ Compensated(c, Reason(checks)) ->
            Record(c, compensated, walk(<<"reject", "compensate", "seq">>), Reason(checks))
       [] OTHER ->
            Record(c, state, walk(<<"reject", "compensate", "noop">>), Reason(checks))

TicketingStep ==
  \E c \in Commands :
    \/ CreateEvent(c)
    \/ AddSeats(c)
    \/ AdvanceClock(c)
    \/ HoldSeats(c)
    \/ ConfirmOrRelease(c)
    \/ Replay(c, <<"request", Gate \o <<"equal", "replay">> >>)
    \/ Conflict(c, <<"request", Gate \o <<"equal", "conflict">> >>)

-----------------------------------------------------------------------------
(* A hold that still keeps its seats: confirmed, or held and in time.      *)
Keeps(h) ==
  \/ state.holds[h].status = "confirmed"
  \/ state.holds[h].status = "held" /\ state.clock < state.holds[h].deadline

(* Whatever order holds, confirmations, releases and the clock come in,    *)
(* no seat is kept by two holds, and each kept one says so: a hold that    *)
(* expired and is released late takes nothing from the one after it.       *)
SeatsKeptOnce ==
  \A h \in {h \in DOMAIN state.holds : Keeps(h)} :
    /\ \A s \in state.holds[h].seats :
         /\ state.seats[s].hold = h
         /\ state.seats[s].confirmed = (state.holds[h].status = "confirmed")
    /\ \A other \in DOMAIN state.holds \ {h} :
         Keeps(other) => state.holds[h].seats \cap state.holds[other].seats = {}

(* A payment the holder made for a hold bought it or is compensated, once  *)
(* for each request that presented it, and never both.                     *)
PaymentsSettled ==
  \A r \in {r \in Range(state.requests) : r.cmd.type = "confirm"} :
    r.outcome \notin {"no-such-event", "no-such-hold", "not-owner"} =>
      LET h == state.holds[r.cmd.hold]
          bought == h.status = "confirmed" /\ h.payment = r.cmd.payment IN
      Cardinality({i \in DOMAIN state.compensations :
                     state.compensations[i].rid = r.cmd.rid}) = IF bought THEN 0 ELSE 1
=============================================================================
