-------------------------- MODULE HotelReservation --------------------------
(***************************************************************************)
(* challenges/hld-hotel-reservation, the reference module, for one         *)
(* property.  A booking is named by the request that reserved it; the      *)
(* sequence of the property is the length of its event log.  A stay ends   *)
(* before its checkout.                                                    *)
(***************************************************************************)
EXTENDS CommandLog

ReserveDiagram == Scenario(
  << <<"event", "call">>, <<"decision", "replay">>, <<"end", "replayed">>,
     <<"state", "conflict">>, <<"decision", "prop", "room">>, <<"etl", "scan">>,
     <<"decision", "missing">>, <<"etl", "capacity">>, <<"decision", "short">>,
     <<"state", "reject">>, <<"etl", "total">>,
     <<"state", "decrement", "seq", "booking", "event", "outcome">> >>,
  << <<"call", "replay">>, <<"replay", "replayed", "conflict", "prop">>,
     <<"prop", "reject", "room">>, <<"room", "reject", "scan">>, <<"scan", "missing">>,
     <<"missing", "reject", "capacity">>, <<"capacity", "short">>,
     <<"short", "total", "reject">>, <<"total", "decrement">>, <<"decrement", "seq">>,
     <<"seq", "booking">>, <<"booking", "event">>, <<"event", "outcome">>,
     <<"reject", "outcome">> >>)

CancelDiagram == Scenario(
  << <<"event", "call">>, <<"decision", "replay">>, <<"end", "noop">>, <<"state", "conflict">>,
     <<"decision", "prop", "booking", "guest", "state">>, <<"state", "reject">>,
     <<"etl", "nights">>, <<"state", "restore", "mark", "seq", "event", "outcome">> >>,
  << <<"call", "replay">>, <<"replay", "noop", "conflict", "prop">>,
     <<"prop", "reject", "booking">>, <<"booking", "reject", "guest">>,
     <<"guest", "reject", "state">>, <<"state", "reject", "nights">>,
     <<"nights", "restore">>, <<"restore", "mark">>, <<"mark", "seq">>, <<"seq", "event">>,
     <<"event", "outcome">>, <<"reject", "outcome">> >>)

ConfigureDiagram == Scenario(
  << <<"event", "event">>, <<"decision", "type", "property">>, <<"state", "create">>,
     <<"decision", "exists", "room", "roomOp">>, <<"state", "createRoom">>,
     <<"decision", "night", "nightOp">>, <<"state", "init", "rate">>, <<"etl", "reject">>,
     <<"state", "outcome">> >>,
  << <<"event", "type">>, <<"type", "property">>, <<"property", "create", "reject">>,
     <<"type", "exists">>, <<"exists", "reject", "room">>,
     <<"room", "createRoom", "reject", "roomOp">>, <<"roomOp", "reject", "night">>,
     <<"night", "nightOp">>, <<"nightOp", "init", "rate", "reject">>,
     <<"create", "outcome">>, <<"createRoom", "outcome">>, <<"init", "outcome">>,
     <<"rate", "outcome">>, <<"reject", "outcome">> >>)

PropertyPartition == Partition(
  << <<"route", "property">>, <<"state", "root", "types", "nights", "bookings", "events",
     "requests">>, <<"query", "query">>, <<"external", "client">> >>,
  << <<"property", "root">>, <<"root", "types">>, <<"types", "nights">>,
     <<"root", "bookings", "events", "requests">>, <<"property", "query">>,
     <<"nights", "query">>, <<"bookings", "client">>, <<"requests", "client">>,
     <<"events", "client">>, <<"nights", "client">> >>)

HotelDiagrams == [reserve |-> ReserveDiagram, cancel |-> CancelDiagram,
                  configure |-> ConfigureDiagram, partition |-> PropertyPartition]

-----------------------------------------------------------------------------
HotelInit ==
  state = [requests |-> <<>>, walk |-> <<"partition", <<"property", "root">> >>,
           exists |-> FALSE, types |-> {}, nights |-> <<>>, bookings |-> <<>>, events |-> <<>>]

ConfigureWalk(checks, accepted) ==
  <<"configure", <<"event", "type">> \o Nodes(checks)
                 \o <<IF Accepted(checks) THEN accepted ELSE "reject", "outcome">> >>

Decide(c, checks, walk, s) ==
  IF Accepted(checks) THEN Record(c, s, walk, "accepted")
  ELSE Record(c, state, walk, Reason(checks))

CreateProperty(c) ==
  LET checks == << <<"property", ~state.exists, "property-exists">> >> IN
  /\ c.type = "create-property" /\ ~Known(c)
  /\ Decide(c, checks, ConfigureWalk(checks, "create"), [state EXCEPT !.exists = TRUE])

(* The diagram tells an existing type apart in a node of its own.          *)
CreateRoomType(c) ==
  LET fresh == c.room \notin state.types
      checks == << <<"exists", state.exists, "no-such-property">>, <<"room", TRUE, "none">> >>
                \o (IF fresh THEN <<>> ELSE << <<"roomOp", FALSE, "room-type-exists">> >>) IN
  /\ c.type = "create-room-type" /\ ~Known(c)
  /\ Decide(c, checks, ConfigureWalk(checks, "createRoom"),
            [state EXCEPT !.types = @ \cup {c.room}])

Night(c) == <<c.room, c.night>>
NightChecks(c, passed, reason) ==
  << <<"exists", state.exists, "no-such-property">>,
     <<"room", c.room \in state.types, "no-such-room-type">>,
     <<"roomOp", TRUE, "none">>, <<"night", TRUE, "none">>, <<"nightOp", passed, reason>> >>

InitNight(c) ==
  LET checks == NightChecks(c, Night(c) \notin DOMAIN state.nights, "night-exists") IN
  /\ c.type = "init-night" /\ ~Known(c)
  /\ Decide(c, checks, ConfigureWalk(checks, "init"),
            [state EXCEPT !.nights = Put(@, Night(c), [capacity |-> c.capacity,
                                          rate |-> c.rate, available |-> c.capacity])])

SetRate(c) ==
  LET checks == NightChecks(c, Night(c) \in DOMAIN state.nights, "night-not-configured") IN
  /\ c.type = "set-rate" /\ ~Known(c)
  /\ Decide(c, checks, ConfigureWalk(checks, "rate"),
            [state EXCEPT !.nights[Night(c)].rate = c.rate])

Stay(b) == {<<b.room, n>> : n \in b.checkin..(b.checkout - 1)}
Changed(stay, quantity) ==
  [n \in DOMAIN state.nights |->
    IF n \in stay THEN [state.nights[n] EXCEPT !.available = @ + quantity]
    ELSE state.nights[n]]

(* Mutation: a night that is full is overlooked unless it is the first.    *)
EnoughRoomAtCheckin(c) ==
  state.nights[<<c.room, c.checkin>>].available >= c.quantity

EnoughRoom(c) == \A n \in Stay(c) : state.nights[n].available >= c.quantity

(* Every night of the stay is looked at before any is taken.               *)
Reserve(c) ==
  LET configured == state.exists /\ c.room \in state.types /\ Stay(c) \subseteq DOMAIN state.nights
      checks == << <<"prop", state.exists, "no-such-property">>,
                   <<"room", c.room \in state.types, "no-such-room-type">>,
                   <<"scan", TRUE, "none">>,
                   <<"missing", configured, "night-not-configured">>,
                   <<"capacity", TRUE, "none">>,
                   <<"short", configured /\ EnoughRoom(c), "insufficient-capacity">> >>
      total == SumOver([n \in Stay(c) |-> c.quantity * state.nights[n].rate])
      walk == <<"reserve", <<"call", "replay">> \o Nodes(checks)
                 \o IF Accepted(checks)
                    THEN <<"total", "decrement", "seq", "booking", "event", "outcome">>
                    ELSE <<"reject", "outcome">> >> IN
  /\ c.type = "reserve" /\ ~Known(c)
  /\ Decide(c, checks, walk, [state EXCEPT
       !.nights = Changed(Stay(c), -c.quantity),
       !.bookings = Put(@, c.rid, [guest |-> c.guest, room |-> c.room, checkin |-> c.checkin,
                                   checkout |-> c.checkout, quantity |-> c.quantity,
                                   total |-> total, state |-> "confirmed",
                                   seq |-> Len(state.events) + 1]),
       !.events = Append(@, [type |-> "reserved", rid |-> c.rid, booking |-> c.rid,
                             total |-> total])])

NoBooking == [guest |-> "nobody", room |-> "none", checkin |-> 0, checkout |-> 0,
              quantity |-> 0, total |-> 0, state |-> "none", seq |-> 0]

CancelBooking(c) ==
  LET b == IF c.booking \in DOMAIN state.bookings THEN state.bookings[c.booking] ELSE NoBooking
      checks == << <<"prop", state.exists, "no-such-property">>,
                   <<"booking", b # NoBooking, "no-such-booking">>,
                   <<"guest", c.guest = b.guest, "not-guest">>,
                   <<"state", b.state # "cancelled", "booking-cancelled">> >>
      walk == <<"cancel", <<"call", "replay">> \o Nodes(checks)
                \o IF Accepted(checks)
                   THEN <<"nights", "restore", "mark", "seq", "event", "outcome">>
                   ELSE <<"reject", "outcome">> >> IN
  /\ c.type = "cancel" /\ ~Known(c)
  /\ Decide(c, checks, walk, [state EXCEPT
       !.nights = Changed(Stay(b), b.quantity),
       !.bookings[c.booking].state = "cancelled",
       !.events = Append(@, [type |-> "cancelled", rid |-> c.rid, booking |-> c.booking,
                             total |-> b.total])])

Repeated(c, again) ==
  CASE c.type = "cancel" -> <<"cancel", <<"call", "replay", IF again = "replayed" THEN "noop" ELSE again>> >>
    [] OTHER -> <<"reserve", <<"call", "replay", again>> >>

HotelStep ==
  \E c \in Commands :
    \/ CreateProperty(c)
    \/ CreateRoomType(c)
    \/ InitNight(c)
    \/ SetRate(c)
    \/ Reserve(c)
    \/ CancelBooking(c)
    \/ Replay(c, Repeated(c, "replayed"))
    \/ Conflict(c, Repeated(c, "conflict"))

-----------------------------------------------------------------------------
(* On every night the rooms are free or in the confirmed bookings that     *)
(* cover it, never oversold, whatever failed half-checked before.          *)
RoomsSoldOnce ==
  \A n \in DOMAIN state.nights :
    LET covering == {id \in DOMAIN state.bookings :
                       state.bookings[id].state = "confirmed" /\ n \in Stay(state.bookings[id])} IN
    /\ state.nights[n].available >= 0
    /\ state.nights[n].capacity = state.nights[n].available
         + SumOver([id \in covering |-> state.bookings[id].quantity])

(* The event log has a booking's reservation at the booking's sequence, a  *)
(* cancellation exactly when it is cancelled, after that, and the total    *)
(* it was reserved for, whatever the rates are now.                        *)
EventsMatchBookings ==
  /\ \A i \in DOMAIN state.events : state.events[i].booking \in DOMAIN state.bookings
  /\ \A id \in DOMAIN state.bookings :
       LET b == state.bookings[id]
           cancelled == {i \in DOMAIN state.events :
                           state.events[i].type = "cancelled" /\ state.events[i].booking = id} IN
       /\ {i \in DOMAIN state.events :
             state.events[i].type = "reserved" /\ state.events[i].booking = id} = {b.seq}
       /\ Cardinality(cancelled) = IF b.state = "cancelled" THEN 1 ELSE 0
       /\ \A i \in cancelled \cup {b.seq} :
            i >= b.seq /\ state.events[i].total = b.total
=============================================================================
