----------------------------- MODULE Overviews -----------------------------
(***************************************************************************)
(* docs/atlas/data/overviews.mjs: the component overview of a challenge.   *)
(* An overview has four columns, of depots, topologies, PStates and        *)
(* queries.                                                                *)
(***************************************************************************)
EXTENDS Diagrams

(* overview(): the nodes by column; the stand-in for a module without      *)
(* query topologies has kind external and is in the last one.              *)
Columns(g) ==
  LET column == <<{"depot"}, {"etl"}, {"state"}, {"query", "external"}>>
      in(i) == SelectSeq(g.nodes, LAMBDA n : n.kind \in column[i]) IN
  [i \in 1..4 |-> [k \in DOMAIN in(i) |-> in(i)[k].id]]

Overview(nodes, edges) == Graph("lr", nodes, edges)

(* The HLD systems: how many PStates each has, and how many queries.       *)
hld ==
  [UrlShortener |-> <<1, 0>>, RateLimiter |-> <<1, 0>>,
   NotificationSystem |-> <<3, 0>>, WebCrawler |-> <<1, 0>>,
   SearchAutocomplete |-> <<6, 2>>, FileSync |-> <<1, 1>>,
   TicketingSystem |-> <<1, 2>>, PaymentSystem |-> <<1, 0>>,
   StockExchange |-> <<1, 0>>, HotelReservation |-> <<1, 1>>,
   MetricsPipeline |-> <<1, 2>>, AdClickAggregation |-> <<1, 1>>,
   JobScheduler |-> <<1, 0>>, FeatureFlagService |-> <<1, 0>>,
   EnterpriseRag |-> <<4, 0>>]

StateIds == <<"s0", "s1", "s2", "s3", "s4", "s5">>
QueryIds == <<"q0", "q1">>

(* States that no client reads: $$task-pos and $$chunks.                   *)
Unread == [NotificationSystem |-> {"s2"}, EnterpriseRag |-> {"s1"}]

(* componentOverview of an HLD system: one depot, one topology that writes *)
(* every PState, and the reads of the queries or of the client.            *)
HldOverview(slug) ==
  LET states == SubSeq(StateIds, 1, hld[slug][1])
      queries == SubSeq(QueryIds, 1, hld[slug][2])
      read == IF slug \in DOMAIN Unread
              THEN SelectSeq(states, LAMBDA x : x \notin Unread[slug])
              ELSE states
      reads == IF slug = "SearchAutocomplete"
               THEN << <<"s1", "q0">>, <<"s5", "q0">>, <<"s1", "q1">>,
                       <<"s2", "q1">>, <<"s3", "q1">> >>
               ELSE IF queries # <<>> THEN << <<"s0">> \o queries >>
               ELSE [i \in DOMAIN read |-> <<read[i], "direct">>] IN
  Overview(<< <<"depot", "depot">>, <<"etl", "etl">>, <<"state">> \o states,
              IF queries # <<>> THEN <<"query">> \o queries
              ELSE <<"external", "direct">> >>,
           << <<"depot", "etl">>, <<"etl">> \o states >> \o reads)

custom ==
  [ChatApp |-> Overview(
     << <<"depot", "reg", "actions">>, <<"etl", "core", "derived">>,
        <<"state", "identity", "messages", "membership", "threads", "mentions">>,
        <<"query", "pages", "activity", "presence">> >>,
     << <<"reg", "core">>, <<"actions", "core", "derived">>,
        <<"core", "identity", "messages">>,
        <<"derived", "membership", "threads", "mentions">>,
        <<"messages", "pages">>, <<"mentions", "pages">>, <<"identity", "pages">>,
        <<"threads", "pages", "activity">>, <<"membership", "activity">>,
        <<"identity", "presence">> >>),
   Fanout |-> Overview(
     << <<"depot", "profile", "posts", "tick">>, <<"etl", "writes", "fanout">>,
        <<"state", "durable", "pending", "mirrors">>, <<"query", "user", "timeline">> >>,
     << <<"profile", "writes">>, <<"posts", "writes", "fanout">>, <<"tick", "fanout">>,
        <<"writes", "durable">>, <<"fanout", "pending", "mirrors">>,
        <<"durable", "user", "timeline">>, <<"mirrors", "timeline">> >>),
   BankTransfer |-> Overview(
     << <<"depot", "deposit", "transfer">>, <<"etl", "etl">>, <<"state", "state">>,
        <<"external", "reads">> >>,
     << <<"deposit", "etl">>, <<"transfer", "etl">>, <<"etl", "state">>,
        <<"state", "reads">> >>),
   Auction |-> Overview(
     << <<"depot", "listing", "bids", "tick">>, <<"etl", "auction", "expiry">>,
        <<"state", "active", "expired", "scheduler">>, <<"external", "reads">> >>,
     << <<"listing", "auction">>, <<"bids", "auction">>, <<"listing", "expiry">>,
        <<"tick", "expiry">>, <<"auction", "active">>,
        <<"expiry", "expired", "scheduler">>, <<"active", "reads">>,
        <<"expired", "reads">> >>),
   TimeSeries |-> Overview(
     << <<"depot", "depot">>, <<"etl", "etl">>, <<"state", "state">>, <<"query", "query">> >>,
     << <<"depot", "etl">>, <<"etl", "state">>, <<"state", "query">> >>),
   SocialGraph |-> Overview(
     << <<"depot", "depot">>, <<"etl", "etl">>, <<"state", "state">>, <<"query", "query">> >>,
     << <<"depot", "etl">>, <<"etl", "state">>, <<"state", "query">> >>),
   SocialGraphAndFanout |-> Overview(
     << <<"depot", "follow", "profile", "posts", "tick">>,
        <<"etl", "graph", "writes", "fanout">>, <<"state", "social", "durable", "pending">>,
        <<"query", "followers", "user", "timeline">> >>,
     << <<"follow", "graph">>, <<"profile", "writes">>, <<"posts", "writes", "fanout">>,
        <<"tick", "fanout">>, <<"graph", "social">>, <<"writes", "durable">>,
        <<"fanout", "pending", "social">>, <<"social", "followers", "timeline">>,
        <<"durable", "timeline", "user">> >>),
   StreamRuntimeFail |-> Overview(
     << <<"depot", "depot">>, <<"etl", "etl">>, <<"state", "state">>,
        <<"external", "query">> >>,
     << <<"depot", "etl">>, <<"etl", "state">>, <<"state", "query">> >>)]

AllOverviews == {HldOverview(slug) : slug \in DOMAIN hld}
                \cup {custom[slug] : slug \in DOMAIN custom}
=============================================================================
