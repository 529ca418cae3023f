---------------------------- MODULE AtlasProofs ----------------------------
(***************************************************************************)
(* What TLAPS proves of Atlas for every set of challenges and diagrams,    *)
(* every search and filter, and any number of pages, events and calls.     *)
(***************************************************************************)
EXTENDS Atlas, TLAPS

-----------------------------------------------------------------------------
(* Types.                                                                  *)

CallRecords == [page : Nat, at : {"idle", "engine", "parse", "render"},
                card : Graphs \cup {NoGraph}, todo : SUBSET Graphs]

CardTypes ==
  /\ page \in Nat
  /\ pages \in Nat
  /\ rendered \in [Graphs -> {"fresh", "pending", "ready", "error"}]
  /\ canvas \in [Graphs -> {"status", "svg", "alert"}]
  /\ handlers \in [Graphs -> Nat]
  /\ calls \in [Calls -> CallRecords]
  /\ \A c \in Calls : calls[c].at # "idle" => calls[c].card \in Graphs

PageTypes ==
  /\ events \in Nat
  /\ tab \in Tabs
  /\ main.at = "detail" => main.slug \in Slugs

LEMMA IdleType == Idle \in CallRecords /\ Idle.at = "idle" /\ Idle.todo = {}
BY DEF Idle, CallRecords

LEMMA PanelsAreGraphs ==
  ASSUME NEW s \in Slugs, NEW t \in Tabs
  PROVE  GraphsOn(s, t) \subseteq Graphs
<1>1. CASE t = "text"
  BY <1>1 DEF GraphsOn
<1>2. CASE t \in {"lr", "td"}
  <2>1. Panel[s] \in [{"lr", "td"} -> SUBSET Graphs]
    BY AtlasAssumption
  <2>2. Panel[s][t] \in SUBSET Graphs
    BY <1>2, <2>1
  <2> QED BY <1>2, <2>2 DEF GraphsOn
<1> QED BY <1>1, <1>2 DEF Tabs

(* A call that goes on keeps the types.                                    *)
LEMMA ResumeTypes ==
  ASSUME CardTypes, NEW c \in Calls, calls[c].at # "idle",
         NEW outcome \in {"ready", "error"}, Resume(c, outcome)
  PROVE  /\ rendered' \in [Graphs -> {"fresh", "pending", "ready", "error"}]
         /\ calls' \in [Calls -> CallRecords]
         /\ \A d \in Calls : calls'[d].at # "idle" => calls'[d].card \in Graphs
<1> DEFINE k == calls[c]
           marks == IF Connected(c) THEN [rendered EXCEPT ![k.card] = outcome] ELSE rendered
<1>1. k \in CallRecords /\ k.card \in Graphs
  BY DEF CardTypes
<1>2. marks \in [Graphs -> {"fresh", "pending", "ready", "error"}]
  BY <1>1 DEF CardTypes
<1>3. CASE Connected(c) /\ k.todo # {}
  <2>1. PICK g \in k.todo :
          /\ calls' = [calls EXCEPT ![c] = [page |-> k.page, at |-> "engine",
                                            card |-> g, todo |-> k.todo \ {g}]]
          /\ rendered' = [marks EXCEPT ![g] = "pending"]
    BY <1>3 DEF Resume
  <2>2. g \in Graphs
    BY <1>1 DEF CallRecords
  <2>3. [page |-> k.page, at |-> "engine", card |-> g, todo |-> k.todo \ {g}] \in CallRecords
    BY <1>1, <2>2 DEF CallRecords
  <2> QED BY <1>2, <2>1, <2>2, <2>3 DEF CardTypes
<1>4. CASE ~(Connected(c) /\ k.todo # {})
  <2>1. calls' = [calls EXCEPT ![c] = Idle] /\ rendered' = marks
    BY <1>4 DEF Resume
  <2> QED BY <1>2, <2>1, IdleType DEF CardTypes
<1> QED BY <1>3, <1>4

(* A call of renderGraphs keeps them.                                      *)
LEMMA RenderTypes ==
  ASSUME CardTypes, NEW p \in Nat, NEW cards \in SUBSET Graphs,
         NEW marks \in [Graphs -> {"fresh", "pending", "ready", "error"}],
         RenderGraphs(p, cards, marks)
  PROVE  /\ rendered' \in [Graphs -> {"fresh", "pending", "ready", "error"}]
         /\ calls' \in [Calls -> CallRecords]
         /\ \A d \in Calls : calls'[d].at # "idle" => calls'[d].card \in Graphs
<1> DEFINE fresh == {g \in cards : marks[g] = "fresh"}
<1>1. CASE rendered' = marks /\ UNCHANGED calls
  BY <1>1 DEF CardTypes
<1>2. CASE \E c \in Calls, g \in fresh :
             /\ calls' = [calls EXCEPT ![c] = [page |-> p, at |-> "engine",
                                               card |-> g, todo |-> fresh \ {g}]]
             /\ rendered' = [marks EXCEPT ![g] = "pending"]
  <2>1. PICK c \in Calls, g \in fresh :
             /\ calls' = [calls EXCEPT ![c] = [page |-> p, at |-> "engine",
                                               card |-> g, todo |-> fresh \ {g}]]
             /\ rendered' = [marks EXCEPT ![g] = "pending"]
    BY <1>2
  <2>2. [page |-> p, at |-> "engine", card |-> g, todo |-> fresh \ {g}] \in CallRecords
    BY DEF CallRecords
  <2> QED BY <2>1, <2>2 DEF CardTypes
<1> QED BY <1>1, <1>2 DEF RenderGraphs

(* #main gets new content.                                                 *)
LEMMA ReplaceTypes ==
  ASSUME NEW p \in Nat, Replace(p)
  PROVE  /\ page' = p /\ page' \in Nat
         /\ canvas' \in [Graphs -> {"status", "svg", "alert"}]
         /\ handlers' \in [Graphs -> Nat]
         /\ Fresh \in [Graphs -> {"fresh", "pending", "ready", "error"}]
BY DEF Replace, Fresh

LEMMA HomeTypes ==
  ASSUME CardTypes, PageTypes, NEW shown, RenderHome(shown)
  PROVE  /\ CardTypes' /\ tab' \in Tabs
         /\ main' = Home(shown)
<1>1. Replace(0) /\ rendered' = Fresh /\ UNCHANGED <<pages, calls, tab>> /\ main' = Home(shown)
  BY DEF RenderHome
<1> QED BY <1>1, ReplaceTypes DEF CardTypes, PageTypes

LEMMA DetailTypes ==
  ASSUME CardTypes, PageTypes, NEW s \in Slugs, RenderDetail(s)
  PROVE  /\ CardTypes' /\ tab' \in Tabs
         /\ main' = Detail(s)
<1>1. /\ Replace(pages + 1) /\ pages' = pages + 1 /\ tab' = "lr" /\ main' = Detail(s)
      /\ RenderGraphs(pages + 1, GraphsOn(s, "lr"), Fresh)
  BY DEF RenderDetail
<1>2. pages + 1 \in Nat /\ "lr" \in Tabs
  BY DEF CardTypes, Tabs
<1>3. GraphsOn(s, "lr") \in SUBSET Graphs
  BY <1>2, PanelsAreGraphs
<1>4. /\ page' \in Nat /\ canvas' \in [Graphs -> {"status", "svg", "alert"}]
      /\ handlers' \in [Graphs -> Nat]
      /\ Fresh \in [Graphs -> {"fresh", "pending", "ready", "error"}]
  BY <1>1, <1>2, ReplaceTypes
<1>5. /\ rendered' \in [Graphs -> {"fresh", "pending", "ready", "error"}]
      /\ calls' \in [Calls -> CallRecords]
      /\ \A d \in Calls : calls'[d].at # "idle" => calls'[d].card \in Graphs
  BY <1>1, <1>2, <1>3, <1>4, RenderTypes
<1> QED BY <1>1, <1>2, <1>4, <1>5 DEF CardTypes

LEMMA RouteTypes ==
  ASSUME CardTypes, PageTypes, Route
  PROVE  /\ CardTypes' /\ tab' \in Tabs
         /\ main' = IF hash \in Slugs THEN Detail(hash) ELSE Home(Filtered(query, activeFilter))
BY HomeTypes, DetailTypes DEF Route

(* The steps of a call.                                                    *)
LEMMA FailTypes ==
  ASSUME CardTypes, NEW c \in Calls, calls[c].at # "idle", Fail(c)
  PROVE  CardTypes'
<1>1. Resume(c, "error") /\ UNCHANGED <<page, pages, handlers>>
      /\ canvas' = IF Connected(c) THEN [canvas EXCEPT ![calls[c].card] = "alert"] ELSE canvas
  BY DEF Fail
<1>2. /\ rendered' \in [Graphs -> {"fresh", "pending", "ready", "error"}]
      /\ calls' \in [Calls -> CallRecords]
      /\ \A d \in Calls : calls'[d].at # "idle" => calls'[d].card \in Graphs
  BY <1>1, ResumeTypes
<1> QED BY <1>1, <1>2 DEF CardTypes

LEMMA DrawTypes ==
  ASSUME CardTypes, NEW c \in Calls, calls[c].at # "idle", Draw(c)
  PROVE  CardTypes'
<1>1. /\ Resume(c, "ready") /\ UNCHANGED <<page, pages>>
      /\ IF Connected(c) THEN /\ canvas' = [canvas EXCEPT ![calls[c].card] = "svg"]
                              /\ handlers' = [handlers EXCEPT ![calls[c].card] = @ + 1]
         ELSE UNCHANGED <<canvas, handlers>>
  BY DEF Draw
<1>2. /\ rendered' \in [Graphs -> {"fresh", "pending", "ready", "error"}]
      /\ calls' \in [Calls -> CallRecords]
      /\ \A d \in Calls : calls'[d].at # "idle" => calls'[d].card \in Graphs
  BY <1>1, ResumeTypes
<1>3. /\ canvas' \in [Graphs -> {"status", "svg", "alert"}]
      /\ handlers' \in [Graphs -> Nat]
  BY <1>1 DEF CardTypes
<1> QED BY <1>1, <1>2, <1>3 DEF CardTypes

LEMMA AwaitTypes ==
  ASSUME CardTypes, NEW c \in Calls, calls[c].at # "idle", NEW at \in {"parse", "render"},
         Await(c, at)
  PROVE  CardTypes'
<1>1. calls' = [calls EXCEPT ![c].at = at]
  BY DEF Await
<1>2. calls' \in [Calls -> CallRecords]
  BY <1>1 DEF CardTypes, CallRecords
<1>3. \A d \in Calls : calls'[d].at # "idle" => calls'[d].card \in Graphs
  BY <1>1 DEF CardTypes, CallRecords
<1> QED BY <1>2, <1>3 DEF CardTypes, Await

(* Every step of a call is one of three.                                   *)
LEMMA CallSteps ==
  ASSUME NEW c \in Calls, CallStep(c)
  PROVE  /\ calls[c].at # "idle"
         /\ \/ Fail(c)
            \/ Draw(c)
            \/ \E at \in {"parse", "render"} : Await(c, at)
BY DEF CallStep, AfterEngine, AfterParse, AfterRender

(* The state of the page and of every call of renderGraphs is well typed,  *)
(* for any number of calls, diagrams and routes.                           *)
THEOREM AtlasTypes == Spec => [](CardTypes /\ PageTypes)
<1> DEFINE Types == CardTypes /\ PageTypes
<1>1. Init => Types
  <2> SUFFICES ASSUME Init PROVE Types
    OBVIOUS
  <2>1. page \in Nat /\ pages \in Nat
    BY DEF Init, CardsInit
  <2>2. /\ rendered \in [Graphs -> {"fresh", "pending", "ready", "error"}]
        /\ canvas \in [Graphs -> {"status", "svg", "alert"}]
        /\ handlers \in [Graphs -> Nat]
    BY DEF Init, CardsInit, Fresh
  <2>3. calls = [c \in Calls |-> Idle]
    BY DEF Init, CardsInit
  <2>4. PageTypes
    BY DEF Init, PageTypes, Message, Tabs
  <2> QED BY <2>1, <2>2, <2>3, <2>4, IdleType DEF CardTypes
<1>2. Types /\ [Next]_vars => Types'
  <2> SUFFICES ASSUME Types, [Next]_vars PROVE Types'
    OBVIOUS
  <2>1. CASE UNCHANGED vars
    BY <2>1 DEF vars, cardVars, pageVars, CardTypes, PageTypes
  <2>2. ASSUME Route, events' \in Nat PROVE Types'
    <3>1. /\ CardTypes' /\ tab' \in Tabs
          /\ main' = IF hash \in Slugs THEN Detail(hash) ELSE Home(Filtered(query, activeFilter))
      BY <2>2, RouteTypes
    <3> QED BY <2>2, <3>1 DEF PageTypes, Detail, Home
  <2>3. CASE Loaded
    BY <2>2, <2>3 DEF Loaded, PageTypes
  <2>4. CASE LoadFails
    BY <2>4 DEF LoadFails, CardTypes, PageTypes, cardVars, Message
  <2>5. CASE HashChange
    <3>1. events' \in Nat
      BY <2>5 DEF HashChange, PageTypes
    <3>2. CASE load = "ready"
      BY <2>2, <2>5, <3>1, <3>2 DEF HashChange
    <3>3. CASE load # "ready"
      BY <2>5, <3>1, <3>3 DEF HashChange, CardTypes, PageTypes, cardVars
    <3> QED BY <3>2, <3>3
  <2>6. ASSUME NEW h \in Hashes, SetHash(h) PROVE Types'
    BY <2>6 DEF SetHash, CardTypes, PageTypes, cardVars
  <2>7. ASSUME NEW shown, RenderHome(shown), UNCHANGED events PROVE Types'
    <3>1. CardTypes' /\ tab' \in Tabs /\ main' = Home(shown)
      BY <2>7, HomeTypes
    <3> QED BY <2>7, <3>1 DEF PageTypes, Home
  <2>8. ASSUME UNCHANGED <<cardVars, main, tab, events>> PROVE Types'
    BY <2>8 DEF CardTypes, PageTypes, cardVars
  <2>9. ASSUME NEW q \in DOMAIN Hits, Search(q) PROVE Types'
    BY <2>7, <2>8, <2>9 DEF Search
  <2>10. ASSUME NEW f \in DOMAIN Members, Filter(f) PROVE Types'
    BY <2>7, <2>8, <2>10 DEF Filter
  <2>11. ASSUME NEW t \in Tabs, Activate(t) PROVE Types'
    <3>1. GraphsOn(main.slug, t) \in SUBSET Graphs
      BY <2>11, PanelsAreGraphs DEF Activate, PageTypes
    <3>2. /\ rendered' \in [Graphs -> {"fresh", "pending", "ready", "error"}]
          /\ calls' \in [Calls -> CallRecords]
          /\ \A d \in Calls : calls'[d].at # "idle" => calls'[d].card \in Graphs
      BY <2>11, <3>1, RenderTypes DEF Activate, CardTypes
    <3> QED BY <2>11, <3>2 DEF Activate, CardTypes, PageTypes
  <2>12. CASE CardsStep /\ UNCHANGED pageVars
    <3>1. PageTypes'
      BY <2>12 DEF pageVars, PageTypes
    <3>2. CASE EngineSettles
      BY <3>1, <3>2 DEF EngineSettles, CardTypes
    <3>3. ASSUME NEW c \in Calls, CallStep(c) PROVE CardTypes'
      BY <3>3, CallSteps, FailTypes, DrawTypes, AwaitTypes
    <3>4. ASSUME NEW g \in Graphs, Expand(g) \/ Escape(g) PROVE CardTypes'
      BY <3>4 DEF Expand, Escape, CardTypes
    <3> QED BY <2>12, <3>1, <3>2, <3>3, <3>4 DEF CardsStep
  <2> QED BY <2>1, <2>3, <2>4, <2>5, <2>6, <2>9, <2>10, <2>11, <2>12 DEF Next
<1> QED BY <1>1, <1>2, PTL DEF Spec

-----------------------------------------------------------------------------
(* No card is forgotten.                                                   *)

Holds(c, g) == calls[c].at # "idle" /\ Connected(c) /\ calls[c].card = g
Waits(c, g) == calls[c].at # "idle" /\ Connected(c) /\ g \in calls[c].todo

(* What a card shows is what its mark says, and a call holds each card that *)
(* is pending.                                                             *)
Kept ==
  \A g \in Graphs :
    /\ rendered[g] = "ready" => canvas[g] = "svg" /\ handlers[g] > 0
    /\ rendered[g] = "error" => canvas[g] = "alert"
    /\ rendered[g] = "pending" => \E c \in Calls : Holds(c, g)

(* A card that nobody took yet is on the list of a call.                   *)
Listed(cards) ==
  \A g \in cards : rendered[g] = "fresh" => \E c \in Calls : Waits(c, g)

Cards == main.at = "detail" => Kept /\ Listed(GraphsOn(main.slug, tab))

LEMMA ResumeKeeps ==
  ASSUME CardTypes, Kept, NEW cards \in SUBSET Graphs, Listed(cards),
         NEW c \in Calls, calls[c].at # "idle", page' = page,
         NEW outcome \in {"ready", "error"}, Resume(c, outcome),
         \A g \in Graphs : ~Holds(c, g) => canvas'[g] = canvas[g] /\ handlers'[g] = handlers[g],
         \A g \in Graphs : Holds(c, g) =>
            IF outcome = "ready" THEN canvas'[g] = "svg" /\ handlers'[g] > 0
                                 ELSE canvas'[g] = "alert"
  PROVE  Kept' /\ Listed(cards)'
<1> DEFINE k == calls[c]
<1>1. k \in CallRecords /\ k.card \in Graphs
  BY DEF CardTypes
<1>2. ASSUME NEW d \in Calls, d # c
      PROVE  \A g \in Graphs : (Holds(d, g) => Holds(d, g)') /\ (Waits(d, g) => Waits(d, g)')
  <2>1. calls'[d] = calls[d]
    BY <1>2 DEF Resume, CardTypes
  <2> QED BY <2>1 DEF Holds, Waits, Connected
<1>3. CASE Connected(c) /\ k.todo # {}
  <2>1. PICK h \in k.todo :
          /\ calls' = [calls EXCEPT ![c] = [page |-> k.page, at |-> "engine",
                                            card |-> h, todo |-> k.todo \ {h}]]
          /\ rendered' = [[rendered EXCEPT ![k.card] = outcome] EXCEPT ![h] = "pending"]
    BY <1>3 DEF Resume
  <2>2. h \in Graphs
    BY <1>1 DEF CallRecords
  <2>3. calls'[c] = [page |-> k.page, at |-> "engine", card |-> h, todo |-> k.todo \ {h}]
    BY <2>1 DEF CardTypes
  <2>4. Holds(c, h)' /\ \A g \in k.todo : g = h \/ Waits(c, g)'
    BY <1>3, <2>3 DEF Holds, Waits, Connected
  <2>5. /\ rendered'[h] = "pending"
        /\ k.card # h => rendered'[k.card] = outcome
        /\ \A g \in Graphs : g # k.card /\ g # h => rendered'[g] = rendered[g]
    BY <1>1, <2>1, <2>2 DEF CardTypes
  <2>6. Holds(c, k.card) /\ \A g \in Graphs : g # k.card => ~Holds(c, g)
    BY <1>3 DEF Holds
  <2>7. ASSUME NEW g \in Graphs
        PROVE  /\ rendered'[g] = "ready" => canvas'[g] = "svg" /\ handlers'[g] > 0
               /\ rendered'[g] = "error" => canvas'[g] = "alert"
               /\ rendered'[g] = "pending" => \E d \in Calls : Holds(d, g)'
    <3>1. CASE g = h
      BY <2>4, <2>5, <3>1
    <3>2. CASE g # h /\ g = k.card
      BY <2>5, <2>6, <3>2
    <3>3. CASE g # h /\ g # k.card
      <4>1. rendered'[g] = rendered[g] /\ canvas'[g] = canvas[g] /\ handlers'[g] = handlers[g]
        BY <2>5, <2>6, <3>3
      <4>2. ASSUME rendered[g] = "pending" PROVE \E d \in Calls : Holds(d, g)'
        <5>1. PICK d \in Calls : Holds(d, g)
          BY <4>2 DEF Kept
        <5> QED BY <1>2, <2>6, <3>3, <5>1
      <4> QED BY <4>1, <4>2 DEF Kept
    <3> QED BY <3>1, <3>2, <3>3
  <2>8. ASSUME NEW g \in cards, rendered'[g] = "fresh"
        PROVE  \E d \in Calls : Waits(d, g)'
    <3>1. g # h /\ rendered[g] = "fresh"
      BY <1>1, <2>5, <2>8
    <3>2. PICK d \in Calls : Waits(d, g)
      BY <3>1 DEF Listed
    <3> QED BY <1>2, <2>4, <3>1, <3>2 DEF Waits
  <2> QED BY <2>7, <2>8 DEF Kept, Listed
<1>4. CASE Connected(c) /\ k.todo = {}
  <2>1. calls' = [calls EXCEPT ![c] = Idle] /\ rendered' = [rendered EXCEPT ![k.card] = outcome]
    BY <1>4 DEF Resume
  <2>2. Holds(c, k.card) /\ (\A g \in Graphs : g # k.card => ~Holds(c, g))
        /\ \A g \in Graphs : ~Waits(c, g)
    BY <1>4 DEF Holds, Waits
  <2>3. /\ rendered'[k.card] = outcome
        /\ \A g \in Graphs : g # k.card => rendered'[g] = rendered[g]
    BY <1>1, <2>1 DEF CardTypes
  <2>4. ASSUME NEW g \in Graphs
        PROVE  /\ rendered'[g] = "ready" => canvas'[g] = "svg" /\ handlers'[g] > 0
               /\ rendered'[g] = "error" => canvas'[g] = "alert"
               /\ rendered'[g] = "pending" => \E d \in Calls : Holds(d, g)'
    <3>1. CASE g = k.card
      BY <2>2, <2>3, <3>1
    <3>2. CASE g # k.card
      <4>1. rendered'[g] = rendered[g] /\ canvas'[g] = canvas[g] /\ handlers'[g] = handlers[g]
        BY <2>2, <2>3, <3>2
      <4>2. ASSUME rendered[g] = "pending" PROVE \E d \in Calls : Holds(d, g)'
        <5>1. PICK d \in Calls : Holds(d, g)
          BY <4>2 DEF Kept
        <5> QED BY <1>2, <2>2, <3>2, <5>1
      <4> QED BY <4>1, <4>2 DEF Kept
    <3> QED BY <3>1, <3>2
  <2>5. ASSUME NEW g \in cards, rendered'[g] = "fresh"
        PROVE  \E d \in Calls : Waits(d, g)'
    <3>1. rendered[g] = "fresh"
      BY <2>3, <2>5
    <3>2. PICK d \in Calls : Waits(d, g)
      BY <3>1 DEF Listed
    <3> QED BY <1>2, <2>2, <3>2
  <2> QED BY <2>4, <2>5 DEF Kept, Listed
<1>5. CASE ~Connected(c)
  <2>1. rendered' = rendered
    BY <1>5 DEF Resume
  <2>2. \A g \in Graphs : ~Holds(c, g) /\ ~Waits(c, g)
    BY <1>5 DEF Holds, Waits
  <2>3. \A g \in Graphs : canvas'[g] = canvas[g] /\ handlers'[g] = handlers[g]
    BY <2>2
  <2>4. \A g \in Graphs : rendered[g] = "pending" => \E d \in Calls : Holds(d, g)'
    <3>1. SUFFICES ASSUME NEW g \in Graphs, rendered[g] = "pending"
                   PROVE  \E d \in Calls : Holds(d, g)'
      OBVIOUS
    <3>2. PICK d \in Calls : Holds(d, g)
      BY <3>1 DEF Kept
    <3> QED BY <1>2, <2>2, <3>2
  <2>5. \A g \in cards : rendered[g] = "fresh" => \E d \in Calls : Waits(d, g)'
    <3>1. SUFFICES ASSUME NEW g \in cards, rendered[g] = "fresh"
                   PROVE  \E d \in Calls : Waits(d, g)'
      OBVIOUS
    <3>2. PICK d \in Calls : Waits(d, g)
      BY <3>1 DEF Listed
    <3> QED BY <1>2, <2>2, <3>2
  <2> QED BY <2>1, <2>3, <2>4, <2>5 DEF Kept, Listed
<1> QED BY <1>3, <1>4, <1>5

(* The cards of a panel that renderGraphs is called for are taken, or have *)
(* been.                                                                   *)
LEMMA RenderKeeps ==
  ASSUME CardTypes, NEW cards \in SUBSET Graphs,
         NEW marks \in [Graphs -> {"fresh", "pending", "ready", "error"}],
         RenderGraphs(page', cards, marks),
         \A g \in Graphs :
           /\ marks[g] = "ready" => canvas'[g] = "svg" /\ handlers'[g] > 0
           /\ marks[g] = "error" => canvas'[g] = "alert"
           /\ marks[g] = "pending" => page' = page /\ \E c \in Calls : Holds(c, g)
  PROVE  Kept' /\ Listed(cards)'
<1> DEFINE fresh == {g \in cards : marks[g] = "fresh"}
<1>1. CASE fresh = {} /\ rendered' = marks /\ UNCHANGED calls
  <2>1. \A g \in Graphs : marks[g] = "pending" => \E c \in Calls : Holds(c, g)'
    <3>1. SUFFICES ASSUME NEW g \in Graphs, marks[g] = "pending"
                   PROVE  \E c \in Calls : Holds(c, g)'
      OBVIOUS
    <3>2. PICK c \in Calls : page' = page /\ Holds(c, g)
      BY <3>1
    <3> QED BY <1>1, <3>2 DEF Holds, Connected
  <2>2. \A g \in cards : rendered'[g] # "fresh"
    BY <1>1
  <2> QED BY <1>1, <2>1, <2>2 DEF Kept, Listed
<1>2. CASE \E c \in Calls, g \in fresh :
             /\ calls[c] = Idle
             /\ calls' = [calls EXCEPT ![c] = [page |-> page', at |-> "engine",
                                               card |-> g, todo |-> fresh \ {g}]]
             /\ rendered' = [marks EXCEPT ![g] = "pending"]
  <2>1. PICK c \in Calls, h \in fresh :
             /\ calls[c] = Idle
             /\ calls' = [calls EXCEPT ![c] = [page |-> page', at |-> "engine",
                                               card |-> h, todo |-> fresh \ {h}]]
             /\ rendered' = [marks EXCEPT ![h] = "pending"]
    BY <1>2
  <2>2. calls'[c] = [page |-> page', at |-> "engine", card |-> h, todo |-> fresh \ {h}]
    BY <2>1 DEF CardTypes
  <2>3. Holds(c, h)' /\ \A g \in fresh : g = h \/ Waits(c, g)'
    BY <2>2 DEF Holds, Waits, Connected
  <2>4. h \in Graphs /\ rendered'[h] = "pending"
        /\ \A g \in Graphs : g # h => rendered'[g] = marks[g]
    BY <2>1
  <2>5. ASSUME NEW g \in Graphs, g # h, marks[g] = "pending"
        PROVE  \E d \in Calls : Holds(d, g)'
    <3>1. PICK d \in Calls : page' = page /\ Holds(d, g)
      BY <2>5
    <3>2. calls[d].at # "idle" /\ d # c
      BY <2>1, <3>1, IdleType DEF Holds
    <3>3. calls'[d] = calls[d]
      BY <2>1, <3>2 DEF CardTypes
    <3> QED BY <3>1, <3>3 DEF Holds, Connected
  <2>6. \A g \in Graphs :
          /\ rendered'[g] = "ready" => canvas'[g] = "svg" /\ handlers'[g] > 0
          /\ rendered'[g] = "error" => canvas'[g] = "alert"
          /\ rendered'[g] = "pending" => \E d \in Calls : Holds(d, g)'
    BY <2>3, <2>4, <2>5
  <2>7. \A g \in cards : rendered'[g] = "fresh" => \E d \in Calls : Waits(d, g)'
    BY <2>3, <2>4
  <2> QED BY <2>6, <2>7 DEF Kept, Listed
<1> QED BY <1>1, <1>2 DEF RenderGraphs

(* A new challenge page: every card is new.                                *)
LEMMA DetailKeeps ==
  ASSUME CardTypes, PageTypes, NEW s \in Slugs, RenderDetail(s)
  PROVE  Cards'
<1>1. /\ page' = pages + 1 /\ tab' = "lr" /\ main' = Detail(s)
      /\ RenderGraphs(page', GraphsOn(s, "lr"), Fresh)
  BY DEF RenderDetail, Replace
<1>2. GraphsOn(s, "lr") \in SUBSET Graphs
  BY PanelsAreGraphs DEF Tabs
<1>3. Fresh \in [Graphs -> {"fresh", "pending", "ready", "error"}]
      /\ \A g \in Graphs : Fresh[g] = "fresh"
  BY DEF Fresh
<1>4. Kept' /\ Listed(GraphsOn(s, "lr"))'
  BY <1>1, <1>2, <1>3, RenderKeeps
<1>5. GraphsOn(main.slug, tab)' = GraphsOn(s, "lr")
  BY <1>1 DEF GraphsOn, Detail
<1> QED BY <1>4, <1>5 DEF Cards, Listed

LEMMA RouteKeeps ==
  ASSUME CardTypes, PageTypes, Route
  PROVE  Cards'
<1>1. CASE hash \in Slugs
  BY <1>1, DetailKeeps DEF Route
<1>2. CASE hash \notin Slugs
  <2>1. main' = Home(Filtered(query, activeFilter))
    BY <1>2, RouteTypes
  <2> QED BY <2>1 DEF Cards, Home
<1> QED BY <1>1, <1>2

LEMMA ActivateKeeps ==
  ASSUME CardTypes, PageTypes, Cards, NEW t \in Tabs, Activate(t)
  PROVE  Cards'
<1>1. /\ main.at = "detail" /\ main' = main /\ tab' = t /\ page' = page
      /\ canvas' = canvas /\ handlers' = handlers
      /\ RenderGraphs(page', GraphsOn(main.slug, t), rendered)
  BY DEF Activate
<1> PICK cards : cards = GraphsOn(main.slug, t)
  OBVIOUS
<1>2. cards \in SUBSET Graphs
  BY <1>1, PanelsAreGraphs DEF PageTypes
<1>3. Kept
  BY <1>1 DEF Cards
<1>4. rendered \in [Graphs -> {"fresh", "pending", "ready", "error"}]
  BY DEF CardTypes
<1>5. \A g \in Graphs :
        /\ rendered[g] = "ready" => canvas'[g] = "svg" /\ handlers'[g] > 0
        /\ rendered[g] = "error" => canvas'[g] = "alert"
        /\ rendered[g] = "pending" => page' = page /\ \E c \in Calls : Holds(c, g)
  BY <1>1, <1>3 DEF Kept
<1>6. Kept' /\ Listed(cards)'
  BY <1>1, <1>2, <1>4, <1>5, RenderKeeps
<1>7. GraphsOn(main.slug, tab)' = cards
  BY <1>1 DEF GraphsOn
<1> QED BY <1>6, <1>7 DEF Cards, Listed

LEMMA CallKeeps ==
  ASSUME CardTypes, PageTypes, Cards, NEW c \in Calls, CallStep(c), UNCHANGED pageVars
  PROVE  Cards'
<1> PICK cards : cards = GraphsOn(main.slug, tab)
  OBVIOUS
<1> SUFFICES ASSUME main.at = "detail" PROVE Kept' /\ Listed(cards)'
  <2>1. GraphsOn(main.slug, tab)' = cards /\ main' = main
    BY DEF GraphsOn, pageVars
  <2> QED BY <2>1 DEF Cards, Listed
<1>1. Kept /\ Listed(cards) /\ cards \in SUBSET Graphs
  BY PanelsAreGraphs DEF Cards, PageTypes
<1>2. calls[c].at # "idle" /\ calls[c].card \in Graphs
  BY CallSteps DEF CardTypes
<1>3. CASE Fail(c)
  <2>1. /\ Resume(c, "error") /\ page' = page /\ handlers' = handlers
        /\ canvas' = IF Connected(c) THEN [canvas EXCEPT ![calls[c].card] = "alert"] ELSE canvas
    BY <1>3 DEF Fail
  <2>2. \A g \in Graphs : ~Holds(c, g) => canvas'[g] = canvas[g] /\ handlers'[g] = handlers[g]
    BY <1>2, <2>1 DEF Holds, CardTypes
  <2>3. \A g \in Graphs : Holds(c, g) => canvas'[g] = "alert"
    BY <1>2, <2>1 DEF Holds, CardTypes
  <2>4. Kept' /\ Listed(cards)'
    BY <1>1, <1>2, <2>1, <2>2, <2>3, ResumeKeeps
  <2> QED BY <2>4
<1>4. CASE Draw(c)
  <2>1. /\ Resume(c, "ready") /\ page' = page
        /\ IF Connected(c) THEN /\ canvas' = [canvas EXCEPT ![calls[c].card] = "svg"]
                                /\ handlers' = [handlers EXCEPT ![calls[c].card] = @ + 1]
           ELSE canvas' = canvas /\ handlers' = handlers
    BY <1>4 DEF Draw
  <2>2. \A g \in Graphs : ~Holds(c, g) => canvas'[g] = canvas[g] /\ handlers'[g] = handlers[g]
    BY <1>2, <2>1 DEF Holds, CardTypes
  <2>3. \A g \in Graphs : Holds(c, g) => canvas'[g] = "svg" /\ handlers'[g] > 0
    BY <1>2, <2>1 DEF Holds, CardTypes
  <2>4. Kept' /\ Listed(cards)'
    BY <1>1, <1>2, <2>1, <2>2, <2>3, ResumeKeeps
  <2> QED BY <2>4
<1>5. ASSUME NEW at \in {"parse", "render"}, Await(c, at)
      PROVE  Kept' /\ Listed(cards)'
  <2>1. /\ calls' = [calls EXCEPT ![c].at = at]
        /\ UNCHANGED <<page, rendered, canvas, handlers>>
    BY <1>5 DEF Await
  <2>2. \A d \in Calls : /\ calls'[d].page = calls[d].page /\ calls'[d].card = calls[d].card
                         /\ calls'[d].todo = calls[d].todo
                         /\ calls[d].at # "idle" => calls'[d].at # "idle"
    BY <2>1 DEF CardTypes, CallRecords
  <2>3. \A d \in Calls, g \in Graphs :
          (Holds(d, g) => Holds(d, g)') /\ (Waits(d, g) => Waits(d, g)')
    BY <2>1, <2>2 DEF Holds, Waits, Connected
  <2> QED BY <1>1, <2>1, <2>3 DEF Kept, Listed
<1> QED BY <1>3, <1>4, <1>5, CallSteps

(* The diagrams of the open tab are drawn, carry an alert, or are in the   *)
(* hands of a call of renderGraphs, whatever the user opens meanwhile.     *)
THEOREM CardsAreKept == Spec => []NoCardForgotten
<1>1. Init => Cards
  <2> SUFFICES ASSUME Init PROVE Cards
    OBVIOUS
  <2>1. main.at = "loading"
    BY DEF Init, Message
  <2> QED BY <2>1 DEF Cards
<1>2. CardTypes /\ PageTypes /\ Cards /\ [Next]_vars => Cards'
  <2> SUFFICES ASSUME CardTypes, PageTypes, Cards, [Next]_vars PROVE Cards'
    OBVIOUS
  <2>1. ASSUME UNCHANGED <<page, rendered, canvas, handlers, calls, main, tab>> PROVE Cards'
    BY <2>1 DEF Cards, Kept, Listed, Holds, Waits, Connected, GraphsOn
  <2>2. ASSUME NEW shown, RenderHome(shown) PROVE Cards'
    BY <2>2 DEF RenderHome, Cards, Home
  <2>3. CASE UNCHANGED vars
    BY <2>1, <2>3 DEF vars, cardVars, pageVars
  <2>4. CASE Loaded
    BY <2>4, RouteKeeps DEF Loaded
  <2>5. CASE LoadFails
    BY <2>5 DEF LoadFails, Cards, Message
  <2>6. CASE HashChange
    <3>1. CASE load = "ready"
      BY <2>6, <3>1, RouteKeeps DEF HashChange
    <3>2. CASE load # "ready"
      BY <2>1, <2>6, <3>2 DEF HashChange, cardVars
    <3> QED BY <3>1, <3>2
  <2>7. ASSUME NEW h \in Hashes, SetHash(h) PROVE Cards'
    BY <2>1, <2>7 DEF SetHash, cardVars
  <2>8. ASSUME NEW q \in DOMAIN Hits, Search(q) PROVE Cards'
    BY <2>1, <2>2, <2>8 DEF Search, cardVars
  <2>9. ASSUME NEW f \in DOMAIN Members, Filter(f) PROVE Cards'
    BY <2>1, <2>2, <2>9 DEF Filter, cardVars
  <2>10. ASSUME NEW t \in Tabs, Activate(t) PROVE Cards'
    BY <2>10, ActivateKeeps
  <2>11. CASE CardsStep /\ UNCHANGED pageVars
    <3>1. CASE EngineSettles
      BY <2>1, <2>11, <3>1 DEF EngineSettles, pageVars
    <3>2. ASSUME NEW g \in Graphs, Expand(g) \/ Escape(g) PROVE Cards'
      BY <2>1, <2>11, <3>2 DEF Expand, Escape, pageVars
    <3> QED BY <2>11, <3>1, <3>2, CallKeeps DEF CardsStep
  <2> QED BY <2>3, <2>4, <2>5, <2>6, <2>7, <2>8, <2>9, <2>10, <2>11 DEF Next
<1>3. CardTypes /\ PageTypes /\ Cards => NoCardForgotten
  <2> SUFFICES ASSUME CardTypes, PageTypes, Cards, main.at = "detail",
                      NEW g \in GraphsOn(main.slug, tab)
               PROVE  \/ rendered[g] = "ready" /\ canvas[g] = "svg" /\ handlers[g] > 0
                      \/ rendered[g] = "error" /\ canvas[g] = "alert"
                      \/ \E c \in Calls : Connected(c) /\ g \in {calls[c].card} \cup calls[c].todo
    BY DEF NoCardForgotten
  <2>1. g \in Graphs
    BY PanelsAreGraphs DEF PageTypes
  <2>2. rendered[g] \in {"fresh", "pending", "ready", "error"}
    BY <2>1 DEF CardTypes
  <2>3. CASE rendered[g] = "fresh"
    BY <2>3 DEF Cards, Listed, Waits
  <2>4. CASE rendered[g] = "pending"
    BY <2>1, <2>4 DEF Cards, Kept, Holds
  <2> QED BY <2>1, <2>2, <2>3, <2>4 DEF Cards, Kept
<1> QED BY <1>1, <1>2, <1>3, AtlasTypes, PTL DEF Spec

-----------------------------------------------------------------------------
(* The page, the navigation and the hash.                                  *)

LEMMA RouteAgrees ==
  ASSUME CardTypes, PageTypes, Route, UNCHANGED <<hash, query, activeFilter>>
  PROVE  PageAgrees'
<1>1. nav' = [visible |-> Filtered(query, activeFilter), active |-> Highlight(hash)]
  BY DEF Route, RenderNav
<1>2. main' = IF hash \in Slugs THEN Detail(hash) ELSE Home(Filtered(query, activeFilter))
  BY RouteTypes
<1>3. ASSUME hash \in Slugs PROVE page' = pages' /\ page' > 0
  BY <1>3 DEF Route, RenderDetail, Replace, CardTypes
<1>4. ASSUME hash \notin Slugs PROVE page' = 0
  BY <1>4 DEF Route, RenderHome, Replace
<1>5. "" \notin Slugs
  BY AtlasAssumption
<1> QED BY <1>1, <1>2, <1>3, <1>4, <1>5 DEF PageAgrees, Filtered, Highlight, Detail, Home

(* The catalogue, rendered again for another search or filter.             *)
LEMMA HomeAgrees ==
  ASSUME PageAgrees, NEW q, NEW f, UNCHANGED <<load, hash, events>>, load = "ready",
         query' = q, activeFilter' = f, RenderNav(Filtered(q, f), Highlight(hash)),
         IF hash = "" THEN RenderHome(Filtered(q, f)) ELSE UNCHANGED <<cardVars, main, tab>>
  PROVE  PageAgrees'
<1>1. nav' = [visible |-> Filtered(q, f), active |-> Highlight(hash)]
  BY DEF RenderNav
<1>2. CASE hash = ""
  <2>1. main' = Home(Filtered(q, f)) /\ page' = 0 /\ "" \notin Slugs
    BY <1>2, AtlasAssumption DEF RenderHome, Replace
  <2> QED BY <1>1, <1>2, <2>1 DEF PageAgrees, Filtered, Highlight, Home
<1>3. CASE hash # ""
  <2>1. UNCHANGED <<page, pages, main>>
    BY <1>3 DEF cardVars
  <2> QED BY <1>1, <1>3, <2>1 DEF PageAgrees, Filtered, Highlight
<1> QED BY <1>2, <1>3

(* Once every event is handled, what is shown is what the hash, the search *)
(* and the filter say, in whatever order they came.                        *)
THEOREM PageFollowsHash == Spec => []PageAgrees
<1>1. Init => PageAgrees
  BY DEF Init, PageAgrees
<1>2. CardTypes /\ PageTypes /\ PageAgrees /\ [Next]_vars => PageAgrees'
  <2> SUFFICES ASSUME CardTypes, PageTypes, PageAgrees, [Next]_vars PROVE PageAgrees'
    OBVIOUS
  <2>1. ASSUME UNCHANGED <<page, pages, pageVars>> PROVE PageAgrees'
    BY <2>1 DEF PageAgrees, Filtered, Highlight, pageVars
  <2>2. CASE UNCHANGED vars
    BY <2>1, <2>2 DEF vars, cardVars
  <2>3. CASE Loaded
    BY <2>3, RouteAgrees DEF Loaded
  <2>4. CASE LoadFails
    BY <2>4 DEF LoadFails, PageAgrees
  <2>5. CASE HashChange
    <3>1. CASE load = "ready"
      BY <2>5, <3>1, RouteAgrees DEF HashChange
    <3>2. CASE load # "ready"
      BY <2>5, <3>2 DEF HashChange, PageAgrees
    <3> QED BY <3>1, <3>2
  <2>6. ASSUME NEW h \in Hashes, SetHash(h) PROVE PageAgrees'
    <3>1. events' # 0
      BY <2>6 DEF SetHash, PageTypes
    <3> QED BY <3>1 DEF PageAgrees
  <2>7. ASSUME NEW q \in DOMAIN Hits, Search(q) PROVE PageAgrees'
    <3> PICK f : f = activeFilter
      OBVIOUS
    <3>1. CASE load = "ready"
      <4>1. /\ UNCHANGED <<load, hash, events>> /\ query' = q /\ activeFilter' = f
            /\ RenderNav(Filtered(q, f), Highlight(hash))
            /\ IF hash = "" THEN RenderHome(Filtered(q, f)) ELSE UNCHANGED <<cardVars, main, tab>>
        BY <2>7, <3>1 DEF Search
      <4> QED BY <3>1, <4>1, HomeAgrees
    <3>2. CASE load # "ready"
      BY <2>7, <3>2 DEF Search, PageAgrees
    <3> QED BY <3>1, <3>2
  <2>8. ASSUME NEW f \in DOMAIN Members, Filter(f) PROVE PageAgrees'
    <3> PICK q : q = query
      OBVIOUS
    <3>1. /\ load = "ready" /\ UNCHANGED <<load, hash, events>> /\ query' = q
          /\ activeFilter' = f /\ RenderNav(Filtered(q, f), Highlight(hash))
          /\ IF hash = "" THEN RenderHome(Filtered(q, f)) ELSE UNCHANGED <<cardVars, main, tab>>
      BY <2>8 DEF Filter
    <3> QED BY <3>1, HomeAgrees
  <2>9. ASSUME NEW t \in Tabs, Activate(t) PROVE PageAgrees'
    BY <2>9 DEF Activate, PageAgrees, Filtered, Highlight
  <2>10. CASE CardsStep /\ UNCHANGED pageVars
    <3>1. UNCHANGED <<page, pages>>
      BY <2>10 DEF CardsStep, EngineSettles, CallStep, AfterEngine, AfterParse, AfterRender,
                   Await, Fail, Draw, Expand, Escape
    <3> QED BY <2>1, <2>10, <3>1
  <2> QED BY <2>2, <2>3, <2>4, <2>5, <2>6, <2>7, <2>8, <2>9, <2>10 DEF Next
<1> QED BY <1>1, <1>2, AtlasTypes, PTL DEF Spec
=============================================================================
