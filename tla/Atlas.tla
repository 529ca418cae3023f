------------------------------- MODULE Atlas -------------------------------
(***************************************************************************)
(* docs/atlas/app.js: the page that shows the challenges.                  *)
(*                                                                         *)
(* The script asks for eight files, and renders the catalogue or the       *)
(* challenge that the location hash names once all have come.  After that  *)
(* the page follows events: the hash changes, and a hashchange event       *)
(* follows later; the user types a search, picks a filter or opens a tab.  *)
(* Opening a tab draws the diagrams of its panel (GraphCards).             *)
(*                                                                         *)
(* Texts, links and the one-pagers are left out.  A challenge is its slug, *)
(* a search or a filter the challenges that match it.                      *)
(***************************************************************************)
EXTENDS GraphCards

CONSTANTS
  Slugs,     \* the challenges
  Unknown,   \* a hash that names no challenge
  Panel,     \* slug -> "lr" and "td" -> the graphs on that tab
  Hits,      \* search -> the challenges whose title, slug or summary match
  Members,   \* filter -> the challenges of that kind
  MaxEvents  \* bound on hashchange events that wait

ASSUME AtlasAssumption ==
  /\ "" \notin Slugs /\ Unknown \notin Slugs \cup {""}
  /\ Panel \in [Slugs -> [{"lr", "td"} -> SUBSET Graphs]]
  /\ \A s \in Slugs : Panel[s]["lr"] \cap Panel[s]["td"] = {}
  /\ \A q \in DOMAIN Hits : Hits[q] \subseteq Slugs
  /\ \A f \in DOMAIN Members : Members[f] \subseteq Slugs
  /\ "" \in DOMAIN Hits /\ "All" \in DOMAIN Members
  /\ MaxEvents \in Nat \ {0}

VARIABLES
  load,          \* the files: loading, ready or failed
  hash,          \* location.hash
  events,        \* hashchange events not yet handled
  query,         \* the search
  activeFilter,  \* the filter
  main,          \* what #main shows, and for which challenges or which one
  nav,           \* the challenges in the navigation, and the highlighted one
  tab            \* the open tab of a challenge

pageVars == <<load, hash, events, query, activeFilter, main, nav, tab>>
vars == <<cardVars, pageVars>>

(* Requirements, users, reference and mutation evidence hold no diagrams.  *)
Tabs == {"lr", "td", "text"}
Hashes == Slugs \cup {"", Unknown}
GraphsOn(s, t) == IF t = "text" THEN {} ELSE Panel[s][t]

(* filtered(): no entries before the files have come.                      *)
Filtered(q, f) == Hits[q] \cap Members[f]
Home(shown)  == [at |-> "home", slug |-> "", shown |-> shown]
Detail(s)    == [at |-> "detail", slug |-> s, shown |-> {}]
Message(m)   == [at |-> m, slug |-> "", shown |-> {}]

Init ==
  /\ CardsInit
  /\ load = "loading"
  /\ hash \in Hashes
  /\ events = 0
  /\ query = ""
  /\ activeFilter = "All"
  /\ main = Message("loading")
  /\ nav = [visible |-> {}, active |-> ""]
  /\ tab = "lr"

RenderNav(visible, selected) ==
  nav' = [visible |-> visible, active |-> selected]

(* The nav highlights the item whose slug equals what it is given: no item *)
(* for a hash that names no challenge.                                     *)
Highlight(h) == IF h \in Slugs THEN h ELSE ""

RenderHome(shown) ==
  /\ main' = Home(shown)
  /\ Replace(0)
  /\ rendered' = Fresh
  /\ UNCHANGED <<pages, calls, engine, tab>>

(* renderDetail(item): new cards, the first tab open, and its diagrams     *)
(* asked for.                                                              *)
RenderDetail(s) ==
  /\ pages < MaxPages
  /\ main' = Detail(s)
  /\ tab' = "lr"
  /\ pages' = pages + 1
  /\ Replace(pages + 1)
  /\ RenderGraphs(pages + 1, GraphsOn(s, "lr"), Fresh)

(* route(): the hash as it is now, not as it was when the event was queued.*)
Route ==
  /\ IF hash \in Slugs THEN RenderDetail(hash)
     ELSE RenderHome(Filtered(query, activeFilter))
  /\ RenderNav(Filtered(query, activeFilter), Highlight(hash))

(* All files came: the filters are rendered, the page routed, and from now *)
(* on hashchange is listened to.                                           *)
Loaded ==
  /\ load = "loading"
  /\ load' = "ready"
  /\ Route
  /\ UNCHANGED <<hash, events, query, activeFilter>>

LoadFails ==
  /\ load = "loading"
  /\ load' = "failed"
  /\ main' = Message("failed")
  /\ UNCHANGED <<cardVars, hash, events, query, activeFilter, nav, tab>>

(* A link, a navigation item, the history or the address bar.              *)
SetHash(h) ==
  /\ h # hash
  /\ events < MaxEvents
  /\ hash' = h
  /\ events' = events + 1
  /\ UNCHANGED <<cardVars, load, query, activeFilter, main, nav, tab>>

HashChange ==
  /\ events > 0
  /\ events' = events - 1
  /\ IF load = "ready" THEN Route ELSE UNCHANGED <<cardVars, main, nav, tab>>
  /\ UNCHANGED <<load, hash, query, activeFilter>>

(* Mutation: the catalogue is rendered again only by the filter.           *)
SearchNavOnly(q) ==
  /\ query' = q
  /\ RenderNav(IF load = "ready" THEN Filtered(q, activeFilter) ELSE {}, Highlight(hash))
  /\ UNCHANGED <<cardVars, main, tab, load, hash, events, activeFilter>>

(* The search box listens from the start.  Before the files have come      *)
(* renderHome throws, after the search and the navigation are set.         *)
Search(q) ==
  /\ query' = q
  /\ RenderNav(IF load = "ready" THEN Filtered(q, activeFilter) ELSE {},
               IF load = "ready" THEN Highlight(hash) ELSE "")
  /\ IF hash = "" /\ load = "ready"
     THEN RenderHome(Filtered(q, activeFilter))
     ELSE UNCHANGED <<cardVars, main, tab>>
  /\ UNCHANGED <<load, hash, events, activeFilter>>

(* The filter buttons exist once the files have come.                      *)
Filter(f) ==
  /\ load = "ready"
  /\ activeFilter' = f
  /\ RenderNav(Filtered(query, f), Highlight(hash))
  /\ IF hash = ""
     THEN RenderHome(Filtered(query, f))
     ELSE UNCHANGED <<cardVars, main, tab>>
  /\ UNCHANGED <<load, hash, events, query>>

(* activate(tab), by a click or by the arrow, Home and End keys, which     *)
(* between them reach every tab.  The open one can be activated again.     *)
Activate(t) ==
  /\ main.at = "detail"
  /\ tab' = t
  /\ RenderGraphs(page, GraphsOn(main.slug, t), rendered)
  /\ UNCHANGED <<page, pages, canvas, handlers, expanded, cache>>
  /\ UNCHANGED <<load, hash, events, query, activeFilter, main, nav>>

Next ==
  \/ Loaded \/ LoadFails \/ HashChange
  \/ \E h \in Hashes : SetHash(h)
  \/ \E q \in DOMAIN Hits : Search(q)
  \/ \E f \in DOMAIN Members : Filter(f)
  \/ \E t \in Tabs : Activate(t)
  \/ CardsStep /\ UNCHANGED pageVars

Spec == Init /\ [][Next]_vars

(* The browser settles what it was asked for and runs what waits for it;   *)
(* the user need do nothing.                                               *)
FairSpec ==
  /\ Spec
  /\ WF_vars(EngineSettles /\ UNCHANGED pageVars)
  /\ \A c \in Calls : WF_vars(CallStep(c) /\ UNCHANGED pageVars)

-----------------------------------------------------------------------------
(* Once every event is handled, the page, the navigation and the hash      *)
(* agree: the challenge the hash names is shown and highlighted, or the    *)
(* catalogue is; both lists match the search and the filter, whatever was  *)
(* typed before the files came.  (A catalogue under a hash that names no   *)
(* challenge is not rendered again by a search; see the README.)           *)
PageAgrees ==
  load = "ready" /\ events = 0 =>
    /\ nav = [visible |-> Filtered(query, activeFilter), active |-> Highlight(hash)]
    /\ hash \in Slugs => main = Detail(hash) /\ page = pages /\ page > 0
    /\ hash \notin Slugs => main.at = "home" /\ page = 0
    /\ hash = "" => main.shown = nav.visible

(* The diagrams of the open tab are never forgotten: each one shows its    *)
(* drawing, with working buttons, or the alert that sends the reader to    *)
(* the list of transitions, or some call of renderGraphs still has it.     *)
NoCardForgotten ==
  main.at = "detail" =>
    \A g \in GraphsOn(main.slug, tab) :
      \/ rendered[g] = "ready" /\ canvas[g] = "svg" /\ handlers[g] > 0
      \/ rendered[g] = "error" /\ canvas[g] = "alert"
      \/ \E c \in Calls : Connected(c) /\ g \in {calls[c].card} \cup calls[c].todo

(* Every diagram that was taken gets its drawing or its alert, or its page *)
(* goes: a call that waits, fails or finds its page gone never leaves one  *)
(* behind.                                                                 *)
Settles == \A g \in Graphs : rendered[g] = "pending" ~> rendered[g] # "pending"

(* browser-check.mjs: after a click on Expand the card is expanded, and    *)
(* after Escape it is not.                                                 *)
ExpandToggles ==
  [][\A g \in Graphs : Expand(g) => (g \in expanded') # (g \in expanded)]_vars
=============================================================================
