----------------------------- MODULE GraphCards -----------------------------
(***************************************************************************)
(* docs/atlas/diagrams.mjs: how the diagrams of a challenge page are drawn.*)
(*                                                                         *)
(* renderGraphs(panel) takes the cards of a panel that were not taken yet  *)
(* and draws them one after the other.  It waits for the Mermaid engine,   *)
(* for its parser and for its renderer; at each of these points the user   *)
(* may open another tab or another challenge, and a second call may run.   *)
(*                                                                         *)
(* A card is a graph on the page in the document; of the cards of earlier  *)
(* pages only what calls still hold of them is kept.  Zoom, pan and        *)
(* download are left out, and so is the order of the cards in a panel: a   *)
(* call takes them in any order.                                           *)
(***************************************************************************)
EXTENDS Integers, FiniteSets

CONSTANTS
  Graphs,     \* ids of diagrams
  Malformed,  \* graphs that mermaidSource refuses
  NoGraph,    \* no graph
  MaxPages,   \* bound on the challenge pages rendered
  MaxCalls    \* bound on the calls of renderGraphs under way

ASSUME CardsAssumption ==
  /\ Malformed \subseteq Graphs
  /\ NoGraph \notin Graphs
  /\ MaxPages \in Nat \ {0}
  /\ MaxCalls \in Nat \ {0}

VARIABLES
  page,      \* the challenge page in the document, 0 when there is none
  pages,     \* challenge pages rendered so far
  rendered,  \* card -> its data-rendered, "fresh" when it has none
  canvas,    \* card -> what its canvas shows
  handlers,  \* card -> how often its button handlers were attached
  expanded,  \* cards that fill the screen
  calls,     \* call of renderGraphs -> where it is
  engine,    \* the import of Mermaid
  cache      \* graphs whose SVG is kept

cardVars == <<page, pages, rendered, canvas, handlers, expanded, calls,
              engine, cache>>

Calls == 1..MaxCalls
Idle == [page |-> 0, at |-> "idle", card |-> NoGraph, todo |-> {}]
Fresh == [g \in Graphs |-> "fresh"]

(* card.isConnected, for the cards of call c: its page is the one shown.   *)
Connected(c) == calls[c].page = page

CardsInit ==
  /\ page = 0
  /\ pages = 0
  /\ rendered = Fresh
  /\ canvas = [g \in Graphs |-> "status"]
  /\ handlers = [g \in Graphs |-> 0]
  /\ expanded = {}
  /\ calls = [c \in Calls |-> Idle]
  /\ engine = "none"
  /\ cache = {}

(* renderGraphs(root) on page p up to its first await: the cards without   *)
(* data-rendered are listed, the first one becomes pending and the engine  *)
(* is asked for.                                                           *)
RenderGraphs(p, cards, marks) ==
  LET fresh == {g \in cards : marks[g] = "fresh"} IN
  \/ /\ fresh = {}
     /\ rendered' = marks
     /\ UNCHANGED <<calls, engine>>
  \/ \E c \in Calls, g \in fresh :
       /\ calls[c] = Idle
       /\ calls' = [calls EXCEPT ![c] = [page |-> p, at |-> "engine",
                                         card |-> g, todo |-> fresh \ {g}]]
       /\ rendered' = [marks EXCEPT ![g] = "pending"]
       /\ engine' = IF engine = "none" THEN "loading" ELSE engine

(* #main gets new content: the cards that were in it are gone.             *)
Replace(p) ==
  /\ page' = p
  /\ canvas' = [g \in Graphs |-> "status"]
  /\ handlers' = [g \in Graphs |-> 0]
  /\ expanded' = {}
  /\ UNCHANGED cache

(* The import is made once and its promise kept, a rejected one too.       *)
EngineSettles ==
  /\ engine = "loading"
  /\ engine' \in {"ready", "failed"}
  /\ UNCHANGED <<page, pages, rendered, canvas, handlers, expanded, calls, cache>>

(* Call c leaves its card with the outcome and goes round the loop: the    *)
(* next listed card becomes pending, whoever took it meanwhile.  The cards *)
(* of a page that is gone are passed over.                                 *)
Resume(c, outcome) ==
  LET k == calls[c]
      marks == IF Connected(c) THEN [rendered EXCEPT ![k.card] = outcome]
               ELSE rendered IN
  IF Connected(c) /\ k.todo # {}
  THEN \E g \in k.todo :
         /\ calls' = [calls EXCEPT ![c] = [page |-> k.page, at |-> "engine",
                                           card |-> g, todo |-> k.todo \ {g}]]
         /\ rendered' = [marks EXCEPT ![g] = "pending"]
  ELSE /\ calls' = [calls EXCEPT ![c] = Idle]
       /\ rendered' = marks

(* Mutation: the try block is around the loop, not in it.                  *)
FailForGood(c) ==
  /\ canvas' = IF Connected(c) THEN [canvas EXCEPT ![calls[c].card] = "alert"] ELSE canvas
  /\ rendered' = IF Connected(c) THEN [rendered EXCEPT ![calls[c].card] = "error"] ELSE rendered
  /\ calls' = [calls EXCEPT ![c] = Idle]
  /\ UNCHANGED <<page, pages, handlers, expanded, engine, cache>>

(* catch: an alert in the canvas, and the list of transitions opened.      *)
Fail(c) ==
  /\ canvas' = IF Connected(c) THEN [canvas EXCEPT ![calls[c].card] = "alert"] ELSE canvas
  /\ Resume(c, "error")
  /\ UNCHANGED <<page, pages, handlers, expanded, engine, cache>>

(* The SVG is kept; if the card is still in the document it is put there,  *)
(* and the handlers of the buttons are attached.                           *)
Draw(c) ==
  LET g == calls[c].card IN
  /\ cache' = cache \cup {g}
  /\ IF Connected(c)
     THEN /\ canvas' = [canvas EXCEPT ![g] = "svg"]
          /\ handlers' = [handlers EXCEPT ![g] = @ + 1]
     ELSE UNCHANGED <<canvas, handlers>>
  /\ Resume(c, "ready")
  /\ UNCHANGED <<page, pages, expanded, engine>>

Await(c, at) ==
  /\ calls' = [calls EXCEPT ![c].at = at]
  /\ UNCHANGED <<page, pages, rendered, canvas, handlers, expanded, engine, cache>>

(* Mutation: the engine is waited for before the try block.                *)
AfterEngineReady(c) ==
  /\ calls[c].at = "engine"
  /\ engine = "ready"
  /\ IF calls[c].card \in cache THEN Draw(c)
     ELSE IF calls[c].card \in Malformed THEN Fail(c)
     ELSE Await(c, "parse")

AfterEngine(c) ==
  /\ calls[c].at = "engine"
  /\ \/ engine = "failed" /\ Fail(c)
     \/ /\ engine = "ready"
        /\ IF calls[c].card \in cache THEN Draw(c)
           ELSE IF calls[c].card \in Malformed THEN Fail(c)
           ELSE Await(c, "parse")

(* mermaid.parse and mermaid.render may reject.                            *)
AfterParse(c) ==
  /\ calls[c].at = "parse"
  /\ Await(c, "render") \/ Fail(c)

AfterRender(c) ==
  /\ calls[c].at = "render"
  /\ Draw(c) \/ Fail(c)

CallStep(c) == AfterEngine(c) \/ AfterParse(c) \/ AfterRender(c)

(* A click on Expand runs every handler that was attached, and each one    *)
(* toggles; the button does nothing before the first.                      *)
Expand(g) ==
  /\ handlers[g] > 0
  /\ expanded' = IF handlers[g] % 2 = 0 THEN expanded
                 ELSE IF g \in expanded THEN expanded \ {g}
                 ELSE expanded \cup {g}
  /\ UNCHANGED <<page, pages, rendered, canvas, handlers, calls, engine, cache>>

(* Escape clicks Expand once for every handler that finds the card         *)
(* expanded.                                                               *)
Escape(g) ==
  /\ g \in expanded
  /\ expanded' = IF handlers[g] % 2 = 0 THEN expanded ELSE expanded \ {g}
  /\ UNCHANGED <<page, pages, rendered, canvas, handlers, calls, engine, cache>>

CardsStep ==
  \/ EngineSettles
  \/ \E c \in Calls : CallStep(c)
  \/ \E g \in Graphs : Expand(g) \/ Escape(g)
=============================================================================
