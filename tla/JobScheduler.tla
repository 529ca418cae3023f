---------------------------- MODULE JobScheduler ----------------------------
(***************************************************************************)
(* challenges/hld-job-scheduler, the reference module, for one execution.  *)
(* Commands are taken one after the other, in any order and any number of  *)
(* times; only claims have an id of their own.                             *)
(***************************************************************************)
EXTENDS CommandLog

MaxDagNodes == 32
LeaseTime == 10

SubmitClaimDiagram == Scenario(
  << <<"event", "submit">>, <<"decision", "valid">>, <<"end", "discard">>,
     <<"decision", "prior">>, <<"end", "keep">>, <<"state", "init">>, <<"event", "claim">>,
     <<"decision", "old">>, <<"end", "frozen">>, <<"etl", "state">>, <<"decision", "reason">>,
     <<"state", "deny", "grant">>, <<"end", "ready">> >>,
  << <<"submit", "valid">>, <<"valid", "discard", "prior">>, <<"prior", "keep", "init">>,
     <<"claim", "old">>, <<"old", "frozen", "state">>, <<"state", "reason">>,
     <<"reason", "deny", "grant">>, <<"deny", "ready">>, <<"grant", "ready">> >>)

CompleteDiagram == Scenario(
  << <<"event", "event">>, <<"decision", "state">>, <<"end", "noop">>, <<"state", "write">>,
     <<"etl", "status">>, <<"event", "complete">>,
     <<"decision", "exists", "node", "lease", "live">>, <<"end", "ignore">>,
     <<"state", "success">>, <<"external", "reads">> >>,
  << <<"event", "state">>, <<"state", "noop", "write">>, <<"write", "status">>,
     <<"complete", "exists">>, <<"exists", "ignore", "node">>, <<"node", "ignore", "lease">>,
     <<"lease", "ignore", "live">>, <<"live", "ignore", "success">>, <<"success", "reads">>,
     <<"status", "reads">> >>)

ExecutionPartition == Partition(
  << <<"route", "execution">>, <<"state", "root", "lifecycle">>, <<"memory", "dag", "nodes">>,
     <<"state", "claims">>, <<"route", "effect">>, <<"external", "client">> >>,
  << <<"execution", "root">>, <<"root", "lifecycle">>, <<"lifecycle", "dag", "nodes">>,
     <<"root", "claims">>, <<"execution", "effect">>, <<"claims", "client">>,
     <<"lifecycle", "client">> >>)

JobDiagrams == [submitClaim |-> SubmitClaimDiagram, complete |-> CompleteDiagram,
                partition |-> ExecutionPartition]

-----------------------------------------------------------------------------
JobInit ==
  state = [walk |-> <<"partition", <<"execution", "root">> >>, exists |-> FALSE,
           dag |-> <<>>, clock |-> 0, nodes |-> <<>>, claims |-> <<>>]

(* Kahn's algorithm consumes a node after all it depends on.               *)
Acyclic(dag) ==
  LET rounds == Cardinality(DOMAIN dag)
      consumed[i \in 0..rounds] ==
        IF i = 0 THEN {}
        ELSE consumed[i - 1] \cup {n \in DOMAIN dag : dag[n] \subseteq consumed[i - 1]} IN
  consumed[rounds] = DOMAIN dag

ValidDag(dag) ==
  /\ Cardinality(DOMAIN dag) \in 1..MaxDagNodes
  /\ \A n \in DOMAIN dag : dag[n] \subseteq DOMAIN dag
  /\ Acyclic(dag)

NoLease == [worker |-> "nobody", token |-> 0, expiry |-> 0]
NewNode == [attempts |-> 0, lease |-> NoLease, success |-> FALSE, result |-> "none"]

SubmitExecution(c) ==
  LET new == [state EXCEPT !.exists = TRUE, !.dag = c.dag,
                           !.nodes = [n \in DOMAIN c.dag |-> NewNode]]
      path == <<"submit", "valid">> \o
              (IF ~ValidDag(c.dag) THEN <<"discard">>
               ELSE IF state.exists THEN <<"prior", "keep">> ELSE <<"prior", "init">>) IN
  /\ c.type = "submit"
  /\ state' = [(IF ValidDag(c.dag) /\ ~state.exists THEN new ELSE state)
                 EXCEPT !.walk = <<"submitClaim", path>>]

AdvanceClock(c) ==
  LET advances == state.exists /\ c.clock > state.clock IN
  /\ c.type = "clock"
  /\ state' = [state EXCEPT
       !.clock = IF advances THEN c.clock ELSE @,
       !.walk = <<"complete", <<"event", "state">> \o
                   (IF advances THEN <<"write", "status", "reads">> ELSE <<"noop">>)>>]

Succeeded(n) == state.nodes[n].success
DepsDone(n) == \A d \in state.dag[n] : Succeeded(d)
(* Mutation: a lease may be claimed again at its last moment.              *)
LeasedShort(n) ==
  state.nodes[n].lease # NoLease /\ state.clock < state.nodes[n].lease.expiry - 1

Leased(n) == state.nodes[n].lease # NoLease /\ state.clock < state.nodes[n].lease.expiry

NodeStatus(n) ==
  CASE Succeeded(n) -> "success"
    [] ~Succeeded(n) /\ ~DepsDone(n) -> "pending"
    [] ~Succeeded(n) /\ DepsDone(n) /\ Leased(n) -> "running"
    [] OTHER -> "ready"

ClaimChecks(n) ==
  LET known == n \in DOMAIN state.nodes IN
  << <<"execution", state.exists, "unknown-execution">>, <<"node", known, "unknown-node">>,
     <<"success", known /\ ~Succeeded(n), "already-succeeded">>,
     <<"deps", known /\ DepsDone(n), "dependencies-incomplete">>,
     <<"lease", known /\ ~Leased(n), "lease-held">> >>

(* A decision is kept, a refusal too; its id never gets another one.       *)
Claim(c) ==
  LET checks == ClaimChecks(c.node)
      token == state.nodes[c.node].attempts + 1
      expiry == state.clock + LeaseTime
      granted == [state EXCEPT
        !.nodes[c.node] = [@ EXCEPT !.attempts = token,
          !.lease = [worker |-> c.worker, token |-> token, expiry |-> expiry]]]
      Decide(s, decision, last) ==
        state' = [s EXCEPT
          !.claims = Put(@, c.rid, decision),
          !.walk = <<"submitClaim", <<"claim", "old", "state", "reason", last, "ready">> >>] IN
  /\ c.type = "claim" /\ c.rid \notin DOMAIN state.claims
  /\ IF Accepted(checks)
     THEN Decide(granted, [node |-> c.node, worker |-> c.worker, clock |-> state.clock,
                           granted |-> TRUE, token |-> token, expiry |-> expiry], "grant")
     ELSE Decide(state, [node |-> c.node, worker |-> c.worker, clock |-> state.clock,
                         granted |-> FALSE, reason |-> Reason(checks)], "deny")

(* Whatever it asks now.                                                   *)
ClaimAgain(c) ==
  /\ c.type = "claim" /\ c.rid \in DOMAIN state.claims
  /\ state' = [state EXCEPT !.walk = <<"submitClaim", <<"claim", "old", "frozen">> >>]

Complete(c) ==
  LET node == IF c.node \in DOMAIN state.nodes THEN state.nodes[c.node] ELSE NewNode
      checks == << <<"exists", state.exists, "none">>,
                   <<"node", c.node \in DOMAIN state.nodes /\ ~node.success, "none">>,
                   <<"lease", node.lease # NoLease /\ node.lease.worker = c.worker
                              /\ node.lease.token = c.token, "none">>,
                   <<"live", state.clock < node.lease.expiry, "none">> >>
      walk(last) == <<"complete", <<"complete">> \o Nodes(checks) \o last>> IN
  /\ c.type = "complete"
  /\ state' = IF Accepted(checks)
              THEN [state EXCEPT
                !.nodes[c.node] = [@ EXCEPT !.success = TRUE, !.lease = NoLease,
                                            !.result = c.result],
                !.walk = walk(<<"success", "reads">>)]
              ELSE [state EXCEPT !.walk = walk(<<"ignore">>)]

JobStep ==
  \E c \in Commands :
    \/ SubmitExecution(c)
    \/ AdvanceClock(c)
    \/ Claim(c)
    \/ ClaimAgain(c)
    \/ Complete(c)

-----------------------------------------------------------------------------
Granted(n) == {d \in Range(state.claims) : d.granted /\ d.node = n}

(* One worker at a time works on a node: its grants are numbered without a *)
(* gap, and each was given at or after the expiry of the one before.       *)
LeasesApart ==
  \A n \in DOMAIN state.nodes :
    /\ {d.token : d \in Granted(n)} = 1..state.nodes[n].attempts
    /\ \A d, later \in Granted(n) : d # later =>
         /\ d.token # later.token
         /\ d.token < later.token => later.clock >= d.expiry

(* A node succeeds once everything it depends on has, with the result of   *)
(* the last worker it was granted to; and what the service lists as ready  *)
(* is what a claim would be granted.                                       *)
SuccessFenced ==
  \A n \in DOMAIN state.nodes :
    /\ NodeStatus(n) = "ready" <=> Accepted(ClaimChecks(n))
    /\ Succeeded(n) =>
         /\ DepsDone(n)
         /\ \E d \in Granted(n), c \in {c \in Commands : c.type = "complete"} :
              /\ d.token = state.nodes[n].attempts
              /\ c.node = n /\ c.worker = d.worker /\ c.token = d.token
              /\ c.result = state.nodes[n].result
=============================================================================
