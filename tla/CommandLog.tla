----------------------------- MODULE CommandLog -----------------------------
(***************************************************************************)
(* What the reference modules of the system-design challenges share: the   *)
(* commands of one key (an event, a tenant, a property, a symbol) are      *)
(* taken one after the other, each under a request id of its client.  The  *)
(* first command under an id is decided and its outcome kept; the same     *)
(* command again changes nothing, another one under the id is counted.     *)
(*                                                                         *)
(* A step is one command, decided whole.  Clients may send any command at  *)
(* any time and again, so any order of Commands is taken.  state.walk is   *)
(* the diagram that shows the command and the nodes it went through.       *)
(***************************************************************************)
EXTENDS Diagrams

CONSTANTS
  Commands,     \* records with the fields type and rid, the request id
  MaxConflicts  \* bound: conflicting commands counted for one request

VARIABLE state  \* requests, walk, and what the module keeps of the key

Known(c) == c.rid \in DOMAIN state.requests
Original(c) == state.requests[c.rid]

(* The checks of a command, <<node, passed, reason>>, in the order of the  *)
(* code: the first that fails decides.                                     *)
Failed(checks) == {i \in DOMAIN checks : ~checks[i][2]}
Accepted(checks) == Failed(checks) = {}
Reason(checks) == checks[Min(Failed(checks))][3]
Nodes(checks) ==
  [i \in 1..(IF Accepted(checks) THEN Len(checks) ELSE Min(Failed(checks))) |-> checks[i][1]]

(* Keep the outcome of c, decided in state s.                              *)
Record(c, s, walk, outcome) ==
  state' = [s EXCEPT
    !.walk = walk,
    !.requests = Put(@, c.rid, [cmd |-> c, outcome |-> outcome, conflicts |-> 0])]

Replay(c, walk) ==
  /\ Known(c) /\ Original(c).cmd = c
  /\ state' = [state EXCEPT !.walk = walk]

Conflict(c, walk) ==
  /\ Known(c) /\ Original(c).cmd # c
  /\ Original(c).conflicts < MaxConflicts
  /\ state' = [state EXCEPT !.walk = walk, !.requests[c.rid].conflicts = @ + 1]

(* The requests that were decided in a way.                                *)
Decided(type, outcome) ==
  {r \in Range(state.requests) : r.cmd.type = type /\ r.outcome = outcome}
=============================================================================
