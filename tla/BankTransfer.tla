---------------------------- MODULE BankTransfer ----------------------------
(***************************************************************************)
(* challenges/bank-transfer-module, the reference module.  A transfer is   *)
(* handled on its sender's task, then on its recipient's; between the two  *)
(* the tasks handle what else the microbatch holds.  The commands are      *)
(* appended once each, as the protocol says of transfer ids, in any order. *)
(***************************************************************************)
EXTENDS Diagrams

CONSTANTS Users, Commands  \* records: deposits [type, rid, user, amt] and
                           \* transfers [type, rid, from, to, amt]

VARIABLE state

(* Mutation: the diagram shows what becomes of a success only.             *)
CreditExitsDrawn == <<"credit", "funds">>

CreditExits == <<"credit", "funds", "incoming">>

TransferDiagram == Scenario(
  << <<"depot", "start">>, <<"etl", "read">>, <<"decision", "success">>, <<"state", "debit">>,
     <<"etl", "failure">>, <<"state", "outgoing">>, <<"route", "route">>,
     <<"decision", "credit">>, <<"state", "funds", "incoming">>, <<"end", "done">> >>,
  << <<"start", "read">>, <<"read", "success">>, <<"success", "debit", "failure">>,
     <<"debit", "outgoing">>, <<"failure", "outgoing">>, <<"outgoing", "route">>,
     <<"route", "credit">>, CreditExits, <<"funds", "incoming">>,
     <<"incoming", "done">> >>)

BankPartition == Partition(
  << <<"route", "sender">>, <<"state", "funds", "outgoing">>, <<"route", "recipient">>,
     <<"state", "recipientFunds", "incoming">> >>,
  << <<"sender", "funds", "outgoing", "recipient">>,
     <<"recipient", "recipientFunds", "incoming">> >>)

BankDiagrams == [transfer |-> TransferDiagram, partition |-> BankPartition]

-----------------------------------------------------------------------------
BankInit ==
  state = [walk |-> <<"partition", <<"sender", "recipient">> >>, appended |-> {},
           funds |-> [u \in Users |-> 0], outgoing |-> <<>>, incoming |-> <<>>,
           moving |-> {}]

Deposit(c) ==
  /\ c.type = "deposit" /\ c \notin state.appended
  /\ state' = [state EXCEPT !.appended = @ \cup {c}, !.funds[c.user] = @ + c.amt,
                            !.walk = <<"partition", <<"recipient", "recipientFunds">> >>]

(* On the sender's task: the balance is read and debited there.            *)
TransferOut(c) ==
  LET success == state.funds[c.from] >= c.amt IN
  /\ c.type = "transfer" /\ c \notin state.appended
  /\ state' = [state EXCEPT
       !.appended = @ \cup {c},
       !.funds[c.from] = IF success THEN @ - c.amt ELSE @,
       !.outgoing = Put(@, <<c.from, c.rid>>, [to |-> c.to, amt |-> c.amt,
                                               success |-> success]),
       !.moving = @ \cup {[cmd |-> c, success |-> success]},
       !.walk = <<"transfer", <<"start", "read", "success",
                                IF success THEN "debit" ELSE "failure", "outgoing", "route">> >>]

(* Mutation: the recipient is credited whatever the sender's task found.   *)
TransferInAlways(m) ==
  state' = [state EXCEPT
    !.funds[m.cmd.to] = @ + m.cmd.amt,
    !.incoming = Put(@, <<m.cmd.to, m.cmd.rid>>, [from |-> m.cmd.from, amt |-> m.cmd.amt,
                                                  success |-> m.success]),
    !.moving = @ \ {m},
    !.walk = <<"transfer", <<"route", "credit">> >>]

(* On the recipient's task, with what the sender's found.                  *)
TransferIn(m) ==
  state' = [state EXCEPT
    !.funds[m.cmd.to] = IF m.success THEN @ + m.cmd.amt ELSE @,
    !.incoming = Put(@, <<m.cmd.to, m.cmd.rid>>, [from |-> m.cmd.from, amt |-> m.cmd.amt,
                                                  success |-> m.success]),
    !.moving = @ \ {m},
    !.walk = <<"transfer", <<"route", "credit">> \o (IF m.success THEN <<"funds">> ELSE <<>>)
                             \o <<"incoming", "done">> >>]

BankStep ==
  \/ \E c \in Commands : Deposit(c) \/ TransferOut(c)
  \/ \E m \in state.moving : TransferIn(m)

-----------------------------------------------------------------------------
Total(set) == SumOver([x \in set |-> x.amt])

Credits(c, u) == \/ c.type = "deposit" /\ c.user = u
                 \/ c.type = "transfer" /\ c.to = u

(* A balance is below zero only for a negative amount that was credited to *)
(* it, which nothing rejects: no payer overdraws an account, however the   *)
(* two halves of transfers interleave.  And the money in the accounts and  *)
(* on its way between two tasks is the money deposited, of any amounts.    *)
MoneyKept ==
  /\ \A u \in Users : state.funds[u] < 0 =>
       \E c \in state.appended : c.amt < 0 /\ Credits(c, u)
  /\ SumOver(state.funds) + Total({m.cmd : m \in {m \in state.moving : m.success}})
       = Total({c \in state.appended : c.type = "deposit"})

(* Both histories tell a finished transfer the same way.                   *)
HistoriesAgree ==
  \A c \in {c \in state.appended : c.type = "transfer"} :
    LET out == state.outgoing[<<c.from, c.rid>>] IN
    IF \E m \in state.moving : m.cmd = c
    THEN <<c.to, c.rid>> \notin DOMAIN state.incoming
    ELSE state.incoming[<<c.to, c.rid>>] =
           [from |-> c.from, amt |-> c.amt, success |-> out.success]
=============================================================================
