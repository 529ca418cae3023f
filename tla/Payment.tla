------------------------------- MODULE Payment -------------------------------
(***************************************************************************)
(* challenges/hld-payment-system, the reference module, for one tenant.    *)
(* A charge is named by the request that made it.  The commands are the    *)
(* ones the client lets through: their amounts are positive, and none of   *)
(* them funds the clearing account.                                        *)
(***************************************************************************)
EXTENDS CommandLog

CommandDiagram == Scenario(
  << <<"event", "call">>, <<"decision", "valid">>, <<"depot", "depot">>,
     <<"decision", "request", "equal">>, <<"end", "replay">>, <<"state", "conflict">>,
     <<"decision", "type", "createTenant", "tenant", "operation", "newAccount", "funded",
       "accounts", "funds">>,
     <<"etl", "accept", "reject">>, <<"end", "invalid">>, <<"state", "save">> >>,
  << <<"call", "valid">>, <<"valid", "depot", "invalid">>, <<"depot", "request">>,
     <<"request", "type", "equal">>, <<"equal", "replay", "conflict">>,
     <<"type", "createTenant">>, <<"createTenant", "accept", "reject">>,
     <<"type", "tenant">>, <<"tenant", "reject", "operation">>,
     <<"operation", "newAccount">>, <<"newAccount", "accept", "reject">>,
     <<"operation", "funded">>, <<"funded", "accept", "reject">>,
     <<"operation", "accounts">>, <<"accounts", "reject", "funds">>,
     <<"funds", "reject", "accept">>, <<"accept", "save">>, <<"reject", "save">> >>)

RefundDiagram == Scenario(
  << <<"event", "event">>, <<"decision", "tenant", "charge", "total", "balance">>,
     <<"end", "reject">>, <<"etl", "accept">>, <<"state", "update", "journal">>,
     <<"end", "done">> >>,
  << <<"event", "tenant">>, <<"tenant", "reject", "charge">>, <<"charge", "reject", "total">>,
     <<"total", "reject", "balance">>, <<"balance", "reject", "accept">>,
     <<"accept", "update">>, <<"update", "journal">>, <<"journal", "done">> >>)

TenantPartition == Partition(
  << <<"route", "tenant">>,
     <<"state", "root", "accounts", "charges", "requests", "journal">>,
     <<"external", "cursor">> >>,
  << <<"tenant", "root">>, <<"root", "accounts", "charges", "requests", "journal">>,
     <<"journal", "cursor">> >>)

PaymentDiagrams == [command |-> CommandDiagram, refund |-> RefundDiagram,
                    partition |-> TenantPartition]

-----------------------------------------------------------------------------
PaymentInit ==
  state = [requests |-> <<>>, walk |-> <<"partition", <<"tenant", "root">> >>,
           tenant |-> FALSE, accounts |-> <<>>, charges |-> <<>>, journal |-> <<>>]

Gate == <<"call", "valid", "depot", "request">>
Has(account) == account \in DOMAIN state.accounts
Kind(account) == IF Has(account) THEN state.accounts[account].kind ELSE "none"
Balance(account) == IF Has(account) THEN state.accounts[account].balance ELSE 0

CommandWalk(steps, checks) ==
  <<"command", Gate \o <<"type">> \o steps \o Nodes(checks)
               \o <<IF Accepted(checks) THEN "accept" ELSE "reject", "save">> >>

(* Mutation: the payer's account is left as it was.                        *)
PostedOnce(s, c, from, to, amount) ==
  [s EXCEPT !.accounts[to].balance = @ + amount,
            !.journal = Append(@, [rid |-> c.rid, from |-> from, to |-> to,
                                   amount |-> amount])]

(* Move amount between two accounts and write the row of the journal.      *)
Posted(s, c, from, to, amount) ==
  [s EXCEPT !.accounts[from].balance = @ - amount, !.accounts[to].balance = @ + amount,
            !.journal = Append(@, [rid |-> c.rid, from |-> from, to |-> to,
                                   amount |-> amount])]

Decide(c, checks, walk, s) ==
  IF Accepted(checks) THEN Record(c, s, walk, "accepted")
  ELSE Record(c, state, walk, Reason(checks))

TenantCheck == <<"tenant", state.tenant, "no-such-tenant">>

CreateTenant(c) ==
  LET checks == << <<"createTenant", ~state.tenant, "tenant-exists">> >> IN
  /\ c.type = "create-tenant" /\ ~Known(c)
  /\ Decide(c, checks, CommandWalk(<<>>, checks),
            [state EXCEPT !.tenant = TRUE,
                          !.accounts = Put(<<>>, "clearing", [kind |-> "clearing", balance |-> 0])])

(* The walk of a command on accounts: its own checks come after the        *)
(* tenant's and the choice of the operation.                               *)
AccountWalk(checks) ==
  IF state.tenant THEN CommandWalk(<<"tenant", "operation">>, Tail(checks))
  ELSE CommandWalk(<<>>, checks)

CreateAccount(c) ==
  LET checks == << TenantCheck, <<"newAccount", ~Has(c.account), "account-exists">> >> IN
  /\ c.type = "create-account" /\ ~Known(c)
  /\ Decide(c, checks, AccountWalk(checks),
            [state EXCEPT !.accounts = Put(@, c.account, [kind |-> c.kind, balance |-> 0])])

Fund(c) ==
  LET checks == << TenantCheck, <<"funded", Has(c.account), "no-such-account">> >> IN
  /\ c.type = "fund" /\ ~Known(c)
  /\ Decide(c, checks, AccountWalk(checks),
            Posted(state, c, "clearing", c.account, c.amount))

Charge(c) ==
  LET kinds == Kind(c.customer) = "customer" /\ Kind(c.merchant) = "merchant"
      checks == << TenantCheck,
                   <<"accounts", kinds, IF Has(c.customer) /\ Has(c.merchant)
                                        THEN "wrong-account-kind" ELSE "no-such-account">>,
                   <<"funds", Balance(c.customer) >= c.amount, "insufficient-funds">> >>
      charge == [customer |-> c.customer, merchant |-> c.merchant, amount |-> c.amount,
                 refunded |-> 0] IN
  /\ c.type = "charge" /\ ~Known(c)
  /\ Decide(c, checks, AccountWalk(checks),
            Posted([state EXCEPT !.charges = Put(@, c.rid, charge)],
                   c, c.customer, c.merchant, c.amount))

NoCharge == [customer |-> "none", merchant |-> "none", amount |-> 0, refunded |-> 0]

(* The accounts are the ones of the charge.                                *)
Refund(c) ==
  LET charge == IF c.charge \in DOMAIN state.charges THEN state.charges[c.charge]
                ELSE NoCharge
      checks == << TenantCheck, <<"charge", charge # NoCharge, "no-such-charge">>,
                   <<"total", charge.refunded + c.amount <= charge.amount,
                     "refund-exceeds-charge">>,
                   <<"balance", Balance(charge.merchant) >= c.amount, "insufficient-funds">> >>
      walk == <<"refund", <<"event">> \o Nodes(checks)
                \o IF Accepted(checks) THEN <<"accept", "update", "journal", "done">>
                   ELSE <<"reject">> >> IN
  /\ c.type = "refund" /\ ~Known(c)
  /\ Decide(c, checks, walk,
            Posted([state EXCEPT !.charges[c.charge].refunded = @ + c.amount],
                   c, charge.merchant, charge.customer, c.amount))

PaymentStep ==
  \E c \in Commands :
    \/ CreateTenant(c)
    \/ CreateAccount(c)
    \/ Fund(c)
    \/ Charge(c)
    \/ Refund(c)
    \/ Replay(c, <<"command", Gate \o <<"equal", "replay">> >>)
    \/ Conflict(c, <<"command", Gate \o <<"equal", "conflict">> >>)

-----------------------------------------------------------------------------
(* The ledger is closed: the balances add up to nothing, each of them is   *)
(* what the journal says, only the clearing account is below zero, and the *)
(* journal holds the accepted movements, each once.                        *)
LedgerBalances ==
  /\ SumOver([a \in DOMAIN state.accounts |-> state.accounts[a].balance]) = 0
  /\ \A a \in DOMAIN state.accounts :
       /\ state.accounts[a].balance =
            SumOver([i \in DOMAIN state.journal |->
              LET row == state.journal[i] IN
              (IF row.to = a THEN row.amount ELSE 0) - (IF row.from = a THEN row.amount ELSE 0)])
       /\ a # "clearing" => state.accounts[a].balance >= 0
  /\ \A r \in Range(state.requests) :
       Cardinality({i \in DOMAIN state.journal : state.journal[i].rid = r.cmd.rid}) =
         IF r.outcome = "accepted" /\ r.cmd.type \in {"fund", "charge", "refund"} THEN 1 ELSE 0

(* What was given back of a charge is what its accepted refunds say, and   *)
(* never more than the charge.                                             *)
RefundsWithinCharge ==
  \A id \in DOMAIN state.charges :
    /\ state.charges[id].refunded <= state.charges[id].amount
    /\ state.charges[id].refunded =
         SumOver([r \in {r \in Decided("refund", "accepted") : r.cmd.charge = id} |->
                  r.cmd.amount])
=============================================================================
