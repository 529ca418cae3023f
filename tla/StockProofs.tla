------------------------------ MODULE StockProofs -----------------------------
(*****************************************************************************)
(* What TLAPS proves of the payments and of the stock exchange, for any      *)
(* commands their clients may send: with the bank, that the books balance,   *)
(* and with all the entries, that nothing is done that the page of the atlas *)
(* does not show.                                                            *)
(*****************************************************************************)
EXTENDS BookingProofs

-----------------------------------------------------------------------------
(* The payments.                                                           *)

(* What clients send, and which of it moves money.                          *)
PayCommands == ModuleCommands["payment-system"]
Movements == {"fund", "charge", "refund"}

(* The instance's sums and cardinalities are those proved about.            *)
LEMMA PaySums == \A f : PS!SumOver(f) = SumOver(f)
BY DEF PS!SumOver, PS!FoldFunction, PS!FoldFunctionOnSet, PS!MapThenFoldSet,
       SumOver, FoldFunction, FoldFunctionOnSet, MapThenFoldSet

(* The sizes of the smallest sets, as the payments count them.              *)
LEMMA PayCards == PS!Cardinality({}) = 0 /\ \A x : PS!Cardinality({x}) = 1
<1>1. \A S : PS!Cardinality(S) = Cardinality(S)
  BY DEF PS!Cardinality, Cardinality
<1> QED BY <1>1, FS_EmptySet, FS_Singleton

(* What the module keeps, and of each request.                              *)
PayFields ==
  /\ DOMAIN state = {"requests", "walk", "tenant", "accounts", "charges", "journal"}
  /\ state.tenant \in BOOLEAN
  /\ IsFiniteSet(DOMAIN state.requests)
  /\ \A id \in DOMAIN state.requests :
       /\ DOMAIN state.requests[id] = {"cmd", "outcome", "conflicts"}
       /\ state.requests[id].cmd \in PayCommands
       /\ state.requests[id].cmd.rid = id
  /\ state.journal \in Seq({state.journal[i] : i \in DOMAIN state.journal})

(* A tenant has a clearing account, and it alone may be below zero.         *)
Accounts ==
  /\ IsFiniteSet(DOMAIN state.accounts)
  /\ ~state.tenant => DOMAIN state.accounts = {}
  /\ state.tenant => /\ "clearing" \in DOMAIN state.accounts
                     /\ state.accounts["clearing"].kind = "clearing"
  /\ \A a \in DOMAIN state.accounts :
       /\ DOMAIN state.accounts[a] = {"kind", "balance"}
       /\ state.accounts[a].balance \in Int
       /\ a # "clearing" => state.accounts[a].balance >= 0

(* The journal is of accounts that are there, and of requests.              *)
JournalRows ==
  \A i \in DOMAIN state.journal :
    /\ DOMAIN state.journal[i] = {"rid", "from", "to", "amount"}
    /\ {state.journal[i].from, state.journal[i].to} \subseteq DOMAIN state.accounts
    /\ state.journal[i].amount \in Nat
    /\ state.journal[i].rid \in DOMAIN state.requests

(* What the balances are, and what a row posts to an account.               *)
Balances == [a \in DOMAIN state.accounts |-> state.accounts[a].balance]
Posting(row, a) ==
  (IF row.to = a THEN row.amount ELSE 0) - (IF row.from = a THEN row.amount ELSE 0)
Postings(a) == [i \in DOMAIN state.journal |-> Posting(state.journal[i], a)]

(* The balances add up to nothing, and each is what its postings add up to. *)
Closed == SumOver(Balances) = 0
Kept ==
  \A a \in DOMAIN state.accounts : state.accounts[a].balance = SumOver(Postings(a))

(* The rows of a request: one when it moved money.                          *)
RowsOf(id) == {i \in DOMAIN state.journal : state.journal[i].rid = id}
PostedOnce ==
  \A id \in DOMAIN state.requests :
    IF state.requests[id].outcome = "accepted" /\ state.requests[id].cmd.type \in Movements
    THEN \E i \in DOMAIN state.journal : RowsOf(id) = {i} ELSE RowsOf(id) = {}

(* The accepted refunds of a charge, by their ids.                          *)
RefundIds(id) ==
  {x \in DOMAIN state.requests :
     /\ state.requests[x].outcome = "accepted" /\ state.requests[x].cmd.type = "refund"
     /\ state.requests[x].cmd.charge = id}
Refunded(id) == SumOver([x \in RefundIds(id) |-> state.requests[x].cmd.amount])

(* A charge is between two accounts, and its refunds are within it.         *)
Charges ==
  /\ \A id \in DOMAIN state.charges :
       /\ id \in DOMAIN state.requests
       /\ DOMAIN state.charges[id] = {"customer", "merchant", "amount", "refunded"}
       /\ {state.charges[id].customer, state.charges[id].merchant} \subseteq DOMAIN state.accounts
       /\ state.charges[id].customer # state.charges[id].merchant
       /\ state.charges[id].amount \in Nat
       /\ state.charges[id].refunded <= state.charges[id].amount
       /\ state.charges[id].refunded = Refunded(id)
  /\ \A x \in DOMAIN state.requests :
       state.requests[x].outcome = "accepted" /\ state.requests[x].cmd.type = "refund" =>
         state.requests[x].cmd.charge \in DOMAIN state.charges

(* The inductive invariant of the payments.                                 *)
PayInv ==
  PayFields /\ Accounts /\ JournalRows /\ Closed /\ Kept /\ PostedOnce /\ Charges

(* It holds before there is a tenant.                                       *)
LEMMA PaymentStarts == PS!PaymentInit => PayInv
<1> SUFFICES ASSUME PS!PaymentInit PROVE PayInv
  OBVIOUS
<1>1. /\ DOMAIN state = {"requests", "walk", "tenant", "accounts", "charges", "journal"}
      /\ state.tenant = FALSE /\ state.journal = <<>>
      /\ DOMAIN state.requests = {} /\ DOMAIN state.accounts = {}
      /\ DOMAIN state.charges = {} /\ DOMAIN state.journal = {}
  BY DEF PS!PaymentInit
<1>2. PayFields
  <2>1. <<>> \in Seq({state.journal[i] : i \in DOMAIN state.journal})
    OBVIOUS
  <2> QED BY <1>1, <2>1, FS_EmptySet DEF PayFields
<1>5. Accounts
  BY <1>1, FS_EmptySet DEF Accounts
<1>6. JournalRows
  BY <1>1 DEF JournalRows
<1>7. Kept
  BY <1>1 DEF Kept
<1>8. PostedOnce
  BY <1>1 DEF PostedOnce
<1>9. Charges
  BY <1>1 DEF Charges
<1>3. DOMAIN Balances = {}
  BY <1>1 DEF Balances
<1>4. Closed
  BY <1>3, SumOfNone DEF Closed
<1> QED BY <1>2, <1>5, <1>6, <1>7, <1>8, <1>9, <1>4 DEF PayInv

(* Every check of an accepted command passed; one that did not pass is why  *)
(* a command is refused.                                                    *)
LEMMA PayPassed ==
  ASSUME NEW checks, PS!Accepted(checks), NEW i \in DOMAIN checks
  PROVE  checks[i][2]
BY DEF PS!Accepted, PS!Failed

(* A command that is not accepted gives the reason of a check of its own.   *)
LEMMA PayReason ==
  ASSUME NEW checks, ~PS!Accepted(checks), DOMAIN checks \subseteq Nat
  PROVE  \E i \in DOMAIN checks : PS!Reason(checks) = checks[i][3]
<1> DEFINE F == PS!Failed(checks)
           least == CHOOSE x \in F : \A y \in F : x <= y
<1>1. F # {} /\ F \subseteq DOMAIN checks
  BY DEF PS!Accepted, PS!Failed
<1>2. \E x \in F : \A y \in F : x <= y
  <2> HIDE DEF F
  <2>1. F \in SUBSET Nat
    BY <1>1
  <2> QED BY <1>1, <2>1, LeastElement
<1>3. least \in F
  <2> HIDE DEF F
  <2> QED BY <1>2
<1>4. PS!Min(F) = least
  BY DEF PS!Min
<1> HIDE DEF F, least
<1>5. least \in DOMAIN checks
  BY <1>1, <1>3
<1> QED BY <1>4, <1>5 DEF PS!Reason, F

(* A request is kept with its command, accepted or not.                     *)
NewRequest(c, accepted) ==
  /\ c.rid \notin DOMAIN state.requests
  /\ DOMAIN state' = DOMAIN state
  /\ DOMAIN state'.requests = DOMAIN state.requests \cup {c.rid}
  /\ \A id \in DOMAIN state.requests : state'.requests[id] = state.requests[id]
  /\ DOMAIN state'.requests[c.rid] = {"cmd", "outcome", "conflicts"}
  /\ state'.requests[c.rid].cmd = c
  /\ accepted <=> state'.requests[c.rid].outcome = "accepted"

Unmoved ==
  /\ state'.tenant = state.tenant /\ state'.accounts = state.accounts
  /\ state'.charges = state.charges /\ state'.journal = state.journal

(* A command takes effect when every check passes, and only then.           *)
LEMMA PayDecision ==
  ASSUME PayFields, NEW c \in PayCommands, ~PS!Known(c), NEW checks, NEW walk, NEW s,
         PS!Decide(c, checks, walk, s), DOMAIN s = DOMAIN state,
         s.requests = state.requests, DOMAIN checks \subseteq Nat,
         \A i \in DOMAIN checks : checks[i][3] # "accepted"
  PROVE  \/ /\ PS!Accepted(checks) /\ NewRequest(c, TRUE)
            /\ state'.tenant = s.tenant /\ state'.accounts = s.accounts
            /\ state'.charges = s.charges /\ state'.journal = s.journal
         \/ NewRequest(c, FALSE) /\ Unmoved
<1>0. DOMAIN state = {"requests", "walk", "tenant", "accounts", "charges", "journal"}
  BY DEF PayFields
<1>1. ASSUME NEW t, NEW outcome, PS!Record(c, t, walk, outcome), DOMAIN t = DOMAIN state,
             t.requests = state.requests
      PROVE  /\ NewRequest(c, outcome = "accepted")
             /\ state'.tenant = t.tenant /\ state'.accounts = t.accounts
             /\ state'.charges = t.charges /\ state'.journal = t.journal
  <2> DEFINE r == [cmd |-> c, outcome |-> outcome, conflicts |-> 0]
  <2>1. /\ DOMAIN state' = DOMAIN state
        /\ state'.requests = PS!Put(state.requests, c.rid, r)
        /\ state'.tenant = t.tenant /\ state'.accounts = t.accounts
        /\ state'.charges = t.charges /\ state'.journal = t.journal
    BY <1>0, <1>1 DEF PS!Record
  <2>2. c.rid \notin DOMAIN state.requests
    BY DEF PS!Known
  <2>3. DOMAIN r = {"cmd", "outcome", "conflicts"} /\ r.cmd = c /\ r.outcome = outcome
    OBVIOUS
  <2> HIDE DEF r
  <2>4. /\ DOMAIN state'.requests = DOMAIN state.requests \cup {c.rid}
        /\ \A id \in DOMAIN state.requests : state'.requests[id] = state.requests[id]
        /\ state'.requests[c.rid] = r
    BY <2>1, <2>2 DEF PS!Put
  <2> QED BY <2>1, <2>2, <2>3, <2>4 DEF NewRequest
<1>2. CASE PS!Accepted(checks)
  <2>1. PS!Record(c, s, walk, "accepted")
    BY <1>2 DEF PS!Decide
  <2>2. NewRequest(c, "accepted" = "accepted")
    BY <1>1, <2>1
  <2> QED BY <1>1, <1>2, <2>1, <2>2
<1>3. CASE ~PS!Accepted(checks)
  <2>1. PS!Record(c, state, walk, PS!Reason(checks))
    BY <1>3 DEF PS!Decide
  <2>2. PS!Reason(checks) # "accepted"
    BY <1>3, PayReason
  <2>3. /\ NewRequest(c, PS!Reason(checks) = "accepted")
        /\ state'.tenant = state.tenant /\ state'.accounts = state.accounts
        /\ state'.charges = state.charges /\ state'.journal = state.journal
    BY <1>1, <2>1
  <2> QED BY <2>2, <2>3 DEF NewRequest, Unmoved
<1> QED BY <1>2, <1>3

(* What was asked stays as it was decided.                                  *)
KeptRequests ==
  /\ DOMAIN state' = DOMAIN state
  /\ \A id \in DOMAIN state.requests :
       /\ id \in DOMAIN state'.requests
       /\ DOMAIN state'.requests[id] = {"cmd", "outcome", "conflicts"}
       /\ state'.requests[id].cmd = state.requests[id].cmd
       /\ state'.requests[id].outcome = state.requests[id].outcome

(* A new request leaves the others as they were.                            *)
LEMMA NewKeeps ==
  ASSUME PayFields, NEW c \in PayCommands, NEW accepted, NewRequest(c, accepted)
  PROVE  /\ KeptRequests
         /\ IsFiniteSet(DOMAIN state'.requests)
         /\ \A id \in DOMAIN state'.requests :
              /\ DOMAIN state'.requests[id] = {"cmd", "outcome", "conflicts"}
              /\ state'.requests[id].cmd \in PayCommands
              /\ state'.requests[id].cmd.rid = id
<1>1. KeptRequests
  BY DEF PayFields, NewRequest, KeptRequests
<1>2. IsFiniteSet(DOMAIN state'.requests)
  BY FS_AddElement DEF PayFields, NewRequest
<1>3. ASSUME NEW id \in DOMAIN state'.requests
      PROVE  /\ DOMAIN state'.requests[id] = {"cmd", "outcome", "conflicts"}
             /\ state'.requests[id].cmd \in PayCommands
             /\ state'.requests[id].cmd.rid = id
  <2>1. CASE id = c.rid
    BY <2>1 DEF NewRequest
  <2>2. CASE id # c.rid
    BY <2>2 DEF PayFields, NewRequest
  <2> QED BY <2>1, <2>2
<1> QED BY <1>1, <1>2, <1>3

(* The refunds of a charge are the same as long as none is accepted.        *)
LEMMA RefundsStay ==
  ASSUME KeptRequests, NEW id,
         \A x \in DOMAIN state'.requests \ DOMAIN state.requests :
           ~(/\ state'.requests[x].outcome = "accepted"
             /\ state'.requests[x].cmd.type = "refund"
             /\ state'.requests[x].cmd.charge = id)
  PROVE  RefundIds(id)' = RefundIds(id) /\ Refunded(id)' = Refunded(id)
<1>1. RefundIds(id)' = RefundIds(id)
  BY DEF KeptRequests, RefundIds
<1>2. \A x \in RefundIds(id) : state'.requests[x].cmd = state.requests[x].cmd
  BY DEF KeptRequests, RefundIds
<1>3. [x \in RefundIds(id)' |-> state'.requests[x].cmd.amount] =
        [x \in RefundIds(id) |-> state.requests[x].cmd.amount]
  BY <1>1, <1>2
<1> QED BY <1>1, <1>3 DEF Refunded

(* A step that moves nothing and accepts nothing keeps the books.           *)
LEMMA PayQuiet ==
  ASSUME PayInv, KeptRequests, Unmoved,
         IsFiniteSet(DOMAIN state'.requests),
         \A id \in DOMAIN state'.requests :
           /\ DOMAIN state'.requests[id] = {"cmd", "outcome", "conflicts"}
           /\ state'.requests[id].cmd \in PayCommands
           /\ state'.requests[id].cmd.rid = id,
         \A id \in DOMAIN state'.requests \ DOMAIN state.requests :
           state'.requests[id].outcome # "accepted"
  PROVE  PayInv'
<1>1. PayFields'
  BY DEF PayInv, PayFields, KeptRequests, Unmoved
<1>2. Accounts'
  BY DEF PayInv, Accounts, Unmoved
<1>3. JournalRows'
  BY DEF PayInv, JournalRows, Unmoved, KeptRequests
<1>4. Closed'
  <2>1. Balances' = Balances
    BY DEF Balances, Unmoved
  <2> QED BY <2>1 DEF PayInv, Closed
<1>5. Kept'
  <2>1. \A a : Postings(a)' = Postings(a)
    BY DEF Postings, Posting, Unmoved
  <2> QED BY <2>1 DEF PayInv, Kept, Unmoved
<1>6. PostedOnce'
  <2>1. \A id : RowsOf(id)' = RowsOf(id)
    BY DEF RowsOf, Unmoved
  <2>2. ASSUME NEW id \in DOMAIN state'.requests
        PROVE  IF state'.requests[id].outcome = "accepted" /\ state'.requests[id].cmd.type \in Movements
               THEN \E i \in DOMAIN state'.journal : RowsOf(id)' = {i} ELSE RowsOf(id)' = {}
    <3>1. CASE id \in DOMAIN state.requests
      BY <2>1, <3>1 DEF PayInv, PostedOnce, Unmoved, KeptRequests
    <3>2. CASE id \notin DOMAIN state.requests
      <4>1. RowsOf(id) = {}
        BY <3>2 DEF PayInv, JournalRows, RowsOf
      <4>2. state'.requests[id].outcome # "accepted"
        BY <3>2
      <4> QED BY <2>1, <4>1, <4>2
    <3> QED BY <3>1, <3>2
  <2> QED BY <2>2 DEF PostedOnce
<1>7. Charges'
  <2>1. \A id : Refunded(id)' = Refunded(id)
    BY RefundsStay
  <2>2. \A x \in DOMAIN state'.requests :
          state'.requests[x].outcome = "accepted" /\ state'.requests[x].cmd.type = "refund" =>
            state'.requests[x].cmd.charge \in DOMAIN state'.charges
    BY DEF PayInv, Charges, KeptRequests, Unmoved
  <2> QED BY <2>1, <2>2 DEF PayInv, Charges, KeptRequests, Unmoved
<1> QED BY <1>1, <1>2, <1>3, <1>4, <1>5, <1>6, <1>7 DEF PayInv

(* A refused command is kept and does nothing else.                         *)
LEMMA PayRefused ==
  ASSUME PayInv, NEW c \in PayCommands, NewRequest(c, FALSE), Unmoved
  PROVE  PayInv'
<1>1. /\ KeptRequests
      /\ IsFiniteSet(DOMAIN state'.requests)
      /\ \A id \in DOMAIN state'.requests :
           /\ DOMAIN state'.requests[id] = {"cmd", "outcome", "conflicts"}
           /\ state'.requests[id].cmd \in PayCommands
           /\ state'.requests[id].cmd.rid = id
  BY NewKeeps DEF PayInv
<1>2. \A id \in DOMAIN state'.requests \ DOMAIN state.requests :
        state'.requests[id].outcome # "accepted"
  BY DEF NewRequest
<1> QED BY <1>1, <1>2, PayQuiet

(* The journal is finite.                                                   *)
LEMMA JournalIsFinite == PayFields => IsFiniteSet(DOMAIN state.journal)
<1> SUFFICES ASSUME PayFields PROVE IsFiniteSet(DOMAIN state.journal)
  OBVIOUS
<1> DEFINE R == {state.journal[i] : i \in DOMAIN state.journal}
<1>1. state.journal \in Seq(R)
  BY DEF PayFields
<1> HIDE DEF R
<1> DEFINE n == Len(state.journal)
<1>2. n \in Nat /\ DOMAIN state.journal = 1..n
  BY <1>1
<1> HIDE DEF n
<1>3. IsFiniteSet(1..n)
  BY <1>2, FS_Interval
<1> QED BY <1>2, <1>3

(* A command that moves an amount from one account to another.              *)
Moves(c, from, to, amount) ==
  /\ state'.tenant = state.tenant
  /\ from \in DOMAIN state.accounts /\ to \in DOMAIN state.accounts /\ from # to
  /\ amount \in Nat
  /\ from # "clearing" => state.accounts[from].balance >= amount
  /\ state'.accounts = [state.accounts EXCEPT ![from].balance = @ - amount,
                                              ![to].balance = @ + amount]
  /\ state'.journal = Append(state.journal, [rid |-> c.rid, from |-> from, to |-> to,
                                             amount |-> amount])

(* Where the accounts are after it.                                         *)
LEMMA AccountsMove ==
  ASSUME Accounts, NEW c, NEW from, NEW to, NEW amount, Moves(c, from, to, amount)
  PROVE  /\ DOMAIN state'.accounts = DOMAIN state.accounts
         /\ Accounts'
         /\ \A a \in DOMAIN state.accounts :
              /\ state.accounts[a].balance \in Int
              /\ state'.accounts[a].balance =
                   IF a = from THEN state.accounts[a].balance - amount
                   ELSE IF a = to THEN state.accounts[a].balance + amount
                   ELSE state.accounts[a].balance
<1> DEFINE D == DOMAIN state.accounts
           mid == [state.accounts EXCEPT ![from].balance = @ - amount]
<1>1. /\ \A a \in D : DOMAIN state.accounts[a] = {"kind", "balance"}
      /\ \A a \in D : state.accounts[a].balance \in Int
      /\ from \in D /\ to \in D /\ from # to /\ amount \in Nat
      /\ from # "clearing" => state.accounts[from].balance >= amount
  BY DEF Accounts, Moves
<1>2. state'.accounts = [mid EXCEPT ![to].balance = @ + amount]
  BY DEF Moves
<1>3. DOMAIN mid = D /\ \A a \in D : a # from => mid[a] = state.accounts[a]
  OBVIOUS
<1>4. /\ DOMAIN mid[from] = {"kind", "balance"} /\ mid[from].kind = state.accounts[from].kind
      /\ mid[from].balance = state.accounts[from].balance - amount
  BY <1>1
<1> HIDE DEF mid
<1>5. DOMAIN state'.accounts = D /\ \A a \in D : a # to => state'.accounts[a] = mid[a]
  BY <1>2, <1>3
<1>6. /\ DOMAIN state'.accounts[to] = {"kind", "balance"}
      /\ state'.accounts[to].kind = mid[to].kind
      /\ state'.accounts[to].balance = mid[to].balance + amount
  <2>1. mid[to] = state.accounts[to] /\ to \in DOMAIN mid /\ DOMAIN mid[to] = {"kind", "balance"}
    BY <1>1, <1>3
  <2> QED BY <1>2, <2>1
<1>7. ASSUME NEW a \in D
      PROVE  /\ DOMAIN state'.accounts[a] = {"kind", "balance"}
             /\ state'.accounts[a].kind = state.accounts[a].kind
             /\ state'.accounts[a].balance =
                  IF a = from THEN state.accounts[a].balance - amount
                  ELSE IF a = to THEN state.accounts[a].balance + amount
                  ELSE state.accounts[a].balance
  BY <1>1, <1>3, <1>4, <1>5, <1>6
<1>8. Accounts'
  <2>1. ASSUME NEW a \in D
        PROVE  /\ DOMAIN state'.accounts[a] = {"kind", "balance"}
               /\ state'.accounts[a].balance \in Int
               /\ a # "clearing" => state'.accounts[a].balance >= 0
    <3>1. a # "clearing" => state.accounts[a].balance >= 0
      BY DEF Accounts
    <3> QED BY <1>1, <1>7, <3>1
  <2> QED BY <1>5, <1>7, <2>1 DEF Moves, Accounts
<1> QED BY <1>1, <1>5, <1>7, <1>8

(* They still add up to nothing.                                            *)
LEMMA BooksStayClosed ==
  ASSUME Accounts, Closed, NEW c, NEW from, NEW to, NEW amount, Moves(c, from, to, amount)
  PROVE  Closed'
<1> DEFINE D == DOMAIN state.accounts
           f == Balances
           g == [a \in D |-> IF a = from THEN state.accounts[a].balance - amount
                             ELSE state.accounts[a].balance]
           h == Balances'
<1>1. /\ IsFiniteSet(D) /\ amount \in Int /\ from \in D /\ to \in D /\ from # to
      /\ \A a \in D : state.accounts[a].balance \in Int
  BY DEF Accounts, Moves
<1>2. h = [a \in D |-> IF a = from THEN state.accounts[a].balance - amount
                       ELSE IF a = to THEN state.accounts[a].balance + amount
                       ELSE state.accounts[a].balance]
  BY AccountsMove DEF Balances
<1>3. f \in [D -> Int] /\ g \in [D -> Int] /\ h \in [D -> Int]
  BY <1>1, <1>2 DEF Balances
<1>4. f[from] \in Int /\ g[from] = f[from] - amount /\ \A a \in D : a # from => g[a] = f[a]
  BY <1>1 DEF Balances
<1>5. g[to] \in Int /\ h[to] = g[to] + amount /\ \A a \in D : a # to => h[a] = g[a]
  BY <1>1, <1>2
<1>6. OneOther(D, f, from, g) /\ OneOther(D, g, to, h)
  BY <1>1, <1>3, <1>4, <1>5 DEF OneOther
<1> HIDE DEF D, f, g, h
<1>7. SumOver(g) = SumOver(f) - f[from] + g[from] /\ SumOver(h) = SumOver(g) - g[to] + h[to]
  BY <1>6, SumChange
<1>8. SumOver(f) = 0
  BY DEF Closed, f
<1>9. SumOver(h) = 0
  BY <1>1, <1>4, <1>5, <1>7, <1>8
<1> QED BY <1>9 DEF Closed, h

(* What a movement does to the journal and to what it keeps.                *)
LEMMA MovesArePosted ==
  ASSUME PayInv, NEW c \in PayCommands, NewRequest(c, TRUE), c.type \in Movements,
         NEW from, NEW to, NEW amount, Moves(c, from, to, amount)
  PROVE  /\ KeptRequests
         /\ PayFields' /\ Accounts' /\ JournalRows' /\ Closed' /\ Kept' /\ PostedOnce'
<1> DEFINE row == [rid |-> c.rid, from |-> from, to |-> to, amount |-> amount]
<1>1. /\ KeptRequests
      /\ IsFiniteSet(DOMAIN state'.requests)
      /\ \A id \in DOMAIN state'.requests :
           /\ DOMAIN state'.requests[id] = {"cmd", "outcome", "conflicts"}
           /\ state'.requests[id].cmd \in PayCommands
           /\ state'.requests[id].cmd.rid = id
  BY NewKeeps DEF PayInv
<1>2. state'.journal = Append(state.journal, row)
  BY DEF Moves
<1>3. DOMAIN row = {"rid", "from", "to", "amount"} /\ row.rid = c.rid /\ row.from = from
      /\ row.to = to /\ row.amount = amount
  OBVIOUS
<1> HIDE DEF row
<1>12. /\ IsFiniteSet(DOMAIN state.journal)
      /\ state'.journal \in Seq({state'.journal[i] : i \in DOMAIN state'.journal})
      /\ \E n \in DOMAIN state'.journal :
           /\ n \notin DOMAIN state.journal
           /\ DOMAIN state'.journal = DOMAIN state.journal \cup {n}
           /\ state'.journal[n] = row
           /\ \A i \in DOMAIN state.journal : state'.journal[i] = state.journal[i]
  <2>1. OneLast(state.journal, state'.journal, row)
    BY <1>2 DEF OneLast, PayInv, PayFields
  <2>2. Longer(state.journal, state'.journal, row)
    BY <2>1, LastComes
  <2> QED BY <2>2 DEF Longer
<1>4. PICK n \in DOMAIN state'.journal :
        /\ n \notin DOMAIN state.journal /\ DOMAIN state'.journal = DOMAIN state.journal \cup {n}
        /\ state'.journal[n] = row
        /\ \A i \in DOMAIN state.journal : state'.journal[i] = state.journal[i]
  BY <1>12
<1>5. /\ DOMAIN state'.accounts = DOMAIN state.accounts
      /\ Accounts'
      /\ \A a \in DOMAIN state.accounts :
           /\ state.accounts[a].balance \in Int
           /\ state'.accounts[a].balance =
                IF a = from THEN state.accounts[a].balance - amount
                ELSE IF a = to THEN state.accounts[a].balance + amount
                ELSE state.accounts[a].balance
  BY AccountsMove DEF PayInv
<1>6. /\ from \in DOMAIN state.accounts /\ to \in DOMAIN state.accounts /\ from # to
      /\ amount \in Nat /\ state'.tenant = state.tenant
  BY DEF Moves
<1>7. PayFields'
  BY <1>1, <1>12, <1>6 DEF PayInv, PayFields, KeptRequests
<1>8. JournalRows'
  <2>1. c.rid \in DOMAIN state'.requests
    BY DEF NewRequest
  <2>2. ASSUME NEW i \in DOMAIN state'.journal
        PROVE  /\ DOMAIN state'.journal[i] = {"rid", "from", "to", "amount"}
               /\ {state'.journal[i].from, state'.journal[i].to} \subseteq DOMAIN state'.accounts
               /\ state'.journal[i].amount \in Nat
               /\ state'.journal[i].rid \in DOMAIN state'.requests
    <3>1. CASE i = n
      BY <1>3, <1>4, <1>5, <1>6, <2>1, <3>1
    <3>2. CASE i # n
      BY <1>1, <1>4, <1>5, <3>2 DEF PayInv, JournalRows, KeptRequests
    <3> QED BY <3>1, <3>2
  <2> QED BY <2>2 DEF JournalRows
<1>9. Closed'
  BY BooksStayClosed DEF PayInv
<1>10. Kept'
  <2>1. ASSUME NEW a \in DOMAIN state.accounts
        PROVE  state'.accounts[a].balance = SumOver(Postings(a)')
    <3> DEFINE J == DOMAIN state.journal
               f == Postings(a)
               g == Postings(a)'
    <3>1. f \in [J -> Int]
      <4>1. \A i \in J : Posting(state.journal[i], a) \in Int
        BY DEF PayInv, JournalRows, Posting
      <4> QED BY <4>1 DEF Postings
    <3>2. DOMAIN g = J \cup {n} /\ \A i \in J : g[i] = f[i]
      BY <1>4 DEF Postings, Posting
    <3>3. g[n] = (IF to = a THEN amount ELSE 0) - (IF from = a THEN amount ELSE 0)
      BY <1>3, <1>4 DEF Postings, Posting
    <3>4. g[n] \in Int
      BY <1>6, <3>3
    <3>5. g \in [J \cup {n} -> Int]
      <4>1. g = [i \in J \cup {n} |-> g[i]]
        BY <3>2 DEF Postings
      <4> QED BY <3>1, <3>2, <3>4, <4>1
    <3>6. OneMore(J, f, n, g)
      BY <1>4, <1>12, <3>1, <3>2, <3>5 DEF OneMore
    <3>7. state.accounts[a].balance = SumOver(f)
      BY DEF PayInv, Kept
    <3> HIDE DEF f, g, J
    <3>8. SumOver(g) = SumOver(f) + g[n]
      BY <3>6, SumPutIn
    <3>9. state'.accounts[a].balance = state.accounts[a].balance + g[n]
      BY <1>5, <1>6, <3>3
    <3>10. state'.accounts[a].balance = SumOver(g)
      BY <3>7, <3>8, <3>9
    <3> QED BY <3>10 DEF g
  <2> QED BY <1>5, <2>1 DEF Kept
<1>11. PostedOnce'
  <2>1. ASSUME NEW id, id # c.rid PROVE RowsOf(id)' = RowsOf(id)
    BY <1>3, <1>4, <2>1 DEF RowsOf
  <2>2. RowsOf(c.rid) = {}
    BY DEF RowsOf, PayInv, JournalRows, NewRequest
  <2>3. {i \in DOMAIN state'.journal : state'.journal[i].rid = c.rid} = {n}
    BY <1>3, <1>4, <2>2 DEF RowsOf
  <2>4. ASSUME NEW id \in DOMAIN state'.requests
        PROVE  IF state'.requests[id].outcome = "accepted" /\ state'.requests[id].cmd.type \in Movements
               THEN \E i \in DOMAIN state'.journal :
                      {k \in DOMAIN state'.journal : state'.journal[k].rid = id} = {i}
               ELSE {k \in DOMAIN state'.journal : state'.journal[k].rid = id} = {}
    <3>1. CASE id = c.rid
      <4>1. state'.requests[id].outcome = "accepted" /\ state'.requests[id].cmd.type \in Movements
        BY <3>1 DEF NewRequest
      <4> QED BY <2>3, <3>1, <4>1
    <3>2. CASE id # c.rid
      <4>1. /\ id \in DOMAIN state.requests
            /\ state'.requests[id] = state.requests[id]
        BY <3>2 DEF NewRequest
      <4>2. {k \in DOMAIN state'.journal : state'.journal[k].rid = id} = RowsOf(id)
        BY <2>1, <3>2 DEF RowsOf
      <4>3. IF state.requests[id].outcome = "accepted" /\ state.requests[id].cmd.type \in Movements
            THEN \E i \in DOMAIN state.journal : RowsOf(id) = {i} ELSE RowsOf(id) = {}
        BY <4>1 DEF PayInv, PostedOnce
      <4> QED BY <1>4, <4>1, <4>2, <4>3
    <3> QED BY <3>1, <3>2
  <2> QED BY <2>4 DEF PostedOnce, RowsOf
<1> QED BY <1>1, <1>5, <1>7, <1>8, <1>9, <1>10, <1>11

(* The charges are as they were when nothing touches them.                  *)
LEMMA ChargesStay ==
  ASSUME Charges, KeptRequests, state'.charges = state.charges,
         DOMAIN state.accounts \subseteq DOMAIN state'.accounts,
         \A x \in DOMAIN state'.requests \ DOMAIN state.requests :
           state'.requests[x].cmd.type # "refund"
  PROVE  Charges'
<1>1. \A id : Refunded(id)' = Refunded(id)
  BY RefundsStay
<1>2. \A x \in DOMAIN state'.requests :
        state'.requests[x].outcome = "accepted" /\ state'.requests[x].cmd.type = "refund" =>
          state'.requests[x].cmd.charge \in DOMAIN state'.charges
  BY DEF Charges, KeptRequests
<1> QED BY <1>1, <1>2 DEF Charges, KeptRequests

(* A new tenant has its clearing account and nothing in it.                 *)
LEMMA PayCreateTenant ==
  ASSUME PayInv, NEW c \in PayCommands, PS!CreateTenant(c)
  PROVE  PayInv'
<1> DEFINE clearing == [kind |-> "clearing", balance |-> 0]
           checks == << <<"createTenant", ~state.tenant, "tenant-exists">> >>
           s == [state EXCEPT !.tenant = TRUE, !.accounts = PS!Put(<<>>, "clearing", clearing)]
<1>0. DOMAIN state = {"requests", "walk", "tenant", "accounts", "charges", "journal"}
  BY DEF PayInv, PayFields
<1>1. c.type = "create-tenant" /\ ~PS!Known(c) /\ \E walk : PS!Decide(c, checks, walk, s)
  BY DEF PS!CreateTenant
<1>2. PICK walk : PS!Decide(c, checks, walk, s)
  BY <1>1
<1>3. /\ DOMAIN s = DOMAIN state /\ s.requests = state.requests /\ s.tenant = TRUE
      /\ s.accounts = PS!Put(<<>>, "clearing", clearing)
      /\ s.charges = state.charges /\ s.journal = state.journal
  BY <1>0
<1>4. DOMAIN checks = {1} /\ checks[1][2] = ~state.tenant /\ checks[1][3] # "accepted"
  OBVIOUS
<1>5. DOMAIN clearing = {"kind", "balance"} /\ clearing.kind = "clearing" /\ clearing.balance = 0
  OBVIOUS
<1> HIDE DEF s, checks, clearing
<1>6. \/ /\ PS!Accepted(checks) /\ NewRequest(c, TRUE)
         /\ state'.tenant = s.tenant /\ state'.accounts = s.accounts
         /\ state'.charges = s.charges /\ state'.journal = s.journal
      \/ NewRequest(c, FALSE) /\ Unmoved
  <2>1. PayFields /\ ~PS!Known(c)
    BY <1>1 DEF PayInv
  <2>2. DOMAIN checks \subseteq Nat /\ \A i \in DOMAIN checks : checks[i][3] # "accepted"
    BY <1>4
  <2> QED BY ONLY <1>2, <1>3, <2>1, <2>2, c \in PayCommands, PayDecision
<1>7. CASE NewRequest(c, FALSE) /\ Unmoved
  BY <1>7, PayRefused
<1>8. CASE /\ PS!Accepted(checks) /\ NewRequest(c, TRUE)
           /\ state'.tenant = s.tenant /\ state'.accounts = s.accounts
           /\ state'.charges = s.charges /\ state'.journal = s.journal
  <2>1. ~state.tenant
    BY <1>4, <1>8, PayPassed
  <2>2. DOMAIN state.accounts = {}
    BY <2>1 DEF PayInv, Accounts
  <2>3. DOMAIN state.journal = {} /\ DOMAIN state.charges = {}
    BY <2>2 DEF PayInv, JournalRows, Charges
  <2>4. /\ KeptRequests /\ IsFiniteSet(DOMAIN state'.requests)
        /\ \A id \in DOMAIN state'.requests :
             /\ DOMAIN state'.requests[id] = {"cmd", "outcome", "conflicts"}
             /\ state'.requests[id].cmd \in PayCommands
             /\ state'.requests[id].cmd.rid = id
    BY <1>8, NewKeeps DEF PayInv
  <2>5. /\ state'.tenant = TRUE /\ DOMAIN state'.accounts = {"clearing"}
        /\ state'.accounts["clearing"] = clearing
        /\ state'.charges = state.charges /\ state'.journal = state.journal
    <3>1. DOMAIN <<>> = {}
      OBVIOUS
    <3>2. DOMAIN PS!Put(<<>>, "clearing", clearing) = {"clearing"}
      BY <3>1 DEF PS!Put
    <3>3. PS!Put(<<>>, "clearing", clearing)["clearing"] = clearing
      BY DEF PS!Put
    <3> QED BY <1>3, <1>8, <3>2, <3>3
  <2>13. state'.tenant \in BOOLEAN /\ state'.tenant
    BY <2>5
  <2>14. state'.journal \in Seq({state'.journal[i] : i \in DOMAIN state'.journal})
    BY <2>5 DEF PayInv, PayFields
  <2>6. PayFields'
    BY <1>0, <2>4, <2>13, <2>14 DEF PayFields, KeptRequests
  <2>7. Accounts'
    <3>1. IsFiniteSet(DOMAIN state'.accounts)
      BY <2>5, FS_Singleton
    <3> QED BY <1>5, <2>5, <2>13, <3>1 DEF Accounts
  <2>8. JournalRows'
    BY <2>3, <2>5 DEF JournalRows
  <2>9. Closed'
    <3>1. Balances' \in [{"clearing"} -> Int] /\ \A a \in {"clearing"} : Balances'[a] = 0
      BY <1>5, <2>5 DEF Balances
    <3>2. SumOver(Balances') = 0
      BY ONLY <3>1, FS_Singleton, SumOfZeros
    <3> QED BY <3>2 DEF Closed
  <2>10. Kept'
    <3>1. \A a : SumOver(Postings(a)') = 0
      BY <2>3, <2>5, SumOfNone DEF Postings
    <3> QED BY <1>5, <2>5, <3>1 DEF Kept
  <2>11. PostedOnce'
    <3>1. \A id \in DOMAIN state'.requests :
            ~(state'.requests[id].outcome = "accepted" /\ state'.requests[id].cmd.type \in Movements)
      <4>1. c.type \notin Movements
        BY <1>1 DEF Movements
      <4>2. \A id \in DOMAIN state.requests :
              ~(state.requests[id].outcome = "accepted" /\ state.requests[id].cmd.type \in Movements)
        BY <2>3 DEF PayInv, PostedOnce
      <4> QED BY <1>8, <4>1, <4>2 DEF NewRequest
    <3>2. \A id : RowsOf(id)' = {}
      BY <2>3, <2>5 DEF RowsOf
    <3> QED BY <3>1, <3>2 DEF PostedOnce
  <2>12. Charges'
    <3>1. \A x \in DOMAIN state'.requests \ DOMAIN state.requests :
            state'.requests[x].cmd.type # "refund"
      BY <1>1, <1>8 DEF NewRequest
    <3> QED BY <2>2, <2>4, <2>5, <3>1, ChargesStay DEF PayInv
  <2> QED BY <2>6, <2>7, <2>8, <2>9, <2>10, <2>11, <2>12 DEF PayInv
<1> QED BY <1>6, <1>7, <1>8

(* A new account has nothing in it, and no row speaks of it.                *)
LEMMA PayCreateAccount ==
  ASSUME PayInv, NEW c \in PayCommands, PS!CreateAccount(c)
  PROVE  PayInv'
<1> DEFINE account == [kind |-> c.kind, balance |-> 0]
           checks == << PS!TenantCheck, <<"newAccount", ~PS!Has(c.account), "account-exists">> >>
           s == [state EXCEPT !.accounts = PS!Put(@, c.account, account)]
<1>0. DOMAIN state = {"requests", "walk", "tenant", "accounts", "charges", "journal"}
  BY DEF PayInv, PayFields
<1>1. c.type = "create-account" /\ ~PS!Known(c) /\ \E walk : PS!Decide(c, checks, walk, s)
  BY DEF PS!CreateAccount
<1>2. PICK walk : PS!Decide(c, checks, walk, s)
  BY <1>1
<1>3. /\ DOMAIN s = DOMAIN state /\ s.requests = state.requests /\ s.tenant = state.tenant
      /\ s.accounts = PS!Put(state.accounts, c.account, account)
      /\ s.charges = state.charges /\ s.journal = state.journal
  BY <1>0
<1>4. /\ DOMAIN checks = {1, 2}
      /\ checks[1][2] = state.tenant /\ checks[2][2] = (c.account \notin DOMAIN state.accounts)
      /\ checks[1][3] # "accepted" /\ checks[2][3] # "accepted"
  BY DEF PS!TenantCheck, PS!Has
<1>5. DOMAIN account = {"kind", "balance"} /\ account.balance = 0
  OBVIOUS
<1> HIDE DEF s, checks, account
<1>6. \/ /\ PS!Accepted(checks) /\ NewRequest(c, TRUE)
         /\ state'.tenant = s.tenant /\ state'.accounts = s.accounts
         /\ state'.charges = s.charges /\ state'.journal = s.journal
      \/ NewRequest(c, FALSE) /\ Unmoved
  <2>1. PayFields /\ ~PS!Known(c)
    BY <1>1 DEF PayInv
  <2>2. DOMAIN checks \subseteq Nat /\ \A i \in DOMAIN checks : checks[i][3] # "accepted"
    BY <1>4
  <2> QED BY ONLY <1>2, <1>3, <2>1, <2>2, c \in PayCommands, PayDecision
<1>7. CASE NewRequest(c, FALSE) /\ Unmoved
  BY <1>7, PayRefused
<1>8. CASE /\ PS!Accepted(checks) /\ NewRequest(c, TRUE)
           /\ state'.tenant = s.tenant /\ state'.accounts = s.accounts
           /\ state'.charges = s.charges /\ state'.journal = s.journal
  <2> DEFINE D == DOMAIN state.accounts
             a == c.account
  <2>1. state.tenant
    BY <1>4, <1>8, PayPassed
  <2>2. a \notin D
    BY <1>4, <1>8, PayPassed
  <2>3. "clearing" \in D /\ a # "clearing"
    BY <2>1, <2>2 DEF PayInv, Accounts
  <2>4. /\ KeptRequests /\ IsFiniteSet(DOMAIN state'.requests)
        /\ \A id \in DOMAIN state'.requests :
             /\ DOMAIN state'.requests[id] = {"cmd", "outcome", "conflicts"}
             /\ state'.requests[id].cmd \in PayCommands
             /\ state'.requests[id].cmd.rid = id
    BY <1>8, NewKeeps DEF PayInv
  <2>5. /\ state'.tenant = state.tenant /\ DOMAIN state'.accounts = D \cup {a}
        /\ state'.accounts[a] = account
        /\ \A b \in D : state'.accounts[b] = state.accounts[b]
        /\ state'.charges = state.charges /\ state'.journal = state.journal
    BY <1>3, <1>8, <2>2 DEF PS!Put
  <2>6. PayFields'
    BY <2>4, <2>5 DEF PayInv, PayFields, KeptRequests
  <2>7. Accounts'
    <3>1. IsFiniteSet(D \cup {a})
      BY FS_AddElement DEF PayInv, Accounts
    <3> QED BY <1>5, <2>1, <2>3, <2>5, <3>1 DEF PayInv, Accounts
  <2>8. JournalRows'
    BY <2>4, <2>5 DEF PayInv, JournalRows, KeptRequests
  <2>9. Closed'
    <3> DEFINE f == Balances
               g == Balances'
    <3>1. f \in [D -> Int] /\ g \in [D \cup {a} -> Int] /\ g[a] = 0
          /\ \A b \in D : g[b] = f[b]
      BY <1>5, <2>5 DEF PayInv, Accounts, Balances
    <3>2. OneMore(D, f, a, g)
      BY <2>2, <3>1 DEF PayInv, Accounts, OneMore
    <3>3. SumOver(f) = 0
      BY DEF PayInv, Closed
    <3> HIDE DEF f, g, D
    <3>4. SumOver(g) = SumOver(f) + g[a]
      BY <3>2, SumPutIn
    <3> QED BY <3>1, <3>3, <3>4 DEF Closed, g
  <2>10. Kept'
    <3>1. \A b : Postings(b)' = Postings(b)
      BY <2>5 DEF Postings, Posting
    <3>2. SumOver(Postings(a)) = 0
      <4> DEFINE J == DOMAIN state.journal
                 f == Postings(a)
      <4>1. \A i \in J : Posting(state.journal[i], a) = 0
        BY <2>2 DEF PayInv, JournalRows, Posting
      <4>2. f \in [J -> Int] /\ \A i \in J : f[i] = 0
        BY <4>1 DEF Postings
      <4>3. IsFiniteSet(J)
        BY JournalIsFinite DEF PayInv
      <4> HIDE DEF f, J
      <4>4. SumOver(f) = 0
        BY <4>2, <4>3, SumOfZeros
      <4> QED BY <4>4 DEF f
    <3>3. \A b \in D : state'.accounts[b].balance = SumOver(Postings(b)')
      BY <2>5, <3>1 DEF PayInv, Kept
    <3>4. state'.accounts[a].balance = SumOver(Postings(a)')
      BY <1>5, <2>5, <3>1, <3>2
    <3>5. \A b \in DOMAIN state'.accounts : state'.accounts[b].balance = SumOver(Postings(b)')
      BY <2>5, <3>3, <3>4
    <3> QED BY <3>5 DEF Kept
  <2>11. PostedOnce'
    <3>1. \A id : RowsOf(id)' = RowsOf(id)
      BY <2>5 DEF RowsOf
    <3>2. ASSUME NEW id \in DOMAIN state'.requests
          PROVE  IF state'.requests[id].outcome = "accepted" /\ state'.requests[id].cmd.type \in Movements
                 THEN \E i \in DOMAIN state'.journal : RowsOf(id)' = {i} ELSE RowsOf(id)' = {}
      <4>1. CASE id = c.rid
        <5>1. RowsOf(id) = {}
          BY <1>8, <4>1 DEF RowsOf, PayInv, JournalRows, NewRequest
        <5>2. state'.requests[id].cmd.type \notin Movements
          BY <1>1, <1>8, <4>1 DEF Movements, NewRequest
        <5> QED BY <3>1, <5>1, <5>2
      <4>2. CASE id # c.rid
        <5>1. id \in DOMAIN state.requests /\ state'.requests[id] = state.requests[id]
          BY <1>8, <4>2 DEF NewRequest
        <5> QED BY <2>5, <3>1, <5>1 DEF PayInv, PostedOnce
      <4> QED BY <4>1, <4>2
    <3> QED BY <3>2 DEF PostedOnce
  <2>12. Charges'
    <3>1. \A x \in DOMAIN state'.requests \ DOMAIN state.requests :
            state'.requests[x].cmd.type # "refund"
      BY <1>1, <1>8 DEF NewRequest
    <3> QED BY <2>4, <2>5, <3>1, ChargesStay DEF PayInv
  <2> QED BY <2>6, <2>7, <2>8, <2>9, <2>10, <2>11, <2>12 DEF PayInv
<1> QED BY <1>6, <1>7, <1>8

(* What the module's own posting changes.                                   *)
LEMMA PostedFields ==
  ASSUME NEW s, DOMAIN s = {"requests", "walk", "tenant", "accounts", "charges", "journal"},
         NEW c, NEW from, NEW to, NEW amount, NEW p, p = PS!Posted(s, c, from, to, amount)
  PROVE  /\ DOMAIN p = DOMAIN s /\ p.requests = s.requests
         /\ p.tenant = s.tenant /\ p.charges = s.charges
         /\ p.accounts = [s.accounts EXCEPT ![from].balance = @ - amount,
                                            ![to].balance = @ + amount]
         /\ p.journal = Append(s.journal, [rid |-> c.rid, from |-> from, to |-> to,
                                           amount |-> amount])
<1>1. /\ DOMAIN p = DOMAIN s /\ p.requests = s.requests
      /\ p.tenant = s.tenant /\ p.charges = s.charges
  BY DEF PS!Posted
<1>2. p.journal = Append(s.journal, [rid |-> c.rid, from |-> from, to |-> to,
                                    amount |-> amount])
  BY DEF PS!Posted
<1>3. p.accounts = [s.accounts EXCEPT ![from].balance = @ - amount,
                                      ![to].balance = @ + amount]
  BY DEF PS!Posted
<1> QED BY <1>1, <1>2, <1>3

(* Money from outside comes out of the clearing account.                    *)
LEMMA PayFund ==
  ASSUME PayInv, NEW c \in PayCommands, PS!Fund(c)
  PROVE  PayInv'
<1> DEFINE checks == << PS!TenantCheck, <<"funded", PS!Has(c.account), "no-such-account">> >>
           s == PS!Posted(state, c, "clearing", c.account, c.amount)
<1>0. DOMAIN state = {"requests", "walk", "tenant", "accounts", "charges", "journal"}
  BY DEF PayInv, PayFields
<1>1. c.type = "fund" /\ ~PS!Known(c) /\ \E walk : PS!Decide(c, checks, walk, s)
  BY DEF PS!Fund
<1>2. PICK walk : PS!Decide(c, checks, walk, s)
  BY <1>1
<1>4. /\ DOMAIN checks = {1, 2}
      /\ checks[1][2] = state.tenant /\ checks[2][2] = (c.account \in DOMAIN state.accounts)
      /\ checks[1][3] # "accepted" /\ checks[2][3] # "accepted"
  BY DEF PS!TenantCheck, PS!Has
<1>5. c.account # "clearing" /\ c.amount \in Nat
  BY <1>1, PaymentsAssumption DEF PayCommands
<1> HIDE DEF checks
<1>3. /\ DOMAIN s = DOMAIN state /\ s.requests = state.requests
      /\ s.tenant = state.tenant /\ s.charges = state.charges
      /\ s.accounts = [state.accounts EXCEPT !["clearing"].balance = @ - c.amount,
                                             ![c.account].balance = @ + c.amount]
      /\ s.journal = Append(state.journal, [rid |-> c.rid, from |-> "clearing",
                                            to |-> c.account, amount |-> c.amount])
  <2> HIDE DEF s
  <2>1. s = PS!Posted(state, c, "clearing", c.account, c.amount)
    BY DEF s
  <2> QED BY <1>0, <2>1, PostedFields
<1> HIDE DEF s
<1>6. \/ /\ PS!Accepted(checks) /\ NewRequest(c, TRUE)
         /\ state'.tenant = s.tenant /\ state'.accounts = s.accounts
         /\ state'.charges = s.charges /\ state'.journal = s.journal
      \/ NewRequest(c, FALSE) /\ Unmoved
  <2>1. PayFields /\ ~PS!Known(c)
    BY <1>1 DEF PayInv
  <2>2. DOMAIN checks \subseteq Nat /\ \A i \in DOMAIN checks : checks[i][3] # "accepted"
    BY <1>4
  <2>3. DOMAIN s = DOMAIN state /\ s.requests = state.requests
    BY <1>3
  <2> QED BY ONLY <1>2, <2>1, <2>2, <2>3, c \in PayCommands, PayDecision
<1>7. CASE NewRequest(c, FALSE) /\ Unmoved
  BY <1>7, PayRefused
<1>8. CASE /\ PS!Accepted(checks) /\ NewRequest(c, TRUE)
           /\ state'.tenant = s.tenant /\ state'.accounts = s.accounts
           /\ state'.charges = s.charges /\ state'.journal = s.journal
  <2>1. state.tenant /\ c.account \in DOMAIN state.accounts
    BY <1>4, <1>8, PayPassed
  <2>2. "clearing" \in DOMAIN state.accounts
    BY <2>1 DEF PayInv, Accounts
  <2>3. Moves(c, "clearing", c.account, c.amount)
    BY <1>3, <1>5, <1>8, <2>1, <2>2 DEF Moves
  <2>4. /\ KeptRequests
        /\ PayFields' /\ Accounts' /\ JournalRows' /\ Closed' /\ Kept' /\ PostedOnce'
    BY <1>1, <1>8, <2>3, MovesArePosted DEF Movements
  <2>5. Charges'
    <3>1. \A x \in DOMAIN state'.requests \ DOMAIN state.requests :
            state'.requests[x].cmd.type # "refund"
      BY <1>1, <1>8 DEF NewRequest
    <3>2. DOMAIN state'.accounts = DOMAIN state.accounts
      BY <2>3, AccountsMove DEF PayInv
    <3> QED BY <1>3, <1>8, <2>4, <3>1, <3>2, ChargesStay DEF PayInv
  <2> QED BY <2>4, <2>5 DEF PayInv
<1> QED BY <1>6, <1>7, <1>8

(* A charge moves its amount from a customer to a merchant.                 *)
LEMMA PayCharge ==
  ASSUME PayInv, NEW c \in PayCommands, PS!Charge(c)
  PROVE  PayInv'
<1> DEFINE kinds == PS!Kind(c.customer) = "customer" /\ PS!Kind(c.merchant) = "merchant"
           enough == PS!Balance(c.customer) >= c.amount
           reason == IF PS!Has(c.customer) /\ PS!Has(c.merchant)
                     THEN "wrong-account-kind" ELSE "no-such-account"
           checks == << PS!TenantCheck, <<"accounts", kinds, reason>>,
                        <<"funds", enough, "insufficient-funds">> >>
           charge == [customer |-> c.customer, merchant |-> c.merchant, amount |-> c.amount,
                      refunded |-> 0]
           t == [state EXCEPT !.charges = PS!Put(@, c.rid, charge)]
           s == PS!Posted(t, c, c.customer, c.merchant, c.amount)
<1>0. DOMAIN state = {"requests", "walk", "tenant", "accounts", "charges", "journal"}
  BY DEF PayInv, PayFields
<1>1. c.type = "charge" /\ ~PS!Known(c) /\ \E walk : PS!Decide(c, checks, walk, s)
  BY DEF PS!Charge
<1>2. PICK walk : PS!Decide(c, checks, walk, s)
  BY <1>1
<1>4. /\ DOMAIN checks = {1, 2, 3}
      /\ checks[1][2] = state.tenant /\ checks[2][2] = kinds /\ checks[3][2] = enough
      /\ checks[1][3] # "accepted" /\ checks[2][3] # "accepted" /\ checks[3][3] # "accepted"
  <2>1. reason # "accepted"
    OBVIOUS
  <2>2. kinds \in BOOLEAN /\ enough \in BOOLEAN
    OBVIOUS
  <2> HIDE DEF reason, kinds, enough
  <2> QED BY <2>1, <2>2 DEF PS!TenantCheck
<1>5. c.amount \in Nat
  BY <1>1, PaymentsAssumption DEF PayCommands
<1>9. /\ DOMAIN charge = {"customer", "merchant", "amount", "refunded"}
      /\ charge.customer = c.customer /\ charge.merchant = c.merchant
      /\ charge.amount = c.amount /\ charge.refunded = 0
  OBVIOUS
<1> HIDE DEF checks, charge
<1>10. /\ DOMAIN t = DOMAIN state /\ t.requests = state.requests
      /\ t.tenant = state.tenant /\ t.charges = PS!Put(state.charges, c.rid, charge)
      /\ t.accounts = state.accounts /\ t.journal = state.journal
  BY <1>0
<1> HIDE DEF t
<1>3. /\ DOMAIN s = DOMAIN state /\ s.requests = state.requests
      /\ s.tenant = state.tenant /\ s.charges = PS!Put(state.charges, c.rid, charge)
      /\ s.accounts = [state.accounts EXCEPT ![c.customer].balance = @ - c.amount,
                                             ![c.merchant].balance = @ + c.amount]
      /\ s.journal = Append(state.journal, [rid |-> c.rid, from |-> c.customer,
                                            to |-> c.merchant, amount |-> c.amount])
  <2> HIDE DEF s
  <2>1. s = PS!Posted(t, c, c.customer, c.merchant, c.amount)
    BY DEF s
  <2>2. DOMAIN t = {"requests", "walk", "tenant", "accounts", "charges", "journal"}
    BY <1>0, <1>10
  <2>3. /\ DOMAIN s = DOMAIN t /\ s.requests = t.requests
        /\ s.tenant = t.tenant /\ s.charges = t.charges
        /\ s.accounts = [t.accounts EXCEPT ![c.customer].balance = @ - c.amount,
                                           ![c.merchant].balance = @ + c.amount]
        /\ s.journal = Append(t.journal, [rid |-> c.rid, from |-> c.customer,
                                          to |-> c.merchant, amount |-> c.amount])
    BY <2>1, <2>2, PostedFields
  <2> QED BY <1>10, <2>3
<1> HIDE DEF s
<1>6. \/ /\ PS!Accepted(checks) /\ NewRequest(c, TRUE)
         /\ state'.tenant = s.tenant /\ state'.accounts = s.accounts
         /\ state'.charges = s.charges /\ state'.journal = s.journal
      \/ NewRequest(c, FALSE) /\ Unmoved
  <2>1. PayFields /\ ~PS!Known(c)
    BY <1>1 DEF PayInv
  <2>2. DOMAIN checks \subseteq Nat /\ \A i \in DOMAIN checks : checks[i][3] # "accepted"
    BY <1>4
  <2>3. DOMAIN s = DOMAIN state /\ s.requests = state.requests
    BY <1>3
  <2> QED BY ONLY <1>2, <2>1, <2>2, <2>3, c \in PayCommands, PayDecision
<1>7. CASE NewRequest(c, FALSE) /\ Unmoved
  BY <1>7, PayRefused
<1>8. CASE /\ PS!Accepted(checks) /\ NewRequest(c, TRUE)
           /\ state'.tenant = s.tenant /\ state'.accounts = s.accounts
           /\ state'.charges = s.charges /\ state'.journal = s.journal
  <2>1. kinds /\ enough
    <3> HIDE DEF kinds, enough
    <3> QED BY <1>4, <1>8, PayPassed
  <2>2. /\ c.customer \in DOMAIN state.accounts /\ c.merchant \in DOMAIN state.accounts
        /\ c.customer # c.merchant
        /\ state.accounts[c.customer].balance >= c.amount
    BY <2>1 DEF PS!Kind, PS!Has, PS!Balance
  <2>3. Moves(c, c.customer, c.merchant, c.amount)
    BY <1>3, <1>5, <1>8, <2>2 DEF Moves
  <2>4. /\ KeptRequests
        /\ PayFields' /\ Accounts' /\ JournalRows' /\ Closed' /\ Kept' /\ PostedOnce'
    BY <1>1, <1>8, <2>3, MovesArePosted DEF Movements
  <2>5. Charges'
    <3>1. \A x \in DOMAIN state'.requests \ DOMAIN state.requests :
            state'.requests[x].cmd.type # "refund"
      BY <1>1, <1>8 DEF NewRequest
    <3>2. DOMAIN state'.accounts = DOMAIN state.accounts
      BY <2>3, AccountsMove DEF PayInv
    <3>3. c.rid \notin DOMAIN state.charges
      BY <1>8 DEF PayInv, Charges, NewRequest
    <3>4. /\ DOMAIN state'.charges = DOMAIN state.charges \cup {c.rid}
          /\ state'.charges[c.rid] = charge
          /\ \A id \in DOMAIN state.charges : state'.charges[id] = state.charges[id]
      BY <1>3, <1>8, <3>3 DEF PS!Put
    <3>5. \A id : Refunded(id)' = Refunded(id)
      BY <2>4, <3>1, RefundsStay
    <3>6. Refunded(c.rid) = 0
      <4>1. RefundIds(c.rid) = {}
        BY <3>3 DEF RefundIds, PayInv, Charges
      <4> QED BY <4>1, SumOfNone DEF Refunded
    <3>7. ASSUME NEW id \in DOMAIN state'.charges
          PROVE  /\ id \in DOMAIN state'.requests
                 /\ DOMAIN state'.charges[id] = {"customer", "merchant", "amount", "refunded"}
                 /\ {state'.charges[id].customer, state'.charges[id].merchant}
                      \subseteq DOMAIN state'.accounts
                 /\ state'.charges[id].customer # state'.charges[id].merchant
                 /\ state'.charges[id].amount \in Nat
                 /\ state'.charges[id].refunded <= state'.charges[id].amount
                 /\ state'.charges[id].refunded = Refunded(id)'
      <4>1. CASE id = c.rid
        <5>1. id \in DOMAIN state'.requests
          BY <1>8, <4>1 DEF NewRequest
        <5>2. Refunded(id)' = 0
          BY <3>5, <3>6, <4>1
        <5> QED BY <1>5, <1>9, <2>2, <3>2, <3>4, <4>1, <5>1, <5>2
      <4>2. CASE id # c.rid
        <5>1. id \in DOMAIN state.charges /\ state'.charges[id] = state.charges[id]
          BY <3>4, <4>2
        <5>2. Refunded(id)' = Refunded(id)
          BY <3>5
        <5>3. id \in DOMAIN state'.requests
          BY <1>8, <5>1 DEF PayInv, Charges, NewRequest
        <5> QED BY <3>2, <5>1, <5>2, <5>3 DEF PayInv, Charges
      <4> QED BY <4>1, <4>2
    <3>8. \A x \in DOMAIN state'.requests :
            state'.requests[x].outcome = "accepted" /\ state'.requests[x].cmd.type = "refund" =>
              state'.requests[x].cmd.charge \in DOMAIN state'.charges
      BY <2>4, <3>1, <3>4 DEF PayInv, Charges, KeptRequests
    <3> QED BY <3>7, <3>8 DEF Charges
  <2> QED BY <2>4, <2>5 DEF PayInv
<1> QED BY <1>6, <1>7, <1>8

(* A refund takes its amount back from the merchant, within the charge.     *)
LEMMA PayRefund ==
  ASSUME PayInv, NEW c \in PayCommands, PS!Refund(c)
  PROVE  PayInv'
<1> DEFINE charge == IF c.charge \in DOMAIN state.charges THEN state.charges[c.charge]
                     ELSE PS!NoCharge
           known == charge # PS!NoCharge
           within == charge.refunded + c.amount <= charge.amount
           enough == PS!Balance(charge.merchant) >= c.amount
           checks == << PS!TenantCheck, <<"charge", known, "no-such-charge">>,
                        <<"total", within, "refund-exceeds-charge">>,
                        <<"balance", enough, "insufficient-funds">> >>
           t == [state EXCEPT !.charges[c.charge].refunded = @ + c.amount]
           s == PS!Posted(t, c, charge.merchant, charge.customer, c.amount)
<1>0. DOMAIN state = {"requests", "walk", "tenant", "accounts", "charges", "journal"}
  BY DEF PayInv, PayFields
<1>1. c.type = "refund" /\ ~PS!Known(c) /\ \E walk : PS!Decide(c, checks, walk, s)
  <2>1. c.type = "refund" /\ ~PS!Known(c)
    BY Zenon DEF PS!Refund
  <2>2. \E walk : PS!Decide(c, checks, walk, s)
    BY Zenon DEF PS!Refund
  <2> QED BY <2>1, <2>2
<1>2. PICK walk : PS!Decide(c, checks, walk, s)
  BY <1>1
<1>4. /\ DOMAIN checks = {1, 2, 3, 4}
      /\ checks[1][2] = state.tenant /\ checks[2][2] = known /\ checks[3][2] = within
      /\ checks[4][2] = enough
      /\ checks[1][3] # "accepted" /\ checks[2][3] # "accepted" /\ checks[3][3] # "accepted"
      /\ checks[4][3] # "accepted"
  <2>1. known \in BOOLEAN /\ within \in BOOLEAN /\ enough \in BOOLEAN
    OBVIOUS
  <2> HIDE DEF known, within, enough
  <2> QED BY <2>1 DEF PS!TenantCheck
<1>5. c.amount \in Nat
  BY <1>1, PaymentsAssumption DEF PayCommands
<1> HIDE DEF checks, charge
<1>9. /\ DOMAIN t = DOMAIN state /\ t.requests = state.requests
      /\ t.tenant = state.tenant
      /\ t.charges = [state.charges EXCEPT ![c.charge].refunded = @ + c.amount]
      /\ t.accounts = state.accounts /\ t.journal = state.journal
  BY <1>0
<1> HIDE DEF t
<1>3. /\ DOMAIN s = DOMAIN state /\ s.requests = state.requests
      /\ s.tenant = state.tenant
      /\ s.charges = [state.charges EXCEPT ![c.charge].refunded = @ + c.amount]
      /\ s.accounts = [state.accounts EXCEPT ![charge.merchant].balance = @ - c.amount,
                                             ![charge.customer].balance = @ + c.amount]
      /\ s.journal = Append(state.journal, [rid |-> c.rid, from |-> charge.merchant,
                                            to |-> charge.customer, amount |-> c.amount])
  <2> HIDE DEF s, charge
  <2>1. s = PS!Posted(t, c, charge.merchant, charge.customer, c.amount)
    BY DEF s
  <2>2. DOMAIN t = {"requests", "walk", "tenant", "accounts", "charges", "journal"}
    BY <1>0, <1>9
  <2>3. /\ DOMAIN s = DOMAIN t /\ s.requests = t.requests
        /\ s.tenant = t.tenant /\ s.charges = t.charges
        /\ s.accounts = [t.accounts EXCEPT ![charge.merchant].balance = @ - c.amount,
                                           ![charge.customer].balance = @ + c.amount]
        /\ s.journal = Append(t.journal, [rid |-> c.rid, from |-> charge.merchant,
                                          to |-> charge.customer, amount |-> c.amount])
    BY <2>1, <2>2, PostedFields
  <2> QED BY <1>9, <2>3
<1> HIDE DEF s
<1>6. \/ /\ PS!Accepted(checks) /\ NewRequest(c, TRUE)
         /\ state'.tenant = s.tenant /\ state'.accounts = s.accounts
         /\ state'.charges = s.charges /\ state'.journal = s.journal
      \/ NewRequest(c, FALSE) /\ Unmoved
  <2>1. PayFields /\ ~PS!Known(c)
    BY <1>1 DEF PayInv
  <2>2. DOMAIN checks \subseteq Nat /\ \A i \in DOMAIN checks : checks[i][3] # "accepted"
    BY <1>4
  <2>3. DOMAIN s = DOMAIN state /\ s.requests = state.requests
    BY <1>3
  <2> QED BY ONLY <1>2, <2>1, <2>2, <2>3, c \in PayCommands, PayDecision
<1>7. CASE NewRequest(c, FALSE) /\ Unmoved
  BY <1>7, PayRefused
<1>8. CASE /\ PS!Accepted(checks) /\ NewRequest(c, TRUE)
           /\ state'.tenant = s.tenant /\ state'.accounts = s.accounts
           /\ state'.charges = s.charges /\ state'.journal = s.journal
  <2> DEFINE k == c.charge
             C == DOMAIN state.charges
  <2>1. known /\ within /\ enough
    <3> HIDE DEF known, within, enough
    <3> QED BY <1>4, <1>8, PayPassed
  <2>2. k \in C /\ charge = state.charges[k]
    BY <2>1 DEF charge
  <2>3. /\ k \in DOMAIN state.requests
        /\ DOMAIN charge = {"customer", "merchant", "amount", "refunded"}
        /\ charge.customer \in DOMAIN state.accounts /\ charge.merchant \in DOMAIN state.accounts
        /\ charge.customer # charge.merchant
        /\ charge.amount \in Nat
        /\ charge.refunded = Refunded(k)
    BY <2>2 DEF PayInv, Charges
  <2>4. charge.refunded + c.amount <= charge.amount
    BY <2>1
  <2>5. state.accounts[charge.merchant].balance >= c.amount
    <3> HIDE DEF charge
    <3> QED BY <2>1, <2>3 DEF PS!Balance, PS!Has
  <2> HIDE DEF known, within, enough
  <2>6. Moves(c, charge.merchant, charge.customer, c.amount)
    BY <1>3, <1>5, <1>8, <2>3, <2>5 DEF Moves
  <2>7. /\ KeptRequests
        /\ PayFields' /\ Accounts' /\ JournalRows' /\ Closed' /\ Kept' /\ PostedOnce'
    BY <1>1, <1>8, <2>6, MovesArePosted DEF Movements
  <2>8. /\ DOMAIN state'.charges = C
        /\ DOMAIN state'.charges[k] = {"customer", "merchant", "amount", "refunded"}
        /\ state'.charges[k].customer = charge.customer
        /\ state'.charges[k].merchant = charge.merchant
        /\ state'.charges[k].amount = charge.amount
        /\ state'.charges[k].refunded = charge.refunded + c.amount
        /\ \A id \in C : id # k => state'.charges[id] = state.charges[id]
    <3>1. state'.charges = [state.charges EXCEPT ![k].refunded = @ + c.amount]
      BY <1>3, <1>8
    <3> QED BY <2>2, <2>3, <3>1
  <2>9. DOMAIN state'.accounts = DOMAIN state.accounts
    BY <2>6, AccountsMove DEF PayInv
  <2>10. Refunded(k)' = Refunded(k) + c.amount /\ Refunded(k) \in Int
    <3> DEFINE R == RefundIds(k)
               f == [x \in R |-> state.requests[x].cmd.amount]
               g == [x \in RefundIds(k)' |-> state'.requests[x].cmd.amount]
    <3>1. RefundIds(k)' = R \cup {c.rid} /\ c.rid \notin R
      BY <1>1, <1>8 DEF RefundIds, NewRequest
    <3>2. IsFiniteSet(R)
      BY FS_Subset DEF PayInv, PayFields, RefundIds
    <3>3. \A x \in R : state.requests[x].cmd.amount \in Int
                      /\ state'.requests[x].cmd = state.requests[x].cmd
      BY <1>8, PaymentsAssumption DEF PayInv, PayFields, RefundIds, PayCommands, NewRequest
    <3>4. g[c.rid] = c.amount
      BY <1>8, <3>1 DEF NewRequest
    <3>5. f \in [R -> Int] /\ g \in [R \cup {c.rid} -> Int] /\ \A x \in R : g[x] = f[x]
      <4> HIDE DEF R
      <4> QED BY <1>5, <3>1, <3>3, <3>4
    <3>6. OneMore(R, f, c.rid, g)
      <4> HIDE DEF R, f, g
      <4> QED BY <3>1, <3>2, <3>5 DEF OneMore
    <3>7. SumOver(f) = Refunded(k) /\ SumOver(g) = Refunded(k)'
      BY DEF Refunded
    <3> HIDE DEF f, g, R
    <3>8. SumOver(g) = SumOver(f) + g[c.rid] /\ SumOver(f) \in Int
      BY <3>2, <3>5, <3>6, SumPutIn, SumIsInt
    <3> QED BY <3>4, <3>7, <3>8
  <2>11. ASSUME NEW id, id # k PROVE Refunded(id)' = Refunded(id)
    <3>1. \A x \in DOMAIN state'.requests \ DOMAIN state.requests :
            state'.requests[x].cmd.charge # id
      BY <1>8, <2>11 DEF NewRequest
    <3> QED BY <2>7, <3>1, RefundsStay
  <2>12. Charges'
    <3>1. ASSUME NEW id \in C
          PROVE  /\ id \in DOMAIN state'.requests
                 /\ DOMAIN state'.charges[id] = {"customer", "merchant", "amount", "refunded"}
                 /\ {state'.charges[id].customer, state'.charges[id].merchant}
                      \subseteq DOMAIN state'.accounts
                 /\ state'.charges[id].customer # state'.charges[id].merchant
                 /\ state'.charges[id].amount \in Nat
                 /\ state'.charges[id].refunded <= state'.charges[id].amount
                 /\ state'.charges[id].refunded = Refunded(id)'
      <4>0. id \in DOMAIN state'.requests
        BY <1>8 DEF PayInv, Charges, NewRequest
      <4>1. CASE id = k
        <5>1. state'.charges[k].refunded = Refunded(k)'
          BY <2>3, <2>8, <2>10
        <5> QED BY <2>3, <2>4, <2>8, <2>9, <4>0, <4>1, <5>1
      <4>2. CASE id # k
        <5>1. Refunded(id)' = Refunded(id)
          BY <2>11, <4>2
        <5> QED BY <2>8, <2>9, <4>0, <4>2, <5>1 DEF PayInv, Charges
      <4> QED BY <4>1, <4>2
    <3>2. \A x \in DOMAIN state'.requests :
            state'.requests[x].outcome = "accepted" /\ state'.requests[x].cmd.type = "refund" =>
              state'.requests[x].cmd.charge \in C
      BY <1>8, <2>2 DEF PayInv, Charges, NewRequest
    <3> QED BY <2>8, <3>1, <3>2 DEF Charges
  <2> QED BY <2>7, <2>12 DEF PayInv
<1> QED BY <1>6, <1>7, <1>8

(* A repeated request changes nothing that is accounted for.                *)
LEMMA PayRepeated ==
  ASSUME PayInv, NEW c, NEW walk, PS!Replay(c, walk) \/ PS!Conflict(c, walk)
  PROVE  PayInv'
<1>0. DOMAIN state = {"requests", "walk", "tenant", "accounts", "charges", "journal"}
  BY DEF PayInv, PayFields
<1>1. /\ DOMAIN state' = DOMAIN state /\ Unmoved
      /\ DOMAIN state'.requests = DOMAIN state.requests
      /\ \A id \in DOMAIN state.requests :
           /\ DOMAIN state'.requests[id] = {"cmd", "outcome", "conflicts"}
           /\ state'.requests[id].cmd = state.requests[id].cmd
           /\ state'.requests[id].outcome = state.requests[id].outcome
  <2>0. \A id \in DOMAIN state.requests :
          DOMAIN state.requests[id] = {"cmd", "outcome", "conflicts"}
    BY DEF PayInv, PayFields
  <2>1. CASE PS!Replay(c, walk)
    <3>1. state' = [state EXCEPT !.walk = walk]
      BY <2>1 DEF PS!Replay
    <3> QED BY <1>0, <2>0, <3>1 DEF Unmoved
  <2>2. CASE PS!Conflict(c, walk)
    <3>1. state' = [state EXCEPT !.walk = walk, !.requests[c.rid].conflicts = @ + 1]
      BY <2>2 DEF PS!Conflict
    <3>2. DOMAIN state' = DOMAIN state /\ Unmoved
          /\ state'.requests = [state.requests EXCEPT ![c.rid].conflicts = @ + 1]
      BY <1>0, <3>1 DEF Unmoved
    <3> QED BY <2>0, <3>2
  <2> QED BY <2>1, <2>2
<1>2. KeptRequests
  BY <1>1 DEF KeptRequests
<1>3. /\ IsFiniteSet(DOMAIN state'.requests)
      /\ \A id \in DOMAIN state'.requests :
           /\ DOMAIN state'.requests[id] = {"cmd", "outcome", "conflicts"}
           /\ state'.requests[id].cmd \in PayCommands
           /\ state'.requests[id].cmd.rid = id
  BY <1>1 DEF PayInv, PayFields
<1>4. \A id \in DOMAIN state'.requests \ DOMAIN state.requests :
        state'.requests[id].outcome # "accepted"
  BY <1>1
<1> QED BY <1>1, <1>2, <1>3, <1>4, PayQuiet

(* Every step of the payments keeps it.                                     *)
LEMMA PaymentsGoOn == PayInv /\ PS!PaymentStep => PayInv'
BY PayCreateTenant, PayCreateAccount, PayFund, PayCharge, PayRefund, PayRepeated
   DEF PS!PaymentStep, PayCommands

(* The ledger is closed and the refunds are within their charges.           *)
LEMMA PaymentsSucceed == PayInv => PS!LedgerBalances /\ PS!RefundsWithinCharge
<1> SUFFICES ASSUME PayInv PROVE PS!LedgerBalances /\ PS!RefundsWithinCharge
  OBVIOUS
<1>1. PS!LedgerBalances
  <2>1. PS!SumOver([a \in DOMAIN state.accounts |-> state.accounts[a].balance]) = 0
    BY PaySums DEF PayInv, Closed, Balances
  <2>2. \A a \in DOMAIN state.accounts :
          /\ state.accounts[a].balance =
               PS!SumOver([i \in DOMAIN state.journal |->
                 (IF state.journal[i].to = a THEN state.journal[i].amount ELSE 0)
                   - (IF state.journal[i].from = a THEN state.journal[i].amount ELSE 0)])
          /\ a # "clearing" => state.accounts[a].balance >= 0
    BY PaySums DEF PayInv, Accounts, Kept, Postings, Posting
  <2>3. ASSUME NEW r \in PS!Range(state.requests)
        PROVE  PS!Cardinality({i \in DOMAIN state.journal : state.journal[i].rid = r.cmd.rid}) =
                 IF r.outcome = "accepted" /\ r.cmd.type \in {"fund", "charge", "refund"}
                 THEN 1 ELSE 0
    <3>1. PICK id \in DOMAIN state.requests : r = state.requests[id]
      BY <2>3 DEF PS!Range
    <3>2. r.cmd.rid = id
      BY <3>1 DEF PayInv, PayFields
    <3>3. IF r.outcome = "accepted" /\ r.cmd.type \in Movements
          THEN \E i \in DOMAIN state.journal : RowsOf(id) = {i} ELSE RowsOf(id) = {}
      BY <3>1 DEF PayInv, PostedOnce
    <3>4. PS!Cardinality(RowsOf(id)) =
            IF r.outcome = "accepted" /\ r.cmd.type \in Movements THEN 1 ELSE 0
      BY <3>3, PayCards
    <3> QED BY <3>2, <3>4 DEF RowsOf, Movements
  <2> QED BY <2>1, <2>2, <2>3 DEF PS!LedgerBalances
<1>2. ASSUME NEW id \in DOMAIN state.charges
      PROVE  /\ state.charges[id].refunded <= state.charges[id].amount
             /\ state.charges[id].refunded =
                  PS!SumOver([r \in {r \in PS!Decided("refund", "accepted") : r.cmd.charge = id}
                                |-> r.cmd.amount])
  <2> DEFINE D == RefundIds(id)
             E == {r \in PS!Decided("refund", "accepted") : r.cmd.charge = id}
             f == [x \in D |-> state.requests[x].cmd.amount]
             g == [r \in E |-> r.cmd.amount]
             h == [x \in D |-> state.requests[x]]
  <2>1. IsFiniteSet(D)
    BY FS_Subset DEF PayInv, PayFields, RefundIds
  <2>2. E = {state.requests[x] : x \in D}
    BY DEF PS!Decided, PS!Range, RefundIds
  <2>3. \A x \in D : state.requests[x].cmd.amount \in Int /\ state.requests[x].cmd.rid = x
    BY PaymentsAssumption DEF PayInv, PayFields, RefundIds, PayCommands
  <2>4. Refunded(id) = SumOver(f)
    BY DEF Refunded
  <2> HIDE DEF D, E
  <2>5. /\ f \in [D -> Int] /\ g \in [E -> Int] /\ h \in [D -> E]
        /\ \A y \in E : \E x \in D : h[x] = y
        /\ \A x, z \in D : h[x] = h[z] => x = z
        /\ \A x \in D : f[x] = g[h[x]]
    BY <2>2, <2>3
  <2> HIDE DEF f, g, h
  <2>6. SumOver(f) = SumOver(g)
    BY ONLY <2>1, <2>5, SumRenamed
  <2>7. state.charges[id].refunded <= state.charges[id].amount
        /\ state.charges[id].refunded = Refunded(id)
    BY DEF PayInv, Charges
  <2>8. state.charges[id].refunded = PS!SumOver(g)
    BY <2>4, <2>6, <2>7, PaySums
  <2> QED BY <2>7, <2>8 DEF g, E
<1> QED BY <1>1, <1>2 DEF PS!RefundsWithinCharge

-----------------------------------------------------------------------------
(* The commands of the payment system along its diagrams.                   *)

(* A command decided notes the walk it was given, and no field comes or     *)
(* goes.                                                                    *)
LEMMA PayDecides ==
  ASSUME "walk" \in DOMAIN state, NEW c, NEW checks, NEW walk, NEW s, DOMAIN s = DOMAIN state,
         PS!Decide(c, checks, walk, s)
  PROVE  state'.walk = walk /\ DOMAIN state' = DOMAIN state
<1>1. PICK u, outcome : PS!Record(c, u, walk, outcome) /\ DOMAIN u = DOMAIN state
  BY Zenon DEF PS!Decide
<1> QED BY <1>1, CommandsAreNoted

(* No more does one when money is moved.                                    *)
LEMMA PostedKeeps ==
  ASSUME NEW s, NEW c, NEW from, NEW to, NEW amount
  PROVE  DOMAIN PS!Posted(s, c, from, to, amount) = DOMAIN s
BY DEF PS!Posted

(* The first nodes of a command: up to its type, to its operation, or to    *)
(* what a repeated one gets.                                                *)
LEMMA PayWalks ==
  LET g == PS!CommandDiagram IN
  /\ Walk(g, PS!Gate, "call", "request")
  /\ Walk(g, PS!Gate \o <<"type">>, "call", "type")
  /\ Walk(g, PS!Gate \o <<"type">> \o <<>>, "call", "type")
  /\ Walk(g, PS!Gate \o <<"type">> \o <<"tenant", "operation">>, "call", "operation")
  /\ Walk(g, PS!Gate \o <<"equal", "replay">>, "call", "replay")
  /\ Walk(g, PS!Gate \o <<"equal", "conflict">>, "call", "conflict")
<1> DEFINE g == PS!CommandDiagram
<1>0. /\ Arrow(g, "call", "valid") /\ Arrow(g, "valid", "depot") /\ Arrow(g, "depot", "request")
      /\ Arrow(g, "request", "type") /\ Arrow(g, "request", "equal")
      /\ Arrow(g, "equal", "replay") /\ Arrow(g, "equal", "conflict")
      /\ Arrow(g, "type", "tenant") /\ Arrow(g, "tenant", "operation")
  BY CommandArrows
<1> HIDE DEF g
<1>1. Walk(g, PS!Gate, "call", "request")
  BY <1>0, ShortWalks DEF PS!Gate
<1>2. /\ Walk(g, <<"type">>, "type", "type")
      /\ Walk(g, <<"tenant", "operation">>, "tenant", "operation")
      /\ Walk(g, <<"equal", "replay">>, "equal", "replay")
      /\ Walk(g, <<"equal", "conflict">>, "equal", "conflict")
  BY <1>0, ShortWalks
<1>3. Walk(g, PS!Gate \o <<"type">>, "call", "type")
  BY <1>0, <1>1, <1>2, WalkOn
<1>4. Walk(g, PS!Gate \o <<"type">> \o <<>>, "call", "type")
  BY <1>3, NothingAdded
<1>5. Walk(g, PS!Gate \o <<"type">> \o <<"tenant", "operation">>, "call", "operation")
  BY <1>0, <1>2, <1>3, WalkOn
<1>6. Walk(g, PS!Gate \o <<"equal", "replay">>, "call", "replay")
  BY <1>0, <1>1, <1>2, WalkOn
<1>7. Walk(g, PS!Gate \o <<"equal", "conflict">>, "call", "conflict")
  BY <1>0, <1>1, <1>2, WalkOn
<1> QED BY <1>1, <1>3, <1>4, <1>5, <1>6, <1>7 DEF g

(* A command decided along the diagram of the commands.                     *)
LEMMA CommandShows ==
  ASSUME "walk" \in DOMAIN state, NEW c, NEW all, NEW checks, NEW s, DOMAIN s = DOMAIN state,
         NEW steps, NEW y, NEW a,
         PS!Decide(c, all, PS!CommandWalk(steps, checks), s),
         Walk(PS!CommandDiagram, PS!Gate \o <<"type">> \o steps, "call", y),
         Arrow(PS!CommandDiagram, y, a),
         Ways(PS!CommandDiagram, checks, a, "accept", "reject")
  PROVE  Shows(PS!PaymentDiagrams)
<1> DEFINE g == PS!CommandDiagram
           start == PS!Gate \o <<"type">> \o steps
           last == IF Refused(checks) = {} THEN <<"accept", "save">> ELSE <<"reject", "save">>
           path == start \o Visited(checks) \o last
<1>1. PS!CommandWalk(steps, checks) = <<"command", path>>
  <2>1. PS!Nodes(checks) = Visited(checks)
    BY ChecksAreVisited
  <2>2. <<IF PS!Accepted(checks) THEN "accept" ELSE "reject", "save">> = last
    BY AcceptedUnlessRefused
  <2> HIDE DEF last
  <2> QED BY <2>1, <2>2, Zenon DEF PS!CommandWalk
<1>2. /\ "call" \in Ids(g) /\ Arrow(g, "accept", "save") /\ Arrow(g, "reject", "save")
  BY CommandArrows
<1>3. g = PS!PaymentDiagrams["command"]
  BY DEF PS!PaymentDiagrams
<1> HIDE DEF g
<1>4. \E z : Walk(g, path, "call", z)
  <2>1. Walk(g, <<"accept", "save">>, "accept", "save") /\ Walk(g, <<"reject", "save">>, "reject", "save")
    BY <1>2, ShortWalks
  <2>2. Walk(g, start, "call", y) /\ Arrow(g, y, a) /\ Ways(g, checks, a, "accept", "reject")
    BY DEF g
  <2> HIDE DEF start
  <2> QED BY <2>1, <2>2, WayOn
<1> HIDE DEF path
<1>5. state'.walk = <<"command", path>> /\ DOMAIN state' = DOMAIN state
  BY <1>1, PayDecides
<1> QED BY <1>2, <1>3, <1>4, <1>5, ShownAs

(* A command on accounts: after the tenant's check, its own.                *)
LEMMA AccountShows ==
  ASSUME "walk" \in DOMAIN state, NEW c, NEW checks, NEW s, DOMAIN s = DOMAIN state,
         PS!Decide(c, checks, PS!AccountWalk(checks), s),
         1 \in DOMAIN checks, DOMAIN checks \subseteq Nat \ {0}, checks[1] = PS!TenantCheck,
         NEW rest, rest = Tail(checks), NEW a, Arrow(PS!CommandDiagram, "operation", a),
         Ways(PS!CommandDiagram, rest, a, "accept", "reject")
  PROVE  Shows(PS!PaymentDiagrams)
<1>1. CASE state.tenant
  <2>1. PS!AccountWalk(checks) = PS!CommandWalk(<<"tenant", "operation">>, rest)
    BY <1>1 DEF PS!AccountWalk
  <2> QED BY <2>1, PayWalks, CommandShows
<1>2. CASE ~state.tenant
  <2>1. PS!AccountWalk(checks) = PS!CommandWalk(<<>>, checks)
    BY <1>2 DEF PS!AccountWalk
  <2>2. checks[1][1] = "tenant" /\ ~checks[1][2]
    BY <1>2 DEF PS!TenantCheck
  <2>3. Refused(checks) # {} /\ Visited(checks) = <<"tenant">>
    BY <2>2, FirstRefuses
  <2>4. Ways(PS!CommandDiagram, checks, "tenant", "accept", "reject")
    BY <2>3, ShortWalks, CommandArrows DEF Ways
  <2>5. Arrow(PS!CommandDiagram, "type", "tenant")
    BY CommandArrows
  <2> QED BY <2>1, <2>4, <2>5, PayWalks, CommandShows
<1> QED BY <1>1, <1>2

(* A tenant is created along the diagram of the commands.                   *)
LEMMA PayTenantShows ==
  ASSUME "walk" \in DOMAIN state, NEW c, PS!CreateTenant(c)
  PROVE  Shows(PS!PaymentDiagrams)
<1> DEFINE g == PS!CommandDiagram
           p == ~state.tenant
           checks == << <<"createTenant", p, "tenant-exists">> >>
           s == [state EXCEPT !.tenant = TRUE,
                   !.accounts = PS!Put(<<>>, "clearing", [kind |-> "clearing", balance |-> 0])]
<1>1. PS!Decide(c, checks, PS!CommandWalk(<<>>, checks), s)
  BY Zenon DEF PS!CreateTenant
<1>2. DOMAIN s = DOMAIN state /\ p \in BOOLEAN
  OBVIOUS
<1>3. /\ Arrow(g, "type", "createTenant") /\ Arrow(g, "createTenant", "accept")
      /\ Arrow(g, "createTenant", "reject")
  BY CommandArrows
<1>4. checks = << <<"createTenant", p, "tenant-exists">> >>
  OBVIOUS
<1> HIDE DEF g, s, p, checks
<1>5. Ways(g, checks, "createTenant", "accept", "reject")
  BY <1>2, <1>3, <1>4, OneWalked DEF Ways
<1> QED BY <1>1, <1>2, <1>3, <1>5, PayWalks, CommandShows DEF g

(* A command with one check of its own, after the tenant's.                 *)
LEMMA OneAccountShows ==
  ASSUME "walk" \in DOMAIN state, NEW c, NEW a \in {"newAccount", "funded"},
         NEW p \in BOOLEAN, NEW b, NEW s, DOMAIN s = DOMAIN state, NEW checks,
         checks = << PS!TenantCheck, <<a, p, b>> >>,
         PS!Decide(c, checks, PS!AccountWalk(checks), s)
  PROVE  Shows(PS!PaymentDiagrams)
<1> DEFINE g == PS!CommandDiagram
           rest == << <<a, p, b>> >>
<1>1. /\ Arrow(g, "operation", a) /\ Arrow(g, a, "accept") /\ Arrow(g, a, "reject")
  BY CommandArrows
<1>2. /\ 1 \in DOMAIN checks /\ DOMAIN checks \subseteq Nat \ {0}
      /\ checks[1] = PS!TenantCheck /\ rest = Tail(checks)
      /\ rest = << <<a, p, b>> >>
  OBVIOUS
<1> HIDE DEF g, rest
<1>3. Ways(g, rest, a, "accept", "reject")
  BY <1>1, <1>2, OneWalked DEF Ways
<1> QED BY <1>1, <1>2, <1>3, AccountShows DEF g

(* So are an account created and one funded.                                *)
LEMMA PayAccountShows ==
  ASSUME "walk" \in DOMAIN state, NEW c, PS!CreateAccount(c) \/ PS!Fund(c)
  PROVE  Shows(PS!PaymentDiagrams)
<1>1. CASE PS!CreateAccount(c)
  <2> DEFINE p == ~PS!Has(c.account)
             s == [state EXCEPT !.accounts = PS!Put(@, c.account, [kind |-> c.kind, balance |-> 0])]
             checks == << PS!TenantCheck, <<"newAccount", p, "account-exists">> >>
  <2>1. PS!Decide(c, checks, PS!AccountWalk(checks), s)
    BY <1>1, Zenon DEF PS!CreateAccount
  <2>2. DOMAIN s = DOMAIN state /\ p \in BOOLEAN
    OBVIOUS
  <2> HIDE DEF p, s
  <2> QED BY <2>1, <2>2, OneAccountShows
<1>2. CASE PS!Fund(c)
  <2> DEFINE p == PS!Has(c.account)
             s == PS!Posted(state, c, "clearing", c.account, c.amount)
             checks == << PS!TenantCheck, <<"funded", p, "no-such-account">> >>
  <2>1. PS!Decide(c, checks, PS!AccountWalk(checks), s)
    BY <1>2, Zenon DEF PS!Fund
  <2>2. DOMAIN s = DOMAIN state
    BY PostedKeeps
  <2>3. p \in BOOLEAN
    BY DEF PS!Has
  <2> HIDE DEF p, s
  <2> QED BY <2>1, <2>2, <2>3, OneAccountShows
<1> QED BY <1>1, <1>2

(* A charge passes its checks in the order they are drawn, whichever fails  *)
(* first.                                                                   *)
LEMMA PayChargeShows ==
  ASSUME "walk" \in DOMAIN state, NEW c, PS!Charge(c)
  PROVE  Shows(PS!PaymentDiagrams)
<1> DEFINE g == PS!CommandDiagram
           p1 == PS!Kind(c.customer) = "customer" /\ PS!Kind(c.merchant) = "merchant"
           p2 == PS!Balance(c.customer) >= c.amount
           b1 == IF PS!Has(c.customer) /\ PS!Has(c.merchant)
                 THEN "wrong-account-kind" ELSE "no-such-account"
           checks == << PS!TenantCheck, <<"accounts", p1, b1>>,
                        <<"funds", p2, "insufficient-funds">> >>
           rest == << <<"accounts", p1, b1>>, <<"funds", p2, "insufficient-funds">> >>
           charge == [customer |-> c.customer, merchant |-> c.merchant, amount |-> c.amount,
                      refunded |-> 0]
           charged == [state EXCEPT !.charges = PS!Put(@, c.rid, charge)]
           s == PS!Posted(charged, c, c.customer, c.merchant, c.amount)
<1>1. PS!Decide(c, checks, PS!AccountWalk(checks), s)
  BY Zenon DEF PS!Charge
<1>2. DOMAIN s = DOMAIN state
  <2>1. DOMAIN charged = DOMAIN state
    OBVIOUS
  <2> HIDE DEF charged
  <2> QED BY <2>1, PostedKeeps
<1>3. p1 \in BOOLEAN /\ p2 \in BOOLEAN
  OBVIOUS
<1> HIDE DEF p1, p2, b1
<1>4. /\ 1 \in DOMAIN checks /\ DOMAIN checks \subseteq Nat \ {0}
      /\ checks[1] = PS!TenantCheck /\ rest = Tail(checks)
      /\ rest = << <<"accounts", p1, b1>>, <<"funds", p2, "insufficient-funds">> >>
  OBVIOUS
<1>5. /\ Arrow(g, "operation", "accounts") /\ Arrow(g, "accounts", "funds")
      /\ Arrow(g, "accounts", "reject") /\ Arrow(g, "funds", "reject")
      /\ Arrow(g, "funds", "accept")
  BY CommandArrows
<1> HIDE DEF g, s, checks, rest
<1>6. Ways(g, rest, "accounts", "accept", "reject")
  <2>1. \/ Refused(rest) = {} /\ Walk(g, Visited(rest), "accounts", "funds")
        \/ /\ Refused(rest) # {}
           /\ \/ ~p1 /\ Walk(g, Visited(rest), "accounts", "accounts")
              \/ ~p2 /\ Walk(g, Visited(rest), "accounts", "funds")
    BY ZenonT(40), <1>3, <1>4, <1>5, TwoWalked
  <2> QED BY <1>5, <2>1 DEF Ways
<1> QED BY <1>1, <1>2, <1>4, <1>5, <1>6, AccountShows DEF g

(* So does a refund, which asks for the charge before it asks how much of   *)
(* it is left.                                                              *)
LEMMA PayRefundShows ==
  ASSUME "walk" \in DOMAIN state, NEW c, PS!Refund(c)
  PROVE  Shows(PS!PaymentDiagrams)
<1> DEFINE g == PS!RefundDiagram
           charge == IF c.charge \in DOMAIN state.charges THEN state.charges[c.charge]
                     ELSE PS!NoCharge
           p1 == state.tenant = TRUE
           p2 == charge # PS!NoCharge
           p3 == charge.refunded + c.amount <= charge.amount
           p4 == PS!Balance(charge.merchant) >= c.amount
           checks == << PS!TenantCheck, <<"charge", p2, "no-such-charge">>,
                        <<"total", p3, "refund-exceeds-charge">>,
                        <<"balance", p4, "insufficient-funds">> >>
           refunded == [state EXCEPT !.charges[c.charge].refunded = @ + c.amount]
           s == PS!Posted(refunded, c, charge.merchant, charge.customer, c.amount)
           last == IF Refused(checks) = {} THEN <<"accept", "update", "journal", "done">>
                   ELSE <<"reject">>
           path == <<"event">> \o Visited(checks) \o last
<1>1. PS!Decide(c, checks, <<"refund", <<"event">> \o PS!Nodes(checks)
        \o IF PS!Accepted(checks) THEN <<"accept", "update", "journal", "done">>
           ELSE <<"reject">> >>, s)
  BY Zenon DEF PS!Refund
<1>2. DOMAIN s = DOMAIN state
  <2>1. DOMAIN refunded = DOMAIN state
    <3> DEFINE charges == [state.charges EXCEPT ![c.charge].refunded = @ + c.amount]
    <3>1. refunded = [state EXCEPT !.charges = charges]
      OBVIOUS
    <3> HIDE DEF charges, refunded
    <3> QED BY <3>1
  <2> HIDE DEF refunded, charge
  <2> QED BY <2>1, PostedKeeps
<1>3. /\ checks[1][1] = "tenant" /\ checks[2][1] = "charge"
      /\ checks[3][1] = "total" /\ checks[4][1] = "balance"
      /\ DOMAIN checks = 1..4 /\ Len(checks) = 4
  BY DEF PS!TenantCheck
<1>4. /\ "event" \in Ids(g) /\ Arrow(g, "event", "tenant") /\ Arrow(g, "tenant", "charge")
      /\ Arrow(g, "charge", "total") /\ Arrow(g, "total", "balance")
      /\ Arrow(g, "tenant", "reject") /\ Arrow(g, "charge", "reject")
      /\ Arrow(g, "total", "reject") /\ Arrow(g, "balance", "reject")
      /\ Arrow(g, "balance", "accept") /\ Arrow(g, "accept", "update")
      /\ Arrow(g, "update", "journal") /\ Arrow(g, "journal", "done")
  BY RefundArrows
<1>5. g = PS!PaymentDiagrams["refund"]
  BY DEF PS!PaymentDiagrams
<1> HIDE DEF g, s, charge, p2, p3, p4, checks
<1>6. Ways(g, checks, "tenant", "accept", "reject")
  <2>1. \A i \in 1..4 : i = 1 \/ i = 2 \/ i = 3 \/ i = 4
    OBVIOUS
  <2>2. /\ \A i \in 1..(4 - 1) : Arrow(g, checks[i][1], checks[i + 1][1])
        /\ \A i \in 1..4 : Arrow(g, checks[i][1], "reject")
        /\ Arrow(g, checks[4][1], "accept") /\ 4 \in Nat \ {0}
    BY <1>3, <1>4, <2>1
  <2>3. \/ Refused(checks) = {} /\ Walk(g, Visited(checks), checks[1][1], checks[4][1])
        \/ /\ Refused(checks) # {}
           /\ \E k \in 1..4 : /\ ~checks[k][2]
                             /\ Walk(g, Visited(checks), checks[1][1], checks[k][1])
    BY <1>3, <2>2, ChecksWalk
  <2> QED BY <1>3, <2>2, <2>3 DEF Ways
<1>7. \E z : Walk(g, path, "event", z)
  <2>1. /\ Walk(g, <<"event">>, "event", "event") /\ Walk(g, <<"reject">>, "reject", "reject")
        /\ Walk(g, <<"accept", "update", "journal", "done">>, "accept", "done")
    BY <1>4, ShortWalks
  <2> QED BY <1>4, <1>6, <2>1, WayOn
<1>8. state'.walk = <<"refund", path>> /\ DOMAIN state' = DOMAIN state
  <2>1. PS!Nodes(checks) = Visited(checks)
    BY ChecksAreVisited
  <2>2. (IF PS!Accepted(checks) THEN <<"accept", "update", "journal", "done">>
         ELSE <<"reject">>) = last
    BY AcceptedUnlessRefused
  <2> HIDE DEF last
  <2>3. PS!Decide(c, checks, <<"refund", path>>, s)
    BY <1>1, <2>1, <2>2, Zenon
  <2> HIDE DEF path
  <2> QED BY <1>2, <2>3, PayDecides
<1> HIDE DEF path
<1> QED BY <1>4, <1>5, <1>7, <1>8, ShownAs

(* So everything the payment system does is drawn.                          *)
LEMMA PaymentsShow ==
  "walk" \in DOMAIN state /\ PS!PaymentStep => Shows(PS!PaymentDiagrams)
<1>1. ASSUME "walk" \in DOMAIN state, NEW c,
             \/ PS!Replay(c, <<"command", PS!Gate \o <<"equal", "replay">> >>)
             \/ PS!Conflict(c, <<"command", PS!Gate \o <<"equal", "conflict">> >>)
      PROVE  Shows(PS!PaymentDiagrams)
  <2>1. /\ "call" \in Ids(PS!CommandDiagram)
        /\ PS!CommandDiagram = PS!PaymentDiagrams["command"]
    BY CommandArrows DEF PS!PaymentDiagrams
  <2>2. /\ \/ state'.walk = <<"command", PS!Gate \o <<"equal", "replay">> >>
           \/ state'.walk = <<"command", PS!Gate \o <<"equal", "conflict">> >>
        /\ DOMAIN state' = DOMAIN state
    BY <1>1, CommandsAreNoted
  <2> QED BY <2>1, <2>2, PayWalks, ShownAs
<1> QED BY <1>1, PayTenantShows, PayAccountShows, PayChargeShows, PayRefundShows DEF PS!PaymentStep

-----------------------------------------------------------------------------
(* The stock exchange.  The book is a record s: what a match makes of it,   *)
(* trade by trade, is not yet the state.                                   *)

Sides == {"buy", "sell"}

(* An order: what it asked for is filled, waits, or is cancelled.           *)
GoodOrder(o) ==
  /\ DOMAIN o = {"account", "side", "price", "qty", "seq", "filled", "remaining", "cancelled"}
  /\ o.side \in Sides /\ o.price \in Nat
  /\ {o.qty, o.seq, o.filled, o.remaining, o.cancelled} \subseteq Nat
  /\ o.qty = o.filled + o.remaining + o.cancelled
  /\ o.remaining > 0 => o.cancelled = 0

(* The orders, each with a sequence of its own.                             *)
OrdersGood(s) ==
  /\ IsFiniteSet(DOMAIN s.orders) /\ s.nextSeq \in Nat
  /\ \A id \in DOMAIN s.orders :
       GoodOrder(s.orders[id]) /\ s.orders[id].seq \in 1..s.nextSeq
  /\ \A x, y \in DOMAIN s.orders : s.orders[x].seq = s.orders[y].seq => x = y

(* Those that wait, those that wait at a price, and what is left of them.   *)
Waiting(s, side) ==
  {id \in DOMAIN s.orders : s.orders[id].side = side /\ s.orders[id].remaining > 0}
Here(s, side, price) == {id \in Waiting(s, side) : s.orders[id].price = price}
Left(s, side, price) == SumOver([id \in Here(s, side, price) |-> s.orders[id].remaining])

(* A price's queue and level are of those that wait there.                  *)
LevelGood(s, side, price) ==
  /\ DOMAIN s.queue[side][price] = {s.orders[id].seq : id \in Here(s, side, price)}
  /\ \A id \in Here(s, side, price) : s.queue[side][price][s.orders[id].seq] = id
  /\ s.levels[side][price] =
       [qty |-> Left(s, side, price), count |-> Cardinality(Here(s, side, price))]
SideGood(s, side) ==
  /\ DOMAIN s.levels[side] = DOMAIN s.queue[side]
  /\ DOMAIN s.levels[side] = {s.orders[id].price : id \in Waiting(s, side)}
  /\ \A price \in DOMAIN s.levels[side] : LevelGood(s, side, price)
BookGood(s) ==
  /\ DOMAIN s.levels = Sides /\ DOMAIN s.queue = Sides
  /\ \A side \in Sides : SideGood(s, side)

(* What is left of both sides does not cross.                               *)
Uncrossed(s) ==
  \A bid \in DOMAIN s.levels["buy"], ask \in DOMAIN s.levels["sell"] : bid < ask

(* An amount is taken from a waiting order, and from its level; the order   *)
(* leaves the queue when nothing is left of it, the level when of nobody.   *)
Dropped(f, x) == [z \in DOMAIN f \ {x} |-> f[z]]
Placed(s, t) ==
  /\ DOMAIN t.orders = DOMAIN s.orders
  /\ \A x \in DOMAIN s.orders :
       /\ t.orders[x].side = s.orders[x].side /\ t.orders[x].price = s.orders[x].price
       /\ t.orders[x].seq = s.orders[x].seq
LevelTaken(s, t, side, price, seq, amount, all) ==
  LET level == s.levels[side][price]
      queue == s.queue[side][price] IN
  /\ DOMAIN t.levels = Sides /\ DOMAIN t.queue = Sides
  /\ \A other \in Sides \ {side} : /\ t.levels[other] = s.levels[other]
                                  /\ t.queue[other] = s.queue[other]
  /\ IF amount = level.qty
     THEN /\ t.levels[side] = Dropped(s.levels[side], price)
          /\ t.queue[side] = Dropped(s.queue[side], price)
     ELSE /\ t.levels[side] = [s.levels[side] EXCEPT ![price] =
               [qty |-> level.qty - amount, count |-> level.count - (IF all THEN 1 ELSE 0)]]
          /\ t.queue[side] = IF all THEN [s.queue[side] EXCEPT ![price] = Dropped(queue, seq)]
                             ELSE s.queue[side]
Taken(s, t, id, amount) ==
  /\ id \in DOMAIN s.orders /\ amount \in 1..s.orders[id].remaining
  /\ Placed(s, t)
  /\ \A x \in DOMAIN s.orders : x # id => t.orders[x].remaining = s.orders[x].remaining
  /\ t.orders[id].remaining = s.orders[id].remaining - amount
  /\ LevelTaken(s, t, s.orders[id].side, s.orders[id].price, s.orders[id].seq, amount,
                amount = s.orders[id].remaining)

(* What is left of a level is a number, more than nothing when any waits.   *)
LEMMA LeftIsNat ==
  ASSUME NEW D, IsFiniteSet(D), NEW f \in [D -> Nat], \A x \in D : f[x] > 0
  PROVE  SumOver(f) \in Nat /\ (D # {} => SumOver(f) > 0)
<1> DEFINE G == {S \in SUBSET D : /\ SumOver([x \in S |-> f[x]]) \in Nat
                                  /\ S # {} => SumOver([x \in S |-> f[x]]) > 0}
<1>1. {} \in G
  BY SumOfNone
<1>2. ASSUME NEW S \in SUBSET D, NEW x \in D \ S, S \in G PROVE S \cup {x} \in G
  <2> DEFINE less == [y \in S |-> f[y]]
             more == [y \in S \cup {x} |-> f[y]]
  <2>1. OneMore(S, less, x, more)
    BY FS_Subset DEF OneMore
  <2>2. SumOver(less) \in Nat /\ more[x] \in Nat /\ more[x] > 0
    BY <1>2
  <2> HIDE DEF less, more
  <2>3. SumOver(more) = SumOver(less) + more[x]
    BY <2>1, SumPutIn
  <2>4. SumOver(more) \in Nat /\ SumOver(more) > 0
    BY <2>2, <2>3
  <2> QED BY <2>4 DEF more
<1> HIDE DEF G
<1>3. D \in G
  BY <1>1, <1>2, InductionOnSubsets
<1>4. f = [x \in D |-> f[x]]
  OBVIOUS
<1> QED BY <1>3, <1>4 DEF G

(* The orders at a price.                                                   *)
LEMMA HereFacts ==
  ASSUME NEW s, OrdersGood(s), NEW side, NEW price
  PROVE  /\ IsFiniteSet(Here(s, side, price)) /\ Here(s, side, price) \subseteq DOMAIN s.orders
         /\ \A id \in Here(s, side, price) :
              s.orders[id].remaining \in Nat /\ s.orders[id].remaining > 0
<1>1. Here(s, side, price) \subseteq DOMAIN s.orders
  BY DEF Here, Waiting
<1>2. IsFiniteSet(Here(s, side, price))
  BY SMTT(30), <1>1, FS_Subset DEF OrdersGood
<1> QED BY <1>1, <1>2 DEF Here, Waiting, OrdersGood, GoodOrder

(* What is left at a price when an amount is taken from one order there.    *)
Lessened(s, t, id, amount) ==
  LET side == s.orders[id].side
      price == s.orders[id].price
      all == amount = s.orders[id].remaining IN
  /\ id \in Here(s, side, price)
  /\ Here(t, side, price) = IF all THEN Here(s, side, price) \ {id} ELSE Here(s, side, price)
  /\ Left(t, side, price) = Left(s, side, price) - amount
  /\ Left(s, side, price) \in Nat
  /\ Cardinality(Here(s, side, price)) \in Nat
  /\ Cardinality(Here(t, side, price)) =
       Cardinality(Here(s, side, price)) - (IF all THEN 1 ELSE 0)
  /\ amount = Left(s, side, price) <=> Here(t, side, price) = {}

(* Every taking lessens its level so.                                       *)
LEMMA TakenLeft ==
  ASSUME NEW s, NEW t, OrdersGood(s), NEW id, NEW amount, Taken(s, t, id, amount)
  PROVE  Lessened(s, t, id, amount)
<1> DEFINE side == s.orders[id].side
           price == s.orders[id].price
           all == amount = s.orders[id].remaining
           H == Here(s, side, price)
           J == Here(t, side, price)
           f == [x \in H |-> s.orders[x].remaining]
           g == [x \in J |-> t.orders[x].remaining]
           R == H \ {id}
           rest == [x \in R |-> s.orders[x].remaining]
<1>1. /\ id \in DOMAIN s.orders /\ s.orders[id].remaining \in Nat
      /\ amount \in 1..s.orders[id].remaining
      /\ DOMAIN t.orders = DOMAIN s.orders
      /\ \A x \in DOMAIN s.orders : x # id => t.orders[x].remaining = s.orders[x].remaining
      /\ t.orders[id].remaining = s.orders[id].remaining - amount
      /\ \A x \in DOMAIN s.orders : /\ t.orders[x].side = s.orders[x].side
                                   /\ t.orders[x].price = s.orders[x].price
  BY DEF Taken, Placed, OrdersGood, GoodOrder
<1>2. id \in H
  BY <1>1 DEF Here, Waiting
<1>3. /\ IsFiniteSet(H) /\ H \subseteq DOMAIN s.orders
      /\ \A x \in H : s.orders[x].remaining \in Nat /\ s.orders[x].remaining > 0
  BY HereFacts
<1>4. J = IF all THEN R ELSE H
  <2>1. \A x : x # id => (x \in J <=> x \in H)
    BY <1>1 DEF Here, Waiting
  <2>2. id \in J <=> ~all
    <3>1. t.orders[id].remaining > 0 <=> ~all
      BY <1>1
    <3>2. id \in J <=> t.orders[id].remaining > 0
      BY <1>1 DEF Here, Waiting
    <3> QED BY <3>1, <3>2
  <2> HIDE DEF H, J
  <2> QED BY <1>2, <2>1, <2>2
<1> HIDE DEF H, J
<1>5. f \in [H -> Nat] /\ rest \in [R -> Nat] /\ \A x \in R : rest[x] > 0
  BY <1>3
<1>6. IsFiniteSet(R)
  BY <1>3, FS_RemoveElement
<1>7. SumOver(rest) \in Nat /\ (R # {} => SumOver(rest) > 0)
  BY <1>5, <1>6, LeftIsNat
<1>8. OneMore(R, rest, id, f) /\ f[id] = s.orders[id].remaining
  BY <1>2, <1>3, <1>5, <1>6 DEF OneMore
<1>9. SumOver(f) = SumOver(rest) + s.orders[id].remaining
  <2> HIDE DEF f, R, rest
  <2> QED BY <1>8, SumPutIn
<1>10. SumOver(g) = SumOver(f) - amount
  <2>1. CASE all
    <3>1. g = rest
      BY <1>1, <1>3, <1>4, <2>1
    <3>2. amount \in Int /\ SumOver(rest) \in Int /\ amount = s.orders[id].remaining
      BY <1>1, <1>7, <2>1
    <3> HIDE DEF f, g, rest, R, all
    <3> QED BY <1>9, <3>1, <3>2
  <2>2. CASE ~all
    <3>1. J = H
      BY <1>4, <2>2
    <3>2. \A x \in H : x # id => g[x] = f[x]
      BY <1>1, <1>3, <3>1
    <3>3. g[id] = f[id] - amount /\ g[id] \in Int /\ f[id] \in Int
      BY <1>1, <1>2, <3>1
    <3>4. g \in [H -> Int] /\ f \in [H -> Int]
      <4>1. g = [x \in H |-> g[x]]
        BY <3>1
      <4> QED BY <1>5, <3>2, <3>3, <4>1
    <3>5. OneOther(H, f, id, g)
      <4> HIDE DEF f, g
      <4> QED BY <1>2, <1>3, <3>2, <3>4 DEF OneOther
    <3> HIDE DEF f, g
    <3>6. SumOver(g) = SumOver(f) - f[id] + g[id]
      BY <3>5, SumChange
    <3>7. SumOver(f) \in Int
      BY <1>3, <3>4, SumIsInt
    <3> QED BY <1>1, <3>3, <3>6, <3>7
  <2> QED BY <2>1, <2>2
<1>11. SumOver(f) = Left(s, side, price) /\ SumOver(g) = Left(t, side, price)
  BY DEF Left, H, J
<1>12. Cardinality(H) \in Nat /\ Cardinality(J) = Cardinality(H) - (IF all THEN 1 ELSE 0)
  <2>1. Cardinality(H) \in Nat
    BY <1>3, FS_CardinalityType
  <2>2. Cardinality(R) = Cardinality(H) - 1
    BY <1>2, <1>3, FS_RemoveElement
  <2> HIDE DEF R, all
  <2> QED BY <1>4, <2>1, <2>2
<1>13. amount = SumOver(f) <=> J = {}
  <2> HIDE DEF f, rest
  <2>1. CASE R = {}
    <3>1. SumOver(rest) = 0
      BY <2>1, SumOfNone DEF rest
    <3>2. SumOver(f) = s.orders[id].remaining
      BY <1>1, <1>9, <3>1
    <3>3. all <=> J = {}
      BY <1>2, <1>4, <2>1
    <3> QED BY <3>2, <3>3
  <2>2. CASE R # {}
    <3>1. J # {}
      BY <1>2, <1>4, <2>2
    <3>2. SumOver(rest) > 0 /\ SumOver(rest) \in Int /\ s.orders[id].remaining \in Int
          /\ amount <= s.orders[id].remaining /\ amount \in Int
      BY <1>1, <1>7, <2>2
    <3> HIDE DEF J, R, H
    <3> QED BY <1>9, <3>1, <3>2
  <2> QED BY <2>1, <2>2
<1>14. SumOver(f) \in Nat
  <2> HIDE DEF f, rest, R
  <2> QED BY <1>1, <1>7, <1>9
<1> HIDE DEF f, g, rest, R
<1> QED BY <1>2, <1>4, <1>10, <1>11, <1>12, <1>13, <1>14 DEF H, J, R, Lessened

(* The book stays good, and loses no more than a level.                     *)
LEMMA TakeKeepsBook ==
  ASSUME NEW s, NEW t, OrdersGood(s), BookGood(s), NEW id, NEW amount, Taken(s, t, id, amount)
  PROVE  /\ BookGood(t)
         /\ \A side \in Sides : DOMAIN t.levels[side] \subseteq DOMAIN s.levels[side]
<1> DEFINE o == s.orders[id]
           side == o.side
           price == o.price
           all == amount = o.remaining
           level == s.levels[side][price]
           queue == s.queue[side][price]
           H == Here(s, side, price)
           J == Here(t, side, price)
<1>1. /\ id \in DOMAIN s.orders /\ DOMAIN t.orders = DOMAIN s.orders /\ side \in Sides
      /\ \A x \in DOMAIN s.orders : x # id => t.orders[x].remaining = s.orders[x].remaining
      /\ \A x \in DOMAIN s.orders : /\ t.orders[x].side = s.orders[x].side
                                   /\ t.orders[x].price = s.orders[x].price
                                   /\ t.orders[x].seq = s.orders[x].seq
  BY DEF Taken, Placed, OrdersGood, GoodOrder
<1>2. /\ DOMAIN t.levels = Sides /\ DOMAIN t.queue = Sides
      /\ \A other \in Sides \ {side} : /\ t.levels[other] = s.levels[other]
                                      /\ t.queue[other] = s.queue[other]
  BY Zenon DEF Taken, LevelTaken
<1>3. IF amount = level.qty
      THEN /\ t.levels[side] = Dropped(s.levels[side], price)
           /\ t.queue[side] = Dropped(s.queue[side], price)
      ELSE /\ t.levels[side] = [s.levels[side] EXCEPT ![price] =
                [qty |-> level.qty - amount, count |-> level.count - (IF all THEN 1 ELSE 0)]]
           /\ t.queue[side] = IF all THEN [s.queue[side] EXCEPT ![price] = Dropped(queue, o.seq)]
                              ELSE s.queue[side]
  BY Zenon DEF Taken, LevelTaken
<1>4. /\ id \in H
      /\ J = IF all THEN H \ {id} ELSE H
      /\ Left(t, side, price) = Left(s, side, price) - amount
      /\ Cardinality(J) = Cardinality(H) - (IF all THEN 1 ELSE 0)
      /\ amount = Left(s, side, price) <=> J = {}
  <2>1. Lessened(s, t, id, amount)
    BY TakenLeft
  <2> QED BY <2>1 DEF Lessened
<1>5. SideGood(s, side) /\ DOMAIN s.levels = Sides /\ DOMAIN s.queue = Sides
  BY <1>1 DEF BookGood
<1>6. price \in DOMAIN s.levels[side] /\ LevelGood(s, side, price)
  <2>1. price \in DOMAIN s.levels[side]
    BY <1>4, <1>5 DEF Here, SideGood
  <2> QED BY <1>5, <2>1 DEF SideGood
<1>7. level = [qty |-> Left(s, side, price), count |-> Cardinality(H)]
  BY Zenon, <1>6 DEF LevelGood
<1>8. level.qty = Left(s, side, price) /\ level.count = Cardinality(H)
  <2> HIDE DEF level
  <2> QED BY <1>7
(* Elsewhere nothing changes.                                               *)
<1>9. ASSUME NEW sd, NEW p, sd # side \/ p # price
      PROVE  Here(t, sd, p) = Here(s, sd, p) /\ Left(t, sd, p) = Left(s, sd, p)
  <2>1. Here(t, sd, p) = Here(s, sd, p)
    BY <1>1, <1>9 DEF Here, Waiting
  <2>2. \A x \in Here(s, sd, p) : t.orders[x].remaining = s.orders[x].remaining
    BY <1>1, <1>9 DEF Here, Waiting
  <2> QED BY <2>1, <2>2 DEF Left
<1>10. ASSUME NEW sd, NEW p, LevelGood(s, sd, p), sd # side \/ p # price,
              t.levels[sd][p] = s.levels[sd][p], t.queue[sd][p] = s.queue[sd][p]
       PROVE  LevelGood(t, sd, p)
  <2>1. Here(t, sd, p) = Here(s, sd, p) /\ Left(t, sd, p) = Left(s, sd, p)
    BY <1>9, <1>10
  <2>2. \A x \in Here(s, sd, p) : t.orders[x].seq = s.orders[x].seq
    BY <1>1 DEF Here, Waiting
  <2> QED BY <1>10, <2>1, <2>2 DEF LevelGood
<1>11. ASSUME NEW sd \in Sides, sd # side PROVE SideGood(t, sd)
  <2>1. t.levels[sd] = s.levels[sd] /\ t.queue[sd] = s.queue[sd]
    BY <1>2, <1>11
  <2>2. SideGood(s, sd)
    BY DEF BookGood
  <2>3. {t.orders[x].price : x \in Waiting(t, sd)} = {s.orders[x].price : x \in Waiting(s, sd)}
    <3>1. Waiting(t, sd) = Waiting(s, sd)
      BY <1>1, <1>11 DEF Waiting
    <3> QED BY <1>1, <3>1 DEF Waiting
  <2>4. \A p \in DOMAIN s.levels[sd] : LevelGood(t, sd, p)
    BY <1>10, <1>11, <2>1, <2>2 DEF SideGood
  <2> QED BY <2>1, <2>2, <2>3, <2>4 DEF SideGood
<1>12. SideGood(t, side) /\ DOMAIN t.levels[side] \subseteq DOMAIN s.levels[side]
  <2> DEFINE S == {s.orders[x].price : x \in Waiting(s, side)}
             T == {t.orders[x].price : x \in Waiting(t, side)}
  <2>1. \A p : p \in T <=> Here(t, side, p) # {}
    BY DEF Here
  <2>2. \A p : p \in S <=> Here(s, side, p) # {}
    BY DEF Here
  <2>3. T = IF J = {} THEN S \ {price} ELSE S
    <3>1. \A p : p # price => (p \in T <=> p \in S)
      BY <1>9, <2>1, <2>2
    <3>2. price \in T <=> J # {}
      BY <2>1
    <3>3. price \in S
      BY <1>4, <2>2
    <3> HIDE DEF S, T, J
    <3> QED BY <3>1, <3>2, <3>3
  <2>4. DOMAIN s.levels[side] = S /\ DOMAIN s.queue[side] = S
    BY <1>5 DEF SideGood
  <2>5. \A p \in S : LevelGood(s, side, p)
    BY <1>5, <2>4 DEF SideGood
  <2> HIDE DEF S, T
  <2>6. CASE J = {}
    <3>1. /\ t.levels[side] = Dropped(s.levels[side], price)
          /\ t.queue[side] = Dropped(s.queue[side], price)
      BY Zenon, <1>3, <1>4, <1>8, <2>6
    <3>2. /\ DOMAIN t.levels[side] = T /\ DOMAIN t.queue[side] = T
          /\ \A p \in T : /\ p \in S /\ p # price
                          /\ t.levels[side][p] = s.levels[side][p]
                          /\ t.queue[side][p] = s.queue[side][p]
      BY Zenon, <2>3, <2>4, <2>6, <3>1 DEF Dropped
    <3>3. \A p \in T : LevelGood(t, side, p)
      BY SMTT(30), <1>10, <2>5, <3>2
    <3> QED BY <2>3, <2>4, <2>6, <3>2, <3>3 DEF SideGood, T
  <2>7. CASE J # {}
    <3> DEFINE new == [qty |-> level.qty - amount,
                       count |-> level.count - (IF all THEN 1 ELSE 0)]
    <3>1. /\ t.levels[side] = [s.levels[side] EXCEPT ![price] = new]
          /\ t.queue[side] = IF all THEN [s.queue[side] EXCEPT ![price] = Dropped(queue, o.seq)]
                             ELSE s.queue[side]
      BY ZenonT(40), <1>3, <1>4, <1>8, <2>7
    <3>2. new = [qty |-> Left(t, side, price), count |-> Cardinality(J)]
      BY <1>4, <1>8
    <3> HIDE DEF new, level, queue, all
    <3>3. /\ DOMAIN t.levels[side] = S /\ DOMAIN t.queue[side] = S
          /\ t.levels[side][price] = new
          /\ t.queue[side][price] = IF all THEN Dropped(queue, o.seq) ELSE s.queue[side][price]
          /\ \A p \in S : p # price => /\ t.levels[side][p] = s.levels[side][p]
                                       /\ t.queue[side][p] = s.queue[side][p]
      BY Zenon, <1>6, <2>4, <3>1
    <3>4. LevelGood(t, side, price)
      <4>1. /\ DOMAIN queue = {s.orders[x].seq : x \in H}
            /\ \A x \in H : queue[s.orders[x].seq] = x
        BY Zenon, <1>6 DEF LevelGood, queue
      <4>2. \A x \in H : x \in DOMAIN s.orders
        BY DEF Here, Waiting
      <4>3. \A x \in H : x # id => s.orders[x].seq # o.seq
        BY <1>1, <4>2 DEF OrdersGood
      <4>4. DOMAIN t.queue[side][price] = {t.orders[x].seq : x \in J}
        <5>1. CASE all
          <6>1. DOMAIN t.queue[side][price] = (DOMAIN queue) \ {o.seq}
            BY <3>3, <5>1 DEF Dropped
          <6>2. J = H \ {id}
            BY <1>4, <5>1 DEF all
          <6>3. {t.orders[x].seq : x \in J} = {s.orders[x].seq : x \in H \ {id}}
            BY <1>1, <4>2, <6>2
          <6> QED BY ZenonT(40), <4>1, <4>3, <6>1, <6>3
        <5>2. CASE ~all
          <6>1. t.queue[side][price] = queue /\ J = H
            BY <1>4, <3>3, <5>2 DEF all, queue
          <6> QED BY SMTT(30), <1>1, <4>1, <4>2, <6>1
        <5> QED BY <5>1, <5>2
      <4>5. ASSUME NEW x \in J PROVE t.queue[side][price][t.orders[x].seq] = x
        <5>1. x \in H /\ t.orders[x].seq = s.orders[x].seq /\ s.orders[x].seq \in DOMAIN queue
              /\ queue[s.orders[x].seq] = x
          BY <1>1, <1>4, <4>1, <4>2 DEF all
        <5>2. CASE all
          <6>1. s.orders[x].seq # o.seq
            BY SMTT(30), <1>4, <4>3, <5>1, <5>2 DEF all
          <6>2. t.queue[side][price] = Dropped(queue, o.seq)
            BY <3>3, <5>2
          <6> QED BY <5>1, <6>1, <6>2 DEF Dropped
        <5>3. CASE ~all
          BY ZenonT(40), <3>3, <5>1, <5>3 DEF queue
        <5> QED BY ZenonT(40), <5>2, <5>3
      <4> QED BY Zenon, <3>2, <3>3, <4>4, <4>5 DEF LevelGood
    <3>5. \A p \in S : LevelGood(t, side, p)
      BY <1>10, <2>5, <3>3, <3>4
    <3>6. T = S
      BY <2>3, <2>7
    <3> QED BY <2>4, <3>3, <3>5, <3>6 DEF SideGood, T
  <2> QED BY <2>6, <2>7
<1>13. \A sd \in Sides : SideGood(t, sd)
  BY <1>11, <1>12
<1>14. \A sd \in Sides : DOMAIN t.levels[sd] \subseteq DOMAIN s.levels[sd]
  BY <1>2, <1>12
<1> QED BY <1>2, <1>13, <1>14 DEF BookGood

(* What is left of an order comes to wait, last at its price.               *)
LevelJoined(s, t, side, price, seq, id, left) ==
  LET level == IF price \in DOMAIN s.levels[side] THEN s.levels[side][price]
               ELSE [qty |-> 0, count |-> 0]
      queue == IF price \in DOMAIN s.queue[side] THEN s.queue[side][price] ELSE <<>> IN
  /\ DOMAIN t.levels = Sides /\ DOMAIN t.queue = Sides
  /\ \A other \in Sides \ {side} : /\ t.levels[other] = s.levels[other]
                                  /\ t.queue[other] = s.queue[other]
  /\ t.levels[side] = Put(s.levels[side], price,
                          [qty |-> level.qty + left, count |-> level.count + 1])
  /\ t.queue[side] = Put(s.queue[side], price, Put(queue, seq, id))
Joined(s, t, id, left) ==
  /\ id \in DOMAIN s.orders /\ left \in Nat \ {0}
  /\ s.orders[id].remaining = 0
  /\ Placed(s, t)
  /\ \A x \in DOMAIN s.orders : x # id => t.orders[x].remaining = s.orders[x].remaining
  /\ t.orders[id].remaining = left
  /\ LevelJoined(s, t, s.orders[id].side, s.orders[id].price, s.orders[id].seq, id, left)

(* What is there to wait at a price when an order joins it.                 *)
Increased(s, t, id, left) ==
  LET side == s.orders[id].side
      price == s.orders[id].price IN
  /\ id \notin Here(s, side, price)
  /\ Here(t, side, price) = Here(s, side, price) \cup {id}
  /\ Left(t, side, price) = Left(s, side, price) + left
  /\ Cardinality(Here(t, side, price)) = Cardinality(Here(s, side, price)) + 1

(* Every joining increases its level so.                                    *)
LEMMA JoinedLeft ==
  ASSUME NEW s, NEW t, OrdersGood(s), NEW id, NEW left, Joined(s, t, id, left)
  PROVE  Increased(s, t, id, left)
<1> DEFINE side == s.orders[id].side
           price == s.orders[id].price
           H == Here(s, side, price)
           J == Here(t, side, price)
           f == [x \in H |-> s.orders[x].remaining]
           g == [x \in J |-> t.orders[x].remaining]
<1>1. /\ id \in DOMAIN s.orders /\ s.orders[id].remaining = 0 /\ left \in Nat \ {0}
      /\ DOMAIN t.orders = DOMAIN s.orders
      /\ \A x \in DOMAIN s.orders : x # id => t.orders[x].remaining = s.orders[x].remaining
      /\ t.orders[id].remaining = left
      /\ \A x \in DOMAIN s.orders : /\ t.orders[x].side = s.orders[x].side
                                   /\ t.orders[x].price = s.orders[x].price
  BY DEF Joined, Placed
<1>2. id \notin H
  BY <1>1 DEF Here, Waiting
<1>3. J = H \cup {id}
  <2>1. \A x : x # id => (x \in J <=> x \in H)
    BY <1>1 DEF Here, Waiting
  <2>2. id \in J
    BY <1>1 DEF Here, Waiting
  <2> HIDE DEF H, J
  <2> QED BY <2>1, <2>2
<1>4. /\ IsFiniteSet(H) /\ H \subseteq DOMAIN s.orders
      /\ \A x \in H : s.orders[x].remaining \in Nat
  BY HereFacts
<1> HIDE DEF H, J
<1>5. f \in [H -> Int] /\ g \in [H \cup {id} -> Int] /\ \A x \in H : g[x] = f[x]
  BY <1>1, <1>2, <1>3, <1>4
<1>6. OneMore(H, f, id, g) /\ g[id] = left
  <2>1. g[id] = left
    BY <1>1, <1>3
  <2> HIDE DEF f, g
  <2> QED BY <1>2, <1>4, <1>5, <2>1 DEF OneMore
<1>7. Left(s, side, price) = SumOver(f) /\ Left(t, side, price) = SumOver(g)
  BY DEF Left, H, J
<1>8. SumOver(g) = SumOver(f) + left
  <2> HIDE DEF f, g
  <2> QED BY <1>6, SumPutIn
<1>9. Cardinality(J) = Cardinality(H) + 1
  BY <1>2, <1>3, <1>4, FS_AddElement
<1> HIDE DEF f, g
<1> QED BY <1>2, <1>3, <1>7, <1>8, <1>9 DEF H, J, Increased

(* The book stays good, and has no other level more than the order's own.   *)
LEMMA JoinKeepsBook ==
  ASSUME NEW s, NEW t, OrdersGood(s), BookGood(s), NEW id, NEW left, Joined(s, t, id, left)
  PROVE  /\ BookGood(t)
         /\ DOMAIN t.levels[s.orders[id].side] =
              DOMAIN s.levels[s.orders[id].side] \cup {s.orders[id].price}
         /\ \A side \in Sides \ {s.orders[id].side} : t.levels[side] = s.levels[side]
<1> DEFINE o == s.orders[id]
           side == o.side
           price == o.price
           known == price \in DOMAIN s.levels[side]
           level == IF known THEN s.levels[side][price] ELSE [qty |-> 0, count |-> 0]
           queue == IF price \in DOMAIN s.queue[side] THEN s.queue[side][price] ELSE <<>>
           H == Here(s, side, price)
           J == Here(t, side, price)
<1>1. /\ id \in DOMAIN s.orders /\ DOMAIN t.orders = DOMAIN s.orders /\ side \in Sides
      /\ left \in Nat
      /\ \A x \in DOMAIN s.orders : x # id => t.orders[x].remaining = s.orders[x].remaining
      /\ \A x \in DOMAIN s.orders : /\ t.orders[x].side = s.orders[x].side
                                   /\ t.orders[x].price = s.orders[x].price
                                   /\ t.orders[x].seq = s.orders[x].seq
  BY DEF Joined, Placed, OrdersGood, GoodOrder
<1>2. /\ DOMAIN t.levels = Sides /\ DOMAIN t.queue = Sides
      /\ \A other \in Sides \ {side} : /\ t.levels[other] = s.levels[other]
                                      /\ t.queue[other] = s.queue[other]
  BY ZenonT(40) DEF Joined, LevelJoined
<1>3. /\ t.levels[side] = Put(s.levels[side], price,
                              [qty |-> level.qty + left, count |-> level.count + 1])
      /\ t.queue[side] = Put(s.queue[side], price, Put(queue, o.seq, id))
  BY DEF Joined, LevelJoined
<1>4. /\ id \notin H /\ J = H \cup {id}
      /\ Left(t, side, price) = Left(s, side, price) + left
      /\ Cardinality(J) = Cardinality(H) + 1
  <2>1. Increased(s, t, id, left)
    BY JoinedLeft
  <2> QED BY <2>1 DEF Increased
<1>5. SideGood(s, side)
  BY <1>1 DEF BookGood
<1>6. known <=> H # {}
  BY SMTT(30), <1>5 DEF SideGood, Here
<1>7. level.qty = Left(s, side, price) /\ level.count = Cardinality(H)
  <2>1. CASE known
    <3>1. s.levels[side][price] = [qty |-> Left(s, side, price), count |-> Cardinality(H)]
      BY <1>5, <2>1 DEF SideGood, LevelGood
    <3> QED BY SMTT(30), <2>1, <3>1
  <2>2. CASE ~known
    <3>1. H = {}
      BY <1>6, <2>2
    <3>2. Left(s, side, price) = 0
      BY <3>1, SumOfNone DEF Left
    <3>3. Cardinality(H) = 0
      BY <3>1, FS_EmptySet
    <3> QED BY <2>2, <3>2, <3>3
  <2> QED BY <2>1, <2>2
<1>8. /\ DOMAIN queue = {s.orders[x].seq : x \in H}
      /\ \A x \in H : queue[s.orders[x].seq] = x
  <2>1. CASE known
    <3>1. price \in DOMAIN s.queue[side]
      BY <1>5, <2>1 DEF SideGood
    <3>2. LevelGood(s, side, price)
      BY <1>5, <2>1 DEF SideGood
    <3> QED BY Zenon, <3>1, <3>2 DEF LevelGood
  <2>2. CASE ~known
    <3>1. H = {} /\ price \notin DOMAIN s.queue[side]
      BY <1>5, <1>6, <2>2 DEF SideGood
    <3>2. queue = <<>>
      BY <3>1
    <3> HIDE DEF queue, H
    <3> QED BY <3>1, <3>2
  <2> QED BY Zenon, <2>1, <2>2
(* Elsewhere nothing changes.                                               *)
<1>9. ASSUME NEW sd, NEW p, sd # side \/ p # price
      PROVE  Here(t, sd, p) = Here(s, sd, p) /\ Left(t, sd, p) = Left(s, sd, p)
  <2>1. Here(t, sd, p) = Here(s, sd, p)
    BY <1>1, <1>9 DEF Here, Waiting
  <2>2. \A x \in Here(s, sd, p) : t.orders[x].remaining = s.orders[x].remaining
    BY <1>1, <1>9 DEF Here, Waiting
  <2> QED BY <2>1, <2>2 DEF Left
<1>10. ASSUME NEW sd, NEW p, LevelGood(s, sd, p), sd # side \/ p # price,
              t.levels[sd][p] = s.levels[sd][p], t.queue[sd][p] = s.queue[sd][p]
       PROVE  LevelGood(t, sd, p)
  <2>1. Here(t, sd, p) = Here(s, sd, p) /\ Left(t, sd, p) = Left(s, sd, p)
    BY <1>9, <1>10
  <2>2. \A x \in Here(s, sd, p) : t.orders[x].seq = s.orders[x].seq
    BY <1>1 DEF Here, Waiting
  <2> QED BY <1>10, <2>1, <2>2 DEF LevelGood
<1>11. ASSUME NEW sd \in Sides, sd # side PROVE SideGood(t, sd)
  <2>1. t.levels[sd] = s.levels[sd] /\ t.queue[sd] = s.queue[sd]
    BY <1>2, <1>11
  <2>2. SideGood(s, sd)
    BY DEF BookGood
  <2>3. {t.orders[x].price : x \in Waiting(t, sd)} = {s.orders[x].price : x \in Waiting(s, sd)}
    <3>1. Waiting(t, sd) = Waiting(s, sd)
      BY <1>1, <1>11 DEF Waiting
    <3> QED BY <1>1, <3>1 DEF Waiting
  <2>4. \A p \in DOMAIN s.levels[sd] : LevelGood(t, sd, p)
    BY <1>10, <1>11, <2>1, <2>2 DEF SideGood
  <2> QED BY <2>1, <2>2, <2>3, <2>4 DEF SideGood
<1>12. SideGood(t, side) /\ DOMAIN t.levels[side] = DOMAIN s.levels[side] \cup {price}
  <2> DEFINE S == {s.orders[x].price : x \in Waiting(s, side)}
             T == {t.orders[x].price : x \in Waiting(t, side)}
             new == [qty |-> level.qty + left, count |-> level.count + 1]
  <2>1. \A p : p \in T <=> Here(t, side, p) # {}
    BY DEF Here
  <2>2. \A p : p \in S <=> Here(s, side, p) # {}
    BY DEF Here
  <2>3. T = S \cup {price}
    <3>1. \A p : p # price => (p \in T <=> p \in S)
      BY <1>9, <2>1, <2>2
    <3>2. price \in T
      BY <1>4, <2>1
    <3> HIDE DEF S, T
    <3> QED BY <3>1, <3>2
  <2>4. DOMAIN s.levels[side] = S /\ DOMAIN s.queue[side] = S
    BY <1>5 DEF SideGood
  <2>5. \A p \in S : LevelGood(s, side, p)
    BY <1>5, <2>4 DEF SideGood
  <2>6. new = [qty |-> Left(t, side, price), count |-> Cardinality(J)]
    BY Zenon, <1>4, <1>7
  <2> HIDE DEF S, T, new, level, queue
  <2>7. /\ DOMAIN t.levels[side] = T /\ DOMAIN t.queue[side] = T
        /\ t.levels[side][price] = new
        /\ t.queue[side][price] = Put(queue, o.seq, id)
        /\ \A p \in S : p # price => /\ t.levels[side][p] = s.levels[side][p]
                                     /\ t.queue[side][p] = s.queue[side][p]
    <3>1. /\ t.levels[side] = Put(s.levels[side], price, new)
          /\ t.queue[side] = Put(s.queue[side], price, Put(queue, o.seq, id))
      BY <1>3 DEF new
    <3> DEFINE q == Put(queue, o.seq, id)
    <3> HIDE DEF q
    <3>2. t.queue[side] = Put(s.queue[side], price, q)
      BY <3>1 DEF q
    <3>3. /\ DOMAIN t.levels[side] = T /\ DOMAIN t.queue[side] = T
          /\ t.levels[side][price] = new
          /\ t.queue[side][price] = q
          /\ \A p \in S : p # price => /\ t.levels[side][p] = s.levels[side][p]
                                       /\ t.queue[side][p] = s.queue[side][p]
      BY ZenonT(40), <2>3, <2>4, <3>1, <3>2 DEF Put
    <3> QED BY Zenon, <3>3 DEF q
  <2>8. LevelGood(t, side, price)
    <3>1. \A x \in H : x \in DOMAIN s.orders /\ s.orders[x].seq # o.seq
      <4>1. \A x \in H : x \in DOMAIN s.orders
        BY DEF Here, Waiting
      <4> QED BY <1>1, <1>4, <4>1 DEF OrdersGood
    <3>2. DOMAIN t.queue[side][price] = {t.orders[x].seq : x \in J}
      <4>1. DOMAIN t.queue[side][price] = DOMAIN queue \cup {o.seq}
        BY <2>7 DEF Put
      <4>2. {t.orders[x].seq : x \in J} = {s.orders[x].seq : x \in H} \cup {o.seq}
        BY <1>1, <1>4, <3>1
      <4> QED BY <1>8, <4>1, <4>2
    <3>3. ASSUME NEW x \in J PROVE t.queue[side][price][t.orders[x].seq] = x
      <4>1. CASE x = id
        BY SMTT(30), <1>1, <2>7, <4>1 DEF Put
      <4>2. CASE x # id
        <5>1. x \in H /\ t.orders[x].seq = s.orders[x].seq
          BY <1>1, <1>4, <3>1, <4>2
        <5>2. /\ s.orders[x].seq \in DOMAIN queue /\ queue[s.orders[x].seq] = x
              /\ s.orders[x].seq # o.seq
          BY SMTT(30), <1>8, <3>1, <5>1
        <5> QED BY <2>7, <5>1, <5>2 DEF Put
      <4> QED BY ZenonT(40), <4>1, <4>2
    <3> QED BY Zenon, <2>6, <2>7, <3>2, <3>3 DEF LevelGood
  <2>9. \A p \in T : LevelGood(t, side, p)
    BY <1>10, <2>3, <2>5, <2>7, <2>8
  <2> QED BY <2>3, <2>4, <2>7, <2>9 DEF SideGood, T
<1>13. \A sd \in Sides : SideGood(t, sd)
  BY <1>11, <1>12
<1> QED BY <1>2, <1>12, <1>13 DEF BookGood

(* The trades of an order, and what they say is filled of it.               *)
TradesOf(s, id) == {i \in DOMAIN s.trades : id \in {s.trades[i].maker, s.trades[i].taker}}
Traded(s, id) == SumOver([i \in TradesOf(s, id) |-> s.trades[i].qty])

(* Order x comes after the maker for one who trades at the maker's price.   *)
Behind(s, x, maker, taker) ==
  \/ /\ s.orders[x].price = s.orders[maker].price
     /\ s.orders[x].seq > s.orders[maker].seq
  \/ /\ s.orders[x].price # s.orders[maker].price
     /\ SE!Crosses(s.orders[taker].side, s.orders[maker].price, s.orders[x].price)

(* A trade is within both limits, and passed over nobody who had priority.  *)
TradeGood(s, trade) ==
  /\ DOMAIN trade = {"price", "qty", "maker", "taker"} /\ trade.qty \in Nat
  /\ {trade.maker, trade.taker} \subseteq DOMAIN s.orders
  /\ s.orders[trade.maker].side # s.orders[trade.taker].side
  /\ trade.price = s.orders[trade.maker].price
  /\ SE!Crosses(s.orders[trade.taker].side, trade.price, s.orders[trade.taker].price)
  /\ \A x \in Waiting(s, s.orders[trade.maker].side) \ {trade.maker} :
       s.orders[x].seq < s.orders[trade.taker].seq => Behind(s, x, trade.maker, trade.taker)
TradesGood(s) ==
  /\ s.trades \in Seq({s.trades[i] : i \in DOMAIN s.trades})
  /\ \A i \in DOMAIN s.trades : TradeGood(s, s.trades[i])
  /\ \A id \in DOMAIN s.orders : s.orders[id].filled = Traded(s, id)

(* What holds of the book after every command, and after every trade.       *)
ExchangeGood(s) == OrdersGood(s) /\ BookGood(s) /\ Uncrossed(s) /\ TradesGood(s)

(* A trade stays as good as it was when nobody comes to wait before it.     *)
LEMMA TradeStays ==
  ASSUME NEW s, NEW t, NEW trade, TradeGood(s, trade),
         DOMAIN s.orders \subseteq DOMAIN t.orders,
         \A x \in DOMAIN s.orders :
           /\ t.orders[x].side = s.orders[x].side /\ t.orders[x].price = s.orders[x].price
           /\ t.orders[x].seq = s.orders[x].seq,
         \A side \in Sides : \A x \in Waiting(t, side) \ Waiting(s, side) :
           \A y \in DOMAIN s.orders : ~(t.orders[x].seq < s.orders[y].seq),
         OrdersGood(s)
  PROVE  TradeGood(t, trade)
<1> DEFINE maker == trade.maker
           taker == trade.taker
<1>1. /\ maker \in DOMAIN s.orders /\ taker \in DOMAIN s.orders
      /\ s.orders[maker].side \in Sides
  BY DEF TradeGood, OrdersGood, GoodOrder
<1>2. ASSUME NEW x \in Waiting(t, t.orders[maker].side) \ {maker},
             t.orders[x].seq < t.orders[taker].seq
      PROVE  Behind(t, x, maker, taker)
  <2>1. t.orders[x].seq < s.orders[taker].seq /\ t.orders[maker].side = s.orders[maker].side
    BY <1>1, <1>2
  <2>2. x \in Waiting(s, s.orders[maker].side)
    BY <1>1, <1>2, <2>1
  <2>3. x \in DOMAIN s.orders
    BY <2>2 DEF Waiting
  <2>4. Behind(s, x, maker, taker)
    BY <1>2, <2>1, <2>2, <2>3 DEF TradeGood
  <2> QED BY <1>1, <2>3, <2>4 DEF Behind
<1> QED BY <1>1, <1>2 DEF TradeGood

(* An order comes in with nothing filled, to be filled, left or cancelled.  *)
Arrived(s, t, id, o) ==
  /\ id \notin DOMAIN s.orders /\ t.orders = Put(s.orders, id, o)
  /\ GoodOrder(o) /\ o.filled = 0 /\ o.remaining = 0 /\ o.seq = s.nextSeq + 1
  /\ t.nextSeq = s.nextSeq + 1
  /\ t.levels = s.levels /\ t.queue = s.queue /\ t.trades = s.trades

(* That alone changes nothing for the others.                               *)
LEMMA ArrivalKeeps ==
  ASSUME NEW s, NEW t, ExchangeGood(s), NEW id, NEW o, Arrived(s, t, id, o)
  PROVE  ExchangeGood(t)
<1>1. /\ DOMAIN t.orders = DOMAIN s.orders \cup {id} /\ id \notin DOMAIN s.orders
      /\ t.orders[id] = o
      /\ \A x \in DOMAIN s.orders : t.orders[x] = s.orders[x]
  BY DEF Arrived, Put
<1>2. /\ GoodOrder(o) /\ o.filled = 0 /\ o.remaining = 0 /\ o.seq = s.nextSeq + 1
      /\ t.nextSeq = s.nextSeq + 1
      /\ t.levels = s.levels /\ t.queue = s.queue /\ t.trades = s.trades
  BY DEF Arrived
<1>3. OrdersGood(s) /\ s.nextSeq \in Nat
  BY DEF ExchangeGood, OrdersGood
<1>4. OrdersGood(t)
  <2>1. IsFiniteSet(DOMAIN t.orders)
    BY <1>1, FS_AddElement DEF ExchangeGood, OrdersGood
  <2>2. ASSUME NEW x \in DOMAIN t.orders
        PROVE  GoodOrder(t.orders[x]) /\ t.orders[x].seq \in 1..t.nextSeq
    <3>1. CASE x = id
      BY <1>1, <1>2, <1>3, <3>1
    <3>2. CASE x # id
      BY <1>1, <1>2, <1>3, <3>2 DEF OrdersGood
    <3> QED BY <3>1, <3>2
  <2>3. ASSUME NEW x \in DOMAIN t.orders, NEW y \in DOMAIN t.orders,
               t.orders[x].seq = t.orders[y].seq
        PROVE  x = y
    <3>1. \A z \in DOMAIN s.orders : s.orders[z].seq \in 1..s.nextSeq
      BY <1>3 DEF OrdersGood
    <3>2. \A z \in DOMAIN s.orders : s.orders[z].seq # s.nextSeq + 1
      BY <1>3, <3>1
    <3> QED BY <1>1, <1>2, <1>3, <2>3, <3>2 DEF OrdersGood
  <2> QED BY <1>2, <1>3, <2>1, <2>2, <2>3 DEF OrdersGood
<1>5. \A side : Waiting(t, side) = Waiting(s, side)
  BY <1>1, <1>2 DEF Waiting
<1>6. BookGood(t)
  <2>1. ASSUME NEW side, NEW price
        PROVE  Here(t, side, price) = Here(s, side, price) /\ Left(t, side, price) = Left(s, side, price)
    <3>1. Here(t, side, price) = Here(s, side, price)
      BY <1>1, <1>5 DEF Here, Waiting
    <3>2. \A x \in Here(s, side, price) : t.orders[x] = s.orders[x]
      BY <1>1 DEF Here, Waiting
    <3> QED BY <3>1, <3>2 DEF Left
  <2>2. ASSUME NEW side, NEW price, LevelGood(s, side, price) PROVE LevelGood(t, side, price)
    <3>1. \A x \in Here(s, side, price) : t.orders[x].seq = s.orders[x].seq
      BY <1>1 DEF Here, Waiting
    <3> QED BY <1>2, <2>1, <2>2, <3>1 DEF LevelGood
  <2>3. ASSUME NEW side, SideGood(s, side) PROVE SideGood(t, side)
    <3>1. {t.orders[x].price : x \in Waiting(t, side)} = {s.orders[x].price : x \in Waiting(s, side)}
      BY <1>1, <1>5 DEF Waiting
    <3> QED BY <1>2, <2>2, <2>3, <3>1 DEF SideGood
  <2> QED BY <1>2, <2>3 DEF ExchangeGood, BookGood
<1>7. Uncrossed(t)
  BY <1>2 DEF ExchangeGood, Uncrossed
<1>8. TradesGood(t)
  <2>1. \A i \in DOMAIN s.trades : TradeGood(t, s.trades[i])
    BY <1>1, <1>3, <1>5, TradeStays DEF ExchangeGood, TradesGood
  <2>2. \A x : Traded(t, x) = Traded(s, x)
    BY <1>2 DEF Traded, TradesOf
  <2>3. Traded(s, id) = 0
    <3>1. TradesOf(s, id) = {}
      BY <1>1 DEF TradesOf, ExchangeGood, TradesGood, TradeGood
    <3> QED BY <3>1, SumOfNone DEF Traded
  <2>4. ASSUME NEW x \in DOMAIN t.orders PROVE t.orders[x].filled = Traded(t, x)
    <3>1. CASE x = id
      BY <1>1, <1>2, <2>2, <2>3, <3>1
    <3>2. CASE x # id
      BY <1>1, <2>2, <3>2 DEF ExchangeGood, TradesGood
    <3> QED BY <3>1, <3>2
  <2> QED BY <1>2, <2>1, <2>4 DEF ExchangeGood, TradesGood
<1> QED BY <1>4, <1>6, <1>7, <1>8 DEF ExchangeGood

(* One order waits, or is cancelled, more or less than it was.              *)
Rebooked(s, t, id) ==
  /\ id \in DOMAIN s.orders /\ DOMAIN t.orders = DOMAIN s.orders
  /\ \A x \in DOMAIN s.orders : x # id => t.orders[x] = s.orders[x]
  /\ GoodOrder(t.orders[id])
  /\ t.orders[id].side = s.orders[id].side /\ t.orders[id].price = s.orders[id].price
  /\ t.orders[id].seq = s.orders[id].seq /\ t.orders[id].filled = s.orders[id].filled
  /\ t.trades = s.trades /\ t.nextSeq = s.nextSeq

(* The trades stay good when it has waited or is the last.                  *)
LEMMA RebookKeeps ==
  ASSUME NEW s, NEW t, NEW id, OrdersGood(s), TradesGood(s), Rebooked(s, t, id),
         s.orders[id].remaining > 0 \/ s.orders[id].seq = s.nextSeq
  PROVE  OrdersGood(t) /\ TradesGood(t)
<1>1. /\ id \in DOMAIN s.orders /\ DOMAIN t.orders = DOMAIN s.orders
      /\ \A x \in DOMAIN s.orders : x # id => t.orders[x] = s.orders[x]
      /\ GoodOrder(t.orders[id])
      /\ t.orders[id].side = s.orders[id].side /\ t.orders[id].price = s.orders[id].price
      /\ t.orders[id].seq = s.orders[id].seq /\ t.orders[id].filled = s.orders[id].filled
      /\ t.trades = s.trades /\ t.nextSeq = s.nextSeq
  BY DEF Rebooked
<1>2. \A x \in DOMAIN s.orders :
        /\ t.orders[x].side = s.orders[x].side /\ t.orders[x].price = s.orders[x].price
        /\ t.orders[x].seq = s.orders[x].seq /\ t.orders[x].filled = s.orders[x].filled
  BY <1>1
<1>3. OrdersGood(t)
  <2>1. \A x \in DOMAIN t.orders : GoodOrder(t.orders[x]) /\ t.orders[x].seq \in 1..t.nextSeq
    BY <1>1 DEF OrdersGood
  <2> QED BY <1>1, <1>2, <2>1 DEF OrdersGood
<1>4. ASSUME NEW side \in Sides, NEW x \in Waiting(t, side) \ Waiting(s, side),
             NEW y \in DOMAIN s.orders
      PROVE  ~(t.orders[x].seq < s.orders[y].seq)
  <2>1. x = id /\ t.orders[x].seq = s.nextSeq
    BY <1>1, <1>2 DEF Waiting
  <2>2. s.orders[y].seq <= s.nextSeq /\ s.orders[y].seq \in Nat /\ s.nextSeq \in Nat
    BY DEF OrdersGood
  <2> QED BY <2>1, <2>2
<1>5. \A i \in DOMAIN s.trades : TradeGood(t, s.trades[i])
  BY <1>1, <1>2, <1>4, TradeStays DEF TradesGood
<1>6. \A x : Traded(t, x) = Traded(s, x)
  BY <1>1 DEF Traded, TradesOf
<1>7. TradesGood(t)
  BY <1>1, <1>2, <1>5, <1>6 DEF TradesGood
<1> QED BY <1>3, <1>7

(* An order that waits is cancelled.                                        *)
Cancelled(s, t, id) ==
  /\ Taken(s, t, id, s.orders[id].remaining) /\ Rebooked(s, t, id)

(* The book is the better for it.                                           *)
LEMMA CancelKeeps ==
  ASSUME NEW s, NEW t, ExchangeGood(s), NEW id, Cancelled(s, t, id)
  PROVE  ExchangeGood(t)
<1>1. BookGood(t) /\ \A side \in Sides : DOMAIN t.levels[side] \subseteq DOMAIN s.levels[side]
  BY TakeKeepsBook DEF ExchangeGood, Cancelled
<1>2. s.orders[id].remaining > 0
  BY DEF Cancelled, Taken, ExchangeGood, OrdersGood, GoodOrder
<1>3. OrdersGood(t) /\ TradesGood(t)
  BY <1>2, RebookKeeps DEF ExchangeGood, Cancelled
<1>4. Uncrossed(t)
  BY <1>1 DEF ExchangeGood, Uncrossed, Sides
<1> QED BY <1>1, <1>3, <1>4 DEF ExchangeGood

(* What is left of the last order waits, when the other side does not cross.*)
Rested(s, t, id, left) ==
  /\ Joined(s, t, id, left) /\ Rebooked(s, t, id) /\ s.orders[id].seq = s.nextSeq
  /\ \A side \in Sides \ {s.orders[id].side} : \A price \in DOMAIN s.levels[side] :
       ~SE!Crosses(s.orders[id].side, price, s.orders[id].price)

(* Prices are numbers.                                                      *)
LEMMA PricesAreNumbers ==
  ASSUME NEW s, OrdersGood(s), BookGood(s)
  PROVE  /\ \A side \in Sides : DOMAIN s.levels[side] \subseteq Nat
         /\ \A side \in Sides : IsFiniteSet(DOMAIN s.levels[side])
<1>1. ASSUME NEW side \in Sides
      PROVE  DOMAIN s.levels[side] \subseteq Nat /\ IsFiniteSet(DOMAIN s.levels[side])
  <2> DEFINE W == Waiting(s, side)
             h == [x \in W |-> s.orders[x].price]
  <2>1. DOMAIN s.levels[side] = {s.orders[x].price : x \in W}
    BY DEF BookGood, SideGood
  <2>2. W \subseteq DOMAIN s.orders /\ IsFiniteSet(W)
    BY FS_Subset DEF Waiting, OrdersGood
  <2>3. \A x \in W : s.orders[x].price \in Nat
    BY <2>2 DEF OrdersGood, GoodOrder
  <2> HIDE DEF W
  <2>4. {h[x] : x \in W} = {s.orders[x].price : x \in W} /\ DOMAIN h = W
    OBVIOUS
  <2> HIDE DEF h
  <2>5. IsFiniteSet({h[x] : x \in W})
    BY <2>2, <2>4, NamedIsFinite
  <2> QED BY <2>1, <2>3, <2>4, <2>5
<1> QED BY <1>1

(* So the book still does not cross.                                        *)
LEMMA RestKeeps ==
  ASSUME NEW s, NEW t, ExchangeGood(s), NEW id, NEW left, Rested(s, t, id, left)
  PROVE  ExchangeGood(t)
<1> DEFINE side == s.orders[id].side
           price == s.orders[id].price
<1>1. /\ BookGood(t)
      /\ DOMAIN t.levels[side] = DOMAIN s.levels[side] \cup {price}
      /\ \A sd \in Sides \ {side} : t.levels[sd] = s.levels[sd]
  BY JoinKeepsBook DEF ExchangeGood, Rested
<1>2. OrdersGood(t) /\ TradesGood(t)
  BY RebookKeeps DEF ExchangeGood, Rested
<1>3. side \in Sides /\ price \in Nat
  BY DEF Rested, Rebooked, ExchangeGood, OrdersGood, GoodOrder
<1>4. \A sd \in Sides : DOMAIN s.levels[sd] \subseteq Nat
  BY PricesAreNumbers DEF ExchangeGood
<1>5. \A sd \in Sides \ {side} : \A p \in DOMAIN s.levels[sd] : ~SE!Crosses(side, p, price)
  BY DEF Rested
<1>6. Uncrossed(s)
  BY DEF ExchangeGood
<1> HIDE DEF side, price
<1>7. Uncrossed(t)
  <2>1. CASE side = "buy"
    <3>1. \A p \in DOMAIN s.levels["sell"] : price < p
      BY <1>3, <1>4, <1>5, <2>1 DEF SE!Crosses, Sides
    <3> QED BY <1>1, <1>6, <2>1, <3>1 DEF Uncrossed, Sides
  <2>2. CASE side = "sell"
    <3>1. \A p \in DOMAIN s.levels["buy"] : p < price
      BY <1>3, <1>4, <1>5, <2>2 DEF SE!Crosses, Sides
    <3> QED BY <1>1, <1>6, <2>2, <3>1 DEF Uncrossed, Sides
  <2> QED BY <1>3, <2>1, <2>2 DEF Sides
<1> QED BY <1>1, <1>2, <1>7 DEF ExchangeGood

(* Two orders trade: the one that waits gives of what is left of it, the    *)
(* other of what it would cancel.                                           *)
TradeMade(s, t, maker, taker, amount) ==
  /\ Taken(s, t, maker, amount)
  /\ taker \in DOMAIN s.orders /\ s.orders[taker].side # s.orders[maker].side
  /\ s.orders[taker].remaining = 0 /\ amount <= s.orders[taker].cancelled
  /\ SE!Crosses(s.orders[taker].side, s.orders[maker].price, s.orders[taker].price)
  /\ \A x \in Waiting(s, s.orders[maker].side) \ {maker} : Behind(s, x, maker, taker)
  /\ \A x \in DOMAIN s.orders \ {maker, taker} : t.orders[x] = s.orders[x]
  /\ \A x \in {maker, taker} :
       /\ DOMAIN t.orders[x] = DOMAIN s.orders[x] /\ t.orders[x].qty = s.orders[x].qty
       /\ t.orders[x].filled = s.orders[x].filled + amount
       /\ t.orders[x].cancelled = s.orders[x].cancelled - (IF x = taker THEN amount ELSE 0)
  /\ t.trades = Append(s.trades, [price |-> s.orders[maker].price, qty |-> amount,
                                  maker |-> maker, taker |-> taker])
  /\ t.nextSeq = s.nextSeq

(* A trade at the best price, with the first in its queue, keeps all of it. *)
LEMMA TradeKeeps ==
  ASSUME NEW s, NEW t, ExchangeGood(s), NEW maker, NEW taker, NEW amount,
         TradeMade(s, t, maker, taker, amount)
  PROVE  ExchangeGood(t)
<1> DEFINE row == [price |-> s.orders[maker].price, qty |-> amount,
                   maker |-> maker, taker |-> taker]
<1>1. BookGood(t) /\ \A side \in Sides : DOMAIN t.levels[side] \subseteq DOMAIN s.levels[side]
  BY TakeKeepsBook DEF ExchangeGood, TradeMade
<1>2. Uncrossed(t)
  BY <1>1 DEF ExchangeGood, Uncrossed, Sides
<1>3. /\ maker \in DOMAIN s.orders /\ taker \in DOMAIN s.orders /\ maker # taker
      /\ GoodOrder(s.orders[maker]) /\ GoodOrder(s.orders[taker])
      /\ s.orders[maker].side # s.orders[taker].side
      /\ amount \in Nat /\ amount <= s.orders[maker].remaining
      /\ s.orders[taker].remaining = 0 /\ amount <= s.orders[taker].cancelled
  <2>1. /\ maker \in DOMAIN s.orders /\ amount \in 1..s.orders[maker].remaining
        /\ taker \in DOMAIN s.orders /\ s.orders[maker].side # s.orders[taker].side
        /\ s.orders[taker].remaining = 0 /\ amount <= s.orders[taker].cancelled
    BY DEF TradeMade, Taken
  <2>2. GoodOrder(s.orders[maker]) /\ GoodOrder(s.orders[taker])
    BY <2>1 DEF ExchangeGood, OrdersGood
  <2>3. s.orders[maker].remaining \in Nat
    BY SMTT(30), <2>2 DEF GoodOrder
  <2> HIDE DEF row
  <2> QED BY <2>1, <2>2, <2>3
<1>4. /\ DOMAIN t.orders = DOMAIN s.orders /\ t.nextSeq = s.nextSeq
      /\ \A x \in DOMAIN s.orders :
           /\ t.orders[x].side = s.orders[x].side /\ t.orders[x].price = s.orders[x].price
           /\ t.orders[x].seq = s.orders[x].seq
           /\ x # maker => t.orders[x].remaining = s.orders[x].remaining
      /\ t.orders[maker].remaining = s.orders[maker].remaining - amount
      /\ \A x \in DOMAIN s.orders \ {maker, taker} : t.orders[x] = s.orders[x]
      /\ \A x \in {maker, taker} :
           /\ DOMAIN t.orders[x] = DOMAIN s.orders[x] /\ t.orders[x].qty = s.orders[x].qty
           /\ t.orders[x].filled = s.orders[x].filled + amount
           /\ t.orders[x].cancelled = s.orders[x].cancelled - (IF x = taker THEN amount ELSE 0)
  BY DEF TradeMade, Taken, Placed
<1>5. OrdersGood(t)
  <2>1. GoodOrder(t.orders[maker])
    <3>1. /\ t.orders[maker].side = s.orders[maker].side /\ t.orders[maker].price = s.orders[maker].price
          /\ t.orders[maker].seq = s.orders[maker].seq /\ t.orders[maker].qty = s.orders[maker].qty
          /\ t.orders[maker].filled = s.orders[maker].filled + amount
          /\ t.orders[maker].cancelled = s.orders[maker].cancelled - 0
          /\ DOMAIN t.orders[maker] = DOMAIN s.orders[maker]
          /\ t.orders[maker].remaining = s.orders[maker].remaining - amount
      BY <1>3, <1>4
    <3> QED BY <1>3, <3>1 DEF GoodOrder
  <2>2. GoodOrder(t.orders[taker])
    <3>1. /\ t.orders[taker].side = s.orders[taker].side /\ t.orders[taker].price = s.orders[taker].price
          /\ t.orders[taker].seq = s.orders[taker].seq /\ t.orders[taker].qty = s.orders[taker].qty
          /\ t.orders[taker].filled = s.orders[taker].filled + amount
          /\ t.orders[taker].cancelled = s.orders[taker].cancelled - amount
          /\ DOMAIN t.orders[taker] = DOMAIN s.orders[taker]
          /\ t.orders[taker].remaining = s.orders[taker].remaining
      BY <1>3, <1>4
    <3> QED BY <1>3, <3>1 DEF GoodOrder
  <2>3. \A x \in DOMAIN t.orders : GoodOrder(t.orders[x]) /\ t.orders[x].seq \in 1..t.nextSeq
    BY <1>4, <2>1, <2>2 DEF ExchangeGood, OrdersGood
  <2> QED BY <1>4, <2>3 DEF ExchangeGood, OrdersGood
<1>6. \A side : Waiting(t, side) \subseteq Waiting(s, side)
  BY <1>3, <1>4 DEF Waiting, GoodOrder
<1>7. TradeGood(t, row)
  <2>1. /\ DOMAIN row = {"price", "qty", "maker", "taker"} /\ row.qty = amount
        /\ row.maker = maker /\ row.taker = taker /\ row.price = s.orders[maker].price
    OBVIOUS
  <2> HIDE DEF row
  <2>2. SE!Crosses(t.orders[taker].side, row.price, t.orders[taker].price)
    BY <1>3, <1>4, <2>1 DEF TradeMade
  <2>3. ASSUME NEW x \in Waiting(t, t.orders[maker].side) \ {maker}
        PROVE  Behind(t, x, maker, taker)
    <3>1. x \in Waiting(s, s.orders[maker].side) \ {maker}
      BY <1>3, <1>4, <1>6
    <3>2. Behind(s, x, maker, taker) /\ x \in DOMAIN s.orders
      BY <3>1 DEF TradeMade, Waiting
    <3> QED BY <1>3, <1>4, <3>2 DEF Behind
  <2> QED BY <1>3, <1>4, <2>1, <2>2, <2>3 DEF TradeGood
<1>8. /\ IsFiniteSet(DOMAIN s.trades)
      /\ t.trades \in Seq({t.trades[i] : i \in DOMAIN t.trades})
      /\ \E n \in DOMAIN t.trades :
           /\ n \notin DOMAIN s.trades /\ DOMAIN t.trades = DOMAIN s.trades \cup {n}
           /\ t.trades[n] = row
           /\ \A i \in DOMAIN s.trades : t.trades[i] = s.trades[i]
  <2>1. OneLast(s.trades, t.trades, row)
    BY DEF OneLast, TradeMade, ExchangeGood, TradesGood
  <2> HIDE DEF row
  <2>2. Longer(s.trades, t.trades, row)
    BY <2>1, LastComes
  <2> QED BY <2>2 DEF Longer
<1>9. PICK n \in DOMAIN t.trades :
        /\ n \notin DOMAIN s.trades /\ DOMAIN t.trades = DOMAIN s.trades \cup {n}
        /\ t.trades[n] = row
        /\ \A i \in DOMAIN s.trades : t.trades[i] = s.trades[i]
  BY <1>8
<1>10. \A i \in DOMAIN t.trades : TradeGood(t, t.trades[i])
  <2>1. \A i \in DOMAIN s.trades : TradeGood(t, s.trades[i])
    BY <1>4, <1>6, TradeStays DEF ExchangeGood, TradesGood
  <2> HIDE DEF row
  <2> QED BY <1>7, <1>9, <2>1
<1>11. ASSUME NEW x \in DOMAIN s.orders
       PROVE  t.orders[x].filled = Traded(t, x)
  <2> DEFINE I == TradesOf(s, x)
             f == [i \in I |-> s.trades[i].qty]
             g == [i \in TradesOf(t, x) |-> t.trades[i].qty]
  <2>0. s.orders[x].filled = Traded(s, x) /\ s.orders[x].filled \in Nat
    BY DEF ExchangeGood, TradesGood, OrdersGood, GoodOrder
  <2>1. row.maker = maker /\ row.taker = taker /\ row.qty = amount
    OBVIOUS
  <2> HIDE DEF row
  <2>2. CASE x \notin {maker, taker}
    <3>1. TradesOf(t, x) = TradesOf(s, x)
      BY <1>9, <2>1, <2>2 DEF TradesOf
    <3>2. \A i \in TradesOf(s, x) : t.trades[i] = s.trades[i]
      BY <1>9 DEF TradesOf
    <3>3. Traded(t, x) = Traded(s, x)
      BY <3>1, <3>2 DEF Traded
    <3> QED BY <1>4, <2>0, <2>2, <3>3
  <2>3. CASE x \in {maker, taker}
    <3>1. TradesOf(t, x) = I \cup {n} /\ n \notin I /\ I \subseteq DOMAIN s.trades
      BY <1>9, <2>1, <2>3 DEF TradesOf
    <3>2. IsFiniteSet(I)
      BY <1>8, <3>1, FS_Subset
    <3>3. \A i \in I : s.trades[i].qty \in Nat /\ t.trades[i] = s.trades[i]
      BY <1>9, <3>1 DEF ExchangeGood, TradesGood, TradeGood
    <3> HIDE DEF I
    <3>4. g[n] = amount
      BY <1>9, <2>1, <3>1
    <3>5. f \in [I -> Int] /\ g \in [I \cup {n} -> Int] /\ \A i \in I : g[i] = f[i]
      BY <1>3, <3>1, <3>3, <3>4
    <3>6. OneMore(I, f, n, g)
      <4> HIDE DEF f, g
      <4> QED BY <3>1, <3>2, <3>5 DEF OneMore
    <3>7. Traded(s, x) = SumOver(f) /\ Traded(t, x) = SumOver(g)
      BY DEF Traded, I
    <3> HIDE DEF f, g
    <3>8. SumOver(g) = SumOver(f) + g[n]
      BY <3>6, SumPutIn
    <3>9. t.orders[x].filled = s.orders[x].filled + amount
      BY <1>4, <2>3
    <3> QED BY <2>0, <3>4, <3>7, <3>8, <3>9
  <2> QED BY <2>2, <2>3
<1>12. TradesGood(t)
  BY <1>4, <1>8, <1>10, <1>11 DEF TradesGood
<1> QED BY <1>1, <1>2, <1>5, <1>12 DEF ExchangeGood

-----------------------------------------------------------------------------
(* Matching, as the module does it.                                         *)

(* What clients send.                                                       *)
StockCommands == ModuleCommands["stock-exchange"]

(* The instance's operators are those of the books above.                   *)
LEMMA StockSums == \A f : SE!SumOver(f) = SumOver(f)
BY DEF SE!SumOver, SE!FoldFunction, SE!FoldFunctionOnSet, SE!MapThenFoldSet,
       SumOver, FoldFunction, FoldFunctionOnSet, MapThenFoldSet

(* What the stock exchange takes from the libraries.                        *)
LEMMA StockOperators ==
  /\ \A f, x, y : SE!Put(f, x, y) = Put(f, x, y)
  /\ \A f, x : SE!Without(f, x) = Dropped(f, x)
  /\ \A S : SE!Cardinality(S) = Cardinality(S)
  /\ SE!Opposite["buy"] = "sell" /\ SE!Opposite["sell"] = "buy"
<1>1. \A f, x, y : SE!Put(f, x, y) = Put(f, x, y)
  BY DEF SE!Put, Put
<1>2. \A f, x : SE!Without(f, x) = Dropped(f, x)
  BY DEF SE!Without, SE!Restrict, Dropped
<1>3. \A S : SE!Cardinality(S) = Cardinality(S)
  BY DEF SE!Cardinality, Cardinality
<1>4. SE!Opposite["buy"] = "sell" /\ SE!Opposite["sell"] = "buy"
  BY DEF SE!Opposite
<1> QED BY <1>1, <1>2, <1>3, <1>4

(* The match after n trades.                                                *)
BookSize == Cardinality(DOMAIN state.orders)
Start(c) ==
  [s |-> state, left |-> c.qty, path |-> <<"event", "replay", "init", "best", "cross">>]
After(c) ==
  CHOOSE after : after = [n \in 0..BookSize |->
    IF n = 0 THEN Start(c) ELSE SE!MatchOnce(after[n - 1], c)]

(* The matching is what that function gives at the end.                     *)
LEMMA MatchedIsAfter == \A c : SE!Matched(c) = After(c)[BookSize]
<1>1. SE!Cardinality(DOMAIN state.orders) = BookSize
  BY StockOperators DEF BookSize
<1> QED BY <1>1 DEF SE!Matched, After, Start

(* There is such a function: one trade more at a time.                      *)
LEMMA AfterRecurs ==
  ASSUME NEW c, BookSize \in Nat
  PROVE  /\ After(c)[0] = Start(c)
         /\ \A n \in 1..BookSize : After(c)[n] = SE!MatchOnce(After(c)[n - 1], c)
<1> DEFINE next(f, n) == IF n = 0 THEN Start(c) ELSE SE!MatchOnce(f[n - 1], c)
           solves(k, f) == f = [n \in 0..k |-> next(f, n)]
           G == {k \in Nat : \E f : solves(k, f)}
<1>1. 0 \in G
  <2>1. solves(0, [n \in 0..0 |-> Start(c)])
    OBVIOUS
  <2> HIDE DEF solves
  <2>2. \E f : solves(0, f)
    BY <2>1
  <2> QED BY <2>2
<1>2. ASSUME NEW k \in Nat, k \in G PROVE k + 1 \in G
  <2>1. PICK f : solves(k, f)
    BY <1>2
  <2> DEFINE g == [n \in 0..(k + 1) |-> next(f, n)]
  <2>2. \A n \in 0..k : g[n] = f[n]
    <3>1. \A n \in 0..k : n \in 0..(k + 1)
      OBVIOUS
    <3>2. f = [n \in 0..k |-> next(f, n)]
      BY <2>1
    <3> HIDE DEF next
    <3>3. \A n \in 0..k : f[n] = next(f, n)
      BY <3>2
    <3> QED BY <3>1, <3>3
  <2>3. \A n \in 0..(k + 1) : next(g, n) = next(f, n)
    <3>1. \A n \in 0..(k + 1) : n # 0 => n - 1 \in 0..k
      OBVIOUS
    <3> HIDE DEF g
    <3> QED BY <2>2, <3>1
  <2>4. g = [n \in 0..(k + 1) |-> next(g, n)]
    <3> DEFINE h == [n \in 0..(k + 1) |-> next(g, n)]
    <3>1. g = h
      <4>1. \A n \in 0..(k + 1) : g[n] = next(f, n)
        OBVIOUS
      <4>2. \A n \in 0..(k + 1) : h[n] = next(g, n)
        OBVIOUS
      <4>3. g = [n \in 0..(k + 1) |-> g[n]] /\ h = [n \in 0..(k + 1) |-> h[n]]
        OBVIOUS
      <4> HIDE DEF g, h, next
      <4> QED BY <2>3, <4>1, <4>2, <4>3
    <3> QED BY <3>1
  <2>5. \E h : solves(k + 1, h)
    <3>1. solves(k + 1, g)
      BY <2>4
    <3> HIDE DEF solves, g
    <3> QED BY <3>1
  <2> HIDE DEF solves
  <2> QED BY <2>5
<1> HIDE DEF G
<1>3. BookSize \in G
  BY <1>1, <1>2, InductionOnNat
<1>4. \E f : solves(BookSize, f)
  BY <1>3 DEF G
<1>5. After(c) = CHOOSE f : solves(BookSize, f)
  BY DEF After
<1>6. solves(BookSize, After(c))
  <2> HIDE DEF solves
  <2> QED BY <1>4, <1>5
<1> DEFINE F == After(c)
<1>7. F = [n \in 0..BookSize |-> next(F, n)]
  BY <1>6
<1> HIDE DEF F, next
<1>8. \A n \in 0..BookSize : F[n] = next(F, n)
  BY <1>7
<1>9. F[0] = Start(c)
  BY <1>8 DEF next
<1>10. \A n \in 1..BookSize : F[n] = SE!MatchOnce(F[n - 1], c)
  BY <1>8 DEF next
<1> QED BY <1>9, <1>10 DEF F

(* The fields of the exchange.                                              *)
StockFields == {"requests", "walk", "orders", "trades", "nextSeq", "levels", "queue"}

(* The book with the taker shown as if the rest of it were cancelled.       *)
Shown(m, c) ==
  [account |-> c.account, side |-> c.side, price |-> c.price, qty |-> c.qty,
   seq |-> m.s.nextSeq + 1, filled |-> c.qty - m.left, remaining |-> 0, cancelled |-> m.left]
Showing(m, c) ==
  [orders |-> Put(m.s.orders, c.rid, Shown(m, c)), nextSeq |-> m.s.nextSeq + 1,
   trades |-> m.s.trades, levels |-> m.s.levels, queue |-> m.s.queue]

(* What holds of a match after each trade.                                  *)
Underway(m, c) ==
  /\ DOMAIN m.s = StockFields
  /\ m.s.requests = state.requests /\ m.s.nextSeq = state.nextSeq
  /\ DOMAIN m.s.orders = DOMAIN state.orders
  /\ m.left \in Nat /\ m.left <= c.qty
  /\ ExchangeGood(Showing(m, c))

(* The smallest and the greatest that the code takes.                       *)
LEMMA StockLeast ==
  ASSUME NEW S \in SUBSET Nat, S # {}
  PROVE  SE!Min(S) \in S /\ \A n \in S : SE!Min(S) <= n
<1>1. \E m \in S : \A n \in S : m <= n
  BY LeastElement
<1> QED BY <1>1 DEF SE!Min

(* The greatest that the stock exchange takes is one.                       *)
LEMMA StockGreatest ==
  ASSUME NEW S \in SUBSET Nat, IsFiniteSet(S), S # {}
  PROVE  SE!Max(S) \in S /\ \A n \in S : n <= SE!Max(S)
<1>1. \E m \in S : \A n \in S : n <= m
  BY GreatestElement
<1>2. \E m \in S : \A n \in S : m >= n
  BY <1>1
<1> QED BY <1>2 DEF SE!Max

(* What a trade is made of: the other side, its best price, the queue there,*)
(* whose turn it is, and how much.                                          *)
OtherSide(c) == SE!Opposite[c.side]
Best(m, c) == SE!BestPrice(m.s, OtherSide(c))
QueueThere(m, c) == m.s.queue[OtherSide(c)][Best(m, c)]
Turn(m, c) == SE!QueueHead(QueueThere(m, c))
MakerOf(m, c) == QueueThere(m, c)[Turn(m, c)]
Amount(m, c) == SE!Min({m.left, m.s.orders[MakerOf(m, c)].remaining})

(* The taker is an order beside the others.                                 *)
LEMMA ShownBeside ==
  ASSUME NEW m, NEW c, Underway(m, c), c.rid \notin DOMAIN state.orders
  PROVE  LET s == Showing(m, c) IN
         /\ DOMAIN s.orders = DOMAIN m.s.orders \cup {c.rid}
         /\ s.orders[c.rid] = Shown(m, c)
         /\ \A x \in DOMAIN m.s.orders : x # c.rid /\ s.orders[x] = m.s.orders[x]
         /\ \A side : Waiting(s, side) = Waiting(m.s, side)
         /\ \A side, price : Here(s, side, price) = Here(m.s, side, price)
<1> DEFINE s == Showing(m, c)
<1>1. /\ DOMAIN s.orders = DOMAIN m.s.orders \cup {c.rid}
      /\ s.orders[c.rid] = Shown(m, c)
      /\ \A x \in DOMAIN m.s.orders : x # c.rid /\ s.orders[x] = m.s.orders[x]
  BY DEF Showing, Underway, Put
<1>2. s.orders[c.rid].remaining = 0
  BY <1>1 DEF Shown
<1> HIDE DEF s
<1>3. \A side : Waiting(s, side) = Waiting(m.s, side)
  BY <1>1, <1>2 DEF Waiting
<1>4. \A side, price : Here(s, side, price) = Here(m.s, side, price)
  BY <1>1, <1>3 DEF Here, Waiting
<1> QED BY <1>1, <1>3, <1>4 DEF s

(* The best price is one of the other side's, and none crosses but it does. *)
LEMMA BestIsBest ==
  ASSUME NEW m, NEW c \in StockCommands, Underway(m, c), c.type = "submit",
         DOMAIN m.s.levels[OtherSide(c)] # {}
  PROVE  /\ Best(m, c) \in DOMAIN m.s.levels[OtherSide(c)]
         /\ \A p \in DOMAIN m.s.levels[OtherSide(c)] : SE!Crosses(c.side, Best(m, c), p)
         /\ \A p \in DOMAIN m.s.levels[OtherSide(c)] :
              SE!Crosses(c.side, p, c.price) => SE!Crosses(c.side, Best(m, c), c.price)
<1>1. c.side \in Sides /\ c.price \in Nat
  BY StockAssumption DEF StockCommands, Sides
<1>2. /\ OtherSide(c) = IF c.side = "buy" THEN "sell" ELSE "buy"
      /\ OtherSide(c) \in Sides
  BY <1>1, StockOperators DEF OtherSide, Sides
<1> DEFINE P == DOMAIN m.s.levels[OtherSide(c)]
           s == Showing(m, c)
<1>3. P \subseteq Nat /\ IsFiniteSet(P)
  <2>1. OrdersGood(s) /\ BookGood(s)
    BY DEF Underway, ExchangeGood
  <2>2. s.levels = m.s.levels
    BY DEF Showing
  <2> HIDE DEF s
  <2> QED BY <1>2, <2>1, <2>2, PricesAreNumbers
<1>4. P # {}
  OBVIOUS
<1>5. Best(m, c) = IF c.side = "buy" THEN SE!Min(P) ELSE SE!Max(P)
  BY <1>1, <1>2 DEF Best, SE!BestPrice, Sides
<1> HIDE DEF P
<1>6. CASE c.side = "buy"
  <2>1. Best(m, c) \in P /\ \A p \in P : Best(m, c) <= p
    BY <1>3, <1>4, <1>5, <1>6, StockLeast
  <2> QED BY <1>1, <1>3, <1>6, <2>1 DEF SE!Crosses, P
<1>7. CASE c.side = "sell"
  <2>1. Best(m, c) \in P /\ \A p \in P : p <= Best(m, c)
    BY <1>3, <1>4, <1>5, <1>7, StockGreatest
  <2> QED BY <1>1, <1>3, <1>7, <2>1 DEF SE!Crosses, P
<1> QED BY <1>1, <1>6, <1>7 DEF Sides

(* Whose turn it is: the first of those who wait at the best price.         *)
Fair(m, c) ==
  /\ OtherSide(c) \in Sides /\ OtherSide(c) # c.side
  /\ SE!Crosses(c.side, Best(m, c), c.price)
  /\ Best(m, c) \in DOMAIN m.s.levels[OtherSide(c)]
  /\ MakerOf(m, c) \in Here(m.s, OtherSide(c), Best(m, c))
  /\ m.s.orders[MakerOf(m, c)].seq = Turn(m, c)
  /\ \A x \in Here(m.s, OtherSide(c), Best(m, c)) \ {MakerOf(m, c)} :
       m.s.orders[x].seq > Turn(m, c)
  /\ \A x \in Waiting(m.s, OtherSide(c)) :
       SE!Crosses(c.side, Best(m, c), m.s.orders[x].price)
  /\ Amount(m, c) \in 1..m.s.orders[MakerOf(m, c)].remaining /\ Amount(m, c) <= m.left
  /\ Amount(m, c) \in {m.left, m.s.orders[MakerOf(m, c)].remaining}
  /\ m.s.levels[OtherSide(c)][Best(m, c)] =
       [qty |-> Left(Showing(m, c), OtherSide(c), Best(m, c)),
        count |-> Cardinality(Here(m.s, OtherSide(c), Best(m, c)))]

(* An order that can match is matched with that one.                        *)
LEMMA MatchIsFair ==
  ASSUME NEW m, NEW c \in StockCommands, Underway(m, c), c.type = "submit",
         c.rid \notin DOMAIN state.orders, SE!CanMatch(m, c)
  PROVE  Fair(m, c)
<1> DEFINE s == Showing(m, c)
           opp == OtherSide(c)
           price == Best(m, c)
           queue == QueueThere(m, c)
           seq == Turn(m, c)
           id == MakerOf(m, c)
           H == Here(m.s, opp, price)
<1>1. c.side \in Sides /\ opp \in Sides /\ opp # c.side
  BY StockAssumption, StockOperators DEF StockCommands, Sides, OtherSide
<1>2. m.left > 0 /\ DOMAIN m.s.levels[opp] # {} /\ SE!Crosses(c.side, price, c.price)
  BY DEF SE!CanMatch, OtherSide, Best
<1>3. /\ price \in DOMAIN m.s.levels[opp]
      /\ \A p \in DOMAIN m.s.levels[opp] : SE!Crosses(c.side, price, p)
  BY <1>2, BestIsBest
<1>4. /\ s.levels = m.s.levels /\ s.queue = m.s.queue
      /\ Waiting(s, opp) = Waiting(m.s, opp) /\ Here(s, opp, price) = H
      /\ \A x \in DOMAIN m.s.orders : s.orders[x] = m.s.orders[x]
      /\ DOMAIN m.s.orders \subseteq DOMAIN s.orders
  <2>1. s.levels = m.s.levels /\ s.queue = m.s.queue
    BY DEF Showing
  <2> QED BY <2>1, ShownBeside
<1>5. OrdersGood(s) /\ SideGood(s, opp)
  BY <1>1 DEF Underway, ExchangeGood, BookGood
<1>6. LevelGood(s, opp, price)
  BY <1>3, <1>4, <1>5 DEF SideGood
<1>7. H \subseteq DOMAIN m.s.orders /\ H \subseteq Waiting(m.s, opp)
      /\ Waiting(m.s, opp) \subseteq DOMAIN m.s.orders
  BY DEF Here, Waiting
<1>8. /\ DOMAIN queue = {m.s.orders[x].seq : x \in H}
      /\ \A x \in H : queue[m.s.orders[x].seq] = x
      /\ m.s.levels[opp][price] = [qty |-> Left(s, opp, price), count |-> Cardinality(H)]
  <2>1. queue = s.queue[opp][price]
    BY <1>4 DEF QueueThere
  <2> HIDE DEF s, queue, H, opp, price
  <2> QED BY <1>4, <1>6, <1>7, <2>1 DEF LevelGood
<1>9. \A x \in DOMAIN m.s.orders : GoodOrder(m.s.orders[x])
  BY <1>4, <1>5 DEF OrdersGood
<1>10. \A x \in Waiting(m.s, opp) : SE!Crosses(c.side, price, m.s.orders[x].price)
  BY <1>3, <1>4, <1>5, <1>7 DEF SideGood
<1>11. H # {}
  BY <1>3, <1>4, <1>5 DEF SideGood, Here
<1>12. DOMAIN queue \in SUBSET Nat /\ DOMAIN queue # {}
  BY <1>7, <1>8, <1>9, <1>11 DEF GoodOrder
<1>13. seq \in DOMAIN queue /\ \A n \in DOMAIN queue : seq <= n
  <2>1. seq = SE!Min(DOMAIN queue)
    BY DEF Turn, SE!QueueHead
  <2> HIDE DEF seq, queue
  <2> QED BY <1>12, <2>1, StockLeast
<1>14. id = queue[seq]
  BY DEF MakerOf
<1> HIDE DEF s, opp, price, queue, seq, id, H
<1>15. id \in H /\ m.s.orders[id].seq = seq
  BY <1>8, <1>13, <1>14
<1>16. \A x \in H \ {id} : m.s.orders[x].seq > seq
  <2>1. ASSUME NEW x \in H \ {id} PROVE m.s.orders[x].seq > seq
    <3>1. m.s.orders[x].seq \in DOMAIN queue /\ queue[m.s.orders[x].seq] = x
      BY <1>8
    <3>2. m.s.orders[x].seq # seq
      BY <1>14, <3>1
    <3>3. seq \in Nat /\ m.s.orders[x].seq \in Nat /\ seq <= m.s.orders[x].seq
      BY <1>12, <1>13, <3>1
    <3> QED BY <3>2, <3>3
  <2> QED BY <2>1
<1>17. m.s.orders[id].remaining \in Nat /\ m.s.orders[id].remaining > 0
  <2>1. id \in Waiting(m.s, opp) /\ id \in DOMAIN m.s.orders
    BY <1>7, <1>15
  <2> QED BY <1>9, <2>1 DEF Waiting, GoodOrder
<1> DEFINE amount == SE!Min({m.left, m.s.orders[id].remaining})
<1>18. amount \in 1..m.s.orders[id].remaining /\ amount <= m.left
       /\ amount \in {m.left, m.s.orders[id].remaining}
  <2> DEFINE S == {m.left, m.s.orders[id].remaining}
  <2>1. S \in SUBSET Nat /\ S # {}
    BY <1>17 DEF Underway
  <2> HIDE DEF S
  <2>2. SE!Min(S) \in S /\ \A n \in S : SE!Min(S) <= n
    BY <2>1, StockLeast
  <2> HIDE DEF amount
  <2>3. amount = SE!Min(S)
    BY DEF amount, S
  <2>4. amount \in {m.left, m.s.orders[id].remaining} /\ amount <= m.left
        /\ amount <= m.s.orders[id].remaining
    BY <2>2, <2>3 DEF S
  <2>5. m.left \in Nat
    BY DEF Underway
  <2> QED BY <1>2, <1>17, <2>4, <2>5
<1>19. amount = Amount(m, c)
  BY SMTT(30) DEF Amount, id
<1> HIDE DEF amount
<1> QED BY <1>1, <1>2, <1>3, <1>8, <1>10, <1>15, <1>16, <1>18, <1>19
        DEF Fair, s, opp, price, seq, id, H

(* What a trade makes of the book, field by field.                          *)
TradedOnce(m, t, c) ==
  LET opp == OtherSide(c)
      price == Best(m, c)
      id == MakerOf(m, c)
      amount == Amount(m, c)
      level == m.s.levels[opp][price]
      all == amount = m.s.orders[id].remaining IN
  /\ t.left = m.left - amount
  /\ DOMAIN t.s = DOMAIN m.s
  /\ t.s.requests = m.s.requests /\ t.s.nextSeq = m.s.nextSeq
  /\ t.s.trades = Append(m.s.trades, [price |-> price, qty |-> amount,
                                      maker |-> id, taker |-> c.rid])
  /\ DOMAIN t.s.orders = DOMAIN m.s.orders
  /\ \A x \in DOMAIN m.s.orders : x # id => t.s.orders[x] = m.s.orders[x]
  /\ t.s.orders[id] = [m.s.orders[id] EXCEPT !.filled = @ + amount, !.remaining = @ - amount]
  /\ t.s.queue = [m.s.queue EXCEPT ![opp] =
       IF amount = level.qty THEN Dropped(@, price)
       ELSE IF all THEN [@ EXCEPT ![price] = Dropped(QueueThere(m, c), Turn(m, c))] ELSE @]
  /\ t.s.levels = [m.s.levels EXCEPT ![opp] =
       IF amount = level.qty THEN Dropped(@, price)
       ELSE [@ EXCEPT ![price] = [qty |-> level.qty - amount,
                                  count |-> level.count - (IF all THEN 1 ELSE 0)]]]

(* That is what the code makes of it.                                       *)
LEMMA MatchMakes ==
  ASSUME NEW m, NEW c, DOMAIN m.s = StockFields, SE!CanMatch(m, c),
         MakerOf(m, c) \in DOMAIN m.s.orders,
         {"filled", "remaining"} \subseteq DOMAIN m.s.orders[MakerOf(m, c)]
  PROVE  TradedOnce(m, SE!MatchOnce(m, c), c)
<1> DEFINE opp == OtherSide(c)
           price == Best(m, c)
           queue == QueueThere(m, c)
           seq == Turn(m, c)
           id == MakerOf(m, c)
           amount == Amount(m, c)
           level == m.s.levels[opp][price]
           all == amount = m.s.orders[id].remaining
           levels == [m.s.levels EXCEPT ![opp] =
             IF amount = level.qty THEN Dropped(@, price)
             ELSE [@ EXCEPT ![price] = [qty |-> level.qty - amount,
                                        count |-> level.count - (IF all THEN 1 ELSE 0)]]]
           queues == [m.s.queue EXCEPT ![opp] =
             IF amount = level.qty THEN Dropped(@, price)
             ELSE IF all THEN [@ EXCEPT ![price] = Dropped(queue, seq)] ELSE @]
           trade == [price |-> price, qty |-> amount, maker |-> id, taker |-> c.rid]
           s == [m.s EXCEPT !.trades = Append(@, trade),
                            !.orders[id].filled = @ + amount,
                            !.orders[id].remaining = @ - amount,
                            !.queue[opp] =
                              IF amount = level.qty THEN Dropped(@, price)
                              ELSE IF all THEN [@ EXCEPT ![price] = Dropped(queue, seq)] ELSE @,
                            !.levels[opp] =
                              IF amount = level.qty THEN Dropped(@, price)
                              ELSE [@ EXCEPT ![price] = [qty |-> level.qty - amount,
                                               count |-> level.count - (IF all THEN 1 ELSE 0)]]]
<1>1. SE!MatchOnce(m, c).left = m.left - amount /\ SE!MatchOnce(m, c).s = s
  <2>1. \A f, x : SE!Without(f, x) = Dropped(f, x)
    BY StockOperators
  <2> QED BY Zenon, <2>1 DEF SE!MatchOnce, OtherSide, Best, QueueThere, Turn, MakerOf, Amount
<1> HIDE DEF opp, price, queue, seq, id, amount, level, all, trade
<1>2. /\ DOMAIN s = DOMAIN m.s /\ s.requests = m.s.requests /\ s.nextSeq = m.s.nextSeq
      /\ s.trades = Append(m.s.trades, trade)
      /\ s.queue = queues /\ s.levels = levels
  BY DEF StockFields
<1>3. s.orders = [[m.s.orders EXCEPT ![id].filled = @ + amount]
                    EXCEPT ![id].remaining = @ - amount]
  BY DEF StockFields
<1>4. id \in DOMAIN m.s.orders /\ {"filled", "remaining"} \subseteq DOMAIN m.s.orders[id]
  BY SMTT(30) DEF id
<1> HIDE DEF s, queues, levels
<1>5. /\ DOMAIN s.orders = DOMAIN m.s.orders
      /\ \A x \in DOMAIN m.s.orders : x # id => s.orders[x] = m.s.orders[x]
      /\ s.orders[id] = [m.s.orders[id] EXCEPT !.filled = @ + amount, !.remaining = @ - amount]
  BY <1>3, <1>4
<1> QED BY <1>1, <1>2, <1>5
        DEF TradedOnce, opp, price, queue, seq, id, amount, level, all, trade, queues, levels

(* So the book that shows the taker has one trade more.                     *)
LEMMA MatchTrades ==
  ASSUME NEW m, NEW c \in StockCommands, Underway(m, c), c.type = "submit",
         c.rid \notin DOMAIN state.orders, Fair(m, c), NEW t, TradedOnce(m, t, c)
  PROVE  TradeMade(Showing(m, c), Showing(t, c), MakerOf(m, c), c.rid, Amount(m, c))
<1> DEFINE s == Showing(m, c)
           r == Showing(t, c)
           opp == OtherSide(c)
           price == Best(m, c)
           id == MakerOf(m, c)
           amount == Amount(m, c)
           level == m.s.levels[opp][price]
           all == amount = m.s.orders[id].remaining
           taker == Shown(m, c)
           later == Shown(t, c)
<1>1. /\ opp \in Sides /\ opp # c.side /\ SE!Crosses(c.side, price, c.price)
      /\ price \in DOMAIN m.s.levels[opp]
      /\ id \in Here(m.s, opp, price) /\ m.s.orders[id].seq = Turn(m, c)
      /\ \A x \in Here(m.s, opp, price) \ {id} : m.s.orders[x].seq > Turn(m, c)
      /\ \A x \in Waiting(m.s, opp) : SE!Crosses(c.side, price, m.s.orders[x].price)
      /\ amount \in 1..m.s.orders[id].remaining /\ amount <= m.left
  BY DEF Fair
<1>2. /\ DOMAIN s.orders = DOMAIN m.s.orders \cup {c.rid} /\ s.orders[c.rid] = taker
      /\ \A x \in DOMAIN m.s.orders : x # c.rid /\ s.orders[x] = m.s.orders[x]
      /\ \A side : Waiting(s, side) = Waiting(m.s, side)
  BY ShownBeside
<1>3. /\ s.levels = m.s.levels /\ s.queue = m.s.queue /\ s.trades = m.s.trades
      /\ s.nextSeq = m.s.nextSeq + 1
      /\ r.levels = t.s.levels /\ r.queue = t.s.queue /\ r.trades = t.s.trades
      /\ r.nextSeq = t.s.nextSeq + 1
  BY DEF Showing
<1>4. /\ DOMAIN r.orders = DOMAIN t.s.orders \cup {c.rid} /\ r.orders[c.rid] = later
      /\ \A x \in DOMAIN t.s.orders : x # c.rid => r.orders[x] = t.s.orders[x]
  BY SMTT(30) DEF Showing, Put
<1>5. /\ t.left = m.left - amount /\ t.s.nextSeq = m.s.nextSeq
      /\ t.s.trades = Append(m.s.trades, [price |-> price, qty |-> amount,
                                          maker |-> id, taker |-> c.rid])
      /\ DOMAIN t.s.orders = DOMAIN m.s.orders
      /\ \A x \in DOMAIN m.s.orders : x # id => t.s.orders[x] = m.s.orders[x]
      /\ t.s.orders[id] = [m.s.orders[id] EXCEPT !.filled = @ + amount, !.remaining = @ - amount]
      /\ t.s.queue = [m.s.queue EXCEPT ![opp] =
           IF amount = level.qty THEN Dropped(@, price)
           ELSE IF all THEN [@ EXCEPT ![price] = Dropped(m.s.queue[opp][price], m.s.orders[id].seq)]
           ELSE @]
      /\ t.s.levels = [m.s.levels EXCEPT ![opp] =
           IF amount = level.qty THEN Dropped(@, price)
           ELSE [@ EXCEPT ![price] = [qty |-> level.qty - amount,
                                      count |-> level.count - (IF all THEN 1 ELSE 0)]]]
  <2>1. QueueThere(m, c) = m.s.queue[opp][price]
    BY DEF QueueThere
  <2>2. m.s.orders[id].seq = Turn(m, c)
    BY <1>1
  <2> QED BY <2>1, <2>2 DEF TradedOnce
<1>6. /\ taker.side = c.side /\ taker.price = c.price /\ taker.seq = m.s.nextSeq + 1
      /\ taker.qty = c.qty /\ taker.filled = c.qty - m.left
      /\ taker.remaining = 0 /\ taker.cancelled = m.left
      /\ later.side = c.side /\ later.price = c.price /\ later.seq = t.s.nextSeq + 1
      /\ later.qty = c.qty /\ later.filled = c.qty - t.left
      /\ later.remaining = 0 /\ later.cancelled = t.left
      /\ DOMAIN later = DOMAIN taker
  BY DEF Shown
<1>7. /\ id \in DOMAIN m.s.orders /\ GoodOrder(m.s.orders[id])
      /\ m.s.orders[id].side = opp /\ m.s.orders[id].price = price
      /\ m.s.orders[id].remaining > 0 /\ id # c.rid
  <2>1. id \in DOMAIN m.s.orders /\ m.s.orders[id].side = opp /\ m.s.orders[id].price = price
        /\ m.s.orders[id].remaining > 0
    BY <1>1 DEF Here, Waiting
  <2>2. OrdersGood(s)
    BY DEF Underway, ExchangeGood
  <2> HIDE DEF s
  <2> QED BY <1>2, <2>1, <2>2 DEF OrdersGood
<1>8. DOMAIN s.levels = Sides /\ DOMAIN s.queue = Sides
  BY DEF Underway, ExchangeGood, BookGood
<1>9. m.left \in Nat /\ c.qty \in Nat /\ m.left <= c.qty /\ amount \in Nat
  BY <1>1, StockAssumption DEF Underway, StockCommands
<1> HIDE DEF s, r, opp, price, id, amount, taker, later
<1>10. /\ r.orders[id] = [s.orders[id] EXCEPT !.filled = @ + amount, !.remaining = @ - amount]
       /\ \A x \in DOMAIN m.s.orders : x # id => r.orders[x] = s.orders[x]
       /\ DOMAIN r.orders = DOMAIN s.orders
  BY ZenonT(40), <1>2, <1>4, <1>5, <1>7
<1>11. /\ DOMAIN r.orders[id] = DOMAIN s.orders[id]
       /\ r.orders[id].side = s.orders[id].side /\ r.orders[id].price = s.orders[id].price
       /\ r.orders[id].seq = s.orders[id].seq /\ r.orders[id].qty = s.orders[id].qty
       /\ r.orders[id].filled = s.orders[id].filled + amount
       /\ r.orders[id].cancelled = s.orders[id].cancelled
       /\ r.orders[id].remaining = s.orders[id].remaining - amount
  <2>1. DOMAIN s.orders[id] = {"account", "side", "price", "qty", "seq", "filled", "remaining",
                               "cancelled"}
    BY <1>2, <1>7 DEF GoodOrder
  <2> QED BY <1>10, <2>1
<1>12. \A x \in DOMAIN s.orders : /\ r.orders[x].side = s.orders[x].side
                                 /\ r.orders[x].price = s.orders[x].price
                                 /\ r.orders[x].seq = s.orders[x].seq
  BY ZenonT(40), <1>2, <1>4, <1>5, <1>6, <1>10, <1>11
<1>13. LevelTaken(s, r, opp, price, s.orders[id].seq, amount, amount = s.orders[id].remaining)
  <2>1. s.orders[id] = m.s.orders[id]
    BY <1>2, <1>7
  <2> DEFINE cond == amount = m.s.orders[id].remaining
             lv == [qty |-> level.qty - amount, count |-> level.count - (IF cond THEN 1 ELSE 0)]
             q == Dropped(m.s.queue[opp][price], m.s.orders[id].seq)
  <2>2. /\ r.queue = [s.queue EXCEPT ![opp] =
             IF amount = level.qty THEN Dropped(@, price)
             ELSE IF cond THEN [@ EXCEPT ![price] = q] ELSE @]
        /\ r.levels = [s.levels EXCEPT ![opp] =
             IF amount = level.qty THEN Dropped(@, price) ELSE [@ EXCEPT ![price] = lv]]
    BY <1>3, <1>5
  <2> HIDE DEF lv, q, level, cond
  <2>3. /\ DOMAIN r.levels = Sides /\ DOMAIN r.queue = Sides
        /\ \A other \in Sides \ {opp} : /\ r.levels[other] = s.levels[other]
                                       /\ r.queue[other] = s.queue[other]
    BY <1>8, <2>2
  <2>4. /\ r.queue[opp] = IF amount = level.qty THEN Dropped(s.queue[opp], price)
                          ELSE IF cond THEN [s.queue[opp] EXCEPT ![price] = q] ELSE s.queue[opp]
        /\ r.levels[opp] = IF amount = level.qty THEN Dropped(s.levels[opp], price)
                           ELSE [s.levels[opp] EXCEPT ![price] = lv]
    BY <1>1, <1>8, <2>2
  <2> QED BY <1>3, <2>1, <2>3, <2>4 DEF LevelTaken, lv, q, level, cond
<1>14. Taken(s, r, id, amount)
  <2>1. Placed(s, r)
    BY <1>10, <1>12 DEF Placed
  <2>2. \A x \in DOMAIN s.orders : x # id => r.orders[x].remaining = s.orders[x].remaining
    BY <1>2, <1>4, <1>6, <1>10
  <2>3. s.orders[id].side = opp /\ s.orders[id].price = price /\ id \in DOMAIN s.orders
        /\ s.orders[id].remaining = m.s.orders[id].remaining
    BY <1>2, <1>7
  <2> QED BY <1>1, <1>11, <1>13, <2>1, <2>2, <2>3 DEF Taken
<1>15. \A x \in Waiting(s, s.orders[id].side) \ {id} : Behind(s, x, id, c.rid)
  <2> SUFFICES ASSUME NEW x \in Waiting(s, s.orders[id].side) \ {id}
               PROVE  Behind(s, x, id, c.rid)
    OBVIOUS
  <2>1. x \in Waiting(m.s, opp) /\ x \in DOMAIN m.s.orders
    BY <1>2, <1>7 DEF Waiting
  <2>2. s.orders[x] = m.s.orders[x] /\ s.orders[id] = m.s.orders[id]
        /\ s.orders[c.rid].side = c.side
    BY <1>2, <1>6, <1>7, <2>1
  <2>3. CASE m.s.orders[x].price = price
    <3>1. x \in Here(m.s, opp, price) \ {id}
      BY <2>1, <2>3 DEF Here
    <3> QED BY <1>1, <1>7, <2>2, <2>3, <3>1 DEF Behind
  <2>4. CASE m.s.orders[x].price # price
    BY <1>1, <1>7, <2>1, <2>2, <2>4 DEF Behind
  <2> QED BY <2>3, <2>4
<1>16. \A x \in DOMAIN s.orders \ {id, c.rid} : r.orders[x] = s.orders[x]
  BY SMTT(30), <1>2, <1>10
<1>17. /\ DOMAIN r.orders[c.rid] = DOMAIN s.orders[c.rid]
       /\ r.orders[c.rid].qty = s.orders[c.rid].qty
       /\ r.orders[c.rid].filled = s.orders[c.rid].filled + amount
       /\ r.orders[c.rid].cancelled = s.orders[c.rid].cancelled - amount
  BY <1>2, <1>4, <1>5, <1>6, <1>9
<1>18. s.orders[id].cancelled \in Int
  BY SMTT(30), <1>2, <1>7 DEF GoodOrder
<1>19. r.trades = Append(s.trades, [price |-> s.orders[id].price, qty |-> amount,
                                    maker |-> id, taker |-> c.rid])
       /\ r.nextSeq = s.nextSeq
  BY <1>2, <1>3, <1>5, <1>7
<1>20. /\ c.rid \in DOMAIN s.orders /\ s.orders[c.rid].side # s.orders[id].side
       /\ s.orders[c.rid].remaining = 0 /\ amount <= s.orders[c.rid].cancelled
       /\ SE!Crosses(s.orders[c.rid].side, s.orders[id].price, s.orders[c.rid].price)
  BY <1>1, <1>2, <1>6, <1>7
<1>21. \A x \in {id, c.rid} :
         /\ DOMAIN r.orders[x] = DOMAIN s.orders[x] /\ r.orders[x].qty = s.orders[x].qty
         /\ r.orders[x].filled = s.orders[x].filled + amount
         /\ r.orders[x].cancelled = s.orders[x].cancelled - (IF x = c.rid THEN amount ELSE 0)
  BY <1>7, <1>11, <1>17, <1>18
<1>22. TradeMade(s, r, id, c.rid, amount)
  BY <1>14, <1>15, <1>16, <1>19, <1>20, <1>21 DEF TradeMade
<1> QED BY <1>22 DEF s, r, id, amount

(* A match stays a match, with fewer who could be matched or nothing left.  *)
Lasts(m, c) == IF m.left = 0 THEN 0 ELSE Cardinality(Waiting(m.s, OtherSide(c)))
LEMMA MatchGoesOn ==
  ASSUME NEW m, NEW c \in StockCommands, Underway(m, c), c.type = "submit",
         c.rid \notin DOMAIN state.orders, SE!CanMatch(m, c)
  PROVE  /\ Underway(SE!MatchOnce(m, c), c)
         /\ Lasts(m, c) \in Nat /\ Lasts(SE!MatchOnce(m, c), c) \in Nat
         /\ Lasts(SE!MatchOnce(m, c), c) < Lasts(m, c)
<1> DEFINE t == SE!MatchOnce(m, c)
           opp == OtherSide(c)
           id == MakerOf(m, c)
           amount == Amount(m, c)
           W == Waiting(m.s, opp)
           V == Waiting(t.s, opp)
<1>1. Fair(m, c)
  BY MatchIsFair
<1>2. /\ opp \in Sides /\ opp # c.side
      /\ id \in Here(m.s, opp, Best(m, c))
      /\ amount \in 1..m.s.orders[id].remaining /\ amount <= m.left
      /\ amount \in {m.left, m.s.orders[id].remaining}
  BY <1>1 DEF Fair
<1>3. id \in W /\ id \in DOMAIN m.s.orders /\ m.s.orders[id].side = opp
  BY <1>2 DEF Here, Waiting
<1>4. /\ DOMAIN m.s = StockFields /\ m.s.requests = state.requests
      /\ m.s.nextSeq = state.nextSeq /\ DOMAIN m.s.orders = DOMAIN state.orders
      /\ m.left \in Nat /\ m.left <= c.qty /\ ExchangeGood(Showing(m, c))
      /\ IsFiniteSet(DOMAIN m.s.orders) /\ GoodOrder(m.s.orders[id])
  <2>1. OrdersGood(Showing(m, c))
    BY DEF Underway, ExchangeGood
  <2>2. /\ DOMAIN Showing(m, c).orders = DOMAIN m.s.orders \cup {c.rid}
        /\ \A x \in DOMAIN m.s.orders : Showing(m, c).orders[x] = m.s.orders[x]
    BY ShownBeside
  <2>3. IsFiniteSet(DOMAIN m.s.orders)
    BY <2>1, <2>2, FS_Subset DEF OrdersGood
  <2> QED BY <1>3, <2>1, <2>2, <2>3 DEF Underway, OrdersGood
<1>5. TradedOnce(m, t, c)
  <2>1. {"filled", "remaining"} \subseteq DOMAIN m.s.orders[id]
    BY <1>4 DEF GoodOrder
  <2> HIDE DEF t
  <2>2. TradedOnce(m, SE!MatchOnce(m, c), c)
    BY <1>3, <1>4, <2>1, MatchMakes
  <2> QED BY <2>2 DEF t
<1> HIDE DEF t
<1>6. TradeMade(Showing(m, c), Showing(t, c), id, c.rid, amount)
  BY <1>1, <1>5, MatchTrades
<1>7. ExchangeGood(Showing(t, c))
  BY SMTT(30), <1>4, <1>6, TradeKeeps
<1>8. /\ t.left = m.left - amount /\ DOMAIN t.s = DOMAIN m.s
      /\ t.s.requests = m.s.requests /\ t.s.nextSeq = m.s.nextSeq
      /\ DOMAIN t.s.orders = DOMAIN m.s.orders
      /\ \A x \in DOMAIN m.s.orders : x # id => t.s.orders[x] = m.s.orders[x]
      /\ t.s.orders[id] = [m.s.orders[id] EXCEPT !.filled = @ + amount, !.remaining = @ - amount]
  BY <1>5 DEF TradedOnce
<1> HIDE DEF opp, id, amount
<1>9. Underway(t, c)
  <2>1. m.s.orders[id].remaining \in Nat
    BY <1>4 DEF GoodOrder
  <2>2. c.qty \in Nat
    BY StockAssumption DEF StockCommands
  <2>3. t.left \in Nat /\ t.left <= c.qty
    BY <1>2, <1>4, <1>8, <2>1, <2>2
  <2> QED BY <1>4, <1>7, <1>8, <2>3 DEF Underway
<1>10. IsFiniteSet(W) /\ Cardinality(W) \in Nat /\ Cardinality(W \ {id}) = Cardinality(W) - 1
       /\ Cardinality(W \ {id}) \in Nat
  <2>1. IsFiniteSet(W)
    BY <1>4, FS_Subset DEF Waiting
  <2> HIDE DEF W
  <2>2. Cardinality(W \ {id}) = Cardinality(W) - 1 /\ IsFiniteSet(W \ {id})
    BY <1>3, <2>1, FS_RemoveElement
  <2> QED BY <2>1, <2>2, FS_CardinalityType
<1>11. CASE t.left = 0
  <2>1. m.left > 0
    BY DEF SE!CanMatch
  <2>2. Cardinality(W) > 0
    BY <1>10
  <2> QED BY <1>9, <1>10, <1>11, <2>1, <2>2 DEF Lasts, opp, t
<1>12. CASE t.left # 0
  <2>1. amount = m.s.orders[id].remaining
    BY <1>2, <1>4, <1>8, <1>12
  <2>2. t.s.orders[id].remaining = 0
    BY <1>4, <1>8, <2>1 DEF GoodOrder
  <2>3. V = W \ {id}
    <3>1. \A x : x # id => (x \in V <=> x \in W)
      BY <1>8 DEF Waiting
    <3>2. id \notin V
      BY <2>2 DEF Waiting
    <3> HIDE DEF V, W
    <3> QED BY <3>1, <3>2
  <2>4. m.left # 0
    BY DEF SE!CanMatch
  <2> QED BY <1>9, <1>10, <1>12, <2>3, <2>4 DEF Lasts, opp, t
<1> QED BY <1>11, <1>12

(* The inductive invariant of the exchange.                                 *)
StockInv ==
  /\ DOMAIN state = StockFields /\ DOMAIN state.orders \subseteq DOMAIN state.requests
  /\ ExchangeGood(state)

(* What the book is good for is in five of its fields.                      *)
SameBook(s, t) ==
  /\ t.orders = s.orders /\ t.trades = s.trades /\ t.nextSeq = s.nextSeq
  /\ t.levels = s.levels /\ t.queue = s.queue

(* Whatever leaves the book alone keeps it good.                            *)
LEMMA SameBookKeeps ==
  ASSUME NEW s, NEW t, ExchangeGood(s), SameBook(s, t)
  PROVE  ExchangeGood(t)
<1>1. /\ t.orders = s.orders /\ t.trades = s.trades /\ t.nextSeq = s.nextSeq
      /\ t.levels = s.levels /\ t.queue = s.queue
  BY DEF SameBook
<1>2. \A side : Waiting(t, side) = Waiting(s, side)
  BY <1>1 DEF Waiting
<1>3. \A side, price : Here(t, side, price) = Here(s, side, price)
  BY <1>1, <1>2 DEF Here
<1>4. \A side, price : Left(t, side, price) = Left(s, side, price)
  BY <1>1, <1>3 DEF Left
<1>5. BookGood(t)
  <2>1. ASSUME NEW side, NEW price, LevelGood(s, side, price) PROVE LevelGood(t, side, price)
    BY <1>1, <1>3, <1>4, <2>1 DEF LevelGood
  <2>2. ASSUME NEW side, SideGood(s, side) PROVE SideGood(t, side)
    BY <1>1, <1>2, <2>1, <2>2 DEF SideGood
  <2> QED BY <1>1, <2>2 DEF ExchangeGood, BookGood
<1>6. OrdersGood(t)
  BY <1>1 DEF ExchangeGood, OrdersGood
<1>7. Uncrossed(t)
  BY <1>1 DEF ExchangeGood, Uncrossed
<1>8. TradesGood(t)
  <2>1. \A id : Traded(t, id) = Traded(s, id)
    BY <1>1 DEF Traded, TradesOf
  <2>2. ASSUME NEW trade, TradeGood(s, trade) PROVE TradeGood(t, trade)
    BY <1>1, <1>2, <2>2 DEF TradeGood, Behind
  <2> QED BY <1>1, <2>1, <2>2 DEF ExchangeGood, TradesGood
<1> QED BY <1>5, <1>6, <1>7, <1>8 DEF ExchangeGood

(* An exchange begins without orders.                                       *)
LEMMA StockStarts == SE!StockInit => StockInv
<1> SUFFICES ASSUME SE!StockInit PROVE StockInv
  OBVIOUS
<1>1. /\ DOMAIN state = StockFields
      /\ DOMAIN state.orders = {} /\ DOMAIN state.requests = {} /\ state.nextSeq = 0
      /\ state.trades = <<>>
      /\ DOMAIN state.levels = Sides /\ DOMAIN state.queue = Sides
      /\ \A side \in Sides : DOMAIN state.levels[side] = {} /\ DOMAIN state.queue[side] = {}
  BY DEF SE!StockInit, StockFields, Sides
<1>2. OrdersGood(state)
  BY <1>1, FS_EmptySet DEF OrdersGood
<1>3. BookGood(state)
  <2>1. \A side : Waiting(state, side) = {}
    BY <1>1 DEF Waiting
  <2> QED BY <1>1, <2>1 DEF BookGood, SideGood
<1>4. Uncrossed(state)
  BY <1>1 DEF Uncrossed, Sides
<1>5. TradesGood(state)
  <2>1. <<>> \in Seq({state.trades[i] : i \in DOMAIN state.trades})
    OBVIOUS
  <2>2. DOMAIN state.trades = {}
    BY <1>1
  <2> QED BY <1>1, <2>1, <2>2 DEF TradesGood
<1> QED BY <1>1, <1>2, <1>3, <1>4, <1>5 DEF StockInv, ExchangeGood

(* A match begins with the book as it is.                                   *)
LEMMA MatchStarts ==
  ASSUME StockInv, NEW c \in StockCommands, c.type = "submit", ~SE!Known(c)
  PROVE  /\ c.rid \notin DOMAIN state.orders
         /\ Underway(Start(c), c)
         /\ BookSize \in Nat
         /\ Lasts(Start(c), c) \in Nat /\ Lasts(Start(c), c) <= BookSize
<1> DEFINE m == Start(c)
<1>1. c.rid \notin DOMAIN state.orders
  BY DEF StockInv, SE!Known
<1>2. m.s = state /\ m.left = c.qty
  BY DEF Start
<1> HIDE DEF m
<1>3. /\ c.side \in Sides /\ c.price \in Nat /\ c.qty \in Nat \ {0}
  BY StockAssumption DEF StockCommands, Sides
<1>4. ExchangeGood(state) /\ OrdersGood(state) /\ state.nextSeq \in Nat
  BY DEF StockInv, ExchangeGood, OrdersGood
<1>5. Arrived(state, Showing(m, c), c.rid, Shown(m, c))
  <2> DEFINE o == Shown(m, c)
  <2>1. /\ DOMAIN o = {"account", "side", "price", "qty", "seq", "filled", "remaining", "cancelled"}
        /\ o.side = c.side /\ o.price = c.price /\ o.qty = c.qty /\ o.seq = state.nextSeq + 1
        /\ o.filled = c.qty - c.qty /\ o.remaining = 0 /\ o.cancelled = c.qty
    BY <1>2 DEF Shown
  <2> HIDE DEF o
  <2>2. GoodOrder(o)
    BY <1>3, <1>4, <2>1 DEF GoodOrder
  <2>3. o.filled = 0
    BY <1>3, <2>1
  <2>4. /\ Showing(m, c).orders = Put(state.orders, c.rid, o)
        /\ Showing(m, c).nextSeq = state.nextSeq + 1
        /\ Showing(m, c).trades = state.trades /\ Showing(m, c).levels = state.levels
        /\ Showing(m, c).queue = state.queue
    BY <1>2 DEF Showing, o
  <2> QED BY <1>1, <2>1, <2>2, <2>3, <2>4 DEF Arrived, o
<1>6. ExchangeGood(Showing(m, c))
  BY <1>4, <1>5, ArrivalKeeps
<1>7. Underway(m, c)
  BY <1>2, <1>3, <1>6 DEF Underway, StockInv
<1>8. BookSize \in Nat
  BY <1>4, FS_CardinalityType DEF BookSize, OrdersGood
<1>9. Lasts(m, c) \in Nat /\ Lasts(m, c) <= BookSize
  <2> DEFINE W == Waiting(state, OtherSide(c))
  <2>1. W \subseteq DOMAIN state.orders
    BY DEF Waiting
  <2>2. IsFiniteSet(DOMAIN state.orders)
    BY <1>4 DEF OrdersGood
  <2> HIDE DEF W
  <2>3. IsFiniteSet(W) /\ Cardinality(W) <= Cardinality(DOMAIN state.orders)
    BY <2>1, <2>2, FS_Subset
  <2>4. Cardinality(W) \in Nat
    BY <2>3, FS_CardinalityType
  <2> QED BY <1>2, <1>3, <2>3, <2>4 DEF Lasts, BookSize, W
<1> QED BY <1>1, <1>7, <1>8, <1>9 DEF m

(* It ends with nothing that could still be matched.                        *)
LEMMA MatchEnds ==
  ASSUME StockInv, NEW c \in StockCommands, c.type = "submit", ~SE!Known(c)
  PROVE  Underway(SE!Matched(c), c) /\ ~SE!CanMatch(SE!Matched(c), c)
<1> DEFINE m(n) == After(c)[n]
           good(n) == /\ Underway(m(n), c)
                      /\ SE!CanMatch(m(n), c) => Lasts(m(n), c) + n <= BookSize
           G == {n \in Nat : n <= BookSize => good(n)}
<1>1. /\ c.rid \notin DOMAIN state.orders
      /\ Underway(Start(c), c)
      /\ BookSize \in Nat
      /\ Lasts(Start(c), c) \in Nat /\ Lasts(Start(c), c) <= BookSize
  BY MatchStarts
<1>2. m(0) = Start(c) /\ \A n \in 1..BookSize : m(n) = SE!MatchOnce(m(n - 1), c)
  BY <1>1, AfterRecurs
<1> HIDE DEF m
<1>3. \A k : Underway(k, c) /\ SE!CanMatch(k, c) =>
        /\ Underway(SE!MatchOnce(k, c), c)
        /\ Lasts(k, c) \in Nat /\ Lasts(SE!MatchOnce(k, c), c) \in Nat
        /\ Lasts(SE!MatchOnce(k, c), c) < Lasts(k, c)
  BY <1>1, MatchGoesOn
<1>4. ASSUME NEW k, ~SE!CanMatch(k, c) PROVE SE!MatchOnce(k, c) = k
  BY Zenon, <1>4 DEF SE!MatchOnce
<1>5. 0 \in G
  BY <1>1, <1>2
<1>6. ASSUME NEW n \in Nat, n \in G PROVE n + 1 \in G
  <2> SUFFICES ASSUME n + 1 <= BookSize PROVE good(n + 1)
    OBVIOUS
  <2>1. good(n)
    BY <1>1, <1>6
  <2>2. m(n + 1) = SE!MatchOnce(m(n), c)
    BY <1>1, <1>2
  <2>3. CASE SE!CanMatch(m(n), c)
    BY <1>1, <1>3, <2>1, <2>2, <2>3
  <2>4. CASE ~SE!CanMatch(m(n), c)
    <3>1. m(n + 1) = m(n)
      BY <1>4, <2>2, <2>4
    <3> QED BY <2>1, <2>4, <3>1
  <2> QED BY <2>3, <2>4
<1> HIDE DEF G
<1>7. BookSize \in G
  BY <1>1, <1>5, <1>6, InductionOnNat
<1>8. good(BookSize)
  BY <1>1, <1>7 DEF G
<1>9. ~SE!CanMatch(m(BookSize), c)
  BY <1>1, <1>3, <1>8
<1>10. SE!Matched(c) = m(BookSize)
  BY MatchedIsAfter DEF m
<1> QED BY <1>8, <1>9, <1>10

(* A decided command is kept, and the book is what it was decided to be.    *)
LEMMA StockRecords ==
  ASSUME DOMAIN state = StockFields, NEW c, NEW s, NEW walk, NEW outcome,
         SE!Record(c, s, walk, outcome), DOMAIN s = StockFields,
         s.requests = state.requests
  PROVE  /\ DOMAIN state' = StockFields
         /\ DOMAIN state'.requests = DOMAIN state.requests \cup {c.rid}
         /\ SameBook(s, state')
<1> DEFINE r == [cmd |-> c, outcome |-> outcome, conflicts |-> 0]
<1>1. /\ DOMAIN state' = StockFields
      /\ state'.requests = SE!Put(state.requests, c.rid, r)
      /\ state'.orders = s.orders /\ state'.trades = s.trades /\ state'.nextSeq = s.nextSeq
      /\ state'.levels = s.levels /\ state'.queue = s.queue
  BY DEF SE!Record, StockFields
<1> HIDE DEF r
<1>2. DOMAIN state'.requests = DOMAIN state.requests \cup {c.rid}
  BY <1>1 DEF SE!Put
<1> QED BY <1>1, <1>2 DEF SameBook

(* A refused command, and one that comes again, leaves the book.            *)
LEMMA StockQuiet ==
  ASSUME StockInv, DOMAIN state' = StockFields, SameBook(state, state'),
         DOMAIN state.requests \subseteq DOMAIN state'.requests
  PROVE  StockInv'
<1>1. ExchangeGood(state')
  BY SameBookKeeps DEF StockInv
<1>2. state'.orders = state.orders
  BY DEF SameBook
<1> QED BY <1>1, <1>2 DEF StockInv

(* What a match leaves of an order, and what is kept of it.                 *)
KeptOrder(m, c) ==
  [account |-> c.account, side |-> c.side, price |-> c.price, qty |-> c.qty,
   seq |-> state.nextSeq + 1, filled |-> c.qty - m.left,
   remaining |-> IF c.tif = "gtc" THEN m.left ELSE 0,
   cancelled |-> IF c.tif = "ioc" THEN m.left ELSE 0]

(* An order that is filled, or must not wait, ends with what was shown.     *)
LEMMA SubmitEnds ==
  ASSUME StockInv, NEW c \in StockCommands, c.type = "submit", NEW m, Underway(m, c),
         c.rid \notin DOMAIN state.orders, ~(c.tif = "gtc" /\ m.left > 0),
         NEW t, t.orders = Put(m.s.orders, c.rid, KeptOrder(m, c)), t.nextSeq = state.nextSeq + 1,
         t.trades = m.s.trades, t.levels = m.s.levels, t.queue = m.s.queue
  PROVE  ExchangeGood(t)
<1>1. KeptOrder(m, c) = Shown(m, c)
  <2>1. m.left \in Nat /\ m.s.nextSeq = state.nextSeq /\ c.tif \in {"gtc", "ioc"}
    BY StockAssumption DEF Underway, StockCommands
  <2>2. /\ (IF c.tif = "gtc" THEN m.left ELSE 0) = 0
        /\ (IF c.tif = "ioc" THEN m.left ELSE 0) = m.left
    BY <2>1
  <2> QED BY <2>1, <2>2 DEF KeptOrder, Shown
<1>2. SameBook(Showing(m, c), t)
  <2>1. m.s.nextSeq = state.nextSeq
    BY DEF Underway
  <2> QED BY <1>1, <2>1 DEF SameBook, Showing
<1> QED BY <1>2, SameBookKeeps DEF Underway

(* One that is not waits, behind those who wait at its price.               *)
LEMMA SubmitRests ==
  ASSUME StockInv, NEW c \in StockCommands, c.type = "submit", NEW m, Underway(m, c),
         c.rid \notin DOMAIN state.orders, c.tif = "gtc" /\ m.left > 0, ~SE!CanMatch(m, c),
         NEW t, t.orders = Put(m.s.orders, c.rid, KeptOrder(m, c)), t.nextSeq = state.nextSeq + 1,
         t.trades = m.s.trades,
         LevelJoined(m.s, t, c.side, c.price, state.nextSeq + 1, c.rid, m.left)
  PROVE  ExchangeGood(t)
<1> DEFINE s == Showing(m, c)
           o == Shown(m, c)
           k == KeptOrder(m, c)
<1>1. /\ m.left \in Nat \ {0} /\ m.s.nextSeq = state.nextSeq
      /\ DOMAIN m.s.orders = DOMAIN state.orders /\ m.left <= c.qty
      /\ c.side \in Sides /\ c.qty \in Nat
      /\ ExchangeGood(s) /\ OrdersGood(s) /\ BookGood(s)
  BY StockAssumption DEF Underway, StockCommands, Sides, ExchangeGood
<1>2. /\ DOMAIN s.orders = DOMAIN m.s.orders \cup {c.rid} /\ s.orders[c.rid] = o
      /\ \A x \in DOMAIN m.s.orders : x # c.rid /\ s.orders[x] = m.s.orders[x]
  BY ShownBeside
<1>3. /\ s.levels = m.s.levels /\ s.queue = m.s.queue /\ s.trades = m.s.trades
      /\ s.nextSeq = m.s.nextSeq + 1
  BY DEF Showing
<1>4. /\ DOMAIN t.orders = DOMAIN m.s.orders \cup {c.rid} /\ t.orders[c.rid] = k
      /\ \A x \in DOMAIN m.s.orders : x # c.rid => t.orders[x] = m.s.orders[x]
  BY DEF Put
<1>5. /\ DOMAIN k = {"account", "side", "price", "qty", "seq", "filled", "remaining", "cancelled"}
      /\ k.side = c.side /\ k.price = c.price /\ k.seq = state.nextSeq + 1 /\ k.qty = c.qty
      /\ k.filled = c.qty - m.left /\ k.remaining = m.left /\ k.cancelled = 0
      /\ o.side = c.side /\ o.price = c.price /\ o.seq = m.s.nextSeq + 1
      /\ o.filled = c.qty - m.left /\ o.remaining = 0
  BY DEF KeptOrder, Shown
<1> HIDE DEF s, o, k
<1>6. GoodOrder(o)
  BY <1>1, <1>2 DEF OrdersGood
<1>7. GoodOrder(k)
  BY <1>1, <1>5, <1>6 DEF GoodOrder
<1>8. Rebooked(s, t, c.rid)
  BY <1>1, <1>2, <1>3, <1>4, <1>5, <1>7 DEF Rebooked
<1>9. Joined(s, t, c.rid, m.left)
  <2>1. Placed(s, t)
    BY <1>1, <1>2, <1>4, <1>5 DEF Placed
  <2>2. LevelJoined(s, t, c.side, c.price, state.nextSeq + 1, c.rid, m.left)
    BY <1>3 DEF LevelJoined
  <2>3. \A x \in DOMAIN s.orders : x # c.rid => t.orders[x].remaining = s.orders[x].remaining
    BY <1>2, <1>4
  <2> QED BY <1>1, <1>2, <1>4, <1>5, <2>1, <2>2, <2>3 DEF Joined
<1>10. \A side \in Sides \ {c.side} : \A price \in DOMAIN s.levels[side] :
         ~SE!Crosses(c.side, price, c.price)
  <2>1. \A side \in Sides \ {c.side} : side = OtherSide(c)
    BY <1>1, StockOperators DEF OtherSide, Sides
  <2>2. ASSUME NEW price \in DOMAIN m.s.levels[OtherSide(c)], SE!Crosses(c.side, price, c.price)
        PROVE  FALSE
    <3>1. DOMAIN m.s.levels[OtherSide(c)] # {}
      BY <2>2
    <3>2. SE!Crosses(c.side, Best(m, c), c.price)
      BY <2>2, <3>1, BestIsBest
    <3>3. SE!CanMatch(m, c)
      BY <3>1, <3>2 DEF SE!CanMatch, OtherSide, Best
    <3> QED BY <3>3
  <2> QED BY <1>3, <2>1, <2>2
<1>11. Rested(s, t, c.rid, m.left)
  BY <1>1, <1>2, <1>3, <1>5, <1>8, <1>9, <1>10 DEF Rested
<1> QED BY <1>1, <1>11, RestKeeps

(* A submitted order keeps the book.                                        *)
LEMMA StockSubmit ==
  ASSUME StockInv, NEW c \in StockCommands, SE!SubmitLimitOrder(c)
  PROVE  StockInv'
<1> DEFINE m == SE!Matched(c)
           rests == c.tif = "gtc" /\ m.left > 0
           book == IF rests THEN SE!Rested(m.s, c, m.left, state.nextSeq + 1) ELSE m.s
           s == [book EXCEPT !.orders = SE!Put(@, c.rid, KeptOrder(m, c)), !.nextSeq = state.nextSeq + 1]
<1>1. c.type = "submit" /\ ~SE!Known(c)
      /\ \E walk, outcome : SE!Record(c, s, walk, outcome)
  <2>1. c.type = "submit" /\ ~SE!Known(c)
    BY Zenon DEF SE!SubmitLimitOrder
  <2>2. \E walk, outcome : SE!Record(c, s, walk, outcome)
    BY ZenonT(40) DEF SE!SubmitLimitOrder, KeptOrder
  <2> QED BY <2>1, <2>2
<1>2. Underway(m, c) /\ ~SE!CanMatch(m, c) /\ c.rid \notin DOMAIN state.orders
  BY <1>1, MatchEnds, MatchStarts
<1>3. /\ DOMAIN m.s = StockFields /\ m.s.requests = state.requests
      /\ DOMAIN m.s.orders = DOMAIN state.orders
      /\ m.left \in Nat
  BY <1>2 DEF Underway
<1> HIDE DEF m
<1>4. /\ DOMAIN book = StockFields /\ book.requests = m.s.requests
      /\ book.orders = m.s.orders /\ book.trades = m.s.trades
  BY SMTT(30), <1>3 DEF SE!Rested, StockFields
<1>5. rests => LevelJoined(m.s, book, c.side, c.price, state.nextSeq + 1, c.rid, m.left)
  <2> SUFFICES ASSUME rests
               PROVE  LevelJoined(m.s, book, c.side, c.price, state.nextSeq + 1, c.rid, m.left)
    OBVIOUS
  <2> DEFINE level == IF c.price \in DOMAIN m.s.levels[c.side] THEN m.s.levels[c.side][c.price]
                      ELSE [qty |-> 0, count |-> 0]
             queue == IF c.price \in DOMAIN m.s.queue[c.side] THEN m.s.queue[c.side][c.price]
                      ELSE <<>>
             lv == [qty |-> level.qty + m.left, count |-> level.count + 1]
             q == SE!Put(queue, state.nextSeq + 1, c.rid)
  <2>1. book = [m.s EXCEPT !.levels[c.side] = SE!Put(@, c.price, lv),
                           !.queue[c.side] = SE!Put(@, c.price, q)]
    BY DEF SE!Rested
  <2> HIDE DEF lv, q, level, queue, book
  <2>2. /\ book.levels = [m.s.levels EXCEPT ![c.side] = SE!Put(@, c.price, lv)]
        /\ book.queue = [m.s.queue EXCEPT ![c.side] = SE!Put(@, c.price, q)]
    BY <1>3, <2>1 DEF StockFields
  <2>3. DOMAIN m.s.levels = Sides /\ DOMAIN m.s.queue = Sides /\ c.side \in Sides
    <3>1. c.side \in Sides
      BY <1>1, StockAssumption DEF StockCommands, Sides
    <3>2. BookGood(Showing(m, c))
      BY <1>2 DEF Underway, ExchangeGood
    <3>3. Showing(m, c).levels = m.s.levels /\ Showing(m, c).queue = m.s.queue
      BY DEF Showing
    <3> QED BY <3>1, <3>2, <3>3 DEF BookGood
  <2>4. /\ DOMAIN book.levels = Sides /\ DOMAIN book.queue = Sides
        /\ \A other \in Sides \ {c.side} : /\ book.levels[other] = m.s.levels[other]
                                          /\ book.queue[other] = m.s.queue[other]
        /\ book.levels[c.side] = SE!Put(m.s.levels[c.side], c.price, lv)
        /\ book.queue[c.side] = SE!Put(m.s.queue[c.side], c.price, q)
    BY <2>2, <2>3
  <2>5. /\ book.levels[c.side] = Put(m.s.levels[c.side], c.price, lv)
        /\ book.queue[c.side] = Put(m.s.queue[c.side], c.price, q)
        /\ q = Put(queue, state.nextSeq + 1, c.rid)
    BY <2>4, StockOperators DEF q
  <2> QED BY <2>4, <2>5 DEF LevelJoined, lv, level, queue
<1>6. ~rests => book = m.s
  OBVIOUS
<1> HIDE DEF book
<1>7. /\ DOMAIN s = StockFields /\ s.requests = state.requests
      /\ s.orders = Put(m.s.orders, c.rid, KeptOrder(m, c)) /\ s.nextSeq = state.nextSeq + 1
      /\ s.trades = m.s.trades /\ s.levels = book.levels /\ s.queue = book.queue
  BY <1>3, <1>4, StockOperators DEF StockFields
<1> HIDE DEF s
<1>8. ExchangeGood(s)
  <2>1. CASE rests
    <3>1. LevelJoined(m.s, s, c.side, c.price, state.nextSeq + 1, c.rid, m.left)
      BY <1>5, <1>7, <2>1 DEF LevelJoined
    <3> QED BY <1>1, <1>2, <1>7, <2>1, <3>1, SubmitRests
  <2>2. CASE ~rests
    BY <1>1, <1>2, <1>6, <1>7, <2>2, SubmitEnds
  <2> QED BY <2>1, <2>2
<1>9. PICK walk, outcome : SE!Record(c, s, walk, outcome)
  BY <1>1
<1>10. /\ DOMAIN state' = StockFields
       /\ DOMAIN state'.requests = DOMAIN state.requests \cup {c.rid}
       /\ SameBook(s, state')
  BY <1>7, <1>9, StockRecords DEF StockInv
<1>11. ExchangeGood(state')
  BY <1>8, <1>10, SameBookKeeps
<1>12. DOMAIN state'.orders = DOMAIN state.orders \cup {c.rid}
  BY <1>3, <1>7, <1>10 DEF SameBook, Put
<1> QED BY <1>10, <1>11, <1>12 DEF StockInv

(* So does a cancelled one, and a refused cancellation.                     *)
LEMMA StockCancel ==
  ASSUME StockInv, NEW c \in StockCommands, SE!CancelOrder(c)
  PROVE  StockInv'
<1> DEFINE id == c.order
           order == IF id \in DOMAIN state.orders THEN state.orders[id] ELSE SE!NoOrder
           side == order.side
           price == order.price
           level == state.levels[side][price]
           queue == state.queue[side][price]
           last == level.qty = order.remaining
           exists == order # SE!NoOrder
           owner == c.account = order.account
           open == order.remaining # 0
           checks == << <<"exists", exists, "no-such-order">>, <<"owner", owner, "not-owner">>,
                        <<"open", open, "order-not-open">> >>
           s == [state EXCEPT
                  !.queue[side] = IF last THEN SE!Without(@, price)
                                  ELSE [@ EXCEPT ![price] = SE!Without(queue, order.seq)],
                  !.levels[side] = IF last THEN SE!Without(@, price)
                                   ELSE [@ EXCEPT ![price] = [qty |-> level.qty - order.remaining,
                                                              count |-> level.count - 1]],
                  !.orders[id].cancelled = order.remaining,
                  !.orders[id].remaining = 0]
<1>0. DOMAIN state = StockFields /\ DOMAIN state.orders \subseteq DOMAIN state.requests
      /\ ExchangeGood(state) /\ OrdersGood(state) /\ BookGood(state)
  BY DEF StockInv, ExchangeGood
<1>1. \E walk, outcome : \/ SE!Accepted(checks) /\ SE!Record(c, s, walk, outcome)
                         \/ SE!Record(c, state, walk, outcome)
  <2>1. SE!Accepted(checks) => \E walk, outcome : SE!Record(c, s, walk, outcome)
    BY ZenonT(60) DEF SE!CancelOrder
  <2>2. ~SE!Accepted(checks) => \E walk, outcome : SE!Record(c, state, walk, outcome)
    BY Zenon DEF SE!CancelOrder
  <2> HIDE DEF checks, s
  <2> QED BY <2>1, <2>2
<1>2. DOMAIN checks = 1..3 /\ checks[1][2] = exists /\ checks[3][2] = open
  <2>1. exists \in BOOLEAN /\ owner \in BOOLEAN /\ open \in BOOLEAN
    OBVIOUS
  <2> HIDE DEF exists, owner, open
  <2> QED BY <2>1
<1> HIDE DEF checks, s
<1>3. PICK walk, outcome : \/ SE!Accepted(checks) /\ SE!Record(c, s, walk, outcome)
                           \/ SE!Record(c, state, walk, outcome)
  BY <1>1
<1>4. CASE SE!Record(c, state, walk, outcome)
  <2>1. /\ DOMAIN state' = StockFields
        /\ DOMAIN state'.requests = DOMAIN state.requests \cup {c.rid}
        /\ SameBook(state, state')
    BY <1>0, <1>4, StockRecords
  <2> QED BY <2>1, StockQuiet
<1>5. CASE SE!Accepted(checks) /\ SE!Record(c, s, walk, outcome)
  <2>1. exists /\ open
    <3> HIDE DEF exists, open
    <3>1. checks[1][2] /\ checks[3][2]
      BY <1>2, <1>5 DEF SE!Accepted, SE!Failed
    <3> QED BY <1>2, <3>1
  <2>2. id \in DOMAIN state.orders /\ order = state.orders[id]
    BY <2>1
  <2>3. GoodOrder(order)
    BY <1>0, <2>2 DEF OrdersGood
  <2>4. order.remaining \in Nat /\ order.remaining > 0 /\ order.cancelled = 0 /\ side \in Sides
    BY <2>1, <2>3 DEF GoodOrder
  <2>5. DOMAIN state.levels = Sides /\ DOMAIN state.queue = Sides
    BY <1>0 DEF BookGood
  <2> DEFINE o == [[order EXCEPT !.cancelled = order.remaining] EXCEPT !.remaining = 0]
             lv == [qty |-> level.qty - order.remaining, count |-> level.count - 1]
             qs == state.queue[side]
             ls == state.levels[side]
             q == [qs EXCEPT ![price] = Dropped(queue, order.seq)]
             l == [ls EXCEPT ![price] = lv]
  <2>6. /\ DOMAIN s = StockFields /\ s.requests = state.requests
        /\ s.trades = state.trades /\ s.nextSeq = state.nextSeq
        /\ s.orders = [[state.orders EXCEPT ![id].cancelled = order.remaining]
                         EXCEPT ![id].remaining = 0]
        /\ s.queue = [state.queue EXCEPT ![side] = IF last THEN Dropped(qs, price) ELSE q]
        /\ s.levels = [state.levels EXCEPT ![side] = IF last THEN Dropped(ls, price) ELSE l]
    <3>1. SE!Without(qs, price) = Dropped(qs, price) /\ SE!Without(ls, price) = Dropped(ls, price)
          /\ SE!Without(queue, order.seq) = Dropped(queue, order.seq)
      BY StockOperators
    <3>2. [qs EXCEPT ![price] = SE!Without(queue, order.seq)] = q
      BY Zenon, <3>1
    <3> HIDE DEF order, side, price, level, last, lv, queue
    <3>3. /\ DOMAIN s = StockFields /\ s.requests = state.requests
          /\ s.trades = state.trades /\ s.nextSeq = state.nextSeq
          /\ s.orders = [[state.orders EXCEPT ![id].cancelled = order.remaining]
                           EXCEPT ![id].remaining = 0]
      BY <1>0 DEF s, StockFields
    <3>4. s.queue = [state.queue EXCEPT ![side] =
                       IF last THEN SE!Without(qs, price)
                       ELSE [qs EXCEPT ![price] = SE!Without(queue, order.seq)]]
      BY <1>0 DEF s, StockFields
    <3>5. s.levels = [state.levels EXCEPT ![side] =
                        IF last THEN SE!Without(ls, price) ELSE [ls EXCEPT ![price] = lv]]
      BY <1>0 DEF s, StockFields, lv
    <3>6. s.queue = [state.queue EXCEPT ![side] = IF last THEN Dropped(qs, price) ELSE q]
      BY <3>1, <3>2, <3>4
    <3>7. s.levels = [state.levels EXCEPT ![side] = IF last THEN Dropped(ls, price) ELSE l]
      BY <3>1, <3>5 DEF l
    <3> QED BY <3>3, <3>6, <3>7
  <2> HIDE DEF q, l, side, price, level, last, lv, queue
  <2>7. /\ DOMAIN s.orders = DOMAIN state.orders
        /\ \A x \in DOMAIN state.orders : x # id => s.orders[x] = state.orders[x]
        /\ s.orders[id] = o
    <3> HIDE DEF order
    <3> QED BY <2>2, <2>6
  <2>8. /\ DOMAIN o = DOMAIN order /\ o.side = order.side /\ o.price = order.price
        /\ o.seq = order.seq /\ o.filled = order.filled /\ o.qty = order.qty
        /\ o.cancelled = order.remaining /\ o.remaining = 0
    <3>1. DOMAIN order = {"account", "side", "price", "qty", "seq", "filled", "remaining",
                          "cancelled"}
      BY <2>3 DEF GoodOrder
    <3> HIDE DEF order
    <3> QED BY <3>1
  <2> HIDE DEF o, order
  <2>9. GoodOrder(o)
    BY SMTT(30), <2>3, <2>4, <2>8 DEF GoodOrder
  <2>10. Rebooked(state, s, id)
    BY <2>2, <2>6, <2>7, <2>8, <2>9 DEF Rebooked
  <2>11. LevelTaken(state, s, side, price, order.seq, order.remaining, TRUE)
    <3>1. /\ DOMAIN s.levels = Sides /\ DOMAIN s.queue = Sides
          /\ \A other \in Sides \ {side} : /\ s.levels[other] = state.levels[other]
                                          /\ s.queue[other] = state.queue[other]
          /\ s.queue[side] = IF last THEN Dropped(qs, price) ELSE q
          /\ s.levels[side] = IF last THEN Dropped(ls, price) ELSE l
      BY <2>4, <2>5, <2>6
    <3> QED BY <3>1 DEF LevelTaken, l, lv, q, queue, last, level
  <2>12. Taken(state, s, id, order.remaining)
    <3>1. Placed(state, s)
      BY <2>2, <2>7, <2>8 DEF Placed
    <3>2. side = order.side /\ price = order.price
      BY DEF side, price
    <3>3. LevelTaken(state, s, order.side, order.price, order.seq, order.remaining,
                     order.remaining = order.remaining)
      BY <2>11, <3>2
    <3>4. \A x \in DOMAIN state.orders : x # id =>
            s.orders[x].remaining = state.orders[x].remaining
      BY <2>7
    <3>5. s.orders[id].remaining = order.remaining - order.remaining
      BY <2>4, <2>7, <2>8
    <3> QED BY <2>2, <2>4, <3>1, <3>3, <3>4, <3>5 DEF Taken
  <2>13. ExchangeGood(s)
    BY <1>0, <2>2, <2>10, <2>12, CancelKeeps DEF Cancelled
  <2>14. /\ DOMAIN state' = StockFields
         /\ DOMAIN state'.requests = DOMAIN state.requests \cup {c.rid}
         /\ SameBook(s, state')
    BY <1>0, <1>5, <2>6, StockRecords
  <2>15. ExchangeGood(state')
    BY <2>13, <2>14, SameBookKeeps
  <2>16. DOMAIN state'.orders = DOMAIN state.orders
    BY <2>7, <2>14 DEF SameBook
  <2> QED BY <1>0, <2>14, <2>15, <2>16 DEF StockInv
<1> QED BY <1>3, <1>4, <1>5

(* Every step of the exchange keeps the book.                               *)
LEMMA StockGoesOn == StockInv /\ SE!StockStep => StockInv'
<1> SUFFICES ASSUME StockInv, SE!StockStep PROVE StockInv'
  OBVIOUS
<1>1. PICK c \in StockCommands :
        \/ SE!SubmitLimitOrder(c) \/ SE!CancelOrder(c)
        \/ \E walk : SE!Replay(c, walk) \/ SE!Conflict(c, walk)
  BY DEF SE!StockStep, StockCommands
<1>2. ASSUME NEW walk, SE!Replay(c, walk) \/ SE!Conflict(c, walk) PROVE StockInv'
  <2>1. DOMAIN state = StockFields
    BY DEF StockInv
  <2>2. /\ DOMAIN state' = StockFields /\ SameBook(state, state')
        /\ DOMAIN state.requests \subseteq DOMAIN state'.requests
    BY <1>2, <2>1 DEF SE!Replay, SE!Conflict, StockFields, SameBook
  <2> QED BY <2>2, StockQuiet
<1> QED BY <1>1, <1>2, StockSubmit, StockCancel

(* The book is consistent and the trades are fair.                          *)
LEMMA StockSucceeds == StockInv => SE!BookConsistent /\ SE!TradesFair
<1> SUFFICES ASSUME StockInv PROVE SE!BookConsistent /\ SE!TradesFair
  OBVIOUS
<1>1. OrdersGood(state) /\ BookGood(state) /\ Uncrossed(state) /\ TradesGood(state)
  BY DEF StockInv, ExchangeGood
<1>2. \A side : SE!Open(side) = Waiting(state, side)
  BY SMTT(30) DEF SE!Open, Waiting
<1>3. SE!BookConsistent
  <2>1. ASSUME NEW side \in Sides, NEW price \in DOMAIN state.levels[side]
        PROVE  LET here == {id \in SE!Open(side) : state.orders[id].price = price} IN
               /\ DOMAIN state.queue[side][price] = {state.orders[id].seq : id \in here}
               /\ \A id \in here : state.queue[side][price][state.orders[id].seq] = id
               /\ state.levels[side][price] =
                    [qty |-> SE!SumOver([id \in here |-> state.orders[id].remaining]),
                     count |-> SE!Cardinality(here)]
    <3>1. LevelGood(state, side, price)
      BY <1>1 DEF BookGood, SideGood
    <3>2. {id \in SE!Open(side) : state.orders[id].price = price} = Here(state, side, price)
      BY <1>2 DEF Here
    <3>3. SE!SumOver([id \in Here(state, side, price) |-> state.orders[id].remaining])
            = Left(state, side, price)
      BY StockSums DEF Left
    <3>4. SE!Cardinality(Here(state, side, price)) = Cardinality(Here(state, side, price))
      BY StockOperators
    <3> QED BY <3>1, <3>2, <3>3, <3>4 DEF LevelGood
  <2>2. \A side \in Sides :
          /\ DOMAIN state.levels[side] = DOMAIN state.queue[side]
          /\ DOMAIN state.levels[side] = {state.orders[id].price : id \in SE!Open(side)}
    BY <1>1, <1>2 DEF BookGood, SideGood
  <2>3. \A bid \in DOMAIN state.levels["buy"], ask \in DOMAIN state.levels["sell"] : bid < ask
    BY SMTT(30), <1>1 DEF Uncrossed
  <2> QED BY <2>1, <2>2, <2>3 DEF SE!BookConsistent, Sides
<1>4. SE!TradesFair
  <2>1. ASSUME NEW id \in DOMAIN state.orders
        PROVE  /\ state.orders[id].qty =
                    state.orders[id].filled + state.orders[id].remaining + state.orders[id].cancelled
               /\ state.orders[id].filled =
                    SE!SumOver([i \in {i \in DOMAIN state.trades :
                                  id \in {state.trades[i].maker, state.trades[i].taker}} |->
                                state.trades[i].qty])
    <3>1. GoodOrder(state.orders[id]) /\ state.orders[id].filled = Traded(state, id)
      BY <1>1 DEF OrdersGood, TradesGood
    <3>2. SE!SumOver([i \in TradesOf(state, id) |-> state.trades[i].qty]) = Traded(state, id)
      BY StockSums DEF Traded
    <3> QED BY <3>1, <3>2 DEF GoodOrder, TradesOf
  <2>2. ASSUME NEW i \in DOMAIN state.trades
        PROVE  LET t == state.trades[i]
                   maker == state.orders[t.maker]
                   taker == state.orders[t.taker] IN
               /\ maker.side # taker.side /\ t.price = maker.price
               /\ SE!Crosses(taker.side, t.price, taker.price)
               /\ \A id \in SE!Open(maker.side) \ {t.maker} :
                    LET o == state.orders[id] IN
                    o.seq < taker.seq =>
                      \/ o.price = t.price /\ o.seq > maker.seq
                      \/ o.price # t.price /\ SE!Crosses(taker.side, t.price, o.price)
    <3>1. TradeGood(state, state.trades[i])
      BY <1>1 DEF TradesGood
    <3> QED BY Zenon, <1>2, <3>1 DEF TradeGood, Behind
  <2> QED BY <2>1, <2>2 DEF SE!TradesFair
<1> QED BY <1>3, <1>4

-----------------------------------------------------------------------------
(* All three.                                                               *)

(* The inductive invariant: of the entry that runs, its module's.           *)
BooksInv ==
  /\ entry = "payment-system" => PayInv
  /\ entry = "stock-exchange" => StockInv
  /\ entry = "bank-transfer"  => BankInv

(* It holds of the entry that begins.                                       *)
LEMMA BooksStart == Init => BooksInv
<1> SUFFICES ASSUME Init PROVE BooksInv
  OBVIOUS
<1>1. CASE SolutionInit
  <2>1. entry \in Slugs
    BY <1>1 DEF SolutionInit
  <2> QED BY <2>1, EntriesAssumption DEF BooksInv
<1>2. CASE ~SolutionInit
  BY <1>2, PaymentStarts, StockStarts, BankStarts DEF Init, BooksInv
<1> QED BY <1>1, <1>2

(* What holds of a state holds of one that is the same.                     *)
LEMMA BooksStay ==
  ASSUME state' = state
  PROVE  (PayInv => PayInv') /\ (StockInv => StockInv') /\ (BankInv => BankInv')
<1>1. StockInv => StockInv'
  BY StockQuiet DEF StockInv, SameBook
<1>2. PayInv => PayInv'
  <2> SUFFICES ASSUME PayInv PROVE PayInv'
    OBVIOUS
  <2>1. KeptRequests /\ Unmoved
    BY DEF KeptRequests, Unmoved, PayInv, PayFields
  <2>2. /\ IsFiniteSet(DOMAIN state'.requests)
        /\ \A id \in DOMAIN state'.requests :
             /\ DOMAIN state'.requests[id] = {"cmd", "outcome", "conflicts"}
             /\ state'.requests[id].cmd \in PayCommands
             /\ state'.requests[id].cmd.rid = id
        /\ DOMAIN state'.requests = DOMAIN state.requests
    BY DEF PayInv, PayFields
  <2> QED BY <2>1, <2>2, PayQuiet
<1>3. BankInv => BankInv'
  <2>1. Transfers' = Transfers /\ Deposits' = Deposits
    BY DEF Transfers, Deposits
  <2>2. Flying' = Flying /\ Unfinished' = Unfinished
    BY DEF Flying, Unfinished
  <2>3. BankFields => BankFields'
    BY <2>1 DEF BankFields
  <2>4. Money => Money'
    BY <2>1, <2>2 DEF Money, Amounts
  <2>5. Histories => Histories'
    BY <2>1, <2>2 DEF Histories, Sent, Got
  <2>6. Overdrafts => Overdrafts'
    BY DEF Overdrafts, BT!Credits
  <2> QED BY <2>3, <2>4, <2>5, <2>6 DEF BankInv
<1> QED BY <1>1, <1>2, <1>3

(* No step changes the entry, and each entry's own keep its invariant.      *)
LEMMA BooksGoOn == BooksInv /\ [Next]_vars => BooksInv'
<1> SUFFICES ASSUME BooksInv, [Next]_vars PROVE BooksInv'
  OBVIOUS
<1>1. entry' = entry
  BY DEF Next, SolutionStep, ModuleStep, vars
<1>2. CASE entry = "payment-system"
  <2>1. PayInv /\ (PS!PaymentStep \/ state' = state)
    BY <1>2 DEF BooksInv, Next, SolutionStep, ModuleStep, vars
  <2> QED BY <1>1, <1>2, <2>1, PaymentsGoOn, BooksStay DEF BooksInv
<1>3. CASE entry = "stock-exchange"
  <2>1. StockInv /\ (SE!StockStep \/ state' = state)
    BY <1>3 DEF BooksInv, Next, SolutionStep, ModuleStep, vars
  <2> QED BY <1>1, <1>3, <2>1, StockGoesOn, BooksStay DEF BooksInv
<1>4. CASE entry = "bank-transfer"
  <2>1. BankInv /\ (BT!BankStep \/ state' = state)
    BY <1>4 DEF BooksInv, Next, SolutionStep, ModuleStep, vars
  <2> QED BY <1>1, <1>4, <2>1, BankGoesOn, BooksStay DEF BooksInv
<1> QED BY <1>1, <1>2, <1>3, <1>4 DEF BooksInv

(* Nothing that the modules move is made or lost: what is in accounts and  *)
(* on its way between tasks is what was deposited, every balance is what   *)
(* was posted and no refund exceeds its charge, and every order is filled, *)
(* waiting or cancelled, first come first matched at the best price.       *)
THEOREM NothingMadeNorLost == Spec => []BooksBalance
<1>1. Init => BooksInv
  BY BooksStart
<1>2. BooksInv /\ [Next]_vars => BooksInv'
  BY BooksGoOn
<1>3. BooksInv => BooksBalance
  <2> SUFFICES ASSUME BooksInv PROVE BooksBalance
    OBVIOUS
  <2>1. CASE entry = "payment-system"
    BY <2>1, PaymentsSucceed DEF BooksInv, BooksBalance
  <2>2. CASE entry = "stock-exchange"
    BY <2>2, StockSucceeds DEF BooksInv, BooksBalance
  <2>3. CASE entry = "bank-transfer"
    BY <2>3, BankSucceeds DEF BooksInv, BooksBalance
  <2> QED BY <2>1, <2>2, <2>3 DEF BooksBalance
<1> QED BY <1>1, <1>2, <1>3, PTL DEF Spec

-----------------------------------------------------------------------------
(* The commands of the exchange along its diagrams.                         *)

(* Once more around: a trade goes back to the question whether there is     *)
(* another.                                                                 *)
LEMMA TradeWalks ==
  ASSUME NEW m, NEW c, Walk(SE!MatchDiagram, m.path, "event", "cross")
  PROVE  Walk(SE!MatchDiagram, SE!MatchOnce(m, c).path, "event", "cross")
<1> DEFINE g == SE!MatchDiagram
           queue == QueueThere(m, c)
           maker == m.s.orders[MakerOf(m, c)]
           consumed == Amount(m, c) = maker.remaining
           kept == IF consumed THEN "dequeue" ELSE "retain"
           round == <<"maker", "trade", "partial", kept, "continue", "best", "cross">>
<1>1. CASE ~SE!CanMatch(m, c)
  <2>1. SE!MatchOnce(m, c) = m
    BY Zenon, <1>1 DEF SE!MatchOnce
  <2> QED BY <2>1
<1>2. CASE SE!CanMatch(m, c)
  <2>1. SE!MatchOnce(m, c).path = m.path \o round
    BY Zenon, <1>2 DEF SE!MatchOnce, OtherSide, Best, QueueThere, Turn, MakerOf, Amount
  <2>2. kept = "dequeue" \/ kept = "retain"
    OBVIOUS
  <2>3. /\ Arrow(g, "cross", "maker") /\ Arrow(g, "maker", "trade")
        /\ Arrow(g, "trade", "partial") /\ Arrow(g, "partial", "dequeue")
        /\ Arrow(g, "partial", "retain") /\ Arrow(g, "dequeue", "continue")
        /\ Arrow(g, "retain", "continue") /\ Arrow(g, "continue", "best")
        /\ Arrow(g, "best", "cross")
    BY MatchArrows
  <2> HIDE DEF g, kept
  <2>4. Arrow(g, "partial", kept) /\ Arrow(g, kept, "continue")
    BY <2>2, <2>3
  <2>5. Walk(g, round, "maker", "cross")
    BY <2>3, <2>4, ShortWalks
  <2>6. Walk(g, m.path, "event", "cross")
    BY DEF g
  <2> HIDE DEF round
  <2>7. Walk(g, m.path \o round, "event", "cross")
    BY <2>3, <2>5, <2>6, WalkOn
  <2> QED BY <2>1, <2>7 DEF g
<1> QED BY <1>1, <1>2

(* So does the whole of a match.                                            *)
LEMMA MatchedWalks ==
  ASSUME NEW c, BookSize \in Nat
  PROVE  Walk(SE!MatchDiagram, SE!Matched(c).path, "event", "cross")
<1> DEFINE m(n) == After(c)[n]
           good(n) == Walk(SE!MatchDiagram, m(n).path, "event", "cross")
           G == {n \in Nat : n <= BookSize => good(n)}
<1>1. m(0) = Start(c) /\ \A n \in 1..BookSize : m(n) = SE!MatchOnce(m(n - 1), c)
  BY AfterRecurs
<1>2. Walk(SE!MatchDiagram, Start(c).path, "event", "cross")
  <2> DEFINE g == SE!MatchDiagram
             path == <<"event", "replay", "init", "best", "cross">>
  <2>1. /\ Arrow(g, "event", "replay") /\ Arrow(g, "replay", "init")
        /\ Arrow(g, "init", "best") /\ Arrow(g, "best", "cross")
    BY MatchArrows
  <2> HIDE DEF g
  <2>2. Walk(g, path, "event", "cross")
    BY <2>1, ShortWalks
  <2>3. Start(c).path = path
    BY DEF Start
  <2> QED BY <2>2, <2>3 DEF g
<1> HIDE DEF m
<1>3. 0 \in G
  BY <1>1, <1>2
<1>4. ASSUME NEW n \in Nat, n \in G PROVE n + 1 \in G
  <2> SUFFICES ASSUME n + 1 <= BookSize PROVE good(n + 1)
    OBVIOUS
  <2>1. good(n)
    BY <1>4
  <2>2. m(n + 1) = SE!MatchOnce(m(n), c)
    BY <1>1
  <2> QED BY <2>1, <2>2, TradeWalks
<1> HIDE DEF G
<1>5. BookSize \in G
  BY <1>3, <1>4, InductionOnNat
<1>6. good(BookSize)
  BY <1>5 DEF G
<1> QED BY <1>6, MatchedIsAfter DEF m

(* An order submitted is drawn to the check that refuses it, or around its  *)
(* trades to what is left of it.                                            *)
LEMMA SubmitShows ==
  ASSUME StockInv, NEW c \in StockCommands, SE!SubmitLimitOrder(c)
  PROVE  Shows(SE!StockDiagrams)
<1> DEFINE g == SE!MatchDiagram
           m == SE!Matched(c)
           rests == c.tif = "gtc" /\ m.left > 0
           book == IF rests THEN SE!Rested(m.s, c, m.left, state.nextSeq + 1) ELSE m.s
           s == [book EXCEPT !.orders = SE!Put(@, c.rid, KeptOrder(m, c)), !.nextSeq = state.nextSeq + 1]
           middle == IF m.left = 0 THEN <<>> ELSE IF rests THEN <<"own">> ELSE <<"ioc">>
           start == m.path \o <<"rest">>
           end == <<"finish", "done">>
           path == start \o middle \o end
<1>1. c.type = "submit" /\ ~SE!Known(c)
  BY Zenon DEF SE!SubmitLimitOrder
<1>2. PICK outcome : SE!Record(c, s, <<"match", path>>, outcome)
  BY ZenonT(40) DEF SE!SubmitLimitOrder, KeptOrder
<1>3. DOMAIN m.s = StockFields /\ DOMAIN state = StockFields
  BY <1>1, MatchEnds DEF Underway, StockInv
<1>4. Walk(g, m.path, "event", "cross")
  BY <1>1, MatchStarts, MatchedWalks
<1>5. middle = <<>> \/ middle = <<"own">> \/ middle = <<"ioc">>
  OBVIOUS
<1> HIDE DEF m
<1>6. DOMAIN s = StockFields
  <2>1. DOMAIN book = StockFields
    BY <1>3 DEF SE!Rested
  <2> HIDE DEF book
  <2> QED BY <2>1
<1>7. /\ "event" \in Ids(g) /\ Arrow(g, "cross", "rest") /\ Arrow(g, "rest", "own")
      /\ Arrow(g, "rest", "ioc") /\ Arrow(g, "rest", "finish") /\ Arrow(g, "own", "finish")
      /\ Arrow(g, "ioc", "finish") /\ Arrow(g, "finish", "done")
  BY MatchArrows
<1>8. g = SE!StockDiagrams["match"]
  BY DEF SE!StockDiagrams
<1> HIDE DEF g, s, middle, rests
<1>9. /\ Walk(g, <<"rest">>, "rest", "rest") /\ Walk(g, <<"own">>, "own", "own")
      /\ Walk(g, <<"ioc">>, "ioc", "ioc") /\ Walk(g, end, "finish", "done")
  BY <1>7, ShortWalks
<1>10. Walk(g, start, "event", "rest")
  BY <1>4, <1>7, <1>9, WalkOn
<1>11. Walk(g, path, "event", "done")
  <2> HIDE DEF start, end
  <2>1. CASE middle = <<>>
    <3>1. start \o middle = start
      BY <1>10, <2>1, NothingAdded
    <3>2. Walk(g, start \o end, "event", "done")
      BY <1>7, <1>9, <1>10, WalkOn
    <3> QED BY <3>1, <3>2
  <2>2. CASE middle = <<"own">>
    <3>1. Walk(g, start \o <<"own">> \o end, "event", "done")
      BY <1>7, <1>9, <1>10, WalkThrough
    <3> QED BY <2>2, <3>1
  <2>3. CASE middle = <<"ioc">>
    <3>1. Walk(g, start \o <<"ioc">> \o end, "event", "done")
      BY <1>7, <1>9, <1>10, WalkThrough
    <3> QED BY <2>3, <3>1
  <2> QED BY <1>5, <2>1, <2>2, <2>3
<1> HIDE DEF path
<1>12. "walk" \in DOMAIN s /\ DOMAIN s = DOMAIN state
  BY <1>3, <1>6 DEF StockFields
<1>13. state'.walk = <<"match", path>> /\ DOMAIN state' = DOMAIN state
  BY <1>2, <1>12, CommandsAreNoted
<1> QED BY <1>7, <1>8, <1>11, <1>13, ShownAs

(* A cancellation is refused where its first failing check leads.           *)
LEMMA CancelWays ==
  ASSUME NEW p1 \in BOOLEAN, NEW p2 \in BOOLEAN, NEW p3 \in BOOLEAN, NEW b1, NEW b2, NEW b3,
         NEW checks, checks = << <<"exists", p1, b1>>, <<"owner", p2, b2>>, <<"open", p3, b3>> >>
  PROVE  \/ Refused(checks) = {} /\ Walk(SE!CancelDiagram, Visited(checks), "exists", "open")
         \/ /\ Refused(checks) # {}
            /\ \E y \in {"missing", "notOwner", "closed"} : \E z :
                 /\ <<"missing", "notOwner", "closed">>[Len(Visited(checks))] = y
                 /\ Walk(SE!CancelDiagram, Visited(checks), "exists", z)
                 /\ Arrow(SE!CancelDiagram, z, y)
<1> DEFINE g == SE!CancelDiagram
<1>1. /\ Arrow(g, "exists", "owner") /\ Arrow(g, "owner", "open")
      /\ Arrow(g, "exists", "missing") /\ Arrow(g, "owner", "notOwner")
      /\ Arrow(g, "open", "closed")
  BY StockCancelArrows
<1>2. /\ DOMAIN checks = 1..3 /\ Len(checks) = 3
      /\ checks[1][1] = "exists" /\ checks[2][1] = "owner" /\ checks[3][1] = "open"
      /\ (checks[1][2] <=> p1) /\ (checks[2][2] <=> p2) /\ (checks[3][2] <=> p3)
  OBVIOUS
<1> HIDE DEF g
<1>3. CASE Refused(checks) = {}
  <2>1. Walk(g, Visited(checks), "exists", "open")
    BY SMTT(30), <1>1, <1>3, ThreeWalked
  <2> QED BY <1>3, <2>1 DEF g
<1>4. CASE Refused(checks) # {}
  <2> DEFINE k == Least(Refused(checks))
             refused == <<"missing", "notOwner", "closed">>
  <2>1. Refused(checks) \subseteq 1..3
    BY <1>2 DEF Refused
  <2>2. k \in Refused(checks)
    <3>1. \E n \in Refused(checks) : \A j \in Refused(checks) : n <= j
      BY <1>4, <2>1, LeastElement
    <3> QED BY <3>1 DEF Least
  <2>3. k = 1 \/ k = 2 \/ k = 3
    BY <2>1, <2>2
  <2>4. Visited(checks) = [i \in 1..k |-> checks[i][1]]
    BY <1>4 DEF Visited
  <2> HIDE DEF k
  <2>5. CASE k = 1
    <3>1. Visited(checks) = <<"exists">>
      BY <1>2, <2>4, <2>5
    <3>2. Walk(g, <<"exists">>, "exists", "exists")
      BY ShortWalks
    <3>3. refused[Len(<<"exists">>)] = "missing"
      OBVIOUS
    <3> HIDE DEF refused
    <3>4. refused[Len(Visited(checks))] = "missing" /\ Walk(g, Visited(checks), "exists", "exists")
      BY <3>1, <3>2, <3>3
    <3> QED BY <1>1, <1>4, <3>4 DEF g, refused
  <2>6. CASE k = 2
    <3>1. Visited(checks) = <<"exists", "owner">>
      BY <1>2, <2>4, <2>6
    <3>2. Walk(g, <<"exists", "owner">>, "exists", "owner")
      BY <1>1, ShortWalks
    <3>3. refused[Len(<<"exists", "owner">>)] = "notOwner"
      OBVIOUS
    <3> HIDE DEF refused
    <3>4. refused[Len(Visited(checks))] = "notOwner" /\ Walk(g, Visited(checks), "exists", "owner")
      BY <3>1, <3>2, <3>3
    <3> QED BY <1>1, <1>4, <3>4 DEF g, refused
  <2>7. CASE k = 3
    <3>1. Visited(checks) = <<"exists", "owner", "open">>
      BY <1>2, <2>4, <2>7
    <3>2. Walk(g, <<"exists", "owner", "open">>, "exists", "open")
      BY <1>1, ShortWalks
    <3>3. refused[Len(<<"exists", "owner", "open">>)] = "closed"
      OBVIOUS
    <3> HIDE DEF refused
    <3>4. refused[Len(Visited(checks))] = "closed" /\ Walk(g, Visited(checks), "exists", "open")
      BY <3>1, <3>2, <3>3
    <3> QED BY <1>1, <1>4, <3>4 DEF g, refused
  <2> QED BY <2>3, <2>5, <2>6, <2>7
<1> QED BY <1>3, <1>4

(* A cancellation is drawn to its refusal, or to the order taken off the    *)
(* book.                                                                    *)
LEMMA StockCancelShows ==
  ASSUME "walk" \in DOMAIN state, NEW c, SE!CancelOrder(c)
  PROVE  Shows(SE!StockDiagrams)
<1> DEFINE g == SE!CancelDiagram
           order == IF c.order \in DOMAIN state.orders THEN state.orders[c.order] ELSE SE!NoOrder
           side == order.side
           price == order.price
           level == state.levels[side][price]
           queue == state.queue[side][price]
           last == level.qty = order.remaining
           exists == order # SE!NoOrder
           owner == c.account = order.account
           open == order.remaining # 0
           checks == << <<"exists", exists, "no-such-order">>, <<"owner", owner, "not-owner">>,
                        <<"open", open, "order-not-open">> >>
           s == [state EXCEPT
                  !.queue[side] = IF last THEN SE!Without(@, price)
                                  ELSE [@ EXCEPT ![price] = SE!Without(queue, order.seq)],
                  !.levels[side] = IF last THEN SE!Without(@, price)
                                   ELSE [@ EXCEPT ![price] = [qty |-> level.qty - order.remaining,
                                                              count |-> level.count - 1]],
                  !.orders[c.order].cancelled = order.remaining,
                  !.orders[c.order].remaining = 0]
           refused(nodes) == <<"missing", "notOwner", "closed">>[Len(nodes)]
           gate == <<"call", "validate", "prior">>
           kept == IF last THEN "drop" ELSE "reduce"
           done == <<"remove", "level", kept, "cancelled", "outcome">>
           start(nodes) == gate \o nodes
<1>1. /\ SE!Accepted(checks) => \E outcome :
           SE!Record(c, s, <<"cancel", start(SE!Nodes(checks)) \o done>>, outcome)
      /\ ~SE!Accepted(checks) => \E outcome :
           SE!Record(c, state, <<"cancel", start(SE!Nodes(checks))
                                           \o <<refused(SE!Nodes(checks)), "outcome">> >>, outcome)
  <2>1. SE!Accepted(checks) => \E outcome :
           SE!Record(c, s, <<"cancel", start(SE!Nodes(checks)) \o done>>, outcome)
    BY ZenonT(60) DEF SE!CancelOrder
  <2>2. ~SE!Accepted(checks) => \E outcome :
           SE!Record(c, state, <<"cancel", start(SE!Nodes(checks))
                                           \o <<refused(SE!Nodes(checks)), "outcome">> >>, outcome)
    BY ZenonT(60) DEF SE!CancelOrder
  <2> HIDE DEF checks, s, start, refused, done
  <2> QED BY <2>1, <2>2
<1>2. exists \in BOOLEAN /\ owner \in BOOLEAN /\ open \in BOOLEAN
  OBVIOUS
<1>3. checks = << <<"exists", exists, "no-such-order">>, <<"owner", owner, "not-owner">>,
                  <<"open", open, "order-not-open">> >>
  OBVIOUS
<1>4. DOMAIN s = DOMAIN state
  <2> HIDE DEF order, side, price, level, queue, last
  <2> QED OBVIOUS
<1>5. kept = "drop" \/ kept = "reduce"
  OBVIOUS
<1>6. /\ "call" \in Ids(g) /\ Arrow(g, "call", "validate") /\ Arrow(g, "validate", "prior")
      /\ Arrow(g, "prior", "exists") /\ Arrow(g, "open", "remove") /\ Arrow(g, "remove", "level")
      /\ Arrow(g, "level", "drop") /\ Arrow(g, "level", "reduce")
      /\ Arrow(g, "drop", "cancelled") /\ Arrow(g, "reduce", "cancelled")
      /\ Arrow(g, "cancelled", "outcome") /\ Arrow(g, "missing", "outcome")
      /\ Arrow(g, "notOwner", "outcome") /\ Arrow(g, "closed", "outcome")
  BY StockCancelArrows
<1>7. g = SE!StockDiagrams["cancel"]
  BY DEF SE!StockDiagrams
<1> HIDE DEF exists, owner, open, checks
<1>8. \/ Refused(checks) = {} /\ Walk(g, Visited(checks), "exists", "open")
      \/ /\ Refused(checks) # {}
         /\ \E y \in {"missing", "notOwner", "closed"} : \E z :
              /\ refused(Visited(checks)) = y
              /\ Walk(g, Visited(checks), "exists", z)
              /\ Arrow(g, z, y)
  BY SMTT(30), <1>2, <1>3, CancelWays
<1>9. SE!Nodes(checks) = Visited(checks) /\ (SE!Accepted(checks) <=> Refused(checks) = {})
  BY ChecksAreVisited, AcceptedUnlessRefused
<1> HIDE DEF g, s, kept, refused
<1>10. Walk(g, gate, "call", "prior")
  BY <1>6, ShortWalks
<1> HIDE DEF gate
<1>11. CASE Refused(checks) = {}
  <2> DEFINE path == start(Visited(checks)) \o done
  <2>1. PICK outcome : SE!Record(c, s, <<"cancel", path>>, outcome)
    BY <1>1, <1>9, <1>11
  <2>2. Walk(g, Visited(checks), "exists", "open")
    BY <1>8, <1>11
  <2>3. Arrow(g, "level", kept) /\ Arrow(g, kept, "cancelled")
    BY <1>5, <1>6
  <2>4. Walk(g, done, "remove", "outcome")
    BY <1>6, <2>3, ShortWalks
  <2> HIDE DEF done
  <2>5. Walk(g, path, "call", "outcome")
    BY <1>6, <1>10, <2>2, <2>4, WalkThrough
  <2> HIDE DEF path, start
  <2>6. state'.walk = <<"cancel", path>> /\ DOMAIN state' = DOMAIN state
    BY <1>4, <2>1, CommandsAreNoted
  <2> QED BY <1>6, <1>7, <2>5, <2>6, ShownAs
<1>12. CASE Refused(checks) # {}
  <2>1. PICK y \in {"missing", "notOwner", "closed"} : \E z :
          /\ refused(Visited(checks)) = y
          /\ Walk(g, Visited(checks), "exists", z)
          /\ Arrow(g, z, y)
    BY <1>8, <1>12
  <2>2. PICK z : Walk(g, Visited(checks), "exists", z) /\ Arrow(g, z, y)
    BY <2>1
  <2> DEFINE end == <<y, "outcome">>
             path == start(Visited(checks)) \o end
  <2>3. PICK outcome : SE!Record(c, state, <<"cancel", path>>, outcome)
    BY <1>1, <1>9, <1>12, <2>1
  <2>4. Walk(g, end, y, "outcome")
    BY <1>6, ShortWalks
  <2> HIDE DEF end
  <2>5. Walk(g, path, "call", "outcome")
    BY <1>6, <1>10, <2>2, <2>4, WalkThrough
  <2> HIDE DEF path, start
  <2>6. state'.walk = <<"cancel", path>> /\ DOMAIN state' = DOMAIN state
    BY <2>3, CommandsAreNoted
  <2> QED BY <1>6, <1>7, <2>5, <2>6, ShownAs
<1> QED BY <1>11, <1>12

(* A repeated request is shown where its first one was.                     *)
LEMMA StockAgainShows ==
  ASSUME "walk" \in DOMAIN state, NEW c, NEW again \in {"dup", "conflict"},
         SE!Replay(c, SE!Repeated(c, again)) \/ SE!Conflict(c, SE!Repeated(c, again))
  PROVE  Shows(SE!StockDiagrams)
<1>1. state'.walk = SE!Repeated(c, again) /\ DOMAIN state' = DOMAIN state
  BY CommandsAreNoted
<1>2. CASE c.type = "submit"
  <2> DEFINE g == SE!MatchDiagram
             path == <<"event", "replay", again>>
  <2>1. SE!Repeated(c, again) = <<"match", path>>
    BY <1>2 DEF SE!Repeated
  <2>2. /\ "event" \in Ids(g) /\ Arrow(g, "event", "replay")
        /\ Arrow(g, "replay", "dup") /\ Arrow(g, "replay", "conflict")
    BY MatchArrows
  <2>3. g = SE!StockDiagrams["match"]
    BY DEF SE!StockDiagrams
  <2> HIDE DEF g
  <2>4. Walk(g, path, "event", again)
    BY <2>2, ShortWalks
  <2> HIDE DEF path
  <2> QED BY <1>1, <2>1, <2>2, <2>3, <2>4, ShownAs
<1>3. CASE c.type # "submit"
  <2> DEFINE g == SE!CancelDiagram
             last == IF again = "dup" THEN "replay" ELSE again
             path == <<"call", "validate", "prior", last>>
  <2>1. SE!Repeated(c, again) = <<"cancel", path>>
    BY <1>3 DEF SE!Repeated
  <2>2. /\ "call" \in Ids(g) /\ Arrow(g, "call", "validate") /\ Arrow(g, "validate", "prior")
        /\ Arrow(g, "prior", "replay") /\ Arrow(g, "prior", "conflict")
    BY StockCancelArrows
  <2>3. g = SE!StockDiagrams["cancel"]
    BY DEF SE!StockDiagrams
  <2>4. last = "replay" \/ last = "conflict"
    OBVIOUS
  <2> HIDE DEF g, last
  <2>5. Walk(g, path, "call", last)
    BY <2>2, <2>4, ShortWalks
  <2> HIDE DEF path
  <2> QED BY <1>1, <2>1, <2>2, <2>3, <2>5, ShownAs
<1> QED BY <1>2, <1>3

(* So everything the stock exchange does is drawn.                          *)
LEMMA StockShows ==
  ASSUME StockInv, SE!StockStep
  PROVE  Shows(SE!StockDiagrams)
<1>1. PICK c \in StockCommands :
        \/ SE!SubmitLimitOrder(c) \/ SE!CancelOrder(c)
        \/ SE!Replay(c, SE!Repeated(c, "dup")) \/ SE!Conflict(c, SE!Repeated(c, "conflict"))
  BY DEF SE!StockStep, StockCommands
<1>2. "walk" \in DOMAIN state
  BY DEF StockInv, StockFields
<1> QED BY <1>1, <1>2, SubmitShows, StockCancelShows, StockAgainShows

-----------------------------------------------------------------------------
(* Nothing is done that the page does not show.                             *)

Modules == {"ticketing-system", "payment-system", "stock-exchange", "hotel-reservation",
            "job-scheduler", "bank-transfer", "auction"}

(* Where an entry is can be read: a solution's node, a command's walk.      *)
WalksInv ==
  /\ entry \in Slugs => SolutionGood
  /\ entry \in Modules => "walk" \in DOMAIN state

(* Every entry starts where its page can be read, ...                       *)
LEMMA WalksBegin == Init => WalksInv
<1> SUFFICES ASSUME Init PROVE WalksInv
  OBVIOUS
<1>1. Slugs \cap Modules = {} /\ "layout" \notin Slugs
  BY EntriesAssumption DEF Modules
<1>2. CASE SolutionInit
  <2>1. entry \in Slugs
    BY <1>2 DEF SolutionInit
  <2> QED BY <1>1, <1>2, <2>1, SolutionsBegin DEF WalksInv
<1>3. CASE entry = "layout"
  BY <1>1, <1>3 DEF WalksInv, Modules
<1>4. CASE entry \in Modules /\ ~SolutionInit
  <2>1. "walk" \in DOMAIN state
    <3>1. CASE entry = "ticketing-system"
      BY <1>4, <3>1 DEF Init, TS!TicketingInit
    <3>2. CASE entry = "payment-system"
      BY <1>4, <3>2 DEF Init, PS!PaymentInit
    <3>3. CASE entry = "stock-exchange"
      BY <1>4, <3>3 DEF Init, SE!StockInit
    <3>4. CASE entry = "hotel-reservation"
      BY <1>4, <3>4 DEF Init, HR!HotelInit
    <3>5. CASE entry = "job-scheduler"
      BY <1>4, <3>5 DEF Init, JS!JobInit
    <3>6. CASE entry = "bank-transfer"
      BY <1>4, <3>6 DEF Init, BT!BankInit
    <3>7. CASE entry = "auction"
      BY <1>4, <3>7 DEF Init, AU!AuctionInit
    <3> QED BY <1>4, <3>1, <3>2, <3>3, <3>4, <3>5, <3>6, <3>7 DEF Modules
  <2> QED BY <1>1, <1>4, <2>1 DEF WalksInv
<1> QED BY <1>2, <1>3, <1>4 DEF Init, Modules

(* Every module shows what it does.                                         *)
LEMMA ModulesShow ==
  ASSUME WalksInv, BooksInv, entry \in Modules, ModuleStep
  PROVE  Shows(DiagramsOf(entry))
<1>1. "walk" \in DOMAIN state
  BY DEF WalksInv
<1>2. CASE entry = "ticketing-system"
  <2>1. TS!TicketingStep /\ DiagramsOf(entry) = TS!TicketingDiagrams
    BY <1>2 DEF ModuleStep, DiagramsOf
  <2> QED BY <1>1, <2>1, TicketingShows
<1>3. CASE entry = "payment-system"
  <2>1. PS!PaymentStep /\ DiagramsOf(entry) = PS!PaymentDiagrams
    BY <1>3 DEF ModuleStep, DiagramsOf
  <2> QED BY <1>1, <2>1, PaymentsShow
<1>4. CASE entry = "stock-exchange"
  <2>1. SE!StockStep /\ DiagramsOf(entry) = SE!StockDiagrams /\ StockInv
    BY <1>4 DEF ModuleStep, DiagramsOf, BooksInv
  <2> QED BY <2>1, StockShows
<1>5. CASE entry = "hotel-reservation"
  <2>1. HR!HotelStep /\ DiagramsOf(entry) = HR!HotelDiagrams
    BY <1>5 DEF ModuleStep, DiagramsOf
  <2> QED BY <1>1, <2>1, HotelsShow
<1>6. CASE entry = "job-scheduler"
  <2>1. JS!JobStep /\ DiagramsOf(entry) = JS!JobDiagrams
    BY <1>6 DEF ModuleStep, DiagramsOf
  <2> QED BY <1>1, <2>1, JobsShow
<1>7. CASE entry = "bank-transfer"
  <2>1. BT!BankStep /\ DiagramsOf(entry) = BT!BankDiagrams
    BY <1>7 DEF ModuleStep, DiagramsOf
  <2> QED BY <1>1, <2>1, BankShows
<1>8. CASE entry = "auction"
  <2>1. AU!AuctionStep /\ DiagramsOf(entry) = AU!AuctionDiagrams
    BY <1>8 DEF ModuleStep, DiagramsOf
  <2> QED BY <1>1, <2>1, AuctionShows
<1> QED BY <1>2, <1>3, <1>4, <1>5, <1>6, <1>7, <1>8 DEF Modules

(* ... and stays so; each of its steps is drawn.                            *)
LEMMA WalksGoOn ==
  ASSUME WalksInv, BooksInv, [Next]_vars
  PROVE  WalksInv' /\ (Drawn \/ vars' = vars)
<1>1. /\ Slugs \cap Modules = {} /\ "layout" \notin Slugs \cup Modules
      /\ DOMAIN ModuleCommands \subseteq Modules
  BY EntriesAssumption DEF Modules
<1>2. CASE SolutionStep
  <2>1. entry \in Slugs => <<state.at, state'.at>> \in SolutionArrows[entry] /\ SolutionGood'
    BY <1>2, SolutionsDrawn DEF WalksInv
  <2>2. entry' = entry /\ entry \notin Modules /\ entry # "layout"
    BY <1>2 DEF SolutionStep, Modules
  <2>3. Slugs' = Slugs
    BY DEF Slugs
  <2> QED BY <1>1, <2>1, <2>2, <2>3 DEF WalksInv, Drawn
<1>3. CASE ModuleStep
  <2>1. entry' = entry /\ (entry = "layout" \/ entry \in Modules)
    BY <1>3 DEF ModuleStep, Modules
  <2>2. CASE entry = "layout"
    BY <1>1, <2>1, <2>2 DEF WalksInv, Drawn
  <2>3. CASE entry \in Modules
    <3>1. Shows(DiagramsOf(entry))
      BY <1>3, <2>3, ModulesShow
    <3>2. entry \notin Slugs /\ "walk" \in DOMAIN state'
      BY <1>1, <2>3, <3>1 DEF Shows, WalksInv
    <3>3. Drawn
      BY <3>1, <3>2 DEF Shows, Drawn
    <3> QED BY <2>1, <3>2, <3>3 DEF WalksInv
  <2> QED BY <2>1, <2>2, <2>3
<1>4. CASE vars' = vars
  <2>1. state' = state /\ entry' = entry
    BY <1>4 DEF vars
  <2>2. SolutionGood => SolutionGood'
    BY <2>1 DEF SolutionGood, AntiGood, At
  <2> QED BY <1>4, <2>1, <2>2 DEF WalksInv
<1> QED BY <1>2, <1>3, <1>4 DEF Next

(* Whatever a solution runs on and a module is sent, what the code does is *)
(* on the atlas' page: every step of a solution is an arrow of its          *)
(* scenario, and every command goes along the arrows of the diagram shown  *)
(* for it.                                                                  *)
THEOREM NothingUndrawn == Spec => PathsAreDrawn
<1>1. Init => WalksInv /\ BooksInv
  BY WalksBegin, BooksStart
<1>2. WalksInv /\ BooksInv /\ [Next]_vars => (WalksInv /\ BooksInv)' /\ [Drawn]_vars
  BY WalksGoOn, BooksGoOn
<1> QED BY <1>1, <1>2, PTL DEF Spec, PathsAreDrawn
===============================================================================
