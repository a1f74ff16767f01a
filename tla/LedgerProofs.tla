---------------------------- MODULE LedgerProofs ----------------------------
(***************************************************************************)
(* Proofs about the money of the exchange: what is locked stays backed,    *)
(* long and short stay balanced, orders that are over hold nothing and     *)
(* money is conserved up to rounding, for any users, orders, prices and    *)
(* deposits and for every interleaving of the services.                    *)
(***************************************************************************)
EXTENDS Ledger, OperatorProofs, SequenceTheorems

LEMMA NumDen ==
  ASSUME NEW pos \in Position \cup {None}
  PROVE  Num(pos) \in Int /\ Den(pos) \in Nat \ {0} /\ Cost(pos) = Round(Num(pos), Den(pos))
<1>1. CASE pos = None
  <2>1. Round(0, 1) = 0
    BY DEF Round
  <2> QED  BY <1>1, <2>1 DEF Num, Den, Cost
<1>2. CASE pos # None
  BY <1>2, FractionTypes DEF Num, Den, Cost
<1> QED  BY <1>1, <1>2

-----------------------------------------------------------------------------
(* The inductive invariant of Ledger.                                      *)

Accounts ==
  [users : [User -> [balance : Nat, locked : Nat]], pools : [OrderId -> Nat],
   positions : [User -> Position \cup {None}], fees : Nat, insurance : Int]

Commands == [kind : {"create", "cancel"}, id : OrderId]

\* LockedBacked, of any accounts.
Backed(A) ==
  /\ A \in Accounts
  /\ \A u \in User :
       A.users[u].locked = SumFunctionOnSet(A.pools, OrdersOf(u)) + MarginOf(A.positions[u])

\* The quantity of all long positions less that of all short ones.
Interest(A) == SumFunction([u \in User |-> Exposure(A.positions[u])])

\* Rows are typed, and no two accepted orders share a place in the stream.
RowsOK ==
  /\ rows \in [OrderId -> Row \cup {None}]
  /\ \A id \in OrderId : rows[id] # None =>
       /\ rows[id].order.id = id
       /\ rows[id].order.seq <= settled
       /\ rows[id].order.type = "limit" => rows[id].order.price \in Nat
  /\ \A i, j \in OrderId :
       /\ rows[i] # None /\ rows[j] # None
       /\ rows[i].order.seq = rows[j].order.seq /\ rows[i].order.seq > 0
       => i = j

TermsOK ==
  /\ terms \in [OrderId -> Terms \cup {None}]
  /\ \A id \in OrderId : rows[id] # None => terms[id] # None

\* Every command names an order that has a row.
CommandsOK ==
  /\ commands \in Seq(Commands)
  /\ settled \in 0..Len(commands)
  /\ \A c \in 1..Len(commands) : rows[commands[c].id] # None

\* An order that does not exist, or is over, holds no margin.
NothingHeld ==
  \A id \in OrderId : rows[id] = None \/ IsTerminal(rows[id]) => accounts.pools[id] = 0

LedgerInv ==
  /\ RowsOK
  /\ TermsOK
  /\ CommandsOK
  /\ Backed(accounts)
  /\ Interest(accounts) = 0
  /\ NothingHeld
  /\ periods \in 0..MaxPeriods

Trade == [maker : OrderId, taker : OrderId, price : Nat, qty : Nat \ {0}]

-----------------------------------------------------------------------------
(* Changes of the accounts.                                                *)

LEMMA PositionTypes ==
  ASSUME NEW pos \in Position \cup {None}
  PROVE  Exposure(pos) \in Int /\ MarginOf(pos) \in Nat
BY DEF Exposure, MarginOf, Position, Sign

LEMMA AccountOfType ==
  ASSUME RowsOK, NEW A \in Accounts, NEW id \in OrderId, rows[id] # None
  PROVE  /\ rows[id].order.user \in User
         /\ AccountOf(A, id) \in Account
         /\ AccountOf(A, id).pool = A.pools[id]
         /\ AccountOf(A, id).position = A.positions[rows[id].order.user]
         /\ AccountOf(A, id).locked = A.users[rows[id].order.user].locked
<1>1. rows[id].order.user \in User
  BY DEF RowsOK, Row, Order
<1> DEFINE u == rows[id].order.user
<1>2. /\ A.users[u] \in [balance : Nat, locked : Nat] /\ A.pools[id] \in Nat
      /\ A.positions[u] \in Position \cup {None} /\ A.fees \in Nat /\ A.insurance \in Int
  BY <1>1 DEF Accounts
<1>3. AccountOf(A, id) = [balance |-> A.users[u].balance, locked |-> A.users[u].locked,
                          pool |-> A.pools[id], position |-> A.positions[u],
                          fees |-> A.fees, insurance |-> A.insurance]
  BY DEF AccountOf
<1> HIDE DEF u
<1> QED  BY <1>1, <1>2, <1>3 DEF Account, u

(* Writing back an account that moved keeps all accounts backed.           *)
LEMMA WithAccountBacked ==
  ASSUME RowsOK, NEW A, Backed(A), NEW id \in OrderId, rows[id] # None,
         NEW b, NEW profit, NEW delta \in Int, Moved(AccountOf(A, id), b, profit, delta)
  PROVE  /\ Backed(WithAccount(A, id, b))
         /\ Interest(WithAccount(A, id, b)) = Interest(A) + delta
         /\ b.pool \in Nat /\ b.pool <= A.pools[id]
         /\ WithAccount(A, id, b).pools = [A.pools EXCEPT ![id] = b.pool]
<1> DEFINE u == rows[id].order.user
           a == AccountOf(A, id)
           B == WithAccount(A, id, b)
<1>1. /\ A \in Accounts /\ u \in User /\ a \in Account /\ a.pool = A.pools[id]
      /\ a.position = A.positions[u] /\ a.locked = A.users[u].locked
  BY AccountOfType DEF Backed
<1>2. /\ b \in Account /\ b.pool <= a.pool /\ Unbacked(b) = Unbacked(a)
      /\ Exposure(b.position) = Exposure(a.position) + delta
  BY DEF Moved
<1>3. /\ B = [A EXCEPT !.users[u] = [balance |-> b.balance, locked |-> b.locked],
                       !.pools[id] = b.pool, !.positions[u] = b.position,
                       !.fees = b.fees, !.insurance = b.insurance]
  BY DEF WithAccount
<1> HIDE DEF a, B, u
<1>4. /\ b.balance \in Nat /\ b.locked \in Int /\ b.pool \in Nat /\ b.fees \in Nat
      /\ b.insurance \in Int /\ b.position \in Position \cup {None}
      /\ a.locked \in Int /\ a.pool \in Nat /\ a.position \in Position \cup {None}
  BY <1>1, <1>2 DEF Account
<1>5. /\ A = [users |-> A.users, pools |-> A.pools, positions |-> A.positions,
              fees |-> A.fees, insurance |-> A.insurance]
      /\ A.users \in [User -> [balance : Nat, locked : Nat]]
      /\ A.pools \in [OrderId -> Nat] /\ A.positions \in [User -> Position \cup {None}]
  BY <1>1 DEF Accounts
<1>6. /\ B = [users |-> B.users, pools |-> B.pools, positions |-> B.positions,
              fees |-> B.fees, insurance |-> B.insurance]
      /\ B.users = [A.users EXCEPT ![u] = [balance |-> b.balance, locked |-> b.locked]]
      /\ B.pools = [A.pools EXCEPT ![id] = b.pool]
      /\ B.positions = [A.positions EXCEPT ![u] = b.position]
      /\ B.fees = b.fees /\ B.insurance = b.insurance
  BY <1>3, <1>5
<1>7. B.pools \in [OrderId -> Nat] /\ B.positions \in [User -> Position \cup {None}]
  BY <1>4, <1>5, <1>6
<1>8. \A v \in User : /\ OrdersOf(v) \in SUBSET OrderId /\ IsFiniteSet(OrdersOf(v))
                      /\ (id \in OrdersOf(v) <=> v = u)
  <2>1. \A v \in User : OrdersOf(v) \in SUBSET OrderId
    BY DEF OrdersOf
  <2> QED  BY <2>1, FS_Subset, LedgerAssumption DEF OrdersOf, u
<1>9. \A v \in User : SumFunctionOnSet(B.pools, OrdersOf(v)) \in Nat
  BY <1>7, <1>8, SumNat
<1>10. SumFunctionOnSet(B.pools, OrdersOf(u))
         = SumFunctionOnSet(A.pools, OrdersOf(u)) + b.pool - a.pool
  <2>1. \A i \in OrdersOf(u) : A.pools[i] \in Int /\ B.pools[i] \in Int
    BY <1>1, <1>5, <1>7, <1>8
  <2>2. \A i \in OrdersOf(u) \ {id} : A.pools[i] = B.pools[i]
    BY <1>1, <1>5, <1>6, <1>8
  <2>3. id \in OrdersOf(u) /\ B.pools[id] = b.pool /\ IsFiniteSet(OrdersOf(u))
    BY <1>1, <1>5, <1>6, <1>8
  <2> DEFINE S == OrdersOf(u)
             f == A.pools
             e == B.pools
  <2>4. \A x \in S : f[x] \in Int /\ e[x] \in Int
    BY <2>1
  <2>5. \A x \in S \ {id} : f[x] = e[x]
    BY <2>2
  <2>6. IsFiniteSet(S) /\ id \in S
    BY <2>3
  <2> HIDE DEF S, f, e
  <2>7. SumFunctionOnSet(e, S) = SumFunctionOnSet(f, S) + e[id] - f[id]
    BY <2>4, <2>5, <2>6, SumChange, Z3
  <2> QED  BY <1>1, <2>3, <2>7 DEF S, f, e
<1>11. B.users[u].locked = SumFunctionOnSet(B.pools, OrdersOf(u)) + MarginOf(B.positions[u])
  <2>1. A.users[u].locked = SumFunctionOnSet(A.pools, OrdersOf(u)) + MarginOf(A.positions[u])
    BY <1>1 DEF Backed
  <2>2. B.users[u].locked = b.locked /\ B.positions[u] = b.position
    BY <1>1, <1>5, <1>6
  <2>3. b.locked - b.pool - MarginOf(b.position) = a.locked - a.pool - MarginOf(a.position)
    BY <1>2 DEF Unbacked
  <2>4. MarginOf(b.position) \in Nat /\ MarginOf(a.position) \in Nat
    BY <1>4, PositionTypes
  <2>5. SumFunctionOnSet(A.pools, OrdersOf(u)) \in Nat
    <3>1. \A i \in OrdersOf(u) : A.pools[i] \in Nat
      BY <1>1, <1>5, <1>8
    <3> QED  BY <1>1, <1>8, <3>1, SumNat
  <2> DEFINE before == SumFunctionOnSet(A.pools, OrdersOf(u))
             after == SumFunctionOnSet(B.pools, OrdersOf(u))
             mb == MarginOf(b.position)
             ma == MarginOf(a.position)
  <2>6. /\ b.locked - b.pool - mb = a.locked - a.pool - ma /\ mb \in Nat /\ ma \in Nat
        /\ before \in Nat /\ after = before + b.pool - a.pool
        /\ a.locked = before + ma /\ b.locked \in Int /\ b.pool \in Nat /\ a.pool \in Nat
    BY <1>1, <1>4, <1>10, <2>1, <2>3, <2>4, <2>5
  <2> HIDE DEF before, after, mb, ma
  <2>7. b.locked = after + mb
    BY <2>6
  <2> QED  BY <2>2, <2>7 DEF after, mb
<1>12. ASSUME NEW v \in User, v # u
       PROVE  B.users[v].locked
                = SumFunctionOnSet(B.pools, OrdersOf(v)) + MarginOf(B.positions[v])
  <2>1. \A i \in OrdersOf(v) : A.pools[i] = B.pools[i]
    BY <1>5, <1>6, <1>8, <1>12
  <2>2. SumFunctionOnSet(A.pools, OrdersOf(v)) = SumFunctionOnSet(B.pools, OrdersOf(v))
    BY <1>8, <2>1, SumSame
  <2>3. B.users[v] = A.users[v] /\ B.positions[v] = A.positions[v]
    BY <1>5, <1>6, <1>12
  <2> QED  BY <2>2, <2>3 DEF Backed
<1>13. B.users \in [User -> [balance : Nat, locked : Nat]]
  <2>1. b.locked \in Nat
    <3>1. B.users[u].locked = b.locked /\ B.positions[u] = b.position
      BY <1>1, <1>5, <1>6
    <3>2. MarginOf(b.position) \in Nat
      BY <1>4, PositionTypes
    <3> QED  BY <1>1, <1>9, <1>11, <3>1, <3>2
  <2>2. [balance |-> b.balance, locked |-> b.locked] \in [balance : Nat, locked : Nat]
    BY <1>4, <2>1
  <2> QED  BY <1>5, <1>6, <2>2
<1>14. Backed(B)
  <2>1. B \in Accounts
    BY <1>4, <1>6, <1>7, <1>13 DEF Accounts
  <2> QED  BY <1>11, <1>12, <2>1 DEF Backed
<1>15. Interest(B) = Interest(A) + delta
  <2> DEFINE f == [v \in User |-> Exposure(A.positions[v])]
             e == [v \in User |-> Exposure(B.positions[v])]
  <2>1. \A v \in User : f[v] \in Int /\ e[v] \in Int
    BY <1>5, <1>7, PositionTypes
  <2>2. \A v \in User \ {u} : f[v] = e[v]
    BY <1>5, <1>6
  <2>3. e[u] = f[u] + delta
    BY <1>1, <1>2, <1>5, <1>6
  <2>4. Interest(A) = SumFunctionOnSet(f, User) /\ Interest(B) = SumFunctionOnSet(e, User)
    BY DEF Interest, SumFunction
  <2> HIDE DEF f, e
  <2>5. SumFunctionOnSet(e, User) = SumFunctionOnSet(f, User) + e[u] - f[u]
    BY <1>1, <2>1, <2>2, SumChange, LedgerAssumption
  <2>6. SumFunctionOnSet(f, User) \in Int /\ f[u] \in Int
    BY <1>1, <2>1, SumInt, LedgerAssumption
  <2> QED  BY <2>3, <2>4, <2>5, <2>6
<1> QED  BY <1>1, <1>2, <1>4, <1>6, <1>14, <1>15 DEF B

-----------------------------------------------------------------------------
(* Money is neither made nor lost: all there is of it, and what all        *)
(* positions cost.                                                         *)

\* What a user has gained, but for what the position cost.
Gain(A, u) == A.users[u].balance + A.users[u].locked - Deposits[u]

Total(A) == SumFunction([u \in User |-> Gain(A, u)]) + A.fees + A.insurance

\* What positions cost, exactly: cost counts units of 1 / D.
Costs(A, D, cost) ==
  /\ D \in Nat \ {0} /\ cost \in [User -> Int]
  /\ \A u \in User : cost[u] * Den(A.positions[u]) = D * Num(A.positions[u])

\* What all have gained, with flow still to come, is within half a unit of money
\* for each side settled.
Conserved(A, flow, sides) ==
  \E D, cost : /\ Costs(A, D, cost)
               /\ Within(2 * (D * (Total(A) + flow) - SumFunctionOnSet(cost, User)), D * sides)

\* Two sides of every trade are settled.
MoneyInv == fills \in Seq(Trade) /\ Conserved(accounts, 0, 2 * Len(fills))

LEMMA TotalInt ==
  ASSUME NEW A \in Accounts
  PROVE  Total(A) \in Int /\ \A u \in User : Gain(A, u) \in Int
<1> DEFINE f == [u \in User |-> Gain(A, u)]
<1>1. /\ A.users \in [User -> [balance : Nat, locked : Nat]] /\ A.fees \in Nat
      /\ A.insurance \in Int
  BY DEF Accounts
<1>2. ASSUME NEW u \in User PROVE Gain(A, u) \in Int
  <2>1. A.users[u].balance \in Nat /\ A.users[u].locked \in Nat /\ Deposits[u] \in Nat
    BY <1>1, LedgerAssumption
  <2> QED  BY <2>1 DEF Gain
<1>3. \A u \in User : f[u] \in Int
  BY <1>2
<1>4. Total(A) = SumFunctionOnSet(f, User) + A.fees + A.insurance
  BY DEF Total, SumFunction
<1> HIDE DEF f
<1>5. SumFunctionOnSet(f, User) \in Int
  BY <1>3, SumInt, LedgerAssumption
<1> QED  BY <1>1, <1>2, <1>4, <1>5

\* As much money in B as in A, and positions that cost the same.
SameMoney(A, B) ==
  /\ Total(B) = Total(A)
  /\ \A u \in User : /\ Num(B.positions[u]) = Num(A.positions[u])
                     /\ Den(B.positions[u]) = Den(A.positions[u])

(* What is conserved depends on how much there is, and on what positions   *)
(* cost, alone.                                                            *)
LEMMA ConservedSame ==
  ASSUME NEW A, NEW B, NEW flow, NEW sides, Conserved(A, flow, sides), SameMoney(A, B)
  PROVE  Conserved(B, flow, sides)
<1>1. PICK D, cost :
        /\ Costs(A, D, cost)
        /\ Within(2 * (D * (Total(A) + flow) - SumFunctionOnSet(cost, User)), D * sides)
  BY Zenon DEF Conserved
<1>2. Costs(B, D, cost) /\ Total(B) = Total(A)
  BY <1>1, Zenon DEF Costs, SameMoney
<1> QED  BY <1>1, <1>2, Zenon DEF Conserved

(* Writing back an account that moved.                                     *)
LEMMA WrittenBack ==
  ASSUME RowsOK, NEW A \in Accounts, NEW id \in OrderId, rows[id] # None, NEW b \in Account,
         WithAccount(A, id, b) \in Accounts
  PROVE  /\ \E money \in Int : /\ Money(b) = Money(AccountOf(A, id)) + money
                               /\ Total(WithAccount(A, id, b)) = Total(A) + money
         /\ Money(AccountOf(A, id)) \in Int /\ rows[id].order.user \in User
         /\ WithAccount(A, id, b).positions
              = [A.positions EXCEPT ![rows[id].order.user] = b.position]
         /\ AccountOf(A, id).position = A.positions[rows[id].order.user]
<1> DEFINE u == rows[id].order.user
           B == WithAccount(A, id, b)
           f == [v \in User |-> Gain(A, v)]
           g == [v \in User |-> Gain(B, v)]
           F == SumFunctionOnSet(f, User)
           G == SumFunctionOnSet(g, User)
<1>1. u \in User /\ AccountOf(A, id).position = A.positions[u]
  BY AccountOfType
<1>2. /\ A.users \in [User -> [balance : Nat, locked : Nat]]
      /\ A.positions \in [User -> Position \cup {None}]
      /\ A = [users |-> A.users, pools |-> A.pools, positions |-> A.positions,
              fees |-> A.fees, insurance |-> A.insurance]
      /\ A.fees \in Int /\ A.insurance \in Int /\ b.fees \in Int /\ b.insurance \in Int
      /\ b.balance \in Int /\ b.locked \in Int
  BY DEF Accounts, Account
<1>3. B = [A EXCEPT !.users[u] = [balance |-> b.balance, locked |-> b.locked],
                    !.pools[id] = b.pool, !.positions[u] = b.position,
                    !.fees = b.fees, !.insurance = b.insurance]
  BY DEF WithAccount
<1>4. Money(AccountOf(A, id))
        = A.users[u].balance + A.users[u].locked + A.fees + A.insurance
  BY DEF AccountOf, Money
<1> HIDE DEF B, u
<1>5. /\ B.users = [A.users EXCEPT ![u] = [balance |-> b.balance, locked |-> b.locked]]
      /\ B.positions = [A.positions EXCEPT ![u] = b.position]
      /\ B.fees = b.fees /\ B.insurance = b.insurance
  BY <1>2, <1>3
<1>6. /\ \A v \in User : f[v] \in Int /\ g[v] \in Int
      /\ Total(A) = F + A.fees + A.insurance /\ Total(B) = G + b.fees + b.insurance
  <2>1. B \in Accounts
    BY DEF B
  <2> QED  BY <1>5, <2>1, TotalInt DEF Total, SumFunction
<1>7. \A v \in User \ {u} : f[v] = g[v]
  <2> SUFFICES ASSUME NEW v \in User, v # u PROVE Gain(A, v) = Gain(B, v)
    OBVIOUS
  <2>1. B.users[v] = A.users[v]
    BY <1>2, <1>5
  <2> QED  BY <2>1 DEF Gain
<1>8. /\ f[u] = A.users[u].balance + A.users[u].locked - Deposits[u]
      /\ g[u] = b.balance + b.locked - Deposits[u]
      /\ Deposits[u] \in Int /\ A.users[u].balance \in Int /\ A.users[u].locked \in Int
  <2>1. B.users[u].balance = b.balance /\ B.users[u].locked = b.locked
    BY <1>1, <1>2, <1>5
  <2>2. Deposits[u] \in Int /\ A.users[u].balance \in Int /\ A.users[u].locked \in Int
    BY <1>1, <1>2, LedgerAssumption
  <2> QED  BY <1>1, <2>1, <2>2 DEF Gain
<1>9. F \in Int /\ G = F + g[u] - f[u]
  <2> HIDE DEF f, g
  <2>1. \A v \in User : f[v] \in Int /\ g[v] \in Int
    BY <1>6
  <2>2. IsFiniteSet(User)
    BY LedgerAssumption
  <2>3. SumFunctionOnSet(g, User) = SumFunctionOnSet(f, User) + g[u] - f[u]
    BY <1>1, <1>7, <2>1, <2>2, SumChange
  <2>4. F \in Int
    BY <2>1, <2>2, SumInt
  <2> QED  BY <2>3, <2>4
<1> HIDE DEF F, G, f, g
<1> DEFINE x == A.users[u].balance
           y == A.users[u].locked
           money == b.balance + b.locked + b.fees + b.insurance - (x + y + A.fees + A.insurance)
<1>10. money \in Int /\ Money(AccountOf(A, id)) \in Int
  BY <1>2, <1>4, <1>8
<1>11. Money(b) = Money(AccountOf(A, id)) + money
  BY <1>2, <1>4, <1>8 DEF Money
<1>12. Total(B) = Total(A) + money
  BY <1>2, <1>6, <1>8, <1>9
<1> HIDE DEF money
<1> QED  BY <1>1, <1>5, <1>10, <1>11, <1>12 DEF B, u

(* Giving an order's reserve back.                                         *)
LEMMA RefundSame ==
  ASSUME RowsOK, NEW A, Backed(A), NEW id \in OrderId, rows[id] # None
  PROVE  SameMoney(A, WithAccount(A, id, Refunded(AccountOf(A, id))))
<1> DEFINE a == AccountOf(A, id)
           b == Refunded(a)
           B == WithAccount(A, id, b)
           u == rows[id].order.user
<1>1. A \in Accounts /\ a \in Account
  BY AccountOfType DEF Backed
<1>2. Moved(a, b, 0, 0) /\ b.position = a.position
  <2>1. Moved(a, b, 0, 0)
    <3> HIDE DEF a
    <3> QED  BY <1>1, RefundMovesMoney
  <2>2. b.position = a.position
    <3> HIDE DEF a
    <3> QED  BY <1>1 DEF Refunded, Account
  <2> QED  BY <2>1, <2>2
<1> HIDE DEF b
<1>3. B \in Accounts
  <2>1. /\ Backed(B) /\ Interest(B) = Interest(A) + 0
        /\ B.pools = [A.pools EXCEPT ![id] = b.pool]
    BY <1>2, WithAccountBacked
  <2> HIDE DEF B
  <2> QED  BY <2>1 DEF Backed
<1>4. /\ b \in Account /\ Money(b) = Money(a) + 0
  BY <1>2 DEF Moved
<1>5. /\ \E money \in Int : /\ Money(b) = Money(a) + money
                            /\ Total(B) = Total(A) + money
      /\ Money(a) \in Int /\ u \in User
      /\ B.positions = [A.positions EXCEPT ![u] = b.position]
      /\ a.position = A.positions[u]
  <2>1. WithAccount(A, id, b) \in Accounts
    BY <1>3
  <2> QED  BY <1>1, <1>4, <2>1, WrittenBack
<1>6. Total(A) \in Int /\ A.positions \in [User -> Position \cup {None}]
  BY <1>1, TotalInt DEF Accounts
<1> HIDE DEF a, B, u
<1>7. Total(B) = Total(A)
  BY <1>4, <1>5, <1>6
<1>8. \A v \in User : B.positions[v] = A.positions[v]
  BY <1>2, <1>5, <1>6
<1>9. SameMoney(A, B)
  BY <1>7, <1>8 DEF SameMoney
<1> QED  BY <1>9 DEF B, b, a

-----------------------------------------------------------------------------
(* New orders.                                                             *)

\* What a new row can be made of.
Asked(req) ==
  /\ req.user \in User /\ req.side \in Sides /\ req.type \in OrderTypes
  /\ req.price \in Int /\ req.qty \in Nat \ {0}
  /\ req.type = "limit" => req.price \in Nat

LEMMA NewRowOK ==
  ASSUME RowsOK, NEW id \in OrderId, rows[id] = None, NEW req, Asked(req),
         rows' = [rows EXCEPT ![id] = NewRow(id, req)], settled' = settled, settled \in Nat
  PROVE  /\ RowsOK'
         /\ rows'[id] # None /\ rows'[id].status = "open" /\ rows'[id].order.user = req.user
         /\ \A i \in OrderId : i # id => rows'[i] = rows[i]
         /\ \A u \in User : /\ id \notin OrdersOf(u) /\ IsFiniteSet(OrdersOf(u))
                            /\ OrdersOf(u) \in SUBSET OrderId
                            /\ u = req.user => OrdersOf(u)' = OrdersOf(u) \cup {id}
                            /\ u # req.user => OrdersOf(u)' = OrdersOf(u)
<1> DEFINE row == NewRow(id, req)
<1>1. /\ row \in Row /\ row.status = "open" /\ row.order.user = req.user
      /\ row.order.id = id /\ row.order.seq = 0 /\ row.order.type = req.type
      /\ row.order.price = req.price
  BY DEF NewRow, Asked, Row, Order, Statuses
<1>2. row # None
  BY <1>1, LedgerAssumption
<1> HIDE DEF row
<1>3. /\ rows' \in [OrderId -> Row \cup {None}] /\ rows'[id] = row
      /\ \A i \in OrderId : i # id => rows'[i] = rows[i]
  BY <1>1 DEF RowsOK, row
<1>4. RowsOK'
  <2>1. \A i \in OrderId : rows'[i] # None =>
          /\ rows'[i].order.id = i
          /\ rows'[i].order.seq <= settled'
          /\ rows'[i].order.type = "limit" => rows'[i].order.price \in Nat
    BY <1>1, <1>3 DEF RowsOK, Asked
  <2>2. \A i, j \in OrderId :
          /\ rows'[i] # None /\ rows'[j] # None
          /\ rows'[i].order.seq = rows'[j].order.seq /\ rows'[i].order.seq > 0
          => i = j
    BY <1>1, <1>3 DEF RowsOK
  <2> QED  BY <1>3, <2>1, <2>2 DEF RowsOK
<1>5. ASSUME NEW u \in User
      PROVE  /\ id \notin OrdersOf(u) /\ IsFiniteSet(OrdersOf(u))
             /\ OrdersOf(u) \in SUBSET OrderId
             /\ u = req.user => OrdersOf(u)' = OrdersOf(u) \cup {id}
             /\ u # req.user => OrdersOf(u)' = OrdersOf(u)
  <2>1. OrdersOf(u) \in SUBSET OrderId /\ id \notin OrdersOf(u)
    BY DEF OrdersOf
  <2>2. IsFiniteSet(OrdersOf(u))
    BY <2>1, FS_Subset, LedgerAssumption
  <2>3. \A i \in OrderId : i \in OrdersOf(u)' <=> rows'[i] # None /\ rows'[i].order.user = u
    BY DEF OrdersOf
  <2>4. OrdersOf(u)' \in SUBSET OrderId
    BY DEF OrdersOf
  <2>5. \A i \in OrderId : i \in OrdersOf(u) <=> rows[i] # None /\ rows[i].order.user = u
    BY DEF OrdersOf
  <2>6. id \in OrdersOf(u)' <=> u = req.user
    BY <1>1, <1>2, <1>3, <2>3
  <2>7. \A i \in OrderId : i # id => (i \in OrdersOf(u)' <=> i \in OrdersOf(u))
    BY <1>3, <2>3, <2>5
  <2> HIDE DEF OrdersOf
  <2>8. u = req.user => OrdersOf(u)' = OrdersOf(u) \cup {id}
    BY <2>1, <2>4, <2>6, <2>7
  <2>9. u # req.user => OrdersOf(u)' = OrdersOf(u)
    BY <2>1, <2>4, <2>6, <2>7
  <2> QED  BY <2>1, <2>2, <2>8, <2>9
<1> QED  BY <1>1, <1>2, <1>3, <1>4, <1>5

(* Reserving part of a balance for a new order, or nothing.                *)
LEMMA ReservedOK ==
  ASSUME LedgerInv, NEW id \in OrderId, rows[id] = None, NEW req, Asked(req),
         rows' = [rows EXCEPT ![id] = NewRow(id, req)], settled' = settled,
         NEW reserve \in Nat, reserve <= accounts.users[req.user].balance,
         accounts' = [accounts EXCEPT
                        !.users[req.user] = [balance |-> @.balance - reserve,
                                             locked  |-> @.locked + reserve],
                        !.pools[id] = reserve]
  PROVE  RowsOK' /\ Backed(accounts)' /\ Interest(accounts)' = 0 /\ NothingHeld'
<1> DEFINE u == req.user
           A == accounts
           B == accounts'
<1>1. settled \in Nat
  BY LenProperties DEF LedgerInv, CommandsOK
<1>2. /\ RowsOK'
      /\ rows'[id] # None /\ rows'[id].status = "open" /\ rows'[id].order.user = req.user
      /\ \A i \in OrderId : i # id => rows'[i] = rows[i]
      /\ \A v \in User : /\ id \notin OrdersOf(v) /\ IsFiniteSet(OrdersOf(v))
                         /\ OrdersOf(v) \in SUBSET OrderId
                         /\ v = req.user => OrdersOf(v)' = OrdersOf(v) \cup {id}
                         /\ v # req.user => OrdersOf(v)' = OrdersOf(v)
  BY <1>1, NewRowOK DEF LedgerInv
<1>3. /\ A \in Accounts /\ u \in User
      /\ \A v \in User :
           A.users[v].locked = SumFunctionOnSet(A.pools, OrdersOf(v)) + MarginOf(A.positions[v])
      /\ A.pools[id] = 0
  BY DEF LedgerInv, Backed, Asked, NothingHeld
<1>4. /\ A = [users |-> A.users, pools |-> A.pools, positions |-> A.positions,
              fees |-> A.fees, insurance |-> A.insurance]
      /\ A.users \in [User -> [balance : Nat, locked : Nat]]
      /\ A.pools \in [OrderId -> Nat] /\ A.positions \in [User -> Position \cup {None}]
      /\ A.fees \in Nat /\ A.insurance \in Int
  BY <1>3 DEF Accounts
<1> DEFINE after == [balance |-> A.users[u].balance - reserve, locked |-> A.users[u].locked + reserve]
<1>5. after \in [balance : Nat, locked : Nat]
  BY <1>3, <1>4
<1>6. after.locked = A.users[u].locked + reserve
  OBVIOUS
<1>7. /\ B = [users |-> B.users, pools |-> B.pools, positions |-> B.positions,
              fees |-> B.fees, insurance |-> B.insurance]
      /\ B.users = [A.users EXCEPT ![u] = after]
      /\ B.pools = [A.pools EXCEPT ![id] = reserve]
      /\ B.positions = A.positions /\ B.fees = A.fees /\ B.insurance = A.insurance
  BY <1>3, <1>4
<1> HIDE DEF after, A, B, u
<1>8. B \in Accounts
  BY <1>4, <1>5, <1>7 DEF Accounts
<1>9. ASSUME NEW v \in User
      PROVE  B.users[v].locked
               = SumFunctionOnSet(B.pools, OrdersOf(v)') + MarginOf(B.positions[v])
  <2> DEFINE S == OrdersOf(v)
             f == A.pools
             e == B.pools
  <2>1. id \notin S /\ IsFiniteSet(S) /\ S \in SUBSET OrderId
    BY <1>2
  <2>2. SumFunctionOnSet(e, S) = SumFunctionOnSet(f, S)
    <3>1. \A i \in S : e[i] = f[i]
      BY <1>4, <1>7, <2>1
    <3> HIDE DEF S, f, e
    <3> QED  BY <2>1, <3>1, SumSame
  <2>3. A.users[v].locked = SumFunctionOnSet(f, S) + MarginOf(B.positions[v])
    BY <1>3, <1>7
  <2>4. CASE v = u
    <3>1. OrdersOf(v)' = S \cup {id}
      BY <1>2, <2>4 DEF u
    <3>2. SumFunctionOnSet(e, S \cup {id}) = SumFunctionOnSet(e, S) + e[id]
      <4>1. \A i \in S \cup {id} : e[i] \in Int
        BY <1>4, <1>7, <2>1
      <4> HIDE DEF S, e
      <4> QED  BY <2>1, <4>1, SumAdd
    <3>3. e[id] = reserve /\ B.users[v].locked = A.users[v].locked + reserve
      BY <1>3, <1>4, <1>6, <1>7, <2>4
    <3>4. SumFunctionOnSet(e, S) \in Int
      <4>1. \A i \in S : e[i] \in Int
        BY <1>4, <1>7, <2>1
      <4> HIDE DEF S, e
      <4> QED  BY <2>1, <4>1, SumInt
    <3>5. MarginOf(B.positions[v]) \in Nat
      BY <1>4, <1>7, PositionTypes
    <3> HIDE DEF S, e, f
    <3> QED  BY <2>2, <2>3, <3>1, <3>2, <3>3, <3>4, <3>5 DEF e
  <2>5. CASE v # u
    <3>1. OrdersOf(v)' = S /\ B.users[v] = A.users[v]
      BY <1>2, <1>4, <1>7, <2>5 DEF u
    <3> QED  BY <2>2, <2>3, <3>1
  <2> QED  BY <2>4, <2>5
<1>10. Backed(accounts)'
  BY <1>8, <1>9 DEF Backed, B
<1>11. Interest(accounts)' = 0
  BY <1>7 DEF LedgerInv, Interest, A, B
<1>12. NothingHeld'
  <2> SUFFICES ASSUME NEW i \in OrderId, rows'[i] = None \/ IsTerminal(rows'[i])
               PROVE  B.pools[i] = 0
    BY DEF NothingHeld, IsTerminal, B
  <2>1. i # id
    BY <1>2 DEF IsTerminal, Terminal
  <2>2. A.pools[i] = 0
    BY <1>2, <2>1 DEF LedgerInv, NothingHeld, A
  <2> QED  BY <1>4, <1>7, <2>1, <2>2
<1> QED  BY <1>2, <1>10, <1>11, <1>12

-----------------------------------------------------------------------------
(* The actions of the API.                                                 *)

LEMMA LedgerInit ==
  Init => LedgerInv /\ MoneyInv
<1> SUFFICES ASSUME Init PROVE LedgerInv /\ MoneyInv
  OBVIOUS
<1>1. /\ rows = [id \in OrderId |-> None] /\ commands = <<>> /\ settled = 0
      /\ terms = [id \in OrderId |-> None] /\ periods = 0
      /\ accounts = [users     |-> [u \in User |-> [balance |-> Deposits[u], locked |-> 0]],
                     pools     |-> [id \in OrderId |-> 0],
                     positions |-> [u \in User |-> None],
                     fees      |-> 0,
                     insurance |-> 0]
  BY DEF Init, ExchangeInit
<1>2. RowsOK
  BY <1>1 DEF RowsOK
<1>3. TermsOK
  BY <1>1 DEF TermsOK
<1>4. CommandsOK
  <2>1. commands \in Seq(Commands) /\ Len(commands) = 0
    BY <1>1, EmptySeq
  <2> QED  BY <1>1, <2>1 DEF CommandsOK
<1>5. accounts \in Accounts
  <2>1. \A u \in User : Deposits[u] \in Nat
    BY LedgerAssumption
  <2> QED  BY <1>1, <2>1 DEF Accounts
<1>6. Backed(accounts)
  <2> SUFFICES ASSUME NEW u \in User
               PROVE  accounts.users[u].locked
                        = SumFunctionOnSet(accounts.pools, OrdersOf(u))
                            + MarginOf(accounts.positions[u])
    BY <1>5 DEF Backed
  <2>1. OrdersOf(u) = {}
    BY <1>1 DEF OrdersOf
  <2>2. SumFunctionOnSet(accounts.pools, OrdersOf(u)) = 0
    BY <2>1, SumEmpty
  <2>3. MarginOf(accounts.positions[u]) = 0 /\ accounts.users[u].locked = 0
    BY <1>1 DEF MarginOf
  <2> QED  BY <2>2, <2>3
<1>7. Interest(accounts) = 0
  <2> DEFINE f == [u \in User |-> Exposure(accounts.positions[u])]
  <2>1. \A u \in User : f[u] = 0
    BY <1>1 DEF Exposure
  <2>2. Interest(accounts) = SumFunctionOnSet(f, User)
    BY DEF Interest, SumFunction
  <2> HIDE DEF f
  <2>3. SumFunctionOnSet(f, {}) = SumFunctionOnSet(f, User)
    <3>1. {} \in SUBSET User /\ \A u \in User : f[u] \in Int
      BY <2>1
    <3>2. \A u \in User : u \notin {} => f[u] = 0
      BY <2>1
    <3> QED  BY <3>1, <3>2, SumRest, LedgerAssumption
  <2> QED  BY <2>2, <2>3, SumEmpty
<1>8. NothingHeld
  BY <1>1 DEF NothingHeld
<1>9. periods \in 0..MaxPeriods
  BY <1>1, LedgerAssumption
<1>10. MoneyInv
  <2>1. fills = <<>> /\ fills \in Seq(Trade) /\ Len(fills) = 0
    BY EmptySeq DEF Init, ExchangeInit
  <2> DEFINE none == [u \in User |-> 0]
             A == accounts
             f == [u \in User |-> Gain(A, u)]
  <2>2. SumFunctionOnSet(none, User) = 0 /\ SumFunctionOnSet(f, User) = 0
    <3>1. \A u \in User : none[u] = 0 /\ f[u] = 0
      <4>1. \A u \in User : A.users[u].balance = Deposits[u] /\ A.users[u].locked = 0
        BY <1>1
      <4>2. \A u \in User : Deposits[u] \in Int
        BY LedgerAssumption
      <4> QED  BY <4>1, <4>2 DEF Gain
    <3>2. \A u \in User : none[u] \in Int /\ f[u] \in Int
      BY <3>1
    <3>3. {} \in SUBSET User /\ IsFiniteSet(User)
      BY LedgerAssumption
    <3> HIDE DEF none, f
    <3>4. SumFunctionOnSet(none, {}) = SumFunctionOnSet(none, User)
      BY <3>1, <3>2, <3>3, SumRest
    <3>5. SumFunctionOnSet(f, {}) = SumFunctionOnSet(f, User)
      BY <3>1, <3>2, <3>3, SumRest
    <3> QED  BY <3>4, <3>5, SumEmpty
  <2>3. Total(A) = 0
    <3>1. A.fees = 0 /\ A.insurance = 0
      BY <1>1
    <3>2. Total(A) = SumFunctionOnSet(f, User) + A.fees + A.insurance
      BY DEF Total, SumFunction
    <3> HIDE DEF f, A
    <3> QED  BY <2>2, <3>1, <3>2
  <2>4. Costs(A, 1, none)
    <3>1. \A u \in User : Den(A.positions[u]) = 1 /\ Num(A.positions[u]) = 0
      BY <1>1 DEF Num, Den
    <3> QED  BY <3>1 DEF Costs
  <2> HIDE DEF none, A
  <2>5. Within(2 * (1 * (Total(A) + 0) - SumFunctionOnSet(none, User)), 1 * 0)
    BY <2>2, <2>3 DEF Within
  <2>6. Conserved(A, 0, 0)
    BY <2>4, <2>5, Zenon DEF Conserved
  <2>7. 2 * Len(fills) = 0
    BY <2>1
  <2> QED  BY <2>1, <2>6, <2>7 DEF MoneyInv, A
<1> QED  BY <1>2, <1>3, <1>4, <1>6, <1>7, <1>8, <1>9, <1>10 DEF LedgerInv

\* What the invariant says of the accounts.
LEMMA AccountTypes ==
  ASSUME LedgerInv
  PROVE  /\ accounts \in Accounts
         /\ \A u \in User : /\ accounts.users[u].balance \in Nat
                            /\ accounts.users[u].locked \in Nat
                            /\ accounts.positions[u] \in Position \cup {None}
         /\ \A id \in OrderId : accounts.pools[id] \in Nat
BY DEF LedgerInv, Backed, Accounts

\* What it says of the stream.
LEMMA CommandTypes ==
  ASSUME LedgerInv
  PROVE  /\ Len(commands) \in Nat /\ settled \in Nat /\ settled <= Len(commands)
         /\ \A c \in 1..Len(commands) :
              /\ commands[c] \in Commands /\ commands[c].id \in OrderId
              /\ rows[commands[c].id] # None
<1>1. commands \in Seq(Commands)
  BY DEF LedgerInv, CommandsOK
<1>2. Len(commands) \in Nat /\ commands \in [1..Len(commands) -> Commands]
  BY <1>1, LenProperties
<1>3. settled \in Nat /\ settled <= Len(commands)
  BY <1>2 DEF LedgerInv, CommandsOK
<1>4. \A c \in 1..Len(commands) : commands[c] \in Commands
  BY <1>2
<1>5. \A cmd \in Commands : cmd.id \in OrderId
  BY DEF Commands
<1>6. \A c \in 1..Len(commands) : rows[commands[c].id] # None
  BY DEF LedgerInv, CommandsOK
<1> QED  BY <1>2, <1>3, <1>4, <1>5, <1>6

(* placeOrder's transaction.                                               *)
LEMMA ReserveOK ==
  ASSUME LedgerInv, NEW id \in OrderId, NEW req, Asked(req),
         NEW margin \in Nat, NEW fee \in Nat, NEW term \in Terms,
         Reserve(id, req, margin, fee, term)
  PROVE  LedgerInv' /\ fills' = fills /\ SameMoney(accounts, accounts')
<1> DEFINE reserve == Lower(accounts.users[req.user].balance, margin + fee)
<1>1. /\ rows[id] = None /\ rows' = [rows EXCEPT ![id] = NewRow(id, req)]
      /\ settled' = settled /\ commands' = commands /\ periods' = periods
      /\ terms' = [terms EXCEPT ![id] = term]
      /\ accounts' = [accounts EXCEPT
                        !.users[req.user] = [balance |-> @.balance - reserve,
                                             locked  |-> @.locked + reserve],
                        !.pools[id] = reserve]
      /\ fills' = fills
  BY DEF Reserve, PlaceRow, Users
<1>2. reserve \in Nat /\ reserve <= accounts.users[req.user].balance
  <2>1. accounts.users[req.user].balance \in Nat
    BY AccountTypes DEF Asked
  <2> QED  BY <2>1 DEF Lower
<1> HIDE DEF reserve
<1>3. RowsOK' /\ Backed(accounts)' /\ Interest(accounts)' = 0 /\ NothingHeld'
  BY <1>1, <1>2, ReservedOK
<1>4. TermsOK'
  <2>1. terms' \in [OrderId -> Terms \cup {None}] /\ terms'[id] = term /\ term # None
    BY <1>1, LedgerAssumption DEF LedgerInv, TermsOK
  <2>2. \A i \in OrderId : i # id => rows'[i] = rows[i] /\ terms'[i] = terms[i]
    BY <1>1 DEF LedgerInv, TermsOK, RowsOK
  <2> QED  BY <2>1, <2>2 DEF LedgerInv, TermsOK
<1>5. CommandsOK'
  <2>1. settled \in Nat
    BY LenProperties DEF LedgerInv, CommandsOK
  <2>2. \A i \in OrderId : rows[i] # None => rows'[i] # None
    BY <1>1, <2>1, NewRowOK DEF LedgerInv
  <2>3. \A c \in 1..Len(commands) : commands[c].id \in OrderId
    BY CommandTypes
  <2> QED  BY <1>1, <2>2, <2>3 DEF LedgerInv, CommandsOK
<1>6. SameMoney(accounts, accounts')
  <2> DEFINE A == accounts
             B == accounts'
             u == req.user
  <2>1. /\ A = [users |-> A.users, pools |-> A.pools, positions |-> A.positions,
                fees |-> A.fees, insurance |-> A.insurance]
        /\ A.users \in [User -> [balance : Nat, locked : Nat]]
    BY AccountTypes DEF Accounts
  <2>2. /\ B.positions = A.positions /\ B.fees = A.fees /\ B.insurance = A.insurance
        /\ B.users = [A.users EXCEPT ![u] = [balance |-> @.balance - reserve,
                                             locked  |-> @.locked + reserve]]
    BY <1>1, <2>1
  <2> HIDE DEF A, B, u
  <2>3. ASSUME NEW v \in User PROVE Gain(B, v) = Gain(A, v)
    <3>1. A.users[v].balance \in Nat /\ A.users[v].locked \in Nat /\ Deposits[v] \in Nat
      BY <2>1, LedgerAssumption
    <3>2. CASE v = u
      <4>1. /\ B.users[v].balance = A.users[v].balance - reserve
            /\ B.users[v].locked = A.users[v].locked + reserve
        BY <2>1, <2>2, <3>2
      <4> QED  BY <1>2, <3>1, <4>1 DEF Gain
    <3>3. CASE v # u
      <4>1. B.users[v] = A.users[v]
        BY <2>1, <2>2, <3>3
      <4> QED  BY <4>1 DEF Gain
    <3> QED  BY <3>2, <3>3
  <2>4. [v \in User |-> Gain(B, v)] = [v \in User |-> Gain(A, v)]
    BY <2>3
  <2>5. Total(B) = Total(A)
    BY <2>2, <2>4 DEF Total
  <2>6. SameMoney(A, B)
    BY <2>2, <2>5 DEF SameMoney
  <2> QED  BY <2>6 DEF A, B
<1> QED  BY <1>1, <1>3, <1>4, <1>5, <1>6 DEF LedgerInv

LEMMA SlippedInt ==
  ASSUME NEW price \in Nat, NEW percent \in Nat, NEW side \in Sides
  PROVE  /\ Slipped(price, percent, side) \in Int
         /\ Slipped(price, percent, "buy") \in Nat
<1>1. /\ Direction(side) \in Int /\ Direction("buy") = 1
  BY DEF Direction, Sides
<1>2. price * (100 + Direction(side) * percent) \in Int /\ price * (100 + 1 * percent) \in Nat
  BY <1>1
<1>3. Slipped(price, percent, side) \in Int
  BY <1>2, RoundInt DEF Slipped
<1>4. Slipped(price, percent, "buy") = Round(price * (100 + 1 * percent), 100)
  BY <1>1 DEF Slipped
<1> QED  BY <1>2, <1>3, <1>4, RoundNat

LEMMA OpeningQtyNat ==
  ASSUME LedgerInv, NEW u \in User, NEW side, NEW qty \in Nat
  PROVE  OpeningQty(u, side, qty) \in Nat
<1> DEFINE ids == {id \in OpenOrders(u) : rows[id].order.side = side}
           f == [id \in ids |-> rows[id].order.qty]
<1>1. ids \in SUBSET OrderId /\ \A id \in ids : rows[id] \in Row
  BY DEF OpenOrders, IsOpen, LedgerInv, RowsOK
<1>2. LeftOf(ids) \in Nat
  <2>1. \A id \in ids : f[id] \in Nat
    BY <1>1 DEF Row, Order
  <2>2. IsFiniteSet(ids)
    <3> HIDE DEF ids
    <3> QED  BY <1>1, FS_Subset, LedgerAssumption
  <2>3. LeftOf(ids) = SumFunctionOnSet(f, ids)
    BY DEF LeftOf, SumFunction
  <2> HIDE DEF f, ids
  <2> QED  BY <2>1, <2>2, <2>3, SumNat
<1> DEFINE pending == LeftOf(ids)
<1>3. Opposing(u, side) => PositionOf(u).qty - pending \in Int
  <2>1. Opposing(u, side) => PositionOf(u).qty \in Nat
    BY AccountTypes DEF Opposing, PositionOf, Position
  <2> HIDE DEF ids
  <2> QED  BY <1>2, <2>1
<1>4. OpeningQty(u, side, qty) =
        IF Opposing(u, side) THEN Positive(qty - Positive(PositionOf(u).qty - pending)) ELSE qty
  BY DEF OpeningQty
<1> HIDE DEF pending
<1> QED  BY <1>3, <1>4 DEF Positive

LEMMA PlaceOK ==
  ASSUME LedgerInv, NEW id \in OrderId, NEW req \in Requests[id], Place(id, req)
  PROVE  LedgerInv' /\ fills' = fills /\ SameMoney(accounts, accounts')
<1>1. req \in Request
  BY LedgerAssumption
<1>2. PICK at \in EnginePrices(req) :
        Reserve(id, [req EXCEPT !.price = at.price],
                Round(at.reserve * OpeningQty(req.user, req.side, req.qty), req.lev),
                Fee(at.reserve, req.qty),
                [lev |-> req.lev, reduceOnly |-> FALSE, source |-> "user"])
  BY DEF Place
<1>3. at.price \in Int /\ at.reserve \in Nat /\ (req.type = "limit" => at.price \in Nat)
  <2>1. CASE req.type = "limit"
    BY <1>1, <2>1 DEF EnginePrices, Request
  <2>2. CASE req.type # "limit"
    <3>1. PICK index \in Prices :
            at = [price   |-> Slipped(index, Percent.market, req.side),
                  reserve |-> Slipped(index, Percent.market, "buy")]
      BY <2>2 DEF EnginePrices
    <3>2. index \in Nat /\ Percent.market \in Nat /\ req.side \in Sides
      BY <1>1, LedgerAssumption DEF Request
    <3> QED  BY <2>2, <3>1, <3>2, SlippedInt
  <2> QED  BY <2>1, <2>2
<1> DEFINE asked == [req EXCEPT !.price = at.price]
           margin == Round(at.reserve * OpeningQty(req.user, req.side, req.qty), req.lev)
           fee == Fee(at.reserve, req.qty)
           term == [lev |-> req.lev, reduceOnly |-> FALSE, source |-> "user"]
<1>4. Asked(asked)
  BY <1>1, <1>3 DEF Asked, Request
<1>5. margin \in Nat
  <2>1. OpeningQty(req.user, req.side, req.qty) \in Nat /\ req.lev \in Nat \ {0}
    BY <1>1, OpeningQtyNat DEF Request
  <2>2. at.reserve * OpeningQty(req.user, req.side, req.qty) \in Nat
    BY <1>3, <2>1
  <2> QED  BY <2>1, <2>2, RoundNat
<1>6. fee \in Nat
  BY <1>1, <1>3, FeeNat DEF Request
<1>7. term \in Terms
  BY <1>1 DEF Terms, Request
<1> HIDE DEF asked, margin, fee, term
<1>8. Reserve(id, asked, margin, fee, term)
  BY <1>2 DEF asked, margin, fee, term
<1> QED  BY <1>4, <1>5, <1>6, <1>7, <1>8, ReserveOK

LEMMA CloseOK ==
  ASSUME LedgerInv, NEW id \in OrderId, NEW u \in User, Close(id, u)
  PROVE  LedgerInv' /\ fills' = fills /\ SameMoney(accounts, accounts')
<1> DEFINE pos == PositionOf(u)
           side == IF pos.side = "long" THEN "sell" ELSE "buy"
           req(index, qty) == [user |-> u, side |-> side, type |-> "market", qty |-> qty,
                               price |-> Slipped(index, Percent.market, side)]
           term == [lev |-> pos.lev, reduceOnly |-> TRUE, source |-> "close"]
<1>1. pos # None /\ \E index \in Prices, qty \in 1..pos.qty :
        Reserve(id, req(index, qty), 0, 0, term)
  BY DEF Close
<1>2. PICK index \in Prices, qty \in 1..pos.qty : Reserve(id, req(index, qty), 0, 0, term)
  BY <1>1
<1>3. pos \in Position
  BY <1>1, AccountTypes DEF PositionOf
<1>4. qty \in Nat \ {0} /\ side \in Sides /\ term \in Terms
  BY <1>3 DEF Position, Sides, Terms
<1>5. Slipped(index, Percent.market, side) \in Int
  BY <1>4, SlippedInt, LedgerAssumption
<1>6. Asked(req(index, qty))
  BY <1>4, <1>5 DEF Asked, OrderTypes
<1> HIDE DEF req, term
<1> QED  BY <1>2, <1>4, <1>6, ReserveOK

(* Commands enqueued for orders that have rows.                            *)
LEMMA EnqueuedOK ==
  ASSUME LedgerInv, NEW cmds \in Seq(Commands),
         \A c \in 1..Len(cmds) : rows[cmds[c].id] # None,
         commands' = commands \o cmds, settled' = settled,
         \A id \in OrderId : rows[id] # None => rows'[id] # None
  PROVE  CommandsOK'
<1>1. commands \in Seq(Commands) /\ Len(commands) \in Nat /\ Len(cmds) \in Nat
  BY LenProperties DEF LedgerInv, CommandsOK
<1>2. /\ commands' \in Seq(Commands) /\ Len(commands') = Len(commands) + Len(cmds)
      /\ \A c \in 1..Len(commands) + Len(cmds) :
           commands'[c] = IF c <= Len(commands) THEN commands[c] ELSE cmds[c - Len(commands)]
  BY <1>1, ConcatProperties
<1>3. settled' \in 0..Len(commands')
  BY <1>1, <1>2, CommandTypes
<1>4. \A c \in 1..Len(cmds) : cmds[c].id \in OrderId
  <2>1. \A cmd \in Commands : cmd.id \in OrderId
    BY DEF Commands
  <2>2. cmds \in [1..Len(cmds) -> Commands]
    BY LenProperties
  <2> QED  BY <2>1, <2>2
<1>5. ASSUME NEW c \in 1..Len(commands') PROVE rows'[commands'[c].id] # None
  <2>1. CASE c <= Len(commands)
    <3>1. c \in 1..Len(commands) /\ commands'[c] = commands[c]
      BY <1>1, <1>2, <2>1
    <3> QED  BY <3>1, CommandTypes
  <2>2. CASE ~(c <= Len(commands))
    <3>1. c - Len(commands) \in 1..Len(cmds) /\ commands'[c] = cmds[c - Len(commands)]
      BY <1>1, <1>2, <2>2
    <3> QED  BY <1>4, <3>1
  <2> QED  BY <2>1, <2>2
<1> QED  BY <1>2, <1>3, <1>5 DEF CommandsOK

LEMMA CommandOK ==
  ASSUME LedgerInv, NEW cmd \in Commands, Command(cmd),
         UNCHANGED <<terms, accounts, periods>>
  PROVE  LedgerInv' /\ fills' = fills /\ SameMoney(accounts, accounts')
<1>1. /\ rows[cmd.id] # None /\ commands' = Append(commands, cmd)
      /\ rows' = rows /\ settled' = settled /\ terms' = terms /\ accounts' = accounts
      /\ periods' = periods /\ fills' = fills
  BY DEF Command
<1>2. CommandsOK'
  <2>1. /\ <<cmd>> \in Seq(Commands) /\ Len(<<cmd>>) = 1 /\ <<cmd>>[1] = cmd
    OBVIOUS
  <2>2. commands' = commands \o <<cmd>>
    BY <1>1 DEF LedgerInv, CommandsOK
  <2>3. \A c \in 1..Len(<<cmd>>) : rows[<<cmd>>[c].id] # None
    BY <1>1, <2>1
  <2>4. \A id \in OrderId : rows[id] # None => rows'[id] # None
    BY <1>1
  <2> QED  BY <1>1, <2>1, <2>2, <2>3, <2>4, EnqueuedOK
<1>3. RowsOK' /\ TermsOK'
  BY <1>1 DEF LedgerInv, RowsOK, TermsOK
<1>4. Backed(accounts)' /\ Interest(accounts)' = 0 /\ NothingHeld'
  BY <1>1 DEF LedgerInv, Backed, OrdersOf, Interest, NothingHeld, IsTerminal
<1>5. SameMoney(accounts, accounts')
  BY <1>1 DEF SameMoney
<1> QED  BY <1>1, <1>2, <1>3, <1>4, <1>5 DEF LedgerInv

(* Rows that keep their users.                                             *)
LEMMA SameOwners ==
  ASSUME \A id \in OrderId : /\ rows'[id] = None <=> rows[id] = None
                             /\ rows[id] # None => rows'[id].order.user = rows[id].order.user
  PROVE  \A u : OrdersOf(u)' = OrdersOf(u)
BY DEF OrdersOf

(* A row rejected because its command could not be enqueued.               *)
LEMMA UnplaceOK ==
  ASSUME LedgerInv, NEW id \in OrderId, Unplace(id)
  PROVE  LedgerInv' /\ fills' = fills /\ SameMoney(accounts, accounts')
<1> DEFINE a == AccountOf(accounts, id)
<1>1. /\ rows[id] # None /\ rows' = [rows EXCEPT ![id].status = "rejected"]
      /\ commands' = commands /\ settled' = settled
      /\ terms' = terms /\ periods' = periods
      /\ accounts' = WithAccount(accounts, id, Refunded(a)) /\ fills' = fills
  BY DEF Unplace, Undo
<1>2. RowsOK /\ accounts \in Accounts /\ Backed(accounts) /\ Interest(accounts) = 0
  BY AccountTypes DEF LedgerInv
<1>3. rows[id] \in Row
  BY <1>1, <1>2 DEF RowsOK
<1>4. /\ rows'[id] = [order |-> rows[id].order, status |-> "rejected"]
      /\ \A i \in OrderId : i # id => rows'[i] = rows[i]
      /\ rows' \in [OrderId -> Row \cup {None}]
  <2>1. rows'[id] = [order |-> rows[id].order, status |-> "rejected"]
    BY <1>1, <1>2, <1>3 DEF RowsOK, Row
  <2>2. [order |-> rows[id].order, status |-> "rejected"] \in Row
    BY <1>3 DEF Row, Statuses, Terminal
  <2> QED  BY <1>1, <1>2, <2>1, <2>2 DEF RowsOK
<1>5. rows'[id] # None /\ rows'[id].order = rows[id].order
  <2>1. rows'[id] \in Row
    BY <1>3, <1>4 DEF Row, Statuses, Terminal
  <2> QED  BY <1>4, <2>1, LedgerAssumption
<1>6. RowsOK'
  <2>1. \A i \in OrderId : rows'[i] # None => rows[i] # None /\ rows'[i].order = rows[i].order
    BY <1>1, <1>4, <1>5
  <2> QED  BY <1>1, <1>2, <1>4, <2>1 DEF RowsOK
<1>7. TermsOK'
  BY <1>1, <1>4 DEF LedgerInv, TermsOK
<1>8. CommandsOK'
  BY <1>1, <1>4, <1>5, CommandTypes DEF LedgerInv, CommandsOK
<1>9. \A u : OrdersOf(u)' = OrdersOf(u)
  BY <1>1, <1>4, <1>5, SameOwners
<1>10. /\ Backed(accounts') /\ Interest(accounts') = Interest(accounts) + 0
       /\ accounts'.pools = [accounts.pools EXCEPT ![id] = 0]
  <2>1. Moved(a, Refunded(a), 0, 0) /\ Refunded(a).pool = 0
    BY <1>1, <1>2, AccountOfType, RefundMovesMoney
  <2> HIDE DEF a
  <2> QED  BY <1>1, <1>2, <2>1, WithAccountBacked DEF a
<1>11. Backed(accounts)' /\ Interest(accounts)' = 0
  BY <1>2, <1>9, <1>10 DEF Backed, Interest
<1>12. NothingHeld'
  BY <1>2, <1>4, <1>10 DEF LedgerInv, NothingHeld, Accounts, IsTerminal
<1>13. SameMoney(accounts, accounts')
  BY <1>1, <1>2, RefundSame
<1> QED  BY <1>1, <1>6, <1>7, <1>8, <1>11, <1>12, <1>13 DEF LedgerInv

-----------------------------------------------------------------------------
(* Liquidation.                                                            *)

LEMMA LiquidateOK ==
  ASSUME LedgerInv, NEW id \in OrderId, NEW u \in User, Liquidate(id, u)
  PROVE  LedgerInv' /\ fills' = fills /\ SameMoney(accounts, accounts')
<1> DEFINE pos == PositionOf(u)
           marked == {i \in OpenOrders(u) : rows[i].order.seq > 0}
           side == IF pos.side = "long" THEN "sell" ELSE "buy"
           req(mark) == [user |-> u, side |-> side, type |-> "market", qty |-> pos.qty,
                         price |-> Slipped(mark, Percent.liquidation, side)]
           cancelOf == [i \in marked |-> CancelOf(i)]
           S == {cancelOf[i] : i \in marked}
<1>1. /\ rows[id] = None /\ pos # None
      /\ settled' = settled /\ accounts' = accounts /\ periods' = periods
      /\ fills' = fills
      /\ terms' = [terms EXCEPT ![id] = [lev |-> pos.lev, reduceOnly |-> TRUE,
                                         source |-> "liquidation"]]
      /\ \E mark \in Prices, cancels \in SetToSeqs({CancelOf(i) : i \in marked}) :
           /\ rows' = [rows EXCEPT ![id] = NewRow(id, req(mark))]
           /\ commands' = commands \o cancels
  BY DEF Liquidate
<1>2. {CancelOf(i) : i \in marked} = S
  OBVIOUS
<1>3. PICK mark \in Prices, cancels \in SetToSeqs(S) :
        /\ rows' = [rows EXCEPT ![id] = NewRow(id, req(mark))]
        /\ commands' = commands \o cancels
  <2> HIDE DEF req, S, marked
  <2> QED  BY <1>1, <1>2
<1>4. /\ marked \in SUBSET OrderId /\ \A i \in marked : rows[i] # None
  BY DEF OpenOrders, IsOpen
<1>5. cancels \in Seq(Commands) /\ \A c \in 1..Len(cancels) : rows[cancels[c].id] # None
  <2>1. IsFiniteSet(marked)
    <3> HIDE DEF marked
    <3> QED  BY <1>4, FS_Subset, LedgerAssumption
  <2>2. IsFiniteSet(S)
    <3> HIDE DEF marked, cancelOf
    <3> QED  BY <2>1, ImageFinite
  <2>3. S \in SUBSET Commands /\ \A cmd \in S : rows[cmd.id] # None
    <3>1. \A i \in OrderId : CancelOf(i) \in Commands /\ CancelOf(i).id = i
      BY DEF CancelOf, Commands
    <3>2. \A i \in marked : cancelOf[i] \in Commands /\ rows[cancelOf[i].id] # None
      <4> HIDE DEF marked
      <4> QED  BY <1>4, <3>1
    <3> HIDE DEF marked, cancelOf
    <3> QED  BY <3>2
  <2> HIDE DEF S
  <2>4. Cardinality(S) \in Nat
    BY <2>2, FS_CardinalityType
  <2>5. cancels \in [1..Cardinality(S) -> S]
    BY DEF SetToSeqs
  <2>6. cancels \in Seq(S)
    BY <2>4, <2>5, SeqDef
  <2>7. Len(cancels) \in Nat /\ cancels \in [1..Len(cancels) -> S]
    BY <2>6, LenProperties
  <2>8. cancels \in Seq(Commands)
    BY <2>3, <2>6, SeqMonotonic
  <2> QED  BY <2>3, <2>7, <2>8
<1>6. pos \in Position
  BY <1>1, AccountTypes DEF PositionOf
<1>7. Asked(req(mark))
  <2>1. side \in Sides /\ pos.qty \in Nat \ {0}
    BY <1>6 DEF Position, Sides
  <2>2. Slipped(mark, Percent.liquidation, side) \in Int
    BY <2>1, SlippedInt, LedgerAssumption
  <2> QED  BY <2>1, <2>2 DEF Asked, OrderTypes
<1>8. req(mark).user = u
  OBVIOUS
<1> HIDE DEF req, marked, S
<1>9. RowsOK' /\ Backed(accounts)' /\ Interest(accounts)' = 0 /\ NothingHeld'
  <2> DEFINE r == req(mark)
  <2>1. accounts' = [accounts EXCEPT
                       !.users[r.user] = [balance |-> @.balance - 0, locked |-> @.locked + 0],
                       !.pools[id] = 0]
    <3>1. accounts \in Accounts /\ accounts.pools[id] = 0 /\ r.user = u
      BY <1>1, <1>8, AccountTypes DEF LedgerInv, NothingHeld
    <3>2. accounts.users[u] \in [balance : Nat, locked : Nat]
      BY <3>1 DEF Accounts
    <3>3. [balance |-> accounts.users[u].balance - 0, locked |-> accounts.users[u].locked + 0]
            = accounts.users[u]
      BY <3>2
    <3> DEFINE same == [balance |-> accounts.users[u].balance - 0,
                        locked |-> accounts.users[u].locked + 0]
    <3>4. /\ [accounts.users EXCEPT ![u] = same] = accounts.users
          /\ [accounts.pools EXCEPT ![id] = 0] = accounts.pools
      <4>1. same = accounts.users[u]
        BY <3>3
      <4> HIDE DEF same
      <4> QED  BY <3>1, <4>1 DEF Accounts
    <3>5. [accounts EXCEPT !.users[u] = same, !.pools[id] = 0]
            = [accounts EXCEPT !.users = [accounts.users EXCEPT ![u] = same],
                               !.pools = [accounts.pools EXCEPT ![id] = 0]]
      <4> HIDE DEF same
      <4> QED  BY <3>1 DEF Accounts
    <3>6. [accounts EXCEPT !.users = accounts.users, !.pools = accounts.pools] = accounts
      BY <3>1 DEF Accounts
    <3>7. accounts' = [accounts EXCEPT !.users[u] = same, !.pools[id] = 0]
      <4> HIDE DEF same
      <4> QED  BY <1>1, <3>4, <3>5, <3>6
    <3> HIDE DEF r
    <3> QED  BY <3>1, <3>7
  <2>2. 0 <= accounts.users[r.user].balance
    BY <1>8, AccountTypes
  <2>3. rows' = [rows EXCEPT ![id] = NewRow(id, r)] /\ Asked(r)
    BY <1>3, <1>7
  <2> HIDE DEF r
  <2> QED  BY <1>1, <2>1, <2>2, <2>3, ReservedOK
<1>10. \A i \in OrderId : /\ rows[i] # None => rows'[i] # None
                          /\ i # id => rows'[i] = rows[i]
  <2>1. settled \in Nat
    BY CommandTypes
  <2> QED  BY <1>1, <1>3, <1>7, <2>1, NewRowOK DEF LedgerInv
<1>11. CommandsOK'
  BY <1>1, <1>3, <1>5, <1>10, EnqueuedOK
<1>12. TermsOK'
  <2> DEFINE term == [lev |-> pos.lev, reduceOnly |-> TRUE, source |-> "liquidation"]
  <2>1. term \in Terms
    BY <1>6 DEF Terms, Position
  <2>2. term # None
    BY <2>1, LedgerAssumption
  <2>3. terms' = [terms EXCEPT ![id] = term]
    BY <1>1
  <2> HIDE DEF term
  <2> QED  BY <1>10, <2>1, <2>2, <2>3 DEF LedgerInv, TermsOK
<1>13. SameMoney(accounts, accounts')
  BY <1>1 DEF SameMoney
<1> QED  BY <1>1, <1>9, <1>11, <1>12, <1>13 DEF LedgerInv

-----------------------------------------------------------------------------
(* Funding.                                                                *)

LEMMA FundOK ==
  ASSUME LedgerInv, Fund
  PROVE  LedgerInv' /\ fills' = fills /\ SameMoney(accounts, accounts')
<1> DEFINE A == accounts
           B == accounts'
           users == A.users
           positions == A.positions
           holders == {u \in User : PositionOf(u) # None}
           payers == Payers(positions, holders, FundNum)
           receivers == holders \ payers
<1>1. /\ fills' = fills /\ rows' = rows /\ commands' = commands /\ settled' = settled /\ terms' = terms
      /\ periods < MaxPeriods /\ periods' = periods + 1
      /\ \E mark \in Prices, last \in receivers :
           B = [A EXCEPT !.users = Funded(users, positions, holders, mark, FundNum, last).users,
                         !.positions =
                           Funded(users, positions, holders, mark, FundNum, last).positions]
  BY DEF Fund
<1>2. PICK mark \in Prices, last \in receivers :
        B = [A EXCEPT !.users = Funded(users, positions, holders, mark, FundNum, last).users,
                      !.positions =
                        Funded(users, positions, holders, mark, FundNum, last).positions]
  BY <1>1
<1> DEFINE after == Funded(users, positions, holders, mark, FundNum, last)
<1>3. /\ A \in Accounts
      /\ A = [users |-> users, pools |-> A.pools, positions |-> positions,
              fees |-> A.fees, insurance |-> A.insurance]
      /\ users \in [User -> [balance : Nat, locked : Nat]]
      /\ A.pools \in [OrderId -> Nat] /\ positions \in [User -> Position \cup {None}]
      /\ A.fees \in Nat /\ A.insurance \in Int
  BY AccountTypes DEF Accounts
<1>4. /\ holders \in SUBSET User /\ holders \subseteq DOMAIN positions
      /\ \A u \in holders : positions[u] \in Position
      /\ \A u \in User : u \notin holders => positions[u] = None
  BY <1>3 DEF PositionOf
<1>5. ASSUME NEW u \in User
      PROVE  /\ SumFunctionOnSet(A.pools, OrdersOf(u)) \in Nat
             /\ users[u].locked = SumFunctionOnSet(A.pools, OrdersOf(u)) + MarginOf(positions[u])
             /\ u \in holders => positions[u].margin <= users[u].locked
  <2>1. OrdersOf(u) \in SUBSET OrderId /\ IsFiniteSet(OrdersOf(u))
    <3>1. OrdersOf(u) \in SUBSET OrderId
      BY DEF OrdersOf
    <3> QED  BY <3>1, FS_Subset, LedgerAssumption
  <2>2. \A id \in OrdersOf(u) : A.pools[id] \in Nat
    BY <1>3, <2>1
  <2>3. SumFunctionOnSet(A.pools, OrdersOf(u)) \in Nat
    BY <2>1, <2>2, SumNat
  <2>4. users[u].locked = SumFunctionOnSet(A.pools, OrdersOf(u)) + MarginOf(positions[u])
    BY DEF LedgerInv, Backed
  <2>5. u \in holders => MarginOf(positions[u]) = positions[u].margin /\ positions[u].margin \in Nat
    BY <1>4, SettlementAssumption DEF MarginOf, Position
  <2> QED  BY <2>3, <2>4, <2>5
<1>6. mark \in Nat /\ FundNum \in Int
  BY LedgerAssumption
<1>7. B.users = after.users /\ B.positions = after.positions
  BY <1>2, <1>3
<1>8. Shifted(User, users, positions, holders, after)
  <2>1. \A u \in holders : positions[u] \in Position /\ positions[u].margin <= users[u].locked
    BY <1>4, <1>5
  <2>2. IsFiniteSet(User)
    BY LedgerAssumption
  <2>3. last \in holders \ Payers(positions, holders, FundNum)
    OBVIOUS
  <2> HIDE DEF after, users, positions, holders
  <2> QED  BY <1>3, <1>4, <1>6, <2>1, <2>2, <2>3, FundedMoves DEF after
<1> HIDE DEF after
<1>10. /\ DOMAIN after.users = User /\ DOMAIN after.positions = DOMAIN positions
       /\ \A u \in User : after.users[u] \in [balance : Nat, locked : Nat]
       /\ \A u \in User : u \notin holders => after.users[u] = users[u]
       /\ \A u \in DOMAIN positions : u \notin holders => after.positions[u] = positions[u]
       /\ \A u \in holders : Lessened(positions[u], after.positions[u],
                                      users[u].locked - after.users[u].locked)
  BY <1>8 DEF Shifted
<1>9. PICK e : /\ SumFunctionOnSet(e, User) = 0
               /\ \A u \in User : /\ e[u] \in Int
                                  /\ after.users[u].balance + after.users[u].locked
                                       = users[u].balance + users[u].locked + e[u]
  BY <1>8 DEF Shifted
<1>12. ASSUME NEW u \in User
       PROVE  /\ B.users[u] \in [balance : Nat, locked : Nat]
              /\ B.positions[u] \in Position \cup {None}
              /\ Exposure(B.positions[u]) = Exposure(positions[u])
              /\ Num(B.positions[u]) = Num(positions[u])
              /\ Den(B.positions[u]) = Den(positions[u])
              /\ e[u] \in Int /\ Gain(B, u) = Gain(A, u) + e[u]
              /\ B.users[u].locked
                   = SumFunctionOnSet(A.pools, OrdersOf(u)) + MarginOf(B.positions[u])
  <2> DEFINE held == SumFunctionOnSet(A.pools, OrdersOf(u))
  <2>1. held \in Nat /\ users[u].locked = held + MarginOf(positions[u])
    BY <1>5
  <2>2. /\ users[u] \in [balance : Nat, locked : Nat] /\ positions[u] \in Position \cup {None}
        /\ B.users[u] \in [balance : Nat, locked : Nat]
        /\ B.users[u] = after.users[u] /\ B.positions[u] = after.positions[u]
        /\ u \in DOMAIN positions
    BY <1>3, <1>7, <1>10
  <2>3. e[u] \in Int /\ Gain(B, u) = Gain(A, u) + e[u]
    <3>1. /\ Gain(A, u) = users[u].balance + users[u].locked - Deposits[u]
          /\ Gain(B, u) = after.users[u].balance + after.users[u].locked - Deposits[u]
      BY <2>2 DEF Gain
    <3>2. /\ users[u].balance \in Int /\ users[u].locked \in Int /\ Deposits[u] \in Int
          /\ after.users[u].balance \in Int /\ after.users[u].locked \in Int
      BY <2>2, LedgerAssumption
    <3>3. e[u] \in Int /\ after.users[u].balance + after.users[u].locked
                           = users[u].balance + users[u].locked + e[u]
      BY <1>9
    <3> HIDE DEF A, B, users
    <3> QED  BY <3>1, <3>2, <3>3
  <2> HIDE DEF held, A, B, users, positions
  <2>4. CASE u \in holders
    <3> DEFINE pos == positions[u]
               left == B.positions[u]
               m == users[u].locked - B.users[u].locked
    <3>1. Lessened(pos, left, m) /\ pos \in Position
      BY <1>4, <1>10, <2>2, <2>4
    <3>2. users[u].locked \in Nat /\ B.users[u].locked \in Nat
      BY <2>2
    <3> HIDE DEF pos, left, holders
    <3>3. /\ pos # None /\ left # None /\ left \in Position /\ pos.margin \in Nat
          /\ left.margin = pos.margin - m /\ left.side = pos.side /\ left.qty = pos.qty
          /\ left.entry = pos.entry
      BY <3>1, SettlementAssumption DEF Lessened, Position
    <3>4. Exposure(left) = Exposure(pos) /\ Num(left) = Num(pos) /\ Den(left) = Den(pos)
      BY <3>3 DEF Exposure, Num, Den
    <3>5. MarginOf(left) = pos.margin - m /\ users[u].locked = held + pos.margin
      BY <2>1, <3>3 DEF MarginOf, pos
    <3>6. B.users[u].locked = held + MarginOf(left)
      BY <2>1, <3>2, <3>3, <3>5
    <3> QED  BY <2>2, <2>3, <3>3, <3>4, <3>6 DEF held, left, pos
  <2>5. CASE u \notin holders
    <3>1. B.users[u] = users[u] /\ B.positions[u] = positions[u]
      BY <1>10, <2>2, <2>5
    <3> QED  BY <2>1, <2>2, <2>3, <3>1 DEF held
  <2> QED  BY <2>4, <2>5
<1>13. /\ B = [users |-> B.users, pools |-> A.pools, positions |-> B.positions,
               fees |-> A.fees, insurance |-> A.insurance]
       /\ B.pools = A.pools
  BY <1>2, <1>3 DEF Funded
<1>14. /\ B.users \in [User -> [balance : Nat, locked : Nat]]
       /\ B.positions \in [User -> Position \cup {None}]
  <2>1. B.users = [u \in User |-> B.users[u]] /\ B.positions = [u \in User |-> B.positions[u]]
    <3>1. DOMAIN positions = User
      BY <1>3
    <3>2. /\ after.users = [u \in User |-> after.users[u]]
          /\ after.positions = [u \in User |-> after.positions[u]]
      BY <1>10, <3>1 DEF after, Funded
    <3> QED  BY <1>7, <3>2
  <2> HIDE DEF A, B, users, positions
  <2> QED  BY <1>12, <2>1
<1>15. B \in Accounts
  <2> HIDE DEF A, B
  <2> QED  BY <1>3, <1>13, <1>14 DEF Accounts
<1>16. \A u : OrdersOf(u)' = OrdersOf(u)
  BY <1>1 DEF OrdersOf
<1>17. Backed(accounts)'
  BY <1>12, <1>13, <1>15, <1>16 DEF Backed
<1>18. Interest(accounts)' = 0
  <2>1. [u \in User |-> Exposure(B.positions[u])] = [u \in User |-> Exposure(A.positions[u])]
    BY <1>12
  <2>2. Interest(accounts) = 0
    BY DEF LedgerInv
  <2> QED  BY <2>1, <2>2 DEF Interest
<1>19. NothingHeld'
  BY <1>1, <1>13 DEF LedgerInv, NothingHeld, IsTerminal
<1>20. RowsOK' /\ TermsOK' /\ CommandsOK'
  BY <1>1 DEF LedgerInv, RowsOK, TermsOK, CommandsOK
<1>21. periods' \in 0..MaxPeriods
  BY <1>1, LedgerAssumption DEF LedgerInv
<1>24. Total(B) = Total(A)
  <2> DEFINE f == [u \in User |-> Gain(A, u)]
             g == [u \in User |-> Gain(B, u)]
  <2>1. /\ Total(A) = SumFunctionOnSet(f, User) + A.fees + A.insurance
        /\ Total(B) = SumFunctionOnSet(g, User) + B.fees + B.insurance
    BY DEF Total, SumFunction
  <2>2. B.fees = A.fees /\ B.insurance = A.insurance
    <3> HIDE DEF A, B
    <3> QED  BY <1>13
  <2>3. \A u \in User : f[u] \in Int /\ e[u] \in Int /\ g[u] = f[u] + e[u]
    <3>1. \A u \in User : Gain(A, u) \in Int
      BY <1>3, TotalInt
    <3> QED  BY <1>12, <3>1
  <2> HIDE DEF f, g, A, B
  <2>4. SumFunctionOnSet(g, User) = SumFunctionOnSet(f, User) + SumFunctionOnSet(e, User)
    BY <2>3, SumPlus, LedgerAssumption
  <2>5. SumFunctionOnSet(f, User) \in Int
    BY <2>3, SumInt, LedgerAssumption
  <2> QED  BY <1>9, <2>1, <2>2, <2>4, <2>5
<1>25. SameMoney(A, B)
  BY <1>12, <1>24 DEF SameMoney
<1> QED  BY <1>1, <1>17, <1>18, <1>19, <1>20, <1>21, <1>25 DEF LedgerInv

-----------------------------------------------------------------------------
(* What a result says.                                                     *)

\* A trade between a buyer and a seller that have rows.
TradeOK(trade) ==
  /\ trade.maker \in OrderId /\ rows[trade.maker] # None
  /\ trade.taker \in OrderId /\ rows[trade.taker] # None
  /\ rows[trade.maker].order.side # rows[trade.taker].order.side
  /\ trade.price \in Nat /\ trade.qty \in Nat \ {0}

StateOK(s) ==
  /\ s.orderId \in OrderId /\ rows[s.orderId] # None
  /\ s.status \in Statuses /\ s.remaining \in Nat

(* The orders that rest are those of the accepted rows.                    *)
LEMMA BookRows ==
  ASSUME LedgerInv
  PROVE  /\ BookOK(BookOf(Rows))
         /\ \A m \in BookOf(Rows) :
              /\ m.id \in OrderId /\ rows[m.id] # None /\ rows[m.id].order = m
              /\ m.qty \in Nat /\ m.price \in Nat
<1> DEFINE bk == BookOf(Rows)
<1>1. \A id \in OrderId : rows[id] # None =>
        /\ rows[id].order \in Order /\ rows[id].order.id = id
        /\ rows[id].order.type = "limit" => rows[id].order.price \in Nat
  BY DEF LedgerInv, RowsOK, Row
<1>2. ASSUME NEW m \in bk
      PROVE  /\ m.id \in OrderId /\ rows[m.id] # None /\ rows[m.id].order = m
             /\ m \in Order /\ m.price \in Nat /\ m.seq > 0
  <2>1. PICK row \in Rows : m = row.order /\ row.order.type = "limit" /\ row.order.seq > 0
    BY DEF BookOf
  <2>2. PICK id \in OrderId : row = rows[id] /\ rows[id] # None
    BY <2>1 DEF Rows
  <2> HIDE DEF bk
  <2> QED  BY <1>1, <2>1, <2>2
<1>3. \A m \in bk : /\ m.id \in OrderId /\ m.side \in Sides /\ m.price \in Int
                    /\ m.qty \in Nat /\ m.seq \in Nat
  BY <1>2 DEF Order
<1>4. IsFiniteSet(bk)
  <2> DEFINE ids == {id \in OrderId : \E m \in bk : m.id = id}
             f == [id \in ids |-> rows[id].order]
  <2>1. ids \in SUBSET OrderId
    OBVIOUS
  <2>2. IsFiniteSet(ids)
    <3> HIDE DEF ids
    <3> QED  BY <2>1, FS_Subset, LedgerAssumption
  <2>3. bk = {f[id] : id \in ids}
    <3>1. ASSUME NEW m \in bk PROVE m \in {f[id] : id \in ids}
      BY <1>2
    <3>2. ASSUME NEW id \in ids PROVE f[id] \in bk
      <4>1. PICK m \in bk : m.id = id
        OBVIOUS
      <4> QED  BY <1>2, <4>1
    <3> HIDE DEF bk, f, ids
    <3> QED  BY <3>1, <3>2
  <2> HIDE DEF bk, f, ids
  <2> QED  BY <2>2, <2>3, ImageFinite
<1>5. \A m, n \in bk : m.seq = n.seq => m = n
  BY <1>2 DEF LedgerInv, RowsOK
<1> HIDE DEF bk
<1>6. BookOK(bk)
  BY <1>3, <1>4, <1>5 DEF BookOK
<1> QED  BY <1>2, <1>3, <1>6 DEF bk

(* What the next command results in is about orders that have rows.        *)
LEMMA ResultOK ==
  ASSUME LedgerInv, settled < Len(commands)
  PROVE  /\ NextResult.cmd = settled + 1
         /\ NextResult.trades \in Seq(Trade)
         /\ \A i \in DOMAIN NextResult.trades : TradeOK(NextResult.trades[i])
         /\ IsFiniteSet(NextResult.orders)
         /\ \A s \in NextResult.orders : StateOK(s)
<1> DEFINE c == settled + 1
           cmd == commands[c]
           bk == BookOf(Rows)
           t == Incoming(rows[cmd.id], c)
           r == NextResult
<1>1. c \in 1..Len(commands)
  BY CommandTypes
<1>2. cmd \in Commands /\ cmd.id \in OrderId /\ rows[cmd.id] # None
  BY <1>1, CommandTypes
<1>3. /\ BookOK(bk)
      /\ \A m \in bk : /\ m.id \in OrderId /\ rows[m.id] # None /\ rows[m.id].order = m
                       /\ m.qty \in Nat /\ m.price \in Nat
  BY BookRows
<1>4. r = IF cmd.kind = "create" THEN CreateResult(c, cmd, bk, t) ELSE CancelResult(c, cmd, bk)
  BY DEF NextResult
<1>5. CASE cmd.kind = "create"
  <2>1. /\ r.cmd = c /\ r.trades = Trades(bk, t)
        /\ r.orders = {TakerState(bk, t)} \cup MakerStates(bk, t)
    BY <1>4, <1>5 DEF CreateResult, Result
  <2>2. rows[cmd.id] \in Row /\ rows[cmd.id].order.id = cmd.id
    BY <1>2 DEF LedgerInv, RowsOK
  <2>3. /\ t.id = cmd.id /\ t.side = rows[cmd.id].order.side /\ t.side \in Sides
        /\ t.qty \in Nat \ {0} /\ t.orig = t.qty
    BY <2>2 DEF Incoming, Row, Order
  <2> HIDE DEF t, r, bk, cmd, c
  <2>4. ASSUME NEW i \in DOMAIN r.trades PROVE TradeOK(r.trades[i]) /\ r.trades[i] \in Trade
    <3>1. PICK m \in Makers(bk, t) : r.trades[i] = TradeOf(t, m, FillQty(bk, t, m))
      BY <1>3, <2>1, <2>3, TradesOf
    <3>2. m \in bk /\ m.side # t.side /\ FillQty(bk, t, m) \in Nat \ {0}
      BY <1>3, <2>3, MakersOf
    <3>3. /\ r.trades[i].maker = m.id /\ r.trades[i].taker = cmd.id
          /\ r.trades[i].price = m.price /\ r.trades[i].qty = FillQty(bk, t, m)
          /\ r.trades[i] = [maker |-> m.id, taker |-> cmd.id, price |-> m.price,
                            qty |-> FillQty(bk, t, m)]
      BY <2>3, <3>1 DEF TradeOf
    <3>4. r.trades[i] \in Trade
      BY <1>2, <1>3, <3>2, <3>3 DEF Trade
    <3> QED  BY <1>2, <1>3, <2>3, <3>2, <3>3, <3>4 DEF TradeOK
  <2>5. r.trades \in Seq(Trade)
    <3>1. PICK n \in Nat : DOMAIN r.trades = 1..n
      BY <1>3, <2>1, <2>3, TradesOf
    <3>2. r.trades = [i \in DOMAIN r.trades |-> r.trades[i]]
      BY <2>1 DEF Trades
    <3>3. r.trades \in [1..n -> Trade]
      BY <2>4, <3>1, <3>2
    <3> QED  BY <3>3, SeqDef
  <2>6. /\ TakerState(bk, t).orderId = t.id
        /\ TakerState(bk, t).status \in Statuses /\ TakerState(bk, t).remaining \in Nat
        /\ IsFiniteSet(MakerStates(bk, t))
        /\ \A s \in MakerStates(bk, t) : /\ \E m \in bk : s.orderId = m.id
                                         /\ s.status \in Statuses /\ s.remaining \in Nat
    BY <1>3, <2>3, ReportedStates
  <2>7. IsFiniteSet(r.orders)
    <3>1. r.orders = MakerStates(bk, t) \cup {TakerState(bk, t)}
      BY <2>1
    <3>2. IsFiniteSet(MakerStates(bk, t))
      BY <2>6
    <3> QED  BY <3>1, <3>2, FS_AddElement
  <2>8. ASSUME NEW s \in r.orders PROVE StateOK(s)
    <3>1. s = TakerState(bk, t) \/ s \in MakerStates(bk, t)
      BY <2>1
    <3> QED  BY <1>2, <1>3, <2>3, <2>6, <3>1 DEF StateOK
  <2> QED  BY <2>1, <2>4, <2>5, <2>7, <2>8 DEF c, r
<1>6. CASE cmd.kind # "create"
  <2> DEFINE P == {p \in bk : p.id = cmd.id}
             f == [o \in P |-> OrderState(o.id, "cancelled", o.qty)]
  <2>1. /\ r.cmd = c /\ r.trades = <<>>
        /\ r.orders = {f[o] : o \in P}
    BY <1>4, <1>6 DEF CancelResult, Result
  <2> HIDE DEF t, r, bk, cmd, c
  <2>2. DOMAIN r.trades = {} /\ r.trades \in Seq(Trade)
    BY <2>1, EmptySeq
  <2>3. P \in SUBSET bk
    OBVIOUS
  <2>4. IsFiniteSet(P)
    <3> HIDE DEF P
    <3> QED  BY <1>3, <2>3, FS_Subset DEF BookOK
  <2>5. \A o \in P : StateOK(f[o])
    BY <1>3 DEF StateOK, OrderState, Statuses, Terminal
  <2> HIDE DEF P, f
  <2>6. IsFiniteSet(r.orders)
    BY <2>1, <2>4, ImageFinite
  <2>7. \A s \in r.orders : StateOK(s)
    BY <2>1, <2>5
  <2>8. r.trades \in Seq(Trade)
    BY <2>2
  <2>9. \A i \in DOMAIN r.trades : TradeOK(r.trades[i])
    BY <2>2
  <2> QED  BY <2>1, <2>6, <2>7, <2>8, <2>9 DEF c, r
<1> QED  BY <1>5, <1>6

-----------------------------------------------------------------------------
(* Settlement.                                                             *)

\* Reserves only shrink.
Shrunk(A, B) == \A id \in OrderId : B.pools[id] <= A.pools[id]

LEMMA SettleOrderOK ==
  ASSUME RowsOK, TermsOK, NEW A, Backed(A), NEW id \in OrderId, rows[id] # None,
         NEW trade, trade.price \in Nat, trade.qty \in Nat \ {0}
  PROVE  LET B == SettleOrder(A, id, trade)
         IN  /\ Backed(B) /\ Shrunk(A, B)
             /\ Interest(B) = Interest(A) + Direction(rows[id].order.side) * trade.qty
<1> DEFINE a == AccountOf(A, id)
           dir == Direction(rows[id].order.side)
           lev == terms[id].lev
           liquidation == terms[id].source = "liquidation"
           b == SettleSide(a, trade.price, trade.qty, lev, liquidation, dir)
           profit == Profit(a.position, trade.price, trade.qty, dir)
<1>1. a \in Account /\ A \in Accounts
  BY AccountOfType DEF Backed
<1>2. lev \in Nat \ {0} /\ liquidation \in BOOLEAN
  BY DEF TermsOK, Terms
<1>3. dir \in {1, -1}
  BY DEF Direction
<1> HIDE DEF a, dir, lev, liquidation
<1>4. Moved(a, b, profit, dir * trade.qty)
  BY <1>1, <1>2, <1>3, SettleSideMovesMoney
<1>5. dir * trade.qty \in Int
  BY <1>3
<1>6. SettleOrder(A, id, trade) = WithAccount(A, id, b)
  BY DEF SettleOrder, a, dir, lev, liquidation
<1> HIDE DEF b, profit
<1>7. /\ Backed(WithAccount(A, id, b))
      /\ Interest(WithAccount(A, id, b)) = Interest(A) + dir * trade.qty
      /\ b.pool \in Nat /\ b.pool <= A.pools[id]
      /\ WithAccount(A, id, b).pools = [A.pools EXCEPT ![id] = b.pool]
  BY <1>4, <1>5, WithAccountBacked DEF a
<1>8. A.pools \in [OrderId -> Nat]
  BY <1>1 DEF Accounts
<1>9. Shrunk(A, WithAccount(A, id, b))
  BY <1>7, <1>8 DEF Shrunk
<1> QED  BY <1>6, <1>7, <1>9 DEF dir

\* Accounts in balance, with no more reserved than in A.
InBalance(A) == {B \in Accounts : Backed(B) /\ Interest(B) = 0 /\ Shrunk(A, B)}

(* Both sides of a trade: what one gains in exposure the other loses.      *)
LEMMA SettleTradeOK ==
  ASSUME RowsOK, TermsOK, NEW A \in Accounts, NEW B \in InBalance(A), NEW trade, TradeOK(trade)
  PROVE  SettleTrade(B, trade) \in InBalance(A)
<1> DEFINE ids == {trade.maker, trade.taker}
           buy == CHOOSE id \in ids : rows[id].order.side = "buy"
           sell == CHOOSE id \in ids : rows[id].order.side = "sell"
           C == SettleOrder(B, buy, trade)
           D == SettleOrder(C, sell, trade)
<1>1. /\ ids \in SUBSET OrderId /\ \A id \in ids : rows[id] # None
      /\ \E id \in ids : rows[id].order.side = "buy"
      /\ \E id \in ids : rows[id].order.side = "sell"
  <2>1. /\ rows[trade.maker].order.side \in Sides /\ rows[trade.taker].order.side \in Sides
        /\ rows[trade.maker].order.side # rows[trade.taker].order.side
    BY DEF TradeOK, RowsOK, Row, Order
  <2> QED  BY <2>1 DEF TradeOK, Sides
<1>2. /\ buy \in OrderId /\ rows[buy] # None /\ rows[buy].order.side = "buy"
      /\ sell \in OrderId /\ rows[sell] # None /\ rows[sell].order.side = "sell"
  BY <1>1
<1> HIDE DEF buy, sell
<1>3. trade.price \in Nat /\ trade.qty \in Nat \ {0}
  BY DEF TradeOK
<1>4. Backed(B) /\ Interest(B) = 0 /\ Shrunk(A, B) /\ B \in Accounts
  BY DEF InBalance
<1>5. Backed(C) /\ Shrunk(B, C) /\ Interest(C) = 0 + trade.qty
  <2>1. Direction(rows[buy].order.side) * trade.qty = trade.qty
    BY <1>2, <1>3 DEF Direction
  <2> QED  BY <1>2, <1>3, <1>4, <2>1, SettleOrderOK
<1> HIDE DEF C
<1>6. Backed(D) /\ Shrunk(C, D) /\ Interest(D) = 0
  <2>1. Direction(rows[sell].order.side) * trade.qty = -trade.qty
    BY <1>2, <1>3 DEF Direction
  <2>2. Interest(C) + -trade.qty = 0
    BY <1>3, <1>5
  <2> QED  BY <1>2, <1>3, <1>5, <2>1, <2>2, SettleOrderOK
<1> HIDE DEF D
<1>7. Shrunk(A, D) /\ D \in Accounts
  <2>1. C \in Accounts /\ D \in Accounts
    BY <1>5, <1>6 DEF Backed
  <2>2. \A id \in OrderId : /\ A.pools[id] \in Int /\ B.pools[id] \in Int
                            /\ C.pools[id] \in Int /\ D.pools[id] \in Int
    BY <1>4, <2>1 DEF Accounts
  <2> QED  BY <1>4, <1>5, <1>6, <2>1, <2>2 DEF Shrunk
<1>8. SettleTrade(B, trade) = D
  BY DEF SettleTrade, C, D, buy, sell
<1> QED  BY <1>6, <1>7, <1>8 DEF InBalance

\* The accounts after a sequence of trades.
Settled(A, trades) == FoldLeft(SettleTrade, A, trades)

\* The accounts, all in G, before the first of n trades and after each.
IsPath(path, G, A, n, trades) ==
  /\ path[0] = A /\ path[n] = Settled(A, trades)
  /\ \A i \in 0..n : path[i] \in G
  /\ \A i, j \in 0..n : j = i + 1 => path[j] = SettleTrade(path[i], trades[j])

(* The trades of a result, in order: from accounts to accounts.            *)
LEMMA TradesInOrder ==
  ASSUME NEW G, NEW A \in G, NEW n \in Nat, NEW trades, DOMAIN trades = 1..n,
         \A B \in G, i \in 1..n : SettleTrade(B, trades[i]) \in G
  PROVE  \E path : IsPath(path, G, A, n, trades)
<1> DEFINE D == 1..n
           step == [Bi \in G \X D |-> SettleTrade(Bi[1], trades[Bi[2]])]
           last == [s \in SUBSET D |-> Max(s)]
           IsFold(h) == h = [s \in SUBSET D |->
                               IF s = {} THEN A
                               ELSE SettleTrade(h[s \ {Max(s)}], trades[Max(s)])]
           iter == CHOOSE h : IsFold(h)
<1>1. IsFiniteSet(D) /\ \A i \in D : i \in 1..n
  BY FS_Interval
<1>2. \A s \in SUBSET D : s # {} => Max(s) \in s
  BY GreatestUpTo
<1>3. \A B \in G, i \in D : SettleTrade(B, trades[i]) \in G
  OBVIOUS
<1>4. Settled(A, trades) = iter[D]
  BY Zenon DEF Settled, FoldLeft, MapThenFoldSet
<1>5. \E h : IsFold(h)
  <2>1. step \in [G \X D -> G]
    BY <1>3
  <2>2. \A s \in SUBSET D : s # {} => last[s] \in s
    BY <1>2
  <2> HIDE DEF step, last
  <2>3. PICK h \in [SUBSET D -> G] : FoldsInto(h, D, A, step, last)
    <3> HIDE DEF D
    <3> QED  BY <1>1, <2>1, <2>2, FoldExists
  <2>4. ASSUME NEW s \in SUBSET D
        PROVE  h[s] = IF s = {} THEN A ELSE SettleTrade(h[s \ {Max(s)}], trades[Max(s)])
    <3>1. h[s] = IF s = {} THEN A ELSE step[<<h[s \ {last[s]}], last[s]>>]
      BY <2>3 DEF FoldsInto
    <3>2. CASE s # {}
      <4>1. last[s] = Max(s) /\ Max(s) \in D /\ s \ {Max(s)} \in SUBSET D
        BY <1>2, <3>2 DEF last
      <4>2. h[s \ {Max(s)}] \in G
        BY <2>3, <4>1
      <4> DEFINE B == h[s \ {Max(s)}]
                 i == Max(s)
      <4>3. step[<<B, i>>] = SettleTrade(B, trades[i])
        <5>1. B \in G /\ i \in D
          BY <4>1, <4>2
        <5> HIDE DEF B, i
        <5> QED  BY <5>1 DEF step
      <4> QED  BY <3>1, <3>2, <4>1, <4>3
    <3>3. CASE s = {}
      BY <3>1, <3>3
    <3> QED  BY <3>2, <3>3
  <2>5. IsFold(h)
    <3>1. h = [s \in SUBSET D |-> h[s]]
      BY <2>3
    <3> QED  BY <2>4, <3>1
  <2> QED  BY <2>5
<1>6. IsFold(iter)
  <2> HIDE DEF IsFold
  <2> QED  BY <1>5
<1>7. \A s \in SUBSET D :
        iter[s] = IF s = {} THEN A ELSE SettleTrade(iter[s \ {Max(s)}], trades[Max(s)])
  <2> HIDE DEF iter
  <2> QED  BY <1>6
<1> HIDE DEF iter, IsFold, step, last
<1> DEFINE Bad == {s \in SUBSET D : iter[s] \notin G}
<1>8. ASSUME Bad # {} PROVE FALSE
  <2>1. PICK s \in Bad : \A u \in Bad : u \subseteq s => u = s
    <3>1. Bad \in SUBSET (SUBSET D)
      OBVIOUS
    <3> HIDE DEF Bad, D
    <3> QED  BY <1>1, <1>8, <3>1, MinimalSubset
  <2>2. s \in SUBSET D /\ iter[s] \notin G
    OBVIOUS
  <2>3. s # {}
    BY <1>7, <2>2
  <2> DEFINE i == Max(s)
             rest == s \ {i}
  <2>4. i \in s /\ i \in D /\ rest \in SUBSET D /\ rest # s /\ rest \subseteq s
    BY <1>2, <2>2, <2>3
  <2>5. iter[rest] \in G
    <3> HIDE DEF rest, i
    <3> QED  BY <2>1, <2>4
  <2>6. iter[s] = SettleTrade(iter[rest], trades[i])
    BY <1>7, <2>2, <2>3
  <2> HIDE DEF i, rest, D
  <2> QED  BY <1>3, <2>2, <2>4, <2>5, <2>6
<1>9. \A s \in SUBSET D : iter[s] \in G
  <2> HIDE DEF iter, D
  <2> QED  BY <1>8
<1> DEFINE path == [i \in 0..n |-> iter[1..i]]
<1>10. path[0] = A
  <2>1. 1..0 = {} /\ 0 \in 0..n
    OBVIOUS
  <2>2. path[0] = iter[{}]
    BY <2>1
  <2>3. {} \in SUBSET D
    OBVIOUS
  <2> HIDE DEF path
  <2> QED  BY <1>7, <2>2, <2>3
<1>11. path[n] = Settled(A, trades)
  BY <1>4
<1>12. \A i \in 0..n : path[i] \in G
  <2>1. \A i \in 0..n : 1..i \in SUBSET D
    OBVIOUS
  <2> QED  BY <1>9, <2>1
<1>13. ASSUME NEW i \in 1..n PROVE path[i] = SettleTrade(path[i - 1], trades[i])
  <2>1. 1..i \in SUBSET D /\ i \in 0..n /\ i - 1 \in 0..n /\ i \in 1..i
    OBVIOUS
  <2>2. Max(1..i) = i
    <3>1. i \in 1..i /\ \A y \in 1..i : i >= y
      BY <2>1
    <3>2. Max(1..i) \in 1..i /\ \A y \in 1..i : Max(1..i) >= y
      BY <3>1 DEF Max
    <3> QED  BY <3>2
  <2>3. (1..i) \ {i} = 1..(i - 1)
    OBVIOUS
  <2>4. iter[1..i] = SettleTrade(iter[1..(i - 1)], trades[i])
    <3> HIDE DEF D
    <3>1. 1..i # {}
      BY <2>1
    <3> QED  BY <1>7, <2>1, <2>2, <2>3, <3>1
  <2> QED  BY <2>1, <2>4
<1>14. \A i, j \in 0..n : j = i + 1 => path[j] = SettleTrade(path[i], trades[j])
  <2> SUFFICES ASSUME NEW i \in 0..n, NEW j \in 0..n, j = i + 1
               PROVE  path[j] = SettleTrade(path[i], trades[j])
    OBVIOUS
  <2>1. j \in 1..n /\ j - 1 = i
    OBVIOUS
  <2> HIDE DEF path
  <2> QED  BY <1>13, <2>1
<1> HIDE DEF path
<1> QED  BY <1>10, <1>11, <1>12, <1>14 DEF IsPath

LEMMA TradesSettled ==
  ASSUME RowsOK, TermsOK, NEW A \in Accounts, A \in InBalance(A),
         NEW n \in Nat, NEW trades, DOMAIN trades = 1..n,
         \A i \in 1..n : TradeOK(trades[i])
  PROVE  Settled(A, trades) \in InBalance(A)
<1>1. \A B \in InBalance(A), i \in 1..n : SettleTrade(B, trades[i]) \in InBalance(A)
  BY SettleTradeOK
<1>2. PICK path : IsPath(path, InBalance(A), A, n, trades)
  BY <1>1, TradesInOrder
<1>3. n \in 0..n
  OBVIOUS
<1> QED  BY <1>2, <1>3 DEF IsPath

(* One side of a trade, settled.                                           *)
LEMMA ConservedMove ==
  ASSUME RowsOK, NEW A \in Accounts, NEW id \in OrderId, rows[id] # None, NEW b \in Account,
         WithAccount(A, id, b) \in Accounts,
         NEW z \in Int, NEW c \in Int, NEW flow \in Int, NEW sides \in Nat,
         Money(b) = Money(AccountOf(A, id)) + Round(z, Den(AccountOf(A, id).position)),
         Exact(AccountOf(A, id).position, b.position, c, z),
         Conserved(A, flow, sides)
  PROVE  Conserved(WithAccount(A, id, b), flow + c, sides + 1)
<1> DEFINE u == rows[id].order.user
           B == WithAccount(A, id, b)
           pos == A.positions[u]
           next == b.position
           n == Num(pos)
           d == Den(pos)
           m == Num(next)
           e == Den(next)
           r == Round(z, d)
<1>1. /\ u \in User /\ pos \in Position \cup {None} /\ next \in Position \cup {None}
      /\ B.positions = [A.positions EXCEPT ![u] = next] /\ AccountOf(A, id).position = pos
      /\ A.positions \in [User -> Position \cup {None}]
  <2>1. /\ u \in User /\ AccountOf(A, id).position = pos
        /\ B.positions = [A.positions EXCEPT ![u] = next]
    BY WrittenBack
  <2>2. A.positions \in [User -> Position \cup {None}] /\ next \in Position \cup {None}
    BY DEF Account, Accounts
  <2> HIDE DEF u, B, next
  <2> QED  BY <2>1, <2>2
<1>2. n \in Int /\ d \in Nat \ {0} /\ m \in Int /\ e \in Nat \ {0} /\ r \in Int
  BY <1>1, NumDen, RoundInt
<1>3. m * d = e * (n + d * c + z)
  BY <1>1 DEF Exact
<1>4. Total(B) = Total(A) + r /\ Total(A) \in Int
  <2>1. PICK money \in Int : /\ Money(b) = Money(AccountOf(A, id)) + money
                             /\ Total(B) = Total(A) + money
    BY WrittenBack
  <2>2. Money(AccountOf(A, id)) \in Int /\ Money(b) = Money(AccountOf(A, id)) + r
    BY <1>1, WrittenBack
  <2>3. money = r
    BY <1>2, <2>1, <2>2
  <2> QED  BY <2>1, <2>3, TotalInt
<1>5. PICK D, cost :
        /\ Costs(A, D, cost)
        /\ Within(2 * (D * (Total(A) + flow) - SumFunctionOnSet(cost, User)), D * sides)
  BY Zenon DEF Conserved
<1>6. /\ D \in Nat \ {0} /\ cost \in [User -> Int]
      /\ \A v \in User : cost[v] * Den(A.positions[v]) = D * Num(A.positions[v])
  BY <1>5 DEF Costs
<1> HIDE DEF u, B, pos, next, n, d, m, e, r
<1> DEFINE E == D * e
           scaled == [v \in User |-> e * cost[v]]
           cost2 == [scaled EXCEPT ![u] = D * m]
           S == SumFunctionOnSet(cost, User)
           S2 == SumFunctionOnSet(cost2, User)
<1>7. E \in Nat \ {0} /\ cost2 \in [User -> Int]
  BY <1>1, <1>2, <1>6
<1>8. ASSUME NEW v \in User
      PROVE  cost2[v] * Den(B.positions[v]) = E * Num(B.positions[v])
  <2>1. CASE v = u
    <3>1. cost2[v] = D * m /\ B.positions[v] = next
      BY <1>1, <2>1
    <3>2. D * m * e = D * e * m
      BY <1>2, <1>6
    <3> QED  BY <3>1, <3>2 DEF m, e
  <2>2. CASE v # u
    <3>1. cost2[v] = e * cost[v] /\ B.positions[v] = A.positions[v]
      BY <1>1, <2>2
    <3> DEFINE k == cost[v]
               dv == Den(A.positions[v])
               nv == Num(A.positions[v])
    <3>2. dv \in Int /\ nv \in Int /\ k \in Int /\ k * dv = D * nv
      <4>1. A.positions[v] \in Position \cup {None}
        BY <1>1
      <4> QED  BY <1>6, <4>1, NumDen
    <3> HIDE DEF k, dv, nv
    <3>3. e * k * dv = D * e * nv
      <4>1. e * k * dv = e * (k * dv)
        BY <1>2, <3>2
      <4> QED  BY <1>2, <1>6, <3>2, <4>1
    <3> QED  BY <3>1, <3>3 DEF k, dv, nv
  <2> QED  BY <2>1, <2>2
<1>9. Costs(B, E, cost2)
  BY <1>7, <1>8 DEF Costs
<1>10. S \in Int /\ S2 = e * S + D * m - e * cost[u] /\ cost[u] \in Int
  <2>1. \A v \in User : cost[v] \in Int /\ scaled[v] = e * cost[v] /\ scaled[v] \in Int
    BY <1>2, <1>6
  <2>2. S \in Int /\ SumFunctionOnSet(scaled, User) = e * S
    <3> HIDE DEF scaled
    <3> QED  BY <1>2, <2>1, SumInt, SumScaled, LedgerAssumption
  <2>3. /\ \A v \in User \ {u} : scaled[v] = cost2[v]
        /\ cost2[u] = D * m /\ \A v \in User : cost2[v] \in Int
    BY <1>1, <1>7
  <2> HIDE DEF scaled, cost2
  <2>4. S2 = SumFunctionOnSet(scaled, User) + cost2[u] - scaled[u]
    BY <1>1, <2>1, <2>3, SumChange, LedgerAssumption
  <2> QED  BY <1>1, <2>1, <2>2, <2>3, <2>4
<1> HIDE DEF cost2, scaled
<1> DEFINE k == cost[u]
           w == D * m - e * k - E * c
           x == 2 * (D * (Total(A) + flow) - S)
           y == 2 * (E * r - w)
<1>11. Within(y, E)
  <2>1. k * d = D * n /\ k \in Int
    BY <1>1, <1>6, <1>10 DEF pos, n, d
  <2> HIDE DEF k, n, d
  <2>2. Within(2 * (D * e * Round(z, d) - (D * m - e * k - D * e * c)), D * e)
    BY <1>2, <1>3, <1>6, <2>1, RoundingError
  <2> QED  BY <2>2 DEF r
<1>12. Within(x, D * sides) /\ x \in Int /\ y \in Int
  <2>1. x \in Int
    BY <1>4, <1>6, <1>10
  <2>2. w \in Int
    BY <1>2, <1>6, <1>7, <1>10
  <2> HIDE DEF w
  <2>3. y \in Int
    BY <1>2, <1>7, <2>2
  <2> QED  BY <1>5, <2>1, <2>3
<1>13. 2 * (E * (Total(B) + (flow + c)) - S2) = e * x + y
  <2> DEFINE t == Total(A)
  <2>1. t \in Int /\ Total(B) = t + r
    BY <1>4
  <2>2. S2 = e * S + D * m - e * k /\ k \in Int /\ S \in Int
    BY <1>10
  <2> HIDE DEF t, k, S2, S
  <2> QED  BY <1>2, <1>6, <2>1, <2>2 DEF t
<1> HIDE DEF x, y
<1>14. Within(e * x + y, E * (sides + 1))
  <2> DEFINE bound == D * sides
             more == e * bound
  <2>1. -bound <= x /\ x <= bound /\ bound \in Int /\ -bound \in Int
    BY <1>6, <1>12 DEF Within
  <2> HIDE DEF bound
  <2>2. e * (-bound) <= e * x /\ e * x <= e * bound
    BY <1>2, <1>12, <2>1, TimesMonotonic
  <2>3. e * (-bound) = -more /\ e * bound = more /\ more \in Int /\ e * x \in Int
    BY <1>2, <1>12, <2>1
  <2>4. -E <= y /\ y <= E
    BY <1>11 DEF Within
  <2>5. E * (sides + 1) = more + E
    BY <1>2, <1>6 DEF bound
  <2> HIDE DEF more, E
  <2>6. PICK ex, es : ex = e * x /\ es = E * (sides + 1)
    OBVIOUS
  <2>7. ex \in Int /\ -more <= ex /\ ex <= more /\ es = more + E
    BY <2>2, <2>3, <2>5, <2>6
  <2>8. Within(ex + y, es)
    BY <1>7, <1>12, <2>3, <2>4, <2>7 DEF Within
  <2> QED  BY <2>6, <2>8
<1>15. Within(2 * (E * (Total(B) + (flow + c)) - S2), E * (sides + 1))
  BY <1>13, <1>14
<1> QED  BY <1>9, <1>15, Zenon DEF Conserved, B, S2

LEMMA SideConserved ==
  ASSUME RowsOK, TermsOK, NEW A, Backed(A), NEW id \in OrderId, rows[id] # None,
         NEW trade, trade.price \in Nat, trade.qty \in Nat \ {0},
         NEW flow \in Int, NEW sides \in Nat, Conserved(A, flow, sides),
         NEW left, left = flow + Direction(rows[id].order.side) * (trade.qty * trade.price)
  PROVE  Conserved(SettleOrder(A, id, trade), left, sides + 1)
<1> DEFINE a == AccountOf(A, id)
           dir == Direction(rows[id].order.side)
           lev == terms[id].lev
           liquidation == terms[id].source = "liquidation"
           b == SettleSide(a, trade.price, trade.qty, lev, liquidation, dir)
           c == dir * (trade.qty * trade.price)
<1>1. a \in Account /\ A \in Accounts
  BY AccountOfType DEF Backed
<1>2. lev \in Nat \ {0} /\ liquidation \in BOOLEAN /\ dir \in {1, -1}
  BY DEF TermsOK, Terms, Direction
<1>3. SettleOrder(A, id, trade) = WithAccount(A, id, b)
  BY DEF SettleOrder
<1>4. WithAccount(A, id, b) \in Accounts
  BY <1>3, SettleOrderOK DEF Backed
<1>5. c \in Int /\ left = flow + c
  BY <1>2
<1> HIDE DEF dir, lev, liquidation
<1> DEFINE profit == Profit(a.position, trade.price, trade.qty, dir)
<1>6. b \in Account /\ Money(b) = Money(a) + profit
  <2>1. Moved(a, b, profit, dir * trade.qty)
    <3> HIDE DEF a
    <3> QED  BY <1>1, <1>2, SettleSideMovesMoney
  <2> HIDE DEF a, b, profit
  <2> QED  BY <2>1 DEF Moved
<1>7. PICK z \in Int : profit = Round(z, Den(a.position)) /\ Exact(a.position, b.position, c, z)
  <2> HIDE DEF a
  <2> QED  BY <1>1, <1>2, SideExact
<1> HIDE DEF b, c, profit
<1>8. Conserved(WithAccount(A, id, b), flow + c, sides + 1)
  BY <1>1, <1>4, <1>5, <1>6, <1>7, ConservedMove
<1> QED  BY <1>3, <1>5, <1>8

(* What the buyer pays, the seller gets.                                   *)
LEMMA TradeConserved ==
  ASSUME RowsOK, TermsOK, NEW A, Backed(A), NEW trade, TradeOK(trade),
         NEW sides \in Nat, Conserved(A, 0, sides)
  PROVE  Conserved(SettleTrade(A, trade), 0, sides + 2)
<1> DEFINE ids == {trade.maker, trade.taker}
           buy == CHOOSE id \in ids : rows[id].order.side = "buy"
           sell == CHOOSE id \in ids : rows[id].order.side = "sell"
           B == SettleOrder(A, buy, trade)
           paid == trade.qty * trade.price
<1>1. /\ ids \in SUBSET OrderId /\ \A id \in ids : rows[id] # None
      /\ \E id \in ids : rows[id].order.side = "buy"
      /\ \E id \in ids : rows[id].order.side = "sell"
  <2>1. /\ rows[trade.maker].order.side \in Sides /\ rows[trade.taker].order.side \in Sides
        /\ rows[trade.maker].order.side # rows[trade.taker].order.side
    BY DEF TradeOK, RowsOK, Row, Order
  <2> QED  BY <2>1 DEF TradeOK, Sides
<1>2. /\ buy \in OrderId /\ rows[buy] # None /\ rows[buy].order.side = "buy"
      /\ sell \in OrderId /\ rows[sell] # None /\ rows[sell].order.side = "sell"
  BY <1>1
<1>3. SettleTrade(A, trade) = SettleOrder(B, sell, trade)
  BY DEF SettleTrade
<1> HIDE DEF buy, sell
<1>4. trade.price \in Nat /\ trade.qty \in Nat \ {0} /\ paid \in Int
  BY DEF TradeOK
<1>5. /\ paid = 0 + Direction(rows[buy].order.side) * (trade.qty * trade.price)
      /\ 0 = paid + Direction(rows[sell].order.side) * (trade.qty * trade.price)
  BY <1>2, <1>4 DEF Direction
<1> HIDE DEF paid
<1>6. Conserved(B, paid, sides + 1) /\ Backed(B)
  BY <1>2, <1>4, <1>5, SideConserved, SettleOrderOK
<1> HIDE DEF B
<1>7. PICK more \in Nat : more = sides + 1 /\ sides + 2 = more + 1
  OBVIOUS
<1>8. Conserved(SettleOrder(B, sell, trade), 0, more + 1)
  BY <1>2, <1>4, <1>5, <1>6, <1>7, SideConserved
<1> QED  BY <1>3, <1>7, <1>8

(* All the trades of a result.                                             *)
LEMMA TradesConserved ==
  ASSUME RowsOK, TermsOK, NEW A \in Accounts, A \in InBalance(A),
         NEW n \in Nat, NEW trades, DOMAIN trades = 1..n,
         \A i \in 1..n : TradeOK(trades[i]),
         NEW sides \in Nat, Conserved(A, 0, sides)
  PROVE  Conserved(Settled(A, trades), 0, sides + 2 * n)
<1>1. \A B \in InBalance(A), i \in 1..n : SettleTrade(B, trades[i]) \in InBalance(A)
  BY SettleTradeOK
<1>2. PICK path : IsPath(path, InBalance(A), A, n, trades)
  BY <1>1, TradesInOrder
<1>3. /\ path[0] = A /\ path[n] = Settled(A, trades)
      /\ \A i \in 0..n : path[i] \in InBalance(A)
      /\ \A i, j \in 0..n : j = i + 1 => path[j] = SettleTrade(path[i], trades[j])
  BY <1>2 DEF IsPath
<1> DEFINE Bad == {i \in 0..n : ~Conserved(path[i], 0, sides + 2 * i)}
<1>4. ASSUME Bad # {} PROVE FALSE
  <2>1. PICK i \in Bad : \A j \in Bad : i <= j
    <3>1. Bad \in SUBSET Nat
      OBVIOUS
    <3> HIDE DEF Bad
    <3> QED  BY <1>4, <3>1, LeastNat
  <2>2. i \in 0..n /\ ~Conserved(path[i], 0, sides + 2 * i)
    OBVIOUS
  <2>3. i # 0
    <3>1. sides + 2 * 0 = sides
      OBVIOUS
    <3> QED  BY <1>3, <2>2, <3>1
  <2>4. PICK j : j = i - 1
    OBVIOUS
  <2>5. j \in 0..n /\ i \in 1..n /\ i = j + 1 /\ j \notin Bad
    BY <2>1, <2>2, <2>3, <2>4
  <2>6. PICK h \in Nat : h = sides + 2 * j /\ sides + 2 * i = h + 2
    BY <2>4, <2>5
  <2>7. Conserved(path[j], 0, h) /\ Backed(path[j])
    BY <1>3, <2>5, <2>6 DEF InBalance
  <2>8. path[i] = SettleTrade(path[j], trades[i]) /\ TradeOK(trades[i])
    BY <1>3, <2>4, <2>5
  <2>9. Conserved(SettleTrade(path[j], trades[i]), 0, h + 2)
    BY <2>7, <2>8, TradeConserved
  <2> QED  BY <2>2, <2>6, <2>8, <2>9
<1>5. n \in 0..n /\ n \notin Bad
  <2> HIDE DEF Bad
  <2> QED  BY <1>4
<1> QED  BY <1>3, <1>5

\* A state that ends an order which was not over.
Ends(s) == s.status \in Terminal /\ ~IsTerminal(rows[s.orderId])

LEMMA ApplyStateOK ==
  ASSUME RowsOK, NEW A \in Accounts, NEW B \in InBalance(A), NEW s, StateOK(s)
  PROVE  /\ ApplyState(s, B) \in InBalance(A)
         /\ Shrunk(B, ApplyState(s, B)) /\ SameMoney(B, ApplyState(s, B))
         /\ Ends(s) => ApplyState(s, B).pools[s.orderId] = 0
<1> DEFINE id == s.orderId
           a == AccountOf(B, id)
           C == WithAccount(B, id, Refunded(a))
<1>1. id \in OrderId /\ rows[id] # None
  BY DEF StateOK
<1>2. Backed(B) /\ Interest(B) = 0 /\ Shrunk(A, B) /\ B \in Accounts
  BY DEF InBalance
<1>3. B.pools \in [OrderId -> Nat] /\ A.pools \in [OrderId -> Nat]
  BY <1>2 DEF Accounts
<1>4. Backed(C) /\ Interest(C) = 0 /\ C.pools = [B.pools EXCEPT ![id] = 0]
  <2>1. Moved(a, Refunded(a), 0, 0) /\ Refunded(a).pool = 0
    BY <1>1, <1>2, AccountOfType, RefundMovesMoney
  <2>2. /\ Backed(C) /\ Interest(C) = Interest(B) + 0
        /\ C.pools = [B.pools EXCEPT ![id] = Refunded(a).pool]
    <3> HIDE DEF id
    <3> QED  BY <1>1, <1>2, <2>1, WithAccountBacked
  <2> HIDE DEF C, a, id
  <2> QED  BY <1>2, <2>1, <2>2
<1>5. /\ ApplyState(s, B) = C \/ ApplyState(s, B) = B
      /\ Ends(s) => ApplyState(s, B) = C
  BY DEF ApplyState, Ends
<1>6. SameMoney(B, C) /\ SameMoney(B, B)
  <2>1. SameMoney(B, C)
    <3> HIDE DEF id
    <3> QED  BY <1>1, <1>2, RefundSame
  <2> QED  BY <2>1 DEF SameMoney
<1> HIDE DEF C, a
<1>7. C \in InBalance(A) /\ Shrunk(B, C) /\ C.pools[id] = 0
  <2>1. C \in Accounts
    BY <1>4 DEF Backed
  <2>2. Shrunk(B, C) /\ C.pools[id] = 0
    <3> HIDE DEF id
    <3> QED  BY <1>1, <1>3, <1>4 DEF Shrunk
  <2>3. Shrunk(A, C)
    <3> SUFFICES ASSUME NEW i \in OrderId PROVE C.pools[i] <= A.pools[i]
      BY DEF Shrunk
    <3>1. B.pools[i] \in Nat /\ A.pools[i] \in Nat /\ B.pools[i] <= A.pools[i]
      BY <1>2, <1>3 DEF Shrunk
    <3>2. C.pools[i] = 0 \/ C.pools[i] = B.pools[i]
      <4> HIDE DEF id
      <4> QED  BY <1>3, <1>4
    <3> QED  BY <3>1, <3>2
  <2> QED  BY <1>4, <2>1, <2>2, <2>3 DEF InBalance
<1>8. Shrunk(B, B)
  BY <1>3 DEF Shrunk
<1> QED  BY <1>5, <1>6, <1>7, <1>8

(* The states of a result, in any order: every order that ended gave its   *)
(* reserve back, and no money went anywhere else.                          *)
LEMMA StatesApplied ==
  ASSUME RowsOK, NEW A \in Accounts, NEW B \in InBalance(A),
         NEW orders, IsFiniteSet(orders), \A s \in orders : StateOK(s)
  PROVE  /\ FoldSet(ApplyState, B, orders) \in InBalance(A)
         /\ SameMoney(B, FoldSet(ApplyState, B, orders))
         /\ \A s \in orders : Ends(s) => FoldSet(ApplyState, B, orders).pools[s.orderId] = 0
<1> DEFINE G == InBalance(A)
           pick == [T \in SUBSET orders |-> CHOOSE x \in T : TRUE]
           step == [Cs \in G \X orders |-> ApplyState(Cs[2], Cs[1])]
           IsFold(h) == h = [T \in SUBSET orders |->
                               IF T = {} THEN B
                               ELSE ApplyState(CHOOSE x \in T : TRUE,
                                               h[T \ {CHOOSE x \in T : TRUE}])]
           iter == CHOOSE h : IsFold(h)
           Good(C, T) == /\ C \in G /\ SameMoney(B, C)
                         /\ \A s \in T : Ends(s) => C.pools[s.orderId] = 0
           Bad == {T \in SUBSET orders : ~Good(iter[T], T)}
<1>1. \A T \in SUBSET orders : T # {} => (CHOOSE x \in T : TRUE) \in T
  OBVIOUS
<1>2. \A C \in G, s \in orders : ApplyState(s, C) \in G
  BY ApplyStateOK
<1>3. FoldSet(ApplyState, B, orders) = iter[orders]
  BY Zenon DEF FoldSet, MapThenFoldSet
<1>4. \E h : IsFold(h)
  <2>1. step \in [G \X orders -> G]
    BY <1>2
  <2>2. \A T \in SUBSET orders : T # {} => pick[T] \in T
    BY <1>1
  <2> HIDE DEF step, pick, G
  <2>3. PICK h \in [SUBSET orders -> G] : FoldsInto(h, orders, B, step, pick)
    <3>1. B \in G
      BY DEF G
    <3> QED  BY <2>1, <2>2, <3>1, FoldExists
  <2>4. ASSUME NEW T \in SUBSET orders
        PROVE  h[T] = IF T = {} THEN B
                      ELSE ApplyState(CHOOSE x \in T : TRUE, h[T \ {CHOOSE x \in T : TRUE}])
    <3>1. h[T] = IF T = {} THEN B ELSE step[<<h[T \ {pick[T]}], pick[T]>>]
      BY <2>3 DEF FoldsInto
    <3>2. CASE T # {}
      <4> DEFINE s == CHOOSE x \in T : TRUE
                 C == h[T \ {s}]
      <4>1. pick[T] = s /\ s \in orders /\ T \ {s} \in SUBSET orders
        BY <1>1, <3>2 DEF pick
      <4>2. C \in G
        BY <2>3, <4>1
      <4>3. step[<<C, s>>] = ApplyState(s, C)
        <5> HIDE DEF C, s
        <5> QED  BY <4>1, <4>2 DEF step
      <4> QED  BY <3>1, <3>2, <4>1, <4>3
    <3>3. CASE T = {}
      BY <3>1, <3>3
    <3> QED  BY <3>2, <3>3
  <2>5. IsFold(h)
    <3>1. h = [T \in SUBSET orders |-> h[T]]
      BY <2>3
    <3> QED  BY <2>4, <3>1
  <2> QED  BY <2>5
<1>5. IsFold(iter)
  <2> HIDE DEF IsFold
  <2> QED  BY <1>4
<1>6. \A T \in SUBSET orders :
        iter[T] = IF T = {} THEN B
                  ELSE ApplyState(CHOOSE x \in T : TRUE, iter[T \ {CHOOSE x \in T : TRUE}])
  <2> HIDE DEF iter
  <2> QED  BY <1>5
<1> HIDE DEF iter, IsFold, step, pick
<1>7. ASSUME Bad # {} PROVE FALSE
  <2>1. PICK T \in Bad : \A U \in Bad : U \subseteq T => U = T
    <3>1. Bad \in SUBSET (SUBSET orders)
      OBVIOUS
    <3> HIDE DEF Bad
    <3> QED  BY <1>7, <3>1, MinimalSubset
  <2>2. T \in SUBSET orders /\ ~Good(iter[T], T)
    OBVIOUS
  <2>3. T # {}
    BY <1>6, <2>2 DEF SameMoney
  <2> DEFINE s == CHOOSE x \in T : TRUE
             rest == T \ {s}
             C == iter[rest]
  <2>4. s \in T /\ s \in orders /\ rest \in SUBSET orders /\ rest # T /\ rest \subseteq T
    BY <1>1, <2>2, <2>3
  <2>5. Good(C, rest)
    <3> HIDE DEF rest, s, Good
    <3> QED  BY <2>1, <2>4
  <2>6. iter[T] = ApplyState(s, C)
    BY <1>6, <2>2, <2>3
  <2>7. StateOK(s)
    BY <2>4
  <2> HIDE DEF C
  <2>8. /\ iter[T] \in G /\ Shrunk(C, iter[T]) /\ C \in G
        /\ SameMoney(B, C) /\ SameMoney(C, iter[T])
        /\ Ends(s) => iter[T].pools[s.orderId] = 0
    <3> HIDE DEF s
    <3> QED  BY <2>5, <2>6, <2>7, ApplyStateOK
  <2>9. ASSUME NEW x \in T, Ends(x) PROVE iter[T].pools[x.orderId] = 0
    <3>1. CASE x = s
      BY <2>8, <2>9, <3>1
    <3>2. CASE x # s
      <4>1. C.pools[x.orderId] = 0
        BY <2>5, <2>9, <3>2
      <4>2. x.orderId \in OrderId
        BY <2>2 DEF StateOK
      <4>3. iter[T].pools[x.orderId] \in Nat
        BY <2>8, <4>2 DEF InBalance, Accounts
      <4> QED  BY <2>8, <4>1, <4>2, <4>3 DEF Shrunk
    <3> QED  BY <3>1, <3>2
  <2>10. SameMoney(B, iter[T])
    BY <2>8 DEF SameMoney
  <2> QED  BY <2>2, <2>8, <2>9, <2>10
<1>8. Good(iter[orders], orders)
  <2>1. orders \in SUBSET orders /\ orders \notin Bad
    BY <1>7
  <2> HIDE DEF Good
  <2> QED  BY <2>1
<1> QED  BY <1>3, <1>8

(* One row after the next result: it keeps what the order asked for, is    *)
(* stamped at most once, and is over only if it was or the result ends it. *)
LEMMA UpdatedRow ==
  ASSUME LedgerInv, settled < Len(commands), NEW id \in OrderId, rows[id] # None
  PROVE  LET old == rows[id]
             new == Updated(rows[id], NextResult)
             stamped == NextResult.kind = "create" /\ id = NextResult.id /\ old.order.seq = 0
         IN  /\ new \in Row /\ new.order.id = id
             /\ new.order.user = old.order.user /\ new.order.type = old.order.type
             /\ new.order.price = old.order.price
             /\ new.order.seq = IF stamped THEN settled + 1 ELSE old.order.seq
             /\ IsTerminal(new) =>
                  \/ IsTerminal(old)
                  \/ \E s \in NextResult.orders : s.orderId = id /\ Ends(s)
<1> DEFINE r == NextResult
           old == rows[id]
           new == Updated(old, r)
           acc == Accepted(old, r)
           mine == {s \in r.orders : s.orderId = old.order.id}
           stamped == r.kind = "create" /\ id = r.id /\ old.order.seq = 0
           seq == IF stamped THEN settled + 1 ELSE old.order.seq
           s == CHOOSE x \in mine : TRUE
<1>1. old \in Row /\ old.order \in Order /\ old.order.id = id /\ old.status \in Statuses
  BY DEF LedgerInv, RowsOK, Row
<1>2. r.cmd = settled + 1 /\ settled \in Nat /\ \A x \in r.orders : StateOK(x)
  BY ResultOK, CommandTypes
<1> HIDE DEF r, old
<1>3. /\ acc = [order |-> [old.order EXCEPT !.seq = seq], status |-> old.status]
      /\ [old.order EXCEPT !.seq = seq] \in Order
  <2>1. seq \in Nat
    BY <1>1, <1>2 DEF Order
  <2>2. acc = [old EXCEPT !.order.seq = seq]
    BY <1>1, <1>2 DEF Accepted, Row, Order
  <2> HIDE DEF acc, seq
  <2> QED  BY <1>1, <2>1, <2>2 DEF Row, Order
<1> DEFINE order == [old.order EXCEPT !.seq = seq]
<1>4. /\ order \in Order /\ order.id = id /\ order.user = old.order.user
      /\ order.type = old.order.type /\ order.price = old.order.price /\ order.seq = seq
  BY <1>1, <1>3 DEF Order
<1>5. acc = [order |-> order, status |-> old.status]
  BY <1>3
<1> HIDE DEF acc, order, seq
<1>6. CASE mine = {}
  <2>1. new = [order |-> order, status |-> old.status]
    BY <1>5, <1>6 DEF Updated, acc
  <2> HIDE DEF new
  <2>2. new \in Row /\ new.order = order /\ (IsTerminal(new) => IsTerminal(old))
    BY <1>1, <1>4, <2>1 DEF Row, IsTerminal
  <2> QED  BY <1>4, <2>2 DEF new, r, old, seq, stamped
<1>7. CASE mine # {}
  <2>1. s \in r.orders /\ s.orderId = id
    BY <1>1, <1>7
  <2>2. new = WithState(acc, s)
    BY <1>7 DEF Updated, acc
  <2> HIDE DEF new, s
  <2>3. StateOK(s)
    BY <1>2, <2>1
  <2>4. CASE IsTerminal(acc) /\ acc.status # s.status
    <3>1. new = acc
      BY <2>2, <2>4 DEF WithState
    <3>2. new \in Row /\ new.order = order /\ (IsTerminal(new) => IsTerminal(old))
      BY <1>1, <1>4, <1>5, <3>1 DEF Row, IsTerminal
    <3> QED  BY <1>4, <3>2 DEF new, r, old, seq, stamped
  <2>5. CASE ~(IsTerminal(acc) /\ acc.status # s.status)
    <3>1. new = [acc EXCEPT !.status = s.status, !.order.qty = s.remaining]
      BY <2>2, <2>5 DEF WithState
    <3>2. new = [order |-> [order EXCEPT !.qty = s.remaining], status |-> s.status]
      BY <1>4, <1>5, <3>1 DEF Order
    <3>3. [order EXCEPT !.qty = s.remaining] \in Order
      BY <1>4, <2>3 DEF Order, StateOK
    <3>4. /\ new \in Row /\ new.order.id = id /\ new.order.user = order.user
          /\ new.order.type = order.type /\ new.order.price = order.price
          /\ new.order.seq = order.seq /\ new.status = s.status
      BY <1>4, <2>3, <3>2, <3>3 DEF Row, StateOK, Order
    <3>5. IsTerminal(new) => IsTerminal(old) \/ Ends(s)
      BY <2>1, <3>4 DEF IsTerminal, Ends, old
    <3> QED  BY <1>4, <2>1, <3>4, <3>5 DEF new, r, old, seq, stamped
  <2> QED  BY <2>4, <2>5
<1> QED  BY <1>6, <1>7

LEMMA SettleNextOK ==
  ASSUME LedgerInv, SettleNext
  PROVE  LedgerInv' /\ (MoneyInv => MoneyInv')
<1> DEFINE r == NextResult
           A == accounts
           B == Settled(A, r.trades)
           C == FoldSet(ApplyState, B, r.orders)
<1>1. /\ settled < Len(commands)
      /\ rows' = [id \in OrderId |-> IF rows[id] = None THEN None ELSE Updated(rows[id], r)]
      /\ fills' = fills \o r.trades
      /\ settled' = settled + 1 /\ commands' = commands
      /\ accounts' = AfterResult(r) /\ terms' = terms /\ periods' = periods
  BY DEF SettleNext, Settle
<1>2. /\ r.trades \in Seq(Trade)
      /\ \A i \in DOMAIN r.trades : TradeOK(r.trades[i])
      /\ IsFiniteSet(r.orders)
      /\ \A s \in r.orders : StateOK(s)
  BY <1>1, ResultOK
<1>3. RowsOK /\ TermsOK /\ NothingHeld /\ A \in Accounts
  BY AccountTypes DEF LedgerInv
<1>4. A \in InBalance(A)
  <2>1. \A id \in OrderId : A.pools[id] <= A.pools[id]
    BY AccountTypes
  <2> QED  BY <1>3, <2>1 DEF LedgerInv, InBalance, Shrunk
<1> HIDE DEF r
<1>5. B \in InBalance(A)
  <2>1. PICK n \in Nat : DOMAIN r.trades = 1..n
    BY <1>2, LenProperties
  <2> HIDE DEF A
  <2> QED  BY <1>2, <1>3, <1>4, <2>1, TradesSettled
<1>17. MoneyInv => Conserved(B, 0, 2 * Len(fills) + 2 * Len(r.trades))
  <2> SUFFICES ASSUME MoneyInv
               PROVE  Conserved(B, 0, 2 * Len(fills) + 2 * Len(r.trades))
    OBVIOUS
  <2>1. PICK n : n = Len(r.trades)
    OBVIOUS
  <2>2. n \in Nat /\ DOMAIN r.trades = 1..n
    BY <1>2, <2>1, LenProperties
  <2>3. PICK sides : sides = 2 * Len(fills)
    OBVIOUS
  <2>4. sides \in Nat /\ Conserved(A, 0, sides)
    BY <2>3, LenProperties DEF MoneyInv
  <2> HIDE DEF A
  <2>5. Conserved(B, 0, sides + 2 * n)
    BY <1>2, <1>3, <1>4, <2>2, <2>4, TradesConserved
  <2> QED  BY <2>1, <2>3, <2>5
<1> HIDE DEF B
<1>6. C \in InBalance(A) /\ SameMoney(B, C) /\ \A s \in r.orders : Ends(s) => C.pools[s.orderId] = 0
  <2> HIDE DEF A
  <2> QED  BY <1>2, <1>3, <1>5, StatesApplied
<1>7. AfterResult(r) = Clamped(C)
  BY DEF AfterResult, Settled, B
<1> HIDE DEF C
<1>8. Clamped(C) = C
  <2>1. /\ C = [users |-> C.users, pools |-> C.pools, positions |-> C.positions,
                fees |-> C.fees, insurance |-> C.insurance]
        /\ C.users \in [User -> [balance : Nat, locked : Nat]]
    BY <1>6 DEF InBalance, Accounts
  <2>2. ASSUME NEW u \in User
        PROVE  [balance |-> Positive(C.users[u].balance),
                locked  |-> Positive(C.users[u].locked)] = C.users[u]
    <3>1. C.users[u] \in [balance : Nat, locked : Nat]
      BY <2>1
    <3>2. \A n \in Nat : Positive(n) = n
      BY DEF Positive
    <3> QED  BY <3>1, <3>2
  <2>3. [u \in User |-> [balance |-> Positive(C.users[u].balance),
                         locked  |-> Positive(C.users[u].locked)]] = C.users
    BY <2>1, <2>2
  <2>4. Clamped(C) = [C EXCEPT !.users =
                        [u \in User |-> [balance |-> Positive(C.users[u].balance),
                                         locked  |-> Positive(C.users[u].locked)]]]
    BY DEF Clamped
  <2> QED  BY <2>1, <2>3, <2>4
<1>9. accounts' = C
  BY <1>1, <1>7, <1>8
<1>10. ASSUME NEW id \in OrderId
       PROVE  /\ rows'[id] = None <=> rows[id] = None
              /\ rows[id] # None =>
                   /\ rows'[id] = Updated(rows[id], r)
                   /\ rows'[id].order.user = rows[id].order.user
  <2>1. rows[id] # None => Updated(rows[id], r) \in Row
                           /\ Updated(rows[id], r).order.user = rows[id].order.user
    BY <1>1, UpdatedRow DEF r
  <2> QED  BY <1>1, <2>1, LedgerAssumption
<1>11. \A u : OrdersOf(u)' = OrdersOf(u)
  BY <1>10, SameOwners
<1>12. Backed(accounts)' /\ Interest(accounts)' = 0
  BY <1>6, <1>9, <1>11 DEF InBalance, Backed, Interest
<1>13. NothingHeld'
  <2> SUFFICES ASSUME NEW id \in OrderId, rows'[id] = None \/ IsTerminal(rows'[id])
               PROVE  C.pools[id] = 0
    BY <1>9 DEF NothingHeld, IsTerminal
  <2>1. C.pools[id] \in Nat /\ C.pools[id] <= A.pools[id]
    BY <1>6 DEF InBalance, Accounts, Shrunk
  <2>2. CASE rows[id] = None \/ IsTerminal(rows[id])
    <3>1. A.pools[id] = 0
      BY <1>3, <2>2 DEF NothingHeld
    <3> QED  BY <2>1, <3>1
  <2>3. CASE ~(rows[id] = None \/ IsTerminal(rows[id]))
    <3>1. IsTerminal(Updated(rows[id], r))
      BY <1>10, <2>3
    <3>2. \E s \in r.orders : s.orderId = id /\ Ends(s)
      BY <1>1, <2>3, <3>1, UpdatedRow DEF r
    <3> QED  BY <1>6, <3>2
  <2> QED  BY <2>2, <2>3
<1>14. RowsOK'
  <2> DEFINE stamped(id) == r.kind = "create" /\ id = r.id /\ rows[id].order.seq = 0
  <2>1. settled \in Nat
    BY CommandTypes
  <2>2. ASSUME NEW id \in OrderId, rows'[id] # None
        PROVE  /\ rows[id] # None /\ rows'[id] \in Row /\ rows'[id].order.id = id
               /\ rows'[id].order.type = rows[id].order.type
               /\ rows'[id].order.price = rows[id].order.price
               /\ rows'[id].order.seq = IF stamped(id) THEN settled + 1 ELSE rows[id].order.seq
               /\ rows[id].order.seq \in Nat /\ rows[id].order.seq <= settled
    <3>1. rows[id] # None /\ rows'[id] = Updated(rows[id], r)
      BY <1>10, <2>2
    <3>2. rows[id].order.seq \in Nat /\ rows[id].order.seq <= settled
      BY <1>3, <3>1 DEF RowsOK, Row, Order
    <3> QED  BY <1>1, <3>1, <3>2, UpdatedRow DEF r
  <2>3. rows' \in [OrderId -> Row \cup {None}]
    BY <1>1, <2>2
  <2>4. \A id \in OrderId : rows'[id] # None =>
          /\ rows'[id].order.id = id
          /\ rows'[id].order.seq <= settled'
          /\ rows'[id].order.type = "limit" => rows'[id].order.price \in Nat
    <3> SUFFICES ASSUME NEW id \in OrderId, rows'[id] # None
                 PROVE  /\ rows'[id].order.id = id
                        /\ rows'[id].order.seq <= settled'
                        /\ rows'[id].order.type = "limit" => rows'[id].order.price \in Nat
      OBVIOUS
    <3> QED  BY <1>1, <1>3, <2>1, <2>2 DEF RowsOK
  <2>5. \A i, j \in OrderId :
          /\ rows'[i] # None /\ rows'[j] # None
          /\ rows'[i].order.seq = rows'[j].order.seq /\ rows'[i].order.seq > 0
          => i = j
    <3> SUFFICES ASSUME NEW i \in OrderId, NEW j \in OrderId,
                        rows'[i] # None, rows'[j] # None,
                        rows'[i].order.seq = rows'[j].order.seq, rows'[i].order.seq > 0
                 PROVE  i = j
      OBVIOUS
    <3>1. CASE stamped(i)
      BY <2>1, <2>2, <3>1
    <3>2. CASE stamped(j)
      BY <2>1, <2>2, <3>2
    <3>3. CASE ~stamped(i) /\ ~stamped(j)
      BY <1>3, <2>2, <3>3 DEF RowsOK
    <3> QED  BY <3>1, <3>2, <3>3
  <2> QED  BY <2>3, <2>4, <2>5 DEF RowsOK
<1>15. TermsOK'
  BY <1>1, <1>3, <1>10 DEF TermsOK
<1>16. CommandsOK'
  BY <1>1, <1>10, CommandTypes DEF LedgerInv, CommandsOK
<1>18. ASSUME MoneyInv PROVE MoneyInv'
  <2>1. /\ fills' \in Seq(Trade) /\ Len(fills') = Len(fills) + Len(r.trades)
        /\ Len(fills) \in Nat /\ Len(r.trades) \in Nat
    BY <1>1, <1>2, <1>18, ConcatProperties, LenProperties DEF MoneyInv
  <2>2. 2 * Len(fills') = 2 * Len(fills) + 2 * Len(r.trades)
    <3>1. PICK k, m, n : k = Len(fills') /\ m = Len(fills) /\ n = Len(r.trades)
      OBVIOUS
    <3>2. m \in Nat /\ n \in Nat /\ k = m + n
      BY <2>1, <3>1
    <3>3. 2 * k = 2 * m + 2 * n
      BY <3>2
    <3> QED  BY <3>1, <3>3
  <2>3. Conserved(C, 0, 2 * Len(fills) + 2 * Len(r.trades))
    BY <1>6, <1>17, <1>18, ConservedSame
  <2>4. Conserved(accounts', 0, 2 * Len(fills'))
    BY <1>9, <2>2, <2>3
  <2> QED  BY <2>1, <2>4 DEF MoneyInv
<1> QED  BY <1>1, <1>12, <1>13, <1>14, <1>15, <1>16, <1>18 DEF LedgerInv

-----------------------------------------------------------------------------

(* A step that settles nothing conserves money because it moves none.      *)
LEMMA MoneyKept ==
  ASSUME MoneyInv, fills' = fills, SameMoney(accounts, accounts')
  PROVE  MoneyInv'
<1>1. PICK A, B, n : A = accounts /\ B = accounts' /\ n = 2 * Len(fills)
  OBVIOUS
<1>2. Conserved(A, 0, n) /\ SameMoney(A, B)
  BY <1>1 DEF MoneyInv
<1>3. Conserved(B, 0, n)
  BY <1>2, ConservedSame
<1> QED  BY <1>1, <1>3 DEF MoneyInv

(* The invariant is inductive: no interleaving of orders placed, enqueued  *)
(* and cancelled, results settled, liquidations and funding breaks it.     *)
THEOREM LedgerInvariant ==
  Spec => [](LedgerInv /\ MoneyInv)
<1>1. ASSUME LedgerInv, [Next]_vars
      PROVE  LedgerInv' /\ (MoneyInv => MoneyInv')
  <2> DEFINE Kept == fills' = fills /\ SameMoney(accounts, accounts')
  <2>1. ASSUME NEW id \in OrderId, NEW req \in Requests[id], Place(id, req)
        PROVE  LedgerInv' /\ Kept
    BY <1>1, <2>1, PlaceOK
  <2>2. ASSUME NEW id \in OrderId, NEW u \in User, Close(id, u)
        PROVE  LedgerInv' /\ Kept
    BY <1>1, <2>2, CloseOK
  <2>3. ASSUME NEW id \in OrderId, NEW u \in User, Liquidate(id, u)
        PROVE  LedgerInv' /\ Kept
    BY <1>1, <2>3, LiquidateOK
  <2>4. ASSUME NEW id \in OrderId, Cancel(id) PROVE LedgerInv' /\ Kept
    <3>1. CancelOf(id) \in Commands
      BY DEF CancelOf, Commands
    <3> QED  BY <1>1, <2>4, <3>1, CommandOK DEF Cancel
  <2>5. ASSUME NEW id \in OrderId, Enqueue(id) PROVE LedgerInv' /\ Kept
    <3>1. Create(id) \in Commands
      BY DEF Create, Commands
    <3> QED  BY <1>1, <2>5, <3>1, CommandOK DEF Enqueue
  <2>6. ASSUME NEW id \in OrderId, Unplace(id) PROVE LedgerInv' /\ Kept
    BY <1>1, <2>6, UnplaceOK
  <2>7. CASE SettleNext
    BY <1>1, <2>7, SettleNextOK
  <2>8. CASE Fund
    BY <1>1, <2>8, FundOK, MoneyKept
  <2>9. CASE UNCHANGED vars
    <3>1. /\ rows' = rows /\ commands' = commands /\ settled' = settled /\ terms' = terms
          /\ accounts' = accounts /\ periods' = periods /\ fills' = fills
      BY <2>9 DEF vars
    <3>2. LedgerInv'
      BY <1>1, <3>1 DEF LedgerInv, RowsOK, TermsOK, CommandsOK, Backed, OrdersOf,
                        Interest, NothingHeld, IsTerminal
    <3> QED  BY <3>1, <3>2 DEF MoneyInv
  <2>10. Kept => (MoneyInv => MoneyInv')
    BY MoneyKept
  <2> HIDE DEF Kept
  <2> QED  BY <1>1, <2>1, <2>2, <2>3, <2>4, <2>5, <2>6, <2>7, <2>8, <2>9, <2>10 DEF Next
<1> QED  BY <1>1, LedgerInit, PTL DEF Spec

(* No balance, reserve or margin is ever negative (schema.prisma).         *)
THEOREM LedgerTypeOK ==
  Spec => []TypeOK
<1>1. LedgerInv => TypeOK
  BY DEF LedgerInv, TypeOK, TermsOK, Backed, Accounts
<1> QED  BY <1>1, LedgerInvariant, PTL

(* What is locked of a user's money is exactly what open orders reserve    *)
(* and the position has as margin.                                         *)
THEOREM LockedIsBacked ==
  Spec => []LockedBacked
<1>1. LedgerInv => LockedBacked
  BY DEF LedgerInv, LockedBacked, Backed, Users, PositionOf
<1> QED  BY <1>1, LedgerInvariant, PTL

(* For every long unit there is a short one.                               *)
THEOREM InterestIsBalanced ==
  Spec => []OpenInterestBalanced
<1>1. LedgerInv => OpenInterestBalanced
  BY DEF LedgerInv, OpenInterestBalanced, Interest, PositionOf
<1> QED  BY <1>1, LedgerInvariant, PTL

(* An order that is over holds no margin, however it ended.                *)
THEOREM EndedOrdersHoldNothing ==
  Spec => []TerminalHoldsNothing
<1>1. LedgerInv => TerminalHoldsNothing
  BY DEF LedgerInv, TerminalHoldsNothing, NothingHeld
<1> QED  BY <1>1, LedgerInvariant, PTL

LEMMA SumWithin ==
  ASSUME NEW S, IsFiniteSet(S), NEW f, NEW c \in Nat, \A x \in S : f[x] \in -c..c
  PROVE  SumFunctionOnSet(f, S) \in Int /\ Within(SumFunctionOnSet(f, S), c * Cardinality(S))
<1> DEFINE F(T) == SumFunctionOnSet(f, T)
           Bad == {T \in SUBSET S : ~Within(F(T), c * Cardinality(T))}
<1>1. \A x \in S : f[x] \in Int
  OBVIOUS
<1>2. \A T \in SUBSET S : IsFiniteSet(T) /\ F(T) \in Int /\ Cardinality(T) \in Nat
  BY <1>1, FS_Subset, FS_CardinalityType, SumInt
<1>3. ASSUME Bad # {} PROVE FALSE
  <2>1. PICK T \in Bad : \A U \in Bad : U \subseteq T => U = T
    <3>1. Bad \in SUBSET (SUBSET S)
      OBVIOUS
    <3> HIDE DEF Bad
    <3> QED  BY <1>3, <3>1, MinimalSubset
  <2>2. T \in SUBSET S /\ ~Within(F(T), c * Cardinality(T))
    OBVIOUS
  <2>3. T # {}
    <3>1. F({}) = 0 /\ Cardinality({}) = 0 /\ c * 0 = 0
      BY SumEmpty, FS_EmptySet
    <3>2. Within(0, 0)
      BY DEF Within
    <3> HIDE DEF F
    <3> QED  BY <2>2, <3>1, <3>2
  <2>4. PICK x \in T : TRUE
    BY <2>3
  <2> DEFINE rest == T \ {x}
  <2>5. Within(F(rest), c * Cardinality(rest)) /\ rest \in SUBSET S
    <3>1. rest \notin Bad
      BY <2>1, <2>4
    <3> HIDE DEF F
    <3> QED  BY <2>2, <3>1
  <2>6. F(T) = f[x] + F(rest) /\ f[x] \in Int /\ -c <= f[x] /\ f[x] <= c
    <3>1. IsFiniteSet(T)
      BY <1>2, <2>2
    <3>2. \A y \in T : f[y] \in Int
      BY <1>1, <2>2
    <3> QED  BY <2>2, <2>4, <3>1, <3>2, SumElement
  <2>7. Cardinality(rest) = Cardinality(T) - 1
    BY <1>2, <2>2, <2>4, FS_RemoveElement
  <2>8. F(rest) \in Int /\ Cardinality(T) \in Nat
    BY <1>2, <2>2, <2>5
  <2>9. PICK k, m : k = Cardinality(T) /\ m = c * Cardinality(rest)
    OBVIOUS
  <2>10. m \in Int /\ c * k = m + c
    BY <2>7, <2>8, <2>9
  <2> HIDE DEF F, rest
  <2>11. Within(F(T), c * k)
    BY <2>5, <2>6, <2>8, <2>9, <2>10 DEF Within
  <2> QED  BY <2>2, <2>9, <2>11
<1>4. S \in SUBSET S /\ S \notin Bad
  BY <1>3
<1> QED  BY <1>2, <1>4

(* From the exact costs to the rounded ones: half a unit for each position.*)
LEMMA ConservedRounded ==
  ASSUME NEW A \in Accounts, NEW n \in Nat, Conserved(A, 0, 2 * n),
         NEW costs, \A u \in User : costs[u] = Cost(A.positions[u])
  PROVE  /\ Total(A) - SumFunctionOnSet(costs, User) \in Int
         /\ Within(Total(A) - SumFunctionOnSet(costs, User), n + Cardinality(User))
<1>1. PICK D, cost :
        /\ Costs(A, D, cost)
        /\ Within(2 * (D * (Total(A) + 0) - SumFunctionOnSet(cost, User)), D * (2 * n))
  BY Zenon DEF Conserved
<1>2. /\ D \in Nat \ {0} /\ cost \in [User -> Int]
      /\ \A u \in User : cost[u] * Den(A.positions[u]) = D * Num(A.positions[u])
  BY <1>1 DEF Costs
<1> DEFINE off == [u \in User |-> 2 * (D * costs[u] - cost[u])]
           double == [u \in User |-> 2 * D * costs[u]]
           less == [u \in User |-> -2 * cost[u]]
<1>3. ASSUME NEW u \in User
      PROVE  costs[u] \in Int /\ cost[u] \in Int /\ off[u] \in -D..D
  <2> DEFINE num == Num(A.positions[u])
             den == Den(A.positions[u])
             k == cost[u]
             r == costs[u]
  <2>1. A.positions[u] \in Position \cup {None}
    BY DEF Accounts
  <2>2. num \in Int /\ den \in Nat \ {0} /\ r = Round(num, den) /\ k * den = D * num /\ k \in Int
    BY <1>2, <2>1, NumDen
  <2> HIDE DEF num, den
  <2>3. r \in Int /\ Within(2 * (den * r - num), den)
    BY <2>2, RoundInt, RoundNear
  <2> HIDE DEF k, r
  <2> DEFINE x == 2 * (den * r - num)
             y == 2 * (D * r - k)
  <2>4. den * y = D * x
    <3>1. den * y = 2 * (D * (den * r)) - 2 * (k * den)
      BY <1>2, <2>2, <2>3
    <3>2. D * x = 2 * (D * (den * r)) - 2 * (D * num)
      BY <1>2, <2>2, <2>3
    <3> QED  BY <2>2, <3>1, <3>2
  <2>5. x \in Int /\ y \in Int
    BY <1>2, <2>2, <2>3
  <2>6. Within(x, den)
    BY <2>3
  <2>7. off[u] = y
    BY DEF k, r
  <2> HIDE DEF x, y, off
  <2>8. Within(y, D)
    BY <1>2, <2>2, <2>4, <2>5, <2>6, Rescaled
  <2> QED  BY <1>2, <2>2, <2>3, <2>5, <2>7, <2>8 DEF Within, k, r
<1> DEFINE S == SumFunctionOnSet(cost, User)
           R == SumFunctionOnSet(costs, User)
           O == SumFunctionOnSet(off, User)
           c == Cardinality(User)
<1>4. S \in Int /\ R \in Int /\ c \in Nat
  BY <1>3, SumInt, FS_CardinalityType, LedgerAssumption
<1>5. O \in Int /\ Within(O, D * c)
  <2> HIDE DEF off
  <2> QED  BY <1>2, <1>3, SumWithin, LedgerAssumption
<1>6. O = 2 * D * R - 2 * S
  <2>1. PICK a \in Int, b \in Int : a = 2 * D /\ b = -2
    BY <1>2
  <2>2. \A u \in User : /\ double[u] = a * costs[u] /\ less[u] = b * cost[u]
                         /\ double[u] \in Int /\ less[u] \in Int
    BY <1>2, <1>3, <2>1
  <2>3. ASSUME NEW u \in User PROVE off[u] = double[u] + less[u]
    BY <1>2, <1>3
  <2> HIDE DEF double, less, off
  <2>4. SumFunctionOnSet(double, User) = a * R /\ SumFunctionOnSet(less, User) = b * S
    BY <1>3, <2>2, SumScaled, LedgerAssumption
  <2>5. O = SumFunctionOnSet(double, User) + SumFunctionOnSet(less, User)
    BY <2>2, <2>3, SumPlus, LedgerAssumption
  <2> HIDE DEF S, R, O
  <2>6. a * R = 2 * D * R /\ b * S = -2 * S
    BY <1>4, <2>1
  <2> QED  BY <1>2, <1>4, <2>4, <2>5, <2>6
<1> DEFINE t == Total(A)
           gap == t - R
<1>7. t \in Int /\ Within(2 * (D * t - S), D * (2 * n))
  BY <1>1, TotalInt
<1> HIDE DEF S, R, O, c, t
<1>8. gap \in Int
  BY <1>4, <1>7
<1> DEFINE slack == 2 * (n + c)
<1>9. Within(D * (2 * gap), D * slack)
  <2>1. PICK x, y, z : x = 2 * (D * t - S) /\ y = D * (2 * n) /\ z = D * c
    OBVIOUS
  <2>2. x \in Int /\ y \in Int /\ z \in Int
    BY <1>2, <1>4, <1>7, <2>1
  <2>3. -y <= x /\ x <= y /\ -z <= O /\ O <= z
    BY <1>5, <1>7, <2>1 DEF Within
  <2>4. z >= 0
    BY <1>2, <1>4, <2>1
  <2>5. D * (2 * gap) = x - O
    BY <1>2, <1>4, <1>6, <1>7, <2>1
  <2>6. D * slack = y + 2 * z
    BY <1>2, <1>4, <2>1
  <2>7. Within(x - O, y + 2 * z)
    BY <1>5, <2>2, <2>3, <2>4 DEF Within
  <2> QED  BY <2>5, <2>6, <2>7
<1>10. Within(gap, n + c)
  <2>1. PICK g \in Int, s \in Int : g = 2 * gap /\ s = slack
    BY <1>4, <1>8
  <2>2. Within(D * g, D * s)
    BY <1>9, <2>1
  <2>3. -s <= g /\ g <= s
    <3>1. D * (-s) = -(D * s)
      BY <1>2
    <3>2. D * (-s) <= D * g /\ D * g <= D * s
      BY <2>2, <3>1 DEF Within
    <3>3. -s \in Int
      BY <2>1
    <3> QED  BY <1>2, <2>1, <3>2, <3>3, TimesMonotonic
  <2> QED  BY <1>4, <1>8, <2>1, <2>3 DEF Within
<1> QED  BY <1>8, <1>10 DEF gap, t, R, c

(* Money is neither made nor lost: balances, locked balances, fees and     *)
(* insurance, less what positions cost, stay what was deposited, but for   *)
(* at most one unit of rounding per trade and one per position.            *)
THEOREM MoneyIsConserved ==
  Spec => []MoneyConserved
<1>1. ASSUME LedgerInv, MoneyInv PROVE MoneyConserved
  <2> DEFINE A == accounts
             gain(u) == Users(u).balance + Users(u).locked - Cost(PositionOf(u)) - Deposits[u]
             g == [u \in User |-> gain(u)]
             f == [u \in User |-> Gain(A, u)]
             costs == [u \in User |-> Cost(A.positions[u])]
             less == [u \in User |-> -costs[u]]
             gap == SumFunction(g) + A.fees + A.insurance
             slack == Len(fills) + Cardinality(User)
  <2>1. A \in Accounts /\ Len(fills) \in Nat /\ Conserved(A, 0, 2 * Len(fills))
    BY <1>1, AccountTypes, LenProperties DEF MoneyInv
  <2>2. \A u \in User : costs[u] = Cost(A.positions[u])
    OBVIOUS
  <2>3. /\ Total(A) = SumFunctionOnSet(f, User) + A.fees + A.insurance
        /\ gap = SumFunctionOnSet(g, User) + A.fees + A.insurance
        /\ A.fees \in Int /\ A.insurance \in Int
    BY <2>1 DEF Total, SumFunction, Accounts
  <2>4. ASSUME NEW u \in User
        PROVE  /\ costs[u] \in Int /\ f[u] \in Int /\ less[u] \in Int
               /\ less[u] = -costs[u] /\ g[u] = f[u] + less[u]
    <3>1. A.positions[u] \in Position \cup {None}
      BY <2>1 DEF Accounts
    <3>2. costs[u] \in Int
      BY <3>1, NumDen, RoundInt
    <3>3. /\ A.users[u].balance \in Nat /\ A.users[u].locked \in Nat /\ Deposits[u] \in Nat
          /\ f[u] = A.users[u].balance + A.users[u].locked - Deposits[u]
          /\ g[u] = A.users[u].balance + A.users[u].locked - costs[u] - Deposits[u]
      BY <2>1, LedgerAssumption DEF Accounts, Gain, Users, PositionOf
    <3> QED  BY <3>2, <3>3
  <2> HIDE DEF A, g, f, costs, less, gap
  <2>5. Within(Total(A) - SumFunctionOnSet(costs, User), slack)
    BY <2>1, <2>2, ConservedRounded
  <2>6. SumFunctionOnSet(g, User) = SumFunctionOnSet(f, User) + SumFunctionOnSet(less, User)
    BY <2>4, SumPlus, LedgerAssumption
  <2>7. SumFunctionOnSet(less, User) = -SumFunctionOnSet(costs, User)
    <3>1. PICK c \in Int : c = -1
      OBVIOUS
    <3>2. \A u \in User : costs[u] \in Int /\ less[u] = c * costs[u]
      BY <2>4, <3>1
    <3>3. SumFunctionOnSet(less, User) = c * SumFunctionOnSet(costs, User)
      BY <3>2, SumScaled, LedgerAssumption
    <3>4. SumFunctionOnSet(costs, User) \in Int
      BY <3>2, SumInt, LedgerAssumption
    <3> QED  BY <3>1, <3>3, <3>4
  <2>8. SumFunctionOnSet(f, User) \in Int /\ SumFunctionOnSet(costs, User) \in Int
    BY <2>4, SumInt, LedgerAssumption
  <2>9. gap = Total(A) - SumFunctionOnSet(costs, User) /\ gap \in Int
    BY <2>3, <2>6, <2>7, <2>8
  <2>10. slack \in Int
    BY <2>1, FS_CardinalityType, LedgerAssumption
  <2>11. gap \in -slack..slack
    BY <2>5, <2>9, <2>10 DEF Within
  <2> QED  BY <2>11 DEF MoneyConserved, gap, g, A
<1> QED  BY <1>1, LedgerInvariant, PTL
=============================================================================
