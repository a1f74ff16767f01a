------------------------------ MODULE Exchange ------------------------------
(***************************************************************************)
(* The abstract exchange: what API, stream, engine and db-worker promise   *)
(* together.  Commands are carried out one at a time, in the order of the  *)
(* stream, each against the orders the database holds at that moment, and  *)
(* each takes effect at once.                                              *)
(***************************************************************************)
EXTENDS Optional, Results

CONSTANTS
  OrderId,
  Requests    \* what each order may ask for: a set of [user, side, type, price, qty]

VARIABLES
  rows,       \* the Order table: row or None
  fills,      \* the Fill table, in the order of insertion
  commands,   \* the order_events stream
  settled     \* how many commands have taken effect

exchangeVars == <<rows, fills, commands, settled>>

Rows == {rows[id] : id \in OrderId} \ {None}

ExchangeInit ==
  /\ rows = [id \in OrderId |-> None]
  /\ fills = <<>>
  /\ commands = <<>>
  /\ settled = 0

PlaceRow(id, req) ==
  /\ rows[id] = None
  /\ rows' = [rows EXCEPT ![id] = NewRow(id, req)]
  /\ UNCHANGED <<fills, commands, settled>>

Command(cmd) ==
  /\ rows[cmd.id] # None
  /\ commands' = Append(commands, cmd)
  /\ UNCHANGED <<rows, fills, settled>>

\* A reservation is undone only if the order was never enqueued.
Undo(id) ==
  /\ rows[id] # None
  /\ rows[id].status = "open"
  /\ \A c \in DOMAIN commands : commands[c] # Create(id)
  /\ rows' = [rows EXCEPT ![id].status = "rejected"]
  /\ UNCHANGED <<fills, commands, settled>>

\* What the next command results in.
NextResult ==
  LET c   == settled + 1
      cmd == commands[c]
      bk  == BookOf(Rows)
  IN  IF cmd.kind = "create"
      THEN CreateResult(c, cmd, bk, Incoming(rows[cmd.id], c))
      ELSE CancelResult(c, cmd, bk)

\* The next command takes effect.
Settle ==
  /\ settled < Len(commands)
  /\ LET r == NextResult
     IN  /\ rows' = [id \in OrderId |-> IF rows[id] = None THEN None ELSE Updated(rows[id], r)]
         /\ fills' = fills \o r.trades
  /\ settled' = settled + 1
  /\ UNCHANGED commands

ExchangeNext ==
  \/ \E id \in OrderId : \/ \E req \in Requests[id] : PlaceRow(id, req)
                         \/ Command(Create(id))
                         \/ Command(CancelOf(id))
                         \/ Undo(id)
  \/ Settle

ExchangeSpec == ExchangeInit /\ [][ExchangeNext]_exchangeVars
=============================================================================
