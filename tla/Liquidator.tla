----------------------------- MODULE Liquidator -----------------------------
(***************************************************************************)
(* The liquidator's scan, call by call, between the price feed it reads    *)
(* from, the positions and orders that settlement changes meanwhile, and   *)
(* the stream it writes to.  One market.  Engine and db-worker are reduced *)
(* to what they do to the orders and positions of the users: Pipeline and  *)
(* Ledger have them in full.                                               *)
(*                                                                         *)
(* Source: apps/liquidator/src/index.ts, getIndexPrice of                  *)
(* packages/redis/src/index.ts, apps/price-service/src/index.ts.           *)
(***************************************************************************)
EXTENDS Integers, FiniteSets, Sequences, TLC

CONSTANTS
  User,
  Order,      \* orders of users, for one unit each
  Slot,       \* rows of liquidation orders, numbers; one that is over is used again
  Mark,       \* index prices
  Risks,      \* at which prices a position may be under maintenance margin
  StartQty,   \* of every position, long
  MaxWait,    \* the longest backoff
  MaxFaults,  \* bound: failed calls and deaths
  None

ASSUME LiquidatorAssumption ==
  /\ Order \cap Slot = {}
  /\ Risks \subseteq SUBSET Mark
  /\ StartQty \in Nat \ {0} /\ MaxWait \in Nat \ {0} /\ MaxFaults \in Nat

VARIABLES
  price,      \* Redis: the index price, None when it is too old
  positions,  \* PostgreSQL: the open position of each user, or None
  rows,       \* PostgreSQL: orders
  stream,     \* order_events, not yet handled
  book,       \* engine: orders of users that rest
  results,    \* engine_events, not yet applied
  at,         \* liquidator: where it is
  scan,       \* liquidator: the price and the positions it has read
  left,       \* liquidator: positions it has still to look at
  target,     \* liquidator: the one it is about to liquidate
  cancels,    \* liquidator: resting orders it has still to cancel
  waits,      \* liquidator: nextAttempt, as time left and attempts made
  faults

env == <<price, positions, book>>
loop == <<at, scan, left, target, cancels, waits>>
vars == <<price, positions, rows, stream, book, results,
          at, scan, left, target, cancels, waits, faults>>

Id == Order \cup Slot

IsOpen(i) == rows[i] # None /\ rows[i].open

\* Liquidation orders of a user that are open.
InFlight(u) == {i \in Slot : IsOpen(i) /\ rows[i].user = u}

Init ==
  /\ price \in Mark \cup {None}
  /\ positions \in [User -> {[id |-> 1, qty |-> StartQty, risk |-> r] : r \in Risks}]
  /\ rows = [i \in Id |-> None]
  /\ stream = <<>> /\ book = {} /\ results = <<>>
  /\ at = "idle" /\ scan = None /\ left = {} /\ target = None /\ cancels = {}
  /\ waits = <<>>
  /\ faults = 0

Fault == faults < MaxFaults /\ faults' = faults + 1

-----------------------------------------------------------------------------
(* Prices and users.                                                       *)

\* The price service writes a price, or has not for longer than PRICE_MAX_AGE_MS.
PriceMoves ==
  /\ price' \in (Mark \cup {None}) \ {price}
  /\ UNCHANGED <<positions, rows, stream, book, results, loop, faults>>

\* A user places an order, which is enqueued at once.
Place(u, o, dir) ==
  /\ rows[o] = None
  /\ rows' = [rows EXCEPT ![o] = [user |-> u, qty |-> dir, open |-> TRUE, accepted |-> FALSE]]
  /\ stream' = Append(stream, [type |-> "create", order |-> o])
  /\ UNCHANGED <<env, results, loop, faults>>

-----------------------------------------------------------------------------
(* Engine and db-worker.                                                   *)

\* What became of an order: filled so far, and whether it is over.
Report(i, fill, over) == results' = Append(results, [order |-> i, fill |-> fill, over |-> over])

Handles(entry) == stream # <<>> /\ Head(stream) = entry /\ stream' = Tail(stream)

EngineRests(o) ==
  /\ Handles([type |-> "create", order |-> o])
  /\ book' = book \cup {o}
  /\ Report(o, 0, FALSE)
  /\ UNCHANGED <<price, positions, rows, loop, faults>>

EngineCancels(o) ==
  /\ Handles([type |-> "cancel", order |-> o])
  /\ book' = book \ {o}
  /\ IF o \in book THEN Report(o, 0, TRUE) ELSE UNCHANGED results
  /\ UNCHANGED <<price, positions, rows, loop, faults>>

\* A resting order is filled by someone else.
EngineFills(o) ==
  /\ o \in book
  /\ book' = book \ {o}
  /\ Report(o, 1, TRUE)
  /\ UNCHANGED <<price, positions, rows, stream, loop, faults>>

Sign(q) == IF q > 0 THEN 1 ELSE -1

Size(q) == q * Sign(q)

\* Orders of the same user on the other side.
Own(i) == {o \in book : rows[o].user = rows[i].user /\ Sign(rows[o].qty) # Sign(rows[i].qty)}

Liquidates(i, k) ==
  /\ Handles([type |-> "create", order |-> i])
  /\ Report(i, k, TRUE)
  /\ UNCHANGED <<env, rows, loop, faults>>

\* The liquidation order takes all it is for.
EngineCloses(i) == Liquidates(i, Size(rows[i].qty))

\* There is less, or it comes to an order of its own user; the rest is discarded.
EngineDiscards(i) ==
  /\ IsOpen(i)
  /\ \E k \in 0..(Size(rows[i].qty) - 1) : Liquidates(i, k)

\* An id the liquidator does not know: what ids it has forgotten does not matter.
NewId ==
  LET known == DOMAIN waits \cup {p.pos.id : p \in left}
                 \cup (IF scan = None THEN {} ELSE scan.ids)
                 \cup {positions[u].id : u \in {v \in User : positions[v] # None}}
  IN  CHOOSE id \in 1..(Cardinality(known) + 1) : id \notin known

\* A fill changes the position; one that goes through zero is a new one.
Traded(p, q, r) ==
  LET sum == (IF p = None THEN 0 ELSE p.qty) + q
  IN  IF sum = 0 THEN None
      ELSE IF p # None /\ Sign(p.qty) = Sign(sum)
      THEN [p EXCEPT !.qty = sum, !.risk = IF Size(sum) > Size(p.qty) THEN r ELSE @]
      ELSE [id |-> NewId, qty |-> sum, risk |-> r]

\* applyEngineResult of the db-worker.
Settle ==
  /\ results # <<>>
  /\ LET i == Head(results).order
         u == rows[i].user
         q == Head(results).fill * Sign(rows[i].qty)
     IN  /\ rows' = [rows EXCEPT ![i].accepted = TRUE, ![i].open = ~Head(results).over]
         /\ IF q = 0 THEN UNCHANGED positions
            ELSE \E r \in Risks : positions' = [positions EXCEPT ![u] = Traded(@, q, r)]
  /\ results' = Tail(results)
  /\ UNCHANGED <<price, stream, book, loop, faults>>

-----------------------------------------------------------------------------
(* scan.                                                                   *)

Liquidatable(p, mark) == mark \in p.risk

\* getIndexPrice.
ReadPrice ==
  /\ at = "idle"
  /\ at' = "priced"
  /\ scan' = [mark |-> price, ids |-> {}]
  /\ UNCHANGED <<env, rows, stream, results, left, target, cancels, waits, faults>>

\* What nextAttempt says is due is due at the time the scan begins.
ReadPositions ==
  /\ at = "priced"
  /\ at' = "scan"
  /\ LET open   == {u \in User : positions[u] # None}
         Due(p) == p.id \notin DOMAIN waits \/ waits[p.id].time = 0
     IN  /\ left' = {[user |-> u, pos |-> positions[u], due |-> Due(positions[u])] : u \in open}
         /\ scan' = [scan EXCEPT !.ids = {positions[u].id : u \in open}]
  /\ UNCHANGED <<env, rows, stream, results, target, cancels, waits, faults>>

Forgotten(ids) == [id \in DOMAIN waits \ ids |-> waits[id]]

\* The price was stale, the position is above its margin, or it is not due.
Pass(p) ==
  /\ at = "scan" /\ p \in left
  /\ left' = left \ {p}
  /\ \/ scan.mark = None /\ UNCHANGED waits
     \/ scan.mark # None /\ ~Liquidatable(p.pos, scan.mark) /\ waits' = Forgotten({p.pos.id})
     \/ scan.mark # None /\ Liquidatable(p.pos, scan.mark) /\ ~p.due /\ UNCHANGED waits
  /\ UNCHANGED <<env, rows, stream, results, at, scan, target, cancels, faults>>

\* Twice as long each time, up to the longest.
Backoff(attempts) == IF 2 ^ (attempts - 1) < MaxWait THEN 2 ^ (attempts - 1) ELSE MaxWait

Attempts(id) == IF id \in DOMAIN waits THEN waits[id].attempts ELSE 0

\* The attempt is counted before it is made.  (No more are counted than matter.)
Attempt(p) ==
  /\ at = "scan" /\ p \in left
  /\ scan.mark # None /\ Liquidatable(p.pos, scan.mark) /\ p.due
  /\ left' = left \ {p}
  /\ LET n == Attempts(p.pos.id) + 1
     IN  waits' = (p.pos.id :> [time     |-> Backoff(n),
                                attempts |-> IF n > MaxWait THEN MaxWait ELSE n]) @@ waits
  /\ target' = p
  /\ at' = "check"
  /\ UNCHANGED <<env, rows, stream, results, scan, cancels, faults>>

\* Positions that are closed are forgotten.
EndScan ==
  /\ at = "scan" /\ left = {}
  /\ waits' = Forgotten(DOMAIN waits \ scan.ids)
  /\ at' = "idle"
  /\ scan' = None
  /\ UNCHANGED <<env, rows, stream, results, left, target, cancels, faults>>

-----------------------------------------------------------------------------
(* triggerLiquidation.                                                     *)

Return == at' = "scan" /\ target' = None /\ cancels' = {}

\* Broken: an order of the user that is over counts as in flight.
Check_Any ==
  /\ at = "check"
  /\ IF \E i \in Slot : rows[i] # None /\ rows[i].user = target.user
     THEN Return ELSE at' = "look" /\ UNCHANGED <<target, cancels>>
  /\ UNCHANGED <<env, rows, stream, results, scan, left, waits, faults>>

\* Broken: nothing is looked for.
Check_Never ==
  /\ at = "check"
  /\ at' = "look"
  /\ UNCHANGED <<env, rows, stream, results, scan, left, target, cancels, waits, faults>>

Check ==
  /\ at = "check"
  /\ IF InFlight(target.user) # {} THEN Return ELSE at' = "look" /\ UNCHANGED <<target, cancels>>
  /\ UNCHANGED <<env, rows, stream, results, scan, left, waits, faults>>

\* Open orders the engine is known to have accepted.
Look ==
  /\ at = "look"
  /\ cancels' = {i \in Id : IsOpen(i) /\ rows[i].user = target.user /\ rows[i].accepted}
  /\ at' = "cancel"
  /\ UNCHANGED <<env, rows, stream, results, scan, left, target, waits, faults>>

Cancel(o) ==
  /\ at = "cancel" /\ o \in cancels
  /\ stream' = Append(stream, [type |-> "cancel", order |-> o])
  /\ cancels' = cancels \ {o}
  /\ UNCHANGED <<env, rows, results, at, scan, left, target, waits, faults>>

\* Nothing refers to the row any more.
Free(i) ==
  /\ ~IsOpen(i)
  /\ \A n \in DOMAIN stream : stream[n].order # i
  /\ \A n \in DOMAIN results : results[n].order # i

\* A closing order for what the position was when the scan read it.
WriteRow(i) ==
  /\ at = "cancel" /\ cancels = {}
  /\ Free(i) /\ \A j \in Slot : j < i => ~Free(j)
  /\ rows' = [rows EXCEPT ![i] = [user |-> target.user, qty |-> -target.pos.qty,
                                  open |-> TRUE, accepted |-> FALSE]]
  /\ at' = "enqueue"
  /\ cancels' = {i}
  /\ UNCHANGED <<env, stream, results, scan, left, target, waits, faults>>

Enqueue(i) ==
  /\ at = "enqueue" /\ cancels = {i}
  /\ stream' = Append(stream, [type |-> "create", order |-> i])
  /\ Return
  /\ UNCHANGED <<env, rows, results, scan, left, waits, faults>>

\* The XADD fails: the row is rejected, if that does not fail as well.
EnqueueFails(i) ==
  /\ at = "enqueue" /\ cancels = {i}
  /\ Fault
  /\ rows' = [rows EXCEPT ![i].open = FALSE] \/ UNCHANGED rows
  /\ Return
  /\ UNCHANGED <<env, stream, results, scan, left, waits>>

\* Any call before that fails; the next position is looked at.
TriggerFails ==
  /\ at \in {"check", "look", "cancel"}
  /\ Fault
  /\ Return
  /\ UNCHANGED <<env, rows, stream, results, scan, left, waits>>

\* The positions cannot be read; what the scans remember stays.
ScanFails ==
  /\ at = "priced"
  /\ Fault
  /\ at' = "idle" /\ scan' = None
  /\ UNCHANGED <<env, rows, stream, results, left, target, cancels, waits>>

\* The liquidator dies and is restarted, with nothing in its memory.
Dies ==
  /\ at # "idle"
  /\ Fault
  /\ at' = "idle" /\ scan' = None /\ left' = {} /\ target' = None /\ cancels' = {}
  /\ waits' = <<>>
  /\ UNCHANGED <<env, rows, stream, results>>

TimePasses ==
  /\ \E id \in DOMAIN waits : waits[id].time > 0
  /\ waits' = [id \in DOMAIN waits |->
                 [waits[id] EXCEPT !.time = IF @ > 0 THEN @ - 1 ELSE 0]]
  /\ UNCHANGED <<env, rows, stream, results, at, scan, left, target, cancels, faults>>

-----------------------------------------------------------------------------

Scan ==
  \/ ReadPrice \/ ReadPositions \/ EndScan
  \/ \E p \in left : Pass(p) \/ Attempt(p)
  \/ Check \/ Look
  \/ \E o \in cancels : Cancel(o) \/ Enqueue(o)
  \/ \E i \in Slot : WriteRow(i)

Engine ==
  \/ \E o \in Order : EngineRests(o) \/ EngineCancels(o)
  \/ \E i \in Slot : EngineCloses(i) \/ EngineDiscards(i)

Next ==
  \/ Scan \/ Engine \/ Settle
  \/ \E i \in Slot : EnqueueFails(i)
  \/ TriggerFails \/ ScanFails \/ Dies \/ TimePasses \/ PriceMoves
  \/ \E o \in Order : \/ EngineFills(o)
                      \/ \E u \in User, dir \in {1, -1} : Place(u, o, dir)

Spec == Init /\ [][Next]_vars

\* All loops go on, and not for ever is there less in the market than what a user's
\* liquidation orders are for, when none of the user's own orders is in the way.
FairSpec ==
  /\ Spec
  /\ WF_vars(Scan) /\ WF_vars(Engine) /\ WF_vars(Settle) /\ WF_vars(TimePasses)
  /\ \A u \in User : SF_vars(\E i \in InFlight(u) : Own(i) = {} /\ EngineCloses(i))

-----------------------------------------------------------------------------
(* Properties.                                                             *)

(* A user has at most one liquidation order open, whatever fails and       *)
(* whenever the liquidator is restarted.                                   *)
OneInFlight ==
  \A i, j \in Slot : IsOpen(i) /\ IsOpen(j) /\ rows[i].user = rows[j].user => i = j

\* The row is known to nobody but PostgreSQL.
Stuck(i) ==
  /\ IsOpen(i)
  /\ \A n \in DOMAIN stream : stream[n].order # i
  /\ \A n \in DOMAIN results : results[n].order # i
  /\ ~(at = "enqueue" /\ cancels = {i})

Endangered(u) ==
  /\ price # None /\ positions[u] # None /\ Liquidatable(positions[u], price)
  /\ ~(faults > 0 /\ \E i \in Slot : Stuck(i) /\ rows[i].user = u)

\* A closing order is open for what the position no longer is.
Outdated(u) == positions[u] # None /\ \E i \in InFlight(u) : rows[i].qty # -positions[u].qty

(* A position that stays under maintenance margin at a price that stays    *)
(* fresh is closed in the end, though calls fail, orders are discarded and *)
(* stop at the user's own, and the liquidator is restarted.  Two excuses:  *)
(* a fault left a row open that was never sent, which stays so; and        *)
(* closing orders are written again and again from a scan that read the    *)
(* position before the one before it was settled, which takes an engine    *)
(* slower than the backoff.                                                *)
UnderMarginEnds == \A u \in User : []<>(~Endangered(u) \/ Outdated(u))
=============================================================================
