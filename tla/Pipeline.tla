------------------------------ MODULE Pipeline ------------------------------
(***************************************************************************)
(* How an order travels: the API writes its row and enqueues a command;    *)
(* the engine reads the commands through a consumer group, matches them in *)
(* memory and publishes a result; the db-worker reads the results through  *)
(* a consumer group and applies each in one transaction.  Every process    *)
(* may stop between any two of its steps, and a write to Redis whose reply *)
(* is lost may be carried out once more.  (ConsumerGroup has reads whose   *)
(* reply is lost, and the trimming of the streams.)                        *)
(*                                                                         *)
(* Source: apps/api/src/lib/orders.ts, apps/api/src/routes/orders.ts,      *)
(* apps/engine/src/index.ts, apps/db-worker/src, packages/redis/src.       *)
(***************************************************************************)
EXTENDS Optional, Results

CONSTANTS
  OrderId,
  User,
  Requests,     \* what each order may ask for: a set of [user, side, type, price, qty]
  Batch,        \* COUNT of XREADGROUP
  MaxCancels,   \* bound: orders a cancel is requested for
  MaxFaults,    \* bound: crashes, lost replies and failed calls of a behaviour
  Resends       \* may the XADD of a command be carried out twice

Request ==
  [user : User, side : Sides, type : OrderTypes, price : Nat, qty : Nat \ {0}]

Row == [order : [id : OrderId, user : User, side : Sides, type : OrderTypes,
                 price : Nat, qty : Nat, orig : Nat \ {0}, seq : Nat],
        status : Statuses]

ASSUME PipelineAssumption ==
  /\ Requests \in [OrderId -> SUBSET Request]
  /\ Batch \in Nat \ {0}
  /\ MaxCancels \in Nat
  /\ MaxFaults \in Nat
  /\ Resends \in BOOLEAN

ASSUME NoRowAssumption == None \notin Row

VARIABLES
  \* PostgreSQL
  rows,       \* the Order table: row or None
  fills,      \* the Fill table, in the order of insertion
  processed,  \* the ProcessedEvent table
  \* Redis
  orders,     \* stream order_events: commands
  results,    \* stream engine_events: results
  eRead,      \* group engine: last-delivered entry
  ePending,   \* group engine: entries delivered and not acknowledged
  wRead,      \* group db-worker: last-delivered entry
  wPending,   \* group db-worker: entries delivered and not acknowledged
  \* processes
  placing,    \* API: where placeOrder is, per order
  cancels,    \* API: orders a cancel was requested for
  engine,     \* down, pending (reads what it left unacknowledged) or live
  book,       \* engine memory
  eInbox,     \* engine: entries read and not handled
  worker,     \* down, pending or live
  wInbox,     \* db-worker: entries read and not handled
  committed,  \* db-worker: the head of wInbox is committed, not acknowledged
  faults      \* faults so far

dbVars == <<rows, fills, processed>>
engineVars == <<eRead, ePending, engine, book, eInbox>>
workerVars == <<wRead, wPending, worker, wInbox, committed>>
apiVars == <<placing, cancels>>
vars == <<rows, fills, processed, orders, results, eRead, ePending, wRead, wPending,
          placing, cancels, engine, book, eInbox, worker, wInbox, committed, faults>>

Commands == {Create(id) : id \in OrderId} \cup {CancelOf(id) : id \in OrderId}

Modes == {"down", "pending", "live"}

ApiOK ==
  /\ orders \in Seq(Commands)
  /\ placing \in [OrderId -> {"none", "written", "failed", "done", "lost"}]
  /\ cancels \subseteq OrderId
  /\ faults \in 0..MaxFaults

ResultsOK ==
  /\ results \in Seq(Range(results))
  /\ \A i \in DOMAIN results : results[i].cmd \in DOMAIN orders

EngineOK ==
  /\ eRead \in 0..Len(orders) /\ ePending \subseteq 1..eRead
  /\ engine \in Modes
  /\ eInbox \in Seq(ePending)

WorkerOK ==
  /\ processed \subseteq Nat
  /\ wRead \in 0..Len(results) /\ wPending \subseteq 1..wRead
  /\ worker \in Modes
  /\ wInbox \in Seq(wPending)
  /\ committed \in BOOLEAN /\ (committed => wInbox # <<>>)

\* The streams, their cursors and pending lists, and the state of the processes.
ControlOK == ApiOK /\ ResultsOK /\ EngineOK /\ WorkerOK

Rows == {rows[id] : id \in OrderId} \ {None}

Init ==
  /\ rows = [id \in OrderId |-> None]
  /\ fills = <<>>
  /\ processed = {}
  /\ orders = <<>>
  /\ results = <<>>
  /\ eRead = 0 /\ ePending = {}
  /\ wRead = 0 /\ wPending = {}
  /\ placing = [id \in OrderId |-> "none"]
  /\ cancels = {}
  /\ engine = "down" /\ book = {} /\ eInbox = <<>>
  /\ worker = "down" /\ wInbox = <<>> /\ committed = FALSE
  /\ faults = 0

Fault == faults < MaxFaults /\ faults' = faults + 1

-----------------------------------------------------------------------------
(* The API.                                                                *)

\* placeOrder, the transaction that writes the row.
Place(id, req) ==
  /\ placing[id] = "none"
  /\ rows' = [rows EXCEPT ![id] = NewRow(id, req)]
  /\ placing' = [placing EXCEPT ![id] = "written"]
  /\ UNCHANGED <<fills, processed, orders, results, cancels, engineVars, workerVars, faults>>

\* placeOrder, the XADD of the command.
Enqueue(id) ==
  /\ placing[id] = "written"
  /\ orders' = Append(orders, Create(id))
  /\ placing' = [placing EXCEPT ![id] = "done"]
  /\ UNCHANGED <<dbVars, results, cancels, engineVars, workerVars, faults>>

\* The reply of the XADD is lost and the client sends it again on reconnecting.
EnqueueTwice(id) ==
  /\ Resends
  /\ Fault
  /\ placing[id] = "written"
  /\ orders' = orders \o <<Create(id), Create(id)>>
  /\ placing' = [placing EXCEPT ![id] = "done"]
  /\ UNCHANGED <<dbVars, results, cancels, engineVars, workerVars>>

\* Redis refuses the XADD.
EnqueueFails(id) ==
  /\ Fault
  /\ placing[id] = "written"
  /\ placing' = [placing EXCEPT ![id] = "failed"]
  /\ UNCHANGED <<dbVars, orders, results, cancels, engineVars, workerVars>>

\* placeOrder undoes the reservation of an order it could not enqueue.
Rollback(id) ==
  /\ placing[id] = "failed"
  /\ placing' = [placing EXCEPT ![id] = "done"]
  /\ rows' = IF rows[id].status = "open" /\ rows[id].order.seq = 0
             THEN [rows EXCEPT ![id].status = "rejected"]
             ELSE rows
  /\ UNCHANGED <<fills, processed, orders, results, cancels, engineVars, workerVars, faults>>

\* The API process dies: what its requests had still to do is not done.
ApiCrash ==
  /\ Fault
  /\ \E id \in OrderId : placing[id] \in {"written", "failed"}
  /\ placing' = [id \in OrderId |->
                   IF placing[id] \in {"written", "failed"} THEN "lost" ELSE placing[id]]
  /\ UNCHANGED <<dbVars, orders, results, cancels, engineVars, workerVars>>

Cancellable(id) ==
  /\ rows[id] # None
  /\ ~IsTerminal(rows[id])
  /\ id \notin cancels
  /\ Cardinality(cancels) < MaxCancels

\* DELETE /orders/:id, once per order.  The row is visible before its command is.
RequestCancel(id) ==
  /\ Cancellable(id)
  /\ orders' = Append(orders, CancelOf(id))
  /\ cancels' = cancels \cup {id}
  /\ UNCHANGED <<dbVars, results, placing, engineVars, workerVars, faults>>

RequestCancelTwice(id) ==
  /\ Resends
  /\ Fault
  /\ Cancellable(id)
  /\ orders' = orders \o <<CancelOf(id), CancelOf(id)>>
  /\ cancels' = cancels \cup {id}
  /\ UNCHANGED <<dbVars, results, placing, engineVars, workerVars>>

-----------------------------------------------------------------------------
(* Consumer groups.                                                        *)

\* Broken: the entries come back last first.
FirstOf_LastFirst(S) ==
  LET rank(i) == Cardinality({j \in S : j >= i})
      n == IF Cardinality(S) < Batch THEN Cardinality(S) ELSE Batch
  IN  [k \in 1..n |-> CHOOSE i \in S : rank(i) = k]

\* The first entries of a set of entries, in stream order, at most Batch.
FirstOf(S) ==
  LET rank(i) == Cardinality({j \in S : j <= i})
      n == IF Cardinality(S) < Batch THEN Cardinality(S) ELSE Batch
  IN  [k \in 1..n |-> CHOOSE i \in S : rank(i) = k]

\* What XREADGROUP with ">" delivers of entries read + 1 .. len.
LastNew(read, len) == IF read + Batch < len THEN read + Batch ELSE len

-----------------------------------------------------------------------------
(* The engine.                                                             *)

\* waitForDbWorker: the worker has read and acknowledged every result.
Drained == wRead = Len(results) /\ wPending = {}

\* Broken: the engine rebuilds at once.
MayRebuild_AtOnce == TRUE

MayRebuild == Drained

\* acquireLock, waitForDbWorker, rebuildBooks.
EngineStart ==
  /\ engine = "down"
  /\ MayRebuild
  /\ engine' = "pending"
  /\ book' = BookOf(Rows)
  /\ UNCHANGED <<dbVars, orders, results, apiVars, eRead, ePending, eInbox, workerVars, faults>>

\* Broken: starts with new entries.
EngineReadPending_Skipped ==
  /\ engine = "pending" /\ eInbox = <<>>
  /\ engine' = "live"
  /\ UNCHANGED <<dbVars, orders, results, apiVars, eRead, ePending, eInbox, book,
                 workerVars, faults>>

\* consumeGroup reads from "0" until nothing is pending, and then from ">".
EngineReadPending ==
  /\ engine = "pending" /\ eInbox = <<>>
  /\ eInbox' = FirstOf(ePending)
  /\ engine' = IF ePending = {} THEN "live" ELSE "pending"
  /\ UNCHANGED <<dbVars, orders, results, apiVars, eRead, ePending, book, workerVars, faults>>

EngineReadNew ==
  /\ engine = "live" /\ eInbox = <<>>
  /\ eRead < Len(orders)
  /\ eRead' = LastNew(eRead, Len(orders))
  /\ ePending' = ePending \cup (eRead + 1)..eRead'
  /\ eInbox' = [k \in 1..(eRead' - eRead) |-> eRead + k]
  /\ UNCHANGED <<dbVars, orders, results, apiVars, engine, book, workerVars, faults>>

\* A create whose order rests already is ignored: no result.
Ignored(cmd) == cmd.kind = "create" /\ Holds(book, cmd.id)

\* processCreate and processCancel: the result, and the book after it.
ResultFor(c) ==
  LET cmd == orders[c]
  IN  IF cmd.kind = "create"
      THEN CreateResult(c, cmd, book, Incoming(rows[cmd.id], c))
      ELSE CancelResult(c, cmd, book)

BookAfter(c) ==
  LET cmd == orders[c]
  IN  CASE Ignored(cmd)         -> book
        [] cmd.kind = "create" /\ ~Ignored(cmd) ->
             AfterSubmit(book, Incoming(rows[cmd.id], c))
        [] cmd.kind = "cancel"  -> {o \in book : o.id # cmd.id}

Copies(n, r) == [k \in 1..n |-> r]

\* Broken: the acknowledgement is left out of the MULTI.
Publish_NoAck(c, copies) ==
  /\ results' = IF Ignored(orders[c]) THEN results
                ELSE results \o Copies(copies, ResultFor(c))
  /\ UNCHANGED ePending

\* One MULTI adds the result and acknowledges the command: both or neither.
Publish(c, copies) ==
  /\ results' = IF Ignored(orders[c]) THEN results
                ELSE results \o Copies(copies, ResultFor(c))
  /\ ePending' = ePending \ {c}

\* handleEvent.
EngineHandle ==
  /\ engine # "down" /\ eInbox # <<>>
  /\ Publish(Head(eInbox), 1)
  /\ book' = BookAfter(Head(eInbox))
  /\ eInbox' = Tail(eInbox)
  /\ UNCHANGED <<dbVars, orders, apiVars, eRead, engine, workerVars, faults>>

\* The reply of EXEC is lost and the client sends the whole MULTI again.
EngineHandleTwice ==
  /\ Fault
  /\ engine # "down" /\ eInbox # <<>>
  /\ Publish(Head(eInbox), 2)
  /\ book' = BookAfter(Head(eInbox))
  /\ eInbox' = Tail(eInbox)
  /\ UNCHANGED <<dbVars, orders, apiVars, eRead, engine, workerVars>>

EngineDown == engine' = "down" /\ book' = {} /\ eInbox' = <<>>

\* EXEC was carried out and reported as failed: shutdown("publish_failed").
EnginePublishesAndStops ==
  /\ Fault
  /\ engine # "down" /\ eInbox # <<>>
  /\ Publish(Head(eInbox), 1)
  /\ EngineDown
  /\ UNCHANGED <<dbVars, orders, apiVars, eRead, workerVars>>

\* A crash, a shutdown, a lost lock, or an EXEC that was not carried out.
EngineStops ==
  /\ Fault
  /\ engine # "down"
  /\ EngineDown
  /\ UNCHANGED <<dbVars, orders, results, apiVars, eRead, ePending, workerVars>>

-----------------------------------------------------------------------------
(* The db-worker.                                                          *)

WorkerStart ==
  /\ worker = "down"
  /\ worker' = "pending"
  /\ UNCHANGED <<dbVars, orders, results, apiVars, engineVars, wRead, wPending,
                 wInbox, committed, faults>>

\* Broken: starts with new entries.
WorkerReadPending_Skipped ==
  /\ worker = "pending" /\ wInbox = <<>>
  /\ worker' = "live"
  /\ UNCHANGED <<dbVars, orders, results, apiVars, engineVars, wRead, wPending,
                 wInbox, committed, faults>>

WorkerReadPending ==
  /\ worker = "pending" /\ wInbox = <<>>
  /\ wInbox' = FirstOf(wPending)
  /\ worker' = IF wPending = {} THEN "live" ELSE "pending"
  /\ UNCHANGED <<dbVars, orders, results, apiVars, engineVars, wRead, wPending,
                 committed, faults>>

WorkerReadNew ==
  /\ worker = "live" /\ wInbox = <<>>
  /\ wRead < Len(results)
  /\ wRead' = LastNew(wRead, Len(results))
  /\ wPending' = wPending \cup (wRead + 1)..wRead'
  /\ wInbox' = [k \in 1..(wRead' - wRead) |-> wRead + k]
  /\ UNCHANGED <<dbVars, orders, results, apiVars, engineVars, worker, committed, faults>>

\* Broken: results are not recorded as processed.
AlreadyApplied_Never(r) == FALSE

\* INSERT INTO ProcessedEvent ... ON CONFLICT DO NOTHING found a row.
AlreadyApplied(r) == r.cmd \in processed

\* applyEngineResult: one transaction.
ApplyResult ==
  /\ worker # "down" /\ wInbox # <<>> /\ ~committed
  /\ LET r == results[Head(wInbox)]
     IN  IF AlreadyApplied(r) THEN UNCHANGED dbVars
         ELSE /\ processed' = processed \cup {r.cmd}
              /\ fills' = fills \o r.trades
              /\ rows' = [id \in OrderId |-> IF rows[id] = None THEN None
                                             ELSE Updated(rows[id], r)]
  /\ committed' = TRUE
  /\ UNCHANGED <<orders, results, apiVars, engineVars, wRead, wPending, worker,
                 wInbox, faults>>

\* consumeGroup acknowledges what handle returned from.
Acknowledge ==
  /\ committed
  /\ wPending' = wPending \ {Head(wInbox)}
  /\ wInbox' = Tail(wInbox)
  /\ committed' = FALSE
  /\ UNCHANGED <<dbVars, orders, results, apiVars, engineVars, wRead, worker, faults>>

WorkerStops ==
  /\ Fault
  /\ worker # "down"
  /\ worker' = "down"
  /\ wInbox' = <<>>
  /\ committed' = FALSE
  /\ UNCHANGED <<dbVars, orders, results, apiVars, engineVars, wRead, wPending>>

-----------------------------------------------------------------------------

EngineStep == EngineStart \/ EngineReadPending \/ EngineReadNew \/ EngineHandle

WorkerStep ==
  WorkerStart \/ WorkerReadPending \/ WorkerReadNew \/ ApplyResult \/ Acknowledge

Next ==
  \/ \E id \in OrderId : \/ \E req \in Requests[id] : Place(id, req)
                         \/ Enqueue(id)
                         \/ EnqueueTwice(id)
                         \/ EnqueueFails(id)
                         \/ Rollback(id)
                         \/ RequestCancel(id)
                         \/ RequestCancelTwice(id)
  \/ ApiCrash
  \/ EngineStep \/ EngineHandleTwice \/ EnginePublishesAndStops \/ EngineStops
  \/ WorkerStep \/ WorkerStops

Spec == Init /\ [][Next]_vars

\* Docker restarts every process that stops; a live API finishes its requests.
Fairness ==
  /\ WF_vars(EngineStep)
  /\ WF_vars(WorkerStep)
  /\ \A id \in OrderId : WF_vars(Enqueue(id)) /\ WF_vars(Rollback(id))

FairSpec == Spec /\ Fairness

-----------------------------------------------------------------------------
(* Properties.                                                             *)

Over(id) == rows[id] # None /\ IsTerminal(rows[id])

Decided(id) == Over(id) \/ (rows[id] # None /\ rows[id].order.seq > 0)

(* What the database says is left of an order, and what the fills say was  *)
(* traded of it, always add up to what was asked for: no result is applied *)
(* twice or skipped, whatever is redelivered, resent or lost.              *)
FillsExplainRows ==
  \A id \in OrderId : rows[id] # None =>
    Traded(fills, id) + rows[id].order.qty = rows[id].order.orig

(* Once the worker has caught up, the book in the engine's memory is the   *)
(* one a restart would rebuild from the database: a restart never loses,   *)
(* revives or reorders a resting order (waitForDbWorker, rebuildBooks).    *)
RestartKeepsTheBook == engine # "down" /\ Drained => book = BookOf(Rows)

(* Two results published for one command are the same result, though the   *)
(* engine may have stopped and rebuilt its book between them.              *)
OneVerdict ==
  \A i, j \in DOMAIN results : results[i].cmd = results[j].cmd => results[i] = results[j]

(* Results are published in the order of the commands they answer, though  *)
(* the engine may be restarted on a half-read batch (consumeGroup).        *)
PublishedInOrder ==
  \A i, j \in DOMAIN results : i < j => results[i].cmd <= results[j].cmd

(* What the database has applied is a prefix of what was published.        *)
SettledPrefix ==
  \E n \in 0..Len(results) : processed = {results[i].cmd : i \in 1..n}

(* A filled, cancelled or rejected order stays so, whatever results still  *)
(* arrive for it (applyOrderState, and the guard of placeOrder's rollback).*)
TerminalIsFinal ==
  [][\A id \in OrderId : Over(id) => rows'[id].status = rows[id].status]_vars

(* "duplicate order event ignored": an order never trades more than it     *)
(* asked for, though its create is in the stream twice (processCreate).    *)
DuplicatesIgnored ==
  \A id \in OrderId : rows[id] # None => Traded(fills, id) <= rows[id].order.orig

(* The database is at every moment the state of an exchange that carries   *)
(* out the stream's commands one after another (refinement of Exchange).   *)
Abstract == INSTANCE Exchange WITH commands <- orders, settled <- Cardinality(processed)

ImplementsExchange == Abstract!ExchangeSpec

(* Every order placed is decided in the database, accepted or at a         *)
(* terminal status, through any faults of Redis, engine and worker: only   *)
(* the API's death between the row and the command loses an order.         *)
PlacedIsDecided ==
  \A id \in OrderId : rows[id] # None ~> (Decided(id) \/ placing[id] = "lost")

(* A cancel that follows its create in the stream ends the order.          *)
CancelEndsOrder ==
  \A id \in OrderId :
    (\E c, d \in DOMAIN orders : /\ d < c
                                 /\ orders[d] = Create(id)
                                 /\ orders[c] = CancelOf(id))
      ~> Over(id)

=============================================================================
