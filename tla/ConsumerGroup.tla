--------------------------- MODULE ConsumerGroup ---------------------------
(***************************************************************************)
(* A Redis stream, its one consumer group and consumer, and the timer that *)
(* trims it: what consumeGroup, ensureGroup and trimConsumedEntries of     *)
(* packages/redis do, call by call.  The consumer is the db-worker, which  *)
(* acknowledges after it has handled an entry, or the engine, which        *)
(* publishes and acknowledges in one MULTI and shuts down when that fails. *)
(* Entries are numbered as they are written.                               *)
(*                                                                         *)
(* Source: packages/redis/src/index.ts, apps/engine/src/index.ts,          *)
(* apps/db-worker/src/index.ts.                                            *)
(***************************************************************************)
EXTENDS Optional, Integers, FiniteSets, Sequences, Functions

CONSTANTS
  MaxEntries,  \* bound: entries written
  MaxFaults,   \* bound: failures of any kind
  Count        \* entries of one read

ASSUME GroupAssumption ==
  /\ MaxEntries \in Nat /\ MaxFaults \in Nat /\ Count \in Nat \ {0}
  /\ None \notin Int

VARIABLES
  first, last,  \* the stream: entries first..last
  aged,         \* entries up to this one are older than retainMs
  delivered,    \* last-delivered-id of the group, None when there is no group
  pending,      \* delivered and not acknowledged
  autoAck,      \* which of the two consumers
  mode,         \* of the consumer: "down", "pending" (readPending) or "live"
  inbox,        \* entries it has read and has still to handle
  acking,       \* the first of them is handled and not yet acknowledged
  done,         \* entries that have been handled
  trim,         \* the trimming timer: how far it is, and the id it holds
  lost,         \* history: entries lost with the stream, or before the group was made
  unanswered,   \* history: entries of an XREADGROUP whose answer was lost
  faults

stream == <<first, last, aged>>
group == <<delivered, pending>>
consumer == <<autoAck, mode, inbox, acking, done>>
history == <<lost, unanswered>>
vars == <<stream, group, consumer, trim, history, faults>>

Init ==
  /\ first = 1 /\ last = 0 /\ aged = 0
  /\ delivered = None /\ pending = {}
  /\ autoAck \in BOOLEAN
  /\ mode = "down" /\ inbox = <<>> /\ acking = FALSE /\ done = {}
  /\ trim = [step |-> "idle", id |-> 0]
  /\ lost = {} /\ unanswered = {}
  /\ faults = 0

Fault == faults < MaxFaults /\ faults' = faults + 1

Least(S, e) == e \in S /\ \A d \in S : e <= d

-----------------------------------------------------------------------------
(* The stream.                                                             *)

Write ==
  /\ last < MaxEntries
  /\ last' = last + 1
  /\ UNCHANGED <<first, aged, group, consumer, trim, history, faults>>

GrowOld ==
  /\ aged < last
  /\ aged' = aged + 1
  /\ UNCHANGED <<first, last, group, consumer, trim, history, faults>>

\* Redis comes back without its data.
RedisForgets ==
  /\ Fault
  /\ first' = last + 1
  /\ delivered' = None /\ pending' = {}
  /\ lost' = lost \cup first..last
  /\ UNCHANGED <<last, aged, consumer, trim, unanswered>>

\* XGROUP CREATE at "$": what is in the stream already is never delivered.
CreateGroup ==
  /\ delivered = None
  /\ delivered' = last
  /\ lost' = lost \cup first..last

EnsureGroup ==
  \/ CreateGroup
  \/ delivered # None /\ UNCHANGED <<delivered, lost>>

-----------------------------------------------------------------------------
(* consumeGroup.                                                           *)

\* Broken: what was read before a crash is left pending.
Start_Live ==
  /\ mode = "down"
  /\ EnsureGroup
  /\ mode' = "live"
  /\ UNCHANGED <<stream, pending, autoAck, inbox, acking, done, trim, unanswered, faults>>

\* ensureGroup; the first reads are of what is pending.
Start ==
  /\ mode = "down"
  /\ EnsureGroup
  /\ mode' = "pending"
  /\ UNCHANGED <<stream, pending, autoAck, inbox, acking, done, trim, unanswered, faults>>

Reading(m) == mode = m /\ inbox = <<>>

\* NOGROUP, and the group is made again.
ReadNoGroup ==
  /\ Reading("pending") \/ Reading("live")
  /\ CreateGroup
  /\ UNCHANGED <<stream, pending, consumer, trim, unanswered, faults>>

\* The first entries of a set of entries, in stream order, at most Count.
FirstOf(S) ==
  LET rank(i) == Cardinality({j \in S : j <= i})
      n == IF Cardinality(S) < Count THEN Cardinality(S) ELSE Count
  IN  [k \in 1..n |-> CHOOSE i \in S : rank(i) = k]

\* XREADGROUP from 0: nothing is left, or the oldest.
ReadPending ==
  /\ Reading("pending") /\ delivered # None
  /\ IF pending = {} THEN mode' = "live" ELSE UNCHANGED mode
  /\ inbox' = FirstOf(pending)
  /\ UNCHANGED <<stream, group, autoAck, acking, done, trim, history, faults>>

\* XREADGROUP from > : the next entries become pending, at most Count of them.
Deliver(n) ==
  /\ Reading("live") /\ delivered # None
  /\ n <= Count /\ delivered + n <= last
  /\ delivered' = delivered + n
  /\ pending' = pending \cup (delivered + 1)..(delivered + n)

Read ==
  /\ \E n \in 1..Count : Deliver(n)
  /\ inbox' = FirstOf((delivered + 1)..delivered')
  /\ UNCHANGED <<stream, autoAck, mode, acking, done, trim, history, faults>>

\* The answer is lost: the entries are pending, the consumer goes on with >.
ReadUnanswered ==
  /\ \E n \in 1..Count : Deliver(n)
  /\ Fault
  /\ unanswered' = unanswered \cup (delivered + 1)..delivered'
  /\ UNCHANGED <<stream, consumer, trim, lost>>

\* handle of the db-worker commits.
Handle ==
  /\ autoAck /\ inbox # <<>> /\ ~acking
  /\ done' = done \cup {Head(inbox)}
  /\ acking' = TRUE
  /\ UNCHANGED <<stream, group, autoAck, mode, inbox, trim, history, faults>>

\* Broken: with one entry the whole batch is acknowledged.
Ack_Batch ==
  /\ acking
  /\ pending' = pending \ Range(inbox)
  /\ inbox' = Tail(inbox)
  /\ acking' = FALSE
  /\ UNCHANGED <<stream, delivered, autoAck, mode, done, trim, history, faults>>

Ack ==
  /\ acking
  /\ pending' = pending \ {Head(inbox)}
  /\ inbox' = Tail(inbox)
  /\ acking' = FALSE
  /\ UNCHANGED <<stream, delivered, autoAck, mode, done, trim, history, faults>>

\* Broken: an entry that fails is left and the next one handled.
HandleFails_Skips ==
  /\ autoAck /\ inbox # <<>>
  /\ Fault
  /\ acking' = FALSE
  /\ inbox' = Tail(inbox)
  /\ UNCHANGED <<stream, group, autoAck, mode, done, trim, history>>

\* handle or XACK throws: the entry is handled again, before any other.
HandleFails ==
  /\ autoAck /\ inbox # <<>>
  /\ Fault
  /\ acking' = FALSE
  /\ UNCHANGED <<stream, group, autoAck, mode, inbox, done, trim, history>>

\* Down: what it had read is forgotten.
Down == mode' = "down" /\ inbox' = <<>> /\ acking' = FALSE

\* Broken: XACK is a call of its own, which is not reached.
Published_Unacknowledged ==
  /\ ~autoAck /\ inbox # <<>>
  /\ done' = done \cup {Head(inbox)}
  /\ UNCHANGED pending

Published ==
  /\ ~autoAck /\ inbox # <<>>
  /\ done' = done \cup {Head(inbox)}
  /\ pending' = pending \ {Head(inbox)}

\* handleEvent of the engine: results and XACK in one MULTI.
Publish ==
  /\ Published
  /\ inbox' = Tail(inbox)
  /\ UNCHANGED <<stream, delivered, autoAck, mode, acking, trim, history, faults>>

\* EXEC fails, before or after Redis has run it; the engine shuts down.
PublishFails ==
  /\ ~autoAck /\ inbox # <<>>
  /\ Published \/ UNCHANGED <<done, pending>>
  /\ Fault
  /\ Down
  /\ UNCHANGED <<stream, delivered, autoAck, trim, history>>

Crash ==
  /\ mode # "down"
  /\ Fault
  /\ Down
  /\ UNCHANGED <<stream, group, autoAck, done, trim, history>>

-----------------------------------------------------------------------------
(* trimConsumedEntries, one call of Redis after the other.                 *)

TrimStep(from, to, id) ==
  /\ trim.step = from
  /\ trim' = [step |-> to, id |-> id]

\* XINFO GROUPS: last-delivered-id.
TrimInfo ==
  /\ delivered # None
  /\ TrimStep("idle", "info", delivered)
  /\ UNCHANGED <<stream, group, consumer, history, faults>>

\* Broken: all that is old enough.
Boundary_Old(e) == aged + 1

\* The oldest pending entry, or the last one delivered; not younger than retainMs.
Boundary(e) == IF e <= aged THEN e ELSE aged + 1

\* XPENDING, which throws without a group.
TrimPending ==
  /\ \/ /\ delivered = None
        /\ TrimStep("info", "idle", 0)
     \/ /\ delivered # None /\ pending = {}
        /\ TrimStep("info", "boundary", Boundary(trim.id))
     \/ /\ delivered # None
        /\ \E e \in pending : Least(pending, e) /\ TrimStep("info", "boundary", Boundary(e))
  /\ UNCHANGED <<stream, group, consumer, history, faults>>

\* XTRIM MINID ~: some of the entries before the boundary.
Trim ==
  /\ TrimStep("boundary", "idle", 0)
  /\ first' \in {first} \cup first..trim.id
  /\ UNCHANGED <<last, aged, group, consumer, history, faults>>

\* A call fails, or the engine dies.
TrimFails ==
  /\ trim.step # "idle"
  /\ trim' = [step |-> "idle", id |-> 0]
  /\ UNCHANGED <<stream, group, consumer, history, faults>>

-----------------------------------------------------------------------------

Consume == Start \/ ReadNoGroup \/ ReadPending \/ Read \/ Handle \/ Ack \/ Publish

Next ==
  \/ Consume
  \/ Write \/ GrowOld \/ RedisForgets
  \/ ReadUnanswered \/ HandleFails \/ PublishFails \/ Crash
  \/ TrimInfo \/ TrimPending \/ Trim \/ TrimFails

Spec == Init /\ [][Next]_vars

\* The consumer's loop goes on, and it is restarted when it is down.
FairSpec == Spec /\ WF_vars(Consume)

-----------------------------------------------------------------------------
(* Properties.                                                             *)

(* Trimming, though its calls of Redis interleave with the consumer's      *)
(* reads and acknowledgements, removes nothing that is pending or not yet  *)
(* delivered.                                                              *)
NothingLiveTrimmed ==
  delivered # None => \A e \in pending \cup (delivered + 1)..last : e >= first

(* Entries are handled for the first time in the order they were written,  *)
(* whatever fails and whenever the consumer restarts; only one whose       *)
(* answer of XREADGROUP was lost is overtaken.                             *)
HandledInOrder ==
  [][\A e \in (done' \ done) \ unanswered, d \in done : d < e]_vars

(* What is not pending any more has been handled: nothing is acknowledged  *)
(* before, nor dropped, whatever fails between the two.                    *)
AcknowledgedIsDone ==
  delivered # None => 1..delivered \subseteq done \cup pending \cup lost

(* The engine handles no entry twice, though EXEC may fail after Redis has *)
(* run it: its MULTI acknowledges what it publishes.                       *)
EngineHandlesOnce == ~autoAck => Range(inbox) \cap done = {}

(* Every entry is handled in the end, unless it was in a stream that Redis *)
(* lost or that had no group yet, or the answer that held it was lost and  *)
(* the consumer runs on without a restart.                                 *)
EveryEntryHandled ==
  \A e \in 1..MaxEntries :
    last >= e ~> \/ e \in done \cup lost
                 \/ [](e \in unanswered /\ mode = "live")
=============================================================================
