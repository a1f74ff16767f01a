--------------------------- MODULE PipelineProofs ---------------------------
(***************************************************************************)
(* Proofs about Pipeline, for any orders, batch size and number of faults: *)
(* what the two consumer groups guarantee through crashes and resends, and *)
(* that the database is at every moment that of the sequential Exchange.   *)
(***************************************************************************)
EXTENDS Pipeline, OperatorProofs, SequenceTheorems

(* A group that has acknowledged a of the entries delivered has the rest   *)
(* pending; its inbox holds the next ones in order, all of them once the   *)
(* consumer reads new entries.                                             *)
GroupAt(a, read, pending, mode, inbox) ==
  /\ a \in 0..read
  /\ pending = (a + 1)..read
  /\ Len(inbox) <= read - a
  /\ mode = "live" => Len(inbox) = read - a
  /\ \A k \in DOMAIN inbox : inbox[k] = a + k

\* The engine group: no result answers an unacknowledged command.
EngineInv ==
  \E a \in Nat : /\ GroupAt(a, eRead, ePending, engine, eInbox)
                 /\ \A i \in DOMAIN results : results[i].cmd <= a

\* The worker group: the head of its inbox alone may be applied already.
WorkerInv ==
  \E a, n \in Nat : /\ GroupAt(a, wRead, wPending, worker, wInbox)
                    /\ n \in {a, a + 1}
                    /\ n <= Len(results)
                    /\ committed => n = a + 1
                    /\ processed = {results[i].cmd : i \in 1..n}

PipeInv == ControlOK /\ EngineInv /\ WorkerInv /\ OneVerdict /\ PublishedInOrder

-----------------------------------------------------------------------------

(* The first entries of an interval are its lowest ones in order.          *)
LEMMA FirstOfInterval ==
  ASSUME NEW a \in Nat, NEW b \in Nat, a <= b
  PROVE  LET n == IF b - a < Batch THEN b - a ELSE Batch
         IN  FirstOf((a + 1)..b) = [k \in 1..n |-> a + k]
<1> DEFINE S == (a + 1)..b
           rank(i) == Cardinality({j \in S : j <= i})
           n == IF b - a < Batch THEN b - a ELSE Batch
<1>1. Cardinality(S) = b - a
  <2>1. a + 1 \in Int /\ b \in Int
    OBVIOUS
  <2>2. Cardinality((a + 1)..b) = IF a + 1 > b THEN 0 ELSE b - (a + 1) + 1
    BY <2>1, FS_Interval
  <2> QED  BY <2>2
<1>2. ASSUME NEW i \in S PROVE rank(i) = i - a
  <2>1. {j \in S : j <= i} = (a + 1)..i
    OBVIOUS
  <2>2. Cardinality((a + 1)..i) = i - a
    BY FS_Interval
  <2> QED  BY <2>1, <2>2
<1>3. ASSUME NEW k \in 1..n PROVE (CHOOSE i \in S : rank(i) = k) = a + k
  <2>1. a + k \in S
    BY PipelineAssumption
  <2>2. \A i \in S : rank(i) = k <=> i = a + k
    BY <1>2, <2>1
  <2> HIDE DEF rank, S
  <2> QED  BY <2>1, <2>2
<1>4. FirstOf(S) = [k \in 1..n |-> CHOOSE i \in S : rank(i) = k]
  BY <1>1 DEF FirstOf
<1> QED  BY <1>3, <1>4

(* Publishing adds copies of one result at the end of the stream.          *)
LEMMA AppendCopies ==
  ASSUME NEW s, s \in Seq(Range(s)), NEW r, NEW n \in Nat,
         NEW t, t = s \o Copies(n, r)
  PROVE  /\ t \in Seq(Range(t))
         /\ Len(t) = Len(s) + n
         /\ \A i \in 1..Len(s) : t[i] = s[i]
         /\ \A i \in (Len(s) + 1)..(Len(s) + n) : t[i] = r
<1> DEFINE X == Range(s) \cup {r}
           copies == Copies(n, r)
<1>1. /\ s \in Seq(X) /\ copies \in Seq(X) /\ Len(copies) = n
      /\ \A k \in 1..n : copies[k] = r
  BY DEF Copies
<1> HIDE DEF X, copies
<1>2. /\ t \in Seq(X)
      /\ Len(t) = Len(s) + n
      /\ \A i \in 1..Len(t) : t[i] = IF i <= Len(s) THEN s[i] ELSE copies[i - Len(s)]
  BY <1>1, ConcatProperties DEF copies
<1>3. t \in Seq(Range(t))
  BY <1>2, SeqOfRange, Zenon
<1>4. \A i \in 1..Len(s) : t[i] = s[i]
  BY <1>1, <1>2
<1>5. \A i \in (Len(s) + 1)..(Len(s) + n) : t[i] = r
  <2> SUFFICES ASSUME NEW i \in (Len(s) + 1)..(Len(s) + n) PROVE t[i] = r
    OBVIOUS
  <2>1. i \in 1..Len(t) /\ ~(i <= Len(s)) /\ i - Len(s) \in 1..n
    BY <1>1, <1>2
  <2> QED  BY <1>1, <1>2, <2>1
<1> QED  BY <1>2, <1>3, <1>4, <1>5

(* A sequence is one of any set that has its elements.                     *)
LEMMA SeqOfElements ==
  ASSUME NEW S, NEW s \in Seq(S), NEW T, \A k \in 1..Len(s) : s[k] \in T
  PROVE  s \in Seq(T)
<1>1. s \in Seq(Range(s))
  BY SeqOfRange
<1>2. Range(s) \subseteq T
  BY RangeEquality
<1> QED  BY <1>1, <1>2, SeqMonotonic

(* n numbers in a row, starting after b.                                   *)
LEMMA ConsecutiveSeq ==
  ASSUME NEW n \in Nat, NEW b \in Nat, NEW T, \A k \in 1..n : b + k \in T
  PROVE  LET s == [k \in 1..n |-> b + k]
         IN  s \in Seq(T) /\ Len(s) = n /\ DOMAIN s = 1..n
OBVIOUS

(* Reading a group's pending entries, or new ones, fills an empty inbox    *)
(* with the next entries in order.                                         *)
LEMMA ReadPending ==
  ASSUME NEW a \in Nat, NEW read \in Nat, NEW pending,
         GroupAt(a, read, pending, "pending", <<>>),
         NEW mode, mode = IF pending = {} THEN "live" ELSE "pending"
  PROVE  /\ GroupAt(a, read, pending, mode, FirstOf(pending))
         /\ FirstOf(pending) \in Seq(pending)
<1> DEFINE n == IF read - a < Batch THEN read - a ELSE Batch
<1>1. FirstOf(pending) = [k \in 1..n |-> a + k]
  BY FirstOfInterval DEF GroupAt
<1>2. /\ n \in Nat /\ n <= read - a
      /\ pending = {} => n = read - a
  BY PipelineAssumption DEF GroupAt
<1> HIDE DEF n
<1>3. \A k \in 1..n : a + k \in pending
  BY <1>2 DEF GroupAt
<1> QED  BY <1>1, <1>2, <1>3 DEF GroupAt

LEMMA ReadNew ==
  ASSUME NEW a \in Nat, NEW read \in Nat, NEW pending,
         GroupAt(a, read, pending, "live", <<>>),
         NEW len \in Nat, read < len
  PROVE  LET read2    == LastNew(read, len)
             pending2 == pending \cup (read + 1)..read2
             inbox2   == [k \in 1..(read2 - read) |-> read + k]
         IN  /\ read2 \in 0..len
             /\ GroupAt(a, read2, pending2, "live", inbox2)
             /\ inbox2 \in Seq(pending2)
<1> DEFINE read2 == LastNew(read, len)
           pending2 == pending \cup (read + 1)..read2
           n == read2 - read
           inbox2 == [k \in 1..n |-> read + k]
<1>1. read2 \in Nat /\ read < read2 /\ read2 <= len
  BY PipelineAssumption DEF LastNew
<1>2. a = read
  BY DEF GroupAt
<1> HIDE DEF read2
<1>3. pending2 = (a + 1)..read2 /\ n \in Nat /\ n = read2 - a
  BY <1>1, <1>2 DEF GroupAt
<1>4. \A k \in 1..n : read + k \in pending2
  BY <1>1, <1>2, <1>3
<1>5. inbox2 \in Seq(pending2) /\ Len(inbox2) = n /\ DOMAIN inbox2 = 1..n
  <2> HIDE DEF n, pending2
  <2> QED  BY <1>3, <1>4, ConsecutiveSeq
<1>6. \A k \in DOMAIN inbox2 : inbox2[k] = a + k
  BY <1>2
<1>7. GroupAt(a, read2, pending2, "live", inbox2)
  <2> HIDE DEF n, pending2, inbox2
  <2> QED  BY <1>1, <1>2, <1>3, <1>5, <1>6 DEF GroupAt
<1> QED  BY <1>1, <1>5, <1>7 DEF read2

(* Acknowledging the head of the inbox moves the group on by one entry.    *)
LEMMA Handled ==
  ASSUME NEW a \in Nat, NEW read \in Nat, NEW pending, NEW mode, NEW inbox,
         inbox \in Seq(pending), inbox # <<>>,
         GroupAt(a, read, pending, mode, inbox)
  PROVE  /\ Head(inbox) = a + 1
         /\ a + 1 \in pending
         /\ GroupAt(a + 1, read, pending \ {a + 1}, mode, Tail(inbox))
         /\ Tail(inbox) \in Seq(pending \ {a + 1})
<1>1. Len(inbox) \in Nat \ {0} /\ DOMAIN inbox = 1..Len(inbox) /\ Head(inbox) = inbox[1]
  OBVIOUS
<1>2. Head(inbox) = a + 1 /\ a + 1 <= read /\ a + 1 \in pending
  BY <1>1 DEF GroupAt
<1>3. pending \ {a + 1} = (a + 2)..read
  BY <1>2 DEF GroupAt
<1>4. /\ Len(Tail(inbox)) = Len(inbox) - 1
      /\ Tail(inbox) \in Seq(pending)
      /\ \A k \in 1..(Len(inbox) - 1) : Tail(inbox)[k] = inbox[k + 1]
  OBVIOUS
<1>5. \A k \in 1..(Len(inbox) - 1) : Tail(inbox)[k] = a + 1 + k
  BY <1>1, <1>4 DEF GroupAt
<1>6. GroupAt(a + 1, read, pending \ {a + 1}, mode, Tail(inbox))
  <2>1. a + 1 \in 0..read /\ (a + 1) + 1 = a + 2
    BY <1>2 DEF GroupAt
  <2>2. /\ Len(Tail(inbox)) <= read - (a + 1)
        /\ mode = "live" => Len(Tail(inbox)) = read - (a + 1)
    BY <1>1, <1>4 DEF GroupAt
  <2>3. DOMAIN Tail(inbox) = 1..(Len(inbox) - 1)
    BY <1>4
  <2> QED  BY <1>3, <1>5, <2>1, <2>2, <2>3 DEF GroupAt
<1>7. Tail(inbox) \in Seq(pending \ {a + 1})
  <2>1. \A k \in 1..Len(Tail(inbox)) : Tail(inbox)[k] \in pending \ {a + 1}
    BY <1>1, <1>4, <1>5
  <2> QED  BY <1>4, <2>1, SeqOfElements
<1> QED  BY <1>2, <1>6, <1>7

(* A consumer that stops keeps its place in the group.                     *)
LEMMA Stopped ==
  ASSUME NEW a \in Nat, NEW read \in Nat, NEW pending, NEW mode, NEW inbox,
         inbox \in Seq(pending),
         GroupAt(a, read, pending, mode, inbox)
  PROVE  GroupAt(a, read, pending, "down", <<>>)
BY DEF GroupAt

-----------------------------------------------------------------------------

LEMMA InitPipeInv == Init => PipeInv
<1> SUFFICES ASSUME Init PROVE PipeInv
  OBVIOUS
<1> USE DEF Init
<1>1. ApiOK
  BY PipelineAssumption DEF ApiOK
<1>2. ResultsOK
  BY DEF ResultsOK
<1>3. EngineOK
  BY DEF EngineOK, Modes
<1>4. WorkerOK
  <2>1. processed \subseteq Nat /\ wRead \in 0..Len(results) /\ wPending \subseteq 1..wRead
    OBVIOUS
  <2>2. worker \in Modes /\ wInbox \in Seq(wPending)
    BY DEF Modes
  <2>3. committed = FALSE
    OBVIOUS
  <2> QED  BY <2>1, <2>2, <2>3 DEF WorkerOK
<1>5. EngineInv /\ WorkerInv
  <2>1. GroupAt(0, eRead, ePending, engine, eInbox) /\ GroupAt(0, wRead, wPending, worker, wInbox)
    BY DEF GroupAt
  <2>2. processed = {results[i].cmd : i \in 1..0} /\ 0 <= Len(results) /\ committed = FALSE
    OBVIOUS
  <2> QED  BY <2>1, <2>2 DEF EngineInv, WorkerInv
<1>6. OneVerdict /\ PublishedInOrder
  BY DEF OneVerdict, PublishedInOrder
<1> QED  BY <1>1, <1>2, <1>3, <1>4, <1>5, <1>6 DEF PipeInv, ControlOK

(* A step that leaves the results alone keeps what is said of them, and    *)
(* one that leaves a group's state alone keeps what is said of the group.  *)
LEMMA ResultsFrame ==
  ASSUME ResultsOK, OneVerdict, PublishedInOrder, UNCHANGED results,
         DOMAIN orders \subseteq DOMAIN orders'
  PROVE  ResultsOK' /\ OneVerdict' /\ PublishedInOrder'
BY DEF ResultsOK, OneVerdict, PublishedInOrder

LEMMA EngineFrame ==
  ASSUME EngineOK, EngineInv, UNCHANGED <<engineVars, results>>,
         Len(orders) \in Nat, Len(orders') \in Nat, Len(orders) <= Len(orders')
  PROVE  EngineOK' /\ EngineInv'
<1>1. EngineOK'
  BY DEF EngineOK, engineVars
<1>2. EngineInv'
  BY DEF EngineInv, engineVars, GroupAt
<1> QED  BY <1>1, <1>2

\* The worker's place in the stream does not depend on what is published after it.
LEMMA WorkerFrame ==
  ASSUME WorkerOK, WorkerInv, UNCHANGED <<workerVars, processed>>,
         Len(results) \in Nat, Len(results') \in Nat, Len(results) <= Len(results'),
         \A i \in 1..Len(results) : results'[i] = results[i]
  PROVE  WorkerOK' /\ WorkerInv'
<1>1. PICK a \in Nat, n \in Nat :
         /\ GroupAt(a, wRead, wPending, worker, wInbox)
         /\ n \in {a, a + 1}
         /\ n <= Len(results)
         /\ committed => n = a + 1
         /\ processed = {results[i].cmd : i \in 1..n}
  BY DEF WorkerInv
<1>2. {results'[i].cmd : i \in 1..n} = {results[i].cmd : i \in 1..n}
  BY <1>1
<1>3. GroupAt(a, wRead, wPending, worker, wInbox)'
  BY <1>1 DEF workerVars, GroupAt
<1>4. WorkerInv'
  <2>1. n <= Len(results') /\ processed' = {results'[i].cmd : i \in 1..n}
    BY <1>1, <1>2
  <2>2. committed' => n = a + 1
    BY <1>1, Zenon DEF workerVars
  <2> QED  BY <1>1, <1>3, <2>1, <2>2 DEF WorkerInv
<1>5. WorkerOK'
  BY DEF WorkerOK, workerVars
<1> QED  BY <1>4, <1>5

(* What the API does touches neither group.                                *)
LEMMA ApiPipeInv ==
  ASSUME PipeInv, ApiOK', Len(orders) <= Len(orders'),
         UNCHANGED <<processed, results, engineVars, workerVars>>
  PROVE  PipeInv'
<1>1. /\ ApiOK /\ ResultsOK /\ EngineOK /\ WorkerOK /\ EngineInv /\ WorkerInv
      /\ OneVerdict /\ PublishedInOrder
  BY DEF PipeInv, ControlOK
<1>2. Len(orders) \in Nat /\ Len(orders') \in Nat /\ DOMAIN orders \subseteq DOMAIN orders'
  BY <1>1 DEF ApiOK
<1>3. Len(results) \in Nat
  BY <1>1 DEF ResultsOK
<1>4. ResultsOK' /\ OneVerdict' /\ PublishedInOrder'
  BY <1>1, <1>2, ResultsFrame
<1>5. EngineOK' /\ EngineInv'
  BY <1>1, <1>2, EngineFrame
<1>6. WorkerOK' /\ WorkerInv'
  BY <1>1, <1>3, WorkerFrame
<1> QED  BY <1>4, <1>5, <1>6 DEF PipeInv, ControlOK

LEMMA FaultBound == ApiOK /\ Fault => faults' \in 0..MaxFaults
BY PipelineAssumption DEF ApiOK, Fault

LEMMA ApiStep ==
  ASSUME PipeInv, NEW id \in OrderId,
         \/ \E req \in Requests[id] : Place(id, req)
         \/ Enqueue(id) \/ EnqueueTwice(id) \/ EnqueueFails(id) \/ Rollback(id)
         \/ RequestCancel(id) \/ RequestCancelTwice(id) \/ ApiCrash
  PROVE  PipeInv'
<1>1. ApiOK
  BY DEF PipeInv, ControlOK
<1>2. Create(id) \in Commands /\ CancelOf(id) \in Commands
  BY DEF Commands
<1>3. UNCHANGED <<processed, results, engineVars, workerVars>>
  BY DEF Place, Enqueue, EnqueueTwice, EnqueueFails, Rollback, RequestCancel,
         RequestCancelTwice, ApiCrash, dbVars
<1>4. orders' \in Seq(Commands) /\ Len(orders) <= Len(orders')
  <2>1. orders \in Seq(Commands) /\ Len(orders) \in Nat
    BY <1>1 DEF ApiOK
  <2>2. ASSUME NEW c \in Commands, orders' = Append(orders, c)
        PROVE  orders' \in Seq(Commands) /\ Len(orders) <= Len(orders')
    BY <2>1, <2>2
  <2>3. ASSUME NEW c \in Commands, orders' = orders \o <<c, c>>
        PROVE  orders' \in Seq(Commands) /\ Len(orders) <= Len(orders')
    BY <2>1, <2>3
  <2>4. CASE Enqueue(id) \/ RequestCancel(id)
    BY <1>2, <2>2, <2>4 DEF Enqueue, RequestCancel
  <2>5. CASE EnqueueTwice(id) \/ RequestCancelTwice(id)
    BY <1>2, <2>3, <2>5 DEF EnqueueTwice, RequestCancelTwice
  <2>6. CASE \/ \E req \in Requests[id] : Place(id, req)
             \/ EnqueueFails(id) \/ Rollback(id) \/ ApiCrash
    BY <2>1, <2>6 DEF Place, EnqueueFails, Rollback, ApiCrash
  <2> QED  BY <2>4, <2>5, <2>6
<1>5. placing' \in [OrderId -> {"none", "written", "failed", "done", "lost"}]
  <2>1. CASE ApiCrash
    BY <1>1, <2>1 DEF ApiOK, ApiCrash
  <2>2. CASE ~ApiCrash
    BY <1>1, <2>2 DEF ApiOK, Place, Enqueue, EnqueueTwice, EnqueueFails, Rollback,
                      RequestCancel, RequestCancelTwice
  <2> QED  BY <2>1, <2>2
<1>6. cancels' \subseteq OrderId
  BY <1>1 DEF ApiOK, Place, Enqueue, EnqueueTwice, EnqueueFails, Rollback, RequestCancel,
              RequestCancelTwice, ApiCrash
<1>7. faults' \in 0..MaxFaults
  <2>1. Fault \/ UNCHANGED faults
    BY DEF Place, Enqueue, EnqueueTwice, EnqueueFails, Rollback, RequestCancel,
           RequestCancelTwice, ApiCrash
  <2> QED  BY <1>1, <2>1, FaultBound DEF ApiOK
<1>8. ApiOK'
  BY <1>4, <1>5, <1>6, <1>7 DEF ApiOK
<1> QED  BY <1>3, <1>4, <1>8, ApiPipeInv

-----------------------------------------------------------------------------

(* Handling the head of the inbox publishes, after everything published so *)
(* far, the results of the next command, all alike.                        *)
LEMMA PublishStep ==
  ASSUME PipeInv, NEW copies \in Nat, eInbox # <<>>, engine \in Modes,
         Publish(Head(eInbox), copies),
         UNCHANGED <<orders, eRead, processed, workerVars>>,
         \/ engine' = engine /\ eInbox' = Tail(eInbox)
         \/ engine' = "down" /\ eInbox' = <<>>
  PROVE  /\ ResultsOK' /\ EngineOK' /\ WorkerOK' /\ EngineInv' /\ WorkerInv'
         /\ OneVerdict' /\ PublishedInOrder'
<1>1. /\ ApiOK /\ ResultsOK /\ EngineOK /\ WorkerOK /\ EngineInv /\ WorkerInv
      /\ OneVerdict /\ PublishedInOrder
  BY DEF PipeInv, ControlOK
<1>2. PICK a \in Nat : /\ GroupAt(a, eRead, ePending, engine, eInbox)
                       /\ \A i \in DOMAIN results : results[i].cmd <= a
  BY <1>1 DEF EngineInv
<1>3. /\ Head(eInbox) = a + 1 /\ a + 1 \in ePending
      /\ GroupAt(a + 1, eRead, ePending \ {a + 1}, engine, Tail(eInbox))
      /\ Tail(eInbox) \in Seq(ePending \ {a + 1})
  <2>1. eRead \in Nat /\ eInbox \in Seq(ePending)
    BY <1>1 DEF EngineOK, ApiOK
  <2> QED  BY <1>2, <2>1, Handled
<1>4. a + 1 \in DOMAIN orders
  BY <1>1, <1>3 DEF EngineOK, ApiOK
<1> DEFINE r == ResultFor(a + 1)
<1>5. r.cmd = a + 1
  BY DEF ResultFor, CreateResult, CancelResult, Result
<1> HIDE DEF r
<1>6. /\ results \in Seq(Range(results))
      /\ \A i \in DOMAIN results : results[i].cmd \in DOMAIN orders
      /\ Len(results) \in Nat /\ DOMAIN results = 1..Len(results)
  BY <1>1 DEF ResultsOK
<1>7. /\ results' \in Seq(Range(results'))
      /\ Len(results') \in Nat /\ Len(results) <= Len(results')
      /\ \A i \in 1..Len(results) : results'[i] = results[i]
      /\ \A i \in (Len(results) + 1)..Len(results') : results'[i] = r
  <2>1. CASE results' = results
    BY <1>6, <2>1
  <2>2. CASE results' = results \o Copies(copies, r)
    <3>1. /\ results' \in Seq(Range(results'))
          /\ Len(results') = Len(results) + copies
          /\ \A i \in 1..Len(results) : results'[i] = results[i]
          /\ \A i \in (Len(results) + 1)..(Len(results) + copies) : results'[i] = r
      <4>1. results \in Seq(Range(results)) /\ copies \in Nat
        BY <1>6
      <4>2. \A x : x = results \o Copies(copies, r) =>
              /\ x \in Seq(Range(x))
              /\ Len(x) = Len(results) + copies
              /\ \A i \in 1..Len(results) : x[i] = results[i]
              /\ \A i \in (Len(results) + 1)..(Len(results) + copies) : x[i] = r
        BY <4>1, AppendCopies
      <4> QED  BY <2>2, <4>2
    <3> QED  BY <1>6, <3>1
  <2> QED  BY <1>3, <2>1, <2>2 DEF Publish, r
<1>8. DOMAIN results' = 1..Len(results')
  BY <1>7
<1>9. \A i \in DOMAIN results' :
        \/ i \in DOMAIN results /\ results'[i] = results[i] /\ results[i].cmd <= a
        \/ i > Len(results) /\ results'[i] = r
  BY <1>2, <1>6, <1>7, <1>8
<1>10. ResultsOK'
  BY <1>4, <1>5, <1>6, <1>7, <1>9 DEF ResultsOK
<1>11. \A i \in DOMAIN results : results[i].cmd \in Nat
  BY <1>1, <1>6 DEF ApiOK
<1>12. OneVerdict'
  <2> SUFFICES ASSUME NEW i \in DOMAIN results', NEW j \in DOMAIN results',
                      results'[i].cmd = results'[j].cmd
               PROVE  results'[i] = results'[j]
    BY DEF OneVerdict
  <2> QED  BY <1>1, <1>5, <1>9, <1>11 DEF OneVerdict
<1>13. PublishedInOrder'
  <2> SUFFICES ASSUME NEW i \in DOMAIN results', NEW j \in DOMAIN results', i < j
               PROVE  results'[i].cmd <= results'[j].cmd
    BY DEF PublishedInOrder
  <2> QED  BY <1>1, <1>5, <1>6, <1>8, <1>9, <1>11 DEF PublishedInOrder
<1>14. WorkerOK' /\ WorkerInv'
  BY <1>1, <1>6, <1>7, WorkerFrame
<1>15. /\ ePending' = ePending \ {a + 1} /\ eRead' = eRead
       /\ \A i \in DOMAIN results' : results'[i].cmd <= a + 1
  BY <1>3, <1>5, <1>9, <1>11 DEF Publish
<1>16. GroupAt(a + 1, eRead', ePending', engine', eInbox') /\ eInbox' \in Seq(ePending')
  <2>1. CASE engine' = engine /\ eInbox' = Tail(eInbox)
    BY <1>3, <1>15, <2>1
  <2>2. CASE engine' = "down" /\ eInbox' = <<>>
    BY <1>3, <1>15, <2>2, Stopped
  <2> QED  BY <2>1, <2>2
<1>17. EngineInv'
  BY <1>15, <1>16 DEF EngineInv
<1>18. EngineOK'
  BY <1>1, <1>15, <1>16 DEF EngineOK, Modes
<1> QED  BY <1>10, <1>12, <1>13, <1>14, <1>17, <1>18

(* What the engine does without publishing.                                *)
LEMMA EngineQuietStep ==
  ASSUME PipeInv, EngineStart \/ EngineReadPending \/ EngineReadNew \/ EngineStops
  PROVE  EngineOK' /\ EngineInv'
<1>1. EngineOK /\ Len(orders) \in Nat /\ UNCHANGED <<orders, results>>
  BY DEF PipeInv, ControlOK, ApiOK, EngineStart, EngineReadPending, EngineReadNew, EngineStops
<1>2. PICK a \in Nat : /\ GroupAt(a, eRead, ePending, engine, eInbox)
                       /\ \A i \in DOMAIN results : results[i].cmd <= a
  BY DEF PipeInv, EngineInv
<1>3. /\ GroupAt(a, eRead', ePending', engine', eInbox')
      /\ eInbox' \in Seq(ePending') /\ eRead' \in 0..Len(orders)
      /\ engine' \in Modes
  <2>1. CASE EngineStart
    BY <1>1, <1>2, <2>1 DEF EngineStart, EngineOK, GroupAt, Modes
  <2>2. CASE EngineReadPending
    <3>1. engine' = IF ePending = {} THEN "live" ELSE "pending"
      BY <2>2 DEF EngineReadPending
    <3>2. /\ GroupAt(a, eRead, ePending, engine', FirstOf(ePending))
          /\ FirstOf(ePending) \in Seq(ePending)
      <4>1. /\ engine = "pending" /\ eInbox = <<>> /\ eInbox' = FirstOf(ePending)
            /\ eRead \in Nat
        BY <1>1, <2>2 DEF EngineReadPending, EngineOK
      <4> QED  BY <1>2, <3>1, <4>1, ReadPending
    <3> QED  BY <1>1, <2>2, <3>1, <3>2 DEF EngineReadPending, EngineOK, Modes
  <2>3. CASE EngineReadNew
    <3>1. /\ GroupAt(a, eRead, ePending, "live", <<>>) /\ eRead \in Nat
          /\ eRead < Len(orders)
      BY <1>1, <1>2, <2>3 DEF EngineReadNew, EngineOK
    <3>2. /\ eRead' \in 0..Len(orders)
          /\ GroupAt(a, eRead', ePending', "live", eInbox')
          /\ eInbox' \in Seq(ePending')
      BY <1>1, <2>3, <3>1, ReadNew DEF EngineReadNew
    <3> QED  BY <2>3, <3>2 DEF EngineReadNew, Modes
  <2>4. CASE EngineStops
    <3>1. /\ eRead' = eRead /\ ePending' = ePending /\ engine' = "down" /\ eInbox' = <<>>
          /\ eRead \in 0..Len(orders) /\ eRead \in Nat
      BY <1>1, <2>4 DEF EngineStops, EngineDown, EngineOK
    <3>2. GroupAt(a, eRead, ePending, "down", <<>>)
      BY <1>1, <1>2, <3>1, Stopped DEF EngineOK
    <3> QED  BY <3>1, <3>2 DEF Modes
  <2> QED  BY <2>1, <2>2, <2>3, <2>4
<1>4. ePending' \subseteq 1..eRead'
  BY <1>2, <1>3 DEF GroupAt
<1> QED  BY <1>1, <1>2, <1>3, <1>4 DEF EngineOK, EngineInv

LEMMA EngineStepInv ==
  ASSUME PipeInv,
         EngineStep \/ EngineHandleTwice \/ EnginePublishesAndStops \/ EngineStops
  PROVE  PipeInv'
<1>1. /\ ApiOK /\ ResultsOK /\ EngineOK /\ WorkerOK /\ EngineInv /\ WorkerInv
      /\ OneVerdict /\ PublishedInOrder
  BY DEF PipeInv, ControlOK
<1>2. UNCHANGED <<orders, placing, cancels, processed, workerVars>>
  BY DEF EngineStep, EngineStart, EngineReadPending, EngineReadNew, EngineHandle,
         EngineHandleTwice, EnginePublishesAndStops, EngineStops, apiVars, dbVars
<1>3. ApiOK'
  <2>1. Fault \/ UNCHANGED faults
    BY DEF EngineStep, EngineStart, EngineReadPending, EngineReadNew, EngineHandle,
           EngineHandleTwice, EnginePublishesAndStops, EngineStops
  <2> QED  BY <1>1, <1>2, <2>1, FaultBound DEF ApiOK
<1>4. CASE EngineStart \/ EngineReadPending \/ EngineReadNew \/ EngineStops
  <2>1. UNCHANGED results
    BY <1>4 DEF EngineStart, EngineReadPending, EngineReadNew, EngineStops
  <2>2. ResultsOK' /\ OneVerdict' /\ PublishedInOrder'
    BY <1>1, <1>2, <2>1, ResultsFrame
  <2>3. Len(results) \in Nat
    BY <1>1 DEF ResultsOK
  <2>4. WorkerOK' /\ WorkerInv'
    BY <1>1, <1>2, <2>1, <2>3, WorkerFrame
  <2> QED  BY <1>3, <1>4, <2>2, <2>4, EngineQuietStep DEF PipeInv, ControlOK
<1>5. CASE EngineHandle \/ EngineHandleTwice \/ EnginePublishesAndStops
  <2>1. /\ eInbox # <<>> /\ engine \in Modes /\ UNCHANGED eRead
        /\ \/ engine' = engine /\ eInbox' = Tail(eInbox)
           \/ engine' = "down" /\ eInbox' = <<>>
        /\ Publish(Head(eInbox), 1) \/ Publish(Head(eInbox), 2)
    BY <1>1, <1>5 DEF EngineHandle, EngineHandleTwice, EnginePublishesAndStops, EngineDown,
                      EngineOK
  <2> QED  BY <1>2, <1>3, <2>1, PublishStep DEF PipeInv, ControlOK
<1> QED  BY <1>4, <1>5 DEF EngineStep

-----------------------------------------------------------------------------

(* What the worker does: applying the head of its inbox adds one result to *)
(* those applied, and acknowledging it catches the group up.               *)
LEMMA WorkerPlace ==
  ASSUME PipeInv, WorkerStep \/ WorkerStops
  PROVE  WorkerOK' /\ WorkerInv'
<1>1. /\ WorkerOK /\ ResultsOK /\ UNCHANGED results /\ Len(results) \in Nat
      /\ \A i \in DOMAIN results : results[i].cmd \in Nat
  BY DEF PipeInv, ControlOK, ResultsOK, ApiOK, WorkerStep, WorkerStart, WorkerReadPending,
         WorkerReadNew, ApplyResult, Acknowledge, WorkerStops
<1>2. PICK a \in Nat, n \in Nat :
         /\ GroupAt(a, wRead, wPending, worker, wInbox)
         /\ n \in {a, a + 1}
         /\ n <= Len(results)
         /\ committed => n = a + 1
         /\ processed = {results[i].cmd : i \in 1..n}
  BY DEF PipeInv, WorkerInv
<1>3. /\ wRead \in 0..Len(results) /\ wRead \in Nat
      /\ wInbox \in Seq(wPending) /\ wPending \subseteq 1..wRead
  BY <1>1 DEF WorkerOK
<1>4. wInbox = <<>> => ~committed
  BY <1>1, Zenon DEF WorkerOK
<1>5. ASSUME NEW b \in Nat, NEW m \in Nat,
             GroupAt(b, wRead', wPending', worker', wInbox'),
             wRead' \in 0..Len(results), wInbox' \in Seq(wPending'), worker' \in Modes,
             committed' \in BOOLEAN, committed' => wInbox' # <<>> /\ m = b + 1,
             m \in {b, b + 1}, m <= Len(results),
             processed' = {results[i].cmd : i \in 1..m}
      PROVE  WorkerOK' /\ WorkerInv'
  <2>1. processed' \subseteq Nat /\ wPending' \subseteq 1..wRead'
    BY <1>1, <1>5 DEF GroupAt
  <2>2. committed' => m = b + 1
    BY <1>5, Zenon
  <2>3. WorkerOK'
    BY <1>1, <1>5, <2>1 DEF WorkerOK
  <2>4. WorkerInv'
    BY <1>1, <1>5, <2>2 DEF WorkerInv
  <2> QED  BY <2>3, <2>4
<1>6. CASE WorkerStart
  <2>1. GroupAt(a, wRead', wPending', worker', wInbox') /\ worker' \in Modes
    BY <1>2, <1>6 DEF WorkerStart, GroupAt, Modes
  <2>2. UNCHANGED <<wRead, wPending, wInbox, committed, processed>>
    BY <1>6 DEF WorkerStart, dbVars
  <2>3. committed' \in BOOLEAN /\ (committed' => wInbox' # <<>> /\ n = a + 1)
    BY <1>1, <1>2, <2>2, Zenon DEF WorkerOK
  <2> QED  BY <1>2, <1>3, <1>5, <2>1, <2>2, <2>3
<1>7. CASE WorkerReadPending
  <2>1. /\ worker = "pending" /\ wInbox = <<>> /\ wInbox' = FirstOf(wPending)
        /\ worker' = (IF wPending = {} THEN "live" ELSE "pending")
        /\ UNCHANGED <<wRead, wPending, committed, processed>>
    BY <1>7 DEF WorkerReadPending, dbVars
  <2>2. GroupAt(a, wRead, wPending, worker', wInbox') /\ wInbox' \in Seq(wPending)
    BY <1>2, <1>3, <2>1, ReadPending
  <2>3. committed' = FALSE
    BY <1>1, <1>4, <2>1, Zenon DEF WorkerOK
  <2> QED  BY <1>2, <1>3, <1>5, <2>1, <2>2, <2>3 DEF Modes
<1>8. CASE WorkerReadNew
  <2>1. /\ worker = "live" /\ wInbox = <<>> /\ wRead < Len(results)
        /\ wRead' = LastNew(wRead, Len(results))
        /\ wPending' = wPending \cup (wRead + 1)..wRead'
        /\ wInbox' = [k \in 1..(wRead' - wRead) |-> wRead + k]
        /\ UNCHANGED <<worker, committed, processed>>
    BY <1>8 DEF WorkerReadNew, dbVars
  <2>2. /\ wRead' \in 0..Len(results)
        /\ GroupAt(a, wRead', wPending', worker', wInbox')
        /\ wInbox' \in Seq(wPending')
    BY <1>1, <1>2, <1>3, <2>1, ReadNew
  <2>3. committed' = FALSE
    BY <1>1, <1>4, <2>1, Zenon DEF WorkerOK
  <2> QED  BY <1>2, <1>5, <2>1, <2>2, <2>3 DEF Modes
<1>9. CASE ApplyResult
  <2>1. /\ wInbox # <<>> /\ UNCHANGED <<wRead, wPending, worker, wInbox>>
    BY <1>9 DEF ApplyResult
  <2>2. Head(wInbox) = a + 1 /\ a + 1 \in wPending
    BY <1>2, <1>3, <2>1, Handled
  <2>3. a + 1 <= Len(results)
    BY <1>3, <2>2
  <2>4. processed' = processed \cup {results[a + 1].cmd}
    BY <1>9, <2>2 DEF ApplyResult, AlreadyApplied, dbVars
  <2>5. {results[i].cmd : i \in 1..(a + 1)}
        = {results[i].cmd : i \in 1..a} \cup {results[a + 1].cmd}
    <3>1. 1..(a + 1) = (1..a) \cup {a + 1}
      OBVIOUS
    <3> QED  BY <3>1
  <2>6. processed' = {results[i].cmd : i \in 1..(a + 1)}
    BY <1>2, <2>4, <2>5
  <2>7. committed' = TRUE
    BY <1>9 DEF ApplyResult
  <2> QED  BY <1>1, <1>2, <1>3, <1>5, <2>1, <2>3, <2>6, <2>7 DEF WorkerOK
<1>10. CASE Acknowledge
  <2>1. n = a + 1 /\ wInbox # <<>>
    BY <1>2, <1>4, <1>10, Zenon DEF Acknowledge
  <2>2. /\ Head(wInbox) = a + 1
        /\ GroupAt(a + 1, wRead, wPending \ {a + 1}, worker, Tail(wInbox))
        /\ Tail(wInbox) \in Seq(wPending \ {a + 1})
    BY <1>2, <1>3, <2>1, Handled
  <2>3. /\ wPending' = wPending \ {a + 1} /\ wInbox' = Tail(wInbox) /\ committed' = FALSE
        /\ UNCHANGED <<wRead, worker, processed>>
    BY <1>10, <2>2 DEF Acknowledge, dbVars
  <2> QED  BY <1>1, <1>2, <1>3, <1>5, <2>1, <2>2, <2>3 DEF WorkerOK
<1>11. CASE WorkerStops
  <2>1. /\ worker' = "down" /\ wInbox' = <<>> /\ committed' = FALSE
        /\ UNCHANGED <<wRead, wPending, processed>>
    BY <1>11 DEF WorkerStops, dbVars
  <2>2. GroupAt(a, wRead', wPending', worker', wInbox')
    BY <1>2, <1>3, <2>1, Stopped
  <2>3. wInbox' \in Seq(wPending') /\ wRead' \in 0..Len(results) /\ worker' \in Modes
    BY <1>3, <2>1 DEF Modes
  <2>4. committed' \in BOOLEAN /\ ~committed'
    BY <2>1
  <2> QED  BY <1>2, <1>5, <2>1, <2>2, <2>3, <2>4
<1> QED  BY <1>6, <1>7, <1>8, <1>9, <1>10, <1>11 DEF WorkerStep

LEMMA WorkerStepInv ==
  ASSUME PipeInv, WorkerStep \/ WorkerStops
  PROVE  PipeInv'
<1>1. /\ ApiOK /\ ResultsOK /\ EngineOK /\ EngineInv /\ OneVerdict /\ PublishedInOrder
  BY DEF PipeInv, ControlOK
<1>2. UNCHANGED <<orders, results, placing, cancels, engineVars>> /\ (Fault \/ UNCHANGED faults)
  BY DEF WorkerStep, WorkerStart, WorkerReadPending, WorkerReadNew, ApplyResult, Acknowledge,
         WorkerStops, apiVars
<1>3. ApiOK'
  BY <1>1, <1>2, FaultBound DEF ApiOK
<1>4. ResultsOK' /\ OneVerdict' /\ PublishedInOrder'
  BY <1>1, <1>2, ResultsFrame
<1>5. EngineOK' /\ EngineInv'
  <2>1. Len(orders) \in Nat
    BY <1>1 DEF ApiOK
  <2> QED  BY <1>1, <1>2, <2>1, EngineFrame
<1> QED  BY <1>3, <1>4, <1>5, WorkerPlace DEF PipeInv, ControlOK

-----------------------------------------------------------------------------

LEMMA NextPipeInv == PipeInv /\ [Next]_vars => PipeInv'
<1> SUFFICES ASSUME PipeInv, [Next]_vars PROVE PipeInv'
  OBVIOUS
<1>1. ASSUME NEW id \in OrderId,
             \/ \E req \in Requests[id] : Place(id, req)
             \/ Enqueue(id) \/ EnqueueTwice(id) \/ EnqueueFails(id) \/ Rollback(id)
             \/ RequestCancel(id) \/ RequestCancelTwice(id)
      PROVE  PipeInv'
  BY <1>1, ApiStep
<1>2. CASE ApiCrash
  <2>1. PICK id \in OrderId : placing[id] \in {"written", "failed"}
    BY <1>2 DEF ApiCrash
  <2> QED  BY <1>2, ApiStep
<1>3. CASE EngineStep \/ EngineHandleTwice \/ EnginePublishesAndStops \/ EngineStops
  BY <1>3, EngineStepInv
<1>4. CASE WorkerStep \/ WorkerStops
  BY <1>4, WorkerStepInv
<1>5. CASE UNCHANGED vars
  <2>1. UNCHANGED <<processed, results, engineVars, workerVars>> /\ orders' = orders
    BY <1>5 DEF vars, engineVars, workerVars
  <2>2. ApiOK' /\ Len(orders) <= Len(orders')
    BY <1>5 DEF vars, PipeInv, ControlOK, ApiOK
  <2> QED  BY <2>1, <2>2, ApiPipeInv
<1> QED  BY <1>1, <1>2, <1>3, <1>4, <1>5 DEF Next

(* The cursors, pending lists and inboxes of both consumer groups stay     *)
(* consistent through any crash and redelivery (consumeGroup).             *)
THEOREM PipelineInvariant == Spec => []PipeInv
<1>1. Init => PipeInv
  BY InitPipeInv
<1>2. PipeInv /\ [Next]_vars => PipeInv'
  BY NextPipeInv
<1> QED  BY <1>1, <1>2, PTL DEF Spec

(* The engine never answers a command in two ways.                         *)
THEOREM PipelineOneVerdict == Spec => []OneVerdict
<1>1. PipeInv => OneVerdict
  BY DEF PipeInv
<1> QED  BY <1>1, PipelineInvariant, PTL

(* Results are published in the order of their commands.                   *)
THEOREM PipelinePublishedInOrder == Spec => []PublishedInOrder
<1>1. PipeInv => PublishedInOrder
  BY DEF PipeInv
<1> QED  BY <1>1, PipelineInvariant, PTL

(* The database has applied a prefix of the published results.             *)
THEOREM PipelineSettledPrefix == Spec => []SettledPrefix
<1>1. PipeInv => SettledPrefix
  <2> SUFFICES ASSUME PipeInv PROVE SettledPrefix
    OBVIOUS
  <2>1. PICK a \in Nat, n \in Nat :
          /\ n <= Len(results)
          /\ processed = {results[i].cmd : i \in 1..n}
    BY DEF PipeInv, WorkerInv
  <2>2. Len(results) \in Nat
    BY DEF PipeInv, ControlOK, ResultsOK
  <2>3. n \in 0..Len(results)
    BY <2>1, <2>2
  <2> QED  BY <2>1, <2>3 DEF SettledPrefix
<1> QED  BY <1>1, PipelineInvariant, PTL

-----------------------------------------------------------------------------

IsRow(x) == x = [order |-> x.order, status |-> x.status]

\* The table has a row for every order whose placing is under way.
TableInv ==
  /\ rows = [id \in OrderId |-> rows[id]]
  /\ \A id \in OrderId : rows[id] = None \/ IsRow(rows[id])
  /\ placing = [id \in OrderId |-> placing[id]]
  /\ \A id \in OrderId : /\ placing[id] = "none" => rows[id] = None
                         /\ placing[id] \in {"written", "failed"} => IsRow(rows[id])

(* A result changes neither the shape of a row nor a terminal status.      *)
LEMMA UpdatedRow ==
  ASSUME NEW row, IsRow(row), NEW r
  PROVE  /\ IsRow(Updated(row, r))
         /\ IsTerminal(row) => Updated(row, r).status = row.status
<1> DEFINE a == Accepted(row, r)
<1>1. IsRow(a) /\ a.status = row.status
  BY DEF Accepted, IsRow
<1> HIDE DEF a
<1>2. ASSUME NEW s
      PROVE  /\ IsRow(WithState(a, s))
             /\ IsTerminal(a) => WithState(a, s).status = a.status
  BY <1>1 DEF WithState, IsTerminal, IsRow
<1>3. Updated(row, r) = a \/ \E s : Updated(row, r) = WithState(a, s)
  BY DEF Updated, a
<1> QED  BY <1>1, <1>2, <1>3 DEF IsTerminal

LEMMA NextTable ==
  ASSUME TableInv, [Next]_vars
  PROVE  /\ TableInv'
         /\ \A id \in OrderId : Over(id) => rows'[id].status = rows[id].status
<1>1. ASSUME NEW id \in OrderId, NEW req \in Requests[id], Place(id, req)
      PROVE  /\ TableInv'
             /\ \A i \in OrderId : Over(i) => rows'[i].status = rows[i].status
  BY <1>1 DEF Place, TableInv, IsRow, Over, NewRow
<1>2. ASSUME NEW id \in OrderId,
             Enqueue(id) \/ EnqueueTwice(id) \/ EnqueueFails(id) \/ RequestCancel(id)
                         \/ RequestCancelTwice(id)
      PROVE  /\ TableInv'
             /\ \A i \in OrderId : Over(i) => rows'[i].status = rows[i].status
  BY <1>2 DEF Enqueue, EnqueueTwice, EnqueueFails, RequestCancel, RequestCancelTwice, dbVars,
              TableInv
<1>3. ASSUME NEW id \in OrderId, Rollback(id)
      PROVE  /\ TableInv'
             /\ \A i \in OrderId : Over(i) => rows'[i].status = rows[i].status
  <2>1. IsRow(rows[id]) /\ placing' = [placing EXCEPT ![id] = "done"]
    BY <1>3 DEF Rollback, TableInv
  <2>2. CASE rows' = rows
    BY <2>1, <2>2 DEF TableInv
  <2>3. CASE rows[id].status = "open" /\ rows' = [rows EXCEPT ![id].status = "rejected"]
    <3>1. IsRow(rows'[id]) /\ ~Over(id)
      BY <2>1, <2>3 DEF TableInv, IsRow, Over, IsTerminal, Terminal
    <3>2. \A i \in OrderId : i # id => rows'[i] = rows[i]
      BY <2>3 DEF TableInv
    <3>3. rows' = [i \in OrderId |-> rows'[i]]
      BY <2>3 DEF TableInv
    <3> QED  BY <2>1, <3>1, <3>2, <3>3 DEF TableInv
  <2> QED  BY <1>3, <2>2, <2>3 DEF Rollback
<1>4. CASE ApiCrash
  BY <1>4 DEF ApiCrash, dbVars, TableInv
<1>5. CASE ApplyResult
  <2>1. placing' = placing
    BY <1>5 DEF ApplyResult, apiVars
  <2>2. CASE rows' = rows
    BY <2>1, <2>2 DEF TableInv
  <2>3. ASSUME NEW r, rows' = [id \in OrderId |-> IF rows[id] = None THEN None
                                                  ELSE Updated(rows[id], r)]
        PROVE  /\ TableInv'
               /\ \A i \in OrderId : Over(i) => rows'[i].status = rows[i].status
    BY <2>1, <2>3, UpdatedRow DEF TableInv, Over
  <2> QED  BY <1>5, <2>2, <2>3 DEF ApplyResult, dbVars
<1>6. CASE UNCHANGED <<rows, placing>>
  BY <1>6 DEF TableInv
<1>7. CASE UNCHANGED vars
  BY <1>6, <1>7 DEF vars
<1>8. \/ EngineStep \/ EngineHandleTwice \/ EnginePublishesAndStops \/ EngineStops
      \/ WorkerStart \/ WorkerReadPending \/ WorkerReadNew \/ Acknowledge \/ WorkerStops
      => UNCHANGED <<rows, placing>>
  BY DEF EngineStep, EngineStart, EngineReadPending, EngineReadNew, EngineHandle,
         EngineHandleTwice, EnginePublishesAndStops, EngineStops, WorkerStart,
         WorkerReadPending, WorkerReadNew, Acknowledge, WorkerStops, dbVars, apiVars
<1> QED  BY <1>1, <1>2, <1>3, <1>4, <1>5, <1>6, <1>7, <1>8 DEF Next, WorkerStep

(* An order that is over stays over in the way it ended.                   *)
THEOREM PipelineTerminalIsFinal == Spec => TerminalIsFinal
<1>1. Init => TableInv
  BY DEF Init, TableInv
<1>2. TableInv /\ [Next]_vars => TableInv'
  BY NextTable
<1>3. TableInv /\ [Next]_vars
      => [\A id \in OrderId : Over(id) => rows'[id].status = rows[id].status]_vars
  BY NextTable
<1> QED  BY <1>1, <1>2, <1>3, PTL DEF Spec, TerminalIsFinal

-----------------------------------------------------------------------------
(* The sequential exchange.                                                *)

\* A table of rows, and the book that would be rebuilt from it.
RowsIn(v) == {v[id] : id \in OrderId} \ {None}
BookIn(v) == BookOf(RowsIn(v))

\* What command number c results in against table v (NextResult of Exchange).
Outcome(v, c, cmd) ==
  IF cmd.kind = "create" THEN CreateResult(c, cmd, BookIn(v), Incoming(v[cmd.id], c))
  ELSE CancelResult(c, cmd, BookIn(v))

\* The table once a result is applied to it.
After(v, r) == [id \in OrderId |-> IF v[id] = None THEN None ELSE Updated(v[id], r)]

Resting(row) ==
  /\ row.status \in {"open", "partial"} /\ row.order.type = "limit"
  /\ row.order.seq > 0 /\ row.order.qty > 0

\* The row of an order once k commands have taken effect: an order is as it was placed,
\* or withdrawn, until its create does.
RowAt(row, id, k) ==
  /\ row \in Row /\ row.order.id = id
  /\ row.order.seq = 0 => /\ row.order.qty = row.order.orig
                          /\ row.status \in {"open", "rejected"}
                          /\ \A c \in 1..k : orders[c] # Create(id)
  /\ row.order.seq > 0 => row.order.seq <= k /\ orders[row.order.seq] = Create(id)

TableAt(v, k) ==
  /\ IsFiniteSet({id \in OrderId : v[id] # None})
  /\ \A id \in OrderId : v[id] # None => RowAt(v[id], id, k)

LEMMA RowFields ==
  ASSUME NEW row \in Row
  PROVE  /\ row = [order |-> row.order, status |-> row.status]
         /\ row.order = [id |-> row.order.id, user |-> row.order.user, side |-> row.order.side,
                         type |-> row.order.type, price |-> row.order.price,
                         qty |-> row.order.qty, orig |-> row.order.orig, seq |-> row.order.seq]
         /\ row.order.id \in OrderId /\ row.order.user \in User /\ row.order.side \in Sides
         /\ row.order.type \in OrderTypes /\ row.order.price \in Nat /\ row.order.qty \in Nat
         /\ row.order.orig \in Nat \ {0} /\ row.order.seq \in Nat /\ row.status \in Statuses
BY DEF Row

(* The order a create builds from a row.                                   *)
LEMMA IncomingFields ==
  ASSUME NEW row \in Row, NEW c \in Nat
  PROVE  Incoming(row, c) = [id |-> row.order.id, user |-> row.order.user,
                             side |-> row.order.side, type |-> row.order.type,
                             price |-> row.order.price, qty |-> row.order.orig,
                             orig |-> row.order.orig, seq |-> c]
<1> DEFINE o == row.order
           e == [o EXCEPT !.qty = o.orig]
           t == [e EXCEPT !.seq = c]
           T == [id : OrderId, user : User, side : Sides, type : OrderTypes,
                 price : Nat, qty : Nat, orig : Nat \ {0}, seq : Nat]
<1>1. o \in T
  BY DEF Row
<1>2. Incoming(row, c) = t
  BY DEF Incoming
<1> HIDE DEF o
<1>3. e \in T /\ e = [id |-> o.id, user |-> o.user, side |-> o.side, type |-> o.type,
                      price |-> o.price, qty |-> o.orig, orig |-> o.orig, seq |-> o.seq]
  BY <1>1
<1> HIDE DEF e
<1>4. t = [id |-> e.id, user |-> e.user, side |-> e.side, type |-> e.type, price |-> e.price,
           qty |-> e.qty, orig |-> e.orig, seq |-> c]
  BY <1>3
<1> HIDE DEF T, t
<1>5. t = [id |-> o.id, user |-> o.user, side |-> o.side, type |-> o.type, price |-> o.price,
           qty |-> o.orig, orig |-> o.orig, seq |-> c]
  BY <1>3, <1>4
<1> QED  BY <1>2, <1>5 DEF o

(* The taker of a create is the order of its row, untouched but numbered.  *)
LEMMA TakerOrder ==
  ASSUME NEW row \in Row, row.order.qty = row.order.orig, NEW c \in Nat
  PROVE  LET t == Incoming(row, c)
         IN  /\ t.side \in Sides /\ t.qty \in Nat \ {0} /\ t.orig = t.qty
             /\ t.id = row.order.id /\ t.seq = c /\ t.type = row.order.type
             /\ t = [row.order EXCEPT !.seq = c]
<1> DEFINE o == row.order
           t == Incoming(row, c)
<1>1. t = [id |-> o.id, user |-> o.user, side |-> o.side, type |-> o.type, price |-> o.price,
           qty |-> o.orig, orig |-> o.orig, seq |-> c]
  BY IncomingFields
<1>2. o.qty = o.orig /\ o.side \in Sides /\ o.orig \in Nat \ {0}
  BY RowFields
<1>3. o = [id |-> o.id, user |-> o.user, side |-> o.side, type |-> o.type, price |-> o.price,
           qty |-> o.qty, orig |-> o.orig, seq |-> o.seq]
  BY RowFields
<1> HIDE DEF o, t
<1>4. [o EXCEPT !.seq = c]
        = [id |-> o.id, user |-> o.user, side |-> o.side, type |-> o.type, price |-> o.price,
           qty |-> o.qty, orig |-> o.orig, seq |-> c]
  BY <1>3
<1>5. /\ t.side = o.side /\ t.qty = o.orig /\ t.orig = o.orig /\ t.id = o.id
      /\ t.seq = c /\ t.type = o.type
  BY <1>1
<1> QED  BY <1>1, <1>2, <1>4, <1>5 DEF o, t

(* An order that is not over takes the state reported of it.               *)
LEMMA StateTaken ==
  ASSUME NEW row, IsRow(row), ~IsTerminal(row), NEW s
  PROVE  WithState(row, s) = [order  |-> [row.order EXCEPT !.qty = s.remaining],
                              status |-> s.status]
<1> DEFINE e == [row EXCEPT !.status = s.status]
           o == row.order
<1>1. WithState(row, s) = [e EXCEPT !.order.qty = s.remaining]
  BY DEF WithState
<1>2. e = [order |-> o, status |-> s.status]
  BY DEF IsRow
<1>3. e.order = o
  BY <1>2
<1> HIDE DEF e, o
<1>4. [e EXCEPT !.order.qty = s.remaining] = [e EXCEPT !.order = [o EXCEPT !.qty = s.remaining]]
  BY <1>3
<1>5. [e EXCEPT !.order = [o EXCEPT !.qty = s.remaining]]
        = [order |-> [o EXCEPT !.qty = s.remaining], status |-> s.status]
  BY <1>2
<1> QED  BY <1>1, <1>4, <1>5 DEF o

(* A table's book is that of the rows that rest.                           *)
LEMMA BookRows ==
  ASSUME NEW v, NEW k, TableAt(v, k)
  PROVE  /\ \A id \in OrderId : v[id] # None /\ Resting(v[id]) => v[id].order \in BookIn(v)
         /\ \A m \in BookIn(v) : /\ m.id \in OrderId /\ v[m.id] # None /\ Resting(v[m.id])
                                 /\ v[m.id].order = m /\ m.qty \in Nat \ {0}
         /\ BookOK(BookIn(v))
<1> DEFINE ids == {id \in OrderId : v[id] # None}
           bk == BookIn(v)
<1>1. \A id \in ids : v[id] \in Row /\ v[id].order.id = id
  BY DEF TableAt, RowAt
<1>2. ASSUME NEW id \in ids, Resting(v[id]) PROVE v[id].order \in bk
  BY <1>2 DEF BookIn, BookOf, RowsIn, Resting
<1>3. ASSUME NEW m \in bk
      PROVE  m.id \in ids /\ Resting(v[m.id]) /\ v[m.id].order = m
  <2>1. PICK row \in RowsIn(v) : m = row.order /\ Resting(row)
    BY DEF BookIn, BookOf, Resting
  <2>2. PICK id \in ids : row = v[id]
    BY DEF RowsIn
  <2> HIDE DEF bk, ids
  <2> QED  BY <1>1, <2>1, <2>2
<1>4. ASSUME NEW m \in bk
      PROVE  /\ m.side \in Sides /\ m.price \in Int /\ m.qty \in Nat \ {0} /\ m.seq \in Nat
             /\ m.seq > 0 /\ orders[m.seq] = Create(m.id)
  <2>1. m.id \in ids /\ Resting(v[m.id]) /\ v[m.id].order = m
    BY <1>3
  <2>2. /\ v[m.id] \in Row
        /\ v[m.id].order.seq > 0 => orders[v[m.id].order.seq] = Create(m.id)
    BY <2>1 DEF TableAt, RowAt
  <2> HIDE DEF bk, ids
  <2>3. /\ m.side \in Sides /\ m.price \in Nat /\ m.qty \in Nat /\ m.seq \in Nat
    BY <2>1, <2>2, RowFields, Zenon
  <2>4. m.seq > 0 /\ m.qty > 0
    BY <2>1, Zenon DEF Resting
  <2>5. v[m.id].order.seq = m.seq
    BY <2>1
  <2> QED  BY <2>2, <2>3, <2>4, <2>5
<1>5. IsFiniteSet(bk)
  <2> DEFINE f == [id \in ids |-> v[id].order]
             S == {id \in ids : Resting(v[id])}
  <2>1. bk = {f[id] : id \in S}
    <3>1. \A m \in bk : m \in {f[id] : id \in S}
      BY <1>3
    <3>2. \A id \in S : f[id] \in bk
      BY <1>2
    <3> HIDE DEF f, S, bk
    <3> QED  BY <3>1, <3>2
  <2>2. S \in SUBSET ids /\ IsFiniteSet(ids)
    BY DEF TableAt
  <2> HIDE DEF f, S, bk, ids
  <2>3. IsFiniteSet(S)
    BY <2>2, FS_Subset
  <2> QED  BY <2>1, <2>3, ImageFinite
<1>6. \A m, n \in bk : m.seq = n.seq => m = n
  <2> SUFFICES ASSUME NEW m \in bk, NEW n \in bk, m.seq = n.seq PROVE m = n
    OBVIOUS
  <2>1. Create(m.id) = Create(n.id)
    BY <1>4
  <2>2. m.id = n.id
    BY <2>1 DEF Create
  <2> HIDE DEF bk, ids
  <2> QED  BY <1>3, <2>2
<1>7. BookOK(bk)
  <2> HIDE DEF bk
  <2> QED  BY <1>4, <1>5, <1>6 DEF BookOK
<1> QED
  <2> HIDE DEF bk
  <2>1. \A m \in bk : m.id \in OrderId /\ v[m.id] # None
    BY <1>3
  <2> QED  BY <1>2, <1>3, <1>4, <1>7, <2>1 DEF bk

(* What a result does to a row depends on what it says of its order.       *)
LEMMA UpdatedBy ==
  ASSUME NEW row, NEW r
  PROVE  /\ (\A x \in r.orders : x.orderId # row.order.id) => Updated(row, r) = Accepted(row, r)
         /\ \A s \in r.orders :
              /\ s.orderId = row.order.id
              /\ \A x \in r.orders : x.orderId = row.order.id => x = s
              => Updated(row, r) = WithState(Accepted(row, r), s)
<1> DEFINE mine == {x \in r.orders : x.orderId = row.order.id}
<1>1. Updated(row, r) = IF mine = {} THEN Accepted(row, r)
                        ELSE WithState(Accepted(row, r), CHOOSE s \in mine : TRUE)
  BY DEF Updated
<1>2. ASSUME \A x \in r.orders : x.orderId # row.order.id
      PROVE  Updated(row, r) = Accepted(row, r)
  <2>1. mine = {}
    BY <1>2
  <2> HIDE DEF mine
  <2> QED  BY <1>1, <2>1
<1>3. ASSUME NEW s \in r.orders, s.orderId = row.order.id,
             \A x \in r.orders : x.orderId = row.order.id => x = s
      PROVE  Updated(row, r) = WithState(Accepted(row, r), s)
  <2>1. mine = {s}
    BY <1>3
  <2>2. (CHOOSE x \in mine : TRUE) = s
    BY <2>1
  <2> HIDE DEF mine
  <2> QED  BY <1>1, <2>1, <2>2
<1> QED  BY <1>2, <1>3

(* A create carries out its order against the book of the table: it stamps *)
(* its row and leaves there what is unfilled, takes from the rows of the   *)
(* makers what they fill, and changes no other row.                        *)
LEMMA CreateOutcome ==
  ASSUME NEW v, NEW k \in Nat, TableAt(v, k), NEW id \in OrderId, v[id] # None,
         v[id].order.seq = 0, v[id].status = "open"
  PROVE  LET B == BookIn(v)
             t == Incoming(v[id], k + 1)
             r == Outcome(v, k + 1, Create(id))
             w == After(v, r)
         IN  /\ r.cmd = k + 1 /\ r.trades = Trades(B, t)
             /\ t.side \in Sides /\ t.qty \in Nat \ {0} /\ t.orig = t.qty
             /\ t.id = id /\ t.seq = k + 1 /\ t.type = v[id].order.type
             /\ w[id] = [order  |-> [t EXCEPT !.qty = Unfilled(B, t)],
                         status |-> TakerState(B, t).status]
             /\ \A m \in Makers(B, t) :
                  /\ m.id # id
                  /\ w[m.id] = [order  |-> [m EXCEPT !.qty = m.qty - FillQty(B, t, m)],
                                status |-> IF m.qty - FillQty(B, t, m) = 0 THEN "filled"
                                           ELSE "partial"]
             /\ \A i \in OrderId :
                  i # id /\ v[i].order \notin Makers(B, t) => w[i] = v[i]
<1> DEFINE B == BookIn(v)
           t == Incoming(v[id], k + 1)
           r == Outcome(v, k + 1, Create(id))
           w == After(v, r)
           left(m) == m.qty - FillQty(B, t, m)
           state(m) == OrderState(m.id, IF left(m) = 0 THEN "filled" ELSE "partial", left(m))
           M == Makers(B, t)
           ts == TakerState(B, t)
<1>1. /\ r.cmd = k + 1 /\ r.kind = "create" /\ r.id = id /\ r.trades = Trades(B, t)
      /\ r.orders = {ts} \cup {state(m) : m \in M}
  BY DEF Outcome, Create, CreateResult, Result, MakerStates
<1>2. v[id] \in Row /\ v[id].order.id = id /\ v[id].order.qty = v[id].order.orig
  BY DEF TableAt, RowAt
<1>3. /\ t.side \in Sides /\ t.qty \in Nat \ {0} /\ t.orig = t.qty
      /\ t.id = id /\ t.seq = k + 1 /\ t.type = v[id].order.type
      /\ t = [v[id].order EXCEPT !.seq = k + 1]
  <2>1. k + 1 \in Nat
    OBVIOUS
  <2> QED  BY <1>2, <2>1, TakerOrder
<1>4. /\ \A m \in B : /\ m.id \in OrderId /\ v[m.id] # None /\ Resting(v[m.id])
                      /\ v[m.id].order = m /\ m.qty \in Nat \ {0}
      /\ BookOK(B)
  BY BookRows
<1> HIDE DEF B, r, t, left, w
<1>5. \A m \in M : m \in B
  <2>1. t.qty \in Int
    BY <1>3
  <2> QED  BY <1>3, <1>4, <2>1, MakersOf
<1> HIDE DEF M
<1>6. ts.orderId = id /\ ts.remaining = Unfilled(B, t)
  BY <1>3 DEF ts, TakerState, OrderState
<1> HIDE DEF ts
<1>7. \A m \in M : m.id # id
  BY <1>4, <1>5 DEF Resting
<1>8. \A m \in M : state(m).orderId = m.id
  BY DEF OrderState
<1> HIDE DEF state
<1>9. w[id] = [order |-> [t EXCEPT !.qty = Unfilled(B, t)], status |-> ts.status]
  <2>1. /\ ts \in r.orders /\ ts.orderId = v[id].order.id
        /\ \A x \in r.orders : x.orderId = v[id].order.id => x = ts
    BY <1>1, <1>2, <1>6, <1>7, <1>8
  <2>2. w[id] = WithState(Accepted(v[id], r), ts)
    BY <2>1, UpdatedBy DEF w, After
  <2>3. v[id] = [order |-> v[id].order, status |-> "open"]
    BY <1>2, RowFields
  <2>4. Accepted(v[id], r) = [v[id] EXCEPT !.order.seq = k + 1]
    BY <1>1, <1>2 DEF Accepted
  <2>5. [v[id] EXCEPT !.order.seq = k + 1]
          = [order |-> [v[id].order EXCEPT !.seq = k + 1], status |-> "open"]
    BY <2>3
  <2>6. Accepted(v[id], r) = [order |-> t, status |-> "open"]
    BY <1>3, <2>4, <2>5
  <2> DEFINE row == [order |-> t, status |-> "open"]
  <2>7. IsRow(row) /\ ~IsTerminal(row) /\ row.order = t
    BY DEF IsRow, IsTerminal, Terminal
  <2>8. w[id] = WithState(row, ts)
    BY <2>2, <2>6
  <2> HIDE DEF row
  <2> QED  BY <1>6, <2>7, <2>8, StateTaken
<1>10. ASSUME NEW m \in M
       PROVE  w[m.id] = [order  |-> [m EXCEPT !.qty = left(m)],
                         status |-> IF left(m) = 0 THEN "filled" ELSE "partial"]
  <2> DEFINE row == v[m.id]
  <2>1. /\ m \in B /\ m.id \in OrderId /\ row # None /\ Resting(row) /\ row.order = m
        /\ row \in Row /\ m.id # id
    BY <1>4, <1>5, <1>7 DEF TableAt, RowAt
  <2>2. ASSUME NEW n \in M, n.id = m.id PROVE n = m
    BY <1>4, <1>5, <2>1, <2>2
  <2>3. /\ state(m) \in r.orders /\ state(m).orderId = row.order.id
        /\ \A x \in r.orders : x.orderId = row.order.id => x = state(m)
    BY <1>1, <1>6, <1>8, <2>1, <2>2
  <2> HIDE DEF row
  <2>4. Updated(row, r) = WithState(Accepted(row, r), state(m))
    BY <2>3, UpdatedBy
  <2>5. Accepted(row, r) = row
    BY <1>1, <2>1 DEF Accepted
  <2>6. row = [order |-> m, status |-> row.status] /\ row.status \in {"open", "partial"}
    BY <2>1, RowFields DEF Resting
  <2>7. /\ state(m).status = (IF left(m) = 0 THEN "filled" ELSE "partial")
        /\ state(m).remaining = left(m)
    BY DEF state, OrderState
  <2> HIDE DEF left
  <2>8. IsRow(row) /\ ~IsTerminal(row)
    BY <2>1, <2>6 DEF IsRow, IsTerminal, Terminal
  <2>9. WithState(row, state(m)) = [order  |-> [m EXCEPT !.qty = left(m)],
                                    status |-> IF left(m) = 0 THEN "filled" ELSE "partial"]
    BY <2>1, <2>7, <2>8, StateTaken
  <2>10. w[m.id] = Updated(row, r)
    BY <2>1 DEF row, w, After
  <2> QED  BY <2>4, <2>5, <2>9, <2>10
<1>11. ASSUME NEW i \in OrderId, i # id, v[i].order \notin M
       PROVE  w[i] = v[i]
  <2>1. CASE v[i] = None
    BY <2>1 DEF w, After
  <2>2. CASE v[i] # None
    <3>1. v[i].order.id = i
      BY <2>2 DEF TableAt, RowAt
    <3>2. \A m \in M : m.id # i
      BY <1>4, <1>5, <1>11
    <3>3. \A x \in r.orders : x.orderId # v[i].order.id
      BY <1>1, <1>6, <1>8, <1>11, <3>1, <3>2
    <3>4. w[i] = Accepted(v[i], r)
      BY <2>2, <3>3, UpdatedBy DEF w, After
    <3> QED  BY <1>1, <1>11, <3>1, <3>4 DEF Accepted
  <2> QED  BY <2>1, <2>2
<1> QED  BY <1>1, <1>3, <1>7, <1>9, <1>10, <1>11 DEF M, ts, left, B, t, r, w

(* A cancel ends its order if it rests, and changes no other row.          *)
LEMMA CancelOutcome ==
  ASSUME NEW v, NEW k \in Nat, TableAt(v, k), NEW id \in OrderId
  PROVE  LET r == Outcome(v, k + 1, CancelOf(id))
             w == After(v, r)
         IN  /\ r.cmd = k + 1 /\ r.trades = <<>>
             /\ v[id] # None /\ Resting(v[id]) => w[id] = [v[id] EXCEPT !.status = "cancelled"]
             /\ \A i \in OrderId :
                  i # id \/ v[i] = None \/ ~Resting(v[i]) => w[i] = v[i]
<1> DEFINE B == BookIn(v)
           r == Outcome(v, k + 1, CancelOf(id))
           w == After(v, r)
           state(o) == OrderState(o.id, "cancelled", o.qty)
<1>1. /\ r.cmd = k + 1 /\ r.kind = "cancel" /\ r.trades = <<>>
      /\ r.orders = {state(o) : o \in {p \in B : p.id = id}}
  BY DEF Outcome, CancelOf, CancelResult, Result
<1>2. /\ \A m \in B : v[m.id] # None /\ Resting(v[m.id]) /\ v[m.id].order = m
      /\ \A i \in OrderId : v[i] # None /\ Resting(v[i]) => v[i].order \in B
  BY BookRows
<1>3. \A o \in B : state(o).orderId = o.id
  BY DEF OrderState
<1> HIDE DEF B, r, state
<1>4. ASSUME v[id] # None, Resting(v[id])
      PROVE  w[id] = [v[id] EXCEPT !.status = "cancelled"]
  <2> DEFINE m == v[id].order
  <2>1. m \in B /\ m.id = id /\ v[id] \in Row
    BY <1>2, <1>4 DEF TableAt, RowAt
  <2>2. /\ state(m) \in r.orders /\ state(m).orderId = v[id].order.id
        /\ \A x \in r.orders : x.orderId = v[id].order.id => x = state(m)
    BY <1>1, <1>2, <1>3, <2>1
  <2>3. Updated(v[id], r) = WithState(Accepted(v[id], r), state(m))
    BY <2>2, UpdatedBy
  <2>4. Accepted(v[id], r) = v[id]
    BY <1>1 DEF Accepted
  <2>5. state(m).status = "cancelled" /\ state(m).remaining = v[id].order.qty
    BY DEF state, OrderState
  <2>6. WithState(v[id], state(m)) = [v[id] EXCEPT !.status = "cancelled",
                                                   !.order.qty = v[id].order.qty]
    BY <1>4, <2>5 DEF WithState, IsTerminal, Terminal, Resting
  <2>7. [v[id] EXCEPT !.status = "cancelled", !.order.qty = v[id].order.qty]
          = [v[id] EXCEPT !.status = "cancelled"]
    BY <2>1, RowFields
  <2>8. w[id] = Updated(v[id], r)
    BY <1>4 DEF After
  <2> QED  BY <2>3, <2>4, <2>6, <2>7, <2>8
<1>5. ASSUME NEW i \in OrderId, i # id \/ v[i] = None \/ ~Resting(v[i])
      PROVE  w[i] = v[i]
  <2>1. CASE v[i] = None
    BY <2>1 DEF After
  <2>2. CASE v[i] # None
    <3>1. v[i].order.id = i
      BY <2>2 DEF TableAt, RowAt
    <3>2. \A o \in B : o.id = id => o.id # i
      BY <1>2, <1>5, <2>2
    <3>3. \A x \in r.orders : x.orderId # v[i].order.id
      BY <1>1, <1>3, <3>1, <3>2
    <3>4. w[i] = Accepted(v[i], r)
      BY <2>2, <3>3, UpdatedBy DEF After
    <3> QED  BY <1>1, <3>4 DEF Accepted
  <2> QED  BY <2>1, <2>2
<1> QED  BY <1>1, <1>4, <1>5 DEF r

\* Two rows of one order: what the order asks for is never changed.
Same(row1, row2) ==
  /\ row1.order.id = row2.order.id /\ row1.order.user = row2.order.user
  /\ row1.order.side = row2.order.side /\ row1.order.type = row2.order.type
  /\ row1.order.price = row2.order.price /\ row1.order.orig = row2.order.orig

LEMMA SameIncoming ==
  ASSUME NEW row1 \in Row, NEW row2 \in Row, Same(row1, row2), NEW c \in Nat
  PROVE  Incoming(row1, c) = Incoming(row2, c)
BY IncomingFields DEF Same

\* A row with another place, quantity and status.
Changed(row, n, q, st) ==
  [order |-> [[row.order EXCEPT !.seq = n] EXCEPT !.qty = q], status |-> st]

LEMMA RowChanged ==
  ASSUME NEW row \in Row, NEW q \in Nat, NEW n \in Nat, NEW st \in Statuses
  PROVE  /\ Changed(row, n, q, st) \in Row /\ Same(Changed(row, n, q, st), row)
         /\ Changed(row, n, q, st).order.qty = q /\ Changed(row, n, q, st).order.seq = n
         /\ Changed(row, n, q, st).status = st
<1> DEFINE x == Changed(row, n, q, st)
           o == row.order
           e == [o EXCEPT !.seq = n]
           T == [id : OrderId, user : User, side : Sides, type : OrderTypes,
                 price : Nat, qty : Nat, orig : Nat \ {0}, seq : Nat]
<1>1. o \in T
  BY DEF Row
<1>2. x = [order |-> [e EXCEPT !.qty = q], status |-> st]
  BY DEF Changed
<1>3. o = row.order
  OBVIOUS
<1> HIDE DEF o, x
<1>4. /\ e \in T /\ e.seq = n /\ e.id = o.id /\ e.user = o.user /\ e.side = o.side
      /\ e.type = o.type /\ e.price = o.price /\ e.orig = o.orig
  BY <1>1
<1> DEFINE f == [e EXCEPT !.qty = q]
<1> HIDE DEF e
<1>5. /\ f \in T /\ f.seq = n /\ f.qty = q /\ f.id = o.id /\ f.user = o.user /\ f.side = o.side
      /\ f.type = o.type /\ f.price = o.price /\ f.orig = o.orig
  BY <1>4
<1> HIDE DEF f
<1>6. x = [order |-> f, status |-> st]
  BY <1>2 DEF f
<1>7. x \in Row
  BY <1>5, <1>6 DEF Row
<1>8. x.order = f /\ x.status = st
  BY <1>6
<1>9. Same(x, row)
  BY <1>3, <1>5, <1>8 DEF Same
<1> QED  BY <1>5, <1>7, <1>8, <1>9 DEF x

\* What one more command may do to a table.
Carried(v, w, k) ==
  /\ TableAt(w, k + 1)
  /\ \A i \in OrderId : /\ w[i] = None <=> v[i] = None
                        /\ v[i] # None => /\ Same(w[i], v[i])
                                          /\ w[i].order.seq = 0 => w[i] = v[i]

LEMMA CarriedBy ==
  ASSUME NEW v, NEW w, NEW k \in Nat, TableAt(v, k),
         \A i \in OrderId : v[i] = None => w[i] = None,
         \A i \in OrderId : v[i] # None =>
           \/ w[i] = v[i] /\ (v[i].order.seq = 0 => orders[k + 1] # Create(i))
           \/ /\ w[i] \in Row /\ Same(w[i], v[i]) /\ w[i].order.seq > 0
              /\ w[i].order.seq <= k + 1 /\ orders[w[i].order.seq] = Create(i)
  PROVE  Carried(v, w, k)
<1>1. ASSUME NEW i \in OrderId, v[i] # None
      PROVE  /\ w[i] # None /\ RowAt(w[i], i, k + 1) /\ Same(w[i], v[i])
             /\ w[i].order.seq = 0 => w[i] = v[i]
  <2>1. RowAt(v[i], i, k)
    BY <1>1 DEF TableAt
  <2>2. CASE w[i] = v[i] /\ (v[i].order.seq = 0 => orders[k + 1] # Create(i))
    <3>1. v[i].order.seq \in Nat
      BY <2>1, RowFields DEF RowAt
    <3>2. v[i].order.seq = 0 => \A c \in 1..(k + 1) : orders[c] # Create(i)
      <4>1. \A c \in 1..(k + 1) : c \in 1..k \/ c = k + 1
        OBVIOUS
      <4> QED  BY <2>1, <2>2, <4>1 DEF RowAt
    <3> QED  BY <1>1, <2>1, <2>2, <3>1, <3>2 DEF RowAt, Same
  <2>3. CASE /\ w[i] \in Row /\ Same(w[i], v[i]) /\ w[i].order.seq > 0
             /\ w[i].order.seq <= k + 1 /\ orders[w[i].order.seq] = Create(i)
    BY <2>1, <2>3, NoRowAssumption DEF RowAt, Same
  <2> QED  BY <1>1, <2>2, <2>3
<1>2. {i \in OrderId : w[i] # None} = {i \in OrderId : v[i] # None}
  BY <1>1
<1>3. TableAt(w, k + 1)
  BY <1>1, <1>2 DEF TableAt
<1> QED  BY <1>1, <1>3 DEF Carried

LEMMA CreateRows ==
  ASSUME NEW v, NEW k \in Nat, TableAt(v, k), NEW id \in OrderId, v[id] # None,
         v[id].order.seq = 0, v[id].status = "open", orders[k + 1] = Create(id)
  PROVE  Carried(v, After(v, Outcome(v, k + 1, Create(id))), k)
<1> DEFINE B == BookIn(v)
           t == Incoming(v[id], k + 1)
           r == Outcome(v, k + 1, Create(id))
           w == After(v, r)
           left(m) == m.qty - FillQty(B, t, m)
<1>1. /\ t.side \in Sides /\ t.qty \in Nat \ {0} /\ t.orig = t.qty
      /\ w[id] = [order  |-> [t EXCEPT !.qty = Unfilled(B, t)],
                  status |-> TakerState(B, t).status]
      /\ \A m \in Makers(B, t) :
           /\ m.id # id
           /\ w[m.id] = [order  |-> [m EXCEPT !.qty = left(m)],
                         status |-> IF left(m) = 0 THEN "filled" ELSE "partial"]
      /\ \A i \in OrderId :
           i # id /\ v[i].order \notin Makers(B, t) => w[i] = v[i]
  BY CreateOutcome
<1>2. /\ \A m \in B : /\ m.id \in OrderId /\ v[m.id] # None /\ Resting(v[m.id])
                      /\ v[m.id].order = m /\ m.qty \in Nat \ {0}
      /\ BookOK(B)
  BY BookRows
<1>3. \A i \in OrderId : v[i] = None => w[i] = None
  BY DEF After
<1>4. \A m \in Makers(B, t) : m \in B
  <2> HIDE DEF B, t
  <2> QED  BY <1>1, <1>2, MakersOf
<1>5. Unfilled(B, t) \in Nat /\ TakerState(B, t).status \in Statuses
  <2> HIDE DEF B, t
  <2>1. \A m \in B : m.qty \in Nat
    BY <1>2
  <2>2. TakerState(B, t).status \in Statuses
    BY <1>1, <1>2, <2>1, ReportedStates
  <2>3. Unfilled(B, t) \in 0..t.qty
    BY <1>1, <1>2, <2>1, FillsAddUp
  <2> QED  BY <1>1, <2>2, <2>3
<1>6. t = [v[id].order EXCEPT !.seq = k + 1]
  <2>1. v[id] \in Row /\ v[id].order.qty = v[id].order.orig
    BY DEF TableAt, RowAt
  <2> QED  BY <2>1, TakerOrder
<1> HIDE DEF B, t, w
<1>7. /\ w[id] \in Row /\ Same(w[id], v[id]) /\ w[id].order.seq = k + 1
  <2>1. v[id] \in Row
    BY DEF TableAt, RowAt
  <2>2. w[id] = Changed(v[id], k + 1, Unfilled(B, t), TakerState(B, t).status)
    BY <1>1, <1>6 DEF Changed
  <2>3. k + 1 \in Nat
    OBVIOUS
  <2> DEFINE old == v[id]
             place == k + 1
             rest == Unfilled(B, t)
             verdict == TakerState(B, t).status
             x == Changed(old, place, rest, verdict)
  <2>4. old \in Row /\ place \in Nat /\ rest \in Nat /\ verdict \in Statuses
    BY <1>5, <2>1, <2>3
  <2>5. w[id] = x
    BY <2>2
  <2> HIDE DEF old, place, rest, verdict
  <2>6. x \in Row /\ Same(x, old) /\ x.order.seq = place
    <3>1. \A o \in Row, b \in Nat, c \in Nat, d \in Statuses :
            LET y == Changed(o, c, b, d) IN y \in Row /\ Same(y, o) /\ y.order.seq = c
      BY RowChanged
    <3> QED  BY <2>4, <3>1
  <2> HIDE DEF x
  <2>7. w[id] \in Row /\ Same(w[id], old) /\ w[id].order.seq = place
    BY <2>5, <2>6
  <2> QED  BY <2>7 DEF old, place
<1>8. ASSUME NEW i \in OrderId, i # id, v[i].order \in Makers(B, t), v[i] # None
      PROVE  /\ w[i] \in Row /\ Same(w[i], v[i]) /\ w[i].order.seq > 0
             /\ w[i].order.seq <= k + 1 /\ orders[w[i].order.seq] = Create(i)
  <2> DEFINE m == v[i].order
  <2>1. RowAt(v[i], i, k)
    BY <1>8 DEF TableAt
  <2>2. m \in B /\ m.id = i /\ v[i] \in Row /\ Resting(v[i])
    BY <1>2, <1>4, <1>8, <2>1 DEF RowAt
  <2>3. left(m) \in Nat
    <3>1. \A n \in B : n.qty \in Nat
      BY <1>2
    <3>2. t.qty \in Int
      BY <1>1
    <3>3. FillQty(B, t, m) \in 0..m.qty
      <4> HIDE DEF m
      <4> QED  BY <1>1, <1>2, <2>2, <3>1, <3>2, FillBounds
    <3>4. m.qty \in Nat
      BY <2>2, <3>1
    <3> HIDE DEF m
    <3> QED  BY <3>3, <3>4
  <2>4. m = [m EXCEPT !.seq = m.seq] /\ m.seq \in Nat
    BY <2>2, RowFields
  <2> DEFINE st == IF left(m) = 0 THEN "filled" ELSE "partial"
  <2>5. st \in Statuses
    BY DEF Statuses, Terminal
  <2>6. w[i] = [order |-> [[v[i].order EXCEPT !.seq = m.seq] EXCEPT !.qty = left(m)], status |-> st]
    BY <1>1, <1>8, <2>2, <2>4
  <2> DEFINE q == left(m)
             n == m.seq
  <2>7. w[i] = Changed(v[i], n, q, st)
    BY <2>6 DEF Changed
  <2>8. q \in Nat /\ n \in Nat
    BY <2>3, <2>4
  <2> HIDE DEF q, n, st
  <2> DEFINE row == v[i]
             x == Changed(row, n, q, st)
  <2>9. w[i] \in Row /\ Same(w[i], row) /\ w[i].order.seq = n
    <3>1. row \in Row
      BY <2>2
    <3> HIDE DEF row
    <3>2. x \in Row /\ Same(x, row) /\ x.order.seq = n
      BY <2>5, <2>8, <3>1, RowChanged
    <3>3. w[i] = x
      BY <2>7 DEF row
    <3> HIDE DEF x
    <3> QED  BY <3>2, <3>3
  <2>10. n > 0 /\ n <= k /\ orders[n] = Create(i)
    BY <2>1, <2>2, <2>8 DEF RowAt, Resting, n
  <2> QED  BY <2>8, <2>9, <2>10
<1>9. \A i \in OrderId : i # id => Create(id) # Create(i)
  BY DEF Create
<1>10. \A i \in OrderId : v[i] # None =>
           \/ w[i] = v[i] /\ (v[i].order.seq = 0 => orders[k + 1] # Create(i))
           \/ /\ w[i] \in Row /\ Same(w[i], v[i]) /\ w[i].order.seq > 0
              /\ w[i].order.seq <= k + 1 /\ orders[w[i].order.seq] = Create(i)
  BY <1>1, <1>7, <1>8, <1>9
<1> QED  BY <1>3, <1>10, CarriedBy DEF w, r

LEMMA CancelRows ==
  ASSUME NEW v, NEW k \in Nat, TableAt(v, k), NEW id \in OrderId, orders[k + 1] = CancelOf(id)
  PROVE  Carried(v, After(v, Outcome(v, k + 1, CancelOf(id))), k)
<1> DEFINE w == After(v, Outcome(v, k + 1, CancelOf(id)))
<1>1. /\ v[id] # None /\ Resting(v[id]) => w[id] = [v[id] EXCEPT !.status = "cancelled"]
      /\ \A i \in OrderId : i # id \/ v[i] = None \/ ~Resting(v[i]) => w[i] = v[i]
  BY CancelOutcome
<1> HIDE DEF w
<1>2. \A i \in OrderId : CancelOf(id) # Create(i)
  BY DEF CancelOf, Create
<1>3. ASSUME v[id] # None, Resting(v[id])
      PROVE  /\ w[id] \in Row /\ Same(w[id], v[id]) /\ w[id].order.seq > 0
             /\ w[id].order.seq <= k + 1 /\ orders[w[id].order.seq] = Create(id)
  <2>1. RowAt(v[id], id, k) /\ v[id] \in Row
    BY <1>3 DEF TableAt, RowAt
  <2>2. w[id] \in Row /\ w[id].order = v[id].order
    BY <1>1, <1>3, <2>1 DEF Row, Statuses, Terminal
  <2>3. v[id].order.seq \in Nat
    BY <2>1, RowFields
  <2> QED  BY <1>3, <2>1, <2>2, <2>3 DEF RowAt, Resting, Same
<1>4. \A i \in OrderId : v[i] # None =>
           \/ w[i] = v[i] /\ (v[i].order.seq = 0 => orders[k + 1] # Create(i))
           \/ /\ w[i] \in Row /\ Same(w[i], v[i]) /\ w[i].order.seq > 0
              /\ w[i].order.seq <= k + 1 /\ orders[w[i].order.seq] = Create(i)
  BY <1>1, <1>2, <1>3
<1>5. Carried(v, w, k)
  BY <1>1, <1>4, CarriedBy
<1> QED  BY <1>5 DEF w

(* The book after a cancel: the order is gone.                             *)
LEMMA CancelBook ==
  ASSUME NEW v, NEW k \in Nat, TableAt(v, k), NEW id \in OrderId, orders[k + 1] = CancelOf(id)
  PROVE  BookIn(After(v, Outcome(v, k + 1, CancelOf(id)))) = {o \in BookIn(v) : o.id # id}
<1> DEFINE w == After(v, Outcome(v, k + 1, CancelOf(id)))
<1>1. /\ v[id] # None /\ Resting(v[id]) => w[id] = [v[id] EXCEPT !.status = "cancelled"]
      /\ \A i \in OrderId : i # id \/ v[i] = None \/ ~Resting(v[i]) => w[i] = v[i]
  BY CancelOutcome
<1>2. Carried(v, w, k)
  BY CancelRows
<1> HIDE DEF w
<1>3. k + 1 \in Nat /\ TableAt(w, k + 1)
  BY <1>2 DEF Carried
<1>4. /\ \A i \in OrderId : w[i] # None /\ Resting(w[i]) => w[i].order \in BookIn(w)
      /\ \A m \in BookIn(w) : m.id \in OrderId /\ w[m.id] # None /\ Resting(w[m.id])
                              /\ w[m.id].order = m
  BY <1>3, BookRows
<1>5. /\ \A i \in OrderId : v[i] # None /\ Resting(v[i]) => v[i].order \in BookIn(v)
      /\ \A m \in BookIn(v) : m.id \in OrderId /\ v[m.id] # None /\ Resting(v[m.id])
                              /\ v[m.id].order = m
  BY BookRows
<1>6. w[id] # None => ~Resting(w[id])
  <2>1. CASE v[id] # None /\ Resting(v[id])
    <3>1. v[id] = [order |-> v[id].order, status |-> v[id].status]
      BY <2>1, RowFields DEF TableAt, RowAt
    <3>2. w[id].status = "cancelled"
      BY <1>1, <2>1, <3>1
    <3> QED  BY <3>2 DEF Resting
  <2>2. CASE ~(v[id] # None /\ Resting(v[id]))
    BY <1>1, <1>2, <2>2 DEF Carried
  <2> QED  BY <2>1, <2>2
<1>7. ASSUME NEW m \in BookIn(w) PROVE m \in BookIn(v) /\ m.id # id
  BY <1>1, <1>2, <1>4, <1>5, <1>6 DEF Carried
<1>8. ASSUME NEW m \in BookIn(v), m.id # id PROVE m \in BookIn(w)
  BY <1>1, <1>4, <1>5, <1>8
<1>9. BookIn(w) = {o \in BookIn(v) : o.id # id}
  BY <1>7, <1>8
<1> QED  BY <1>9 DEF w

(* The book after a create: what AfterSubmit makes of it.                  *)
LEMMA CreateBook ==
  ASSUME NEW v, NEW k \in Nat, TableAt(v, k), NEW id \in OrderId, v[id] # None,
         v[id].order.seq = 0, v[id].status = "open", orders[k + 1] = Create(id)
  PROVE  BookIn(After(v, Outcome(v, k + 1, Create(id))))
           = AfterSubmit(BookIn(v), Incoming(v[id], k + 1))
<1> DEFINE B == BookIn(v)
           t == Incoming(v[id], k + 1)
           r == Outcome(v, k + 1, Create(id))
           w == After(v, r)
           fill(m) == FillQty(B, t, m)
           rest(m) == [m EXCEPT !.qty = m.qty - fill(m)]
           taker == [t EXCEPT !.qty = Unfilled(B, t)]
<1>1. /\ t.side \in Sides /\ t.qty \in Nat \ {0} /\ t.orig = t.qty
      /\ t.id = id /\ t.seq = k + 1 /\ t.type = v[id].order.type
      /\ w[id] = [order |-> taker, status |-> TakerState(B, t).status]
      /\ \A m \in Makers(B, t) :
           /\ m.id # id
           /\ w[m.id] = [order  |-> rest(m),
                         status |-> IF m.qty - fill(m) = 0 THEN "filled" ELSE "partial"]
      /\ \A i \in OrderId :
           i # id /\ v[i].order \notin Makers(B, t) => w[i] = v[i]
  BY CreateOutcome
<1>2. Carried(v, w, k)
  BY CreateRows
<1>3. v[id] \in Row /\ v[id].order.qty = v[id].order.orig
  BY DEF TableAt, RowAt
<1>4. t = [v[id].order EXCEPT !.seq = k + 1]
  BY <1>3, TakerOrder
<1>5. AfterSubmit(B, t) = {rest(m) : m \in {n \in B : fill(n) < n.qty}}
                          \cup IF Rests(B, t) THEN {taker} ELSE {}
  BY DEF AfterSubmit
<1>6. /\ \A i \in OrderId : v[i] # None /\ Resting(v[i]) => v[i].order \in B
      /\ \A m \in B : m.id \in OrderId /\ v[m.id] # None /\ Resting(v[m.id])
                      /\ v[m.id].order = m /\ m.qty \in Nat \ {0}
      /\ BookOK(B)
  BY BookRows
<1> HIDE DEF B, t, w, r
<1>7. /\ \A i \in OrderId : w[i] # None /\ Resting(w[i]) => w[i].order \in BookIn(w)
      /\ \A m \in BookIn(w) : m.id \in OrderId /\ w[m.id] # None /\ Resting(w[m.id])
                              /\ w[m.id].order = m
  <2>1. k + 1 \in Nat /\ TableAt(w, k + 1)
    BY <1>2 DEF Carried
  <2> QED  BY <2>1, BookRows
<1>8. \A m \in B : m.qty \in Nat
  BY <1>6
<1>9. \A m \in B : fill(m) \in 0..m.qty /\ (m \notin Makers(B, t) => fill(m) = 0)
  <2> SUFFICES ASSUME NEW m \in B
               PROVE  fill(m) \in 0..m.qty /\ (m \notin Makers(B, t) => fill(m) = 0)
    OBVIOUS
  <2>1. t.qty \in Int
    BY <1>1
  <2>2. fill(m) \in 0..m.qty
    BY <1>1, <1>6, <1>8, <2>1, FillBounds
  <2>3. m \in Matchable(B, t) /\ fill(m) > 0 => m \in Makers(B, t)
    BY DEF Makers
  <2>4. m \notin Matchable(B, t) => fill(m) = 0
    BY Zenon DEF FillQty
  <2> HIDE DEF fill
  <2> QED  BY <1>8, <2>2, <2>3, <2>4
<1>10. TakerState(B, t).status \in {"open", "partial"} <=> Rests(B, t)
  BY <1>1, <1>6, <1>8, TakerRests
<1>11. Rests(B, t) => t.type = "limit" /\ Unfilled(B, t) > 0
  BY DEF Rests
<1>12. ASSUME NEW i \in OrderId, v[i] # None
       PROVE  /\ w[i] # None /\ w[i] \in Row /\ v[i] \in Row /\ v[i].order.id = i
              /\ w[i].order.type = v[i].order.type
              /\ w[i].order.seq = 0 => v[i].order.seq = 0
  BY <1>2, <1>12 DEF Carried, TableAt, RowAt, Same
<1>13. w[id].order = taker /\ taker.qty = Unfilled(B, t) /\ taker.seq = k + 1
  <2>1. w[id].order = taker
    BY <1>1
  <2>2. t = [id |-> t.id, user |-> t.user, side |-> t.side, type |-> t.type, price |-> t.price,
             qty |-> t.qty, orig |-> t.orig, seq |-> t.seq]
    <3>1. v[id].order \in [id : OrderId, user : User, side : Sides, type : OrderTypes,
                           price : Nat, qty : Nat, orig : Nat \ {0}, seq : Nat]
      BY <1>3 DEF Row
    <3> QED  BY <1>4, <3>1
  <2> QED  BY <1>1, <2>1, <2>2
<1>14. ASSUME NEW m \in B
       PROVE  rest(m).qty = m.qty - fill(m) /\ (fill(m) = 0 => rest(m) = m)
  <2>1. v[m.id] \in Row /\ v[m.id].order = m
    BY <1>6, <1>12
  <2>2. m \in [id : OrderId, user : User, side : Sides, type : OrderTypes,
               price : Nat, qty : Nat, orig : Nat \ {0}, seq : Nat]
    BY <2>1 DEF Row
  <2> HIDE DEF fill
  <2> QED  BY <2>2
<1> HIDE DEF fill, rest, taker
<1>15. ASSUME NEW x \in BookIn(w) PROVE x \in AfterSubmit(B, t)
  <2> DEFINE i == x.id
  <2>1. i \in OrderId /\ w[i] # None /\ Resting(w[i]) /\ w[i].order = x /\ v[i] # None
    BY <1>2, <1>7 DEF Carried
  <2> HIDE DEF i
  <2>2. CASE i = id
    <3>1. Rests(B, t) /\ x = taker
      BY <1>1, <1>10, <1>13, <2>1, <2>2 DEF Resting
    <3> QED  BY <1>5, <3>1
  <2>3. CASE i # id /\ v[i].order \in Makers(B, t)
    <3> PICK m \in Makers(B, t) : m = v[i].order
      BY <2>3
    <3>1. m \in B
      <4>1. t.qty \in Int
        BY <1>1
      <4> QED  BY <1>1, <1>6, <4>1, MakersOf
    <3>2. m.id = i
      BY <1>12, <2>1
    <3>3. x = rest(m)
      <4>1. w[m.id] = [order  |-> rest(m),
                       status |-> IF m.qty - fill(m) = 0 THEN "filled" ELSE "partial"]
        BY <1>1
      <4>2. w[i].order = rest(m)
        BY <3>2, <4>1
      <4> QED  BY <2>1, <4>2
    <3>4. x.qty > 0
      BY <2>1 DEF Resting
    <3>5. fill(m) < m.qty
      <4> QED  BY <1>8, <1>9, <1>14, <3>1, <3>3, <3>4
    <3> QED  BY <1>5, <3>1, <3>3, <3>5
  <2>4. CASE i # id /\ v[i].order \notin Makers(B, t)
    <3>1. w[i] = v[i]
      BY <1>1, <2>1, <2>4
    <3>2. x \in B /\ x \notin Makers(B, t)
      BY <1>6, <2>1, <2>4, <3>1
    <3>3. fill(x) = 0 /\ x.qty > 0
      BY <1>6, <1>9, <3>2
    <3>4. x = rest(x)
      BY <1>14, <3>2, <3>3
    <3> QED  BY <1>5, <3>2, <3>3, <3>4
  <2> QED  BY <2>2, <2>3, <2>4
<1>16. ASSUME NEW x \in AfterSubmit(B, t) PROVE x \in BookIn(w)
  <2>1. CASE Rests(B, t) /\ x = taker
    <3>1. w[id].status \in {"open", "partial"} /\ w[id].order.type = "limit"
          /\ w[id].order.qty > 0
      BY <1>1, <1>10, <1>11, <1>12, <1>13, <2>1
    <3>2. w[id].order.seq > 0
      <4>1. w[id].order.seq = k + 1
        BY <1>13
      <4> QED  BY <4>1
    <3> QED  BY <1>7, <1>12, <1>13, <2>1, <3>1, <3>2 DEF Resting
  <2>2. ASSUME NEW m \in B, fill(m) < m.qty, x = rest(m) PROVE x \in BookIn(w)
    <3> DEFINE i == m.id
    <3>1. i \in OrderId /\ v[i] # None /\ Resting(v[i]) /\ v[i].order = m
      BY <1>6
    <3>2. i # id
      BY <3>1 DEF Resting
    <3> HIDE DEF i
    <3>3. CASE m \in Makers(B, t)
      <4>1. w[i] = [order  |-> rest(m),
                    status |-> IF m.qty - fill(m) = 0 THEN "filled" ELSE "partial"]
        BY <1>1, <3>3 DEF i
      <4>2. m.qty - fill(m) > 0 /\ m.qty - fill(m) # 0
        BY <1>8, <1>9, <2>2
      <4>3. w[i].order = x /\ w[i].status = "partial" /\ x.qty > 0
        BY <1>14, <2>2, <4>1, <4>2
      <4>4. w[i].order.seq # 0 /\ w[i].order.seq \in Nat /\ w[i].order.type = "limit"
        <5>1. w[i] \in Row /\ w[i].order.type = "limit" /\ w[i].order.seq # 0
          BY <1>12, <3>1 DEF Resting
        <5> QED  BY <5>1, RowFields
      <4> QED  BY <1>7, <1>12, <3>1, <4>3, <4>4 DEF Resting
    <3>4. CASE m \notin Makers(B, t)
      <4>1. w[i] = v[i] /\ x = m
        BY <1>1, <1>9, <1>14, <2>2, <3>1, <3>2, <3>4
      <4> QED  BY <1>7, <3>1, <4>1
    <3> QED  BY <3>3, <3>4
  <2> QED  BY <1>5, <2>1, <2>2
<1>17. BookIn(w) = AfterSubmit(B, t)
  BY <1>15, <1>16
<1> QED  BY <1>17 DEF B, t, w, r

\* The book of table v after its command number c (BookAfter of Pipeline).
BookBy(v, c, cmd) ==
  IF cmd.kind = "create" THEN AfterSubmit(BookIn(v), Incoming(v[cmd.id], c))
  ELSE {o \in BookIn(v) : o.id # cmd.id}

(* Any command, carried out against a table that allows it.                *)
LEMMA CommandStep ==
  ASSUME NEW v, NEW k \in Nat, TableAt(v, k), NEW cmd \in Commands, orders[k + 1] = cmd,
         v[cmd.id] # None,
         cmd.kind = "create" => v[cmd.id].order.seq = 0 /\ v[cmd.id].status = "open"
  PROVE  LET w == After(v, Outcome(v, k + 1, cmd))
         IN  /\ Outcome(v, k + 1, cmd).cmd = k + 1
             /\ Carried(v, w, k)
             /\ BookIn(w) = BookBy(v, k + 1, cmd)
<1>1. PICK id \in OrderId : cmd = Create(id) \/ cmd = CancelOf(id)
  BY DEF Commands
<1>2. CASE cmd = Create(id)
  <2>1. cmd.kind = "create" /\ cmd.id = id
    BY <1>2 DEF Create
  <2>2. v[id] # None /\ v[id].order.seq = 0 /\ v[id].status = "open" /\ orders[k + 1] = Create(id)
    BY <1>2, <2>1
  <2>3. Outcome(v, k + 1, Create(id)).cmd = k + 1
    BY DEF Outcome, Create, CreateResult, Result
  <2>4. Carried(v, After(v, Outcome(v, k + 1, Create(id))), k)
    BY <2>2, CreateRows
  <2>5. BookIn(After(v, Outcome(v, k + 1, Create(id))))
          = AfterSubmit(BookIn(v), Incoming(v[id], k + 1))
    BY <2>2, CreateBook
  <2>6. BookBy(v, k + 1, cmd) = AfterSubmit(BookIn(v), Incoming(v[id], k + 1))
    BY <2>1 DEF BookBy
  <2> QED  BY <1>2, <2>3, <2>4, <2>5, <2>6, Zenon
<1>3. CASE cmd = CancelOf(id)
  <2>1. cmd.kind = "cancel" /\ cmd.id = id
    BY <1>3 DEF CancelOf
  <2>2. orders[k + 1] = CancelOf(id)
    BY <1>3
  <2>3. Outcome(v, k + 1, CancelOf(id)).cmd = k + 1
    BY DEF Outcome, CancelOf, CancelResult, Result
  <2>4. Carried(v, After(v, Outcome(v, k + 1, CancelOf(id))), k)
    BY <2>2, CancelRows
  <2>5. BookIn(After(v, Outcome(v, k + 1, CancelOf(id)))) = {o \in BookIn(v) : o.id # id}
    BY <2>2, CancelBook
  <2>6. BookBy(v, k + 1, cmd) = {o \in BookIn(v) : o.id # id}
    BY <2>1 DEF BookBy
  <2> QED  BY <1>3, <2>3, <2>4, <2>5, <2>6, Zenon
<1> QED  BY <1>1, <1>2, <1>3

\* A table with another row for one order.
Put(v, id, row) == [i \in OrderId |-> IF i = id THEN row ELSE v[i]]

(* An order whose create is still to come may be placed or withdrawn       *)
(* without a command before that noticing.                                 *)
LEMMA OtherRow ==
  ASSUME NEW v, NEW k \in Nat, TableAt(v, k), NEW id \in OrderId,
         v[id] # None => v[id].order.seq = 0,
         NEW row, row # None, row.order.seq = 0, row.order.id = id
  PROVE  /\ BookIn(Put(v, id, row)) = BookIn(v)
         /\ \A cmd \in Commands : cmd # Create(id) /\ v[cmd.id] # None =>
              /\ Outcome(Put(v, id, row), k + 1, cmd) = Outcome(v, k + 1, cmd)
              /\ After(Put(v, id, row), Outcome(v, k + 1, cmd))
                   = Put(After(v, Outcome(v, k + 1, cmd)), id, row)
<1> DEFINE u == Put(v, id, row)
<1>1. \A i \in OrderId : u[i] = IF i = id THEN row ELSE v[i]
  BY DEF Put
<1> HIDE DEF u
<1>2. ~Resting(row) /\ (v[id] # None => ~Resting(v[id]))
  BY DEF Resting
<1>3. BookIn(u) = BookIn(v)
  <2>1. \A f : BookIn(f) = {x.order : x \in {y \in RowsIn(f) : Resting(y)}}
    BY DEF BookIn, BookOf, Resting
  <2>2. {y \in RowsIn(u) : Resting(y)} = {y \in RowsIn(v) : Resting(y)}
    BY <1>1, <1>2 DEF RowsIn
  <2> QED  BY <2>1, <2>2
<1>4. ASSUME NEW cmd \in Commands, cmd # Create(id), v[cmd.id] # None
      PROVE  /\ Outcome(u, k + 1, cmd) = Outcome(v, k + 1, cmd)
             /\ After(u, Outcome(v, k + 1, cmd)) = Put(After(v, Outcome(v, k + 1, cmd)), id, row)
  <2> DEFINE r == Outcome(v, k + 1, cmd)
             B == BookIn(v)
  <2>1. cmd.id \in OrderId /\ (cmd.kind = "create" => cmd.id # id)
    BY <1>4 DEF Commands, Create, CancelOf
  <2>2. Outcome(u, k + 1, cmd) = r
    BY <1>1, <1>3, <2>1 DEF Outcome
  <2>3. r.kind = cmd.kind /\ r.id = cmd.id
    BY DEF Outcome, CreateResult, CancelResult, Result
  <2>4. \A m \in B : m.id # id
    <3>1. \A m \in B : v[m.id] # None /\ Resting(v[m.id])
      BY BookRows
    <3> QED  BY <1>2, <3>1
  <2>5. \A s \in r.orders : s.orderId # id
    <3>1. CASE cmd.kind = "create"
      <4> DEFINE t == Incoming(v[cmd.id], k + 1)
      <4>1. r.orders = {TakerState(B, t)} \cup MakerStates(B, t)
        BY <3>1 DEF Outcome, CreateResult, Result
      <4>2. t.id = cmd.id
        <5>1. v[cmd.id] \in Row /\ v[cmd.id].order.id = cmd.id /\ k + 1 \in Nat
          BY <1>4, <2>1 DEF TableAt, RowAt
        <5> QED  BY <5>1, IncomingFields
      <4> HIDE DEF B, t
      <4>3. TakerState(B, t).orderId = t.id
        BY DEF TakerState, OrderState
      <4>4. \A s \in MakerStates(B, t) : \E m \in B : s.orderId = m.id
        BY DEF MakerStates, Makers, Matchable, Crossing, OrderState
      <4> QED  BY <2>1, <2>4, <3>1, <4>1, <4>2, <4>3, <4>4
    <3>2. CASE cmd.kind # "create"
      <4>1. r.orders = {OrderState(o.id, "cancelled", o.qty) : o \in {p \in B : p.id = cmd.id}}
        BY <3>2 DEF Outcome, CancelResult, Result
      <4> HIDE DEF B
      <4> QED  BY <2>4, <4>1 DEF OrderState
    <3> QED  BY <3>1, <3>2
  <2> HIDE DEF r
  <2>6. Updated(row, r) = row
    <3>1. Updated(row, r) = Accepted(row, r)
      BY <2>5, UpdatedBy
    <3> QED  BY <2>1, <2>3, <3>1 DEF Accepted
  <2>7. After(u, r) = Put(After(v, r), id, row)
    BY <1>1, <2>6 DEF After, Put
  <2> QED  BY <2>2, <2>7 DEF r
<1> QED  BY <1>3, <1>4 DEF u

LEMMA PutTable ==
  ASSUME NEW v, NEW k \in Nat, TableAt(v, k), NEW id \in OrderId, NEW row \in Row,
         row.order.id = id, row.order.seq = 0, row.order.qty = row.order.orig,
         row.status \in {"open", "rejected"}, \A c \in 1..k : orders[c] # Create(id)
  PROVE  TableAt(Put(v, id, row), k)
<1> DEFINE u == Put(v, id, row)
           ids == {i \in OrderId : v[i] # None}
<1>1. \A i \in OrderId : u[i] = IF i = id THEN row ELSE v[i]
  BY DEF Put
<1> HIDE DEF u
<1>2. RowAt(row, id, k)
  BY DEF RowAt
<1>3. {i \in OrderId : u[i] # None} = ids \cup {id}
  BY <1>1, NoRowAssumption
<1>4. IsFiniteSet(ids)
  BY DEF TableAt
<1>5. IsFiniteSet(ids \cup {id})
  <2> HIDE DEF ids
  <2> QED  BY <1>4, FS_AddElement
<1>6. TableAt(u, k)
  BY <1>1, <1>2, <1>3, <1>5 DEF TableAt
<1> QED  BY <1>6 DEF u

-----------------------------------------------------------------------------
(* The database lags behind the engine: V[k] is the table once k commands  *)
(* have taken effect, from the s settled to the a answered.                *)

IsTable(v) == v = [i \in OrderId |-> v[i]]

\* v differs from the database in what commands not yet settled have done.
Agree(v) ==
  \A i \in OrderId :
    /\ v[i] = None <=> rows[i] = None
    /\ rows[i] # None => /\ Same(v[i], rows[i])
                         /\ v[i].order.seq = 0 => v[i] = rows[i]

Tables(a, s, V) ==
  /\ s <= a
  /\ V[s] = rows
  /\ \A k \in s..a : IsTable(V[k]) /\ TableAt(V[k], k) /\ Agree(V[k])
  /\ \A k \in s..(a - 1) : V[k + 1] = After(V[k], Outcome(V[k], k + 1, orders[k + 1]))

\* The streams and the engine agree with those tables.
Answers(a, s, V) ==
  /\ {results[i].cmd : i \in DOMAIN results} = 1..a
  /\ (1..eRead) \ ePending = 1..a
  /\ processed = 1..s
  /\ \A i \in DOMAIN results, k \in s..(a - 1) :
       results[i].cmd = k + 1 => results[i] = Outcome(V[k], k + 1, orders[k + 1])
  /\ engine # "down" => book = BookIn(V[a])

\* Commands are of orders that have rows, and a create is enqueued once.
CommandsOK ==
  /\ \A c \in DOMAIN orders : rows[orders[c].id] # None
  /\ \A id \in OrderId :
       /\ \A c, d \in DOMAIN orders : orders[c] = Create(id) /\ orders[d] = Create(id) => c = d
       /\ placing[id] = "none" <=> rows[id] = None
       /\ placing[id] # "done" => \A c \in DOMAIN orders : orders[c] # Create(id)
       /\ rows[id] # None /\ rows[id].order.seq = 0 /\ rows[id].status = "rejected"
          => placing[id] = "done" /\ \A c \in DOMAIN orders : orders[c] # Create(id)

RunsInv == \E a, s \in Nat : \E V : Tables(a, s, V) /\ Answers(a, s, V)

ExchangeInv == CommandsOK /\ RunsInv

(* The next command is one that the table it meets allows.                 *)
LEMMA NextAllowed ==
  ASSUME ApiOK, CommandsOK, NEW a \in Nat, NEW s \in Nat, NEW V, Tables(a, s, V),
         a + 1 \in DOMAIN orders
  PROVE  LET cmd == orders[a + 1]
         IN  /\ cmd \in Commands /\ cmd.id \in OrderId
             /\ V[a][cmd.id] # None
             /\ Incoming(rows[cmd.id], a + 1) = Incoming(V[a][cmd.id], a + 1)
             /\ cmd.kind = "create" => /\ V[a][cmd.id].order.seq = 0
                                       /\ V[a][cmd.id].status = "open"
                                       /\ ~Holds(BookIn(V[a]), cmd.id)
<1> DEFINE cmd == orders[a + 1]
           id == cmd.id
           v == V[a]
<1>1. cmd \in Commands /\ id \in OrderId /\ (cmd.kind = "create" => cmd = Create(id))
  <2>1. cmd \in Commands
    BY DEF ApiOK
  <2> HIDE DEF cmd
  <2> QED  BY <2>1 DEF Commands, Create, CancelOf
<1>2. TableAt(v, a) /\ Agree(v) /\ TableAt(rows, s)
  BY DEF Tables
<1>3. rows[id] # None
  BY DEF CommandsOK
<1>4. Len(orders) \in Nat /\ DOMAIN orders = 1..Len(orders)
  BY DEF ApiOK
<1>5. \A i \in DOMAIN orders : orders[i] = Create(id) /\ cmd = Create(id) => i = a + 1
  BY <1>1 DEF CommandsOK
<1>6. cmd = Create(id) => ~(rows[id].order.seq = 0 /\ rows[id].status = "rejected")
  BY <1>1, <1>3 DEF CommandsOK
<1> HIDE DEF cmd, id, v
<1>7. v[id] # None /\ v[id] \in Row /\ rows[id] \in Row /\ Same(v[id], rows[id])
  BY <1>1, <1>2, <1>3 DEF Agree, TableAt, RowAt
<1>8. Incoming(rows[id], a + 1) = Incoming(v[id], a + 1)
  <2>1. a + 1 \in Nat
    OBVIOUS
  <2> QED  BY <1>7, <2>1, SameIncoming
<1>9. ASSUME cmd.kind = "create"
      PROVE  v[id].order.seq = 0 /\ v[id].status = "open" /\ ~Holds(BookIn(v), id)
  <2>1. RowAt(v[id], id, a) /\ v[id].order.seq \in Nat
    BY <1>1, <1>2, <1>7, RowFields DEF TableAt
  <2>2. v[id].order.seq = 0
    <3> SUFFICES ASSUME v[id].order.seq > 0 PROVE FALSE
      BY <2>1
    <3>1. v[id].order.seq <= a /\ orders[v[id].order.seq] = Create(id)
      BY <2>1 DEF RowAt
    <3>2. v[id].order.seq \in DOMAIN orders
      BY <1>4, <2>1, <3>1
    <3> QED  BY <1>1, <1>5, <1>9, <2>1, <3>1, <3>2
  <2>3. v[id].status \in {"open", "rejected"} /\ v[id] = rows[id]
    BY <1>1, <1>2, <1>3, <2>1, <2>2 DEF RowAt, Agree
  <2>4. ~Holds(BookIn(v), id)
    <3>1. \A m \in BookIn(v) : Resting(v[m.id])
      BY <1>2, BookRows
    <3> QED  BY <2>2, <3>1 DEF Holds, Resting
  <2> QED  BY <1>1, <1>6, <1>9, <2>2, <2>3, <2>4
<1> QED  BY <1>1, <1>7, <1>8, <1>9 DEF cmd, id, v

(* Tables that agree with the database go on to agree with it, as commands *)
(* take effect on them.                                                    *)
LEMMA MoreTables ==
  ASSUME NEW a \in Nat, NEW s \in Nat, NEW V, Tables(a, s, V), NEW x,
         x = After(V[a], Outcome(V[a], a + 1, orders[a + 1])), Carried(V[a], x, a)
  PROVE  Tables(a + 1, s, [k \in s..(a + 1) |-> IF k = a + 1 THEN x ELSE V[k]])
<1> DEFINE W == [k \in s..(a + 1) |-> IF k = a + 1 THEN x ELSE V[k]]
<1>1. \A k \in s..a : W[k] = V[k] /\ k # a + 1
  OBVIOUS
<1>2. s <= a /\ W[a + 1] = x
  BY DEF Tables
<1> HIDE DEF W
<1>3. IsTable(x) /\ TableAt(x, a + 1)
  BY DEF IsTable, After, Carried
<1>4. Agree(x)
  <2>1. Agree(V[a])
    BY DEF Tables
  <2> QED  BY <2>1 DEF Agree, Carried, Same
<1>5. ASSUME NEW k \in s..(a + 1) PROVE IsTable(W[k]) /\ TableAt(W[k], k) /\ Agree(W[k])
  <2>1. CASE k = a + 1
    BY <1>2, <1>3, <1>4, <2>1
  <2>2. CASE k # a + 1
    <3>1. k \in s..a
      BY <2>2
    <3> QED  BY <1>1, <3>1 DEF Tables
  <2> QED  BY <2>1, <2>2
<1>6. ASSUME NEW k \in s..((a + 1) - 1)
      PROVE  W[k + 1] = After(W[k], Outcome(W[k], k + 1, orders[k + 1]))
  <2>1. k \in s..a /\ W[k] = V[k]
    BY <1>1
  <2>2. CASE k = a
    BY <1>2, <2>1, <2>2
  <2>3. CASE k # a
    <3>1. k \in s..(a - 1) /\ k + 1 \in s..a
      BY <2>1, <2>3
    <3> QED  BY <1>1, <2>1, <3>1 DEF Tables
  <2> QED  BY <2>2, <2>3
<1>7. W[s] = rows
  BY <1>1, <1>2 DEF Tables
<1>8. s <= a + 1
  BY <1>2
<1>9. Tables(a + 1, s, W)
  BY <1>5, <1>6, <1>7, <1>8 DEF Tables
<1> QED  BY <1>9 DEF W

(* New commands at the end of the stream change nothing in the tables.     *)
LEMMA FrameTables ==
  ASSUME NEW a \in Nat, NEW s \in Nat, NEW V, Tables(a, s, V),
         UNCHANGED rows, \A c \in 1..a : orders'[c] = orders[c]
  PROVE  Tables(a, s, V)'
<1>1. ASSUME NEW k \in s..a PROVE (IsTable(V[k]) /\ TableAt(V[k], k) /\ Agree(V[k]))'
  <2>1. IsTable(V[k]) /\ TableAt(V[k], k) /\ Agree(V[k])
    BY DEF Tables
  <2>2. ASSUME NEW i \in OrderId, V[k][i] # None PROVE RowAt(V[k][i], i, k)'
    <3>1. RowAt(V[k][i], i, k) /\ V[k][i].order.seq \in Nat
      BY <2>1, <2>2, RowFields DEF TableAt, RowAt
    <3>2. 1..k \subseteq 1..a
      OBVIOUS
    <3>3. V[k][i].order.seq > 0 => V[k][i].order.seq \in 1..k
      BY <3>1 DEF RowAt
    <3> QED  BY <3>1, <3>2, <3>3 DEF RowAt
  <2> QED  BY <2>1, <2>2 DEF IsTable, TableAt, Agree
<1>2. ASSUME NEW k \in s..(a - 1)
      PROVE  V[k + 1] = After(V[k], Outcome(V[k], k + 1, orders'[k + 1]))
  <2>1. k + 1 \in 1..a
    OBVIOUS
  <2> QED  BY <2>1 DEF Tables
<1>3. s <= a /\ V[s] = rows'
  BY DEF Tables
<1> QED  BY <1>1, <1>2, <1>3 DEF Tables

(* The next command takes effect in the database.                          *)
LEMMA SettleTables ==
  ASSUME NEW a \in Nat, NEW s \in Nat, NEW V, Tables(a, s, V), s < a,
         rows' = V[s + 1], UNCHANGED orders
  PROVE  Tables(a, s + 1, V)'
<1>1. \A k \in s..a : IsTable(V[k]) /\ TableAt(V[k], k) /\ Agree(V[k])
  BY DEF Tables
<1>2. s + 1 \in s..a
  OBVIOUS
<1>3. ASSUME NEW k \in (s + 1)..a PROVE (IsTable(V[k]) /\ TableAt(V[k], k) /\ Agree(V[k]))'
  <2>1. k \in s..a
    OBVIOUS
  <2>2. (IsTable(V[k]) /\ TableAt(V[k], k))'
    BY <1>1, <2>1 DEF IsTable, TableAt, RowAt
  <2>3. ASSUME NEW i \in OrderId, V[k][i] # None
        PROVE  Same(V[k][i], V[s + 1][i]) /\ (V[k][i].order.seq = 0 => V[k][i] = V[s + 1][i])
    <3>1. rows[i] # None /\ V[s + 1][i] # None
      BY <1>1, <1>2, <2>1, <2>3 DEF Agree
    <3>2. Same(V[k][i], rows[i]) /\ Same(V[s + 1][i], rows[i])
      BY <1>1, <1>2, <2>1, <3>1 DEF Agree
    <3>3. V[k][i].order.seq = 0 => V[s + 1][i].order.seq = 0
      <4>1. /\ V[s + 1][i].order.seq \in Nat
            /\ V[s + 1][i].order.seq > 0 => /\ V[s + 1][i].order.seq <= s + 1
                                            /\ orders[V[s + 1][i].order.seq] = Create(i)
        BY <1>1, <1>2, <3>1, RowFields DEF TableAt, RowAt
      <4>2. V[k][i].order.seq = 0 => \A c \in 1..k : orders[c] # Create(i)
        BY <1>1, <2>1, <2>3 DEF TableAt, RowAt
      <4> QED  BY <4>1, <4>2
    <3>4. V[k][i].order.seq = 0 => V[k][i] = V[s + 1][i]
      BY <1>1, <1>2, <2>1, <3>1, <3>3 DEF Agree
    <3> QED  BY <3>2, <3>4 DEF Same
  <2>4. \A i \in OrderId : V[k][i] = None <=> V[s + 1][i] = None
    BY <1>1, <1>2, <2>1 DEF Agree
  <2> QED  BY <2>2, <2>3, <2>4 DEF Agree
<1>4. \A k \in (s + 1)..(a - 1) : V[k + 1] = After(V[k], Outcome(V[k], k + 1, orders'[k + 1]))
  BY DEF Tables
<1> QED  BY <1>3, <1>4 DEF Tables

(* An order is placed, or withdrawn before it was ever enqueued.           *)
LEMMA PutTables ==
  ASSUME ApiOK, CommandsOK, NEW a \in Nat, NEW s \in Nat, NEW V, Tables(a, s, V),
         a <= Len(orders), NEW id \in OrderId, NEW row \in Row,
         row.order.id = id, row.order.seq = 0, row.order.qty = row.order.orig,
         row.status \in {"open", "rejected"},
         \A c \in DOMAIN orders : orders[c] # Create(id),
         rows' = Put(rows, id, row), UNCHANGED orders
  PROVE  \E W : /\ Tables(a, s, W)'
                /\ \A k \in s..a : BookIn(W[k]) = BookIn(V[k])
                /\ \A k \in s..(a - 1) : Outcome(W[k], k + 1, orders[k + 1])
                                           = Outcome(V[k], k + 1, orders[k + 1])
<1> DEFINE W == [k \in s..a |-> Put(V[k], id, row)]
<1>1. DOMAIN orders = 1..Len(orders) /\ Len(orders) \in Nat
  BY DEF ApiOK
<1>2. row # None
  BY NoRowAssumption
<1>3. ASSUME NEW k \in s..a
      PROVE  /\ IsTable(V[k]) /\ TableAt(V[k], k) /\ Agree(V[k])
             /\ V[k][id] # None => V[k][id].order.seq = 0
             /\ W[k] = Put(V[k], id, row)
             /\ \A c \in 1..k : orders[c] # Create(id)
  <2>1. IsTable(V[k]) /\ TableAt(V[k], k) /\ Agree(V[k])
    BY DEF Tables
  <2>2. V[k][id] # None => V[k][id].order.seq = 0
    <3> SUFFICES ASSUME V[k][id] # None PROVE V[k][id].order.seq = 0
      OBVIOUS
    <3>1. RowAt(V[k][id], id, k) /\ V[k][id].order.seq \in Nat
      BY <2>1, RowFields DEF TableAt, RowAt
    <3>2. V[k][id].order.seq > 0 => V[k][id].order.seq \in DOMAIN orders
      BY <1>1, <3>1 DEF RowAt
    <3> QED  BY <3>1, <3>2 DEF RowAt
  <2>3. \A c \in 1..k : c \in DOMAIN orders
    BY <1>1
  <2> QED  BY <2>1, <2>2, <2>3
<1>4. W[s] = rows'
  BY DEF Tables
<1> HIDE DEF W
<1>5. ASSUME NEW k \in s..a
      PROVE  /\ BookIn(W[k]) = BookIn(V[k])
             /\ (IsTable(W[k]) /\ TableAt(W[k], k) /\ Agree(W[k]))'
  <2>1. k \in Nat
    OBVIOUS
  <2>2. BookIn(W[k]) = BookIn(V[k])
    BY <1>2, <1>3, <2>1, OtherRow
  <2>3. TableAt(W[k], k)
    BY <1>3, <2>1, PutTable
  <2>4. TableAt(W[k], k)'
    BY <2>3 DEF TableAt, RowAt
  <2>5. \A i \in OrderId : /\ W[k][i] = IF i = id THEN row ELSE V[k][i]
                           /\ rows'[i] = IF i = id THEN row ELSE rows[i]
    BY <1>3 DEF Put
  <2>6. Agree(W[k])'
    BY <1>3, <2>5 DEF Agree, Same
  <2>7. IsTable(W[k])'
    BY <1>3 DEF IsTable, Put
  <2> QED  BY <2>2, <2>4, <2>6, <2>7
<1>6. ASSUME NEW k \in s..(a - 1)
      PROVE  /\ Outcome(W[k], k + 1, orders[k + 1]) = Outcome(V[k], k + 1, orders[k + 1])
             /\ W[k + 1] = After(W[k], Outcome(W[k], k + 1, orders[k + 1]))
  <2> DEFINE cmd == orders[k + 1]
  <2>1. k \in s..a /\ k + 1 \in s..a /\ k \in Nat /\ k + 1 \in DOMAIN orders
    BY <1>1
  <2>2. cmd \in Commands /\ cmd # Create(id)
    BY <2>1 DEF ApiOK
  <2>3. V[k][cmd.id] # None
    <3>1. cmd.id \in OrderId
      <4> HIDE DEF cmd
      <4> QED  BY <2>2 DEF Commands, Create, CancelOf
    <3> QED  BY <1>3, <2>1, <3>1 DEF CommandsOK, Agree
  <2> HIDE DEF cmd
  <2>4. /\ Outcome(W[k], k + 1, cmd) = Outcome(V[k], k + 1, cmd)
        /\ After(W[k], Outcome(V[k], k + 1, cmd)) =
             Put(After(V[k], Outcome(V[k], k + 1, cmd)), id, row)
    BY <1>2, <1>3, <2>1, <2>2, <2>3, OtherRow
  <2>5. V[k + 1] = After(V[k], Outcome(V[k], k + 1, cmd))
    BY DEF Tables, cmd
  <2>6. W[k + 1] = Put(V[k + 1], id, row)
    BY <1>3, <2>1
  <2> QED  BY <2>4, <2>5, <2>6 DEF cmd
<1>7. s <= a
  BY DEF Tables
<1>8. Tables(a, s, W)'
  BY <1>4, <1>5, <1>6, <1>7 DEF Tables
<1> QED  BY <1>5, <1>6, <1>8

\* No more is answered than was enqueued.
LEMMA AnsweredBound ==
  ASSUME PipeInv, NEW a \in Nat, NEW s, NEW V, Answers(a, s, V)
  PROVE  /\ Len(orders) \in Nat /\ DOMAIN orders = 1..Len(orders)
         /\ a <= Len(orders)
<1>1. /\ Len(orders) \in Nat /\ DOMAIN orders = 1..Len(orders)
      /\ \A i \in DOMAIN results : results[i].cmd \in DOMAIN orders
  BY DEF PipeInv, ControlOK, ApiOK, ResultsOK
<1>2. CASE a = 0
  BY <1>1, <1>2
<1>3. CASE a > 0
  <2>1. a \in {results[i].cmd : i \in DOMAIN results}
    BY <1>3 DEF Answers
  <2> QED  BY <1>1, <2>1
<1> QED  BY <1>1, <1>2, <1>3

(* Applying a result repeats nothing and skips nothing: either it was      *)
(* applied before, or it is that of the next command on the database.      *)
LEMMA Applied ==
  ASSUME PipeInv, NEW a \in Nat, NEW s \in Nat, NEW V, Tables(a, s, V), Answers(a, s, V),
         ApplyResult
  PROVE  \/ UNCHANGED dbVars
         \/ /\ s < a /\ processed' = 1..(s + 1)
            /\ rows' = V[s + 1]
            /\ fills' = fills \o Outcome(rows, s + 1, orders[s + 1]).trades
<1>1. PICK w \in Nat, n \in Nat :
         /\ GroupAt(w, wRead, wPending, worker, wInbox)
         /\ n \in {w, w + 1}
         /\ n <= Len(results)
         /\ processed = {results[i].cmd : i \in 1..n}
  BY DEF PipeInv, WorkerInv
<1>2. /\ wRead \in 0..Len(results) /\ wInbox \in Seq(wPending) /\ wPending \subseteq 1..wRead
      /\ Len(results) \in Nat /\ DOMAIN results = 1..Len(results)
  BY DEF PipeInv, ControlOK, WorkerOK, ResultsOK
<1>3. Head(wInbox) = w + 1 /\ w + 1 \in DOMAIN results
  <2>1. wInbox # <<>> /\ wRead \in Nat
    BY <1>2 DEF ApplyResult
  <2>2. Head(wInbox) = w + 1 /\ w + 1 \in wPending
    BY <1>1, <1>2, <2>1, Handled
  <2> QED  BY <1>2, <2>2
<1> DEFINE r == results[w + 1]
<1>4. CASE r.cmd \in processed
  BY <1>3, <1>4 DEF ApplyResult, AlreadyApplied
<1>5. CASE r.cmd \notin processed
  <2>1. /\ processed' = processed \cup {r.cmd}
        /\ fills' = fills \o r.trades
        /\ rows' = After(rows, r)
    BY <1>3, <1>5 DEF ApplyResult, AlreadyApplied, After
  <2>2. n = w
    BY <1>1, <1>2, <1>3, <1>5
  <2>3. processed = 1..s /\ r.cmd \in 1..a /\ r.cmd > s
    BY <1>3, <1>5 DEF Answers
  <2>4. r.cmd = s + 1
    <3> SUFFICES ASSUME r.cmd # s + 1 PROVE FALSE
      OBVIOUS
    <3>1. s + 1 \in 1..a /\ s + 1 < r.cmd
      BY <2>3
    <3>2. PICK j \in DOMAIN results : results[j].cmd = s + 1
      BY <3>1 DEF Answers
    <3>3. ~(w + 1 < j) /\ j # w + 1
      BY <1>3, <2>3, <3>1, <3>2 DEF PipeInv, PublishedInOrder
    <3>4. j \in 1..n
      BY <1>2, <2>2, <3>3
    <3>5. s + 1 \in processed
      BY <1>1, <3>2, <3>4
    <3> QED  BY <2>3, <3>5
  <2>5. s < a /\ processed' = 1..(s + 1)
    BY <2>1, <2>3, <2>4
  <2>6. s \in s..(a - 1)
    BY <2>5
  <2>7. r = Outcome(rows, s + 1, orders[s + 1])
    BY <1>3, <2>4, <2>6 DEF Answers, Tables
  <2>8. V[s + 1] = After(rows, Outcome(rows, s + 1, orders[s + 1]))
    BY <2>6 DEF Tables
  <2> HIDE DEF r
  <2> QED  BY <2>1, <2>5, <2>7, <2>8
<1> QED  BY <1>4, <1>5

LEMMA ApplyExchange ==
  ASSUME PipeInv, ExchangeInv, ApplyResult
  PROVE  ExchangeInv'
<1>1. PICK a \in Nat, s \in Nat : \E V : Tables(a, s, V) /\ Answers(a, s, V)
  BY DEF ExchangeInv, RunsInv
<1>2. PICK V : Tables(a, s, V) /\ Answers(a, s, V)
  BY <1>1
<1>3. UNCHANGED <<orders, results, eRead, ePending, engine, book, placing>>
  BY DEF ApplyResult, apiVars, engineVars
<1>4. CASE UNCHANGED dbVars
  <2>1. UNCHANGED <<rows, processed>>
    BY <1>4 DEF dbVars
  <2>2. Tables(a, s, V)'
    BY <1>2, <1>3, <2>1, FrameTables
  <2>3. Answers(a, s, V)'
    BY <1>2, <1>3, <2>1 DEF Answers
  <2>4. CommandsOK'
    BY <1>3, <2>1 DEF ExchangeInv, CommandsOK
  <2> QED  BY <2>2, <2>3, <2>4 DEF ExchangeInv, RunsInv
<1>5. CASE s < a /\ processed' = 1..(s + 1) /\ rows' = V[s + 1]
  <2>1. Tables(a, s + 1, V)'
    BY <1>2, <1>3, <1>5, SettleTables
  <2>2. Answers(a, s + 1, V)'
    <3>1. /\ {results[i].cmd : i \in DOMAIN results} = 1..a
          /\ (1..eRead) \ ePending = 1..a
          /\ engine # "down" => book = BookIn(V[a])
      BY <1>2 DEF Answers
    <3>2. \A i \in DOMAIN results, k \in (s + 1)..(a - 1) :
            results[i].cmd = k + 1 => results[i] = Outcome(V[k], k + 1, orders[k + 1])
      BY <1>2 DEF Answers
    <3> QED  BY <1>3, <1>5, <3>1, <3>2 DEF Answers
  <2>3. s + 1 \in s..a
    BY <1>5
  <2>4. Agree(V[s + 1])
    BY <1>2, <2>3 DEF Tables
  <2>5. \A c \in DOMAIN orders : orders[c].id \in OrderId
    <3> SUFFICES ASSUME NEW cmd \in Commands PROVE cmd.id \in OrderId
      BY DEF PipeInv, ControlOK, ApiOK
    <3> QED  BY DEF Commands, Create, CancelOf
  <2>6. CommandsOK'
    BY <1>3, <1>5, <2>4, <2>5 DEF ExchangeInv, CommandsOK, Agree
  <2>7. s + 1 \in Nat
    OBVIOUS
  <2> QED  BY <2>1, <2>2, <2>6, <2>7 DEF ExchangeInv, RunsInv
<1> QED  BY <1>2, <1>4, <1>5, Applied

(* Once the worker has caught up, everything answered is settled.          *)
LEMMA DrainedSettled ==
  ASSUME PipeInv, NEW a \in Nat, NEW s \in Nat, NEW V, Tables(a, s, V), Answers(a, s, V), Drained
  PROVE  s = a
<1>1. PICK w \in Nat, n \in Nat :
         /\ GroupAt(w, wRead, wPending, worker, wInbox)
         /\ n \in {w, w + 1}
         /\ n <= Len(results)
         /\ processed = {results[i].cmd : i \in 1..n}
  BY DEF PipeInv, WorkerInv
<1>2. Len(results) \in Nat /\ DOMAIN results = 1..Len(results)
  BY DEF PipeInv, ControlOK, ResultsOK
<1>3. w = Len(results) /\ n = w
  <2> DEFINE len == Len(results)
  <2>1. wRead = len /\ (w + 1)..len = {} /\ w <= len
    BY <1>1 DEF Drained, GroupAt
  <2>2. len \in Nat /\ n <= len /\ (n = w \/ n = w + 1)
    BY <1>1, <1>2
  <2> HIDE DEF len
  <2>3. ~(w < len)
    BY <2>1, <2>2
  <2>4. w = len /\ n = w
    BY <2>1, <2>2, <2>3
  <2> QED  BY <2>4 DEF len
<1>4. 1..s = 1..a
  BY <1>1, <1>2, <1>3 DEF Answers
<1>5. s <= a
  BY DEF Tables
<1> QED  BY <1>4, <1>5

LEMMA EngineExchange ==
  ASSUME PipeInv, ExchangeInv, EngineStart \/ EngineReadPending \/ EngineReadNew \/ EngineStops
  PROVE  ExchangeInv'
<1>1. PICK a \in Nat, s \in Nat : \E V : Tables(a, s, V) /\ Answers(a, s, V)
  BY DEF ExchangeInv, RunsInv
<1>2. PICK V : Tables(a, s, V) /\ Answers(a, s, V)
  BY <1>1
<1>3. UNCHANGED <<rows, processed, orders, results, placing>>
  BY DEF EngineStart, EngineReadPending, EngineReadNew, EngineStops, dbVars, apiVars
<1>4. Tables(a, s, V)'
  BY <1>2, <1>3, FrameTables
<1>5. (1..eRead') \ ePending' = (1..eRead) \ ePending
  <2>1. CASE UNCHANGED <<eRead, ePending>>
    BY <2>1
  <2>2. CASE EngineReadNew
    <3>1. /\ eRead \in Nat /\ Len(orders) \in Nat /\ eRead < Len(orders)
          /\ ePending \subseteq 1..eRead
          /\ eRead' = LastNew(eRead, Len(orders))
          /\ ePending' = ePending \cup (eRead + 1)..eRead'
      BY <2>2 DEF EngineReadNew, PipeInv, ControlOK, ApiOK, EngineOK
    <3>2. eRead' \in Nat /\ eRead < eRead'
      BY <3>1, PipelineAssumption DEF LastNew
    <3>3. 1..eRead' = (1..eRead) \cup (eRead + 1)..eRead'
      BY <3>1, <3>2
    <3>4. \A i \in 1..eRead : i \notin (eRead + 1)..eRead'
      BY <3>1, <3>2
    <3> QED  BY <3>1, <3>3, <3>4
  <2> QED  BY <2>1, <2>2 DEF EngineStart, EngineReadPending, EngineStops
<1>6. engine' # "down" => book' = BookIn(V[a])
  <2>1. CASE EngineStart
    <3>1. book' = BookIn(rows)
      BY <2>1 DEF EngineStart, BookIn, RowsIn, Rows
    <3>2. s = a
      BY <1>2, <2>1, DrainedSettled DEF EngineStart, MayRebuild
    <3> QED  BY <1>2, <3>1, <3>2 DEF Tables
  <2>2. CASE EngineReadPending \/ EngineReadNew
    BY <1>2, <2>2 DEF EngineReadPending, EngineReadNew, Answers
  <2>3. CASE EngineStops
    BY <2>3 DEF EngineStops, EngineDown
  <2> QED  BY <2>1, <2>2, <2>3
<1>7. Answers(a, s, V)'
  BY <1>2, <1>3, <1>5, <1>6 DEF Answers
<1>8. CommandsOK'
  BY <1>3 DEF ExchangeInv, CommandsOK
<1> QED  BY <1>4, <1>7, <1>8 DEF ExchangeInv, RunsInv

(* The result published is that of the next command against the tables.    *)
LEMMA PublishExchange ==
  ASSUME PipeInv, ExchangeInv, NEW copies \in Nat \ {0}, eInbox # <<>>, engine # "down",
         Publish(Head(eInbox), copies),
         UNCHANGED <<rows, processed, orders, placing, eRead>>,
         engine' # "down" => book' = BookAfter(Head(eInbox))
  PROVE  ExchangeInv'
<1>1. PICK a \in Nat, s \in Nat : \E V : Tables(a, s, V) /\ Answers(a, s, V)
  BY DEF ExchangeInv, RunsInv
<1>2. PICK V : Tables(a, s, V) /\ Answers(a, s, V)
  BY <1>1
<1>3. /\ ApiOK /\ CommandsOK /\ eRead \in Nat /\ eInbox \in Seq(ePending)
      /\ eRead <= Len(orders) /\ Len(orders) \in Nat /\ DOMAIN orders = 1..Len(orders)
      /\ results \in Seq(Range(results))
      /\ Len(results) \in Nat /\ DOMAIN results = 1..Len(results)
  BY DEF PipeInv, ControlOK, EngineOK, ApiOK, ResultsOK, ExchangeInv
<1>4. PICK g \in Nat : GroupAt(g, eRead, ePending, engine, eInbox)
  BY DEF PipeInv, EngineInv
<1>5. g = a
  <2>1. g <= eRead /\ ePending = (g + 1)..eRead
    BY <1>4 DEF GroupAt
  <2>2. (1..eRead) \ ePending = 1..g
    BY <1>3, <2>1
  <2>3. 1..g = 1..a
    BY <1>2, <2>2 DEF Answers
  <2>4. ~(g < a) /\ ~(a < g)
    BY <2>3
  <2> QED  BY <2>4
<1>6. Head(eInbox) = a + 1 /\ a + 1 \in ePending /\ a + 1 \in 1..eRead
  <2>1. Head(eInbox) = a + 1 /\ a + 1 \in ePending
    BY <1>3, <1>4, <1>5, Handled
  <2> QED  BY <2>1 DEF PipeInv, ControlOK, EngineOK
<1> DEFINE cmd == orders[a + 1]
           v == V[a]
<1>7. a + 1 \in DOMAIN orders
  BY <1>3, <1>6
<1>8. /\ cmd \in Commands /\ cmd.id \in OrderId
      /\ v[cmd.id] # None
      /\ Incoming(rows[cmd.id], a + 1) = Incoming(v[cmd.id], a + 1)
      /\ cmd.kind = "create" => /\ v[cmd.id].order.seq = 0
                                /\ v[cmd.id].status = "open"
                                /\ ~Holds(BookIn(v), cmd.id)
  BY <1>2, <1>3, <1>7, NextAllowed
<1>9. book = BookIn(v)
  BY <1>2 DEF Answers
<1>10. ~Ignored(cmd)
  BY <1>8, <1>9 DEF Ignored
<1> DEFINE r == Outcome(v, a + 1, cmd)
<1>11. ResultFor(a + 1) = r
  BY <1>8, <1>9 DEF ResultFor, Outcome
<1>12. PICK x : x = After(v, r)
  OBVIOUS
<1>13. /\ r.cmd = a + 1
       /\ Carried(v, x, a)
       /\ BookIn(x) = BookBy(v, a + 1, cmd)
  <2>1. TableAt(v, a)
    BY <1>2 DEF Tables
  <2> HIDE DEF v, cmd
  <2>2. orders[a + 1] = cmd
    BY DEF cmd
  <2>3. cmd.kind = "create" => v[cmd.id].order.seq = 0 /\ v[cmd.id].status = "open"
    BY <1>8
  <2>4. v[cmd.id] # None /\ cmd \in Commands
    BY <1>8
  <2>5. /\ Outcome(v, a + 1, cmd).cmd = a + 1
        /\ Carried(v, After(v, Outcome(v, a + 1, cmd)), a)
        /\ BookIn(After(v, Outcome(v, a + 1, cmd))) = BookBy(v, a + 1, cmd)
    BY <2>1, <2>2, <2>3, <2>4, CommandStep
  <2> QED  BY <1>12, <2>5
<1>14. engine' # "down" => book' = BookIn(x)
  <2>1. cmd.kind = "create" \/ cmd.kind = "cancel"
    <3> HIDE DEF cmd
    <3> QED  BY <1>8 DEF Commands, Create, CancelOf
  <2>2. BookAfter(a + 1) = CASE Ignored(cmd) -> book
                             [] cmd.kind = "create" /\ ~Ignored(cmd) ->
                                  AfterSubmit(book, Incoming(rows[cmd.id], a + 1))
                             [] cmd.kind = "cancel" -> {o \in book : o.id # cmd.id}
    BY DEF BookAfter
  <2> HIDE DEF cmd, v
  <2>3. CASE cmd.kind = "create"
    <3>1. cmd.kind # "cancel"
      BY <2>3
    <3>2. BookAfter(a + 1) = AfterSubmit(book, Incoming(rows[cmd.id], a + 1))
      BY <1>10, <2>2, <2>3, <3>1, Zenon
    <3> QED  BY <1>6, <1>8, <1>9, <1>13, <2>3, <3>2 DEF BookBy
  <2>4. CASE cmd.kind = "cancel"
    <3>1. cmd.kind # "create"
      BY <2>4
    <3>2. BookAfter(a + 1) = {o \in book : o.id # cmd.id}
      BY <1>10, <2>2, <2>4, <3>1, Zenon
    <3> QED  BY <1>6, <1>9, <1>13, <3>1, <3>2 DEF BookBy
  <2> QED  BY <2>1, <2>3, <2>4
<1>15. PICK W : /\ W = [k \in s..(a + 1) |-> IF k = a + 1 THEN x ELSE V[k]]
                /\ Tables(a + 1, s, W)
  <2>1. x = After(V[a], Outcome(V[a], a + 1, orders[a + 1])) /\ Carried(V[a], x, a)
    BY <1>12, <1>13
  <2>2. Tables(a + 1, s, [k \in s..(a + 1) |-> IF k = a + 1 THEN x ELSE V[k]])
    BY <1>2, <2>1, MoreTables
  <2> QED  BY <2>2
<1>16. s <= a /\ W[a + 1] = x /\ \A k \in s..a : W[k] = V[k]
  <2>1. s <= a
    BY <1>2 DEF Tables
  <2> QED  BY <1>15, <2>1
<1> HIDE DEF r, v, cmd
<1>17. Tables(a + 1, s, W)'
  <2>1. a + 1 \in Nat
    OBVIOUS
  <2> QED  BY <1>15, <2>1, FrameTables
<1>18. /\ Len(results') = Len(results) + copies
       /\ DOMAIN results' = 1..(Len(results) + copies)
       /\ \A i \in 1..Len(results) : results'[i] = results[i]
       /\ \A i \in (Len(results) + 1)..(Len(results) + copies) : results'[i] = r
  <2>1. results' = results \o Copies(copies, r)
    BY <1>6, <1>10, <1>11 DEF Publish, cmd
  <2>2. \A t : t = results \o Copies(copies, r) =>
              /\ t \in Seq(Range(t))
              /\ Len(t) = Len(results) + copies
              /\ \A i \in 1..Len(results) : t[i] = results[i]
              /\ \A i \in (Len(results) + 1)..(Len(results) + copies) : t[i] = r
    BY <1>3, AppendCopies
  <2>3. /\ results' \in Seq(Range(results'))
        /\ Len(results') = Len(results) + copies
        /\ \A i \in 1..Len(results) : results'[i] = results[i]
        /\ \A i \in (Len(results) + 1)..(Len(results) + copies) : results'[i] = r
    BY <2>1, <2>2, Zenon
  <2>4. DOMAIN results' = 1..Len(results')
    BY <2>3
  <2> QED  BY <2>3, <2>4, Zenon
<1>19. \A i \in DOMAIN results' : \/ i \in DOMAIN results /\ results'[i] = results[i]
                                  \/ results'[i] = r
  BY <1>3, <1>18
<1>20. {results'[i].cmd : i \in DOMAIN results'} = 1..(a + 1)
  <2>1. {results[i].cmd : i \in DOMAIN results} = 1..a
    BY <1>2 DEF Answers
  <2>2. Len(results) + 1 \in DOMAIN results' /\ results'[Len(results) + 1] = r
    BY <1>3, <1>18
  <2>3. \A i \in DOMAIN results : i \in DOMAIN results' /\ results'[i] = results[i]
    BY <1>3, <1>18
  <2>4. {results'[i].cmd : i \in DOMAIN results'} = (1..a) \cup {a + 1}
    BY <1>13, <1>19, <2>1, <2>2, <2>3
  <2>5. 1..(a + 1) = (1..a) \cup {a + 1}
    OBVIOUS
  <2> QED  BY <2>4, <2>5
<1>21. ASSUME NEW i \in DOMAIN results', NEW k \in s..((a + 1) - 1), results'[i].cmd = k + 1
       PROVE  results'[i] = Outcome(W[k], k + 1, orders[k + 1])
  <2>1. CASE k = a
    <3>1. results'[i] = r
      <4> SUFFICES ASSUME i \in DOMAIN results, results'[i] = results[i] PROVE FALSE
        BY <1>19
      <4>1. results[i].cmd \in 1..a
        BY <1>2 DEF Answers
      <4> QED  BY <1>21, <2>1, <4>1
    <3>2. W[k] = v
      BY <1>16, <2>1 DEF v
    <3> QED  BY <2>1, <3>1, <3>2 DEF r, cmd
  <2>2. CASE k # a
    <3>1. k \in s..(a - 1) /\ W[k] = V[k]
      BY <1>16, <2>2
    <3>2. i \in DOMAIN results /\ results'[i] = results[i]
      BY <1>13, <1>19, <1>21, <2>2
    <3> QED  BY <1>2, <1>21, <3>1, <3>2 DEF Answers
  <2> QED  BY <2>1, <2>2
<1>22. (1..eRead') \ ePending' = 1..(a + 1)
  <2>1. ePending' = ePending \ {a + 1} /\ eRead' = eRead
    BY <1>6 DEF Publish
  <2>2. (1..eRead) \ ePending = 1..a
    BY <1>2 DEF Answers
  <2>3. (1..eRead) \ ePending' = (1..a) \cup {a + 1}
    BY <1>6, <2>1, <2>2
  <2>4. 1..(a + 1) = (1..a) \cup {a + 1}
    OBVIOUS
  <2> QED  BY <2>1, <2>3, <2>4
<1>23. Answers(a + 1, s, W)'
  <2>1. processed' = 1..s
    BY <1>2 DEF Answers
  <2>2. engine' # "down" => book' = BookIn(W[a + 1])
    BY <1>14, <1>16
  <2> QED  BY <1>20, <1>21, <1>22, <2>1, <2>2 DEF Answers
<1>24. CommandsOK'
  BY <1>3 DEF CommandsOK
<1>25. a + 1 \in Nat
  OBVIOUS
<1> QED  BY <1>17, <1>23, <1>24, <1>25 DEF ExchangeInv, RunsInv

(* Placing or withdrawing an order leaves every result and the book as     *)
(* they are.                                                               *)
LEMMA PutExchange ==
  ASSUME PipeInv, ExchangeInv, NEW id \in OrderId, NEW row \in Row,
         row.order.id = id, row.order.seq = 0, row.order.qty = row.order.orig,
         row.status \in {"open", "rejected"},
         placing[id] # "done",
         rows' = Put(rows, id, row), UNCHANGED <<processed, orders, results, engineVars>>
  PROVE  RunsInv'
<1>1. PICK a \in Nat, s \in Nat : \E V : Tables(a, s, V) /\ Answers(a, s, V)
  BY DEF ExchangeInv, RunsInv
<1>2. PICK V : Tables(a, s, V) /\ Answers(a, s, V)
  BY <1>1
<1>3. a <= Len(orders) /\ \A c \in DOMAIN orders : orders[c] # Create(id)
  BY <1>2, AnsweredBound DEF ExchangeInv, CommandsOK
<1>4. PICK W : /\ Tables(a, s, W)'
               /\ \A k \in s..a : BookIn(W[k]) = BookIn(V[k])
               /\ \A k \in s..(a - 1) : Outcome(W[k], k + 1, orders[k + 1])
                                          = Outcome(V[k], k + 1, orders[k + 1])
  <2>1. ApiOK /\ CommandsOK /\ UNCHANGED orders
    BY DEF PipeInv, ControlOK, ExchangeInv
  <2> QED  BY <1>2, <1>3, <2>1, PutTables
<1>5. Answers(a, s, W)'
  <2>1. a \in s..a
    BY <1>2 DEF Tables
  <2>2. UNCHANGED <<eRead, ePending, engine, book>>
    BY DEF engineVars
  <2> QED  BY <1>2, <1>4, <2>1, <2>2 DEF Answers
<1> QED  BY <1>4, <1>5 DEF RunsInv

(* Commands added to the stream wait for their turn.                       *)
LEMMA OrdersExchange ==
  ASSUME PipeInv, ExchangeInv, \A c \in DOMAIN orders : orders'[c] = orders[c],
         UNCHANGED <<rows, processed, results, engineVars>>
  PROVE  RunsInv'
<1>1. PICK a \in Nat, s \in Nat : \E V : Tables(a, s, V) /\ Answers(a, s, V)
  BY DEF ExchangeInv, RunsInv
<1>2. PICK V : Tables(a, s, V) /\ Answers(a, s, V)
  BY <1>1
<1>3. \A c \in 1..a : orders'[c] = orders[c]
  BY <1>2, AnsweredBound
<1>4. Tables(a, s, V)'
  BY <1>2, <1>3, FrameTables
<1>5. \A k \in s..(a - 1) : k + 1 \in 1..a
  OBVIOUS
<1>6. Answers(a, s, V)'
  BY <1>2, <1>3, <1>5 DEF Answers, engineVars
<1> QED  BY <1>4, <1>6 DEF RunsInv

LEMMA PlaceExchange ==
  ASSUME PipeInv, TableInv, ExchangeInv, NEW id \in OrderId, NEW req \in Requests[id],
         Place(id, req)
  PROVE  ExchangeInv'
<1> DEFINE row == NewRow(id, req)
<1>1. /\ row \in Row /\ row.order.id = id /\ row.order.seq = 0 /\ row.order.qty = row.order.orig
      /\ row.status = "open"
  BY PipelineAssumption DEF NewRow, Row, Request, Statuses, Terminal
<1>2. /\ placing[id] = "none" /\ rows' = [rows EXCEPT ![id] = row]
      /\ placing' = [placing EXCEPT ![id] = "written"]
      /\ UNCHANGED <<processed, orders, results, engineVars>>
  BY DEF Place
<1> HIDE DEF row
<1>3. rows' = Put(rows, id, row) /\ \A i \in OrderId : rows'[i] = IF i = id THEN row ELSE rows[i]
  BY <1>2 DEF TableInv, Put
<1>4. RunsInv'
  BY <1>1, <1>2, <1>3, PutExchange
<1>5. row # None
  BY <1>1, NoRowAssumption
<1>6. \A c \in DOMAIN orders : orders[c].id \in OrderId
  <2> SUFFICES ASSUME NEW cmd \in Commands PROVE cmd.id \in OrderId
    BY DEF PipeInv, ControlOK, ApiOK
  <2> QED  BY DEF Commands, Create, CancelOf
<1>7. \A i \in OrderId : placing'[i] = IF i = id THEN "written" ELSE placing[i]
  BY <1>2 DEF TableInv
<1>8. CommandsOK'
  BY <1>1, <1>2, <1>3, <1>5, <1>6, <1>7 DEF ExchangeInv, CommandsOK
<1> QED  BY <1>4, <1>8 DEF ExchangeInv

LEMMA RollbackExchange ==
  ASSUME PipeInv, TableInv, ExchangeInv, NEW id \in OrderId, Rollback(id)
  PROVE  ExchangeInv'
<1>1. /\ placing[id] = "failed" /\ placing' = [placing EXCEPT ![id] = "done"]
      /\ UNCHANGED <<processed, orders, results, engineVars>>
  BY DEF Rollback
<1>2. \A i \in OrderId : placing'[i] = IF i = id THEN "done" ELSE placing[i]
  BY <1>1 DEF TableInv
<1>3. \A c \in DOMAIN orders : orders[c] # Create(id)
  BY <1>1 DEF ExchangeInv, CommandsOK
<1>4. rows[id] # None
  BY <1>1 DEF ExchangeInv, CommandsOK
<1>5. CASE rows' = rows
  <2>1. RunsInv'
    BY <1>1, <1>5, OrdersExchange
  <2>2. CommandsOK'
    BY <1>1, <1>2, <1>3, <1>4, <1>5 DEF ExchangeInv, CommandsOK
  <2> QED  BY <2>1, <2>2 DEF ExchangeInv
<1>6. CASE /\ rows[id].status = "open" /\ rows[id].order.seq = 0
           /\ rows' = [rows EXCEPT ![id].status = "rejected"]
  <2>1. PICK row : row = [rows[id] EXCEPT !.status = "rejected"]
    OBVIOUS
  <2>2. \E k \in Nat : RowAt(rows[id], id, k)
    <3>1. PICK a \in Nat, s \in Nat : \E V : Tables(a, s, V)
      BY DEF ExchangeInv, RunsInv
    <3>2. TableAt(rows, s)
      BY <3>1 DEF Tables
    <3> QED  BY <1>4, <3>2 DEF TableAt
  <2>3. /\ rows[id] \in Row /\ rows[id].order.id = id
        /\ rows[id].order.qty = rows[id].order.orig
    BY <1>6, <2>2 DEF RowAt
  <2>4. row \in Row /\ row.order = rows[id].order /\ row.status = "rejected"
    BY <2>1, <2>3 DEF Row, Statuses, Terminal
  <2>5. rows' = Put(rows, id, row) /\ \A i \in OrderId : rows'[i] = IF i = id THEN row ELSE rows[i]
    BY <1>6, <2>1 DEF TableInv, Put
  <2>6. RunsInv'
    BY <1>1, <1>6, <2>3, <2>4, <2>5, PutExchange
  <2>7. row # None
    BY <2>4, NoRowAssumption
  <2>8. \A c \in DOMAIN orders : orders[c].id \in OrderId
    <3> SUFFICES ASSUME NEW cmd \in Commands PROVE cmd.id \in OrderId
      BY DEF PipeInv, ControlOK, ApiOK
    <3> QED  BY DEF Commands, Create, CancelOf
  <2>9. CommandsOK'
    BY <1>1, <1>2, <1>3, <2>5, <2>7, <2>8 DEF ExchangeInv, CommandsOK
  <2> QED  BY <2>6, <2>9 DEF ExchangeInv
<1> QED  BY <1>5, <1>6 DEF Rollback

LEMMA CommandExchange ==
  ASSUME PipeInv, TableInv, ExchangeInv, NEW id \in OrderId,
         Enqueue(id) \/ EnqueueFails(id) \/ RequestCancel(id) \/ ApiCrash
  PROVE  ExchangeInv'
<1>1. UNCHANGED <<rows, processed, results, engineVars>>
  BY DEF Enqueue, EnqueueFails, RequestCancel, ApiCrash, dbVars
<1>2. Len(orders) \in Nat /\ DOMAIN orders = 1..Len(orders) /\ orders \in Seq(Commands)
  BY DEF PipeInv, ControlOK, ApiOK
<1>3. CommandsOK
  BY DEF ExchangeInv
<1>4. CASE UNCHANGED orders /\ (EnqueueFails(id) \/ ApiCrash)
  <2>1. RunsInv'
    BY <1>1, <1>4, OrdersExchange
  <2>2. /\ \A i \in OrderId : placing'[i] = "none" <=> placing[i] = "none"
        /\ \A i \in OrderId : placing'[i] # "done" => placing[i] # "done"
        /\ \A i \in OrderId : placing[i] = "done" => placing'[i] = "done"
    BY <1>4 DEF EnqueueFails, ApiCrash, TableInv
  <2>3. CommandsOK'
    BY <1>1, <1>3, <1>4, <2>2 DEF CommandsOK
  <2> QED  BY <2>1, <2>3 DEF ExchangeInv
<1>5. CASE Enqueue(id) \/ RequestCancel(id)
  <2>1. PICK cmd \in Commands : /\ orders' = Append(orders, cmd)
                                /\ \/ cmd = Create(id) /\ Enqueue(id)
                                   \/ cmd = CancelOf(id) /\ RequestCancel(id)
    BY <1>5 DEF Enqueue, RequestCancel, Commands
  <2>2. /\ DOMAIN orders' = 1..(Len(orders) + 1)
        /\ \A c \in DOMAIN orders : orders'[c] = orders[c]
        /\ orders'[Len(orders) + 1] = cmd
    BY <1>2, <2>1
  <2>3. RunsInv'
    BY <1>1, <2>2, OrdersExchange
  <2>4. cmd.id = id /\ rows[id] # None
    BY <1>3, <2>1 DEF Create, CancelOf, Enqueue, RequestCancel, Cancellable, CommandsOK
  <2>5. \A c \in DOMAIN orders' : c \in DOMAIN orders \/ (c = Len(orders) + 1 /\ orders'[c] = cmd)
    BY <1>2, <2>2
  <2>6. \A i \in OrderId : Create(i) = cmd => cmd = Create(id) /\ i = id
    BY <2>1 DEF Create, CancelOf
  <2>7. \A i \in OrderId : /\ placing'[i] = "none" <=> placing[i] = "none"
                           /\ placing'[i] # "done" => placing'[i] = placing[i]
                           /\ placing[i] = "done" => placing'[i] = "done"
                           /\ cmd = Create(id) => placing[id] # "done" /\ placing'[id] = "done"
    BY <2>1 DEF Enqueue, RequestCancel, apiVars, TableInv, Create, CancelOf
  <2>8. \A c \in DOMAIN orders' : rows[orders'[c].id] # None
    BY <1>3, <2>2, <2>4, <2>5 DEF CommandsOK
  <2>9. ASSUME NEW i \in OrderId, NEW c \in DOMAIN orders', NEW d \in DOMAIN orders',
               orders'[c] = Create(i), orders'[d] = Create(i)
        PROVE  c = d
    BY <1>3, <2>2, <2>5, <2>6, <2>7, <2>9 DEF CommandsOK
  <2>10. ASSUME NEW i \in OrderId, \A c \in DOMAIN orders : orders[c] # Create(i),
                i # id \/ cmd # Create(id)
         PROVE  \A c \in DOMAIN orders' : orders'[c] # Create(i)
    BY <2>2, <2>5, <2>6, <2>10
  <2>11. ASSUME NEW i \in OrderId, placing'[i] # "done"
         PROVE  \A c \in DOMAIN orders' : orders'[c] # Create(i)
    BY <1>3, <2>7, <2>10, <2>11 DEF CommandsOK
  <2>12. ASSUME NEW i \in OrderId, rows[i] # None, rows[i].order.seq = 0,
                rows[i].status = "rejected"
         PROVE  placing'[i] = "done" /\ \A c \in DOMAIN orders' : orders'[c] # Create(i)
    <3>1. placing[i] = "done" /\ \A c \in DOMAIN orders : orders[c] # Create(i)
      BY <1>3, <2>12 DEF CommandsOK
    <3> QED  BY <2>7, <2>10, <3>1
  <2>13. CommandsOK'
    BY <1>1, <1>3, <2>7, <2>8, <2>9, <2>11, <2>12 DEF CommandsOK
  <2> QED  BY <2>3, <2>13 DEF ExchangeInv
<1> QED  BY <1>4, <1>5 DEF EnqueueFails, ApiCrash

LEMMA InitExchange == Init => ExchangeInv
<1> SUFFICES ASSUME Init PROVE ExchangeInv
  OBVIOUS
<1> DEFINE V == [k \in {0} |-> rows]
<1>1. /\ orders = <<>> /\ results = <<>> /\ processed = {} /\ engine = "down"
      /\ eRead = 0 /\ ePending = {}
      /\ \A id \in OrderId : rows[id] = None /\ placing[id] = "none"
      /\ rows = [id \in OrderId |-> rows[id]]
  BY DEF Init
<1>2. V[0] = rows
  OBVIOUS
<1> HIDE DEF V
<1>3. TableAt(rows, 0)
  <2>1. {id \in OrderId : rows[id] # None} = {}
    BY <1>1
  <2> QED  BY <1>1, <2>1, FS_EmptySet DEF TableAt
<1>4. Tables(0, 0, V)
  <2>1. IsTable(rows) /\ Agree(rows)
    BY <1>1 DEF IsTable, Agree
  <2>2. \A k \in 0..0 : V[k] = rows /\ k = 0
    BY <1>2
  <2>3. 0..(0 - 1) = {}
    OBVIOUS
  <2> QED  BY <1>2, <1>3, <2>1, <2>2, <2>3 DEF Tables
<1>5. Answers(0, 0, V)
  <2>1. 1..0 = {} /\ DOMAIN results = {}
    BY <1>1
  <2>2. {results[i].cmd : i \in DOMAIN results} = {} /\ (1..eRead) \ ePending = {}
    BY <1>1, <2>1
  <2> QED  BY <1>1, <2>1, <2>2 DEF Answers
<1>6. CommandsOK
  BY <1>1 DEF CommandsOK
<1> QED  BY <1>4, <1>5, <1>6 DEF ExchangeInv, RunsInv

(* Every step of the processes keeps the database and the engine agreeing  *)
(* with the tables, as long as no command is sent twice.                   *)
LEMMA NextExchange ==
  ASSUME ~Resends, PipeInv, TableInv, ExchangeInv, [Next]_vars
  PROVE  ExchangeInv'
<1>1. ASSUME UNCHANGED <<rows, processed, orders, results, placing, engineVars>>
      PROVE  ExchangeInv'
  <2>1. \A c \in DOMAIN orders : orders'[c] = orders[c]
    BY <1>1
  <2>2. RunsInv'
    BY <1>1, <2>1, OrdersExchange
  <2>3. CommandsOK'
    BY <1>1 DEF ExchangeInv, CommandsOK
  <2> QED  BY <2>2, <2>3 DEF ExchangeInv
<1>2. ASSUME NEW id \in OrderId, \E req \in Requests[id] : Place(id, req)
      PROVE  ExchangeInv'
  BY <1>2, PlaceExchange
<1>3. ASSUME NEW id \in OrderId, Enqueue(id) \/ EnqueueFails(id) \/ RequestCancel(id)
      PROVE  ExchangeInv'
  BY <1>3, CommandExchange
<1>4. ASSUME NEW id \in OrderId, Rollback(id) PROVE ExchangeInv'
  BY <1>4, RollbackExchange
<1>5. ASSUME NEW id \in OrderId, EnqueueTwice(id) \/ RequestCancelTwice(id) PROVE FALSE
  BY <1>5 DEF EnqueueTwice, RequestCancelTwice
<1>6. CASE ApiCrash
  <2>1. PICK id \in OrderId : placing[id] \in {"written", "failed"}
    BY <1>6 DEF ApiCrash
  <2> QED  BY <1>6, CommandExchange
<1>7. CASE EngineStart \/ EngineReadPending \/ EngineReadNew \/ EngineStops
  BY <1>7, EngineExchange
<1>8. CASE EngineHandle \/ EngineHandleTwice \/ EnginePublishesAndStops
  <2>1. PICK copies \in Nat \ {0} : Publish(Head(eInbox), copies)
    BY <1>8 DEF EngineHandle, EngineHandleTwice, EnginePublishesAndStops
  <2>2. /\ engine # "down" /\ eInbox # <<>>
        /\ UNCHANGED <<rows, processed, orders, placing, eRead>>
        /\ engine' # "down" => book' = BookAfter(Head(eInbox))
    BY <1>8 DEF EngineHandle, EngineHandleTwice, EnginePublishesAndStops, EngineDown,
                dbVars, apiVars
  <2> QED  BY <2>1, <2>2, PublishExchange
<1>9. CASE ApplyResult
  BY <1>9, ApplyExchange
<1>10. CASE WorkerStart \/ WorkerReadPending \/ WorkerReadNew \/ Acknowledge \/ WorkerStops
  BY <1>1, <1>10 DEF WorkerStart, WorkerReadPending, WorkerReadNew, Acknowledge, WorkerStops,
                     dbVars, apiVars
<1>11. CASE UNCHANGED vars
  BY <1>1, <1>11 DEF vars, engineVars
<1> QED  BY <1>2, <1>3, <1>4, <1>5, <1>6, <1>7, <1>8, <1>9, <1>10, <1>11
            DEF Next, EngineStep, WorkerStep

\* What every reachable state satisfies, if no command is sent twice.
Sequential == PipeInv /\ TableInv /\ ExchangeInv

(* The database is that of a prefix of the commands carried out one at a   *)
(* time, and the engine's book is that of a longer prefix, through any     *)
(* crash and redelivery (rebuildBooks, waitForDbWorker).                   *)
THEOREM PipelineIsSequential == ~Resends => (Spec => []Sequential)
<1> SUFFICES ASSUME ~Resends PROVE Spec => []Sequential
  OBVIOUS
<1>1. Init => Sequential
  BY InitPipeInv, InitExchange DEF Init, TableInv, Sequential
<1>2. Sequential /\ [Next]_vars => Sequential'
  BY NextPipeInv, NextTable, NextExchange DEF Sequential
<1> QED  BY <1>1, <1>2, PTL DEF Spec

(* The book of a running engine is, whenever the worker has caught up, the *)
(* one a restart would rebuild: a restart loses, revives and reorders no   *)
(* resting order (rebuildBooks).                                           *)
THEOREM PipelineRestartKeepsTheBook == ~Resends => (Spec => []RestartKeepsTheBook)
<1> SUFFICES ASSUME ~Resends PROVE Spec => []RestartKeepsTheBook
  OBVIOUS
<1>1. Sequential => RestartKeepsTheBook
  <2> SUFFICES ASSUME Sequential, engine # "down", Drained PROVE book = BookOf(Rows)
    BY DEF RestartKeepsTheBook
  <2>1. PICK a \in Nat, s \in Nat : \E V : Tables(a, s, V) /\ Answers(a, s, V)
    BY DEF Sequential, ExchangeInv, RunsInv
  <2>2. PICK V : Tables(a, s, V) /\ Answers(a, s, V)
    BY <2>1
  <2>3. s = a
    BY <2>2, DrainedSettled DEF Sequential
  <2>4. book = BookIn(rows)
    BY <2>2, <2>3 DEF Tables, Answers
  <2> QED  BY <2>4 DEF BookIn, RowsIn, Rows
<1> QED  BY <1>1, PipelineIsSequential, PTL

-----------------------------------------------------------------------------
(* The refinement of Exchange.                                             *)

LEMMA CountTo ==
  ASSUME NEW s \in Nat
  PROVE  Cardinality(1..s) = s
BY FS_Interval

\* Steps that touch neither the tables nor the stream of commands stutter.
LEMMA Stutters ==
  ASSUME UNCHANGED <<rows, fills, processed, orders>>
  PROVE  UNCHANGED Abstract!exchangeVars
BY DEF Abstract!exchangeVars

(* The instance's operators are those of Results and Matching.             *)
LEMMA SameSums ==
  ASSUME NEW f
  PROVE  Abstract!SumFunction(f) = SumFunction(f)
<1>1. ASSUME NEW g, NEW S PROVE Abstract!SumFunctionOnSet(g, S) = SumFunctionOnSet(g, S)
  BY Zenon DEF Abstract!SumFunctionOnSet, SumFunctionOnSet, Abstract!FoldFunctionOnSet,
               FoldFunctionOnSet, Abstract!MapThenFoldSet, MapThenFoldSet
<1> QED  BY <1>1 DEF Abstract!SumFunction, SumFunction

LEMMA SameMatchable ==
  ASSUME NEW B, NEW t
  PROVE  /\ Abstract!Matchable(B, t) = Matchable(B, t)
         /\ Abstract!OwnCrossing(B, t) = OwnCrossing(B, t)
         /\ \A m, n : Abstract!Ahead(m, n) = Ahead(m, n)
BY DEF Abstract!Matchable, Matchable, Abstract!OwnCrossing, OwnCrossing,
       Abstract!Crossing, Crossing, Abstract!Crosses, Crosses, Abstract!Ahead, Ahead,
       Abstract!Better, Better

LEMMA SameFills ==
  ASSUME NEW B, NEW t
  PROVE  /\ \A m : Abstract!FillQty(B, t, m) = FillQty(B, t, m)
         /\ Abstract!Makers(B, t) = Makers(B, t)
         /\ Abstract!Unfilled(B, t) = Unfilled(B, t)
<1>1. ASSUME NEW m PROVE Abstract!FillQty(B, t, m) = FillQty(B, t, m)
  <2>1. {n \in Abstract!Matchable(B, t) : Abstract!Ahead(n, m)}
        = {n \in Matchable(B, t) : Ahead(n, m)}
    BY SameMatchable
  <2>2. \A S : Abstract!QtyOf(S) = QtyOf(S)
    BY SameSums DEF Abstract!QtyOf, QtyOf
  <2> QED  BY <2>1, <2>2, SameMatchable, Zenon DEF Abstract!FillQty, FillQty
<1>2. Abstract!Makers(B, t) = Makers(B, t)
  BY <1>1, SameMatchable DEF Abstract!Makers, Makers
<1>3. [m \in Abstract!Makers(B, t) |-> Abstract!FillQty(B, t, m)]
      = [m \in Makers(B, t) |-> FillQty(B, t, m)]
  BY <1>1, <1>2
<1> QED  BY <1>1, <1>2, <1>3, SameSums, Zenon DEF Abstract!Unfilled, Unfilled

LEMMA SameTrades ==
  ASSUME NEW B, NEW t
  PROVE  Abstract!Trades(B, t) = Trades(B, t)
<1>1. ASSUME NEW S PROVE Abstract!Queue(S) = Queue(S)
  BY Zenon DEF Abstract!Queue, Queue, Abstract!Ahead, Ahead, Abstract!Better, Better,
               Abstract!Cardinality, Cardinality
<1>2. Abstract!Queue(Abstract!Makers(B, t)) = Queue(Makers(B, t))
  BY <1>1, SameFills
<1> QED  BY <1>2, SameFills, Zenon DEF Abstract!Trades, Trades, Abstract!TradeOf, TradeOf

LEMMA SameStates ==
  ASSUME NEW B, NEW t
  PROVE  /\ Abstract!TakerState(B, t) = TakerState(B, t)
         /\ Abstract!MakerStates(B, t) = MakerStates(B, t)
<1>1. Abstract!Rests(B, t) = Rests(B, t)
  BY SameFills, SameMatchable, Zenon DEF Abstract!Rests, Rests
<1>2. Abstract!TakerState(B, t) = TakerState(B, t)
  BY <1>1, SameFills, Zenon DEF Abstract!TakerState, TakerState, Abstract!OrderState, OrderState,
                                Abstract!Discarded, Discarded
<1>3. Abstract!MakerStates(B, t) = MakerStates(B, t)
  BY SameFills, Zenon DEF Abstract!MakerStates, MakerStates, Abstract!OrderState, OrderState
<1> QED  BY <1>2, <1>3

LEMMA SameResults ==
  /\ \A id : Abstract!Create(id) = Create(id) /\ Abstract!CancelOf(id) = CancelOf(id)
  /\ \A id, req : Abstract!NewRow(id, req) = NewRow(id, req)
  /\ \A row, r : Abstract!Updated(row, r) = Updated(row, r)
  /\ \A row, c : Abstract!Incoming(row, c) = Incoming(row, c)
  /\ \A R : Abstract!BookOf(R) = BookOf(R)
  /\ \A c, cmd, B : Abstract!CancelResult(c, cmd, B) = CancelResult(c, cmd, B)
  /\ \A c, cmd, B, t : Abstract!CreateResult(c, cmd, B, t) = CreateResult(c, cmd, B, t)
<1>1. \A id : Abstract!Create(id) = Create(id) /\ Abstract!CancelOf(id) = CancelOf(id)
  BY DEF Abstract!Create, Create, Abstract!CancelOf, CancelOf
<1>2. \A id, req : Abstract!NewRow(id, req) = NewRow(id, req)
  BY DEF Abstract!NewRow, NewRow
<1>3. \A row, r : Abstract!Updated(row, r) = Updated(row, r)
  BY Zenon DEF Abstract!Updated, Updated, Abstract!Accepted, Accepted,
     Abstract!WithState, WithState,
         Abstract!IsTerminal, IsTerminal, Abstract!Terminal, Terminal
<1>4. \A row, c : Abstract!Incoming(row, c) = Incoming(row, c)
  BY DEF Abstract!Incoming, Incoming
<1>5. \A R : Abstract!BookOf(R) = BookOf(R)
  BY DEF Abstract!BookOf, BookOf
<1>6. \A c, cmd, B : Abstract!CancelResult(c, cmd, B) = CancelResult(c, cmd, B)
  BY DEF Abstract!CancelResult, CancelResult, Abstract!Result, Result,
     Abstract!OrderState, OrderState
<1>7. \A c, cmd, B, t : Abstract!CreateResult(c, cmd, B, t) = CreateResult(c, cmd, B, t)
  BY SameTrades, SameStates, Zenon DEF Abstract!CreateResult, CreateResult, Abstract!Result, Result
<1> QED  BY <1>1, <1>2, <1>3, <1>4, <1>5, <1>6, <1>7

(* Applying a result is the exchange carrying out its next command.        *)
LEMMA ApplySettles ==
  ASSUME PipeInv, ExchangeInv, ApplyResult
  PROVE  Abstract!Settle \/ UNCHANGED Abstract!exchangeVars
<1>1. PICK a \in Nat, s \in Nat : \E V : Tables(a, s, V) /\ Answers(a, s, V)
  BY DEF ExchangeInv, RunsInv
<1>2. PICK V : Tables(a, s, V) /\ Answers(a, s, V)
  BY <1>1
<1>3. UNCHANGED orders
  BY DEF ApplyResult
<1>4. CASE UNCHANGED dbVars
  BY <1>3, <1>4, Stutters DEF dbVars
<1>5. CASE /\ s < a /\ processed' = 1..(s + 1)
           /\ rows' = V[s + 1]
           /\ fills' = fills \o Outcome(rows, s + 1, orders[s + 1]).trades
  <2>1. Cardinality(processed) = s /\ Cardinality(processed') = s + 1
    <3>1. processed = 1..s /\ s + 1 \in Nat
      BY <1>2 DEF Answers
    <3> QED  BY <1>5, <3>1, CountTo
  <2>2. s < Len(orders)
    BY <1>2, <1>5, AnsweredBound
  <2>3. Abstract!NextResult = Outcome(rows, s + 1, orders[s + 1])
    BY <2>1, SameResults DEF Abstract!NextResult, Abstract!Rows, Outcome, BookIn, RowsIn
  <2>4. rows' = After(rows, Outcome(rows, s + 1, orders[s + 1]))
    <3>1. s \in s..(a - 1) /\ V[s] = rows
      BY <1>2, <1>5 DEF Tables
    <3> QED  BY <1>2, <1>5, <3>1 DEF Tables
  <2>5. Abstract!Settle
    BY <1>3, <1>5, <2>1, <2>2, <2>3, <2>4, SameResults DEF Abstract!Settle, After
  <2> QED  BY <2>5
<1> QED  BY <1>2, <1>4, <1>5, Applied

(* What the API does to the tables and the stream, the exchange allows: in *)
(* particular a reservation is undone only if it was never enqueued.       *)
LEMMA ApiImplements ==
  ASSUME TableInv, ExchangeInv, NEW id \in OrderId,
         \/ \E req \in Requests[id] : Place(id, req)
         \/ Enqueue(id) \/ EnqueueFails(id) \/ Rollback(id) \/ RequestCancel(id)
  PROVE  [Abstract!ExchangeNext]_(Abstract!exchangeVars)
<1>1. ASSUME NEW req \in Requests[id], Place(id, req) PROVE Abstract!ExchangeNext
  <2>1. Abstract!PlaceRow(id, req)
    BY <1>1, SameResults DEF Abstract!PlaceRow, Place, TableInv
  <2> QED  BY <2>1 DEF Abstract!ExchangeNext
<1>2. CASE Enqueue(id)
  <2>1. rows[id] # None
    BY <1>2 DEF Enqueue, ExchangeInv, CommandsOK
  <2>2. Abstract!Command(Create(id))
    BY <1>2, <2>1 DEF Abstract!Command, Enqueue, dbVars, Create
  <2> QED  BY <2>2, SameResults DEF Abstract!ExchangeNext
<1>3. CASE RequestCancel(id)
  <2>1. Abstract!Command(CancelOf(id))
    BY <1>3 DEF Abstract!Command, RequestCancel, Cancellable, dbVars, CancelOf
  <2> QED  BY <2>1, SameResults DEF Abstract!ExchangeNext
<1>4. CASE EnqueueFails(id)
  <2>1. UNCHANGED <<rows, fills, processed, orders>>
    BY <1>4 DEF EnqueueFails, dbVars
  <2> QED  BY <2>1, Stutters
<1>5. CASE Rollback(id)
  <2>1. /\ rows[id] # None /\ UNCHANGED <<fills, processed, orders>>
        /\ \A c \in DOMAIN orders : orders[c] # Create(id)
    BY <1>5 DEF Rollback, ExchangeInv, CommandsOK
  <2>2. CASE rows' = rows
    BY <2>1, <2>2, Stutters
  <2>3. CASE rows[id].status = "open" /\ rows' = [rows EXCEPT ![id].status = "rejected"]
    <3>1. Abstract!Undo(id)
      BY <2>1, <2>3, SameResults DEF Abstract!Undo
    <3> QED  BY <3>1 DEF Abstract!ExchangeNext
  <2> QED  BY <1>5, <2>2, <2>3 DEF Rollback
<1> QED  BY <1>1, <1>2, <1>3, <1>4, <1>5

LEMMA StepImplements ==
  ASSUME ~Resends, Sequential, [Next]_vars
  PROVE  [Abstract!ExchangeNext]_(Abstract!exchangeVars)
<1>1. PipeInv /\ TableInv /\ ExchangeInv
  BY DEF Sequential
<1>2. ASSUME NEW id \in OrderId,
             \/ \E req \in Requests[id] : Place(id, req)
             \/ Enqueue(id) \/ EnqueueFails(id) \/ Rollback(id) \/ RequestCancel(id)
      PROVE  [Abstract!ExchangeNext]_(Abstract!exchangeVars)
  BY <1>1, <1>2, ApiImplements
<1>3. ASSUME NEW id \in OrderId, EnqueueTwice(id) \/ RequestCancelTwice(id) PROVE FALSE
  BY <1>3 DEF EnqueueTwice, RequestCancelTwice
<1>4. CASE ApplyResult
  <2>1. Abstract!Settle => Abstract!ExchangeNext
    BY DEF Abstract!ExchangeNext
  <2> QED  BY <1>1, <1>4, <2>1, ApplySettles
<1>5. CASE \/ ApiCrash \/ EngineStart \/ EngineReadPending \/ EngineReadNew \/ EngineHandle
           \/ EngineHandleTwice \/ EnginePublishesAndStops \/ EngineStops
           \/ WorkerStart \/ WorkerReadPending \/ WorkerReadNew \/ Acknowledge \/ WorkerStops
  <2>1. UNCHANGED <<rows, fills, processed, orders>>
    BY <1>5 DEF ApiCrash, EngineStart, EngineReadPending, EngineReadNew, EngineHandle,
                EngineHandleTwice, EnginePublishesAndStops, EngineStops, WorkerStart,
                WorkerReadPending, WorkerReadNew, Acknowledge, WorkerStops, dbVars
  <2> QED  BY <2>1, Stutters
<1>6. CASE UNCHANGED vars
  <2>1. UNCHANGED <<rows, fills, processed, orders>>
    BY <1>6 DEF vars
  <2> QED  BY <2>1, Stutters
<1> QED  BY <1>2, <1>3, <1>4, <1>5, <1>6 DEF Next, EngineStep, WorkerStep

(* API, streams, engine and db-worker together, each crashing and          *)
(* repeating its calls as it may, implement an exchange that carries out   *)
(* the commands one after another against the database.                    *)
THEOREM PipelineImplementsExchange == ~Resends => (Spec => ImplementsExchange)
<1> SUFFICES ASSUME ~Resends PROVE Spec => ImplementsExchange
  OBVIOUS
<1>1. Init => Abstract!ExchangeInit
  BY FS_EmptySet DEF Init, Abstract!ExchangeInit
<1>2. Sequential /\ [Next]_vars => [Abstract!ExchangeNext]_(Abstract!exchangeVars)
  BY StepImplements
<1> QED  BY <1>1, <1>2, PipelineIsSequential, PTL
         DEF Spec, ImplementsExchange, Abstract!ExchangeSpec

-----------------------------------------------------------------------------
(* What the fills say was traded of each order.                            *)

\* The places at which order id trades, in a sequence of fills.
Its(f, id) == {i \in DOMAIN f : id \in {f[i].maker, f[i].taker}}

IsFills(f) == f \in Seq(Range(f)) /\ \A i \in DOMAIN f : f[i].qty \in Int

LEMMA TradedAt ==
  ASSUME NEW f, IsFills(f), NEW id
  PROVE  /\ IsFiniteSet(Its(f, id))
         /\ Traded(f, id) = SumFunctionOnSet([i \in Its(f, id) |-> f[i].qty], Its(f, id))
         /\ Traded(f, id) \in Int
<1> DEFINE q == [i \in Its(f, id) |-> f[i].qty]
<1>1. Traded(f, id) = SumFunction(q)
  BY DEF Traded, Its
<1>2. SumFunction(q) = SumFunctionOnSet(q, Its(f, id))
  <2>1. DOMAIN q = Its(f, id)
    OBVIOUS
  <2> HIDE DEF q
  <2> QED  BY <2>1 DEF SumFunction
<1>3. IsFiniteSet(Its(f, id))
  <2>1. IsFiniteSet(1..Len(f)) /\ Its(f, id) \subseteq 1..Len(f)
    BY FS_Interval DEF IsFills, Its
  <2> QED  BY <2>1, FS_Subset
<1>4. \A i \in Its(f, id) : q[i] \in Int
  BY DEF IsFills, Its
<1> HIDE DEF q
<1>5. SumFunctionOnSet(q, Its(f, id)) \in Int
  BY <1>3, <1>4, SumInt
<1> QED  BY <1>1, <1>2, <1>3, <1>5 DEF q

AddsUpTo(h, f, g) == \A id : Traded(h, id) = Traded(f, id) + Traded(g, id)

(* What is traded adds up as fills are added.                              *)
LEMMA TradedMore ==
  ASSUME NEW f, IsFills(f), NEW g, IsFills(g), NEW h, h = f \o g
  PROVE  IsFills(h) /\ AddsUpTo(h, f, g)
<1> DEFINE X == Range(f) \cup Range(g)
           n == Len(f)
           m == Len(g)
<1>1. f \in Seq(X) /\ g \in Seq(X) /\ n \in Nat /\ m \in Nat
  <2>1. f \in Seq(Range(f)) /\ g \in Seq(Range(g))
    BY DEF IsFills
  <2> QED  BY <2>1, SeqMonotonic, LenProperties
<1>2. /\ h \in Seq(X) /\ Len(h) = n + m
      /\ \A i \in 1..(n + m) : h[i] = IF i <= n THEN f[i] ELSE g[i - n]
  BY <1>1, ConcatProperties
<1>3. DOMAIN f = 1..n /\ DOMAIN g = 1..m /\ DOMAIN h = 1..(n + m)
  BY <1>1, <1>2, LenProperties
<1>4. h \in Seq(Range(h))
  BY <1>2, SeqOfRange, Zenon
<1> HIDE DEF n, m, X
<1>5. \A i \in 1..n : i \in 1..(n + m) /\ h[i] = f[i]
  BY <1>1, <1>2
<1>6. \A j \in 1..m : n + j \in 1..(n + m) /\ h[n + j] = g[j]
  BY <1>1, <1>2
<1>7. \A i \in 1..(n + m) : i \in 1..n \/ \E j \in 1..m : i = n + j
  <2> SUFFICES ASSUME NEW i \in 1..(n + m), i \notin 1..n PROVE \E j \in 1..m : i = n + j
    OBVIOUS
  <2>1. i - n \in 1..m /\ i = n + (i - n)
    BY <1>1
  <2> QED  BY <2>1
<1>8. IsFills(h)
  <2>1. /\ \A i \in 1..n : f[i].qty \in Int
        /\ \A j \in 1..m : g[j].qty \in Int
    BY <1>3 DEF IsFills
  <2>2. ASSUME NEW i \in 1..(n + m) PROVE h[i].qty \in Int
    <3>1. CASE i \in 1..n
      BY <1>5, <2>1, <3>1
    <3>2. CASE \E j \in 1..m : i = n + j
      BY <1>6, <2>1, <3>2
    <3> QED  BY <1>7, <3>1, <3>2
  <2> QED  BY <1>3, <1>4, <2>2 DEF IsFills
<1>9. ASSUME NEW id PROVE Traded(h, id) = Traded(f, id) + Traded(g, id)
  <2> DEFINE S == Its(f, id)
             U == Its(g, id)
             shift == [j \in U |-> n + j]
             T == {shift[j] : j \in U}
             q == [i \in Its(h, id) |-> h[i].qty]
             qf == [i \in S |-> f[i].qty]
             qg == [j \in U |-> g[j].qty]
  <2>1. /\ IsFiniteSet(S) /\ Traded(f, id) = SumFunctionOnSet(qf, S)
        /\ IsFiniteSet(U) /\ Traded(g, id) = SumFunctionOnSet(qg, U)
        /\ Traded(h, id) = SumFunctionOnSet(q, Its(h, id))
    BY <1>8, TradedAt
  <2>2. Its(h, id) = S \cup T
    <3>1. ASSUME NEW i \in Its(h, id) PROVE i \in S \cup T
      <4>1. i \in 1..(n + m) /\ id \in {h[i].maker, h[i].taker}
        BY <1>3 DEF Its
      <4>2. CASE i \in 1..n
        BY <1>3, <1>5, <4>1, <4>2 DEF Its
      <4>3. ASSUME NEW j \in 1..m, i = n + j PROVE i \in T
        <5>1. j \in U
          BY <1>3, <1>6, <4>1, <4>3 DEF Its
        <5> QED  BY <4>3, <5>1
      <4> QED  BY <1>7, <4>1, <4>2, <4>3
    <3>2. \A i \in S : i \in Its(h, id)
      BY <1>3, <1>5 DEF Its
    <3>3. \A j \in U : shift[j] \in Its(h, id)
      BY <1>3, <1>6 DEF Its
    <3> QED  BY <3>1, <3>2, <3>3
  <2>3. S \cap T = {}
    <3>1. ASSUME NEW i \in S, NEW j \in U PROVE i # shift[j]
      <4>1. i \in 1..n /\ j \in 1..m /\ shift[j] = n + j
        BY <1>3 DEF Its
      <4> QED  BY <1>1, <4>1
    <3> HIDE DEF S, U, shift
    <3> QED  BY <3>1
  <2>4. \A i \in S : qf[i] = q[i] /\ q[i] \in Int
    BY <1>3, <1>5, <2>2 DEF Its, IsFills
  <2>5. \A j \in U : qg[j] = q[shift[j]] /\ qg[j] \in Int
    <3> SUFFICES ASSUME NEW j \in U PROVE qg[j] = q[shift[j]] /\ qg[j] \in Int
      OBVIOUS
    <3>1. j \in 1..m /\ shift[j] = n + j /\ n + j \in Its(h, id)
      BY <1>3, <2>2 DEF Its
    <3> QED  BY <1>3, <1>6, <3>1 DEF IsFills
  <2>6. \A i, j \in U : shift[i] = shift[j] => i = j
    BY <1>1, <1>3 DEF Its
  <2>7. \A i \in S \cup T : q[i] \in Int
    <3>1. \A i \in T : q[i] \in Int
      <4> HIDE DEF q, qg, U, shift
      <4> QED  BY <2>5
    <3> HIDE DEF q, T
    <3> QED  BY <2>4, <3>1
  <2>8. IsFiniteSet(T)
    <3> HIDE DEF shift, U
    <3> QED  BY <2>1, ImageFinite
  <2>9. SumFunctionOnSet(q, T) = SumFunctionOnSet(qg, U)
    <3> HIDE DEF q, qg, U, shift
    <3> QED  BY <2>1, <2>5, <2>6, SumMapped
  <2>10. SumFunctionOnSet(q, S) = SumFunctionOnSet(qf, S)
    <3> HIDE DEF q, qf, S
    <3> QED  BY <2>1, <2>4, SumSame
  <2> HIDE DEF q, qf, qg, S, T, U, shift
  <2>11. SumFunctionOnSet(q, S \cup T) = SumFunctionOnSet(q, S) + SumFunctionOnSet(q, T)
    BY <2>1, <2>3, <2>7, <2>8, SumUnion
  <2> QED  BY <2>1, <2>2, <2>9, <2>10, <2>11
<1> QED  BY <1>8, <1>9 DEF AddsUpTo

(* The trades of a taker are, for each maker, of what it fills, and for    *)
(* the taker of all that was filled of it.                                 *)
LEMMA TradedOf ==
  ASSUME NEW b, BookOK(b), NEW t, t.side \in Sides, t.qty \in Int,
         \A m, n \in b : m.id = n.id => m = n,
         \A m \in b : m.id # t.id
  PROVE  /\ IsFills(Trades(b, t))
         /\ Traded(Trades(b, t), t.id) = t.qty - Unfilled(b, t)
         /\ \A m \in Makers(b, t) : Traded(Trades(b, t), m.id) = FillQty(b, t, m)
         /\ \A id : id # t.id /\ (\A m \in Makers(b, t) : m.id # id)
                    => Traded(Trades(b, t), id) = 0
<1> DEFINE M == Makers(b, t)
           N == Cardinality(M)
           T == Trades(b, t)
           queue == Queue(M)
           fill == [m \in M |-> FillQty(b, t, m)]
<1>1. /\ BookOK(M) /\ IsFiniteSet(M)
      /\ \A m \in M : m \in b /\ m.side \in Sides /\ m.side # t.side /\ fill[m] \in Int
  BY MakersOf DEF BookOK
<1>2. PICK side \in Sides : \A m \in M : m.side = side
  <2>1. \E side \in Sides : side # t.side /\ \A s \in Sides : s # t.side => s = side
    BY DEF Sides
  <2> HIDE DEF M
  <2> QED  BY <1>1, <2>1
<1>3. /\ N \in Nat /\ DOMAIN queue = 1..N
      /\ \A i \in 1..N : queue[i] \in M
      /\ \A m \in M : \E i \in 1..N : queue[i] = m
      /\ \A i, j \in 1..N : queue[i] = queue[j] => i = j
  <2> HIDE DEF M
  <2> QED  BY <1>1, <1>2, QueueOrder
<1>4. /\ DOMAIN T = 1..N /\ T = [i \in 1..N |-> T[i]]
      /\ \A i \in 1..N : T[i] = TradeOf(t, queue[i], FillQty(b, t, queue[i]))
  BY <1>3 DEF Trades
<1>5. \A i \in 1..N : /\ T[i].maker = queue[i].id /\ T[i].taker = t.id
                      /\ T[i].qty = fill[queue[i]] /\ T[i].qty \in Int
  BY <1>1, <1>3, <1>4 DEF TradeOf
<1>6. IsFills(T)
  <2> HIDE DEF T, N
  <2>1. T \in Seq(Range(T))
    BY <1>3, <1>4 DEF Range
  <2> QED  BY <1>4, <1>5, <2>1 DEF IsFills
<1> HIDE DEF T, N, queue, fill, M
<1>7. Traded(T, t.id) = t.qty - Unfilled(b, t)
  <2> DEFINE q == [i \in Its(T, t.id) |-> T[i].qty]
  <2>1. Its(T, t.id) = 1..N
    BY <1>4, <1>5 DEF Its
  <2>2. {queue[i] : i \in 1..N} = M
    BY <1>3
  <2>3. IsFiniteSet(1..N)
    <3>1. 1 \in Int /\ N \in Int
      BY <1>3
    <3> QED  BY <3>1, FS_Interval
  <2>4. \A i \in 1..N : q[i] \in Int /\ q[i] = fill[queue[i]]
    BY <1>5, <2>1
  <2>5. Traded(T, t.id) = SumFunctionOnSet(q, 1..N)
    BY <1>6, <2>1, TradedAt
  <2> HIDE DEF q
  <2>6. SumFunctionOnSet(fill, M) = SumFunctionOnSet(q, 1..N)
    <3> DEFINE places == 1..N
    <3>1. \A i, j \in places : queue[i] = queue[j] => i = j
      BY <1>3
    <3>2. \A i \in places : q[i] \in Int /\ q[i] = fill[queue[i]]
      BY <2>4
    <3>3. {queue[i] : i \in places} = M /\ IsFiniteSet(places)
      BY <2>2, <2>3
    <3> HIDE DEF places
    <3>4. SumFunctionOnSet(fill, {queue[i] : i \in places}) = SumFunctionOnSet(q, places)
      BY <3>1, <3>2, <3>3, SumMapped
    <3>5. SumFunctionOnSet(fill, M) = SumFunctionOnSet(q, places)
      BY <3>3, <3>4, Zenon
    <3> QED  BY <3>5 DEF places
  <2>7. SumFunctionOnSet(fill, M) \in Int
    BY <1>1, SumInt
  <2>8. Unfilled(b, t) = t.qty - SumFunctionOnSet(fill, M)
    <3>1. DOMAIN fill = M
      BY DEF fill
    <3>2. Unfilled(b, t) = t.qty - SumFunction(fill)
      BY DEF Unfilled, fill, M
    <3> QED  BY <3>1, <3>2 DEF SumFunction
  <2> QED  BY <2>5, <2>6, <2>7, <2>8
<1>8. ASSUME NEW m \in M PROVE Traded(T, m.id) = FillQty(b, t, m)
  <2> DEFINE q == [i \in Its(T, m.id) |-> T[i].qty]
  <2>1. PICK i \in 1..N : queue[i] = m
    BY <1>3
  <2>2. Its(T, m.id) = {i}
    <3>1. \A j \in Its(T, m.id) : j = i
      BY <1>1, <1>3, <1>4, <1>5, <2>1 DEF Its
    <3>2. i \in Its(T, m.id)
      BY <1>4, <1>5, <2>1 DEF Its
    <3> QED  BY <3>1, <3>2
  <2>3. q[i] = FillQty(b, t, m) /\ q[i] \in Int
    BY <1>5, <2>1, <2>2 DEF fill
  <2>4. Traded(T, m.id) = SumFunctionOnSet(q, {i})
    BY <1>6, <2>2, TradedAt
  <2> HIDE DEF q
  <2>5. SumFunctionOnSet(q, {i}) = q[i] + SumFunctionOnSet(q, {i} \ {i})
    BY <2>3, FS_Singleton, SumElement
  <2>6. SumFunctionOnSet(q, {i} \ {i}) = 0
    <3>1. {i} \ {i} = {}
      OBVIOUS
    <3> QED  BY <3>1, SumEmpty, Zenon
  <2>7. Traded(T, m.id) = q[i]
    BY <2>3, <2>4, <2>5, <2>6
  <2> QED  BY <2>3, <2>7
<1>9. ASSUME NEW id, id # t.id, \A m \in M : m.id # id PROVE Traded(T, id) = 0
  <2>1. Its(T, id) = {}
    BY <1>3, <1>4, <1>5, <1>9 DEF Its
  <2> QED  BY <1>6, <2>1, TradedAt, SumEmpty
<1> QED  BY <1>6, <1>7, <1>8, <1>9 DEF T, M

\* The trades T are what w has taken from the rows of v.
Explained(v, w, T) ==
  /\ IsFills(T)
  /\ \A i \in OrderId :
       /\ v[i] = None => Traded(T, i) = 0
       /\ v[i] # None => /\ w[i].order.orig = v[i].order.orig
                         /\ w[i].order.qty \in Int
                         /\ Traded(T, i) = v[i].order.qty - w[i].order.qty

LEMMA CancelFills ==
  ASSUME NEW v, NEW k \in Nat, TableAt(v, k), NEW id \in OrderId
  PROVE  Explained(v, After(v, Outcome(v, k + 1, CancelOf(id))),
                   Outcome(v, k + 1, CancelOf(id)).trades)
<1> DEFINE r == Outcome(v, k + 1, CancelOf(id))
           w == After(v, r)
           T == r.trades
<1>1. /\ T = <<>>
      /\ v[id] # None /\ Resting(v[id]) => w[id] = [v[id] EXCEPT !.status = "cancelled"]
      /\ \A i \in OrderId : i # id \/ v[i] = None \/ ~Resting(v[i]) => w[i] = v[i]
  BY CancelOutcome
<1>2. \A i \in OrderId : v[i] # None => v[i] \in Row /\ v[i].order.qty \in Nat
  BY RowFields DEF TableAt, RowAt
<1> HIDE DEF T, w
<1>3. ASSUME NEW i \in OrderId, v[i] # None PROVE w[i].order = v[i].order
  <2>1. v[i] \in Row
    BY <1>2, <1>3
  <2> QED  BY <1>1, <1>3, <2>1 DEF Row
<1>4. IsFills(T) /\ \A i : Traded(T, i) = 0
  <2>1. IsFills(<<>>) /\ \A i : Its(<<>>, i) = {}
    BY DEF IsFills, Its
  <2>2. \A i : Traded(<<>>, i) = 0
    BY <2>1, TradedAt, SumEmpty
  <2> QED  BY <1>1, <2>1, <2>2
<1>5. Explained(v, w, T)
  BY <1>2, <1>3, <1>4 DEF Explained
<1> QED  BY <1>5 DEF w, T

LEMMA CreateFills ==
  ASSUME NEW v, NEW k \in Nat, TableAt(v, k), NEW id \in OrderId, v[id] # None,
         v[id].order.seq = 0, v[id].status = "open"
  PROVE  Explained(v, After(v, Outcome(v, k + 1, Create(id))),
                   Outcome(v, k + 1, Create(id)).trades)
<1> DEFINE B == BookIn(v)
           t == Incoming(v[id], k + 1)
           r == Outcome(v, k + 1, Create(id))
           w == After(v, r)
           T == r.trades
           M == Makers(B, t)
           fill(m) == FillQty(B, t, m)
           rest(m) == [m EXCEPT !.qty = m.qty - fill(m)]
           taker == [t EXCEPT !.qty = Unfilled(B, t)]
<1>1. /\ T = Trades(B, t)
      /\ t.side \in Sides /\ t.qty \in Nat \ {0} /\ t.orig = t.qty /\ t.id = id
      /\ w[id] = [order |-> taker, status |-> TakerState(B, t).status]
      /\ \A m \in M :
           w[m.id] = [order  |-> rest(m),
                      status |-> IF m.qty - fill(m) = 0 THEN "filled" ELSE "partial"]
      /\ \A i \in OrderId : i # id /\ v[i].order \notin M => w[i] = v[i]
  BY CreateOutcome
<1>2. \A i \in OrderId : v[i] # None => /\ v[i] \in Row /\ v[i].order.qty \in Nat
                                        /\ v[i].order.id = i
  BY RowFields DEF TableAt, RowAt
<1>3. /\ BookOK(B)
      /\ \A m \in B : /\ m.id \in OrderId /\ v[m.id] # None /\ Resting(v[m.id])
                      /\ v[m.id].order = m /\ m.qty \in Nat
  BY BookRows
<1>4. v[id].order.qty = v[id].order.orig /\ t = [v[id].order EXCEPT !.seq = k + 1]
  BY <1>2, TakerOrder DEF TableAt, RowAt
<1>5. taker.qty = Unfilled(B, t) /\ taker.orig = t.orig /\ t.orig = v[id].order.orig
  <2>1. v[id] \in Row
    BY <1>2
  <2> HIDE DEF t, B
  <2> QED  BY <1>4, <2>1 DEF Row
<1> HIDE DEF T, w, t, B, taker
<1>6. \A m \in M : m \in B /\ fill(m) \in Int
  BY <1>1, <1>3, MakersOf
<1>7. \A m \in M : rest(m).qty = m.qty - fill(m) /\ rest(m).orig = m.orig
  <2> SUFFICES ASSUME NEW m \in M
               PROVE  rest(m).qty = m.qty - fill(m) /\ rest(m).orig = m.orig
    OBVIOUS
  <2>1. v[m.id] \in Row /\ v[m.id].order = m
    BY <1>2, <1>3, <1>6
  <2> HIDE DEF M, fill
  <2> QED  BY <2>1 DEF Row
<1>8. /\ IsFills(T)
      /\ Traded(T, id) = t.qty - Unfilled(B, t)
      /\ \A m \in M : Traded(T, m.id) = fill(m)
      /\ \A i : i # id /\ (\A m \in M : m.id # i) => Traded(T, i) = 0
  <2>1. \A m, n \in B : m.id = n.id => m = n
    BY <1>3
  <2>2. \A m \in B : m.id # id
    BY <1>3 DEF Resting
  <2>3. t.qty \in Int
    BY <1>1
  <2> QED  BY <1>1, <1>3, <2>1, <2>2, <2>3, TradedOf
<1>9. Unfilled(B, t) \in Int
  <2>1. \A m \in B : m.qty \in Nat
    BY <1>3
  <2>2. t.qty \in Nat
    BY <1>1
  <2>3. Unfilled(B, t) \in 0..t.qty
    BY <1>1, <1>3, <2>1, <2>2, FillsAddUp
  <2> QED  BY <2>2, <2>3
<1>10. /\ w[id].order = taker
       /\ \A m \in M : w[m.id].order = rest(m)
  <2> HIDE DEF M, rest, fill
  <2>1. w[id].order = taker
    BY <1>1
  <2>2. ASSUME NEW m \in M PROVE w[m.id].order = rest(m)
    <3>1. w[m.id] = [order  |-> rest(m),
                     status |-> IF m.qty - fill(m) = 0 THEN "filled" ELSE "partial"]
      BY <1>1
    <3> QED  BY <3>1
  <2> QED  BY <2>1, <2>2
<1> HIDE DEF M, rest, fill
<1>11. ASSUME NEW i \in OrderId, v[i] # None
       PROVE  /\ w[i].order.orig = v[i].order.orig
              /\ w[i].order.qty \in Int
              /\ Traded(T, i) = v[i].order.qty - w[i].order.qty
  <2>1. CASE i = id
    BY <1>1, <1>4, <1>5, <1>8, <1>9, <1>10, <2>1
  <2>2. CASE i # id /\ v[i].order \in M
    <3>1. PICK m \in M : m = v[i].order
      BY <2>2
    <3>2. m.id = i /\ m.qty \in Nat /\ fill(m) \in Int
      BY <1>2, <1>3, <1>6, <1>11, <3>1
    <3>3. w[i].order = rest(m)
      BY <1>10, <3>2
    <3>4. Traded(T, i) = fill(m)
      BY <1>8, <3>2
    <3> QED  BY <1>7, <3>1, <3>2, <3>3, <3>4
  <2>3. CASE i # id /\ v[i].order \notin M
    <3>1. w[i] = v[i]
      BY <1>1, <2>3
    <3>2. \A m \in M : m.id # i
      BY <1>3, <1>6, <2>3
    <3>3. Traded(T, i) = 0
      BY <1>8, <2>3, <3>2
    <3> QED  BY <1>2, <1>11, <3>1, <3>3
  <2> QED  BY <2>1, <2>2, <2>3
<1>12. ASSUME NEW i \in OrderId, v[i] = None PROVE Traded(T, i) = 0
  <2>1. i # id /\ \A m \in M : m.id # i
    BY <1>3, <1>6, <1>12
  <2> QED  BY <1>8, <2>1
<1>13. Explained(v, w, T)
  BY <1>8, <1>11, <1>12 DEF Explained
<1> QED  BY <1>13 DEF w, T

(* What a command trades is what it takes from the rows.                   *)
LEMMA CommandFills ==
  ASSUME NEW v, NEW k \in Nat, TableAt(v, k), NEW cmd \in Commands,
         v[cmd.id] # None,
         cmd.kind = "create" => v[cmd.id].order.seq = 0 /\ v[cmd.id].status = "open"
  PROVE  Explained(v, After(v, Outcome(v, k + 1, cmd)), Outcome(v, k + 1, cmd).trades)
<1>1. PICK id \in OrderId : cmd = Create(id) \/ cmd = CancelOf(id)
  BY DEF Commands
<1>2. CASE cmd = Create(id)
  <2>1. v[id] # None /\ v[id].order.seq = 0 /\ v[id].status = "open"
    BY <1>2 DEF Create
  <2> QED  BY <1>2, <2>1, CreateFills
<1>3. CASE cmd = CancelOf(id)
  BY <1>3, CancelFills
<1> QED  BY <1>1, <1>2, <1>3

\* No order trades before it has a row, and the fills explain every row.
FillsInv ==
  /\ IsFills(fills)
  /\ \A id \in OrderId : rows[id] = None => Traded(fills, id) = 0
  /\ FillsExplainRows

LEMMA ApplyFills ==
  ASSUME PipeInv, ExchangeInv, FillsInv, ApplyResult
  PROVE  FillsInv'
<1>1. PICK a \in Nat, s \in Nat : \E V : Tables(a, s, V) /\ Answers(a, s, V)
  BY DEF ExchangeInv, RunsInv
<1>2. PICK V : Tables(a, s, V) /\ Answers(a, s, V)
  BY <1>1
<1>3. CASE UNCHANGED dbVars
  BY <1>3 DEF dbVars, FillsInv, FillsExplainRows
<1>4. CASE /\ s < a /\ rows' = V[s + 1]
           /\ fills' = fills \o Outcome(rows, s + 1, orders[s + 1]).trades
  <2> DEFINE cmd == orders[s + 1]
             T == Outcome(rows, s + 1, cmd).trades
  <2>1. TableAt(rows, s) /\ Tables(s, s, V)
    <3>1. s \in s..a /\ \A k \in s..s : k \in s..a
      BY <1>4
    <3>2. s..(s - 1) = {}
      OBVIOUS
    <3> QED  BY <1>2, <3>1, <3>2 DEF Tables
  <2>2. s + 1 \in DOMAIN orders
    BY <1>2, <1>4, AnsweredBound
  <2>3. V[s] = rows /\ rows' = After(rows, Outcome(rows, s + 1, cmd))
    <3>1. s \in s..(a - 1) /\ V[s] = rows
      BY <1>2, <1>4 DEF Tables
    <3> QED  BY <1>2, <1>4, <3>1 DEF Tables
  <2>4. /\ cmd \in Commands /\ rows[cmd.id] # None
        /\ cmd.kind = "create" => rows[cmd.id].order.seq = 0 /\ rows[cmd.id].status = "open"
    <3>1. ApiOK /\ CommandsOK
      BY DEF PipeInv, ControlOK, ExchangeInv
    <3> QED  BY <2>1, <2>2, <2>3, <3>1, NextAllowed
  <2>5. \A i \in OrderId : rows'[i] = None <=> rows[i] = None
    <3>1. s + 1 \in s..a
      BY <1>4
    <3> QED  BY <1>2, <1>4, <3>1 DEF Tables, Agree
  <2>6. /\ IsFills(T)
        /\ \A i \in OrderId :
             /\ rows[i] = None => Traded(T, i) = 0
             /\ rows[i] # None => /\ rows'[i].order.orig = rows[i].order.orig
                                  /\ rows'[i].order.qty \in Int
                                  /\ Traded(T, i) = rows[i].order.qty - rows'[i].order.qty
    <3> HIDE DEF cmd
    <3>1. Explained(rows, After(rows, Outcome(rows, s + 1, cmd)), T)
      BY <2>1, <2>4, CommandFills
    <3> QED  BY <2>3, <3>1 DEF Explained
  <2>7. \A i \in OrderId : rows[i] # None => rows[i].order.qty \in Nat /\ rows[i].order.orig \in Nat
    BY <2>1, RowFields DEF TableAt, RowAt
  <2>8. PICK more : more = fills'
    OBVIOUS
  <2>9. fills' = fills \o T /\ IsFills(fills)
    BY <1>4 DEF FillsInv
  <2> HIDE DEF T
  <2>10. IsFills(more) /\ \A i : Traded(more, i) = Traded(fills, i) + Traded(T, i)
    <3>1. IsFills(T) /\ IsFills(fills) /\ more = fills \o T
      BY <2>6, <2>8, <2>9
    <3>2. IsFills(more) /\ AddsUpTo(more, fills, T)
      BY <3>1, TradedMore, Zenon
    <3> QED  BY <3>2 DEF AddsUpTo
  <2>11. ASSUME NEW i \in OrderId, rows'[i] = None PROVE Traded(more, i) = 0
    BY <2>5, <2>6, <2>10, <2>11 DEF FillsInv
  <2>12. ASSUME NEW i \in OrderId, rows'[i] # None
         PROVE  Traded(more, i) + rows'[i].order.qty = rows'[i].order.orig
    <3>1. Traded(fills, i) + rows[i].order.qty = rows[i].order.orig
      BY <2>5, <2>12 DEF FillsInv, FillsExplainRows
    <3>2. Traded(fills, i) \in Int
      BY <2>9, TradedAt
    <3> QED  BY <2>5, <2>6, <2>7, <2>10, <2>12, <3>1, <3>2
  <2> QED  BY <2>8, <2>10, <2>11, <2>12 DEF FillsInv, FillsExplainRows
<1> QED  BY <1>2, <1>3, <1>4, Applied

LEMMA NextFills ==
  ASSUME ~Resends, Sequential, FillsInv, [Next]_vars
  PROVE  FillsInv'
<1>1. PipeInv /\ TableInv /\ ExchangeInv
  BY DEF Sequential
<1>2. ASSUME NEW id \in OrderId, NEW req \in Requests[id], Place(id, req) PROVE FillsInv'
  <2> DEFINE row == NewRow(id, req)
  <2>1. row.order.qty \in Nat /\ row.order.orig = row.order.qty
    BY PipelineAssumption DEF NewRow, Request
  <2>2. UNCHANGED fills /\ \A i \in OrderId : rows'[i] = IF i = id THEN row ELSE rows[i]
    BY <1>1, <1>2 DEF Place, TableInv
  <2>3. rows[id] = None
    BY <1>1, <1>2 DEF Place, TableInv
  <2> HIDE DEF row
  <2>4. Traded(fills, id) = 0
    BY <2>3 DEF FillsInv
  <2> QED  BY <2>1, <2>2, <2>4 DEF FillsInv, FillsExplainRows
<1>3. ASSUME NEW id \in OrderId, Rollback(id) PROVE FillsInv'
  <2>1. UNCHANGED fills /\ rows[id] # None
    BY <1>1, <1>3 DEF Rollback, ExchangeInv, CommandsOK
  <2>2. CASE rows' = rows
    BY <2>1, <2>2 DEF FillsInv, FillsExplainRows
  <2>3. CASE rows' = [rows EXCEPT ![id].status = "rejected"]
    <3>1. IsRow(rows[id]) /\ rows = [i \in OrderId |-> rows[i]]
      BY <1>1, <2>1 DEF TableInv
    <3>2. PICK row : row = [rows[id] EXCEPT !.status = "rejected"]
      OBVIOUS
    <3>3. \A i \in OrderId : rows'[i] = IF i = id THEN row ELSE rows[i]
      BY <2>3, <3>1, <3>2
    <3>4. row.order = rows[id].order /\ row = [order |-> rows[id].order, status |-> "rejected"]
      BY <3>1, <3>2 DEF IsRow
    <3>5. row # None
      <4>1. ExchangeInv'
        BY <1>1, <1>3, RollbackExchange
      <4>2. placing'[id] = "done"
        BY <1>1, <1>3 DEF Rollback, TableInv
      <4> QED  BY <3>3, <4>1, <4>2 DEF ExchangeInv, CommandsOK
    <3> QED  BY <2>1, <3>3, <3>4, <3>5 DEF FillsInv, FillsExplainRows
  <2> QED  BY <1>3, <2>2, <2>3 DEF Rollback
<1>4. CASE ApplyResult
  BY <1>1, <1>4, ApplyFills
<1>5. CASE UNCHANGED <<rows, fills>>
  BY <1>5 DEF FillsInv, FillsExplainRows
<1>6. ASSUME NEW id \in OrderId,
             \/ Enqueue(id) \/ EnqueueTwice(id) \/ EnqueueFails(id)
             \/ RequestCancel(id) \/ RequestCancelTwice(id)
      PROVE  UNCHANGED <<rows, fills>>
  BY <1>6 DEF Enqueue, EnqueueTwice, EnqueueFails, RequestCancel, RequestCancelTwice, dbVars
<1>7. ASSUME \/ ApiCrash \/ EngineStart \/ EngineReadPending \/ EngineReadNew \/ EngineHandle
             \/ EngineHandleTwice \/ EnginePublishesAndStops \/ EngineStops
             \/ WorkerStart \/ WorkerReadPending \/ WorkerReadNew \/ Acknowledge \/ WorkerStops
             \/ UNCHANGED vars
      PROVE  UNCHANGED <<rows, fills>>
  BY <1>7 DEF ApiCrash, EngineStart, EngineReadPending, EngineReadNew, EngineHandle,
              EngineHandleTwice, EnginePublishesAndStops, EngineStops, WorkerStart,
              WorkerReadPending, WorkerReadNew, Acknowledge, WorkerStops, dbVars, vars
<1> QED  BY <1>2, <1>3, <1>4, <1>5, <1>6, <1>7 DEF Next, EngineStep, WorkerStep

(* What is left of an order and what was traded of it add up to what was   *)
(* asked for: no result is applied twice or skipped, whatever is           *)
(* redelivered, resent or lost (applyEngineResult, ProcessedEvent).        *)
THEOREM PipelineFillsExplainRows == ~Resends => (Spec => []FillsExplainRows)
<1> SUFFICES ASSUME ~Resends PROVE Spec => []FillsExplainRows
  OBVIOUS
<1>1. Init => FillsInv
  <2> SUFFICES ASSUME Init PROVE FillsInv
    OBVIOUS
  <2>1. fills = <<>> /\ \A id \in OrderId : rows[id] = None
    BY DEF Init
  <2>2. IsFills(<<>>) /\ \A id : Its(<<>>, id) = {}
    BY DEF IsFills, Its
  <2>3. \A id : Traded(<<>>, id) = 0
    BY <2>2, TradedAt, SumEmpty
  <2> QED  BY <2>1, <2>2, <2>3 DEF FillsInv, FillsExplainRows
<1>2. Sequential /\ FillsInv /\ [Next]_vars => FillsInv'
  BY NextFills
<1>3. FillsInv => FillsExplainRows
  BY DEF FillsInv
<1> QED  BY <1>1, <1>2, <1>3, PipelineIsSequential, PTL DEF Spec
=============================================================================
