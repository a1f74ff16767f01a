----------------------------- MODULE RedisProofs -----------------------------
(***************************************************************************)
(* Proofs about what the processes keep in Redis.  First about             *)
(* ConsumerGroup, the streams and how they are read, for every number of   *)
(* entries, failures and entries of one read.  Then about EngineLock: one  *)
(* engine at a time, for every time to live, interval, delay, number of    *)
(* failed renewals and set of processes with Timely.                       *)
(***************************************************************************)
EXTENDS ConsumerGroup, EngineLock, OperatorProofs, SequenceTheorems

-----------------------------------------------------------------------------
(* ConsumerGroup.                                                          *)

\* The numbers of the stream and of the group; nothing pending is trimmed.
Ranges ==
  /\ first \in Int /\ last \in Int /\ aged \in Int
  /\ 1 <= first /\ first <= last + 1
  /\ delivered \in Int \cup {None}
  /\ delivered = None => pending = {}
  /\ delivered # None => /\ first <= delivered + 1 /\ delivered <= last
                         /\ \A e \in pending : e \in first..delivered

\* What the timer holds stays below all that is pending or not delivered, also when
\* entries are delivered or the group is made again between its calls.
Held ==
  /\ trim.id \in Int
  /\ trim.step # "idle" => IF delivered = None THEN trim.id < first ELSE trim.id <= delivered
  /\ trim.step = "boundary" => \A e \in pending : trim.id <= e

\* What is acknowledged or trimmed is handled.
Handled ==
  /\ 1..(first - 1) \subseteq done \cup lost
  /\ acking => autoAck /\ inbox # <<>> /\ Head(inbox) \in done

IInv == Ranges /\ Held /\ Handled /\ AcknowledgedIsDone

LEMMA InitIInv == Init => IInv
  BY GroupAssumption DEF Init, IInv, Ranges, Held, Handled, AcknowledgedIsDone

LEMMA CreatedGroup ==
  ASSUME IInv, CreateGroup, UNCHANGED <<first, last, aged, pending, autoAck, done, trim>>,
         acking' => acking, acking' => inbox' = inbox
  PROVE  IInv'
<1>1. Ranges'
  BY GroupAssumption DEF IInv, Ranges, CreateGroup
<1>2. Held'
  BY GroupAssumption DEF IInv, Ranges, Held, CreateGroup
<1>3. Handled'
  BY DEF IInv, Handled, CreateGroup
<1>4. AcknowledgedIsDone'
  BY DEF IInv, Ranges, Handled, AcknowledgedIsDone, CreateGroup
<1> QED BY <1>1, <1>2, <1>3, <1>4 DEF IInv

LEMMA DeliveredEntries ==
  ASSUME IInv, NEW n \in 1..Count, Deliver(n),
         UNCHANGED <<first, last, aged, done, trim, lost, acking>>
  PROVE  IInv'
<1> USE GroupAssumption
<1>1. delivered \in Int /\ delivered' \in Int /\ delivered' = delivered + n /\ ~acking
  BY DEF IInv, Ranges, Handled, Deliver, Reading
<1>2. Ranges'
  BY <1>1 DEF IInv, Ranges, Deliver
<1>3. Held'
  BY <1>1 DEF IInv, Ranges, Held, Deliver
<1>4. Handled'
  BY <1>1 DEF IInv, Handled
<1>5. AcknowledgedIsDone'
  BY <1>1 DEF IInv, AcknowledgedIsDone, Deliver
<1> QED BY <1>2, <1>3, <1>4, <1>5 DEF IInv

\* An acknowledgement of what is handled.
LEMMA AcknowledgedEntry ==
  ASSUME IInv, NEW e, pending' = pending \ {e}, e \in done', done \subseteq done',
         UNCHANGED <<first, last, aged, delivered, trim, lost>>, ~acking'
  PROVE  IInv'
<1>1. Ranges' /\ Held' /\ Handled'
  BY DEF IInv, Ranges, Held, Handled
<1>2. AcknowledgedIsDone'
  BY DEF IInv, AcknowledgedIsDone
<1> QED BY <1>1, <1>2 DEF IInv

\* The entries below one bound are those below a lower one and those between.
LEMMA Segments ==
  ASSUME NEW a \in Int, NEW b \in Int, NEW e \in 1..(b - 1)
  PROVE  /\ e \in Int /\ 1 <= e /\ e < b
         /\ e \in 1..(a - 1) \/ a <= e
  OBVIOUS

LEMMA Trimmed ==
  ASSUME IInv, Trim
  PROVE  IInv'
<1> USE GroupAssumption
<1>1. /\ trim.step = "boundary" /\ first' \in Int /\ first <= first'
      /\ first' = first \/ first' <= trim.id
      /\ UNCHANGED <<last, aged, delivered, pending, autoAck, done, inbox, acking, lost>>
      /\ trim'.step = "idle" /\ trim'.id = 0
  BY DEF Trim, TrimStep, IInv, Ranges, Held, group, consumer, history
<1>2. Ranges'
  BY <1>1 DEF IInv, Ranges, Held
<1>3. Held'
  BY <1>1 DEF Held
<1>4. Handled'
  <2>1. first \in Int /\ first' \in Int
    BY <1>1 DEF IInv, Ranges
  <2>2. ASSUME NEW e \in 1..(first' - 1)
        PROVE  e \in done \cup lost
    <3>1. e \in Int /\ 1 <= e /\ e < first' /\ (e \in 1..(first - 1) \/ first <= e)
      BY <2>1, Segments
    <3>2. CASE e \in 1..(first - 1)
      BY <3>2 DEF IInv, Handled
    <3>3. CASE first <= e
      <4>1. delivered # None /\ e < trim.id /\ trim.id <= delivered
        BY <1>1, <3>1, <3>3 DEF IInv, Ranges, Held
      <4>2. e \in 1..delivered
        BY <3>1, <4>1 DEF IInv, Ranges, Held
      <4>3. e \notin pending
        BY <1>1, <3>1, <4>1 DEF IInv, Held
      <4> QED BY <4>1, <4>2, <4>3 DEF IInv, AcknowledgedIsDone
    <3> QED BY <3>1, <3>2, <3>3
  <2> QED BY <1>1, <2>2 DEF IInv, Handled
<1>5. AcknowledgedIsDone'
  BY <1>1 DEF IInv, AcknowledgedIsDone
<1> QED BY <1>2, <1>3, <1>4, <1>5 DEF IInv

LEMMA PreparedToTrim ==
  ASSUME IInv, TrimInfo \/ TrimPending \/ TrimFails
  PROVE  IInv'
<1> USE GroupAssumption
<1>1. UNCHANGED <<first, last, aged, delivered, pending, autoAck, inbox, acking, done, lost>>
  BY DEF TrimInfo, TrimPending, TrimFails, stream, group, consumer, history
<1>2. Held'
  <2>1. CASE TrimInfo
    BY <1>1, <2>1 DEF TrimInfo, TrimStep, IInv, Ranges, Held
  <2>2. CASE TrimPending
    <3>1. CASE delivered = None
      BY <1>1, <2>2, <3>1 DEF TrimPending, TrimStep, IInv, Ranges, Held
    <3>2. CASE delivered # None /\ pending = {}
      BY <1>1, <2>2, <3>2 DEF TrimPending, TrimStep, Boundary, IInv, Ranges, Held
    <3>3. CASE delivered # None /\ pending # {}
      <4>1. PICK e \in pending : Least(pending, e) /\ TrimStep("info", "boundary", Boundary(e))
        BY <2>2, <3>3 DEF TrimPending
      <4>2. e \in Int /\ e <= delivered /\ Boundary(e) \in Int /\ Boundary(e) <= e
        BY <3>3 DEF IInv, Ranges, Boundary
      <4>3. trim' = [step |-> "boundary", id |-> Boundary(e)]
        BY <4>1 DEF TrimStep
      <4>4. \A d \in pending : d \in Int /\ e <= d
        BY <3>3, <4>1 DEF Least, IInv, Ranges
      <4>5. trim'.id <= delivered /\ \A d \in pending : trim'.id <= d
        BY <4>2, <4>3, <4>4, <3>3 DEF IInv, Ranges
      <4> QED BY <1>1, <3>3, <4>2, <4>3, <4>5 DEF Held
    <3> QED BY <3>1, <3>2, <3>3
  <2>3. CASE TrimFails
    BY <1>1, <2>3 DEF TrimFails, Held
  <2> QED BY <2>1, <2>2, <2>3
<1>3. Ranges' /\ Handled' /\ AcknowledgedIsDone'
  BY <1>1 DEF IInv, Ranges, Handled, AcknowledgedIsDone
<1> QED BY <1>2, <1>3 DEF IInv

LEMMA NextIInv ==
  ASSUME IInv, [Next]_vars
  PROVE  IInv'
<1> USE GroupAssumption DEF stream, group, consumer, history
<1>1. CASE UNCHANGED vars
  BY <1>1 DEF vars, IInv, Ranges, Held, Handled, AcknowledgedIsDone
<1>2. CASE Start
  <2>1. CASE CreateGroup
    BY <1>2, <2>1, CreatedGroup DEF Start
  <2>2. CASE UNCHANGED <<delivered, lost>>
    BY <1>2, <2>2 DEF Start, IInv, Ranges, Held, Handled, AcknowledgedIsDone
  <2> QED BY <1>2, <2>1, <2>2 DEF Start, EnsureGroup
<1>3. CASE ReadNoGroup
  BY <1>3, CreatedGroup DEF ReadNoGroup
<1>4. CASE ReadPending
  BY <1>4 DEF ReadPending, Reading, IInv, Ranges, Held, Handled, AcknowledgedIsDone
<1>5. CASE Read
  BY <1>5, DeliveredEntries DEF Read
<1>6. CASE Handle
  BY <1>6 DEF Handle, IInv, Ranges, Held, Handled, AcknowledgedIsDone
<1>7. CASE Ack
  BY <1>7, AcknowledgedEntry DEF Ack, IInv, Handled
<1>8. CASE Publish
  <2>1. ~acking'
    BY <1>8 DEF Publish, Published, IInv, Handled
  <2> QED BY <1>8, <2>1, AcknowledgedEntry DEF Publish, Published
<1>9. CASE Write
  BY <1>9 DEF Write, IInv, Ranges, Held, Handled, AcknowledgedIsDone
<1>10. CASE GrowOld
  BY <1>10 DEF GrowOld, IInv, Ranges, Held, Handled, AcknowledgedIsDone
<1>11. CASE RedisForgets
  BY <1>11 DEF RedisForgets, IInv, Ranges, Held, Handled, AcknowledgedIsDone
<1>12. CASE ReadUnanswered
  BY <1>12, DeliveredEntries DEF ReadUnanswered
<1>13. CASE HandleFails
  BY <1>13 DEF HandleFails, IInv, Ranges, Held, Handled, AcknowledgedIsDone
<1>14. CASE PublishFails
  <2>1. CASE Published
    BY <1>14, <2>1, AcknowledgedEntry DEF PublishFails, Published, Down
  <2>2. CASE UNCHANGED <<done, pending>>
    BY <1>14, <2>2 DEF PublishFails, Down, IInv, Ranges, Held, Handled, AcknowledgedIsDone
  <2> QED BY <1>14, <2>1, <2>2 DEF PublishFails
<1>15. CASE Crash
  BY <1>15 DEF Crash, Down, IInv, Ranges, Held, Handled, AcknowledgedIsDone
<1>16. CASE TrimInfo \/ TrimPending \/ TrimFails
  BY <1>16, PreparedToTrim
<1>17. CASE Trim
  BY <1>17, Trimmed
<1> QED
  BY <1>1, <1>2, <1>3, <1>4, <1>5, <1>6, <1>7, <1>8, <1>9, <1>10, <1>11, <1>12, <1>13,
     <1>14, <1>15, <1>16, <1>17 DEF Next, Consume

LEMMA AlwaysIInv == Spec => []IInv
  BY InitIInv, NextIInv, PTL DEF Spec

(* No interleaving of the three calls of trimConsumedEntries with reads,   *)
(* acknowledgements, restarts and a Redis that comes back empty trims an   *)
(* entry that is pending or not delivered.                                 *)
THEOREM TrimKeepsLiveEntries == Spec => []NothingLiveTrimmed
<1>1. IInv => NothingLiveTrimmed
  BY GroupAssumption DEF IInv, Ranges, NothingLiveTrimmed
<1> QED BY AlwaysIInv, <1>1, PTL

(* Nothing is acknowledged before it is handled, nor dropped: of all that  *)
(* was delivered only what Redis lost is neither handled nor pending.      *)
THEOREM AcknowledgedAreDone == Spec => []AcknowledgedIsDone
<1>1. IInv => AcknowledgedIsDone
  BY DEF IInv
<1> QED BY AlwaysIInv, <1>1, PTL

-----------------------------------------------------------------------------
(* The order in which entries are handled.                                 *)

Increasing(s) == \A j, k \in DOMAIN s : j < k => s[j] < s[k]

\* Delivered or read, not handled, and not lost with the answer of a read.
Due(S) == S \ (done \cup unanswered)

\* The inbox holds, in order, the first of what is due, and all of it once the consumer
\* reads new entries; what is due comes after all that is done.
OrderInv ==
  /\ inbox \in Seq(Int) /\ Increasing(inbox)
  /\ done \subseteq Int
  /\ \A d \in done \cup Range(inbox) : d <= last /\ (delivered # None => d <= delivered)
  /\ \A e \in Due(pending \cup Range(inbox)), d \in done : d < e
  /\ \A e \in Due(pending \ Range(inbox)), i \in Range(inbox) : i < e
  /\ mode = "live" => Due(pending) \subseteq Range(inbox)
  /\ ~autoAck => (pending \cup Range(inbox)) \cap done = {}

Entries(S) == S \in SUBSET Int /\ IsFiniteSet(S)

(* The first entries of a set are in order and before the rest; they are   *)
(* all of it when it fits in one read.                                     *)
LEMMA FirstOfFront ==
  ASSUME NEW S, Entries(S)
  PROVE  /\ FirstOf(S) \in Seq(S) /\ Increasing(FirstOf(S))
         /\ \A e \in S \ Range(FirstOf(S)), i \in Range(FirstOf(S)) : i < e
         /\ Cardinality(S) <= Count => Range(FirstOf(S)) = S
<1> USE GroupAssumption
<1> DEFINE R == {ij \in S \X S : ij[1] < ij[2]}
           rank(i) == Cardinality({j \in S : j <= i})
           n == IF Cardinality(S) < Count THEN Cardinality(S) ELSE Count
           s == FirstOf(S)
<1>1. StrictOrder(R, S) /\ IsFiniteSet(S)
  BY DEF StrictOrder, Entries
<1>2. Cardinality(S) \in Nat /\ n \in Nat /\ n <= Cardinality(S)
  BY <1>1, FS_CardinalityType
<1>3. \A i, j \in S : <<i, j>> \in R <=> i < j
  OBVIOUS
<1> HIDE DEF R
<1>4. \A q \in 0..(Cardinality(S) - 1) : \E i \in S : RankIn(R, S, i) = q
  BY <1>1, RankTaken
<1> USE DEF Entries
<1>5. ASSUME NEW i \in S PROVE rank(i) = RankIn(R, S, i) + 1
  <2> DEFINE Below == {j \in S : <<j, i>> \in R}
  <2>1. {j \in S : j <= i} = Below \cup {i} /\ i \notin Below
    <3>1. \A j \in S : j <= i <=> <<j, i>> \in R \/ j = i
      BY <1>3
    <3>2. <<i, i>> \notin R
      BY <1>3
    <3> QED  BY <3>1, <3>2
  <2>2. IsFiniteSet(Below)
    <3>1. Below \in SUBSET S
      OBVIOUS
    <3> HIDE DEF Below
    <3> QED  BY <3>1, FS_Subset
  <2> HIDE DEF Below
  <2>3. Cardinality(Below \cup {i}) = Cardinality(Below) + 1
    BY <2>1, <2>2, FS_AddElement
  <2>4. RankIn(R, S, i) = Cardinality(Below)
    BY DEF RankIn, Below
  <2> QED  BY <2>1, <2>3, <2>4
<1>6. \A i \in S : RankIn(R, S, i) \in 0..(Cardinality(S) - 1)
  BY <1>1, RankBounds
<1>7. ASSUME NEW i \in S, NEW j \in S
      PROVE  (i < j <=> rank(i) < rank(j)) /\ (rank(i) = rank(j) => i = j)
  <2>1. /\ i < j => RankIn(R, S, i) < RankIn(R, S, j)
        /\ j < i => RankIn(R, S, j) < RankIn(R, S, i)
    BY <1>1, <1>3, RankBounds
  <2>2. RankIn(R, S, i) \in Int /\ RankIn(R, S, j) \in Int /\ i \in Int /\ j \in Int
    BY <1>6
  <2> HIDE DEF rank
  <2> QED  BY <1>5, <2>1, <2>2
<1>8. s = [k \in 1..n |-> CHOOSE i \in S : rank(i) = k]
  BY DEF FirstOf
<1> HIDE DEF rank, s, n
<1>9. ASSUME NEW k \in 1..n PROVE s[k] \in S /\ rank(s[k]) = k
  <2>1. k - 1 \in 0..(Cardinality(S) - 1)
    BY <1>2
  <2>3. PICK i \in S : RankIn(R, S, i) = k - 1
    BY <1>4, <2>1
  <2>4. rank(i) = k
    BY <1>2, <1>5, <2>3
  <2> QED  BY <1>8, <2>4
<1>10. s \in Seq(S) /\ DOMAIN s = 1..n
  BY <1>2, <1>8, <1>9
<1>11. Increasing(s)
  <2> SUFFICES ASSUME NEW j \in 1..n, NEW k \in 1..n, j < k PROVE s[j] < s[k]
    BY <1>10 DEF Increasing
  <2>1. s[j] \in S /\ rank(s[j]) = j /\ s[k] \in S /\ rank(s[k]) = k
    BY <1>9
  <2> QED  BY <1>7, <2>1
<1>12. ASSUME NEW e \in S, e \notin Range(s) PROVE rank(e) \notin 1..n
  <2> SUFFICES ASSUME rank(e) \in 1..n PROVE FALSE
    OBVIOUS
  <2>1. s[rank(e)] \in S /\ rank(s[rank(e)]) = rank(e)
    BY <1>9
  <2>2. s[rank(e)] = e
    BY <1>7, <2>1
  <2> QED  BY <1>10, <1>12, <2>2 DEF Range
<1>13. ASSUME NEW e \in S \ Range(s), NEW i \in Range(s) PROVE i < e
  <2>1. PICK k \in 1..n : i = s[k]
    BY <1>10 DEF Range
  <2>2. rank(e) \in Int /\ rank(e) >= 1
    BY <1>5, <1>6
  <2>3. k < rank(e)
    BY <1>2, <1>12, <2>2
  <2>4. i \in S /\ rank(i) = k
    BY <1>9, <2>1
  <2> QED  BY <1>7, <2>3, <2>4
<1>14. ASSUME Cardinality(S) <= Count PROVE Range(s) = S
  <2>1. n = Cardinality(S)
    BY <1>2, <1>14 DEF n
  <2>2. ASSUME NEW e \in S PROVE rank(e) \in 1..n
    BY <1>2, <1>5, <1>6, <2>1
  <2>3. S \subseteq Range(s)
    BY <1>12, <2>2
  <2> QED  BY <1>9, <1>10, <2>3 DEF Range
<1> QED  BY <1>10, <1>11, <1>13, <1>14 DEF s

(* The head of an inbox and the rest of it.                                *)
LEMMA HeadAndTail ==
  ASSUME NEW s \in Seq(Int), s # <<>>, Increasing(s)
  PROVE  /\ Head(s) \in Int /\ Tail(s) \in Seq(Int) /\ Increasing(Tail(s))
         /\ Range(s) = {Head(s)} \cup Range(Tail(s))
         /\ \A i \in Range(Tail(s)) : Head(s) < i
<1>1. /\ Len(s) \in Nat /\ Len(s) >= 1 /\ DOMAIN s = 1..Len(s)
      /\ Head(s) = s[1] /\ Head(s) \in Int /\ Tail(s) \in Seq(Int)
      /\ DOMAIN Tail(s) = 1..(Len(s) - 1)
      /\ \A k \in 1..(Len(s) - 1) : Tail(s)[k] = s[k + 1]
  OBVIOUS
<1>2. Increasing(Tail(s))
  <2> SUFFICES ASSUME NEW j \in 1..(Len(s) - 1), NEW k \in 1..(Len(s) - 1), j < k
               PROVE  Tail(s)[j] < Tail(s)[k]
    BY <1>1 DEF Increasing
  <2>1. j + 1 \in DOMAIN s /\ k + 1 \in DOMAIN s /\ j + 1 < k + 1
    BY <1>1
  <2> QED  BY <1>1, <2>1 DEF Increasing
<1>3. ASSUME NEW i \in Range(Tail(s)) PROVE i \in Range(s) /\ Head(s) < i
  <2>1. PICK k \in 1..(Len(s) - 1) : i = s[k + 1]
    BY <1>1 DEF Range
  <2>2. 1 \in DOMAIN s /\ k + 1 \in DOMAIN s /\ 1 < k + 1
    BY <1>1
  <2> QED  BY <1>1, <2>1, <2>2 DEF Range, Increasing
<1>4. ASSUME NEW i \in Range(s), i # Head(s) PROVE i \in Range(Tail(s))
  <2>1. PICK k \in 1..Len(s) : i = s[k]
    BY <1>1 DEF Range
  <2>2. k - 1 \in 1..(Len(s) - 1) /\ k = (k - 1) + 1
    BY <1>1, <1>4, <2>1
  <2>3. i = Tail(s)[k - 1]
    BY <1>1, <2>1, <2>2
  <2> QED  BY <1>1, <2>2, <2>3 DEF Range
<1>5. Head(s) \in Range(s)
  BY <1>1 DEF Range
<1> QED  BY <1>1, <1>2, <1>3, <1>4, <1>5

LEMMA InitOrderInv == Init => OrderInv
<1> SUFFICES ASSUME Init PROVE OrderInv
  OBVIOUS
<1>1. inbox = <<>> /\ Range(inbox) = {} /\ done = {} /\ pending = {} /\ mode = "down"
  BY DEF Init, Range
<1>2. inbox \in Seq(Int) /\ Increasing(inbox)
  BY <1>1 DEF Increasing
<1> QED  BY <1>1, <1>2 DEF OrderInv, Due

\* The group is made, or the stream changes, and nothing is read.
LEMMA QuietStep ==
  ASSUME IInv, OrderInv, UNCHANGED <<pending, autoAck, inbox, done, unanswered>>,
         mode' # "live" \/ mode' = mode,
         last' \in Int, last <= last',
         delivered' = delivered \/ delivered' = None \/ delivered' = last
  PROVE  OrderInv'
<1>1. \A d \in done \cup Range(inbox) : d <= last' /\ (delivered' # None => d <= delivered')
  BY GroupAssumption DEF OrderInv, IInv, Ranges, Range
<1>2. mode' = "live" => mode = "live"
  OBVIOUS
<1> QED  BY <1>1, <1>2 DEF OrderInv, Due

LEMMA PendingEntries ==
  ASSUME IInv
  PROVE  Entries(pending)
<1>1. CASE delivered = None
  BY <1>1, FS_EmptySet DEF IInv, Ranges, Entries
<1>2. CASE delivered # None
  <2>1. pending \in SUBSET (first..delivered) /\ first \in Int /\ delivered \in Int
    BY <1>2 DEF IInv, Ranges
  <2>2. IsFiniteSet(first..delivered)
    BY <2>1, FS_Interval
  <2>3. IsFiniteSet(pending)
    BY <2>1, <2>2, FS_Subset
  <2> QED  BY <2>1, <2>3 DEF Entries
<1> QED  BY <1>1, <1>2

LEMMA ReadPendingStep ==
  ASSUME IInv, OrderInv, ReadPending
  PROVE  OrderInv'
<1>1. /\ inbox = <<>> /\ inbox' = FirstOf(pending) /\ delivered # None
      /\ mode' = "live" => pending = {}
      /\ UNCHANGED <<last, delivered, pending, autoAck, done, unanswered>>
  BY DEF ReadPending, Reading, stream, group, history
<1>2. /\ FirstOf(pending) \in Seq(pending) /\ Increasing(FirstOf(pending))
      /\ \A e \in pending \ Range(FirstOf(pending)), i \in Range(FirstOf(pending)) : i < e
  BY PendingEntries, FirstOfFront
<1>3. pending \subseteq Int /\ \A e \in pending : e <= last /\ e <= delivered
  BY <1>1, GroupAssumption DEF IInv, Ranges
<1>4. Range(inbox') \subseteq pending
  BY <1>1, <1>2 DEF Range
<1>5. inbox' \in Seq(Int) /\ Increasing(inbox')
  <2>1. inbox' \in Seq(Int)
    BY <1>1, <1>2, <1>3, SeqMonotonic
  <2> QED  BY <1>1, <1>2, <2>1, Zenon
<1>6. Due(pending \ Range(inbox))' \subseteq pending \ Range(inbox')
  BY <1>1 DEF Due
<1> QED  BY <1>1, <1>2, <1>3, <1>4, <1>5, <1>6 DEF OrderInv, Due

\* What is delivered is later than all that was.
LEMMA DeliveredLater ==
  ASSUME IInv, OrderInv, NEW n \in 1..Count, Deliver(n)
  PROVE  LET S == (delivered + 1)..delivered'
         IN  /\ delivered \in Int /\ delivered' = delivered + n /\ delivered' <= last
             /\ delivered # None /\ delivered' # None
             /\ mode = "live" /\ inbox = <<>> /\ Range(inbox) = {}
             /\ S \subseteq Int /\ pending' = pending \cup S
             /\ \A e \in S, d \in done \cup pending : d < e
             /\ Due(pending) = {}
<1>1. /\ delivered \in Int /\ delivered # None /\ delivered' = delivered + n
      /\ delivered + n <= last /\ mode = "live" /\ inbox = <<>>
      /\ pending' = pending \cup (delivered + 1)..delivered'
  BY GroupAssumption DEF IInv, Ranges, Deliver, Reading
<1>2. \A d \in done \cup pending : d \in Int /\ d <= delivered
  BY <1>1, GroupAssumption DEF IInv, Ranges, OrderInv
<1>3. Range(inbox) = {} /\ Due(pending) = {}
  BY <1>1 DEF OrderInv, Range
<1> QED  BY <1>1, <1>2, <1>3, GroupAssumption

LEMMA ReadStep ==
  ASSUME IInv, OrderInv, Read
  PROVE  OrderInv'
<1> DEFINE S == (delivered + 1)..delivered'
<1>1. PICK n \in 1..Count : Deliver(n)
  BY DEF Read
<1>2. /\ delivered \in Int /\ delivered' = delivered + n /\ delivered' <= last
      /\ delivered' # None
      /\ S \subseteq Int /\ pending' = pending \cup S
      /\ \A e \in S, d \in done \cup pending : d < e
      /\ Due(pending) = {}
  BY <1>1, DeliveredLater
<1>3. /\ inbox' = FirstOf(S)
      /\ UNCHANGED <<last, autoAck, mode, done, unanswered>>
  BY DEF Read, stream, history
<1>4. IsFiniteSet(S) /\ Cardinality(S) <= Count
  BY <1>2, FS_Interval, GroupAssumption
<1>5. Entries(S)
  BY <1>2, <1>4 DEF Entries
<1>6. \A d \in done : d <= last /\ d <= delivered'
  BY <1>2, GroupAssumption DEF OrderInv, IInv, Ranges
<1>7. \A e \in S : e <= last /\ e <= delivered'
  BY <1>2 DEF IInv, Ranges
<1> HIDE DEF S
<1>8. FirstOf(S) \in Seq(S) /\ Increasing(FirstOf(S)) /\ Range(FirstOf(S)) = S
  BY <1>4, <1>5, FirstOfFront
<1>9. inbox' \in Seq(Int) /\ Increasing(inbox') /\ Range(inbox') = S
  <2>1. inbox' \in Seq(Int)
    BY <1>2, <1>3, <1>8, SeqMonotonic
  <2> QED  BY <1>3, <1>8, <2>1, Zenon
<1>10. Due(pending)' \subseteq S /\ Due(pending \ Range(inbox))' = {}
  BY <1>2, <1>3, <1>9 DEF Due
<1>11. ~autoAck => (pending' \cup S) \cap done = {}
  <2>1. \A e \in S : e \notin done
    BY <1>2
  <2> QED  BY <1>2, <2>1 DEF OrderInv
<1> QED  BY <1>2, <1>3, <1>6, <1>7, <1>9, <1>10, <1>11 DEF OrderInv, Due

LEMMA ReadUnansweredStep ==
  ASSUME IInv, OrderInv, ReadUnanswered
  PROVE  OrderInv'
<1> DEFINE S == (delivered + 1)..delivered'
<1>1. PICK n \in 1..Count : Deliver(n)
  BY DEF ReadUnanswered
<1>2. /\ delivered \in Int /\ delivered' = delivered + n /\ delivered' <= last
      /\ delivered' # None /\ Range(inbox) = {}
      /\ S \subseteq Int /\ pending' = pending \cup S
      /\ \A e \in S, d \in done \cup pending : d < e
      /\ Due(pending) = {}
  BY <1>1, DeliveredLater
<1>3. unanswered' = unanswered \cup S /\ UNCHANGED <<last, autoAck, mode, inbox, done>>
  BY DEF ReadUnanswered, stream, consumer
<1>4. \A d \in done : d <= last /\ d <= delivered'
  BY <1>2, GroupAssumption DEF OrderInv, IInv, Ranges
<1>5. Due(pending)' = {}
  BY <1>2, <1>3 DEF Due
<1>6. ~autoAck => pending' \cap done = {}
  <2>1. \A e \in S : e \notin done
    BY <1>2
  <2> QED  BY <1>2, <2>1 DEF OrderInv
<1> HIDE DEF S
<1> QED  BY <1>2, <1>3, <1>4, <1>5, <1>6 DEF OrderInv, Due

\* What is read is forgotten or acknowledged, or stays, and nothing is handled.
LEMMA ForgottenStep ==
  ASSUME IInv, OrderInv, UNCHANGED <<last, autoAck, done, unanswered>>,
         delivered' = delivered \/ delivered' = None,
         pending' \subseteq pending,
         \/ inbox' = <<>> /\ mode' # "live"
         \/ inbox' = inbox /\ mode' = mode
         \/ /\ inbox # <<>> /\ Head(inbox) \in done
            /\ inbox' = Tail(inbox) /\ mode' = mode
  PROVE  OrderInv'
<1>1. CASE inbox' = <<>> /\ mode' # "live"
  <2>1. inbox' \in Seq(Int) /\ Increasing(inbox') /\ Range(inbox') = {}
    BY <1>1 DEF Increasing, Range
  <2> QED  BY <1>1, <2>1 DEF OrderInv, Due
<1>2. CASE inbox' = inbox /\ mode' = mode
  BY <1>2 DEF OrderInv, Due
<1>3. CASE /\ inbox # <<>> /\ Head(inbox) \in done
           /\ inbox' = Tail(inbox) /\ mode' = mode
  <2>1. /\ Tail(inbox) \in Seq(Int) /\ Increasing(Tail(inbox))
        /\ Range(inbox) = {Head(inbox)} \cup Range(Tail(inbox))
    BY <1>3, HeadAndTail DEF OrderInv
  <2>2. inbox' \in Seq(Int) /\ Increasing(inbox') /\ Range(inbox') \subseteq Range(inbox)
    BY <1>3, <2>1
  <2>3. /\ Due(pending \ Range(inbox))' \subseteq Due(pending \ Range(inbox))
        /\ Due(pending \cup Range(inbox))' \subseteq Due(pending \cup Range(inbox))
        /\ mode' = "live" => Due(pending)' \subseteq Range(inbox')
    BY <1>3, <2>1 DEF OrderInv, Due
  <2> QED  BY <1>3, <2>2, <2>3 DEF OrderInv
<1> QED  BY <1>1, <1>2, <1>3

(* Handling the head of the inbox is in order, and does not put what is    *)
(* due behind it.                                                          *)
LEMMA HandledStep ==
  ASSUME IInv, OrderInv, UNCHANGED <<last, delivered, autoAck, unanswered>>,
         inbox # <<>>, done' = done \cup {Head(inbox)},
         \/ autoAck /\ pending' = pending /\ inbox' = inbox /\ mode' = mode
         \/ /\ ~autoAck /\ pending' = pending \ {Head(inbox)}
            /\ \/ inbox' = Tail(inbox) /\ mode' = mode
               \/ inbox' = <<>> /\ mode' # "live"
  PROVE  OrderInv'
<1> DEFINE h == Head(inbox)
<1>1. /\ h \in Int /\ Tail(inbox) \in Seq(Int) /\ Increasing(Tail(inbox))
      /\ Range(inbox) = {h} \cup Range(Tail(inbox))
      /\ \A i \in Range(Tail(inbox)) : h < i
  BY HeadAndTail DEF OrderInv
<1>2. /\ inbox' \in Seq(Int) /\ Increasing(inbox') /\ Range(inbox') \subseteq Range(inbox)
  <2>1. CASE inbox' = inbox
    BY <2>1 DEF OrderInv
  <2>2. CASE inbox' = Tail(inbox)
    BY <1>1, <2>2
  <2>3. CASE inbox' = <<>>
    BY <2>3 DEF Increasing, Range
  <2> QED  BY <2>1, <2>2, <2>3
<1>3. done' \subseteq Int /\ \A d \in done' \cup Range(inbox') : d \in done \cup Range(inbox)
  BY <1>1, <1>2 DEF OrderInv
<1>4. ASSUME NEW e \in Due(pending \cup Range(inbox))', NEW d \in done'
      PROVE  d < e
  <2>1. e \in Due(pending \cup Range(inbox)) /\ e # h
    BY <1>2 DEF Due
  <2>2. h < e
    <3>1. CASE e \in Range(inbox)
      BY <1>1, <2>1, <3>1
    <3>2. CASE e \notin Range(inbox)
      <4>1. e \in Due(pending \ Range(inbox)) /\ h \in Range(inbox)
        BY <1>1, <2>1, <3>2 DEF Due
      <4> QED  BY <4>1 DEF OrderInv
    <3> QED  BY <3>1, <3>2
  <2> QED  BY <2>1, <2>2 DEF OrderInv
<1>5. ASSUME NEW e \in Due(pending \ Range(inbox))', NEW i \in Range(inbox')
      PROVE  i < e
  <2>1. e \in Due(pending \ Range(inbox)) /\ i \in Range(inbox)
    <3>1. Range(inbox') = {} \/ Range(inbox) \subseteq {h} \cup Range(inbox')
      <4>1. CASE inbox' = <<>>
        BY <4>1 DEF Range
      <4> QED  BY <1>1, <4>1
    <3> QED  BY <1>2, <3>1 DEF Due
  <2> QED  BY <2>1 DEF OrderInv
<1>6. mode' = "live" => Due(pending)' \subseteq Range(inbox')
  BY <1>1 DEF OrderInv, Due
<1>7. ~autoAck' => (pending' \cup Range(inbox')) \cap done' = {}
  <2> SUFFICES ASSUME ~autoAck PROVE (pending' \cup Range(inbox')) \cap done' = {}
    OBVIOUS
  <2>1. h \notin Range(Tail(inbox))
    BY <1>1
  <2>2. Range(inbox') \subseteq Range(Tail(inbox)) /\ pending' = pending \ {h}
    <3>1. CASE inbox' = <<>>
      BY <3>1 DEF Range
    <3> QED  BY <3>1
  <2> QED  BY <1>1, <2>1, <2>2 DEF OrderInv
<1>8. \A d \in done' \cup Range(inbox') : d <= last' /\ (delivered' # None => d <= delivered')
  BY <1>3 DEF OrderInv
<1> QED  BY <1>2, <1>3, <1>4, <1>5, <1>6, <1>7, <1>8 DEF OrderInv

LEMMA NextOrderInv ==
  ASSUME IInv, OrderInv, [Next]_vars
  PROVE  OrderInv'
<1> USE DEF stream, group, consumer, history
<1>1. last \in Int /\ last + 1 \in Int /\ last <= last + 1
  BY DEF IInv, Ranges
<1>2. CASE UNCHANGED vars
  BY <1>2 DEF vars, OrderInv, Due
<1>3. CASE Start
  BY <1>1, <1>3, QuietStep DEF Start, EnsureGroup, CreateGroup
<1>4. CASE ReadNoGroup
  BY <1>1, <1>4, QuietStep DEF ReadNoGroup, CreateGroup
<1>5. CASE ReadPending
  BY <1>5, ReadPendingStep
<1>6. CASE Read
  BY <1>6, ReadStep
<1>7. CASE Handle
  BY <1>7, HandledStep DEF Handle
<1>8. CASE Ack
  BY <1>8, ForgottenStep DEF Ack, IInv, Handled
<1>9. CASE Publish
  BY <1>9, HandledStep DEF Publish, Published
<1>10. CASE Write
  BY <1>1, <1>10, QuietStep DEF Write
<1>11. CASE GrowOld
  BY <1>1, <1>11, QuietStep DEF GrowOld
<1>12. CASE RedisForgets
  BY <1>12, ForgottenStep DEF RedisForgets
<1>13. CASE ReadUnanswered
  BY <1>13, ReadUnansweredStep
<1>14. CASE HandleFails
  BY <1>14, ForgottenStep DEF HandleFails
<1>15. CASE PublishFails
  <2>1. CASE Published
    BY <1>15, <2>1, HandledStep DEF PublishFails, Published, Down
  <2>2. CASE UNCHANGED <<done, pending>>
    BY <1>15, <2>2, ForgottenStep DEF PublishFails, Down
  <2> QED  BY <1>15, <2>1, <2>2 DEF PublishFails
<1>16. CASE Crash
  BY <1>16, ForgottenStep DEF Crash, Down
<1>17. CASE TrimInfo \/ TrimPending \/ Trim \/ TrimFails
  BY <1>1, <1>17, QuietStep DEF TrimInfo, TrimPending, Trim, TrimFails
<1> QED
  BY <1>2, <1>3, <1>4, <1>5, <1>6, <1>7, <1>8, <1>9, <1>10, <1>11, <1>12, <1>13, <1>14,
     <1>15, <1>16, <1>17 DEF Next, Consume

LEMMA AlwaysOrderInv == Spec => [](IInv /\ OrderInv)
<1>1. Init => IInv /\ OrderInv
  BY InitIInv, InitOrderInv
<1>2. IInv /\ OrderInv /\ [Next]_vars => (IInv /\ OrderInv)'
  BY NextIInv, NextOrderInv
<1> QED  BY <1>1, <1>2, PTL DEF Spec

(* The engine handles no entry twice, wherever it stops and whether or not *)
(* Redis has run an EXEC that failed.                                      *)
THEOREM EngineHandlesEachOnce == Spec => []EngineHandlesOnce
<1>1. OrderInv => EngineHandlesOnce
  BY DEF OrderInv, EngineHandlesOnce
<1> QED  BY AlwaysOrderInv, <1>1, PTL

(* Entries are handled for the first time in the order of the stream,      *)
(* through crashes, failures and a Redis that forgets: only an entry whose *)
(* answer was lost is overtaken.                                           *)
THEOREM FirstHandledInOrder == Spec => HandledInOrder
<1> DEFINE InOrder == \A e \in (done' \ done) \ unanswered, d \in done : d < e
<1>1. ASSUME IInv, OrderInv, [Next]_vars PROVE InOrder
  <2>1. done' \subseteq done \/ (inbox # <<>> /\ done' \subseteq done \cup {Head(inbox)})
    BY <1>1 DEF Next, Consume, Start, ReadNoGroup, ReadPending, Read, Handle, Ack, Publish,
                Published, Write, GrowOld, RedisForgets, ReadUnanswered, HandleFails,
                PublishFails, Crash, TrimInfo, TrimPending, Trim, TrimFails, vars, consumer
  <2>2. CASE inbox # <<>> /\ done' \subseteq done \cup {Head(inbox)}
    <3>1. Head(inbox) \in Range(inbox)
      BY <1>1, <2>2, HeadAndTail DEF OrderInv
    <3> QED  BY <1>1, <2>2, <3>1 DEF OrderInv, Due
  <2> QED  BY <2>1, <2>2
<1>2. IInv /\ OrderInv /\ [Next]_vars => [InOrder]_vars
  BY <1>1
<1> HIDE DEF InOrder
<1>3. Spec => [][InOrder]_vars
  BY AlwaysOrderInv, <1>2, PTL DEF Spec
<1> QED  BY <1>3 DEF HandledInOrder, InOrder

-----------------------------------------------------------------------------
(* EngineLock.                                                             *)

\* How much of the time to live may be gone when the timer was set or last
\* fired, after n failed renewals in a row.
Grace(n) == Late + n * (Interval + Late)

\* An engine that has the lock owns the key, with time enough left.
LockHeld ==
  \A e \in Engine :
    /\ At(e, "granted") => holder = e /\ age[e] <= Late /\ ttl + age[e] >= Ttl
    /\ pc[e] \in Renewing => holder = e /\ ttl + age[e] + Grace(fails[e]) >= Ttl

LockInv == TypeOK /\ (punctual => LockHeld)

-----------------------------------------------------------------------------

(* What Grace grows by, and what Timely leaves of the time to live.        *)
LEMMA GraceFacts ==
  /\ Grace(0) = Late
  /\ \A n \in 0..MaxFails : Grace(n) \in Nat /\ Grace(n + 1) = Grace(n) + Interval + Late
  /\ Timely => \A n \in 0..MaxFails : Grace(n) + Interval + Late < Ttl
<1> DEFINE P == Interval + Late
<1>1. P \in Nat /\ MaxFails \in Nat /\ Late \in Nat /\ Interval \in Nat /\ Ttl \in Nat
  BY LockAssumption
<1>2. Grace(0) = Late
  <2>1. 0 * P = 0
    BY <1>1
  <2> QED
    BY <1>1, <2>1 DEF Grace
<1>3. ASSUME NEW n \in 0..MaxFails
      PROVE  /\ n * P \in Nat
             /\ (n + 1) * P = n * P + P
             /\ n * P <= MaxFails * P
             /\ (MaxFails + 1) * P = MaxFails * P + P /\ MaxFails * P \in Nat
  <2> HIDE DEF P
  <2>1. n \in Nat /\ MaxFails - n \in Nat
    BY <1>1
  <2>2. \A a, b \in Nat : a * b \in Nat /\ (a + 1) * b = a * b + b
    OBVIOUS
  <2>3. MaxFails * P = n * P + (MaxFails - n) * P
    BY <1>1, <2>1
  <2>4. (MaxFails - n) * P \in Nat
    BY <1>1, <2>1, <2>2
  <2> QED
    BY <1>1, <2>1, <2>2, <2>3, <2>4
<1>4. ASSUME NEW n \in 0..MaxFails
      PROVE  /\ Grace(n) \in Nat /\ Grace(n + 1) = Grace(n) + Interval + Late
             /\ Timely => Grace(n) + Interval + Late < Ttl
  <2>1. Grace(n) = Late + n * P /\ Grace(n + 1) = Late + (n + 1) * P
    BY DEF Grace
  <2>2. Timely => Late + (MaxFails + 1) * P < Ttl
    BY DEF Timely
  <2> HIDE DEF P
  <2>3. /\ Grace(n) \in Nat /\ Grace(n + 1) = Grace(n) + P
        /\ Timely => Grace(n) + P < Ttl
    BY <1>1, <1>3, <2>1, <2>2
  <2> QED
    BY <1>1, <2>3 DEF P
<1> QED
  BY <1>2, <1>4

LEMMA LockAtFirst == LockInit => LockInv
BY LockAssumption DEF LockInit, LockInv, TypeOK, LockHeld, Places, Renewing, At

(* Every step keeps the types, however late it is.                         *)
LEMMA LockTypes == TypeOK /\ [LockNext]_lockVars => TypeOK'
<1> SUFFICES ASSUME TypeOK, [LockNext]_lockVars PROVE TypeOK'
  OBVIOUS
<1> USE LockAssumption
<1>1. ASSUME NEW e \in Engine, StartUp(e) PROVE TypeOK'
  <2>1. stopping' \in [Engine -> BOOLEAN]
    BY <1>1 DEF TypeOK, StartUp
  <2>2. /\ pc' \in [Engine -> Places]
        /\ age' \in [Engine -> 0..(Interval + Late)]
        /\ fails' \in [Engine -> 0..MaxFails]
        /\ UNCHANGED <<holder, ttl, punctual, lockFaults>>
    BY <1>1 DEF TypeOK, Places, StartUp, Goto
  <2> QED
    BY <2>1, <2>2 DEF TypeOK
<1>2. ASSUME NEW e \in Engine, PublicationFails(e) \/ Stop(e) PROVE TypeOK'
  <2>1. stopping' \in [Engine -> BOOLEAN]
    BY <1>2 DEF TypeOK, PublicationFails, Stop
  <2>2. /\ pc' \in [Engine -> Places] /\ lockFaults' \in 0..MaxLockFaults
        /\ UNCHANGED <<holder, ttl, age, fails, punctual>>
    BY <1>2 DEF TypeOK, Places, PublicationFails, Stop, Goto, LockFault
  <2> QED
    BY <2>1, <2>2 DEF TypeOK
<1>3. ASSUME NEW e \in Engine,
             Recovered(e) \/ HandleNext(e) \/ ResultPublished(e) \/ Drain(e) \/ Leave(e)
             \/ Granted(e)
      PROVE  TypeOK'
  BY <1>3 DEF TypeOK, Places, Recovered, HandleNext, ResultPublished, Drain, Leave, Granted, Goto
<1>4. ASSUME NEW e \in Engine, Acquire(e) \/ AcquireUnanswered(e) PROVE TypeOK'
  BY <1>4 DEF TypeOK, Places, Acquire, AcquireUnanswered, Goto, LockFault
<1>5. ASSUME NEW e \in Engine, Renew(e) PROVE TypeOK'
  <2>1. stopping' \in [Engine -> BOOLEAN]
    BY <1>5 DEF TypeOK, Renew
  <2>2. /\ ttl' \in 0..Ttl /\ (ttl' = 0 <=> holder' = None)
        /\ age' \in [Engine -> 0..(Interval + Late)]
        /\ fails' \in [Engine -> 0..MaxFails]
        /\ UNCHANGED <<holder, pc, punctual, lockFaults>>
    BY <1>5 DEF TypeOK, Renew
  <2> QED
    BY <2>1, <2>2 DEF TypeOK
<1>6. ASSUME NEW e \in Engine, RenewFails(e) PROVE TypeOK'
  BY <1>6 DEF TypeOK, RenewFails
<1>7. ASSUME NEW e \in Engine, Release(e) PROVE TypeOK'
  BY <1>7 DEF TypeOK, Places, Release, Goto
<1>8. ASSUME NEW e \in Engine, Quit(e) \/ Killed(e) PROVE TypeOK'
  BY <1>8 DEF TypeOK, Places, Quit, Killed, Exit, Goto, LockFault
<1>9. ASSUME Tick PROVE TypeOK'
  <2>1. punctual' \in BOOLEAN
    BY <1>9 DEF TypeOK, Tick
  <2>2. /\ holder' \in Engine \cup {None, Orphan}
        /\ ttl' \in 0..Ttl /\ (ttl' = 0 <=> holder' = None)
        /\ age' \in [Engine -> 0..(Interval + Late)]
        /\ UNCHANGED <<pc, stopping, fails, lockFaults>>
    BY <1>9 DEF TypeOK, Tick
  <2> QED
    BY <2>1, <2>2 DEF TypeOK
<1>10. CASE UNCHANGED lockVars
  BY <1>10 DEF lockVars, TypeOK
<1> QED
  BY <1>1, <1>2, <1>3, <1>4, <1>5, <1>6, <1>7, <1>8, <1>9, <1>10
  DEF LockNext, EngineStep, Progress

(* A step that leaves alone who has the lock, and takes no one where the   *)
(* lock is needed, keeps LockHeld.                                             *)
LEMMA LockUndisturbed ==
  ASSUME LockHeld, NEW e \in Engine, TypeOK,
         pc' \in [Engine -> Places],
         UNCHANGED <<holder, ttl>>,
         \A f \in Engine \ {e} : pc'[f] = pc[f] /\ age'[f] = age[f] /\ fails'[f] = fails[f],
         pc'[e] \in Renewing \cup {"granted"} =>
           /\ age'[e] = age[e] /\ fails'[e] = fails[e]
           /\ pc[e] = pc'[e] \/ (pc[e] \in Renewing /\ pc'[e] \in Renewing)
  PROVE  LockHeld'
BY DEF LockHeld, At, Renewing

LEMMA LockStep == LockInv /\ Timely /\ [LockNext]_lockVars => LockInv'
<1> SUFFICES ASSUME LockInv, Timely, [LockNext]_lockVars PROVE LockInv'
  OBVIOUS
<1> USE LockAssumption
<1>t. TypeOK
  BY DEF LockInv
<1>u. TypeOK'
  BY LockTypes DEF LockInv
<1> SUFFICES ASSUME punctual' PROVE LockHeld'
  BY <1>u DEF LockInv
<1>p. punctual
  BY <1>t DEF LockNext, EngineStep, Progress, lockVars, TypeOK, Tick, StartUp, Acquire, AcquireUnanswered, Granted,
     Recovered, HandleNext, ResultPublished, PublicationFails, Renew, RenewFails, Stop, Drain, Release, Leave,
     Exit, Quit, Killed
<1>h. LockHeld
  BY <1>p DEF LockInv
<1>g. /\ Grace(0) = Late
      /\ \A n \in 0..MaxFails :
           /\ Grace(n) \in Nat /\ Grace(n + 1) = Grace(n) + Interval + Late
           /\ Grace(n) + Interval + Late < Ttl
  BY GraceFacts
<1>1. ASSUME NEW e \in Engine,
             StartUp(e) \/ Recovered(e) \/ HandleNext(e) \/ ResultPublished(e) \/ PublicationFails(e)
             \/ Stop(e) \/ Drain(e) \/ Leave(e)
      PROVE  LockHeld'
  BY <1>1, <1>t, <1>u, <1>h, LockUndisturbed DEF TypeOK, Places, Renewing, StartUp, Recovered, HandleNext,
     ResultPublished, PublicationFails, Stop, Drain, Leave, Goto, At
<1>2. ASSUME NEW e \in Engine, Acquire(e) \/ AcquireUnanswered(e)
      PROVE  LockHeld'
  <2>1. ASSUME NEW f \in Engine PROVE ~At(f, "granted") /\ pc[f] \notin Renewing
    BY <1>2, <1>t, <1>h DEF LockHeld, Acquire, AcquireUnanswered
  <2>2. CASE Acquire(e)
    BY <2>2, <1>t, <2>1 DEF TypeOK, LockHeld, Acquire, Goto, At, Renewing
  <2>3. CASE AcquireUnanswered(e)
    BY <2>3, <2>1 DEF LockHeld, AcquireUnanswered, At
  <2> QED
    BY <1>2, <2>2, <2>3
<1>3. ASSUME NEW e \in Engine, Granted(e) PROVE LockHeld'
  <2>1. holder = e /\ ttl + Late >= Ttl
    BY <1>3, <1>t, <1>h DEF TypeOK, LockHeld, Granted
  <2>2. ASSUME NEW f \in Engine \ {e} PROVE ~At(f, "granted") /\ pc[f] \notin Renewing
    BY <1>h, <2>1 DEF LockHeld
  <2>3. Grace(fails[e]) >= Late
    BY <1>t, <1>g DEF TypeOK, Grace
  <2> QED
    BY <1>3, <1>t, <1>g, <2>1, <2>2, <2>3 DEF TypeOK, LockHeld, Granted, Goto, At, Renewing
<1>4. ASSUME NEW e \in Engine, Renew(e) PROVE LockHeld'
  <2>1. holder = e /\ ttl' = Ttl /\ UNCHANGED <<holder, stopping>>
    BY <1>4, <1>h DEF LockHeld, Renew
  <2> QED
    BY <1>4, <1>t, <1>h, <1>g, <2>1 DEF TypeOK, LockHeld, Renew, At, Renewing
<1>5. ASSUME NEW e \in Engine, RenewFails(e) PROVE LockHeld'
  <2>1. holder = e /\ ttl + age[e] + Grace(fails[e]) >= Ttl /\ pc[e] # "granted"
    BY <1>5, <1>h DEF LockHeld, RenewFails, Renewing
  <2>2. ttl + Grace(fails[e] + 1) >= Ttl
    BY <1>t, <1>g, <2>1 DEF TypeOK
  <2> QED
    BY <1>5, <1>t, <1>h, <2>1, <2>2 DEF TypeOK, LockHeld, RenewFails, At
<1>6. ASSUME NEW e \in Engine, Release(e) PROVE LockHeld'
  <2>1. ASSUME NEW f \in Engine \ {e} PROVE ~At(f, "granted") /\ pc[f] \notin Renewing
    BY <1>6, <1>h DEF LockHeld, Release, Releasing, At, Renewing
  <2> QED
    BY <1>6, <1>t, <2>1 DEF TypeOK, LockHeld, Release, Goto, At, Renewing
<1>7. ASSUME NEW e \in Engine, Quit(e) \/ Killed(e) PROVE LockHeld'
  BY <1>7, <1>t, <1>h DEF TypeOK, LockHeld, Quit, Killed, Exit, Goto, At, Renewing
<1>8. ASSUME Tick PROVE LockHeld'
  <2>i. InTime
    BY <1>8 DEF Tick
  <2>1. ASSUME NEW e \in Engine, At(e, "granted")
        PROVE  holder' = e /\ age'[e] <= Late /\ ttl' + age'[e] >= Ttl
    <3>1. holder = e /\ age[e] < Late /\ ttl + age[e] >= Ttl
      BY <1>h, <2>1, <2>i DEF LockHeld, InTime
    <3>2. Late < Ttl
      BY <1>g
    <3> QED
      BY <1>8, <1>t, <2>1, <3>1, <3>2 DEF TypeOK, Tick, At
  <2>2. ASSUME NEW e \in Engine, pc[e] \in Renewing
        PROVE  holder' = e /\ ttl' + age'[e] + Grace(fails[e]) >= Ttl
    <3>1. holder = e /\ age[e] < Interval + Late /\ ttl + age[e] + Grace(fails[e]) >= Ttl
      BY <1>h, <2>2, <2>i DEF LockHeld, InTime
    <3>2. Grace(fails[e]) \in Nat /\ Grace(fails[e]) + Interval + Late < Ttl
      BY <1>t, <1>g DEF TypeOK
    <3> QED
      BY <1>8, <1>t, <2>2, <3>1, <3>2 DEF TypeOK, Tick
  <2> QED
    BY <1>8, <2>1, <2>2 DEF LockHeld, Tick, At
<1>9. CASE UNCHANGED lockVars
  BY <1>9, <1>h DEF lockVars, LockHeld, At
<1> QED
  BY <1>1, <1>2, <1>3, <1>4, <1>5, <1>6, <1>7, <1>8, <1>9 DEF LockNext, EngineStep, Progress

(* However many processes start, stop and die, only one engine at a time   *)
(* matches, or rebuilds the book it is going to match from, as long as     *)
(* nothing is later than Timely allows.                                    *)
THEOREM LockOneEngine == Timely => (LockSpec => []OneEngine)
<1> SUFFICES ASSUME Timely PROVE LockSpec => []OneEngine
  OBVIOUS
<1>1. LockInit => LockInv
  BY LockAtFirst
<1>2. LockInv /\ [LockNext]_lockVars => LockInv'
  BY LockStep
<1>3. LockInv => OneEngine
  BY DEF LockInv, LockHeld, OneEngine, Active, Renewing
<1> QED
  BY <1>1, <1>2, <1>3, PTL DEF LockSpec

(* Whatever the delays, the state keeps its types: among them, the key     *)
(* exists exactly while its time to live runs.                             *)
THEOREM LockTypeCorrect == LockSpec => []TypeOK
<1>1. LockInit => TypeOK
  BY LockAtFirst DEF LockInv
<1> QED
  BY <1>1, LockTypes, PTL DEF LockSpec

(* Whatever the delays, the lock leaves a live engine only by its own      *)
(* release or by expiry: no script of another touches it.                  *)
THEOREM LockNotTakenAway == LockSpec => NotTakenAway
<1> DEFINE Kept(e) == holder = e /\ holder' # e => ttl = 1 \/ pc'[e] \in {"leaving", "down"}
<1>1. ASSUME TypeOK, [LockNext]_lockVars, NEW e \in Engine, holder = e, holder' # e
      PROVE  ttl = 1 \/ pc'[e] \in {"leaving", "down"}
  <2> USE LockAssumption
  <2>1. CASE Tick
    BY <1>1, <2>1 DEF Tick
  <2>2. ASSUME NEW f \in Engine, Release(f)
        PROVE  pc'[e] = "leaving"
    BY <1>1, <2>2 DEF TypeOK, Release, Goto
  <2>3. ASSUME NEW f \in Engine, Quit(f) \/ Killed(f)
        PROVE  pc'[e] = "down"
    BY <1>1, <2>3 DEF TypeOK, Quit, Killed, Exit, Goto
  <2>4. ASSUME NEW f \in Engine,
               \/ StartUp(f) \/ Granted(f) \/ Recovered(f) \/ HandleNext(f) \/ ResultPublished(f)
               \/ PublicationFails(f) \/ Renew(f) \/ RenewFails(f) \/ Stop(f) \/ Drain(f)
               \/ Leave(f) \/ Acquire(f) \/ AcquireUnanswered(f)
        PROVE  FALSE
    BY <1>1, <2>4 DEF StartUp, Granted, Recovered, HandleNext, ResultPublished, PublicationFails, Renew,
       RenewFails, Stop, Drain, Leave, Acquire, AcquireUnanswered
  <2>5. CASE UNCHANGED lockVars
    BY <1>1, <2>5 DEF lockVars
  <2> QED
    BY <1>1, <2>1, <2>2, <2>3, <2>4, <2>5 DEF LockNext, EngineStep, Progress
<1>2. TypeOK /\ [LockNext]_lockVars => [\A e \in Engine : Kept(e)]_lockVars
  BY <1>1
<1> QED
  BY <1>2, LockTypeCorrect, PTL DEF LockSpec, NotTakenAway
=============================================================================
