--------------------------- MODULE ServiceProofs ----------------------------
(***************************************************************************)
(* Proofs about the services around the exchange, for all values of their  *)
(* constants: the liquidator keeps at most one liquidation order of a user *)
(* open, and the clients of the WebSocket gateway never see different      *)
(* books, nor after a restart older ones.                                  *)
(*                                                                         *)
(* That the liquidator looks before it writes is not enough: nothing else  *)
(* may open a row between the look and the write, and settlement, which    *)
(* writes to the rows all the time, may not open one again.  IInv says     *)
(* why: only the liquidator writes new rows (Clear), and a result of a     *)
(* liquidation order is always its last (Last).                            *)
(***************************************************************************)
EXTENDS Liquidator, WsFanout, WellFoundedInduction, TLAPS

-----------------------------------------------------------------------------
(* The liquidator.                                                         *)

\* A row that was written.
IsRow(i) == rows[i] = [user     |-> rows[i].user, qty      |-> rows[i].qty,
                       open     |-> rows[i].open, accepted |-> rows[i].accepted]

IsSeq(s) == \E S : s \in Seq(S)

Rows ==
  /\ rows = [i \in Id |-> rows[i]]
  /\ \A i \in Slot : rows[i] = None \/ IsRow(i)

\* What is sent of a liquidation order was written.
Sent ==
  /\ IsSeq(stream)
  /\ \A n \in DOMAIN stream :
       stream[n].type = "create" /\ stream[n].order \in Slot => IsRow(stream[n].order)

\* The result of a liquidation order leaves it over.
Last ==
  /\ IsSeq(results)
  /\ \A n \in DOMAIN results :
       results[n].order \in Slot => IsRow(results[n].order) /\ results[n].over = TRUE

\* Between the look and the write no liquidation order of the user is open.
Clear ==
  /\ at \in {"look", "cancel"} => \A i \in Slot : IsOpen(i) => rows[i].user # target.user
  /\ at = "enqueue" => \A i \in cancels : i \in Slot => IsRow(i)

IInv == Rows /\ Sent /\ Last /\ Clear /\ OneInFlight

-----------------------------------------------------------------------------

LEMMA AppendIsSeq ==
  ASSUME NEW s, IsSeq(s), NEW e
  PROVE  /\ IsSeq(Append(s, e))
         /\ \A n \in DOMAIN Append(s, e) :
              Append(s, e)[n] = e \/ (n \in DOMAIN s /\ Append(s, e)[n] = s[n])
<1>1. PICK S : s \in Seq(S)  BY DEF IsSeq
<1>2. Append(s, e) \in Seq(S \cup {e})  BY <1>1
<1>3. \A n \in DOMAIN Append(s, e) :
        Append(s, e)[n] = e \/ (n \in DOMAIN s /\ Append(s, e)[n] = s[n])
  BY <1>1
<1> QED  BY <1>2, <1>3 DEF IsSeq

LEMMA TailIsSeq ==
  ASSUME NEW s, IsSeq(s), s # <<>>
  PROVE  /\ IsSeq(Tail(s))
         /\ 1 \in DOMAIN s /\ Head(s) = s[1]
         /\ \A n \in DOMAIN Tail(s) : n + 1 \in DOMAIN s /\ Tail(s)[n] = s[n + 1]
<1>1. PICK S : s \in Seq(S)  BY DEF IsSeq
<1>2. Tail(s) \in Seq(S)  BY <1>1
<1>3. 1 \in DOMAIN s /\ Head(s) = s[1]  BY <1>1
<1>4. \A n \in DOMAIN Tail(s) : n + 1 \in DOMAIN s /\ Tail(s)[n] = s[n + 1]  BY <1>1
<1> QED  BY <1>2, <1>3, <1>4 DEF IsSeq

\* What the parts of IInv say of sequences, for one entry added or taken.
LEMMA Sends ==
  ASSUME Sent, NEW e, stream' = Append(stream, e), UNCHANGED rows,
         e.type = "create" /\ e.order \in Slot => IsRow(e.order)
  PROVE  Sent'
<1>1. IsSeq(stream')  BY AppendIsSeq DEF Sent
<1>2. ASSUME NEW n \in DOMAIN stream' PROVE stream'[n] = e \/ (n \in DOMAIN stream /\ stream'[n] = stream[n])
  BY AppendIsSeq DEF Sent
<1> QED  BY <1>1, <1>2 DEF Sent, IsRow, IsSeq

LEMMA Receives ==
  ASSUME Sent, NEW e, Handles(e), UNCHANGED rows
  PROVE  Sent' /\ (e.type = "create" /\ e.order \in Slot => IsRow(e.order))
<1>1. stream # <<>> /\ Head(stream) = e /\ stream' = Tail(stream)  BY DEF Handles
<1>2. IsSeq(stream')  BY <1>1, TailIsSeq DEF Sent
<1>3. 1 \in DOMAIN stream /\ e = stream[1]  BY <1>1, TailIsSeq DEF Sent
<1>4. \A n \in DOMAIN stream' : n + 1 \in DOMAIN stream /\ stream'[n] = stream[n + 1]
  BY <1>1, TailIsSeq DEF Sent
<1> QED  BY <1>2, <1>3, <1>4 DEF Sent, IsRow, IsSeq

LEMMA Reports ==
  ASSUME Last, NEW i, NEW k, NEW over, Report(i, k, over), UNCHANGED rows,
         i \in Slot => IsRow(i) /\ over = TRUE
  PROVE  Last'
<1> DEFINE r == [order |-> i, fill |-> k, over |-> over]
<1>1. results' = Append(results, r)  BY DEF Report
<1>2. IsSeq(results')  BY <1>1, AppendIsSeq DEF Last
<1>3. \A n \in DOMAIN results' : results'[n] = r \/ (n \in DOMAIN results /\ results'[n] = results[n])
  BY <1>1, AppendIsSeq DEF Last
<1>4. r.order = i /\ r.over = over  OBVIOUS
<1> HIDE DEF r
<1> QED  BY <1>2, <1>3, <1>4 DEF Last, IsRow, IsSeq

\* An engine step leaves the rows, and the liquidator, alone.
LEMMA Aside ==
  ASSUME IInv, UNCHANGED <<rows, loop>>, Sent', Last'
  PROVE  IInv'
BY DEF IInv, Rows, Clear, OneInFlight, IsOpen, IsRow, loop

-----------------------------------------------------------------------------

LEMMA InitIInv == Init => IInv
<1> SUFFICES ASSUME Init PROVE IInv  OBVIOUS
<1>1. IsSeq(stream) /\ IsSeq(results)  BY DEF Init, IsSeq
<1>2. DOMAIN stream = {} /\ DOMAIN results = {}  BY DEF Init
<1> QED  BY <1>1, <1>2 DEF Init, IInv, Rows, Sent, Last, Clear, OneInFlight, IsOpen, Id

\* Settlement closes the row of a liquidation order, and opens none.
LEMMA SettleIInv ==
  ASSUME IInv, Settle
  PROVE  IInv'
<1>0. PICK i : i = Head(results).order  OBVIOUS
<1>1. results # <<>> /\ results' = Tail(results)  BY DEF Settle
<1>2. /\ IsSeq(results')
      /\ 1 \in DOMAIN results /\ Head(results) = results[1]
      /\ \A n \in DOMAIN results' : n + 1 \in DOMAIN results /\ results'[n] = results[n + 1]
  BY <1>1, TailIsSeq DEF IInv, Last
<1>3. i \in Slot => IsRow(i) /\ Head(results).over = TRUE  BY <1>0, <1>2 DEF IInv, Last
<1>4. /\ rows' = [rows EXCEPT ![i].accepted = TRUE, ![i].open = ~Head(results).over]
      /\ UNCHANGED <<stream, at, target, cancels>>
  BY <1>0 DEF Settle, loop
<1> DEFINE c == ~Head(results).over
<1>f. PICK f : f = [rows EXCEPT ![i].accepted = TRUE]  OBVIOUS
<1>a. rows' = [f EXCEPT ![i].open = c]  BY <1>4, <1>f
<1>b. rows = [j \in Id |-> rows[j]]  BY DEF IInv, Rows
<1>c. /\ f = [j \in Id |-> f[j]]
      /\ \A j \in Id : j # i => f[j] = rows[j]
      /\ i \in Id => f[i] = [rows[i] EXCEPT !.accepted = TRUE]
  BY <1>b, <1>f
<1>d. i \in Slot => c = FALSE  BY <1>3
<1> HIDE DEF c
<1>5. /\ rows' = [j \in Id |-> rows'[j]]
      /\ \A j \in Id : j # i => rows'[j] = f[j]
      /\ i \in Id => rows'[i] = [f[i] EXCEPT !.open = c]
  BY <1>a, <1>c
<1>6. ASSUME NEW j \in Slot, j # i PROVE rows'[j] = rows[j]
  BY <1>5, <1>6, <1>c DEF Id
<1>7. ASSUME i \in Slot PROVE IsRow(i)' /\ ~rows'[i].open
  <2>1. f[i] = [user |-> rows[i].user, qty |-> rows[i].qty, open |-> rows[i].open, accepted |-> TRUE]
    BY <1>3, <1>7, <1>c DEF IsRow, Id
  <2>2. rows'[i] = [user |-> rows[i].user, qty |-> rows[i].qty, open |-> FALSE, accepted |-> TRUE]
    BY <2>1, <1>5, <1>7, <1>d DEF Id
  <2> DEFINE r == [user |-> rows[i].user, qty |-> rows[i].qty, open |-> FALSE, accepted |-> TRUE]
  <2>3. /\ r = [user |-> r.user, qty |-> r.qty, open |-> r.open, accepted |-> r.accepted]
        /\ ~r.open
    OBVIOUS
  <2>4. rows'[i] = r  BY <2>2
  <2> HIDE DEF r
  <2> QED  BY <2>3, <2>4 DEF IsRow
<1>8. ASSUME NEW j \in Slot, IsRow(j) PROVE IsRow(j)'
  <2>1. CASE j = i  BY <2>1, <1>7
  <2>2. CASE j # i
    <3>1. rows'[j] = rows[j]  BY <2>2, <1>6
    <3> QED  BY <3>1, <1>8 DEF IsRow
  <2> QED  BY <2>1, <2>2
<1>9. ASSUME NEW j \in Slot, IsOpen(j)' PROVE IsOpen(j) /\ rows'[j] = rows[j]
  BY <1>6, <1>7, <1>9 DEF IsOpen
<1>10. Rows'
  <2>1. ASSUME NEW j \in Slot PROVE rows'[j] = None \/ IsRow(j)'
    <3>1. CASE j = i  BY <3>1, <1>7
    <3>2. CASE j # i  BY <3>2, <1>6, <1>8 DEF IInv, Rows
    <3> QED  BY <3>1, <3>2
  <2> QED  BY <1>5, <2>1 DEF Rows
<1>11. Sent'  BY <1>4, <1>8 DEF IInv, Sent
<1>12. Last'  BY <1>2, <1>8 DEF IInv, Last
<1>13. Clear'  BY <1>4, <1>8, <1>9 DEF IInv, Clear
<1>14. OneInFlight'  BY <1>9 DEF IInv, OneInFlight
<1> QED  BY <1>10, <1>11, <1>12, <1>13, <1>14 DEF IInv

\* The closing order is the first of its user.
LEMMA WriteRowIInv ==
  ASSUME IInv, NEW i \in Slot, WriteRow(i)
  PROVE  IInv'
<1> DEFINE r == [user |-> target.user, qty |-> -target.pos.qty, open |-> TRUE, accepted |-> FALSE]
<1>1. /\ at = "cancel" /\ ~IsOpen(i)
      /\ rows' = [rows EXCEPT ![i] = r]
      /\ at' = "enqueue" /\ cancels' = {i}
      /\ UNCHANGED <<stream, results, target>>
  BY DEF WriteRow, Free
<1>2. r = [user |-> r.user, qty |-> r.qty, open |-> r.open, accepted |-> r.accepted]
      /\ r.user = target.user
  OBVIOUS
<1> HIDE DEF r
<1>3. /\ rows' = [j \in Id |-> rows'[j]]
      /\ rows'[i] = r
      /\ \A j \in Slot : j # i => rows'[j] = rows[j]
  BY <1>1 DEF IInv, Rows, Id
<1>4. IsRow(i)'  BY <1>2, <1>3 DEF IsRow
<1>5. \A j \in Slot : IsRow(j) => IsRow(j)'  BY <1>3, <1>4 DEF IsRow
<1>6. Rows'  BY <1>3, <1>4 DEF IInv, Rows, IsRow
<1>7. Sent'  BY <1>1, <1>5 DEF IInv, Sent
<1>8. Last'  BY <1>1, <1>5 DEF IInv, Last
<1>9. Clear'  BY <1>1, <1>4 DEF Clear
<1>10. ASSUME NEW j \in Slot, j # i, IsOpen(j)' PROVE rows'[j].user # r.user
  BY <1>1, <1>2, <1>3, <1>10 DEF IInv, Clear, IsOpen
<1>11. OneInFlight'
  <2>1. ASSUME NEW j \in Slot, NEW k \in Slot, j # i, k # i, IsOpen(j)', IsOpen(k)',
               rows'[j].user = rows'[k].user
        PROVE  j = k
    BY <1>3, <2>1 DEF IInv, OneInFlight, IsOpen
  <2> QED  BY <1>3, <1>10, <2>1 DEF OneInFlight
<1> QED  BY <1>6, <1>7, <1>8, <1>9, <1>11 DEF IInv

LEMMA EnqueueFailsIInv ==
  ASSUME IInv, NEW i \in Slot, EnqueueFails(i)
  PROVE  IInv'
<1>1. /\ at = "enqueue" /\ cancels = {i} /\ at' = "scan" /\ cancels' = {}
      /\ rows' = [rows EXCEPT ![i].open = FALSE] \/ UNCHANGED rows
      /\ UNCHANGED <<stream, results>>
  BY DEF EnqueueFails, Return
<1>2. IsRow(i)  BY <1>1 DEF IInv, Clear
<1>3. /\ rows' = [j \in Id |-> rows'[j]]
      /\ \A j \in Slot : j # i => rows'[j] = rows[j]
  BY <1>1 DEF IInv, Rows, Id
<1>4. IsRow(i)' /\ (rows'[i] = rows[i] \/ ~rows'[i].open)
  BY <1>1, <1>2 DEF IInv, Rows, Id, IsRow
<1>5. \A j \in Slot : IsRow(j) => IsRow(j)'  BY <1>3, <1>4 DEF IsRow
<1>6. \A j \in Slot : IsOpen(j)' => IsOpen(j) /\ rows'[j] = rows[j]
  BY <1>3, <1>4 DEF IsOpen
<1>7. Rows'  BY <1>3, <1>4 DEF IInv, Rows, IsRow
<1>8. Sent' /\ Last'  BY <1>1, <1>5 DEF IInv, Sent, Last
<1>9. Clear'  BY <1>1 DEF Clear
<1>10. OneInFlight'  BY <1>6 DEF IInv, OneInFlight
<1> QED  BY <1>7, <1>8, <1>9, <1>10 DEF IInv

\* A user's order is no liquidation order.
LEMMA PlaceIInv ==
  ASSUME LiquidatorAssumption, IInv,
         NEW u \in User, NEW o \in Order, NEW dir \in {1, -1}, Place(u, o, dir)
  PROVE  IInv'
<1> DEFINE e == [type |-> "create", order |-> o]
<1>1. /\ stream' = Append(stream, e) /\ o \notin Slot
      /\ rows' = [rows EXCEPT ![o] =
                    [user |-> u, qty |-> dir, open |-> TRUE, accepted |-> FALSE]]
      /\ UNCHANGED <<results, at, target, cancels>>
  BY DEF Place, loop, LiquidatorAssumption
<1>2. e.order = o  OBVIOUS
<1> HIDE DEF e
<1>3. rows' = [j \in Id |-> rows'[j]] /\ \A j \in Slot : rows'[j] = rows[j]
  BY <1>1 DEF IInv, Rows, Id
<1>4. \A j \in Slot : (IsRow(j)' <=> IsRow(j)) /\ (IsOpen(j)' <=> IsOpen(j))
  BY <1>3 DEF IsRow, IsOpen
<1>5. IsSeq(stream') /\ \A n \in DOMAIN stream' :
        stream'[n] = e \/ (n \in DOMAIN stream /\ stream'[n] = stream[n])
  BY <1>1, AppendIsSeq DEF IInv, Sent
<1>6. Rows'  BY <1>3, <1>4 DEF IInv, Rows
<1>7. Sent'  BY <1>1, <1>2, <1>4, <1>5 DEF IInv, Sent
<1>8. Last'  BY <1>1, <1>4 DEF IInv, Last
<1>9. Clear'  BY <1>1, <1>3, <1>4 DEF IInv, Clear
<1>10. OneInFlight'  BY <1>3, <1>4 DEF IInv, OneInFlight
<1> QED  BY <1>6, <1>7, <1>8, <1>9, <1>10 DEF IInv

-----------------------------------------------------------------------------
(* Steps that leave the rows alone.                                        *)

LEMMA LiquidatesIInv ==
  ASSUME IInv, NEW i \in Slot, NEW k, Liquidates(i, k)
  PROVE  IInv'
<1> DEFINE e == [type |-> "create", order |-> i]
<1>1. Handles(e) /\ Report(i, k, TRUE) /\ UNCHANGED <<rows, loop>>  BY DEF Liquidates
<1>2. e.type = "create" /\ e.order = i  OBVIOUS
<1> HIDE DEF e
<1>3. Sent' /\ IsRow(i)  BY <1>1, <1>2, Receives DEF IInv
<1>4. Last'  BY <1>1, <1>3, Reports DEF IInv
<1> QED  BY <1>1, <1>3, <1>4, Aside

LEMMA EngineOrderIInv ==
  ASSUME LiquidatorAssumption, IInv, NEW o \in Order,
         EngineRests(o) \/ EngineCancels(o) \/ EngineFills(o)
  PROVE  IInv'
<1>1. o \notin Slot  BY DEF LiquidatorAssumption
<1>2. UNCHANGED <<rows, loop>>  BY DEF EngineRests, EngineCancels, EngineFills
<1>3. (\E e : Handles(e)) \/ UNCHANGED stream
  BY DEF EngineRests, EngineCancels, EngineFills
<1>4. (\E k, over : Report(o, k, over)) \/ UNCHANGED results
  BY DEF EngineRests, EngineCancels, EngineFills
<1>5. Sent'
  <2>1. CASE UNCHANGED stream  BY <2>1, <1>2 DEF IInv, Sent, IsRow
  <2>2. CASE \E e : Handles(e)  BY <2>2, <1>2, Receives DEF IInv
  <2> QED  BY <1>3, <2>1, <2>2
<1>6. Last'
  <2>1. CASE UNCHANGED results  BY <2>1, <1>2 DEF IInv, Last, IsRow
  <2>2. CASE \E k, over : Report(o, k, over)
    <3>1. PICK k, over : Report(o, k, over)  BY <2>2
    <3> QED  BY <3>1, <1>1, <1>2, Reports DEF IInv
  <2> QED  BY <1>4, <2>1, <2>2
<1> QED  BY <1>2, <1>5, <1>6, Aside

LEMMA CheckIInv ==
  ASSUME IInv, Check
  PROVE  IInv'
<1>1. UNCHANGED <<rows, stream, results>>  BY DEF Check
<1>2. Clear'
  <2>1. CASE Return  BY <2>1 DEF Return, Clear
  <2>2. CASE ~Return
    <3>1. InFlight(target.user) = {} /\ at' = "look" /\ UNCHANGED <<target, cancels>>
      BY <2>2 DEF Check
    <3> QED  BY <3>1, <1>1 DEF Clear, InFlight, IsOpen
  <2> QED  BY <2>1, <2>2
<1> QED  BY <1>1, <1>2 DEF IInv, Rows, Sent, Last, OneInFlight, IsOpen, IsRow

\* The rest of the scan neither writes rows nor comes past the look unlooked.
LEMMA ScanIInv ==
  ASSUME IInv, UNCHANGED <<rows, stream, results>>,
         \/ at' \notin {"look", "cancel", "enqueue"}
         \/ at = "look" /\ at' = "cancel" /\ UNCHANGED target
         \/ UNCHANGED <<at, target, cancels>>
  PROVE  IInv'
<1>1. Clear'  BY DEF IInv, Clear, IsOpen, IsRow
<1> QED  BY <1>1 DEF IInv, Rows, Sent, Last, OneInFlight, IsOpen, IsRow

LEMMA CancelIInv ==
  ASSUME IInv, NEW o, Cancel(o)
  PROVE  IInv'
<1> DEFINE e == [type |-> "cancel", order |-> o]
<1>1. /\ stream' = Append(stream, e) /\ UNCHANGED <<rows, results, at, target>>
      /\ at = "cancel"
  BY DEF Cancel
<1>2. e.type # "create"  OBVIOUS
<1> HIDE DEF e
<1>3. Sent'  BY <1>1, <1>2, Sends DEF IInv
<1>4. Clear'  BY <1>1 DEF IInv, Clear, IsOpen
<1> QED  BY <1>1, <1>3, <1>4 DEF IInv, Rows, Last, OneInFlight, IsOpen, IsRow

LEMMA EnqueueIInv ==
  ASSUME IInv, NEW i, Enqueue(i)
  PROVE  IInv'
<1> DEFINE e == [type |-> "create", order |-> i]
<1>1. /\ stream' = Append(stream, e) /\ UNCHANGED <<rows, results>>
      /\ at = "enqueue" /\ cancels = {i} /\ at' = "scan"
  BY DEF Enqueue, Return
<1>2. e.order = i  OBVIOUS
<1> HIDE DEF e
<1>3. i \in Slot => IsRow(i)  BY <1>1 DEF IInv, Clear
<1>4. Sent'  BY <1>1, <1>2, <1>3, Sends DEF IInv
<1>5. Clear'  BY <1>1 DEF Clear
<1> QED  BY <1>1, <1>4, <1>5 DEF IInv, Rows, Last, OneInFlight, IsOpen, IsRow

-----------------------------------------------------------------------------

LEMMA NextIInv ==
  ASSUME LiquidatorAssumption, IInv, [Next]_vars
  PROVE  IInv'
<1>1. CASE UNCHANGED vars  BY <1>1, ScanIInv DEF vars, loop
<1>2. CASE Scan
  <2>1. CASE ReadPrice \/ ReadPositions \/ EndScan \/ Look
    BY <2>1, ScanIInv DEF ReadPrice, ReadPositions, EndScan, Look
  <2>2. ASSUME NEW p \in left, Pass(p) \/ Attempt(p) PROVE IInv'
    BY <2>2, ScanIInv DEF Pass, Attempt
  <2>3. CASE Check  BY <2>3, CheckIInv
  <2>4. ASSUME NEW o \in cancels, Cancel(o) \/ Enqueue(o) PROVE IInv'
    BY <2>4, CancelIInv, EnqueueIInv
  <2>5. ASSUME NEW i \in Slot, WriteRow(i) PROVE IInv'  BY <2>5, WriteRowIInv
  <2> QED  BY <1>2, <2>1, <2>2, <2>3, <2>4, <2>5 DEF Scan
<1>3. CASE Engine
  <2>1. ASSUME NEW o \in Order, EngineRests(o) \/ EngineCancels(o) PROVE IInv'
    BY <2>1, EngineOrderIInv
  <2>2. ASSUME NEW i \in Slot, EngineCloses(i) \/ EngineDiscards(i) PROVE IInv'
    BY <2>2, LiquidatesIInv DEF EngineCloses, EngineDiscards
  <2> QED  BY <1>3, <2>1, <2>2 DEF Engine
<1>4. CASE Settle  BY <1>4, SettleIInv
<1>5. ASSUME NEW i \in Slot, EnqueueFails(i) PROVE IInv'  BY <1>5, EnqueueFailsIInv
<1>6. CASE TriggerFails \/ ScanFails \/ Dies \/ TimePasses \/ PriceMoves
  BY <1>6, ScanIInv DEF TriggerFails, Return, ScanFails, Dies, TimePasses, PriceMoves, loop
<1>7. ASSUME NEW o \in Order, EngineFills(o) PROVE IInv'  BY <1>7, EngineOrderIInv
<1>8. ASSUME NEW o \in Order, NEW u \in User, NEW dir \in {1, -1}, Place(u, o, dir) PROVE IInv'
  BY <1>8, PlaceIInv
<1> QED  BY <1>1, <1>2, <1>3, <1>4, <1>5, <1>6, <1>7, <1>8 DEF Next

(* At most one liquidation order of a user is open at a time.  That is     *)
(* triggerLiquidation's check, for an engine, a db-worker and users that   *)
(* run between any two of its calls, calls that fail and restarts.         *)
THEOREM OneClosingOrder == Spec => []OneInFlight
<1>1. Init => IInv  BY InitIInv
<1>2. IInv /\ [Next]_vars => IInv'  BY NextIInv, LiquidatorAssumption
<1>3. IInv => OneInFlight  BY DEF IInv
<1> QED  BY <1>1, <1>2, <1>3, PTL DEF Spec

-----------------------------------------------------------------------------
(* The WebSocket gateway.                                                  *)

(* A set of numbers with a bound has a greatest one, and Max is it.        *)
LEMMA MaxOf ==
  ASSUME NEW n \in Nat, NEW S \in SUBSET (1..n), S # {}
  PROVE  Max(S) \in S /\ \A y \in S : y <= Max(S)
<1> DEFINE R == {ss \in Nat \X Nat : ss[1] < ss[2]}
           Gaps == {n - x : x \in S}
<1>1. IsWellFoundedOn(R, Nat)
  BY NatLessThanWellFounded, Zenon DEF OpToRel
<1>2. Gaps \in SUBSET Nat /\ Gaps # {}
  <2>1. \A x \in S : n - x \in Nat
    OBVIOUS
  <2>2. PICK x \in S : TRUE
    OBVIOUS
  <2>3. n - x \in Gaps
    BY <2>2
  <2>4. Gaps \in SUBSET Nat
    BY <2>1
  <2> QED  BY <2>3, <2>4
<1>3. PICK g \in Gaps : \A h \in Gaps : ~(<<h, g>> \in R)
  <2> HIDE DEF R, Gaps
  <2> QED  BY <1>1, <1>2, WFMin, Zenon
<1>4. \A h \in Gaps : g <= h
  <2> SUFFICES ASSUME NEW h \in Gaps, ~(g <= h) PROVE FALSE
    OBVIOUS
  <2>1. h < g /\ <<h, g>> \in Nat \X Nat
    BY <1>2
  <2>2. <<h, g>> \in R
    BY <2>1
  <2> QED  BY <1>3, <2>2
<1>5. PICK x \in S : g = n - x
  OBVIOUS
<1>6. \A y \in S : x >= y
  <2> SUFFICES ASSUME NEW y \in S PROVE x >= y
    OBVIOUS
  <2>1. n - y \in Gaps
    OBVIOUS
  <2> QED  BY <1>4, <1>5, <2>1
<1>7. Max(S) \in S /\ \A y \in S : Max(S) >= y
  BY <1>6 DEF Max
<1> QED  BY <1>7

(* What LastOf is, and that it is not advanced by updates behind it.       *)
LEMMA LastOfIs ==
  ASSUME updates \in Seq(Market), NEW m \in Market, NEW from \in Int, NEW to \in Int
  PROVE  /\ LastOf(m, from, to) \in Nat
         /\ LastOf(m, from, to) # 0 =>
              /\ LastOf(m, from, to) \in from..to \cap DOMAIN updates
              /\ LastOf(m, from, to) > trimmed
              /\ updates[LastOf(m, from, to)] = m
         /\ \A i \in from..to \cap DOMAIN updates :
              i > trimmed /\ updates[i] = m
                => LastOf(m, from, to) # 0 /\ i <= LastOf(m, from, to)
<1> DEFINE places == {i \in from..to : i > trimmed /\ i \in DOMAIN updates /\ updates[i] = m}
<1>1. places \in SUBSET (1..Len(updates)) /\ Len(updates) \in Nat
  OBVIOUS
<1>2. LastOf(m, from, to) = IF places = {} THEN 0 ELSE Max(places)
  BY DEF LastOf
<1>3. places # {} => Max(places) \in places /\ \A y \in places : y <= Max(places)
  <2> HIDE DEF places
  <2> QED  BY <1>1, MaxOf
<1> QED  BY <1>1, <1>2, <1>3

LEMMA LastOfStays ==
  ASSUME updates \in Seq(Market), NEW m \in Market, NEW to \in Int, to <= Len(updates),
         NEW u \in Market, updates' = Append(updates, u),
         trimmed \in Nat, trimmed' \in Nat, trimmed <= trimmed'
  PROVE  LastOf(m, 1, to)' \in Nat /\ LastOf(m, 1, to)' <= LastOf(m, 1, to)
<1> DEFINE remaining == {i \in 1..to : i > trimmed' /\ i \in DOMAIN updates' /\ updates'[i] = m}
<1>1. /\ remaining \in SUBSET (1..Len(updates)) /\ Len(updates) \in Nat
      /\ \A i \in remaining : i \in 1..to \cap DOMAIN updates /\ i > trimmed /\ updates[i] = m
  OBVIOUS
<1>2. LastOf(m, 1, to)' = IF remaining = {} THEN 0 ELSE Max(remaining)
  BY DEF LastOf
<1>3. remaining # {} => Max(remaining) \in remaining
  <2> HIDE DEF remaining
  <2> QED  BY <1>1, MaxOf
<1>4. LastOf(m, 1, to) \in Nat
  BY LastOfIs
<1>5. \A i \in remaining : i <= LastOf(m, 1, to)
  <2> HIDE DEF remaining
  <2> QED  BY <1>1, LastOfIs
<1> HIDE DEF remaining
<1>6. CASE remaining = {}
  <2>1. LastOf(m, 1, to)' = 0
    BY ONLY <1>2, <1>6
  <2> QED  BY ONLY <2>1, <1>4
<1>7. CASE remaining # {}
  <2>1. PICK p : p = Max(remaining)
    OBVIOUS
  <2>2. LastOf(m, 1, to)' = p
    BY ONLY <1>2, <1>7, <2>1
  <2>3. p \in remaining
    BY ONLY <1>3, <1>7, <2>1
  <2>4. p \in Nat
    BY ONLY <1>1, <2>3
  <2>5. p <= LastOf(m, 1, to)
    BY ONLY <1>5, <2>3
  <2> QED  BY ONLY <2>2, <2>4, <2>5
<1> QED  BY ONLY <1>6, <1>7

-----------------------------------------------------------------------------

Types ==
  /\ updates \in Seq(Market)
  /\ trimmed \in Nat /\ primed \in Nat
  /\ cursor \in 0..Len(updates)
  /\ saved \in -1..Len(updates)
  /\ pc \in {"down", "priming", "placing", "listening"}
  /\ latest \in [Market -> Nat]
  /\ \A c \in DOMAIN shown : shown[c] \in [Market -> Nat]

\* Whoever connects before the books are primed has none, like the cache.
StartsEmpty ==
  /\ pc = "down" => DOMAIN shown = {}
  /\ pc = "priming" => latest = NoBooks

\* What was primed is not behind the saved cursor.
PrimedAhead ==
  pc = "placing" => \A m \in Market : latest[m] # 0 => latest[m] >= LastOf(m, 1, saved)

\* A book ahead of the cursor is one that was loaded.
AheadIsPrimed ==
  /\ pc = "placing" => \A m \in Market : latest[m] <= primed
  /\ pc = "listening" => \A m \in Market : latest[m] > cursor => latest[m] <= primed

(* The inductive invariant.                                                *)
FanoutInv ==
  /\ Types /\ StartsEmpty /\ PrimedAhead /\ AheadIsPrimed
  /\ ClientsShareTheCache /\ CacheIsNotBehind

LEMMA FanoutStarts == FanoutInit => FanoutInv
BY DEF FanoutInit, FanoutInv, Types, StartsEmpty, PrimedAhead, AheadIsPrimed,
       ClientsShareTheCache, CacheIsNotBehind, NoBooks

\* The updates up to place to are handled.
LEMMA AfterIs ==
  ASSUME Types, NEW to \in cursor..Len(updates), NEW books \in [Market -> Nat]
  PROVE  /\ After(books, to) \in [Market -> Nat]
         /\ \A m \in Market : \/ After(books, to)[m] = books[m] /\ LastOf(m, cursor + 1, to) = 0
                              \/ /\ After(books, to)[m] = LastOf(m, cursor + 1, to)
                                 /\ LastOf(m, cursor + 1, to) # 0
<1>0. updates \in Seq(Market) /\ cursor + 1 \in Int /\ to \in Int
  BY DEF Types
<1>1. \A m \in Market : LastOf(m, cursor + 1, to) \in Nat
  BY ONLY <1>0, LastOfIs
<1> QED  BY <1>1 DEF After

LEMMA UpdateStep == FanoutInv /\ (\E m \in Market : Update(m)) => FanoutInv'
<1> SUFFICES ASSUME FanoutInv, NEW u \in Market, Update(u) PROVE FanoutInv'
  OBVIOUS
<1> USE DEF FanoutInv, Types, Update
<1>1. updates' \in Seq(Market) /\ Len(updates') = Len(updates) + 1
  OBVIOUS
<1>0. trimmed' \in Nat /\ trimmed <= trimmed'
  OBVIOUS
<1>2. \A m \in Market : /\ LastOf(m, 1, cursor)' \in Nat /\ LastOf(m, 1, cursor) \in Nat
                        /\ LastOf(m, 1, cursor)' <= LastOf(m, 1, cursor)
  BY <1>0, LastOfIs, LastOfStays
<1>3. \A m \in Market : /\ LastOf(m, 1, saved)' \in Nat /\ LastOf(m, 1, saved) \in Nat
                        /\ LastOf(m, 1, saved)' <= LastOf(m, 1, saved)
  BY <1>0, LastOfIs, LastOfStays
<1>4. Types'
  BY <1>0, <1>1
<1>5. StartsEmpty' /\ ClientsShareTheCache' /\ AheadIsPrimed'
  BY DEF StartsEmpty, ClientsShareTheCache, AheadIsPrimed, NoBooks
<1>6. PrimedAhead' /\ CacheIsNotBehind'
  BY <1>2, <1>3 DEF PrimedAhead, CacheIsNotBehind
<1> QED  BY <1>4, <1>5, <1>6

LEMMA PrimeStep == FanoutInv /\ (Prime \/ PrimeFails) => FanoutInv'
<1> SUFFICES ASSUME FanoutInv, Prime \/ PrimeFails PROVE FanoutInv'
  OBVIOUS
<1> USE DEF FanoutInv, Types
<1> DEFINE from == Len(updates) - Window + 1
<1>0. updates \in Seq(Market) /\ from \in Int /\ Len(updates) \in Nat /\ saved \in Int
  BY FanoutAssumption
<1>1. \A c \in DOMAIN shown, m \in Market : shown[c][m] = 0
  BY DEF Prime, PrimeFails, StartsEmpty, NoBooks, ClientsShareTheCache
<1>2. \A m \in Market : LastOf(m, from, Len(updates)) \in Nat
  <2> HIDE DEF from
  <2> QED  BY <1>0, LastOfIs
<1>3. Types'
  BY <1>2 DEF Prime, PrimeFails
<1>4. StartsEmpty' /\ ClientsShareTheCache' /\ CacheIsNotBehind'
  BY <1>1 DEF Prime, PrimeFails, StartsEmpty, ClientsShareTheCache, CacheIsNotBehind
<1>6. AheadIsPrimed'
  <2>1. \A m \in Market : LastOf(m, from, Len(updates)) <= Len(updates)
    <3> HIDE DEF from
    <3> QED  BY <1>0, LastOfIs
  <2> QED  BY <2>1 DEF Prime, PrimeFails, StartsEmpty, AheadIsPrimed, NoBooks
<1>5. PrimedAhead'
  <2> SUFFICES ASSUME NEW m \in Market, latest'[m] # 0 PROVE latest'[m] >= LastOf(m, 1, saved)'
    BY DEF PrimedAhead
  <2>1. updates' = updates /\ trimmed' = trimmed /\ saved' = saved
    BY DEF Prime, PrimeFails
  <2>2. LastOf(m, 1, saved)' = LastOf(m, 1, saved)
    BY <2>1 DEF LastOf
  <2>3. latest'[m] = LastOf(m, from, Len(updates))
    BY DEF Prime, PrimeFails, StartsEmpty, NoBooks
  <2>4. latest'[m] \in from..Len(updates)
    <3>1. LastOf(m, from, Len(updates)) # 0
            => LastOf(m, from, Len(updates)) \in from..Len(updates) \cap DOMAIN updates
      BY ONLY <1>0, m \in Market, LastOfIs
    <3> HIDE DEF from
    <3> QED  BY <2>3, <3>1
  <2>5. CASE LastOf(m, 1, saved) = 0
    BY <1>2, <2>2, <2>3, <2>5
  <2>6. CASE LastOf(m, 1, saved) # 0
    <3> DEFINE L == LastOf(m, 1, saved)
    <3>1. L \in 1..saved /\ L \in DOMAIN updates
      BY <1>0, <2>6, LastOfIs
    <3>2. updates[L] = m /\ L > trimmed
      BY <1>0, <2>6, LastOfIs
    <3>3. CASE L < from
      BY <1>0, <2>2, <2>4, <3>1, <3>3
    <3>4. CASE L >= from
      <4>1. L \in from..Len(updates) \cap DOMAIN updates
        BY <1>0, <3>1, <3>4
      <4>2. L <= LastOf(m, from, Len(updates))
        <5> HIDE DEF from, L, FanoutInv, Types
        <5> QED  BY <1>0, <3>2, <4>1, LastOfIs
      <4> QED  BY <1>2, <2>2, <2>3, <3>1, <4>2
    <3> QED  BY <1>0, <3>1, <3>3, <3>4
  <2> QED  BY <2>5, <2>6
<1> QED  BY <1>3, <1>4, <1>5, <1>6

LEMMA PlaceStep == FanoutInv /\ PlaceCursor => FanoutInv'
<1> SUFFICES ASSUME FanoutInv, PlaceCursor PROVE FanoutInv'
  OBVIOUS
<1> USE DEF FanoutInv, Types, PlaceCursor, Resume, StartAtEnd, StartOver
<1>1. Types'
  OBVIOUS
<1>2. StartsEmpty' /\ ClientsShareTheCache' /\ PrimedAhead' /\ AheadIsPrimed'
  BY DEF StartsEmpty, ClientsShareTheCache, PrimedAhead, AheadIsPrimed
<1>3. CacheIsNotBehind'
  <2> SUFFICES ASSUME resumed' PROVE CacheIsNotBehind'
    BY DEF CacheIsNotBehind
  <2>1. /\ cursor' = saved /\ updates' = updates /\ trimmed' = trimmed
        /\ latest' = latest /\ pc = "placing"
    OBVIOUS
  <2>2. \A m \in Market : LastOf(m, 1, cursor)' = LastOf(m, 1, saved)
    BY <2>1 DEF LastOf
  <2> QED  BY <2>1, <2>2 DEF CacheIsNotBehind, PrimedAhead
<1> QED  BY <1>1, <1>2, <1>3

\* A read goes forward, and no further than the stream.
LEMMA ReadToIs ==
  ASSUME Types
  PROVE  ReadTo \in cursor..Len(updates)
<1> DEFINE behind == Max({cursor, trimmed})
<1>1. behind = (IF cursor >= trimmed THEN cursor ELSE trimmed)
  BY DEF Types, Max
<1>2. behind \in Nat /\ behind >= cursor
  BY <1>1 DEF Types
<1>3. ReadTo = Min({behind + Count, Len(updates)})
  BY DEF ReadTo
<1> HIDE DEF behind
<1>4. ReadTo = (IF behind + Count <= Len(updates) THEN behind + Count ELSE Len(updates))
  BY <1>2, <1>3, FanoutAssumption DEF Types, Min
<1> QED  BY <1>2, <1>4, FanoutAssumption DEF Types

LEMMA ReadStep == FanoutInv /\ Read => FanoutInv'
<1> SUFFICES ASSUME FanoutInv, Read PROVE FanoutInv'
  OBVIOUS
<1> USE DEF FanoutInv
<1>1. PICK to \in cursor..Len(updates), slow \in SUBSET DOMAIN shown :
        /\ cursor' = to
        /\ latest' = After(latest, to)
        /\ shown' = [c \in DOMAIN shown \ slow |-> After(shown[c], to)]
  BY ReadToIs DEF Read
<1>2. /\ updates' = updates /\ trimmed' = trimmed /\ primed' = primed
      /\ pc' = pc /\ saved' = saved /\ resumed' = resumed /\ pc = "listening"
  BY DEF Read
<1>3. Types'
  BY <1>1, <1>2, AfterIs DEF Types
<1>4. StartsEmpty' /\ PrimedAhead'
  BY <1>2 DEF StartsEmpty, PrimedAhead
<1>7. AheadIsPrimed'
  <2> SUFFICES ASSUME NEW m \in Market, latest'[m] > to PROVE latest'[m] <= primed
    BY <1>1, <1>2 DEF AheadIsPrimed
  <2>1. latest'[m] = latest[m] \/ latest'[m] = LastOf(m, cursor + 1, to)
    BY <1>1, AfterIs DEF Types
  <2>t. updates \in Seq(Market) /\ cursor + 1 \in Int /\ to \in Nat
    BY DEF Types
  <2>2. LastOf(m, cursor + 1, to) <= to
    BY ONLY <2>t, m \in Market, LastOfIs
  <2>3. latest[m] \in Nat /\ LastOf(m, cursor + 1, to) \in Nat
    <3>1. LastOf(m, cursor + 1, to) \in Nat
      BY ONLY <2>t, m \in Market, LastOfIs
    <3> QED  BY <3>1 DEF Types
  <2>4. latest[m] > cursor => latest[m] <= primed
    BY <1>2 DEF AheadIsPrimed
  <2>5. to \in Nat /\ to >= cursor /\ cursor \in Nat
    BY DEF Types
  <2> QED  BY <2>1, <2>2, <2>3, <2>4, <2>5
<1>5. ClientsShareTheCache'
  <2> SUFFICES ASSUME NEW c \in DOMAIN shown', NEW m \in Market
               PROVE  shown'[c][m] \in {0, latest'[m]}
    BY DEF ClientsShareTheCache
  <2>1. c \in DOMAIN shown /\ shown'[c] = After(shown[c], to)
    BY <1>1
  <2>2. shown[c][m] \in {0, latest[m]}
    BY <2>1 DEF ClientsShareTheCache
  <2>3. /\ latest \in [Market -> Nat] /\ shown[c] \in [Market -> Nat]
        /\ shown'[c] = After(shown[c], to) /\ latest' = After(latest, to)
    BY <1>1, <2>1 DEF Types
  <2>4. \A books \in [Market -> Nat] :
          \/ After(books, to)[m] = books[m] /\ LastOf(m, cursor + 1, to) = 0
          \/ After(books, to)[m] = LastOf(m, cursor + 1, to) /\ LastOf(m, cursor + 1, to) # 0
    BY AfterIs
  <2>5. CASE LastOf(m, cursor + 1, to) = 0
    BY <2>2, <2>3, <2>4, <2>5
  <2>6. CASE LastOf(m, cursor + 1, to) # 0
    BY <2>3, <2>4, <2>6
  <2> QED  BY <2>5, <2>6
<1>6. CacheIsNotBehind'
  <2> SUFFICES ASSUME resumed, NEW m \in Market, latest'[m] # 0
               PROVE  latest'[m] >= LastOf(m, 1, to)
    BY <1>1, <1>2 DEF CacheIsNotBehind, LastOf
  <2>1. updates \in Seq(Market) /\ to \in Int /\ cursor \in Int /\ cursor + 1 \in Int
    BY DEF Types
  <2>2. /\ LastOf(m, 1, to) \in Nat
        /\ LastOf(m, 1, cursor) \in Nat
        /\ LastOf(m, cursor + 1, to) \in Nat
    BY ONLY <2>1, m \in Market, LastOfIs
  <2>3. CASE LastOf(m, 1, to) = 0
    BY <1>3, <2>3 DEF Types
  <2>4. CASE LastOf(m, 1, to) # 0
    <3> DEFINE L == LastOf(m, 1, to)
    <3>1. L \in 1..to /\ L \in DOMAIN updates /\ updates[L] = m /\ L > trimmed
      BY <2>1, <2>4, LastOfIs DEF Types
    <3>2. CASE L <= cursor
      <4>1. L \in 1..cursor \cap DOMAIN updates
        BY <2>1, <3>1, <3>2
      <4>2. L <= LastOf(m, 1, cursor)
        <5> HIDE DEF L
        <5> QED  BY <2>1, <3>1, <4>1, LastOfIs DEF Types
      <4>3. latest[m] # 0 => latest[m] >= LastOf(m, 1, cursor)
        BY <1>2 DEF CacheIsNotBehind
      <4>4. \/ latest'[m] = latest[m]
            \/ /\ latest'[m] = LastOf(m, cursor + 1, to)
               /\ LastOf(m, cursor + 1, to) # 0
        BY <1>1, AfterIs DEF Types
      <4>5. LastOf(m, cursor + 1, to) # 0 => LastOf(m, cursor + 1, to) \in (cursor + 1)..to
        BY <2>1, LastOfIs DEF Types
      <4>6. latest[m] \in Nat
        BY DEF Types
      <4> QED  BY <2>1, <2>2, <3>1, <3>2, <4>2, <4>3, <4>4, <4>5, <4>6
    <3>3. CASE L > cursor
      <4>1. L \in (cursor + 1)..to \cap DOMAIN updates
        BY <2>1, <3>1, <3>3
      <4>2. LastOf(m, cursor + 1, to) # 0 /\ L <= LastOf(m, cursor + 1, to)
        <5> HIDE DEF L
        <5> QED  BY <2>1, <3>1, <4>1, LastOfIs DEF Types
      <4>3. latest'[m] = LastOf(m, cursor + 1, to)
        BY <1>1, <4>2, AfterIs DEF Types
      <4> QED  BY <2>2, <4>2, <4>3
    <3> QED  BY <2>1, <3>1, <3>2, <3>3
  <2> QED  BY <2>3, <2>4
<1> QED  BY <1>3, <1>4, <1>5, <1>6, <1>7

\* What is left: the process comes and goes, clients do, and the cursor is saved.
LEMMA OtherSteps ==
  FanoutInv /\ (Start \/ Save \/ Down \/ \E c \in Client : Connect(c) \/ Disconnect(c))
    => FanoutInv'
<1> SUFFICES ASSUME FanoutInv,
                    Start \/ Save \/ Down \/ \E c \in Client : Connect(c) \/ Disconnect(c)
             PROVE  FanoutInv'
  OBVIOUS
<1> USE DEF FanoutInv
<1>1. updates' = updates /\ trimmed' = trimmed /\ cursor' = cursor
  BY DEF Start, Save, Down, Connect, Disconnect
<1>2. \A m \in Market : LastOf(m, 1, cursor)' = LastOf(m, 1, cursor)
  BY <1>1 DEF LastOf
<1>3. CASE Start
  BY <1>1, <1>3 DEF Start, Types, StartsEmpty, PrimedAhead, AheadIsPrimed, ClientsShareTheCache,
                    CacheIsNotBehind, NoBooks
<1>4. CASE Save
  BY <1>1, <1>2, <1>4 DEF Save, Types, StartsEmpty, PrimedAhead, AheadIsPrimed, ClientsShareTheCache,
                          CacheIsNotBehind
<1>5. CASE Down
  BY <1>1, <1>5 DEF Down, Types, StartsEmpty, PrimedAhead, AheadIsPrimed, ClientsShareTheCache,
                    CacheIsNotBehind
<1>6. ASSUME NEW c \in Client, Connect(c) \/ Disconnect(c) PROVE FanoutInv'
  <2>1. /\ saved' = saved /\ latest' = latest /\ pc' = pc
        /\ resumed' = resumed /\ primed' = primed
    BY <1>6 DEF Connect, Disconnect
  <2>2. ASSUME NEW d \in DOMAIN shown'
        PROVE  \/ shown'[d] = latest
               \/ d \in DOMAIN shown /\ shown'[d] = shown[d]
    <3>1. CASE Connect(c)
      BY <2>2, <3>1 DEF Connect
    <3>2. CASE Disconnect(c)
      BY <2>2, <3>2 DEF Disconnect
    <3> QED  BY <1>6, <3>1, <3>2
  <2>3. Types'
    BY <1>1, <2>1, <2>2 DEF Types
  <2>4. ClientsShareTheCache'
    BY <2>1, <2>2 DEF ClientsShareTheCache
  <2>5. StartsEmpty'
    BY <1>6, <2>1 DEF StartsEmpty, Connect, Disconnect, NoBooks
  <2>6. PrimedAhead' /\ AheadIsPrimed' /\ CacheIsNotBehind'
    BY <1>1, <2>1 DEF PrimedAhead, AheadIsPrimed, CacheIsNotBehind, LastOf
  <2> QED  BY <2>3, <2>4, <2>5, <2>6
<1> QED  BY <1>3, <1>4, <1>5, <1>6

LEMMA FanoutStep == FanoutInv /\ [FanoutNext]_fanoutVars => FanoutInv'
<1> SUFFICES ASSUME FanoutInv, [FanoutNext]_fanoutVars PROVE FanoutInv'
  OBVIOUS
<1>1. CASE UNCHANGED fanoutVars
  BY <1>1 DEF fanoutVars, FanoutInv, Types, StartsEmpty, PrimedAhead, AheadIsPrimed, ClientsShareTheCache,
              CacheIsNotBehind, LastOf, NoBooks
<1>2. CASE FanoutNext
  BY <1>2, UpdateStep, PrimeStep, PlaceStep, ReadStep, OtherSteps DEF FanoutNext
<1> QED  BY <1>1, <1>2

LEMMA FanoutInvariant == FanoutSpec => []FanoutInv
BY FanoutStarts, FanoutStep, PTL DEF FanoutSpec

(* Whenever clients connect and however often the gateway is restarted,    *)
(* all who have a book of a market have the same one (latestBooks).        *)
THEOREM FanoutSharesTheCache == FanoutSpec => []ClientsShareTheCache
<1>1. FanoutInv => ClientsShareTheCache
  BY DEF FanoutInv
<1> QED  BY <1>1, FanoutInvariant, PTL

(* A gateway that resumes from its saved cursor never hands out a book     *)
(* older than what the stream still has up to the cursor (initialCursor).  *)
THEOREM FanoutNotBehind == FanoutSpec => []CacheIsNotBehind
<1>1. FanoutInv => CacheIsNotBehind
  BY DEF FanoutInv
<1> QED  BY <1>1, FanoutInvariant, PTL

(* The book of a market that a connected client has goes back only while   *)
(* the gateway reads from behind what it loaded at its start.              *)
THEOREM FanoutGoesBackOnlyInReplay == FanoutSpec => GoesBackOnlyInReplay
<1> DEFINE Forward == \A c \in DOMAIN shown \cap DOMAIN shown', m \in Market :
                        shown'[c][m] < shown[c][m] => cursor < primed
<1>1. ASSUME FanoutInv, [FanoutNext]_fanoutVars,
             NEW c \in DOMAIN shown \cap DOMAIN shown', NEW m \in Market,
             shown'[c][m] < shown[c][m]
      PROVE  cursor < primed
  <2>1. shown[c] \in [Market -> Nat]
    BY <1>1 DEF FanoutInv, Types
  <2>2. shown'[c] = shown[c] \/ Read
    BY <1>1 DEF FanoutNext, fanoutVars, Update, Start, Prime, PrimeFails, PlaceCursor, Resume,
                StartAtEnd, StartOver, Save, Down, Connect, Disconnect
  <2>3. Read
    BY <1>1, <2>1, <2>2
  <2>4. PICK to \in Int : shown'[c] = After(shown[c], to)
    BY <1>1, <2>3, ReadToIs DEF Read, FanoutInv
  <2>5. shown'[c][m] = LastOf(m, cursor + 1, to) /\ LastOf(m, cursor + 1, to) # 0
    BY <1>1, <2>1, <2>4 DEF After
  <2>6. shown'[c][m] > cursor /\ shown'[c][m] \in Nat
    BY <1>1, <2>5, LastOfIs DEF FanoutInv, Types
  <2>7. shown[c][m] = latest[m]
    BY <1>1, <2>1, <2>6 DEF FanoutInv, ClientsShareTheCache
  <2>8. cursor \in Nat /\ primed \in Nat /\ (latest[m] > cursor => latest[m] <= primed)
    BY <1>1, <2>3 DEF FanoutInv, Types, AheadIsPrimed, Read
  <2> QED  BY <1>1, <2>1, <2>6, <2>7, <2>8
<1>2. FanoutInv /\ [FanoutNext]_fanoutVars => [Forward]_fanoutVars
  BY <1>1
<1> HIDE DEF Forward
<1>3. FanoutSpec => [][Forward]_fanoutVars
  BY FanoutInvariant, <1>2, PTL DEF FanoutSpec
<1> QED  BY <1>3 DEF GoesBackOnlyInReplay, Forward
=============================================================================
