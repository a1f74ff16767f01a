------------------------------- MODULE WsFanout -------------------------------
(***************************************************************************)
(* The WebSocket gateway (apps/ws/src/index.ts) for the stream of order    *)
(* books: it loads the latest books, finds the place to read on from, and  *)
(* sends every update to every client.  The sockets accept clients from    *)
(* the start, between any two awaits.  The callback of a read has no await *)
(* in it, so one read and all it broadcasts is one step.                   *)
(*                                                                         *)
(* A book is known by the place of its update in the stream; 0 is none.    *)
(***************************************************************************)
EXTENDS Integers, Sequences, FiniteSets, FiniteSetsExt

CONSTANTS
  Market, Client,
  MaxUpdates,   \* bound: updates published
  MaxStops,     \* bound: times the gateway stops, or a read at its start fails
  Cap,          \* 1000: updates the stream keeps at the least, MAXLEN ~
  Window,       \* 200: updates that primeLatestBooks looks at
  Count         \* 500: updates in one read

ASSUME FanoutAssumption ==
  /\ MaxUpdates \in Nat /\ MaxStops \in Nat
  /\ Cap \in Nat \ {0} /\ Window \in Nat \ {0} /\ Count \in Nat \ {0}

VARIABLES
  updates,    \* orderbook_events: the market of each update ever published
  trimmed,    \* the stream has lost the updates up to this one
  pc,         \* where main is
  cursor,     \* the last update read
  saved,      \* ws:cursor in Redis, -1 when there is none
  latest,     \* latestBooks
  shown,      \* the books of the connected clients
  resumed,    \* ghost: the cursor is one that was saved
  primed,     \* ghost: the last update when the books were loaded, 0 if they were not
  stops

fanoutVars == <<updates, trimmed, pc, cursor, saved, latest, shown, resumed, primed, stops>>

Books == [Market -> 0..MaxUpdates]

NoBooks == [m \in Market |-> 0]

\* The last update of m that the stream has among places from..to, or 0.
LastOf(m, from, to) ==
  LET places == {i \in from..to : i > trimmed /\ i \in DOMAIN updates /\ updates[i] = m}
  IN  IF places = {} THEN 0 ELSE Max(places)

FanoutInit ==
  /\ updates = <<>> /\ trimmed = 0
  /\ pc = "down"
  /\ cursor = 0 /\ saved = -1
  /\ latest = NoBooks
  /\ shown = [c \in {} |-> NoBooks]
  /\ resumed = FALSE /\ primed = 0
  /\ stops = 0

\* The engine publishes a book (handleEvent, rebuildBooks).  An approximate
\* MAXLEN cuts old updates as it suits Redis, and leaves Cap at the least.
Update(m) ==
  /\ Len(updates) < MaxUpdates
  /\ updates' = Append(updates, m)
  /\ trimmed' \in trimmed..Max({trimmed, Len(updates) + 1 - Cap})
  /\ UNCHANGED <<pc, cursor, saved, latest, shown, resumed, primed, stops>>

Start ==
  /\ pc = "down"
  /\ pc' = "priming"
  /\ latest' = NoBooks /\ primed' = 0
  /\ UNCHANGED <<updates, trimmed, cursor, saved, shown, resumed, stops>>

\* Broken: goes through the newest updates and keeps the oldest it finds.
Prime_Oldest ==
  /\ pc = "priming"
  /\ pc' = "placing"
  /\ latest' = [m \in Market |->
                  LET places == {i \in DOMAIN updates :
                                   i > trimmed /\ i > Len(updates) - Window /\ updates[i] = m}
                  IN  IF places = {} THEN 0 ELSE Min(places)]
  /\ primed' = Len(updates)
  /\ UNCHANGED <<updates, trimmed, cursor, saved, shown, resumed, stops>>

\* primeLatestBooks; a failed read is logged and leaves the books unknown.
Prime ==
  /\ pc = "priming"
  /\ pc' = "placing"
  /\ latest' = [m \in Market |-> LastOf(m, Len(updates) - Window + 1, Len(updates))]
  /\ primed' = Len(updates)
  /\ UNCHANGED <<updates, trimmed, cursor, saved, shown, resumed, stops>>

PrimeFails ==
  /\ pc = "priming"
  /\ stops < MaxStops /\ stops' = stops + 1
  /\ pc' = "placing"
  /\ UNCHANGED <<updates, trimmed, cursor, saved, latest, shown, resumed, primed>>

\* Broken: the loop looks up its place again, as after a failed read.
Resume_Again ==
  /\ pc \in {"placing", "listening"} /\ saved >= 0
  /\ pc' = "listening"
  /\ cursor' = saved /\ resumed' = TRUE
  /\ UNCHANGED <<updates, trimmed, saved, latest, shown, primed, stops>>

\* initialCursor: the saved place if it is not too old, or the end.
Resume ==
  /\ pc = "placing" /\ saved >= 0
  /\ pc' = "listening"
  /\ cursor' = saved /\ resumed' = TRUE
  /\ UNCHANGED <<updates, trimmed, saved, latest, shown, primed, stops>>

StartAtEnd ==
  /\ pc = "placing"
  /\ pc' = "listening"
  /\ cursor' = Len(updates) /\ resumed' = FALSE
  /\ UNCHANGED <<updates, trimmed, saved, latest, shown, primed, stops>>

\* The end could not be read: "0-0".
StartOver ==
  /\ pc = "placing"
  /\ stops < MaxStops /\ stops' = stops + 1
  /\ pc' = "listening"
  /\ cursor' = 0 /\ resumed' = FALSE
  /\ UNCHANGED <<updates, trimmed, saved, latest, shown, primed>>

\* What books hold after the updates up to place to were handled.
After(books, to) ==
  [m \in Market |->
     IF LastOf(m, cursor + 1, to) = 0 THEN books[m] ELSE LastOf(m, cursor + 1, to)]

\* XREAD: the updates behind the cursor that the stream still has, no more
\* than Count of them.
ReadTo == Min({Max({cursor, trimmed}) + Count, Len(updates)})

\* Broken: a client that connects later gets the books that were primed.
Read_NotKept ==
  /\ pc = "listening" /\ cursor < Len(updates)
  /\ LET to == ReadTo
     IN  /\ cursor' = to
         /\ shown' = [c \in DOMAIN shown |-> After(shown[c], to)]
  /\ UNCHANGED <<updates, trimmed, pc, saved, latest, resumed, primed, stops>>

\* Broken: the cursor moves before the updates are known to be handled.
Read_Unsent ==
  /\ pc = "listening" /\ cursor < Len(updates)
  /\ cursor' = ReadTo
  /\ UNCHANGED <<updates, trimmed, pc, saved, latest, shown, resumed, primed, stops>>

\* listen, handleEntry and broadcast; send ends the clients that are slow.
Read ==
  /\ pc = "listening" /\ cursor < Len(updates)
  /\ LET to == ReadTo
     IN  /\ cursor' = to
         /\ latest' = After(latest, to)
         /\ \E slow \in SUBSET DOMAIN shown :
              shown' = [c \in DOMAIN shown \ slow |-> After(shown[c], to)]
  /\ UNCHANGED <<updates, trimmed, pc, saved, resumed, primed, stops>>

\* HSET of ws:cursor, now and then, and when listen ends.
Save ==
  /\ pc = "listening"
  /\ saved' = cursor
  /\ UNCHANGED <<updates, trimmed, pc, cursor, latest, shown, resumed, primed, stops>>

\* The process stops or dies, and its sockets with it.
Down ==
  /\ pc # "down"
  /\ stops < MaxStops /\ stops' = stops + 1
  /\ pc' = "down"
  /\ shown' = [c \in {} |-> NoBooks]
  /\ UNCHANGED <<updates, trimmed, cursor, saved, latest, resumed, primed>>

\* on "connection".
Connect(c) ==
  /\ pc # "down" /\ c \notin DOMAIN shown
  /\ shown' = [d \in DOMAIN shown \cup {c} |-> IF d = c THEN latest ELSE shown[d]]
  /\ UNCHANGED <<updates, trimmed, pc, cursor, saved, latest, resumed, primed, stops>>

Disconnect(c) ==
  /\ c \in DOMAIN shown
  /\ shown' = [d \in DOMAIN shown \ {c} |-> shown[d]]
  /\ UNCHANGED <<updates, trimmed, pc, cursor, saved, latest, resumed, primed, stops>>

PlaceCursor == Resume \/ StartAtEnd \/ StartOver

FanoutNext ==
  \/ \E m \in Market : Update(m)
  \/ Start \/ Prime \/ PrimeFails \/ PlaceCursor \/ Read \/ Save \/ Down
  \/ \E c \in Client : Connect(c) \/ Disconnect(c)

FanoutSpec == FanoutInit /\ [][FanoutNext]_fanoutVars

\* Docker restarts the gateway, and its loop goes on.
FairFanout ==
  /\ FanoutSpec
  /\ WF_fanoutVars(Start) /\ WF_fanoutVars(Prime) /\ WF_fanoutVars(PlaceCursor)
  /\ WF_fanoutVars(Read)

-----------------------------------------------------------------------------
(* Properties.                                                             *)

\* Update i, or a newer one of its market, has reached c.
Reached(c, i) == i \in DOMAIN updates /\ shown[c][updates[i]] >= i

(* Clients never see different books of a market: whenever they connected, *)
(* each has the book the next client will be sent, or none yet             *)
(* (latestBooks and broadcast in handleEntry, on "connection").            *)
ClientsShareTheCache ==
  \A c \in DOMAIN shown, m \in Market : shown[c][m] \in {0, latest[m]}

(* After a restart with a saved cursor no book that is handed out is older *)
(* than what the stream has of its market up to the cursor: at first the   *)
(* saved one, then what was read again (primeLatestBooks, initialCursor).  *)
(* It says nothing of what clients were sent behind the saved cursor,      *)
(* which is saved once a second at most.                                   *)
CacheIsNotBehind ==
  pc = "listening" /\ resumed =>
    \A m \in Market : latest[m] # 0 => latest[m] >= LastOf(m, 1, cursor)

(* A client that stays connected sees the book of a market go back only    *)
(* while the gateway replays, from behind what it had loaded when it       *)
(* started, what was published before (initialCursor, listen).             *)
GoesBackOnlyInReplay ==
  [][\A c \in DOMAIN shown \cap DOMAIN shown', m \in Market :
       shown'[c][m] < shown[c][m] => cursor < primed]_fanoutVars

(* What is published behind the cursor of a gateway that listens reaches   *)
(* every client, or something newer does, unless the client or the gateway *)
(* goes, or the stream has lost it before it is read (listen, broadcast,   *)
(* MAXLEN).  Of what is published while the gateway starts this does not   *)
(* hold: a client that connects before primeLatestBooks is done is not     *)
(* sent what it loads, and an update that comes between primeLatestBooks   *)
(* and initialCursor is not read.                                          *)
UpdatesArrive ==
  \A c \in Client, i \in 1..MaxUpdates :
    pc = "listening" /\ c \in DOMAIN shown /\ cursor < i /\ i \in DOMAIN updates
      ~> c \notin DOMAIN shown \/ Reached(c, i) \/ (cursor < i /\ i <= trimmed)
=============================================================================
