------------------------------ MODULE EngineLock ------------------------------
(***************************************************************************)
(* The lock "engine:lock" that keeps a second engine from matching         *)
(* (acquireLock, startLockRenewal and main of apps/engine/src/index.ts),   *)
(* with the shutdown hooks of packages/common/src/lifecycle.ts that        *)
(* release it.  Time passes in ticks.  Nothing the engine publishes is     *)
(* fenced by the lock: all rests on renewing it in time.                   *)
(***************************************************************************)
EXTENDS Optional, Integers, FiniteSets

CONSTANTS
  Engine,      \* processes that may run as engine, each restarted for ever
  Orphan,      \* the key holds the instanceId of a process that is gone
  Ttl,         \* LOCK_TTL_MS
  Interval,    \* LOCK_TTL_MS / 3
  Late,        \* how late a timer, a call or its reply is while all is well
  MaxFails,    \* renewals that may fail in a row
  MaxLockFaults    \* bound: signals, deaths, failed publications, lost replies

ASSUME LockAssumption ==
  /\ None \notin Engine /\ Orphan \notin Engine /\ None # Orphan
  /\ Ttl \in Nat \ {0} /\ Interval \in Nat \ {0}
  /\ Late \in Nat /\ MaxFails \in Nat /\ MaxLockFaults \in Nat

\* The lock outlives its holder's slowest renewals.
Timely == Late + (MaxFails + 1) * (Interval + Late) < Ttl

VARIABLES
  holder,     \* value of the key, None when it does not exist
  ttl,        \* what is left of its time to live
  pc,         \* where main is
  stopping,   \* isStopping()
  age,        \* time since the SET was carried out, then since the timer last fired;
              \* no more than it takes for the timer to be late
  fails,      \* renewals failed in a row
  punctual,   \* nothing has been later than Late so far
  lockFaults

lockVars == <<holder, ttl, pc, stopping, age, fails, punctual, lockFaults>>

\* ended: the loop is over, its hook is done, the next one releases the lock.
\* leaving: the lock is given up and the timer gone, the connections are being
\* closed.  An engine stopped while it rebuilds gets here from inside
\* waitForDbWorker or rebuildBooks, and goes on with them until it exits.
Places ==
  {"down", "acquiring", "granted", "recovering", "running", "handling", "ended", "leaving"}

\* Where the renewal timer is set.
Renewing == {"recovering", "running", "handling", "ended"}

TypeOK ==
  /\ holder \in Engine \cup {None, Orphan}
  /\ ttl \in 0..Ttl /\ (ttl = 0 <=> holder = None)
  /\ pc \in [Engine -> Places]
  /\ stopping \in [Engine -> BOOLEAN]
  /\ age \in [Engine -> 0..(Interval + Late)]
  /\ fails \in [Engine -> 0..MaxFails]
  /\ punctual \in BOOLEAN
  /\ lockFaults \in 0..MaxLockFaults

LockInit ==
  /\ holder = None /\ ttl = 0
  /\ pc = [e \in Engine |-> "down"]
  /\ stopping = [e \in Engine |-> FALSE]
  /\ age = [e \in Engine |-> 0]
  /\ fails = [e \in Engine |-> 0]
  /\ punctual = TRUE
  /\ lockFaults = 0

LockFault == lockFaults < MaxLockFaults /\ lockFaults' = lockFaults + 1

At(e, place) == pc[e] = place

Goto(e, place) == pc' = [pc EXCEPT ![e] = place]

StartUp(e) ==
  /\ At(e, "down")
  /\ Goto(e, "acquiring")
  /\ stopping' = [stopping EXCEPT ![e] = FALSE]
  /\ age' = [age EXCEPT ![e] = 0]
  /\ fails' = [fails EXCEPT ![e] = 0]
  /\ UNCHANGED <<holder, ttl, punctual, lockFaults>>

\* Broken: SET NX without PX.
Acquire_NoExpiry(e) ==
  /\ At(e, "acquiring") /\ holder = None
  /\ holder' = e /\ ttl' = 0
  /\ Goto(e, "granted")
  /\ age' = [age EXCEPT ![e] = 0]
  /\ UNCHANGED <<stopping, fails, punctual, lockFaults>>

\* SET PX NX is carried out.  It may have been sent before the process was
\* told to stop.
Acquire(e) ==
  /\ At(e, "acquiring") /\ holder = None
  /\ holder' = e /\ ttl' = Ttl
  /\ Goto(e, "granted")
  /\ age' = [age EXCEPT ![e] = 0]
  /\ UNCHANGED <<stopping, fails, punctual, lockFaults>>

\* The reply is lost, and the client's second SET finds its own key: the
\* engine goes on waiting.
AcquireUnanswered(e) ==
  /\ At(e, "acquiring") /\ holder = None
  /\ LockFault
  /\ holder' = e /\ ttl' = Ttl
  /\ UNCHANGED <<pc, stopping, age, fails, punctual>>

\* The reply arrives and startLockRenewal sets the timer.
Granted(e) ==
  /\ At(e, "granted") /\ ~stopping[e]
  /\ Goto(e, "recovering")
  /\ age' = [age EXCEPT ![e] = 0]
  /\ UNCHANGED <<holder, ttl, stopping, fails, punctual, lockFaults>>

\* waitForDbWorker and rebuildBooks are done; consumeGroup starts.
Recovered(e) ==
  /\ At(e, "recovering") /\ ~stopping[e]
  /\ Goto(e, "running")
  /\ UNCHANGED <<holder, ttl, stopping, age, fails, punctual, lockFaults>>

HandleNext(e) ==
  /\ At(e, "running") /\ ~stopping[e]
  /\ Goto(e, "handling")
  /\ UNCHANGED <<holder, ttl, stopping, age, fails, punctual, lockFaults>>

\* EXEC is carried out; neither it nor the code looks at the lock.
ResultPublished(e) ==
  /\ At(e, "handling")
  /\ Goto(e, "running")
  /\ UNCHANGED <<holder, ttl, stopping, age, fails, punctual, lockFaults>>

\* shutdown("publish_failed", 1).
PublicationFails(e) ==
  /\ At(e, "handling")
  /\ LockFault
  /\ Goto(e, "running")
  /\ stopping' = [stopping EXCEPT ![e] = TRUE]
  /\ UNCHANGED <<holder, ttl, age, fails, punctual>>

\* Broken: a renewal does not ask whose the lock is.
Renew_Blind(e) ==
  /\ pc[e] \in Renewing /\ age[e] >= Interval
  /\ age' = [age EXCEPT ![e] = 0]
  /\ fails' = [fails EXCEPT ![e] = 0]
  /\ ttl' = IF holder = None THEN 0 ELSE Ttl
  /\ UNCHANGED <<holder, stopping, pc, punctual, lockFaults>>

\* The timer fires and RENEW_SCRIPT runs; a lost lock stops the process.
Renew(e) ==
  /\ pc[e] \in Renewing /\ age[e] >= Interval
  /\ age' = [age EXCEPT ![e] = 0]
  /\ fails' = [fails EXCEPT ![e] = 0]
  /\ IF holder = e THEN ttl' = Ttl /\ UNCHANGED stopping
     ELSE stopping' = [stopping EXCEPT ![e] = TRUE] /\ UNCHANGED ttl
  /\ UNCHANGED <<holder, pc, punctual, lockFaults>>

\* The renewal fails: logged, and left to the next one.
RenewFails(e) ==
  /\ pc[e] \in Renewing /\ age[e] >= Interval
  /\ fails[e] < MaxFails
  /\ age' = [age EXCEPT ![e] = 0]
  /\ fails' = [fails EXCEPT ![e] = @ + 1]
  /\ UNCHANGED <<holder, ttl, pc, stopping, punctual, lockFaults>>

\* SIGTERM, SIGINT or an exception nobody caught.
Stop(e) ==
  /\ pc[e] # "down" /\ ~stopping[e]
  /\ LockFault
  /\ stopping' = [stopping EXCEPT ![e] = TRUE]
  /\ UNCHANGED <<holder, ttl, pc, age, fails, punctual>>

\* Broken: the hooks run first to last, the release before the loop's end.
Drain_AtOnce(e) ==
  /\ stopping[e] /\ pc[e] \in {"running", "handling"}
  /\ IF holder = e THEN holder' = None /\ ttl' = 0 ELSE UNCHANGED <<holder, ttl>>
  /\ UNCHANGED <<pc, stopping, age, fails, punctual, lockFaults>>

\* The hooks run last to first; the last one waits for the loop, which ends
\* before its next entry.
Drain(e) ==
  /\ stopping[e] /\ At(e, "running")
  /\ Goto(e, "ended")
  /\ UNCHANGED <<holder, ttl, stopping, age, fails, punctual, lockFaults>>

\* Where the hook that releases the lock is the next to run: the loop is over,
\* or there is none yet and nothing to wait for, though main is at work.
Releasing(e) == At(e, "ended") \/ (stopping[e] /\ At(e, "recovering"))

\* Broken: the lock is deleted whosever it is.
Release_Blind(e) ==
  /\ Releasing(e)
  /\ holder' = None /\ ttl' = 0
  /\ Goto(e, "leaving")
  /\ UNCHANGED <<stopping, age, fails, punctual, lockFaults>>

\* The hook of startLockRenewal: clearInterval, RELEASE_SCRIPT.
Release(e) ==
  /\ Releasing(e)
  /\ IF holder = e THEN holder' = None /\ ttl' = 0 ELSE UNCHANGED <<holder, ttl>>
  /\ Goto(e, "leaving")
  /\ UNCHANGED <<stopping, age, fails, punctual, lockFaults>>

\* The hook of main, closeRedis and $disconnect, is done: exit.
Leave(e) ==
  /\ At(e, "leaving")
  /\ Goto(e, "down")
  /\ UNCHANGED <<holder, ttl, stopping, age, fails, punctual, lockFaults>>

\* The process is gone; a lock it leaves behind is nobody's.
Exit(e) ==
  /\ Goto(e, "down")
  /\ holder' = IF holder = e THEN Orphan ELSE holder
  /\ UNCHANGED <<ttl, stopping, age, fails, punctual>>

\* Told to stop before the hook that releases the lock was registered.
Quit(e) ==
  /\ stopping[e] /\ pc[e] \in {"acquiring", "granted"}
  /\ Exit(e)
  /\ UNCHANGED lockFaults

\* Killed, or forced out when the hooks take longer than timeoutMs.
Killed(e) ==
  /\ pc[e] # "down"
  /\ LockFault
  /\ Exit(e)

\* No timer and no reply gets later than Late by a tick.
InTime ==
  \A e \in Engine :
    /\ pc[e] \in Renewing => age[e] < Interval + Late
    /\ At(e, "granted") => age[e] < Late

\* Time passes.  The process or Redis may also be paused for any time.
Tick ==
  /\ punctual' = (punctual /\ InTime)
  /\ ttl' = IF ttl = 0 THEN 0 ELSE ttl - 1
  /\ holder' = IF ttl = 1 THEN None ELSE holder
  /\ age' = [e \in Engine |->
               IF pc[e] \in Renewing \cup {"granted"} /\ age[e] < Interval + Late
               THEN age[e] + 1 ELSE age[e]]
  /\ UNCHANGED <<pc, stopping, fails, lockFaults>>

\* What a live engine does of itself, but for reading the next command.
Progress(e) ==
  \/ StartUp(e) \/ Acquire(e) \/ Granted(e) \/ Recovered(e) \/ ResultPublished(e)
  \/ Drain(e) \/ Release(e) \/ Leave(e) \/ Quit(e)

EngineStep(e) ==
  \/ Progress(e) \/ HandleNext(e) \/ Renew(e) \/ RenewFails(e)
  \/ AcquireUnanswered(e) \/ PublicationFails(e) \/ Stop(e) \/ Killed(e)

LockNext == Tick \/ \E e \in Engine : EngineStep(e)

LockSpec == LockInit /\ [][LockNext]_lockVars

\* Docker restarts an engine that is down, main and the timer do not hang,
\* and time passes.
LockFairSpec ==
  /\ LockSpec
  /\ WF_lockVars(Tick)
  /\ \A e \in Engine : WF_lockVars(Progress(e)) /\ WF_lockVars(Renew(e))

-----------------------------------------------------------------------------
(* Properties.                                                             *)

\* From reading the database to the last result published, but for an engine
\* told to stop while it reads: that one never matches from what it read.
Active(e) == pc[e] \in {"recovering", "running", "handling"}

(* As long as nothing is later than Late, while one engine rebuilds the    *)
(* book it is going to match from, or matches, no other does: results      *)
(* would be matched against a stale book (acquireLock, the order of the    *)
(* shutdown hooks, renewal).  Needs Timely.  An engine told to stop during *)
(* the rebuild is not one of them: its lock goes at once, and until it     *)
(* exits ("leaving") it may rebuild, and publish that book, beside the     *)
(* next engine, but it does not match.                                     *)
OneEngine == punctual => \A e, f \in Engine : Active(e) /\ Active(f) => e = f

(* Whatever the delays, an engine that has lost the lock does not touch it *)
(* while another holds it: a lock passes from a live holder only by its    *)
(* own release or death, or by expiry (RENEW_SCRIPT, RELEASE_SCRIPT).      *)
NotTakenAway ==
  [][\A e \in Engine :
       holder = e /\ holder' # e => ttl = 1 \/ pc'[e] \in {"leaving", "down"}]_lockVars

(* Whatever the delays, an engine that goes on without the lock finds out  *)
(* and stops (startLockRenewal, lock_lost).                                *)
LoserStops == \A e \in Engine : Active(e) /\ holder # e ~> ~Active(e)

(* As long as nothing is later than Late, an engine runs again and again:  *)
(* neither a lock left behind nor a lost reply keeps all of them out (PX). *)
EngineComesBack == []punctual => []<>(\E e \in Engine : pc[e] \in {"running", "handling"})
=============================================================================
