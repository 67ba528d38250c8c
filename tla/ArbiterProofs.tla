---------------------------- MODULE ArbiterProofs ----------------------------
(***************************************************************************)
(* The safety properties of Arbiter, for any clients and any timers.       *)
(*                                                                         *)
(* None of them is inductive alone: that a held lock keeps a running lease *)
(* (LeaseRuns) needs that only the current timer is armed (NoOrphanTimer), *)
(* or an armed timer that fires could be taken for the current one, and    *)
(* both need the types.  Inv, their conjunction, is inductive.             *)
(***************************************************************************)
EXTENDS Arbiter, TLAPS

Inv == /\ TypeOK
       /\ LeaseRuns
       /\ NoOrphanTimer

\* Stopping the current timer (a.expireTimer.Stop()) keeps the timers' type and
\* leaves none armed that was not armed behind it before.
LEMMA StopTimerLeavesNoneArmed ==
  ASSUME TypeOK, NoOrphanTimer
  PROVE  /\ StopTimer \in [Timers -> TimerState]
         /\ \A t \in Timers : StopTimer[t].phase # "armed"
<1>1. ASSUME NEW t \in Timers
      PROVE  /\ StopTimer[t] \in TimerState
             /\ StopTimer[t].phase # "armed"
  BY <1>1 DEF TypeOK, NoOrphanTimer, StopTimer, TimerState, Idle
<1> QED  BY <1>1 DEF StopTimer

\* Arming a new timer (time.AfterFunc after the Stop) for c leaves exactly that
\* timer armed, for c, and a.expireTimer pointing to it.
LEMMA RearmArmsTheCurrent ==
  ASSUME TypeOK, NoOrphanTimer, NEW c \in Clients, Rearm(c)
  PROVE  /\ timer' \in [Timers -> TimerState]
         /\ expireTimer' \in Timers
         /\ timer'[expireTimer'] = Armed(c)
         /\ NoOrphanTimer'
<1> DEFINE t == CHOOSE t \in Unused : TRUE
<1>1. /\ t \in Timers
      /\ timer' = [StopTimer EXCEPT ![t] = Armed(c)]
      /\ expireTimer' = t
  BY DEF Rearm, Unused
<1>2. Armed(c) \in TimerState
  BY DEF Armed, TimerState
<1> QED
  BY <1>1, <1>2, StopTimerLeavesNoneArmed DEF NoOrphanTimer

\* NewArbiter establishes the invariant.
LEMMA InitInv == Init => Inv
<1> SUFFICES ASSUME Init PROVE Inv
  OBVIOUS
<1>1. Idle \in TimerState /\ Idle.phase # "armed"
  BY DEF Idle, TimerState
<1>2. \A t \in Timers : timer[t] = Idle
  BY DEF Init
<1>3. TypeOK
  BY <1>1 DEF Init, TypeOK
<1>4. LeaseRuns
  BY DEF Init, LeaseRuns
<1>5. NoOrphanTimer
  BY <1>1, <1>2 DEF NoOrphanTimer
<1> QED
  BY <1>3, <1>4, <1>5 DEF Inv

\* Every call of the arbiter and every step of its timers keeps the invariant.
LEMMA NextInv == Inv /\ [Next]_vars => Inv'
<1> SUFFICES ASSUME Inv, [Next]_vars PROVE Inv'
  OBVIOUS
<1> USE DEF Inv
<1>1. ASSUME NEW c \in Clients, Acquire(c) PROVE Inv'
  <2>1. Rearm(c)
    BY <1>1 DEF Acquire
  <2> QED
    BY <1>1, <2>1, RearmArmsTheCurrent, NoClientAssumption
    DEF Acquire, TypeOK, LeaseRuns
<1>2. ASSUME Free PROVE Inv'
  BY <1>2, StopTimerLeavesNoneArmed
  DEF Free, TypeOK, LeaseRuns, NoOrphanTimer
<1>3. ASSUME NEW c \in Clients, ExtendTimeout(c) PROVE Inv'
  <2>1. Rearm(c)
    BY <1>3 DEF ExtendTimeout
  <2> QED
    BY <1>3, <2>1, RearmArmsTheCurrent
    DEF ExtendTimeout, TypeOK, LeaseRuns
<1>4. ASSUME NEW t \in Timers, Fire(t) PROVE Inv'
  <2>1. TypeOK'
    BY <1>4 DEF Fire, TypeOK, TimerState, Fired
  <2>2. t = expireTimer
    BY <1>4 DEF Fire, NoOrphanTimer
  <2>3. LeaseRuns'
    BY <1>4, <2>2 DEF Fire, TypeOK, LeaseRuns, Armed, Fired
  <2>4. NoOrphanTimer'
    BY <1>4 DEF Fire, TypeOK, NoOrphanTimer, Fired
  <2> QED
    BY <2>1, <2>3, <2>4
<1>5. ASSUME NEW t \in Timers, Expire(t) PROVE Inv'
  <2>1. TypeOK'
    BY <1>5 DEF Expire, TypeOK, TimerState, Idle
  <2>2. LeaseRuns'
    \* The current timer's callback finds its own client and frees the lock;
    \* any other leaves the current timer as it is.
    <3>1. CASE t = expireTimer
      <4>1. ASSUME locked PROVE timer[t].client = owner
        BY <3>1, <4>1 DEF LeaseRuns, Armed, Fired
      <4>2. ~locked'
        BY <1>5, <4>1 DEF Expire, TypeOK
      <4> QED
        BY <4>2 DEF LeaseRuns
    <3>2. CASE t # expireTimer
      BY <1>5, <3>2 DEF Expire, TypeOK, LeaseRuns
    <3> QED
      BY <3>1, <3>2
  <2>3. NoOrphanTimer'
    BY <1>5 DEF Expire, TypeOK, NoOrphanTimer, Idle
  <2> QED
    BY <2>1, <2>2, <2>3
<1>6. CASE UNCHANGED vars
  BY <1>6 DEF vars, TypeOK, LeaseRuns, NoOrphanTimer
<1> QED
  BY <1>1, <1>2, <1>3, <1>4, <1>5, <1>6 DEF Next, Release, ForceRelease

\* The invariant holds in every reachable state.
LEMMA SpecInv == Spec => []Inv
BY InitInv, NextInv, PTL DEF Spec

\* IsLocked() and Owner() always agree, and every variable has its type.
THEOREM TypeCorrect == Spec => []TypeOK
BY SpecInv, PTL DEF Inv

\* A held lock always has a lease that will end it: no client can keep the lock
\* because its expiry timer was lost.
THEOREM HeldLockHasLease == Spec => []LeaseRuns
BY SpecInv, PTL DEF Inv

\* No armed timer is ever out of reach of a.expireTimer.Stop().
THEOREM NoTimerIsOrphaned == Spec => []NoOrphanTimer
BY SpecInv, PTL DEF Inv

\* A step that ends c's hold on the lock is c's own release or a callback armed
\* for c.
LEMMA OnlyTheOwnersCallOrTimer ==
  ASSUME TypeOK, Next, locked, owner' # owner
  PROVE  OwnEnd
<1>1. ASSUME NEW c \in Clients, Acquire(c) \/ ExtendTimeout(c) PROVE FALSE
  BY <1>1 DEF Acquire, ExtendTimeout
<1>2. ASSUME NEW c \in Clients, Release(c) \/ ForceRelease(c)
      PROVE  Release(owner) \/ ForceRelease(owner)
  BY <1>2 DEF Release, ForceRelease
<1>3. ASSUME NEW t \in Timers, Fire(t) PROVE FALSE
  BY <1>3 DEF Fire
<1>4. ASSUME NEW t \in Timers, Expire(t)
      PROVE  timer[t] = Fired(owner) /\ timer'[t] = Idle
  BY <1>4 DEF Expire, TypeOK, TimerState, Fired
<1> QED
  BY <1>1, <1>2, <1>3, <1>4 DEF Next, OwnEnd

\* Neither another client's call nor another client's timer ends a lease.
THEOREM StrangersNeverEndLease == Spec => NoStrangerEndsLease
<1>1. TypeOK /\ [Next]_vars => [(locked /\ owner' # owner) => OwnEnd]_vars
  BY OnlyTheOwnersCallOrTimer DEF vars
<1> QED
  BY <1>1, TypeCorrect, PTL DEF Spec, NoStrangerEndsLease

\* The arbiter implements the abstract write lock: the lock is granted only when
\* free, and passes from one client to another only by becoming free.
THEOREM ArbiterIsWriteLock == Spec => ImplementsWriteLock
<1> DEFINE h == IF locked THEN owner ELSE NoClient
<1>1. Init => Lock!Init
  BY DEF Init, Lock!Init
<1>2. ASSUME TypeOK, [Next]_vars PROVE [Lock!Next]_h
  <2>1. ASSUME NEW c \in Clients, Acquire(c) PROVE Lock!Grant(c)
    BY <2>1 DEF Acquire, Lock!Grant
  <2>2. ASSUME Free, owner # NoClient PROVE Lock!Drop
    BY <1>2, <2>2 DEF Free, TypeOK, Lock!Drop
  <2>3. ASSUME NEW c \in Clients, Release(c) \/ ForceRelease(c) PROVE Lock!Drop
    BY <2>2, <2>3, NoClientAssumption DEF Release, ForceRelease
  <2>4. ASSUME NEW c \in Clients, ExtendTimeout(c) PROVE h' = h
    BY <2>4 DEF ExtendTimeout
  <2>5. ASSUME NEW t \in Timers, Fire(t) PROVE h' = h
    BY <2>5 DEF Fire
  <2>6. ASSUME NEW t \in Timers, Expire(t) PROVE Lock!Drop \/ h' = h
    BY <1>2, <2>6 DEF Expire, TypeOK, Lock!Drop
  <2>7. CASE UNCHANGED vars
    BY <2>7 DEF vars
  <2> QED
    BY <1>2, <2>1, <2>3, <2>4, <2>5, <2>6, <2>7 DEF Next, Lock!Next
<1> QED
  BY <1>1, <1>2, TypeCorrect, PTL DEF Spec, ImplementsWriteLock, Lock!Spec
==============================================================================
