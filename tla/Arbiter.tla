------------------------------- MODULE Arbiter -------------------------------
(***************************************************************************)
(* The exclusive write lock of pkg/arbiter/arbiter.go: an owner, a lease   *)
(* that time.AfterFunc ends, and the callbacks of its timers.              *)
(*                                                                         *)
(* Every method body runs under a.mu, so a call is one step.  A timer is   *)
(* an object of the Go runtime: it fires on its own, and its callback then *)
(* waits for a.mu like any other goroutine.  Timer.Stop does nothing to a  *)
(* timer that has fired, so a callback may run after its timer was stopped *)
(* and replaced.  A call that returns an error changes nothing and is no   *)
(* step here.                                                              *)
(*                                                                         *)
(* A definition named for a fault (AcquireUnchecked) that nothing uses is a *)
(* faulty variant of the one that follows: a mutant of PROJECT.json puts   *)
(* it there, to see that a property notices the fault.                     *)
(***************************************************************************)
CONSTANTS Clients,      \* the clientIDs; the empty string is not one of them
          NoClient,     \* a.owner == ""
          Timers,       \* BOUND: the timer objects that may exist at once
          NoTimer       \* a.expireTimer == nil

ASSUME NoClientAssumption == NoClient \notin Clients
ASSUME NoTimerAssumption == NoTimer \notin Timers

VARIABLES locked,       \* a.locked
          owner,        \* a.owner
          expireTimer,  \* a.expireTimer
          timer         \* each timer's phase, and the clientID its callback captured

vars == <<locked, owner, expireTimer, timer>>

------------------------------------------------------------------------------
(* Timers of the runtime. *)

Idle     == [phase |-> "idle",  client |-> NoClient]
Armed(c) == [phase |-> "armed", client |-> c]
Fired(c) == [phase |-> "fired", client |-> c]

TimerState == [phase : {"idle", "armed", "fired"}, client : Clients \cup {NoClient}]

NeverStopped == timer

\* a.expireTimer.Stop(), when it is not nil: an armed timer will not fire, a
\* timer that has fired keeps its waiting callback.
StopTimer == [t \in Timers |-> IF t = expireTimer /\ timer[t].phase = "armed"
                               THEN Idle
                               ELSE timer[t]]

RearmNothing(c) == UNCHANGED <<expireTimer, timer>>

\* The timer objects time.AfterFunc may return: any unused one will do.
Unused == {t \in Timers \ {expireTimer} : timer[t] = Idle}

\* Stop the old timer and let a new one run the expiry of c's lease.
Rearm(c) == LET new == CHOOSE t \in Unused : TRUE
            IN  /\ Unused # {}
                /\ timer' = [StopTimer EXCEPT ![new] = Armed(c)]
                /\ expireTimer' = new

------------------------------------------------------------------------------
Init == /\ locked = FALSE
        /\ owner = NoClient
        /\ expireTimer = NoTimer
        /\ timer = [t \in Timers |-> Idle]

AcquireUnchecked(c) == /\ locked' = TRUE
                       /\ owner' = c
                       /\ Rearm(c)

\* Acquire returns true.
Acquire(c) == /\ ~locked
              /\ locked' = TRUE
              /\ owner' = c
              /\ Rearm(c)

FreeKeepsOwner == /\ locked' = FALSE
                  /\ timer' = StopTimer
                  /\ UNCHANGED <<owner, expireTimer>>

\* Release and ForceRelease have the same effect when the caller owns the lock.
Free == /\ locked' = FALSE
        /\ owner' = NoClient
        /\ timer' = StopTimer
        /\ UNCHANGED expireTimer

\* Release returns nil.
Release(c) == /\ locked
              /\ owner = c
              /\ Free

ForceReleaseUnchecked(c) == Free

\* ForceRelease looks at the owner only, not at locked.
ForceRelease(c) == /\ owner = c
                   /\ Free

ExtendWithoutRearm(c) == /\ locked
                         /\ owner = c
                         /\ timer' = StopTimer
                         /\ UNCHANGED <<locked, owner, expireTimer>>

\* ExtendTimeout returns nil: the lease starts anew.
ExtendTimeout(c) == /\ locked
                    /\ owner = c
                    /\ Rearm(c)
                    /\ UNCHANGED <<locked, owner>>

\* The runtime fires a timer whose time has come.
Fire(t) == /\ timer[t].phase = "armed"
           /\ timer' = [timer EXCEPT ![t] = Fired(@.client)]
           /\ UNCHANGED <<locked, owner, expireTimer>>

ExpireUnchecked(t) == /\ timer[t].phase = "fired"
                      /\ timer' = [timer EXCEPT ![t] = Idle]
                      /\ locked' = FALSE
                      /\ owner' = NoClient
                      /\ UNCHANGED expireTimer

\* The callback gets a.mu; it frees the lock if the client it captured owns it.
Expire(t) == /\ timer[t].phase = "fired"
             /\ timer' = [timer EXCEPT ![t] = Idle]
             /\ IF locked /\ owner = timer[t].client
                THEN locked' = FALSE /\ owner' = NoClient
                ELSE UNCHANGED <<locked, owner>>
             /\ UNCHANGED expireTimer

Next == \/ \E c \in Clients : \/ Acquire(c)
                              \/ Release(c)
                              \/ ForceRelease(c)
                              \/ ExtendTimeout(c)
        \/ \E t \in Timers : Fire(t) \/ Expire(t)

\* The runtime fires every armed timer that nobody stops, and a callback that
\* waits for the mutex gets it.  Nobody has to acquire or to release.
Fairness == \A t \in Timers : WF_vars(Fire(t)) /\ WF_vars(Expire(t))

Spec == Init /\ [][Next]_vars

FairSpec == Spec /\ Fairness

------------------------------------------------------------------------------
(* Properties. *)

\* Every variable has its type, and the owner is a client exactly while the
\* lock is held (Owner() and IsLocked() never disagree).
TypeOK == /\ locked \in BOOLEAN
          /\ owner \in Clients \cup {NoClient}
          /\ expireTimer \in Timers \cup {NoTimer}
          /\ timer \in [Timers -> TimerState]
          /\ locked <=> owner # NoClient

\* A held lock has a running lease: the current timer will fire, or its callback
\* already waits for the mutex, and it was armed for the owner.  Without it a
\* client that never releases would keep the lock for ever.
LeaseRuns == locked => /\ expireTimer \in Timers
                       /\ timer[expireTimer] \in {Armed(owner), Fired(owner)}

\* No timer is left armed behind the one a.expireTimer points to: such a timer
\* could not be stopped any more and would end a later lease early.
NoOrphanTimer == \A t \in Timers : timer[t].phase = "armed" => t = expireTimer

\* A held lock becomes free only by its owner's call or by a waiting callback
\* that was armed for that owner: another client's timer or call never ends it.
OwnEnd == \/ Release(owner)
          \/ ForceRelease(owner)
          \/ \E t \in Timers : timer[t] = Fired(owner) /\ timer'[t] = Idle

NoStrangerEndsLease == [][(locked /\ owner' # owner) => OwnEnd]_vars

\* Every lease ends: the lock becomes free, or ExtendTimeout has replaced the
\* timer that was to end it.
LeaseEnds == \A t \in Timers :
               (locked /\ expireTimer = t) ~> (~locked \/ expireTimer # t)

\* The arbiter is a write lock as WriteLock specifies it.
Lock == INSTANCE WriteLock
          WITH holder <- IF locked THEN owner ELSE NoClient
ImplementsWriteLock == Lock!Spec

\* A lease that was extended is not ended by the timer it replaced
\* (pkg/arbiter/arbiter_test.go:181-185: after the original timeout the lock is
\* still held).  Only the callback of the current timer may free the lock.
ReplacedTimerHarmless ==
  [][\A t \in Timers : (t # expireTimer /\ Expire(t)) => UNCHANGED locked]_vars
==============================================================================
