-------------------------- MODULE HyperampSpinlock --------------------------
(***************************************************************************)
(* The spinlock of hyperamp_shm_queue.c: hyperamp_spinlock_lock, _trylock  *)
(* and _unlock, one shared-memory access per step.                         *)
(*                                                                         *)
(* arm64 is the body the build compiles.  TRUE: the LDAXR/STLXR loop;      *)
(* an exclusive monitor per zone is set by the load and lost when any      *)
(* zone writes lock_value, and STLXR writes only while it is set.  FALSE:  *)
(* the "software" body, a load, a store and a second load.                 *)
(*                                                                         *)
(* lock_count and contention_count are statistics no code reads; they are  *)
(* left out.                                                               *)
(***************************************************************************)
EXTENDS Naturals

CONSTANTS
  Zone,    \* zone identifiers; HYPERAMP_ZONE_ID_Linux is 0
  Builds   \* whether the build has __aarch64__: the cases to consider

ASSUME ZoneAssumption == Zone \subseteq Nat
ASSUME BuildAssumption == Builds \subseteq BOOLEAN

VARIABLES
  arm64,           \* the build, the same for all zones; never changes
  lock_value,      \* 0 unlocked, 1 locked
  owner_zone_id,   \* 0 also stands for "no owner"
  monitor,         \* exclusive monitor of each zone's processor
  mode,            \* which function the zone is in: lock or trylock
  pc

vars == <<arm64, lock_value, owner_zone_id, monitor, mode, pc>>

\* Places in the code.  "set" is the store of the software body, "recheck"
\* its second load; "own" is the store of owner_zone_id that follows the
\* acquisition; "cs" the caller's critical section; "clear" and "release"
\* the two stores of hyperamp_spinlock_unlock.
Place == {"idle", "load", "stlxr", "set", "recheck", "own", "cs", "clear", "release"}

Goto(z, from, to) ==
  /\ pc[z] = from
  /\ pc' = [pc EXCEPT ![z] = to]

\* A write of lock_value by z: every monitor set on it is lost.
WriteLock(v) ==
  /\ lock_value' = v
  /\ monitor' = [z \in Zone |-> FALSE]

\* Where a failed attempt goes: the loop of lock starts over, trylock
\* returns HYPERAMP_AGAIN.
AfterFailureGivesUp(z) == "idle"
AfterFailure(z) == IF mode[z] = "try" THEN "idle" ELSE "load"

\* hyperamp_spinlock_init
Init ==
  /\ arm64 \in Builds
  /\ lock_value = 0
  /\ owner_zone_id = 0
  /\ monitor = [z \in Zone |-> FALSE]
  /\ mode = [z \in Zone |-> "lock"]
  /\ pc = [z \in Zone |-> "idle"]

Call(z, m) ==
  /\ Goto(z, "idle", "load")
  /\ mode' = [mode EXCEPT ![z] = m]
  /\ UNCHANGED <<lock_value, owner_zone_id, monitor, arm64>>

\* ldaxr; cbnz
Ldaxr(z) ==
  /\ arm64
  /\ Goto(z, "load", IF lock_value = 0 THEN "stlxr" ELSE AfterFailure(z))
  /\ monitor' = [monitor EXCEPT ![z] = TRUE]
  /\ UNCHANGED <<lock_value, owner_zone_id, mode, arm64>>

\* stlxr that writes
StlxrIgnoresMonitor(z) ==
  /\ Goto(z, "stlxr", "own")
  /\ WriteLock(1)
  /\ UNCHANGED <<owner_zone_id, mode, arm64>>
StlxrSucceed(z) ==
  /\ monitor[z]
  /\ Goto(z, "stlxr", "own")
  /\ WriteLock(1)
  /\ UNCHANGED <<owner_zone_id, mode, arm64>>

\* stlxr that does not: the monitor was lost (or the processor gave up)
StlxrFail(z) ==
  /\ Goto(z, "stlxr", AfterFailure(z))
  /\ monitor' = [monitor EXCEPT ![z] = FALSE]
  /\ UNCHANGED <<lock_value, owner_zone_id, mode, arm64>>

\* software body: if (lock->lock_value == 0)
SoftTest(z) ==
  /\ ~arm64
  /\ Goto(z, "load", IF lock_value = 0 THEN "set" ELSE AfterFailure(z))
  /\ UNCHANGED <<lock_value, owner_zone_id, monitor, mode, arm64>>

\* lock->lock_value = 1
SoftSet(z) ==
  /\ Goto(z, "set", "recheck")
  /\ WriteLock(1)
  /\ UNCHANGED <<owner_zone_id, mode, arm64>>

\* if (lock->lock_value == 1)
SoftRecheck(z) ==
  /\ Goto(z, "recheck", IF lock_value = 1 THEN "own" ELSE AfterFailure(z))
  /\ UNCHANGED <<lock_value, owner_zone_id, monitor, mode, arm64>>

\* lock->owner_zone_id = zone_id
SetOwnerForgotten(z) ==
  /\ Goto(z, "own", "cs")
  /\ UNCHANGED <<lock_value, owner_zone_id, monitor, mode, arm64>>
SetOwner(z) ==
  /\ Goto(z, "own", "cs")
  /\ owner_zone_id' = z
  /\ UNCHANGED <<lock_value, monitor, mode, arm64>>

\* the caller has finished its critical section and calls unlock
Unlock(z) ==
  /\ Goto(z, "cs", "clear")
  /\ UNCHANGED <<lock_value, owner_zone_id, monitor, mode, arm64>>

\* lock->owner_zone_id = 0
ClearOwner(z) ==
  /\ Goto(z, "clear", "release")
  /\ owner_zone_id' = 0
  /\ UNCHANGED <<lock_value, monitor, mode, arm64>>

\* stlr wzr / lock->lock_value = 0
ReleaseDecrements(z) ==
  /\ Goto(z, "release", "idle")
  /\ WriteLock(lock_value - 1)
  /\ UNCHANGED <<owner_zone_id, mode, arm64>>
Release(z) ==
  /\ Goto(z, "release", "idle")
  /\ WriteLock(0)
  /\ UNCHANGED <<owner_zone_id, mode, arm64>>

\* The steps of a zone that is inside one of the functions.
Step(z) ==
  \/ Ldaxr(z)
  \/ StlxrSucceed(z)
  \/ StlxrFail(z)
  \/ SoftTest(z)
  \/ SoftSet(z)
  \/ SoftRecheck(z)
  \/ SetOwner(z)
  \/ Unlock(z)
  \/ ClearOwner(z)
  \/ Release(z)

Next == \E z \in Zone : Step(z) \/ \E m \in {"lock", "try"} : Call(z, m)

Spec == Init /\ [][Next]_vars

\* A zone that is inside a function keeps running, and an exclusive store
\* that can succeed again and again does so: the forward progress the
\* architecture gives to a load/store-exclusive loop.
Fairness == \A z \in Zone : WF_vars(Step(z)) /\ SF_vars(StlxrSucceed(z))

FairSpec == Spec /\ Fairness

-----------------------------------------------------------------------------
TypeOK ==
  /\ arm64 \in BOOLEAN
  /\ lock_value \in {0, 1}
  /\ owner_zone_id \in Zone \cup {0}
  /\ monitor \in [Zone -> BOOLEAN]
  /\ mode \in [Zone -> {"lock", "try"}]
  /\ pc \in [Zone -> Place]

\* z has acquired the lock and not yet released it.
Holds(z) == pc[z] \in {"own", "cs", "clear", "release"}

(* hyperamp_shm_queue.h:14-17, 44-48: the lock protects the queue "on       *)
(* uncached memory" for "multi-process/multi-core access": two zones never *)
(* hold it at the same time.                                               *)
MutualExclusion == \A y, z \in Zone : Holds(y) /\ Holds(z) => y = z

(* owner_zone_id names the holder for the whole critical section: unlock   *)
(* clears it before it releases the lock, so that it can never erase the   *)
(* next holder's name.                                                     *)
OwnerIsHolder == \A z \in Zone : pc[z] \in {"cs", "clear"} => owner_zone_id = z

(* In the build with exclusive loads and stores both hold: STLXR writes    *)
(* only if nobody has written the lock word since the LDAXR that saw 0.    *)
ArmExcludes == arm64 => MutualExclusion
ArmOwner == arm64 => OwnerIsHolder

(* The loop of hyperamp_spinlock_lock does not livelock: when a zone is    *)
(* spinning in lock, some zone gets into its critical section.             *)
Progress ==
  (\E z \in Zone : pc[z] = "load" /\ mode[z] = "lock") ~> (\E z \in Zone : pc[z] = "cs")

-----------------------------------------------------------------------------
\* A monitor that is still set after a load that saw 0 proves lock_value is 0.
MonitorMeansFree == \A z \in Zone : pc[z] = "stlxr" /\ monitor[z] => lock_value = 0

NoSoftPlace == \A z \in Zone : pc[z] \notin {"set", "recheck"}

HolderMeansLocked == \A z \in Zone : Holds(z) => lock_value = 1

(* The inductive invariant behind mutual exclusion: in the Arm64 build a   *)
(* set monitor vouches for a free lock, and a holder for a taken one.      *)
LockInv ==
  /\ TypeOK
  /\ arm64 => /\ NoSoftPlace
              /\ MonitorMeansFree
              /\ HolderMeansLocked
              /\ MutualExclusion
              /\ OwnerIsHolder
=============================================================================
