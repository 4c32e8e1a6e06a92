------------------------------ MODULE DeviceLock ------------------------------
(***************************************************************************)
(* The lock that keeps two host processes from opening one radio           *)
(* (lock_device, is_device_locked and lock_task of host/umtrx_iface.cpp).  *)
(* It lives in two firmware registers, the time of the last refresh and    *)
(* the hash of a process.  A process looks at them while it discovers      *)
(* devices (host/umtrx_find.cpp), writes them when it opens the device     *)
(* (host/umtrx_impl.cpp), refreshes them from a task and clears the time   *)
(* in the destructor of every umtrx_iface.                                 *)
(*                                                                         *)
(* Each register access is one request of the control channel, one step    *)
(* here.  Time runs in ticks of the radio's 64-bit clock, whose low 32     *)
(* bits the lock uses; bit 0, forced to 1 to say "locked", is left out,    *)
(* and the value 0 is Unlocked.                                            *)
(***************************************************************************)
EXTENDS Integers

CONSTANTS
  Procs,        \* host processes
  None,         \* no process
  TimeMod,      \* 2^32: the values of the low half of the clock
  LockTimeout,  \* lock_timeout_time: 3*100e6 ticks
  RefreshMax,   \* ticks within which a running lock_task refreshes
  MaxSets       \* bound: times the clock is set

ASSUME ProcsAssumption == None \notin Procs
ASSUME TimeAssumption ==
  /\ TimeMod \in Nat \ {0}
  /\ LockTimeout \in 1 .. TimeMod
  /\ RefreshMax \in Nat \ {0}
  /\ 2 * RefreshMax < LockTimeout
ASSUME BoundAssumption == MaxSets \in Nat

VARIABLES
  now,          \* low half of the radio's clock
  lock_time,    \* U2_FW_REG_LOCK_TIME
  lock_gpid,    \* U2_FW_REG_LOCK_GPID
  pc,           \* where a process stands
  read,         \* what is_device_locked or lock_task has read
  age,          \* ticks since a holder's last refresh
  lockOld,      \* history: ticks since lock_time was read off the clock
  refresher,    \* history: process whose refresh lock_time holds
  sets          \* history: times the clock was set

radioVars == <<now, lock_time, lock_gpid>>
histVars  == <<lockOld, refresher, sets>>
vars      == <<radioVars, pc, read, age, histVars>>

Time == 0 .. TimeMod - 1

NextTick(t) == (t + 1) % TimeMod

Unlocked == -1

\* gpid, decide: is_device_locked between its reads.  ignore, take: its result
\* is true or false and the interface is about to be destroyed.  found: the
\* device is in the list that find returned.  peek, poke, sleep: lock_task of
\* a process that has opened the device.
Finding == {"gpid", "decide", "ignore", "take"}
Holding == {"peek", "poke", "sleep"}
Holders == {p \in Procs : pc[p] \in Holding}

\* old counts the ticks since the time was read off the clock, up to TimeMod;
\* valid: the clock was not set meanwhile.
NothingRead == [time |-> Unlocked, old |-> 0, gpid |-> None, valid |-> FALSE]
Older(n) == IF n < TimeMod THEN n + 1 ELSE n

GoTo(p, where) == pc' = [pc EXCEPT ![p] = where]
Keep(p, r) == read' = [read EXCEPT ![p] = r]

-----------------------------------------------------------------------------
(* Discovery.                                                              *)

\* is_device_locked reads the time of the lock ...
ReadLockTime(p) ==
  /\ pc[p] = "idle"
  /\ GoTo(p, "gpid")
  /\ Keep(p, [NothingRead EXCEPT !.time = lock_time, !.old = lockOld])
  /\ UNCHANGED <<radioVars, age, histVars>>

\* ... and its owner ...
ReadLockGpid(p) ==
  /\ pc[p] = "gpid"
  /\ GoTo(p, "decide")
  /\ Keep(p, [read[p] EXCEPT !.gpid = lock_gpid])
  /\ UNCHANGED <<radioVars, age, histVars>>

\* Mutant: the age of the lock is not looked at.
SeemsLocked_noTimeout(p) ==
  /\ read[p].time # Unlocked
  /\ read[p].gpid # p

\* ... and the clock: the result of is_device_locked.
SeemsLocked(p) ==
  /\ read[p].time # Unlocked
  /\ (now - read[p].time) % TimeMod < LockTimeout
  /\ read[p].gpid # p

Decide(p) ==
  /\ pc[p] = "decide"
  /\ GoTo(p, IF SeemsLocked(p) THEN "ignore" ELSE "take")
  /\ UNCHANGED <<radioVars, read, age, histVars>>

\* The interface that find made goes out of scope: its destructor calls
\* lock_device(false), whoever holds the lock.
CloseFound(p) ==
  /\ pc[p] \in {"ignore", "take"}
  /\ GoTo(p, IF pc[p] = "ignore" THEN "idle" ELSE "found")
  /\ Keep(p, NothingRead)
  /\ lock_time' = Unlocked
  /\ lockOld' = 0
  /\ refresher' = None
  /\ UNCHANGED <<now, lock_gpid, age, sets>>

-----------------------------------------------------------------------------
(* The open device.                                                        *)

\* lock_device(true) in the constructor of umtrx_impl.
LockDevice(p) ==
  /\ pc[p] = "found"
  /\ GoTo(p, "peek")
  /\ lock_gpid' = p
  /\ UNCHANGED <<now, lock_time, read, age, histVars>>

\* The process only wanted to list the devices.
Forget(p) ==
  /\ pc[p] = "found"
  /\ GoTo(p, "idle")
  /\ UNCHANGED <<radioVars, read, age, histVars>>

\* lock_task reads the clock ...
TaskPeek(p) ==
  /\ pc[p] = "peek"
  /\ GoTo(p, "poke")
  /\ Keep(p, [NothingRead EXCEPT !.time = now, !.valid = TRUE])
  /\ UNCHANGED <<radioVars, age, histVars>>

\* Mutants: the task writes only a lock that is still there; the task writes
\* the lock only when it was cleared.
TaskPoke_ifLocked(p) ==
  /\ pc[p] = "poke"
  /\ GoTo(p, "sleep")
  /\ Keep(p, NothingRead)
  /\ lock_time' = IF lock_time = Unlocked THEN Unlocked ELSE read[p].time
  /\ age' = [age EXCEPT ![p] = 0]
  /\ UNCHANGED <<now, lock_gpid, lockOld, refresher, sets>>
TaskPoke_once(p) ==
  /\ pc[p] = "poke"
  /\ GoTo(p, "sleep")
  /\ Keep(p, NothingRead)
  /\ lock_time' = IF lock_time = Unlocked THEN read[p].time ELSE lock_time
  /\ age' = [age EXCEPT ![p] = 0]
  /\ lockOld' = read[p].old
  /\ refresher' = IF read[p].valid THEN p ELSE None
  /\ UNCHANGED <<now, lock_gpid, sets>>

\* ... and writes it into the lock.
TaskPoke(p) ==
  /\ pc[p] = "poke"
  /\ GoTo(p, "sleep")
  /\ Keep(p, NothingRead)
  /\ lock_time' = read[p].time
  /\ age' = [age EXCEPT ![p] = 0]
  /\ lockOld' = read[p].old
  /\ refresher' = IF read[p].valid THEN p ELSE None
  /\ UNCHANGED <<now, lock_gpid, sets>>

\* 1.5 s later.
TaskWake(p) ==
  /\ pc[p] = "sleep"
  /\ GoTo(p, "peek")
  /\ UNCHANGED <<radioVars, read, age, histVars>>

\* lock_device(false) in the destructor: the task ends at its sleep, then the
\* time is cleared.
UnlockDevice(p) ==
  /\ pc[p] = "sleep"
  /\ GoTo(p, "idle")
  /\ lock_time' = Unlocked
  /\ age' = [age EXCEPT ![p] = 0]
  /\ lockOld' = 0
  /\ refresher' = None
  /\ UNCHANGED <<now, lock_gpid, read, sets>>

\* A process dies and leaves the registers as they are.
Crash(p) ==
  /\ pc[p] # "idle"
  /\ GoTo(p, "idle")
  /\ Keep(p, NothingRead)
  /\ age' = [age EXCEPT ![p] = 0]
  /\ UNCHANGED <<radioVars, histVars>>

-----------------------------------------------------------------------------
(* The radio's clock.                                                      *)

\* Time passes; a task that runs refreshes within RefreshMax ticks.
Tick ==
  /\ \A p \in Holders : age[p] < RefreshMax
  /\ now' = NextTick(now)
  /\ age' = [p \in Procs |-> IF p \in Holders THEN age[p] + 1 ELSE age[p]]
  /\ lockOld' = IF lock_time = Unlocked THEN lockOld ELSE Older(lockOld)
  /\ read' = [p \in Procs |->
                IF pc[p] \in {"gpid", "decide", "poke"} /\ read[p].time # Unlocked
                  THEN [read[p] EXCEPT !.old = Older(@)] ELSE read[p]]
  /\ UNCHANGED <<lock_time, lock_gpid, pc, refresher, sets>>

\* A process that has the device open sets its clock (set_time_now).
SetTime(t) ==
  /\ Holders # {}
  /\ sets < MaxSets
  /\ sets' = sets + 1
  /\ now' = t
  /\ refresher' = None
  /\ read' = [p \in Procs |-> [read[p] EXCEPT !.valid = FALSE]]
  /\ UNCHANGED <<lock_time, lock_gpid, pc, age, lockOld>>

-----------------------------------------------------------------------------
Init ==
  /\ now = 0
  /\ lock_time = Unlocked
  /\ lock_gpid = None
  /\ pc = [p \in Procs |-> "idle"]
  /\ read = [p \in Procs |-> NothingRead]
  /\ age = [p \in Procs |-> 0]
  /\ lockOld = 0
  /\ refresher = None
  /\ sets = 0

Find(p) == ReadLockTime(p) \/ ReadLockGpid(p) \/ Decide(p) \/ CloseFound(p)
Task(p) == TaskPeek(p) \/ TaskPoke(p) \/ TaskWake(p)

Next ==
  \/ \E p \in Procs : \/ Find(p) \/ Task(p)
                      \/ LockDevice(p) \/ Forget(p) \/ UnlockDevice(p) \/ Crash(p)
  \/ Tick
  \/ \E t \in Time : SetTime(t)

Spec == Init /\ [][Next]_vars

\* A task that runs keeps running: the thread of lock_task is scheduled.
FairSpec == Spec /\ \A p \in Procs : WF_vars(Task(p))

-----------------------------------------------------------------------------
(* Properties.                                                             *)

\* Between the refreshes of a live holder its lock does not expire, although
\* the task reads the clock in one request and writes the lock in another,
\* and also across the wraparound of the clock.  Setting the clock, and the
\* discovery or the destructor of another process, void it until the next
\* refresh.
RefreshKeepsLock ==
  refresher \in Holders => /\ lock_time # Unlocked
                           /\ (now - lock_time) % TimeMod < LockTimeout

\* "if the difference is larger, assume not locked anymore": a device is
\* ignored only for a lock refreshed within lock_timeout_time, so that the
\* lock of a process that crashed runs out.  This holds until the clock is set
\* or has gone round once: then a lock that was left behind looks fresh again.
IgnoredIsFreshBeforeWrap ==
  sets = 0 => \A p \in Procs :
                pc[p] = "ignore" => read[p].old < LockTimeout \/ read[p].old = TimeMod

\* "lock the device/motherboard to this process": one process at a time has
\* the device open.
OneHolder == \A p, q \in Holders : p = q

\* The lock of a live holder comes back after others have cleared it.
LockComesBack ==
  \A p \in Procs : p \in Holders ~> (lock_time # Unlocked \/ p \notin Holders)
===============================================================================
