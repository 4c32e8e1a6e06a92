--------------------------- MODULE DeviceLockProofs ---------------------------
(***************************************************************************)
(* Proofs about DeviceLock for every set of processes, clock width, lock   *)
(* timeout and number of times the clock is set.                           *)
(***************************************************************************)
EXTENDS DeviceLock, TLAPS

-----------------------------------------------------------------------------
(* The inductive invariant.                                                *)

\* The history counter old says how long ago the time t was read off the clock:
\* exactly, or TimeMod once the clock has gone round.
Dated(t, old) == old = TimeMod \/ (now - t) % TimeMod = old

Readings ==
  [time : Time \cup {Unlocked}, old : 0 .. TimeMod, gpid : Procs \cup {None},
   valid : BOOLEAN]

Places == Finding \cup Holding \cup {"idle", "found"}

Types ==
  /\ now \in Time
  /\ lock_time \in Time \cup {Unlocked}
  /\ lock_gpid \in Procs \cup {None}
  /\ pc \in [Procs -> Places]
  /\ read \in [Procs -> Readings]
  /\ age \in [Procs -> 0 .. RefreshMax]
  /\ lockOld \in 0 .. TimeMod
  /\ refresher \in Procs \cup {None}
  /\ sets \in Nat

\* A refresh on its way from the clock to the lock is as old as its counter
\* says, and no older than the last refresh of its process.
PokeDated ==
  \A p \in Procs : pc[p] = "poke" =>
    /\ read[p].time \in Time
    /\ read[p].valid => /\ read[p].old <= age[p]
                        /\ (now - read[p].time) % TimeMod = read[p].old

\* A lock that holds a holder's refresh was read off the clock at most
\* RefreshMax ticks before that holder last wrote it.
RefreshDated ==
  \A p \in Procs : refresher = p /\ pc[p] \in Holding =>
    /\ lock_time \in Time
    /\ lockOld <= age[p] + RefreshMax
    /\ (now - lock_time) % TimeMod = lockOld

\* Discovery clears the lock before a process can become a holder again: the
\* refresh of its earlier life is gone by then.
RefreshNotKept == \A p \in Procs : refresher = p => pc[p] # "found"

\* As long as the clock is not set, counters date the lock and what was read
\* of it.
LockDated == sets = 0 /\ lock_time # Unlocked => Dated(lock_time, lockOld)

ReadDated ==
  sets = 0 => \A p \in Procs :
    pc[p] \in {"gpid", "decide", "poke"} /\ read[p].time # Unlocked =>
      Dated(read[p].time, read[p].old)

IInv ==
  /\ Types
  /\ PokeDated
  /\ RefreshDated
  /\ RefreshNotKept
  /\ LockDated
  /\ ReadDated
  /\ IgnoredIsFreshBeforeWrap

-----------------------------------------------------------------------------
(* The clock.                                                              *)

\* The age of a time on a clock that wraps around.
LEMMA AgeOf ==
  ASSUME NEW a \in Time, NEW b \in Time
  PROVE  (a - b) % TimeMod = IF a >= b THEN a - b ELSE a - b + TimeMod
BY TimeAssumption DEF Time

\* The clock goes on by one, or back to 0 at its end.
LEMMA TickOf ==
  ASSUME NEW t \in Time
  PROVE  /\ NextTick(t) \in Time
         /\ NextTick(t) = IF t = TimeMod - 1 THEN 0 ELSE t + 1
BY TimeAssumption DEF Time, NextTick

\* A tick makes a time one tick older, unless it is a whole round old.
LEMMA AgeNext ==
  ASSUME NEW a \in Time, NEW b \in Time, (a - b) % TimeMod < TimeMod - 1
  PROVE  (NextTick(a) - b) % TimeMod = ((a - b) % TimeMod) + 1
<1>1. NextTick(a) \in Time /\ NextTick(a) = IF a = TimeMod - 1 THEN 0 ELSE a + 1
  BY TickOf
<1>2. (a - b) % TimeMod = IF a >= b THEN a - b ELSE a - b + TimeMod
  BY AgeOf
<1>3. (NextTick(a) - b) % TimeMod
        = IF NextTick(a) >= b THEN NextTick(a) - b ELSE NextTick(a) - b + TimeMod
  BY <1>1, AgeOf
<1>4. TimeMod \in Nat /\ TimeMod > 0 /\ a \in Int /\ b \in Int
      /\ a >= 0 /\ b >= 0 /\ a <= TimeMod - 1 /\ b <= TimeMod - 1
  BY TimeAssumption DEF Time
<1>. QED BY <1>1, <1>2, <1>3, <1>4

\* Counters stay right when the clock ticks.
LEMMA DatedTick ==
  ASSUME now \in Time, NEW t \in Time, NEW old \in 0 .. TimeMod, Dated(t, old),
         now' = NextTick(now)
  PROVE  Dated(t, Older(old))'
<1>1. CASE old = TimeMod
  BY <1>1, TimeAssumption DEF Dated, Older
<1>2. CASE old # TimeMod /\ old < TimeMod - 1
  <2>1. (now - t) % TimeMod = old
    BY <1>2 DEF Dated
  <2>2. (now' - t) % TimeMod = old + 1
    BY <2>1, <1>2, AgeNext
  <2>. QED BY <2>2, <1>2, TimeAssumption DEF Dated, Older
<1>3. CASE old = TimeMod - 1
  BY <1>3, TimeAssumption DEF Dated, Older
<1>. QED BY <1>1, <1>2, <1>3, TimeAssumption

-----------------------------------------------------------------------------
(* The invariant holds initially and is kept by every step.                *)

\* No lock and no refresh exists at first.
LEMMA InitIInv == Init => IInv
<1>. SUFFICES ASSUME Init PROVE IInv
  OBVIOUS
<1>1. Types
  BY TimeAssumption
     DEF Init, Types, Time, Readings, Places, NothingRead, Finding, Holding
<1>2. PokeDated /\ RefreshDated /\ RefreshNotKept
  BY ProcsAssumption DEF Init, PokeDated, RefreshDated, RefreshNotKept
<1>3. LockDated /\ ReadDated /\ IgnoredIsFreshBeforeWrap
  BY DEF Init, LockDated, ReadDated, IgnoredIsFreshBeforeWrap
<1>. QED BY <1>1, <1>2, <1>3 DEF IInv

\* What lock_task reads off the clock.
LEMMA ClockReading ==
  ASSUME NEW t \in Time
  PROVE  [NothingRead EXCEPT !.time = t, !.valid = TRUE] \in Readings
<1>1. 0 \in 0 .. TimeMod
  BY TimeAssumption
<1>. QED BY <1>1 DEF NothingRead, Readings

\* Every step of a process or of the radio keeps the types.
LEMMA TypesStep == Types /\ [Next]_vars => Types'
<1>. SUFFICES ASSUME Types, [Next]_vars
              PROVE  Types'
  OBVIOUS
<1>. USE TimeAssumption
     DEF Types, Readings, Places, Finding, Holding, NothingRead, GoTo, Keep,
         radioVars, histVars
<1>1. ASSUME NEW p \in Procs, ReadLockTime(p) PROVE Types'
  BY <1>1 DEF ReadLockTime
<1>2. ASSUME NEW p \in Procs, ReadLockGpid(p) PROVE Types'
  BY <1>2 DEF ReadLockGpid
<1>3. ASSUME NEW p \in Procs, Decide(p) PROVE Types'
  BY <1>3 DEF Decide
<1>4. ASSUME NEW p \in Procs, CloseFound(p) PROVE Types'
  BY <1>4 DEF CloseFound
<1>5. ASSUME NEW p \in Procs, LockDevice(p) \/ Forget(p) PROVE Types'
  BY <1>5 DEF LockDevice, Forget
<1>6. ASSUME NEW p \in Procs, TaskPeek(p) PROVE Types'
  <2>2. read' \in [Procs -> Readings]
    BY <1>6, ClockReading DEF TaskPeek
  <2>. QED BY <1>6, <2>2 DEF TaskPeek
<1>7. ASSUME NEW p \in Procs, TaskPoke(p) PROVE Types'
  BY <1>7 DEF TaskPoke
<1>8. ASSUME NEW p \in Procs, TaskWake(p) \/ UnlockDevice(p) PROVE Types'
  BY <1>8 DEF TaskWake, UnlockDevice
<1>12. ASSUME NEW p \in Procs, Crash(p) PROVE Types'
  BY <1>12 DEF Crash
<1>9. CASE Tick
  <2>1. now' \in Time
    BY <1>9, TickOf DEF Tick
  <2>2. age' \in [Procs -> 0 .. RefreshMax]
    BY <1>9 DEF Tick, Holders
  <2>3. lockOld' \in 0 .. TimeMod
    BY <1>9 DEF Tick, Older
  <2>4. read' \in [Procs -> Readings]
    BY <1>9 DEF Tick, Older
  <2>. QED BY <1>9, <2>1, <2>2, <2>3, <2>4 DEF Tick
<1>10. ASSUME NEW t \in Time, SetTime(t) PROVE Types'
  <2>1. ASSUME NEW r \in Readings PROVE [r EXCEPT !.valid = FALSE] \in Readings
    OBVIOUS
  <2>2. read' \in [Procs -> Readings]
    BY <1>10, <2>1 DEF SetTime
  <2>. QED BY <1>10, <2>2 DEF SetTime
<1>11. CASE UNCHANGED vars
  BY <1>11 DEF vars
<1>. QED
  BY <1>1, <1>2, <1>3, <1>4, <1>5, <1>6, <1>7, <1>8, <1>9, <1>10, <1>11,
     <1>12 DEF Next, Find, Task

\* Host steps leave the clock alone.  A process's reading and place change for
\* the process that takes the step only.
LEMMA HostStep ==
  ASSUME IInv, Types', NEW p \in Procs,
         \/ Find(p) \/ LockDevice(p) \/ Forget(p)
         \/ TaskPeek(p) \/ TaskWake(p) \/ UnlockDevice(p) \/ Crash(p)
  PROVE  IInv'
<1>. USE DEF IInv, GoTo, Keep, radioVars, histVars
<1>1. CASE ReadLockTime(p)
  <2>1. /\ PokeDated' /\ RefreshDated' /\ RefreshNotKept'
    BY <1>1 DEF ReadLockTime, PokeDated, RefreshDated, RefreshNotKept, Types, Holding
  <2>2. LockDated' /\ IgnoredIsFreshBeforeWrap'
    BY <1>1 DEF ReadLockTime, LockDated, Dated, IgnoredIsFreshBeforeWrap, Types
  <2>3. ReadDated'
    BY <1>1 DEF ReadLockTime, LockDated, ReadDated, Dated, Types, Readings, NothingRead
  <2>. QED BY <2>1, <2>2, <2>3
<1>2. CASE ReadLockGpid(p)
  <2>1. /\ PokeDated' /\ RefreshDated' /\ RefreshNotKept'
    BY <1>2 DEF ReadLockGpid, PokeDated, RefreshDated, RefreshNotKept, Types, Holding
  <2>2. LockDated' /\ IgnoredIsFreshBeforeWrap'
    BY <1>2 DEF ReadLockGpid, LockDated, Dated, IgnoredIsFreshBeforeWrap, Types
  <2>3. ReadDated'
    BY <1>2 DEF ReadLockGpid, ReadDated, Dated, Types, Readings
  <2>. QED BY <2>1, <2>2, <2>3
<1>3. CASE Decide(p)
  <2>1. /\ PokeDated' /\ RefreshDated' /\ RefreshNotKept'
    BY <1>3 DEF Decide, PokeDated, RefreshDated, RefreshNotKept, Types, Holding
  <2>2. LockDated' /\ ReadDated'
    BY <1>3 DEF Decide, LockDated, ReadDated, Dated, Types
  <2>3. IgnoredIsFreshBeforeWrap'
    BY <1>3 DEF Decide, SeemsLocked, ReadDated, Dated, IgnoredIsFreshBeforeWrap, Types
  <2>. QED BY <2>1, <2>2, <2>3
<1>4. CASE CloseFound(p)
  <2>1. /\ PokeDated' /\ RefreshDated' /\ RefreshNotKept'
    BY <1>4, ProcsAssumption
       DEF CloseFound, PokeDated, RefreshDated, RefreshNotKept, Types
  <2>2. LockDated' /\ ReadDated' /\ IgnoredIsFreshBeforeWrap'
    BY <1>4 DEF CloseFound, LockDated, ReadDated, Dated, IgnoredIsFreshBeforeWrap, Types
  <2>. QED BY <2>1, <2>2
<1>5. CASE LockDevice(p) \/ Forget(p)
  <2>1. PokeDated' /\ RefreshNotKept'
    BY <1>5 DEF LockDevice, Forget, PokeDated, RefreshNotKept, Types
  <2>2. RefreshDated'
    BY <1>5 DEF LockDevice, Forget, RefreshDated, RefreshNotKept, Types, Holding
  <2>3. LockDated' /\ ReadDated' /\ IgnoredIsFreshBeforeWrap'
    BY <1>5 DEF LockDevice, Forget, LockDated, ReadDated, Dated,
                IgnoredIsFreshBeforeWrap, Types
  <2>. QED BY <2>1, <2>2, <2>3
<1>6. CASE TaskPeek(p)
  <2>1. (now - now) % TimeMod = 0
    BY AgeOf, TimeAssumption DEF Types, Time
  <2>2. /\ read'[p].time = now /\ read'[p].old = 0 /\ read'[p].valid
        /\ \A q \in Procs : q # p => read'[q] = read[q]
    BY <1>6 DEF TaskPeek, NothingRead, Types, Readings
  <2>3. PokeDated'
    BY <1>6, <2>1, <2>2 DEF TaskPeek, PokeDated, Types
  <2>4. RefreshDated' /\ RefreshNotKept' /\ LockDated'
    BY <1>6 DEF TaskPeek, RefreshDated, RefreshNotKept, LockDated, Dated, Types, Holding
  <2>5. ReadDated' /\ IgnoredIsFreshBeforeWrap'
    BY <1>6, <2>1, <2>2 DEF TaskPeek, ReadDated, Dated, IgnoredIsFreshBeforeWrap, Types
  <2>. QED BY <2>3, <2>4, <2>5
<1>7. CASE TaskWake(p)
  BY <1>7 DEF TaskWake, PokeDated, RefreshDated, RefreshNotKept, LockDated, ReadDated,
              Dated, IgnoredIsFreshBeforeWrap, Types, Holding
<1>8. CASE UnlockDevice(p)
  <2>1. PokeDated' /\ RefreshDated' /\ RefreshNotKept'
    BY <1>8, ProcsAssumption
       DEF UnlockDevice, PokeDated, RefreshDated, RefreshNotKept, Types
  <2>2. LockDated' /\ ReadDated' /\ IgnoredIsFreshBeforeWrap'
    BY <1>8 DEF UnlockDevice, LockDated, ReadDated, Dated, IgnoredIsFreshBeforeWrap, Types
  <2>. QED BY <2>1, <2>2
<1>9. CASE Crash(p)
  <2>1. PokeDated' /\ RefreshDated' /\ RefreshNotKept'
    BY <1>9 DEF Crash, PokeDated, RefreshDated, RefreshNotKept, Types, Holding
  <2>2. LockDated' /\ ReadDated' /\ IgnoredIsFreshBeforeWrap'
    BY <1>9 DEF Crash, LockDated, ReadDated, Dated, IgnoredIsFreshBeforeWrap, Types
  <2>. QED BY <2>1, <2>2
<1>. QED BY <1>1, <1>2, <1>3, <1>4, <1>5, <1>6, <1>7, <1>8, <1>9 DEF Find

\* The refresh: what was read off the clock goes into the lock.
LEMMA PokeStep ==
  ASSUME IInv, Types', NEW p \in Procs, TaskPoke(p)
  PROVE  IInv'
<1>. USE DEF IInv, GoTo, Keep, radioVars, histVars
<1>1. PokeDated' /\ RefreshNotKept'
  BY ProcsAssumption DEF TaskPoke, PokeDated, RefreshNotKept, Types
<1>2. RefreshDated'
  <2>. SUFFICES ASSUME NEW q \in Procs, refresher' = q
                PROVE  /\ lock_time' \in Time
                       /\ lockOld' <= age'[q] + RefreshMax
                       /\ (now' - lock_time') % TimeMod = lockOld'
    BY DEF RefreshDated
  <2>1. q = p /\ read[p].valid
    BY ProcsAssumption DEF TaskPoke
  <2>2. /\ read[p].time \in Time
        /\ read[p].old <= age[p]
        /\ (now - read[p].time) % TimeMod = read[p].old
    BY <2>1 DEF TaskPoke, PokeDated
  <2>3. age[p] <= RefreshMax /\ age'[p] = 0
    BY DEF TaskPoke, Types
  <2>4. read[p].old \in Nat /\ RefreshMax \in Nat /\ age[p] \in Nat
    BY TimeAssumption DEF Types, Readings
  <2>. QED BY <2>1, <2>2, <2>3, <2>4 DEF TaskPoke
<1>3. LockDated'
  BY DEF TaskPoke, LockDated, ReadDated, Dated, Types
<1>4. ReadDated' /\ IgnoredIsFreshBeforeWrap'
  BY DEF TaskPoke, ReadDated, Dated, IgnoredIsFreshBeforeWrap, Types
<1>. QED BY <1>1, <1>2, <1>3, <1>4

\* Time passes: whatever is dated is one tick older.
LEMMA TickStep ==
  ASSUME IInv, Types', Tick
  PROVE  IInv'
<1>. USE DEF IInv
<1>1. now \in Time /\ now' = NextTick(now)
  BY DEF Tick, Types
<1>2. PokeDated'
  <2>. SUFFICES ASSUME NEW p \in Procs, pc[p] = "poke"
                PROVE  /\ read'[p].time \in Time
                       /\ read'[p].valid =>
                            /\ read'[p].old <= age'[p]
                            /\ (now' - read'[p].time) % TimeMod = read'[p].old
    BY DEF PokeDated, Tick
  <2>1. read[p].time \in Time /\ read[p].time # Unlocked
    BY DEF PokeDated, Time, Unlocked
  <2>2. /\ age'[p] = age[p] + 1 /\ age[p] < RefreshMax
        /\ read'[p] = [read[p] EXCEPT !.old = Older(@)]
    BY <2>1 DEF Tick, Types, Holders, Holding
  <2>3. /\ read'[p].time = read[p].time /\ read'[p].valid = read[p].valid
        /\ read'[p].old = Older(read[p].old)
    BY <2>2 DEF Types, Readings
  <2>4. ASSUME read[p].valid
        PROVE  /\ read'[p].old <= age'[p]
               /\ (now' - read'[p].time) % TimeMod = read'[p].old
    <3>1. /\ read[p].old <= age[p]
          /\ (now - read[p].time) % TimeMod = read[p].old
      BY <2>4 DEF PokeDated
    <3>2. read[p].old < TimeMod - 1 /\ Older(read[p].old) = read[p].old + 1
      BY <3>1, <2>2, TimeAssumption DEF Types, Readings, Older
    <3>3. (now' - read[p].time) % TimeMod = read[p].old + 1
      BY <1>1, <2>1, <3>1, <3>2, AgeNext
    <3>4. read[p].old + 1 <= age[p] + 1
      BY <3>1, TimeAssumption DEF Types, Readings
    <3>. QED BY <2>2, <2>3, <3>2, <3>3, <3>4
  <2>. QED BY <2>1, <2>3, <2>4
<1>3. RefreshDated'
  <2>. SUFFICES ASSUME NEW p \in Procs, refresher = p, pc[p] \in Holding
                PROVE  /\ lock_time' \in Time
                       /\ lockOld' <= age'[p] + RefreshMax
                       /\ (now' - lock_time') % TimeMod = lockOld'
    BY DEF RefreshDated, Tick
  <2>1. /\ lock_time \in Time /\ lock_time # Unlocked
        /\ lockOld <= age[p] + RefreshMax
        /\ (now - lock_time) % TimeMod = lockOld
    BY DEF RefreshDated, Time, Unlocked
  <2>2. /\ age'[p] = age[p] + 1 /\ age[p] < RefreshMax
        /\ lock_time' = lock_time /\ lockOld' = Older(lockOld)
    BY <2>1 DEF Tick, Types, Holders
  <2>3. lockOld < TimeMod - 1 /\ Older(lockOld) = lockOld + 1
    BY <2>1, <2>2, TimeAssumption DEF Types, Older
  <2>4. (now' - lock_time) % TimeMod = lockOld + 1
    BY <1>1, <2>1, <2>3, AgeNext
  <2>5. lockOld + 1 <= (age[p] + 1) + RefreshMax
    BY <2>1, TimeAssumption DEF Types
  <2>. QED BY <2>1, <2>2, <2>3, <2>4, <2>5
<1>4. RefreshNotKept'
  BY DEF RefreshNotKept, Tick
<1>5. LockDated'
  <2>. SUFFICES ASSUME sets = 0, lock_time # Unlocked
                PROVE  Dated(lock_time, lockOld)'
    BY DEF LockDated, Tick
  <2>1. Dated(lock_time, lockOld) /\ lock_time \in Time /\ lockOld \in 0 .. TimeMod
    BY DEF LockDated, Types
  <2>2. lockOld' = Older(lockOld) /\ lock_time' = lock_time
    BY DEF Tick
  <2>3. Older(lockOld) = TimeMod \/ (now' - lock_time) % TimeMod = Older(lockOld)
    BY <1>1, <2>1, DatedTick DEF Dated, Older
  <2>. QED BY <2>2, <2>3 DEF Dated
<1>6. ReadDated'
  <2>. SUFFICES ASSUME sets = 0, NEW p \in Procs,
                       pc[p] \in {"gpid", "decide", "poke"}, read'[p].time # Unlocked
                PROVE  Dated(read[p].time, read[p].old)'
    BY DEF ReadDated, Tick
  <2>1. read[p].time # Unlocked
    BY DEF Tick, Types, Readings
  <2>2. /\ Dated(read[p].time, read[p].old) /\ read[p].time \in Time
        /\ read[p].old \in 0 .. TimeMod
    BY <2>1 DEF ReadDated, Types, Readings
  <2>3. read'[p].old = Older(read[p].old) /\ read'[p].time = read[p].time
    BY <2>1 DEF Tick, Types, Readings
  <2>4. Older(read[p].old) = TimeMod
        \/ (now' - read[p].time) % TimeMod = Older(read[p].old)
    BY <1>1, <2>2, DatedTick DEF Dated, Older
  <2>. QED BY <2>3, <2>4 DEF Dated
<1>7. IgnoredIsFreshBeforeWrap'
  BY DEF Tick, IgnoredIsFreshBeforeWrap, Types
<1>. QED BY <1>2, <1>3, <1>4, <1>5, <1>6, <1>7

\* Setting the clock voids every refresh, in the lock or on its way.
LEMMA SetTimeStep ==
  ASSUME IInv, Types', NEW t \in Time, SetTime(t)
  PROVE  IInv'
<1>. USE DEF IInv
<1>1. /\ \A p \in Procs : read'[p].time = read[p].time /\ ~read'[p].valid
      /\ sets' # 0 /\ refresher' = None /\ UNCHANGED pc
  BY DEF SetTime, Types, Readings
<1>2. PokeDated'
  BY <1>1 DEF PokeDated
<1>3. RefreshDated' /\ RefreshNotKept'
  BY <1>1, ProcsAssumption DEF RefreshDated, RefreshNotKept
<1>4. LockDated' /\ ReadDated' /\ IgnoredIsFreshBeforeWrap'
  BY <1>1 DEF LockDated, ReadDated, IgnoredIsFreshBeforeWrap
<1>. QED BY <1>2, <1>3, <1>4

\* One case per action of Next.
LEMMA NextIInv == IInv /\ [Next]_vars => IInv'
<1>. SUFFICES ASSUME IInv, [Next]_vars
              PROVE  IInv'
  OBVIOUS
<1>1. Types'
  BY TypesStep DEF IInv
<1>2. ASSUME NEW p \in Procs, Find(p) \/ Task(p) \/ LockDevice(p) \/ Forget(p)
                              \/ UnlockDevice(p) \/ Crash(p)
      PROVE  IInv'
  BY <1>1, <1>2, HostStep, PokeStep DEF Task
<1>3. CASE Tick
  BY <1>1, <1>3, TickStep
<1>4. ASSUME NEW t \in Time, SetTime(t)
      PROVE  IInv'
  BY <1>1, <1>4, SetTimeStep
<1>5. CASE UNCHANGED vars
  BY <1>5 DEF IInv, Types, PokeDated, RefreshDated, RefreshNotKept, LockDated, ReadDated,
              Dated, IgnoredIsFreshBeforeWrap, vars, radioVars, histVars
<1>. QED BY <1>2, <1>3, <1>4, <1>5 DEF Next

-----------------------------------------------------------------------------
(* The theorems.                                                           *)

\* The inductive invariant: the lock time is as old as its history counter says,
\* through every interleaving of lock_task, discovery and the clock.
THEOREM LockInvariant == Spec => []IInv
<1>. QED BY InitIInv, NextIInv, PTL DEF Spec

\* The lock of a holder that runs lock_task never looks expired to
\* is_device_locked, for every clock width and every timeout above twice the
\* time between refreshes: the time is at most that old when it is replaced.
THEOREM HolderKeepsLock == Spec => []RefreshKeepsLock
<1>1. IInv => RefreshKeepsLock
  <2>. SUFFICES ASSUME IInv, refresher \in Holders
                PROVE  /\ lock_time # Unlocked
                       /\ (now - lock_time) % TimeMod < LockTimeout
    BY DEF RefreshKeepsLock
  <2>1. /\ lock_time \in Time
        /\ lockOld <= age[refresher] + RefreshMax
        /\ (now - lock_time) % TimeMod = lockOld
    BY DEF IInv, RefreshDated, Holders
  <2>2. age[refresher] \in 0 .. RefreshMax /\ lockOld \in Nat
    BY DEF IInv, Types, Holders
  <2>3. lockOld < LockTimeout
    BY <2>1, <2>2, TimeAssumption
  <2>. QED BY <2>1, <2>3 DEF Time, Unlocked
<1>. QED BY <1>1, LockInvariant, PTL

\* is_device_locked ignores a device only for a lock that was refreshed within
\* the timeout, as long as the clock was not set and has not gone round.
THEOREM IgnoredIsFresh == Spec => []IgnoredIsFreshBeforeWrap
<1>1. IInv => IgnoredIsFreshBeforeWrap
  BY DEF IInv
<1>. QED BY <1>1, LockInvariant, PTL
==============================================================================
