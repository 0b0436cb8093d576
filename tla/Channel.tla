------------------------------ MODULE Channel ------------------------------
(***************************************************************************)
(* One bus channel of FlashSim (ssd_channel.cpp, behind ssd_bus.cpp): a    *)
(* table of the intervals for which the channel is locked, in which lock() *)
(* looks for a place for a transmission of a given duration. Times are     *)
(* natural numbers. The controller's events do not reach a channel in the  *)
(* order of their start times: the write of a page copy starts after its   *)
(* read, and the request that caused the copy is issued later with its own *)
(* start time.                                                             *)
(***************************************************************************)
EXTENDS Integers, Sequences, FiniteSets, SequencesExt, FiniteSetsExt

CONSTANTS Duration,          \* the delays a lock is asked for
          MaxTime,           \* bound on start_time
          MaxLocks,          \* bound on the number of locks
          max_connections

ChannelAssumption == /\ Duration \subseteq Nat \ {0} /\ MaxTime \in Nat
                     /\ MaxLocks \in Nat /\ max_connections \in Nat

VARIABLES timings,        \* sequence of [lock_time, unlock_time]
          ready_at,
          num_connected,
          granted         \* history: every interval that was ever locked

vars == <<timings, ready_at, num_connected, granted>>

Interval(t, d) == [lock_time |-> t, unlock_time |-> t + d]

Init == /\ timings = <<>> /\ ready_at = -1 /\ num_connected = 0
        /\ granted = <<>>
-----------------------------------------------------------------------------
connect ==
  /\ num_connected < max_connections
  /\ num_connected' = num_connected + 1
  /\ UNCHANGED <<timings, ready_at, granted>>

disconnect ==
  /\ num_connected > 0
  /\ num_connected' = num_connected - 1
  /\ UNCHANGED <<timings, ready_at, granted>>

\* unlock() erases an expired entry and then increments the iterator, which the
\* erasure has already moved on, until it meets one that has not expired: it
\* looks at the first, third, fifth... entry only.
Odd == {i \in DOMAIN timings : i % 2 = 1}
Erased(start) == {i \in Odd : \A j \in Odd : j <= i => timings[j].unlock_time <= start}

\* timings_sorter(), by which std::sort() orders the entries that are kept. No
\* two of them have the same lock_time.
timings_sorter(a, b) == a.lock_time < b.lock_time
Sorted(S) ==
  [i \in 1..Cardinality(S) |->
     CHOOSE a \in S : Cardinality({b \in S : timings_sorter(b, a)}) = i - 1]

unlock(start) == Sorted({timings[i] : i \in DOMAIN timings \ Erased(start)})

\* A slip: any gap will do.
RoomAnyway(t, start, d) == {i \in 1..(Len(t) - 1) : t[i].unlock_time >= start}

\* The entries after which, up to the next entry, there is room.
Room(t, start, d) ==
  {i \in 1..(Len(t) - 1) : /\ t[i].unlock_time >= start
                           /\ t[i + 1].lock_time - t[i].unlock_time >= d}

\* sched_time of lock(): before the first entry, after the first one with room
\* behind it, or after the last.
SchedTime(t, start, d) ==
  IF t = <<>> \/ (t[1].lock_time > start /\ t[1].lock_time - start >= d)
  THEN start
  ELSE IF Room(t, start, d) # {} THEN t[Min(Room(t, start, d))].unlock_time
  ELSE Last(t).unlock_time

\* A slip: the channel is ready at the end of the last lock granted.
readyAtLast(u) == u
readyAt(u) == IF u > ready_at THEN u ELSE ready_at

lock(start, d) ==
  LET t == unlock(start)
      i == Interval(SchedTime(t, start, d), d)
  IN  /\ Len(granted) < MaxLocks
      /\ timings' = Append(t, i)
      /\ ready_at' = readyAt(i.unlock_time)
      /\ granted' = Append(granted, i)
      /\ UNCHANGED num_connected

Next == \/ connect \/ disconnect
        \/ \E start \in 0..MaxTime, d \in Duration : lock(start, d)

Spec == Init /\ [][Next]_vars
-----------------------------------------------------------------------------
(***************************************************************************)
(* The type of every variable; a lock is never scheduled before time 0 and *)
(* the channel never has more devices than max_connections.                *)
(***************************************************************************)
TypeOK ==
  /\ timings \in Seq([lock_time : Nat, unlock_time : Nat])
  /\ granted \in Seq([lock_time : Nat, unlock_time : Nat])
  /\ ready_at \in Nat \cup {-1}
  /\ num_connected \in 0..max_connections

Disjoint(i, j) == i.unlock_time <= j.lock_time \/ j.unlock_time <= i.lock_time
AllDisjoint(t) == \A i, j \in DOMAIN t : i # j => Disjoint(t[i], t[j])

(***************************************************************************)
(* Two entries of the scheduling table of Channel::lock() never overlap,   *)
(* in whichever order the start times of the locks come.                   *)
(***************************************************************************)
TableDisjoint == AllDisjoint(timings)

(***************************************************************************)
(* ready_time(), which Ssd::ready_at() hands to the caller, is not before  *)
(* the end of any transmission that the channel ever granted.              *)
(***************************************************************************)
ReadyAfterAll == \A i \in DOMAIN granted : granted[i].unlock_time <= ready_at
=============================================================================
