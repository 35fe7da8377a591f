-------------------------- MODULE DeadLetterQueue --------------------------
(***************************************************************************)
(* The dead-letter queue (ingestion_gateway/dead_letter.py) over either of *)
(* its storages: the ring in memory (persistence/in_memory.py) and the     *)
(* directory of files (persistence/file_storage.py).  Every method holds   *)
(* one lock and is one action; a crash can come between the eviction and   *)
(* the write of a file.  A file's modification time is a reading of a      *)
(* clock that may not have moved since the last write, so files can tie.   *)
(***************************************************************************)
EXTENDS Naturals, FiniteSets, SequencesExt, Dict

CONSTANTS
  MaxLetters,  \* bound on the letters; a dead_letter_id is the number it is given
  Owner,       \* letter -> tenant
  Capacity,    \* max_items
  MaxRetries,  \* max_retries of an item
  MaxMtime,    \* bound on the clock
  MaxCrashes   \* bound on restarts of the process

Letters == 1..MaxLetters

ASSUME CapacityAssumption ==
  /\ Capacity \in Nat \ {0}
  /\ {MaxLetters, MaxRetries, MaxMtime, MaxCrashes} \subseteq Nat

VARIABLES
  backend,     \* "memory" or "file", chosen when the queue is built
  held,        \* letter -> [retries, at]: _items, or the files with their mtime
  ring,        \* _queue, the order of arrival in memory
  mtime,       \* the file system's clock
  stats,       \* the counters of get_stats
  issued,      \* the number of letters ever written (history)
  carried,     \* letters held when this process started (history)
  evicted,     \* letters pushed out since then (history)
  stuck,       \* evictions the file system refused (history)
  crashes

dlqVars == <<backend, held, ring, mtime, stats, issued, carried, evicted, stuck, crashes>>

NoStats == [enqueued |-> 0, purged |-> 0, requeued |-> 0]

DlqInit ==
  /\ backend \in {"memory", "file"}
  /\ held = EmptyDict /\ ring = <<>> /\ mtime = 0 /\ stats = NoStats
  /\ issued = 0 /\ carried = 0 /\ evicted = 0 /\ stuck = 0 /\ crashes = 0

Size == Cardinality(DOMAIN held)

\* The files that sort first by mtime: any of those that tie.
Oldest == {l \in DOMAIN held : \A k \in DOMAIN held : held[l].at <= held[k].at}

\* Mutant: the files are sorted newest first, as list_items sorts them.
VictimsNewest ==
  IF backend = "memory"
  THEN IF Len(ring) = Capacity THEN {{Head(ring)}} ELSE {{}}
  ELSE IF Size >= Capacity
  THEN {{l} : l \in {k \in DOMAIN held : \A j \in DOMAIN held : held[k].at >= held[j].at}} ELSE {{}}

\* What a new letter pushes out: the head of a full ring, or an oldest file.
Victims ==
  IF backend = "memory"
  THEN IF Len(ring) = Capacity THEN {{Head(ring)}} ELSE {{}}
  ELSE IF Size >= Capacity THEN {{l} : l \in Oldest} ELSE {{}}

\* deque.append with maxlen
Appended(l) == Append(IF Len(ring) = Capacity THEN Tail(ring) ELSE ring, l)

Item(n) == [retries |-> n, at |-> mtime]

\* Mutant: room is made for every save, for one that only updates a letter too.
EnqueueOverfull(l) ==
  /\ l = issued + 1
  /\ held' = Put(held, l, Item(0))
  /\ ring' = IF backend = "memory" THEN Appended(l) ELSE ring
  /\ evicted' = evicted
  /\ issued' = l
  /\ stats' = [stats EXCEPT !.enqueued = @ + 1]
  /\ UNCHANGED <<backend, mtime, carried, stuck, crashes>>

\* enqueue: make room, save, count.  Removing the oldest file may fail.
enqueue(l) ==
  /\ l = issued + 1
  /\ \E v \in Victims : \E gone \in IF backend = "file" THEN {v, {}} ELSE {v} :
       /\ held' = Put(Drop(held, gone), l, Item(0))
       /\ evicted' = evicted + Cardinality(gone \cap DOMAIN held)
       /\ stuck' = stuck + Cardinality(v \ gone)
  /\ ring' = IF backend = "memory" THEN Appended(l) ELSE ring
  /\ issued' = l
  /\ stats' = [stats EXCEPT !.enqueued = @ + 1]
  /\ UNCHANGED <<backend, mtime, carried, crashes>>

\* Mutant: the letter stays in the ring, as if deleting an id were enough.
DeleteFromItems(gone) ==
  /\ held' = Drop(held, gone)
  /\ stats' = [stats EXCEPT !.purged = @ + Cardinality(gone)]
  /\ UNCHANGED <<backend, ring, mtime, issued, carried, evicted, stuck, crashes>>

\* _queue.remove of each: what stays keeps its order.
Remaining(gone) ==
  LET stay == {i \in DOMAIN ring : ring[i] \notin gone}
      InOrder(f) == /\ \A i \in stay : \E j \in DOMAIN f : f[j] = i
                    /\ \A i, j \in DOMAIN f : i < j => f[i] < f[j]
  IN {[j \in 1..Cardinality(stay) |-> ring[f[j]]] :
        f \in {g \in [1..Cardinality(stay) -> stay] : InOrder(g)}}

\* storage.delete, of a memory or of files the system lets go.
Delete(gone) ==
  /\ held' = Drop(held, gone)
  /\ ring' \in Remaining(gone)
  /\ stats' = [stats EXCEPT !.purged = @ + Cardinality(gone)]
  /\ UNCHANGED <<backend, mtime, issued, carried, evicted, stuck, crashes>>

purge(l) == l \in DOMAIN held /\ Delete({l})

\* Mutant: every matching letter is counted, the ones that could not be deleted too.
ClearTenantOptimistic(t) ==
  LET mine == {l \in DOMAIN held : Owner[l] = t} IN
  /\ mine # {}
  /\ \E gone \in IF backend = "file" THEN SUBSET mine ELSE {mine} :
       /\ held' = Drop(held, gone)
       /\ ring' \in Remaining(gone)
  /\ stats' = [stats EXCEPT !.purged = @ + Cardinality(mine)]
  /\ UNCHANGED <<backend, mtime, issued, carried, evicted, stuck, crashes>>

\* clear_tenant: a file that cannot be read or removed is skipped.
clear_tenant(t) ==
  LET mine == {l \in DOMAIN held : Owner[l] = t} IN
  /\ mine # {}
  /\ \E gone \in IF backend = "file" THEN SUBSET mine ELSE {mine} : Delete(gone)

\* requeue: the letter is saved again under its id, one retry older.  A ring
\* keeps its place, a file becomes the newest.
requeue(l) ==
  /\ l \in DOMAIN held /\ held[l].retries < MaxRetries
  /\ held' = Put(held, l, Item(held[l].retries + 1))
  /\ stats' = [stats EXCEPT !.requeued = @ + 1]
  /\ UNCHANGED <<backend, ring, mtime, issued, carried, evicted, stuck, crashes>>

\* The process ends and starts again: files stay, everything else is new.
Restart(kept) ==
  /\ crashes < MaxCrashes
  /\ held' = IF backend = "file" THEN kept ELSE EmptyDict
  /\ carried' = Cardinality(DOMAIN held')
  /\ ring' = <<>> /\ stats' = NoStats /\ evicted' = 0 /\ stuck' = 0
  /\ crashes' = crashes + 1
  /\ UNCHANGED <<backend, mtime>>

Crash == Restart(held) /\ UNCHANGED issued

\* A crash after the oldest file was removed and before the new one is renamed
\* into place: the victim is gone and the letter was never there.
CrashInSave(l) ==
  /\ backend = "file" /\ l = issued + 1
  /\ \E v \in Victims : v # {} /\ Restart(Drop(held, v))
  /\ issued' = l

Tick ==
  /\ mtime < MaxMtime /\ mtime' = mtime + 1
  /\ UNCHANGED <<backend, held, ring, stats, issued, carried, evicted, stuck, crashes>>

DlqNext ==
  \/ \E l \in Letters : enqueue(l) \/ purge(l) \/ requeue(l) \/ CrashInSave(l)
  \/ \E t \in {Owner[l] : l \in Letters} : clear_tenant(t)
  \/ Crash \/ Tick

DlqSpec == DlqInit /\ [][DlqNext]_dlqVars

-----------------------------------------------------------------------------
(***************************************************************************)
(* Types, and the bound of both storages: max_items, exceeded only by as   *)
(* many files as the file system has refused to remove.                    *)
(***************************************************************************)
DlqTypeOK ==
  /\ DOMAIN held \subseteq 1..issued /\ issued \in 0..MaxLetters
  /\ \A l \in DOMAIN held : held[l].retries \in 0..MaxRetries /\ held[l].at \in 0..mtime
  /\ Size <= Capacity + (IF crashes = 0 THEN stuck ELSE Cardinality(Letters))
  /\ stats \in [enqueued : Nat, purged : Nat, requeued : Nat]

(***************************************************************************)
(* The ring of ids and the dictionary of items of the memory storage, two  *)
(* structures changed separately by save, delete and clear_tenant, always  *)
(* name the same letters, in the order they came.                          *)
(***************************************************************************)
RingMatchesItems ==
  backend = "memory" =>
    /\ Range(ring) = DOMAIN held
    /\ \A i, j \in DOMAIN ring : i < j => ring[i] < ring[j]

(***************************************************************************)
(* The telemetry adds up over any sequence of calls: what this process     *)
(* found and enqueued is what is held, was purged or was pushed out.       *)
(***************************************************************************)
TelemetryAddsUp == carried + stats.enqueued = Size + stats.purged + evicted

(***************************************************************************)
(* A quarantined message leaves only when it is purged, when the process   *)
(* that had it in memory ends, or when the storage is full, and then no    *)
(* letter that was saved before it stays behind.                           *)
(***************************************************************************)
SavedBefore(k, l) ==
  IF backend = "memory" THEN k < l ELSE held[k].at < held[l].at
Excused ==
  \A l \in DOMAIN held \ DOMAIN held' :
    \/ stats'.purged > stats.purged
    \/ backend = "memory" /\ crashes' > crashes
    \/ Size >= Capacity /\ \A k \in DOMAIN held : ~SavedBefore(k, l)
LeavesOnlyWhenFull == [][Excused]_dlqVars

\* The queue over both storages, restarts and evictions included: the ring and
\* the items agree, the telemetry adds up, and a letter leaves only by a
\* removal, with the memory of a crashed process, or because the queue is full.
QueueSafe == [](DlqTypeOK /\ RingMatchesItems /\ TelemetryAddsUp) /\ LeavesOnlyWhenFull
=============================================================================
