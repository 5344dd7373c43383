----------------------------- MODULE DiskCache -----------------------------
(***************************************************************************)
(* One key of a DiskCache (lib/cache.py), used by several processes, each  *)
(* through a CacheReference of its own.  Two file locks guard the key: a   *)
(* call holds the entry lock from beginning to end, an insertion holds the *)
(* other one for writing, and who uses the entry goes on holding that one  *)
(* for reading after its call has returned.  Both are lockf locks of       *)
(* lib/locking.py, which the kernel takes from a process that dies.        *)
(*                                                                         *)
(* Items are numbered in the order in which they are inserted.  Names that *)
(* the other components with shared state have as well begin with Cache.   *)
(***************************************************************************)
EXTENDS Naturals

CONSTANTS
  Processes,
  MaxCalls   \* bound: how many calls they make

ASSUME CacheAssumption == MaxCalls \in Nat

VARIABLES
  entry,        \* the item in the cache, 0 for none
  items,        \* how many items were inserted
  entryLock,    \* the processes that hold .entry_lock: one at most
  writers,      \* the processes that hold .lock for writing: one at most
  readers,      \* the processes that hold it for reading
  acquired,     \* whether a process is between Acquire and Release
  readLocked,   \* read_locked of its reference
  pc,           \* where it is in a call, "idle" between calls
  op,           \* the call
  lock,         \* the lock argument of Exists and SetDefault
  seen,         \* the entry when it took its read lock
  calls
locks     == <<entryLock, writers, readers>>
ref       == <<acquired, readLocked>>
request   == <<op, lock>>
cacheVars == <<entry, items, locks, ref, pc, request, seen, calls>>

Operations == {"Exists", "SetDefault", "Assign", "Remove"}

CacheInit ==
  /\ entry = 0 /\ items = 0
  /\ entryLock = {} /\ writers = {} /\ readers = {}
  /\ acquired = [p \in Processes |-> FALSE]
  /\ readLocked = [p \in Processes |-> FALSE]
  /\ pc = [p \in Processes |-> "idle"]
  /\ op = [p \in Processes |-> "Exists"]
  /\ lock = [p \in Processes |-> FALSE]
  /\ seen = [p \in Processes |-> 0]
  /\ calls = 0

CacheGoes(p, from, to) ==
  /\ pc[p] = from
  /\ pc' = [pc EXCEPT ![p] = to]

-----------------------------------------------------------------------------
(* References.  A reference may be acquired again; a Lookup gives a new one. *)

Acquire(p) ==
  /\ pc[p] = "idle" /\ ~acquired[p]
  /\ acquired' = [acquired EXCEPT ![p] = TRUE]
  /\ \E old \in {readLocked[p], FALSE} :
       readLocked' = [readLocked EXCEPT ![p] = old]
  /\ readers' = IF readLocked'[p] THEN readers ELSE readers \ {p}
  /\ UNCHANGED <<entry, items, entryLock, writers, pc, request, seen, calls>>

(* Closing the file gives up its locks. *)
Release(p) ==
  /\ pc[p] = "idle" /\ acquired[p]
  /\ acquired' = [acquired EXCEPT ![p] = FALSE]
  /\ readers' = readers \ {p}
  /\ UNCHANGED <<entry, items, entryLock, writers, readLocked, pc, request,
                 seen, calls>>

(* The lock goes; read_locked stays. *)
Unlock(p) ==
  /\ pc[p] = "idle" /\ p \in readers
  /\ readers' = readers \ {p}
  /\ UNCHANGED <<entry, items, entryLock, writers, ref, pc, request, seen,
                 calls>>

-----------------------------------------------------------------------------
(* A call: @EntryLock and what it decorates.                                *)

(* "Cannot call ... while holding a read lock": an AssertionError. *)
Allowed_Always(p) == TRUE
Allowed(p) == ~readLocked[p]

Call(p) ==
  /\ Allowed(p)
  /\ CacheGoes(p, "idle", "entry")
  /\ calls < MaxCalls
  /\ \E o \in Operations, l \in BOOLEAN :
       /\ l => o \in {"Exists", "SetDefault"}
       /\ op' = [op EXCEPT ![p] = o]
       /\ lock' = [lock EXCEPT ![p] = l]
  /\ calls' = calls + 1
  /\ UNCHANGED <<entry, items, locks, ref, seen>>

EntryFree_NotNeeded == TRUE
EntryFree == entryLock = {}

TakesEntryLock(p) ==
  /\ CacheGoes(p, "entry", "look")
  /\ EntryFree
  /\ entryLock' = entryLock \cup {p}
  /\ UNCHANGED <<entry, items, writers, readers, ref, request, seen, calls>>

Inserts(p) == op[p] = "Assign" \/ (op[p] = "SetDefault" /\ entry = 0)

Look(p) ==
  /\ CacheGoes(p, "look",
       IF Inserts(p) \/ op[p] = "Remove" THEN "write"
       ELSE IF lock[p] /\ entry # 0 THEN "read" ELSE "leave")
  /\ UNCHANGED <<entry, items, locks, ref, request, seen, calls>>

NobodyReads_Ignored(p) == writers = {}
NobodyReads(p) == writers = {} /\ readers \subseteq {p}

(* _lock.write_lock(), upgrading from a read lock of its own. *)
TakesWriteLock(p) ==
  /\ CacheGoes(p, "write", "insert")
  /\ NobodyReads(p)
  /\ writers' = {p} /\ readers' = readers \ {p}
  /\ UNCHANGED <<entry, items, entryLock, ref, request, seen, calls>>

(* A tarball cannot be fetched or unpacked, or an item cannot be moved away. *)
InsertFails(p) ==
  /\ \E from \in {"insert", "move"} : CacheGoes(p, from, "written")
  /\ lock' = [lock EXCEPT ![p] = FALSE]
  /\ UNCHANGED <<entry, items, locks, ref, op, seen, calls>>

(* _Remove moves what is there to the staging directory. *)
Removes(p) ==
  /\ CacheGoes(p, "insert", IF op[p] = "Remove" THEN "written" ELSE "move")
  /\ entry' = 0
  /\ UNCHANGED <<items, locks, ref, request, seen, calls>>

(* _Insert moves the new item in. *)
Moves(p) ==
  /\ CacheGoes(p, "move", "written")
  /\ items' = items + 1
  /\ entry' = items + 1
  /\ UNCHANGED <<locks, ref, request, seen, calls>>

(* @WriteLock leaves its with statement, which closes the file. *)
Written(p) ==
  /\ CacheGoes(p, "written", IF lock[p] THEN "read" ELSE "leave")
  /\ writers' = writers \ {p}
  /\ UNCHANGED <<entry, items, entryLock, readers, ref, request, seen, calls>>

TakesReadLock(p) ==
  /\ CacheGoes(p, "read", "leave")
  /\ writers = {}
  /\ readers' = readers \cup {p}
  /\ readLocked' = [readLocked EXCEPT ![p] = TRUE]
  /\ seen' = [seen EXCEPT ![p] = entry]
  /\ UNCHANGED <<entry, items, entryLock, writers, acquired, request, calls>>

Forgets(p) ==
  /\ op' = [op EXCEPT ![p] = "Exists"]
  /\ lock' = [lock EXCEPT ![p] = FALSE]

Leaves(p) ==
  /\ CacheGoes(p, "leave", "idle")
  /\ entryLock' = entryLock \ {p}
  /\ Forgets(p)
  /\ UNCHANGED <<entry, items, writers, readers, ref, seen, calls>>

(* The process dies at any point, and another one takes its place. *)
ProcessDies(p) ==
  /\ pc[p] # "idle" \/ p \in readers
  /\ entryLock' = entryLock \ {p}
  /\ writers' = writers \ {p} /\ readers' = readers \ {p}
  /\ acquired' = [acquired EXCEPT ![p] = FALSE]
  /\ readLocked' = [readLocked EXCEPT ![p] = FALSE]
  /\ pc' = [pc EXCEPT ![p] = "idle"]
  /\ Forgets(p)
  /\ UNCHANGED <<entry, items, seen, calls>>

Step(p) ==
  \/ TakesEntryLock(p) \/ Look(p) \/ TakesWriteLock(p) \/ InsertFails(p)
  \/ Removes(p) \/ Moves(p) \/ Written(p) \/ TakesReadLock(p) \/ Leaves(p)

CacheNext == \E p \in Processes :
  Acquire(p) \/ Release(p) \/ Unlock(p) \/ Call(p) \/ Step(p) \/ ProcessDies(p)

(* A call goes on as far as the locks let it, and who has a reference       *)
(* releases it in the end.                                                  *)
CacheSpec ==
  /\ CacheInit /\ [][CacheNext]_cacheVars
  /\ \A p \in Processes :
       WF_cacheVars(Step(p)) /\ WF_cacheVars(Release(p) \/ Unlock(p))

-----------------------------------------------------------------------------
(* Every variable has its type. *)
CacheTypeOK ==
  /\ entry \in Nat /\ items \in Nat
  /\ entryLock \subseteq Processes /\ writers \subseteq Processes
  /\ readers \subseteq Processes
  /\ acquired \in [Processes -> BOOLEAN]
  /\ readLocked \in [Processes -> BOOLEAN]
  /\ pc \in [Processes -> {"idle", "entry", "look", "write", "insert", "move",
                          "written", "read", "leave"}]
  /\ op \in [Processes -> Operations] /\ lock \in [Processes -> BOOLEAN]
  /\ seen \in [Processes -> Nat] /\ calls \in Nat

(* Who holds a read lock, because Exists or SetDefault said so, finds at    *)
(* ref.path what was there when it took the lock, whoever assigns, removes  *)
(* or dies meanwhile.                                                       *)
StableWhileRead == \A p \in readers : entry = seen[p] /\ entry # 0

(* "Assigns default_path if the entry doesn't exist": however many of them  *)
(* race, SetDefault never takes the place of an entry.                      *)
DefaultsYield ==
  [][entry # 0 /\ entry' # entry =>
       \E p \in Processes : pc[p] = "insert" /\ op[p] \in {"Assign", "Remove"}
    ]_cacheVars

(* A process that calls comes back, although it waits for two locks, one    *)
(* of which others keep after their calls.                                  *)
CallsEnd == \A p \in Processes : pc[p] # "idle" ~> pc[p] = "idle"
=============================================================================
