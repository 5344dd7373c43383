--------------------------- MODULE RunAttributes ---------------------------
(***************************************************************************)
(* One parallel attribute of RunAttributes (cbuildbot/cbuildbot_run.py): a *)
(* value that the processes of a run set and read through a queue and a    *)
(* lock.  A reader takes the value off the queue, which may make it wait   *)
(* for one, and only then takes the lock to put it back, so whoever holds  *)
(* the lock may still see the queue change under its hands.                *)
(*                                                                         *)
(* Values are numbered in the order in which they are set.  Names that the *)
(* other components with shared state have as well begin with Attr.        *)
(***************************************************************************)
EXTENDS Naturals, Sequences

CONSTANTS
  Users,     \* processes
  MaxUses   \* bound: how often each process uses it

ASSUME AttributesAssumption == MaxUses \in Nat

VARIABLES
  queue,    \* the attribute's queue
  attrLock, \* the processes that hold its lock: one at most
  at,       \* where each process is
  value,    \* the value a reader has got, 0 for none
  timeout,  \* GetParallel's: "none", which waits for ever, "some" or "zero"
  sets,     \* how many values were set
  uses      \* calls made by each process
attrVars == <<queue, attrLock, at, value, timeout, sets, uses>>

AttrInit ==
  /\ queue = <<>> /\ attrLock = {}
  /\ at = [p \in Users |-> "idle"]
  /\ value = [p \in Users |-> 0]
  /\ timeout = [p \in Users |-> "zero"]
  /\ sets = 0
  /\ uses = [p \in Users |-> 0]

AttrGoes(p, from, to) ==
  /\ at[p] = from
  /\ at' = [at EXCEPT ![p] = to]

AttrCall(p, to) ==
  /\ AttrGoes(p, "idle", to)
  /\ uses[p] < MaxUses
  /\ uses' = [uses EXCEPT ![p] = @ + 1]

Locks(p) == attrLock = {} /\ attrLock' = {p}
Unlocks(p) == attrLock' = attrLock \ {p}

-----------------------------------------------------------------------------
(* GetParallel.                                                             *)

GetParallel(p) ==
  /\ AttrCall(p, "get")
  /\ \E t \in {"none", "some", "zero"} : timeout' = [timeout EXCEPT ![p] = t]
  /\ UNCHANGED <<queue, attrLock, value, sets>>

(* queue.get(True, timeout), without the lock. *)
GetTakes(p) ==
  /\ AttrGoes(p, "get", "got")
  /\ queue # <<>>
  /\ value' = [value EXCEPT ![p] = Head(queue)]
  /\ queue' = Tail(queue)
  /\ UNCHANGED <<attrLock, timeout, sets, uses>>

GetTimesOut(p) ==
  /\ AttrGoes(p, "get", "got")
  /\ queue = <<>>
  /\ timeout[p] # "none"
  /\ UNCHANGED <<queue, attrLock, value, timeout, sets, uses>>

GetLocks(p) ==
  /\ AttrGoes(p, "got", "update")
  /\ Locks(p)
  /\ UNCHANGED <<queue, value, timeout, sets, uses>>

(* A value that has come meanwhile takes the place of the one it has got.   *)
GetUpdates(p) ==
  /\ at[p] = "update"
  /\ queue # <<>>
  /\ value' = [value EXCEPT ![p] = Head(queue)]
  /\ queue' = Tail(queue)
  /\ UNCHANGED <<attrLock, at, timeout, sets, uses>>

GetFlushed(p) ==
  /\ AttrGoes(p, "update", "return")
  /\ queue = <<>>
  /\ UNCHANGED <<queue, attrLock, value, timeout, sets, uses>>

Requeued_Kept(p) == queue
Requeued(p) == Append(queue, value[p])

GetReturns(p) ==
  /\ AttrGoes(p, "return", "idle")
  /\ value[p] # 0
  /\ queue' = Requeued(p)
  /\ value' = [value EXCEPT ![p] = 0]
  /\ timeout' = [timeout EXCEPT ![p] = "zero"]
  /\ Unlocks(p)
  /\ UNCHANGED <<sets, uses>>

(* ParallelAttributeError or AttrTimeoutError. *)
GetRaises(p) ==
  /\ AttrGoes(p, "return", "idle")
  /\ value[p] = 0
  /\ timeout' = [timeout EXCEPT ![p] = "zero"]
  /\ Unlocks(p)
  /\ UNCHANGED <<queue, value, sets, uses>>

-----------------------------------------------------------------------------
(* SetParallel, HasParallel and SetParallelDefault.                         *)

SetParallel(p) ==
  /\ AttrCall(p, "set")
  /\ UNCHANGED <<queue, attrLock, value, timeout, sets>>

CanLock_Unchecked(p) == attrLock' = attrLock \cup {p}
CanLock(p) == Locks(p)

SetLocks(p) ==
  /\ AttrGoes(p, "set", "flush")
  /\ CanLock(p)
  /\ UNCHANGED <<queue, value, timeout, sets, uses>>

(* "Any value already on the queue is now stale." *)
SetFlushes(p) ==
  /\ at[p] = "flush"
  /\ queue # <<>>
  /\ queue' = Tail(queue)
  /\ UNCHANGED <<attrLock, at, value, timeout, sets, uses>>

SetFlushed(p) ==
  /\ AttrGoes(p, "flush", "put")
  /\ queue = <<>>
  /\ UNCHANGED <<queue, attrLock, value, timeout, sets, uses>>

SetPuts(p) ==
  /\ AttrGoes(p, "put", "idle")
  /\ queue' = Append(queue, sets + 1)
  /\ sets' = sets + 1
  /\ Unlocks(p)
  /\ UNCHANGED <<value, timeout, uses>>

HasParallel(p) ==
  /\ AttrCall(p, "idle")
  /\ attrLock = {}
  /\ UNCHANGED <<queue, attrLock, value, timeout, sets>>

SetParallelDefault(p) ==
  /\ AttrCall(p, IF queue = <<>> THEN "set" ELSE "idle")
  /\ attrLock = {}
  /\ UNCHANGED <<queue, attrLock, value, timeout, sets>>

-----------------------------------------------------------------------------
AttrStep(p) ==
  \/ GetTakes(p) \/ GetTimesOut(p) \/ GetLocks(p) \/ GetUpdates(p)
  \/ GetFlushed(p) \/ GetReturns(p) \/ GetRaises(p)
  \/ SetLocks(p) \/ SetFlushes(p) \/ SetFlushed(p) \/ SetPuts(p)

AttrCalls(p) ==
  GetParallel(p) \/ SetParallel(p) \/ HasParallel(p) \/ SetParallelDefault(p)

AttrNext == \E p \in Users : AttrStep(p) \/ AttrCalls(p)

(* A call that has begun goes on. *)
AttrSpec ==
  /\ AttrInit /\ [][AttrNext]_attrVars
  /\ \A p \in Users : WF_attrVars(AttrStep(p))

-----------------------------------------------------------------------------
(* Every variable has its type. *)
AttrTypeOK ==
  /\ queue \in Seq(Nat \ {0})
  /\ attrLock \subseteq Users
  /\ at \in [Users -> {"idle", "get", "got", "update", "return", "set",
                          "flush", "put"}]
  /\ value \in [Users -> Nat]
  /\ timeout \in [Users -> {"none", "some", "zero"}]
  /\ sets \in Nat
  /\ uses \in [Users -> Nat]

(* Although readers take the value off the queue without the lock, it is    *)
(* neither doubled nor lost: the queue holds one value at most, and once    *)
(* one was set it is there, in the hands of a reader that will put it back, *)
(* or about to be replaced.                                                 *)
OneValue ==
  /\ Len(queue) <= 1
  /\ sets > 0 => \/ queue # <<>>
                 \/ \E p \in Users : \/ value[p] # 0
                                    \/ at[p] \in {"flush", "put"}

(* "Wait for a value to appear": once the attribute is set, every call      *)
(* returns, without a timeout too.                                          *)
EveryCallEnds ==
  \A p \in Users : sets > 0 /\ at[p] # "idle" ~> at[p] = "idle"
=============================================================================
