-------------------------------- MODULE DbPool --------------------------------
(***************************************************************************)
(* The pools of MySQL connections of cell/db_pool.c.  There are two arrays *)
(* of helpers of the same size, one of connections to the master (kind     *)
(* "write") and one of connections to the slaves (kind "read"), each with  *)
(* a position where the next search starts and a spin lock of its own.     *)
(*                                                                         *)
(* A search runs from the position to the end of the array and never looks *)
(* before the position: it is complete only because every helper before    *)
(* the position is busy whenever the lock is free (PrefixBusy).            *)
(*                                                                         *)
(* A worker is a thread of the event loop; every handler of cell.c asks    *)
(* for at most one helper and gives it back before it returns.             *)
(***************************************************************************)
EXTENDS Naturals, FiniteSets

CONSTANTS Worker,     \* the threads that run request handlers
          Size,       \* helpers_size, the helpers in each of the two arrays
          None        \* no worker, or a NULL helper

ASSUME SizeAssumption == Size \in Nat \ {0}
ASSUME NoneAssumption == None \notin Worker /\ None \notin Nat

Kind == {"write", "read"}
Slot == 0 .. Size - 1

VARIABLES busy,       \* busy[k][s]: the busy flag of helper s of kind k
          pos,        \* pos[k]: wpos and rpos
          mutex,      \* mutex[k]: who is between LOCK and UNLOCK, or None
          pc,         \* pc[w]: where worker w is
          kind,       \* kind[w]: the kind of w's current or last request
          cur,        \* cur[w]: the loop variable i of the search
          held        \* held[w]: seq of the helper w was given, or None

vars == <<busy, pos, mutex, pc, kind, cur, held>>

\* create_db_pool: every helper is created idle, positions and locks zeroed
Init == /\ busy = [k \in Kind |-> [s \in Slot |-> FALSE]]
        /\ pos = [k \in Kind |-> 0]
        /\ mutex = [k \in Kind |-> None]
        /\ pc = [w \in Worker |-> "idle"]
        /\ kind = [w \in Worker |-> "write"]
        /\ cur = [w \in Worker |-> 0]
        /\ held = [w \in Worker |-> None]

Goto(w, label) == pc' = [pc EXCEPT ![w] = label]

Call(w, k) == /\ pc[w] = "idle"
              /\ kind' = [kind EXCEPT ![w] = k]
              /\ Goto(w, "lock_get")
              /\ UNCHANGED <<busy, pos, mutex, cur, held>>

GetHelper(w) == Call(w, "write")
GetReadHelper(w) == Call(w, "read")

\* a slip: LOCK does not wait for the other thread
LockAnyway(w) == mutex' = [mutex EXCEPT ![kind[w]] = w]

\* LOCK and UNLOCK, the spin lock of cell_lock.h
Lock(w) == /\ mutex[kind[w]] = None
           /\ mutex' = [mutex EXCEPT ![kind[w]] = w]

Unlock(w) == mutex' = [mutex EXCEPT ![kind[w]] = None]

LockGet(w) == /\ pc[w] = "lock_get"
              /\ Lock(w)
              /\ cur' = [cur EXCEPT ![w] = pos[kind[w]]]
              /\ Goto(w, "scan")
              /\ UNCHANGED <<busy, pos, kind, held>>

\* a slip: a busy helper is looked at again and again
ScanAgain(w) == /\ pc[w] = "scan"
                /\ cur[w] < Size
                /\ busy[kind[w]][cur[w]]
                /\ UNCHANGED vars

ScanBusy(w) == /\ pc[w] = "scan"
               /\ cur[w] < Size
               /\ busy[kind[w]][cur[w]]
               /\ cur' = [cur EXCEPT ![w] = @ + 1]
               /\ UNCHANGED <<busy, pos, mutex, pc, kind, held>>

ScanFree(w) == /\ pc[w] = "scan"
               /\ cur[w] < Size
               /\ ~busy[kind[w]][cur[w]]
               /\ Goto(w, "take")
               /\ UNCHANGED <<busy, pos, mutex, kind, cur, held>>

ScanEnd(w) == /\ pc[w] = "scan"
              /\ cur[w] >= Size
              /\ Goto(w, "unlock_get")
              /\ UNCHANGED <<busy, pos, mutex, kind, cur, held>>

\* the position after helper i was taken
After(i) == IF i + 1 >= Size THEN 0 ELSE i + 1

Take(w) == /\ pc[w] = "take"
           /\ busy' = [busy EXCEPT ![kind[w]][cur[w]] = TRUE]
           /\ pos' = [pos EXCEPT ![kind[w]] = After(cur[w])]
           /\ held' = [held EXCEPT ![w] = cur[w]]
           /\ Goto(w, "unlock_get")
           /\ UNCHANGED <<mutex, kind, cur>>

UnlockGet(w) == /\ pc[w] = "unlock_get"
                /\ Unlock(w)
                /\ Goto(w, IF held[w] = None THEN "refused" ELSE "use")
                /\ UNCHANGED <<busy, pos, kind, cur, held>>

\* a handler of cell.c whose helper is NULL answers NO_DB_HELPER
AnswerNoHelper(w) == /\ pc[w] = "refused"
                     /\ Goto(w, "idle")
                     /\ UNCHANGED <<busy, pos, mutex, kind, cur, held>>

\* release_helper and release_read_helper
LockRelease(w) == /\ pc[w] = "use"
                  /\ Lock(w)
                  /\ Goto(w, "release")
                  /\ UNCHANGED <<busy, pos, kind, cur, held>>

\* a slip: the position stays where it is
Kept(p, i) == p

Lowered(p, i) == IF p > i THEN i ELSE p

\* a slip: the busy flag is not cleared
ReleaseBusy(w) == /\ pc[w] = "release"
                  /\ pos' = [pos EXCEPT ![kind[w]] = Lowered(@, held[w])]
                  /\ held' = [held EXCEPT ![w] = None]
                  /\ Goto(w, "unlock_release")
                  /\ UNCHANGED <<busy, mutex, kind, cur>>

Release(w) == /\ pc[w] = "release"
              /\ busy' = [busy EXCEPT ![kind[w]][held[w]] = FALSE]
              /\ pos' = [pos EXCEPT ![kind[w]] = Lowered(@, held[w])]
              /\ held' = [held EXCEPT ![w] = None]
              /\ Goto(w, "unlock_release")
              /\ UNCHANGED <<mutex, kind, cur>>

UnlockRelease(w) == /\ pc[w] = "unlock_release"
                    /\ Unlock(w)
                    /\ Goto(w, "idle")
                    /\ UNCHANGED <<busy, pos, kind, cur, held>>

\* the steps a thread takes by itself once a handler has called the pool
Step(w) == \/ LockGet(w) \/ ScanBusy(w) \/ ScanFree(w) \/ ScanEnd(w)
           \/ Take(w) \/ UnlockGet(w) \/ AnswerNoHelper(w)
           \/ LockRelease(w) \/ Release(w) \/ UnlockRelease(w)

Next == \E w \in Worker : GetHelper(w) \/ GetReadHelper(w) \/ Step(w)

Spec == Init /\ [][Next]_vars

(***************************************************************************)
(* The scheduler runs every thread (weak fairness of each thread's steps). *)
(* A spin lock gives no thread precedence, so nothing stronger is assumed. *)
(***************************************************************************)
FairSpec == Spec /\ \A w \in Worker : WF_vars(Step(w))

-------------------------------------------------------------------------------
InLock == {"scan", "take", "unlock_get", "release", "unlock_release"}

\* Each variable of the pool and of its callers has its type.
TypeOK == /\ busy \in [Kind -> [Slot -> BOOLEAN]]
          /\ pos \in [Kind -> Slot]
          /\ mutex \in [Kind -> Worker \cup {None}]
          /\ pc \in [Worker -> InLock \cup
                       {"idle", "lock_get", "use", "refused"}]
          /\ kind \in [Worker -> Kind]
          /\ cur \in [Worker -> 0 .. Size]
          /\ held \in [Worker -> Slot \cup {None}]

\* When nobody is in the pool's critical section, every helper before the
\* position is busy: get_helper may start there and still find any free one.
PrefixBusy == \A k \in Kind : mutex[k] = None =>
                 \A s \in Slot : s < pos[k] => busy[k][s]

\* Two threads never hold the same connection, so no two handlers write
\* requests on one MySQL session at the same time.
SingleOwner == \A v, w \in Worker :
                  (v # w /\ kind[v] = kind[w] /\ held[v] # None)
                     => held[v] # held[w]

\* A helper marked busy is held by some thread: none leaks out of the pool.
NoLeak == \A k \in Kind, s \in Slot :
             busy[k][s] => \E w \in Worker : kind[w] = k /\ held[w] = s

\* With at least as many helpers as threads (cell_init passes nthread + 8),
\* no handler is ever refused a helper: NO_DB_HELPER is never answered.
NeverRefused == \A w \in Worker : pc[w] # "refused"

\* No path through get or release keeps the spin lock: it is free again and
\* again, whatever the threads do in between.
LockFreed == \A k \in Kind : []<>(mutex[k] = None)

-------------------------------------------------------------------------------
\* The pool as its callers see it: a helper changes hands when the busy flag
\* changes, a refusal happens when the search runs off the array.
PhaseOf(w) ==
    CASE pc[w] \in {"idle", "unlock_release"} -> "idle"
      [] pc[w] \in {"lock_get", "scan", "take"} -> "asking"
      [] pc[w] = "refused" \/ (pc[w] = "unlock_get" /\ held[w] = None) -> "refused"
      [] OTHER -> "holding"

Abstract == INSTANCE HelperPool WITH
               Helper <- Slot,
               phase <- [w \in Worker |-> PhaseOf(w)],
               asked <- kind,
               holds <- [w \in Worker |->
                           IF held[w] = None THEN {} ELSE {held[w]}]

\* The arrays, positions and locks of db_pool.c implement HelperPool: a free
\* helper is always found, and a refusal means that all are held.
Implements == Abstract!Spec
-------------------------------------------------------------------------------
(***************************************************************************)
(* The inductive invariant behind the properties above: who is in the      *)
(* critical section owns the lock, a held helper is busy, and a search has *)
(* seen nothing but busy helpers from the start of the array on.           *)
(***************************************************************************)
LockInv == \A w \in Worker : pc[w] \in InLock => mutex[kind[w]] = w

HeldInv == \A w \in Worker :
              /\ held[w] # None => /\ pc[w] \in {"unlock_get", "use", "release"}
                                   /\ busy[kind[w]][held[w]]
              /\ pc[w] \in {"use", "release"} => held[w] # None

BusyBelow(k, i) == \A s \in Slot : s < i => busy[k][s]

PrefixInv == \A k \in Kind : BusyBelow(k, pos[k])

ScanInv == \A w \in Worker :
              /\ pc[w] \in {"scan", "take"} => BusyBelow(kind[w], cur[w])
              /\ pc[w] = "take" => cur[w] < Size /\ ~busy[kind[w]][cur[w]]
              /\ (pc[w] = "unlock_get" /\ held[w] = None)
                    => BusyBelow(kind[w], Size)

\* The conjunction is preserved by every step of db_pool.c; it implies
\* PrefixBusy, SingleOwner and NoLeak, and that a search that ran off the
\* array was right to.
IInv == /\ TypeOK
        /\ LockInv
        /\ HeldInv
        /\ SingleOwner
        /\ NoLeak
        /\ PrefixInv
        /\ ScanInv
===============================================================================
