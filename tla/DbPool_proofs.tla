---------------------------- MODULE DbPool_proofs -----------------------------
(***************************************************************************)
(* Proofs about DbPool, for every set of workers and every pool size: the  *)
(* inductive invariant IInv, step by step; from it the properties of the   *)
(* module; that NO_DB_HELPER is never answered when there are at least as  *)
(* many helpers as workers; and that DbPool implements HelperPool.         *)
(***************************************************************************)
EXTENDS DbPool, FiniteSetTheorems, TLAPS

USE SizeAssumption, NoneAssumption

LEMMA InitInv == Init => IInv
  BY DEF Init, IInv, TypeOK, LockInv, HeldInv, SingleOwner, NoLeak,
         PrefixInv, ScanInv, BusyBelow, Slot, Kind, InLock

-------------------------------------------------------------------------------
(***************************************************************************)
(* One lemma per action.  Each action leaves most of the invariant's       *)
(* variables alone; its lemma has a step for each part it can disturb.     *)
(***************************************************************************)

\* A worker about to call the pool holds nothing, so its kind may change.
LEMMA CallInv ==
  ASSUME IInv, NEW w \in Worker, NEW k \in Kind, Call(w, k)
  PROVE  IInv'
<1> USE DEF IInv, TypeOK, Slot, Kind, InLock, Call, Goto
<1>1. TypeOK'
  OBVIOUS
<1>2. LockInv' /\ ScanInv' /\ PrefixInv'
  BY DEF LockInv, ScanInv, PrefixInv, BusyBelow
<1>3. held[w] = None
  BY DEF HeldInv
<1>4. HeldInv' /\ SingleOwner'
  BY <1>3 DEF HeldInv, SingleOwner
<1>5. NoLeak'
  <2> SUFFICES ASSUME NEW j \in Kind, NEW s \in Slot, busy[j][s]
               PROVE  \E v \in Worker : kind'[v] = j /\ held'[v] = s
    BY DEF NoLeak
  <2>1. PICK v \in Worker : kind[v] = j /\ held[v] = s
    BY DEF NoLeak
  <2>2. v # w
    BY <1>3, <2>1
  <2> QED
    BY <2>1, <2>2
<1> QED
  BY <1>1, <1>2, <1>4, <1>5

\* The search starts at the position, below which every helper is busy.
LEMMA LockGetInv ==
  ASSUME IInv, NEW w \in Worker, LockGet(w)
  PROVE  IInv'
<1> USE DEF IInv, TypeOK, Slot, Kind, InLock, LockGet, Lock, Goto
<1>1. TypeOK'
  OBVIOUS
<1>2. LockInv'
  BY DEF LockInv
<1>3. HeldInv' /\ SingleOwner' /\ NoLeak' /\ PrefixInv'
  BY DEF HeldInv, SingleOwner, NoLeak, PrefixInv, BusyBelow
<1>4. ScanInv'
  BY DEF ScanInv, PrefixInv, BusyBelow
<1> QED
  BY <1>1, <1>2, <1>3, <1>4

LEMMA ScanBusyInv ==
  ASSUME IInv, NEW w \in Worker, ScanBusy(w)
  PROVE  IInv'
<1> USE DEF IInv, TypeOK, Slot, Kind, InLock, ScanBusy
<1>1. TypeOK' /\ LockInv' /\ HeldInv' /\ SingleOwner' /\ NoLeak' /\ PrefixInv'
  BY DEF LockInv, HeldInv, SingleOwner, NoLeak, PrefixInv, BusyBelow
<1>2. ScanInv'
  BY DEF ScanInv, BusyBelow
<1> QED
  BY <1>1, <1>2

LEMMA ScanFreeInv ==
  ASSUME IInv, NEW w \in Worker, ScanFree(w)
  PROVE  IInv'
  BY DEF IInv, TypeOK, Slot, Kind, InLock, ScanFree, Goto, LockInv, HeldInv,
         SingleOwner, NoLeak, PrefixInv, ScanInv, BusyBelow

LEMMA ScanEndInv ==
  ASSUME IInv, NEW w \in Worker, ScanEnd(w)
  PROVE  IInv'
<1> USE DEF IInv, TypeOK, Slot, Kind, InLock, ScanEnd, Goto
<1>1. TypeOK' /\ LockInv' /\ HeldInv' /\ SingleOwner' /\ NoLeak' /\ PrefixInv'
  BY DEF LockInv, HeldInv, SingleOwner, NoLeak, PrefixInv, BusyBelow
<1>2. ScanInv'
  BY DEF ScanInv, BusyBelow
<1> QED
  BY <1>1, <1>2

\* The helper taken was free, so nobody held it; and the position moves past
\* it only now that it is busy.
LEMMA TakeInv ==
  ASSUME IInv, NEW w \in Worker, Take(w)
  PROVE  IInv'
<1> USE DEF IInv, TypeOK, Slot, Kind, InLock, Take, Goto
<1> DEFINE i == cur[w]
           j == kind[w]
<1>1. i \in Slot /\ ~busy[j][i] /\ BusyBelow(j, i)
  BY DEF ScanInv
<1>2. TypeOK'
  <2>1. busy' \in [Kind -> [Slot -> BOOLEAN]]
    BY <1>1
  <2>2. pos' \in [Kind -> Slot]
    <3>1. After(i) \in Slot
      BY <1>1 DEF After
    <3> QED
      BY <3>1
  <2>3. held' \in [Worker -> Slot \cup {None}]
    BY <1>1
  <2> QED
    BY <2>1, <2>2, <2>3
<1>3. LockInv'
  BY DEF LockInv
<1>4. ~ \E v \in Worker : kind[v] = j /\ held[v] = i
  BY <1>1 DEF HeldInv
<1>5. HeldInv'
  BY <1>1, <1>4 DEF HeldInv
<1>6. SingleOwner'
  BY <1>1, <1>4 DEF SingleOwner
<1>7. held[w] = None
  BY DEF HeldInv
<1>8. NoLeak'
  <2> SUFFICES ASSUME NEW k \in Kind, NEW s \in Slot, busy'[k][s]
               PROVE  \E v \in Worker : kind[v] = k /\ held'[v] = s
    BY DEF NoLeak
  <2>1. CASE k = j /\ s = i
    BY <2>1, <1>1
  <2>2. CASE ~(k = j /\ s = i)
    <3>1. busy[k][s]
      BY <2>2, <1>1
    <3>2. PICK v \in Worker : kind[v] = k /\ held[v] = s
      BY <3>1 DEF NoLeak
    <3>3. v # w
      BY <3>2, <1>7
    <3> QED
      BY <3>2, <3>3
  <2> QED
    BY <2>1, <2>2
<1>9. PrefixInv'
  BY <1>1 DEF PrefixInv, BusyBelow, After
<1>10. ScanInv'
  <2> SUFFICES ASSUME NEW v \in Worker PROVE ScanInv!(v)'
    BY DEF ScanInv
  <2>1. CASE v = w
    BY <2>1, <1>1
  <2>2. CASE v # w
    <3>1. kind[v] = j => pc[v] \notin InLock
      BY <2>2 DEF LockInv
    <3> QED
      BY <2>2, <3>1 DEF ScanInv, BusyBelow
  <2> QED
    BY <2>1, <2>2
<1> QED
  BY <1>2, <1>3, <1>5, <1>6, <1>8, <1>9, <1>10

LEMMA UnlockGetInv ==
  ASSUME IInv, NEW w \in Worker, UnlockGet(w)
  PROVE  IInv'
<1> USE DEF IInv, TypeOK, Slot, Kind, InLock, UnlockGet, Unlock, Goto
<1>1. TypeOK' /\ SingleOwner' /\ NoLeak' /\ PrefixInv'
  BY DEF SingleOwner, NoLeak, PrefixInv, BusyBelow
<1>2. LockInv'
  BY DEF LockInv
<1>3. HeldInv'
  BY DEF HeldInv
<1>4. ScanInv'
  BY DEF ScanInv, BusyBelow
<1> QED
  BY <1>1, <1>2, <1>3, <1>4

LEMMA AnswerNoHelperInv ==
  ASSUME IInv, NEW w \in Worker, AnswerNoHelper(w)
  PROVE  IInv'
  BY DEF IInv, TypeOK, Slot, Kind, InLock, AnswerNoHelper, Goto, LockInv,
         HeldInv, SingleOwner, NoLeak, PrefixInv, ScanInv, BusyBelow

LEMMA LockReleaseInv ==
  ASSUME IInv, NEW w \in Worker, LockRelease(w)
  PROVE  IInv'
<1> USE DEF IInv, TypeOK, Slot, Kind, InLock, LockRelease, Lock, Goto
<1>1. TypeOK' /\ SingleOwner' /\ NoLeak' /\ PrefixInv'
  BY DEF SingleOwner, NoLeak, PrefixInv, BusyBelow
<1>2. LockInv'
  BY DEF LockInv
<1>3. HeldInv' /\ ScanInv'
  BY DEF HeldInv, ScanInv, BusyBelow
<1> QED
  BY <1>1, <1>2, <1>3

\* A released helper becomes free and the position moves back to it if it was
\* past it; no other worker is searching the same array meanwhile.
LEMMA ReleaseInv ==
  ASSUME IInv, NEW w \in Worker, Release(w)
  PROVE  IInv'
<1> USE DEF IInv, TypeOK, Slot, Kind, InLock, Release, Goto
<1> DEFINE i == held[w]
           j == kind[w]
<1>1. i \in Slot /\ busy[j][i]
  BY DEF HeldInv
<1>2. TypeOK'
  BY <1>1 DEF Lowered
<1>3. LockInv'
  BY DEF LockInv
<1>4. \A v \in Worker : v # w /\ kind[v] = j => held[v] # i
  BY <1>1 DEF SingleOwner
<1>5. HeldInv'
  BY <1>1, <1>4 DEF HeldInv
<1>6. SingleOwner'
  BY <1>1 DEF SingleOwner
<1>7. NoLeak'
  <2> SUFFICES ASSUME NEW k \in Kind, NEW s \in Slot, busy'[k][s]
               PROVE  \E v \in Worker : kind[v] = k /\ held'[v] = s
    BY DEF NoLeak
  <2>1. busy[k][s] /\ ~(k = j /\ s = i)
    BY <1>1
  <2>2. PICK v \in Worker : kind[v] = k /\ held[v] = s
    BY <2>1 DEF NoLeak
  <2>3. v # w
    BY <2>1, <2>2
  <2> QED
    BY <2>2, <2>3
<1>8. PrefixInv'
  BY <1>1 DEF PrefixInv, BusyBelow, Lowered
<1>9. ScanInv'
  <2> SUFFICES ASSUME NEW v \in Worker PROVE ScanInv!(v)'
    BY DEF ScanInv
  <2>1. CASE v = w
    BY <2>1
  <2>2. CASE v # w
    <3>1. kind[v] = j => pc[v] \notin InLock
      BY <2>2 DEF LockInv
    <3> QED
      BY <2>2, <3>1 DEF ScanInv, BusyBelow
  <2> QED
    BY <2>1, <2>2
<1> QED
  BY <1>2, <1>3, <1>5, <1>6, <1>7, <1>8, <1>9

LEMMA UnlockReleaseInv ==
  ASSUME IInv, NEW w \in Worker, UnlockRelease(w)
  PROVE  IInv'
<1> USE DEF IInv, TypeOK, Slot, Kind, InLock, UnlockRelease, Unlock, Goto
<1>1. TypeOK' /\ SingleOwner' /\ NoLeak' /\ PrefixInv'
  BY DEF SingleOwner, NoLeak, PrefixInv, BusyBelow
<1>2. LockInv'
  BY DEF LockInv
<1>3. HeldInv' /\ ScanInv'
  BY DEF HeldInv, ScanInv, BusyBelow
<1> QED
  BY <1>1, <1>2, <1>3

LEMMA NextInv == IInv /\ [Next]_vars => IInv'
<1> SUFFICES ASSUME IInv, [Next]_vars PROVE IInv'
  OBVIOUS
<1>1. CASE UNCHANGED vars
  BY <1>1 DEF vars, IInv, TypeOK, LockInv, HeldInv, SingleOwner, NoLeak,
              PrefixInv, ScanInv, BusyBelow
<1>2. ASSUME NEW w \in Worker, GetHelper(w) \/ GetReadHelper(w) PROVE IInv'
  BY <1>2, CallInv DEF GetHelper, GetReadHelper, Kind
<1>3. ASSUME NEW w \in Worker, Step(w) PROVE IInv'
  BY <1>3, LockGetInv, ScanBusyInv, ScanFreeInv, ScanEndInv, TakeInv,
     UnlockGetInv, AnswerNoHelperInv, LockReleaseInv, ReleaseInv,
     UnlockReleaseInv DEF Step
<1> QED
  BY <1>1, <1>2, <1>3 DEF Next

\* The inductive invariant holds in every reachable state of the pool.
THEOREM Invariance == Spec => []IInv
  BY InitInv, NextInv, PTL DEF Spec

\* The fields of the pool keep their types and the position always points
\* into the array: get_helper's wrap-around never lets wpos reach the size.
THEOREM TypeCorrect == Spec => []TypeOK
<1>1. IInv => TypeOK
  BY DEF IInv
<1> QED
  BY <1>1, Invariance, PTL

\* One connection is never used by two handlers at once, whatever the order
\* in which threads get and release helpers.
THEOREM Exclusive == Spec => []SingleOwner
<1>1. IInv => SingleOwner
  BY DEF IInv
<1> QED
  BY <1>1, Invariance, PTL

\* No connection stays marked busy once the handlers have given theirs back.
THEOREM Leakless == Spec => []NoLeak
<1>1. IInv => NoLeak
  BY DEF IInv
<1> QED
  BY <1>1, Invariance, PTL

\* Starting the search at the position, not at 0, skips only busy helpers.
THEOREM PrefixAlwaysBusy == Spec => []PrefixBusy
<1>1. IInv => PrefixBusy
  BY DEF IInv, PrefixInv, BusyBelow, PrefixBusy
<1> QED
  BY <1>1, Invariance, PTL

-------------------------------------------------------------------------------
(***************************************************************************)
(* cell_init makes the pools larger than the number of threads.  A search  *)
(* that failed would have seen every helper of its kind busy, each held by *)
(* a worker other than the searching one: more helpers than holders.       *)
(***************************************************************************)
Enough == IsFiniteSet(Worker) /\ Cardinality(Worker) <= Size

\* The pigeonhole step: with enough helpers some helper of any kind is free
\* while a worker that holds none is searching.
LEMMA SomeFree ==
  ASSUME IInv, Enough, NEW w \in Worker, held[w] = None
  PROVE  ~BusyBelow(kind[w], Size)
<1> USE DEF IInv, TypeOK, Slot, Kind
<1> SUFFICES ASSUME BusyBelow(kind[w], Size) PROVE FALSE
  OBVIOUS
<1> DEFINE Others == Worker \ {w}
           holder == [s \in Slot |->
                        CHOOSE v \in Worker : kind[v] = kind[w] /\ held[v] = s]
<1>1. ASSUME NEW s \in Slot
      PROVE  holder[s] \in Others /\ held[holder[s]] = s
  <2>1. \E v \in Worker : kind[v] = kind[w] /\ held[v] = s
    BY DEF NoLeak, BusyBelow
  <2>2. holder[s] \in Worker /\ held[holder[s]] = s
    BY <2>1
  <2> HIDE DEF holder
  <2>3. holder[s] # w
    BY <2>2
  <2> QED
    BY <2>2, <2>3
<1>2. IsFiniteSet(Others) /\ Cardinality(Others) = Cardinality(Worker) - 1
  BY FS_RemoveElement DEF Enough
<1>3. IsFiniteSet(Slot) /\ Cardinality(Slot) = Size
  BY FS_Interval
<1>4. Cardinality(Worker) \in Nat
  BY FS_CardinalityType DEF Enough
<1>5. holder \in [Slot -> Others]
  BY <1>1
<1>6. PICK s, t \in Slot : s # t /\ holder[s] = holder[t]
  <2>1. Cardinality(Others) < Cardinality(Slot)
    BY <1>2, <1>3, <1>4 DEF Enough
  <2>2. PICK f \in [Slot -> Others] : f = holder
    BY <1>5
  <2> HIDE DEF holder, Others, Slot
  <2>3. \E s, t \in Slot : s # t /\ f[s] = f[t]
    BY <1>2, <1>3, <2>1, FS_PigeonHole
  <2> QED
    BY <2>2, <2>3
<1> QED
  BY <1>1, <1>6

\* The part of the invariant that needs enough helpers.
Served == /\ \A w \in Worker : pc[w] = "unlock_get" => held[w] # None
          /\ NeverRefused

LEMMA ServedStep ==
  ASSUME Enough, IInv, Served, [Next]_vars
  PROVE  Served'
<1> USE DEF IInv, TypeOK, Served, NeverRefused
<1>1. CASE UNCHANGED vars
  BY <1>1 DEF vars
<1>2. ASSUME NEW w \in Worker, GetHelper(w) \/ GetReadHelper(w) PROVE Served'
  BY <1>2 DEF GetHelper, GetReadHelper, Call, Goto
<1>3. ASSUME NEW w \in Worker, ScanEnd(w) PROVE FALSE
  <2>1. held[w] = None
    BY <1>3 DEF ScanEnd, HeldInv
  <2>2. BusyBelow(kind[w], Size)
    BY <1>3 DEF ScanEnd, ScanInv, BusyBelow, Slot
  <2> QED
    BY <2>1, <2>2, SomeFree
<1>4. ASSUME NEW w \in Worker, Take(w) PROVE Served'
  BY <1>4 DEF Take, Goto, ScanInv, Slot
<1>5. ASSUME NEW w \in Worker, UnlockGet(w) PROVE Served'
  BY <1>5 DEF UnlockGet, Goto
<1>6. ASSUME NEW w \in Worker, Release(w) PROVE Served'
  BY <1>6 DEF Release, Goto
<1>7. ASSUME NEW w \in Worker,
             LockGet(w) \/ ScanBusy(w) \/ ScanFree(w) \/ AnswerNoHelper(w)
               \/ LockRelease(w) \/ UnlockRelease(w)
      PROVE  Served'
  BY <1>7 DEF LockGet, ScanBusy, ScanFree, AnswerNoHelper, LockRelease,
              UnlockRelease, Goto
<1> QED
  BY <1>1, <1>2, <1>3, <1>4, <1>5, <1>6, <1>7 DEF Next, Step

\* With at least as many helpers as workers no handler is ever refused one:
\* the NO_DB_HELPER branches of cell.c are dead code in the server.
THEOREM AlwaysServed == ASSUME Enough PROVE Spec => []NeverRefused
<1>1. Init => Served
  BY DEF Init, Served, NeverRefused
<1>2. IInv /\ Served /\ [Next]_vars => Served'
  BY ServedStep
<1>3. Served => NeverRefused
  BY DEF Served
<1> QED
  BY <1>1, <1>2, <1>3, Invariance, PTL DEF Spec

-------------------------------------------------------------------------------
(***************************************************************************)
(* Refinement.  Every step of the pool is a step of HelperPool under the   *)
(* mapping of DbPool or changes nothing HelperPool sees: a call asks,      *)
(* Take grants, ScanEnd refuses, AnswerNoHelper gives up, Release returns. *)
(***************************************************************************)
Holds == [w \in Worker |-> IF held[w] = None THEN {} ELSE {held[w]}]
Phase == [w \in Worker |-> PhaseOf(w)]

LEMMA InitAbstract == Init => Abstract!Init
  BY DEF Init, Abstract!Init, Abstract!Kind, PhaseOf, Kind

\* The helpers HelperPool sees as taken are exactly the busy ones.
LEMMA TakenIsBusy ==
  ASSUME IInv, NEW k \in Kind
  PROVE  Abstract!Taken(k) = {s \in Slot : busy[k][s]}
<1> USE DEF IInv, TypeOK, Kind, Slot
<1>1. ASSUME NEW s \in Abstract!Taken(k) PROVE s \in Slot /\ busy[k][s]
  <2>1. PICK w \in Worker : kind[w] = k /\ held[w] # None /\ s = held[w]
    BY DEF Abstract!Taken
  <2> QED
    BY <2>1 DEF HeldInv
<1>2. ASSUME NEW s \in Slot, busy[k][s] PROVE s \in Abstract!Taken(k)
  <2>1. PICK w \in Worker : kind[w] = k /\ held[w] = s
    BY <1>2 DEF NoLeak
  <2>2. held[w] # None
    BY <2>1
  <2> QED
    BY <2>1, <2>2 DEF Abstract!Taken
<1> QED
  BY <1>1, <1>2

LEMMA CallAbstract ==
  ASSUME IInv, NEW w \in Worker, NEW k \in Kind, Call(w, k)
  PROVE  Abstract!Ask(w)
  BY DEF IInv, TypeOK, HeldInv, Call, Goto, Abstract!Ask, Abstract!Kind, Kind,
         PhaseOf

LEMMA TakeAbstract ==
  ASSUME IInv, NEW w \in Worker, Take(w)
  PROVE  Abstract!Grant(w)
<1> USE DEF IInv, TypeOK, Take, Goto
<1>1. cur[w] \in Slot /\ ~busy[kind[w]][cur[w]]
  BY DEF ScanInv, Slot
<1>2. cur[w] \in Slot \ Abstract!Taken(kind[w])
  <2>1. kind[w] \in Kind
    OBVIOUS
  <2> HIDE DEF IInv, TypeOK, Take, Goto
  <2> QED
    BY <1>1, <2>1, TakenIsBusy
<1> DEFINE i == cur[w]
<1>5. held' = [held EXCEPT ![w] = i] /\ i # None
  BY <1>1 DEF Slot
<1>6. pc[w] = "take" /\ pc' = [pc EXCEPT ![w] = "unlock_get"]
  OBVIOUS
<1> HIDE DEF i, Take
<1>3. Holds' = [Holds EXCEPT ![w] = {i}]
  BY <1>5 DEF Holds
<1>4. Phase' = [Phase EXCEPT ![w] = "holding"]
  BY <1>5, <1>6 DEF Phase, PhaseOf
<1> USE DEF i, Take
<1> QED
  BY <1>2, <1>3, <1>4 DEF Abstract!Grant, Holds, Phase, PhaseOf

LEMMA ScanEndAbstract ==
  ASSUME IInv, NEW w \in Worker, ScanEnd(w)
  PROVE  Abstract!Refuse(w)
<1>k. kind[w] \in Kind
  BY DEF IInv, TypeOK
<1>t. Abstract!Taken(kind[w]) = {s \in Slot : busy[kind[w]][s]}
  BY <1>k, TakenIsBusy
<1> USE DEF IInv, TypeOK, ScanEnd, Goto
<1>1. BusyBelow(kind[w], Size) /\ held[w] = None
  <2>1. held[w] = None
    BY DEF HeldInv
  <2>2. BusyBelow(kind[w], cur[w])
    BY DEF ScanInv
  <2> QED
    BY <2>1, <2>2 DEF BusyBelow, Slot
<1> HIDE DEF IInv, TypeOK, ScanEnd
<1>2. Slot \subseteq Abstract!Taken(kind[w])
  <2>1. \A s \in Slot : s < Size
    BY SizeAssumption DEF Slot
  <2> QED
    BY <1>1, <1>t, <2>1 DEF BusyBelow
<1> USE DEF IInv, TypeOK, ScanEnd
<1>3. Phase' = [Phase EXCEPT ![w] = "refused"]
  BY <1>1 DEF Phase, PhaseOf
<1> QED
  BY <1>2, <1>3 DEF Abstract!Refuse, Phase, PhaseOf

LEMMA ReleaseAbstract ==
  ASSUME IInv, NEW w \in Worker, Release(w)
  PROVE  Abstract!Return(w)
<1> USE DEF IInv, TypeOK, Release, Goto
<1>1. Holds' = [Holds EXCEPT ![w] = {}]
  BY DEF Holds
<1>2. Phase' = [Phase EXCEPT ![w] = "idle"]
  BY DEF Phase, PhaseOf
<1> QED
  BY <1>1, <1>2 DEF Abstract!Return, Holds, Phase, PhaseOf

LEMMA StepAbstract ==
  ASSUME IInv, NEW w \in Worker, Step(w)
  PROVE  Abstract!Next \/ UNCHANGED <<Phase, kind, Holds>>
<1> USE DEF IInv, TypeOK, Goto
<1>1. CASE LockGet(w)
  BY <1>1 DEF LockGet, Phase, PhaseOf, Holds
<1>2. CASE ScanBusy(w)
  BY <1>2 DEF ScanBusy, Phase, PhaseOf, Holds
<1>3. CASE ScanFree(w)
  BY <1>3 DEF ScanFree, Phase, PhaseOf, Holds
<1>4. CASE ScanEnd(w)
  BY <1>4, ScanEndAbstract DEF Abstract!Next
<1>5. CASE Take(w)
  BY <1>5, TakeAbstract DEF Abstract!Next
<1>6. CASE UnlockGet(w)
  BY <1>6 DEF UnlockGet, Phase, PhaseOf, Holds
<1>7. CASE AnswerNoHelper(w)
  <2>1. Phase' = [Phase EXCEPT ![w] = "idle"]
    BY <1>7 DEF AnswerNoHelper, Phase, PhaseOf
  <2> QED
    BY <1>7, <2>1 DEF AnswerNoHelper, Abstract!Next, Abstract!GiveUp, Phase,
                      PhaseOf
<1>8. CASE LockRelease(w)
  BY <1>8 DEF LockRelease, Phase, PhaseOf, Holds
<1>9. CASE Release(w)
  BY <1>9, ReleaseAbstract DEF Abstract!Next
<1>10. CASE UnlockRelease(w)
  BY <1>10 DEF UnlockRelease, Phase, PhaseOf, Holds
<1> QED
  BY <1>1, <1>2, <1>3, <1>4, <1>5, <1>6, <1>7, <1>8, <1>9, <1>10 DEF Step

\* db_pool.c implements HelperPool for every number of threads and helpers: a
\* worker that asks is granted a helper nobody holds, and is refused only
\* when all helpers of the kind are held.
THEOREM Refinement == Spec => Implements
<1>1. IInv /\ [Next]_vars => [Abstract!Next]_(Abstract!vars)
  <2> SUFFICES ASSUME IInv, [Next]_vars
               PROVE  Abstract!Next \/ UNCHANGED <<Phase, kind, Holds>>
    BY DEF Abstract!vars, Phase, Holds
  <2>1. CASE UNCHANGED vars
    BY <2>1 DEF vars, Phase, PhaseOf, Holds
  <2>2. ASSUME NEW w \in Worker, GetHelper(w) \/ GetReadHelper(w)
        PROVE  Abstract!Next
    BY <2>2, CallAbstract DEF GetHelper, GetReadHelper, Kind, Abstract!Next
  <2>3. ASSUME NEW w \in Worker, Step(w)
        PROVE  Abstract!Next \/ UNCHANGED <<Phase, kind, Holds>>
    BY <2>3, StepAbstract
  <2> QED
    BY <2>1, <2>2, <2>3 DEF Next
<1> QED
  BY <1>1, InitAbstract, Invariance, PTL DEF Spec, Implements, Abstract!Spec
===============================================================================
