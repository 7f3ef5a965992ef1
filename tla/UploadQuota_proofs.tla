-------------------------- MODULE UploadQuota_proofs --------------------------
(***************************************************************************)
(* Proofs about UploadQuota, for every set of clients, every size and      *)
(* quota, and any number of uploads, repetitions and ticks: by how much a  *)
(* quota can be exceeded, that acknowledged records are kept when no two   *)
(* urls have the same hash, and that a user is charged with what he stored *)
(* when no file has 2^31 bytes.                                            *)
(***************************************************************************)
EXTENDS UploadQuota, FiniteSetTheorems, TLAPS

USE SizeAssumption, ClientAssumption, UploadBoundAssumption, HashAssumption

LEMMA InitType == Init => TypeOK
  BY DEF Init, TypeOK, Calls, Upload, NoFile, UploadRecord, LifeEntry

LEMMA PrintedInt == \A n \in 0 .. MaxSize : Printed(n) \in Int /\ Printed(n) <= n
  BY DEF Printed

\* A client enters the next stage.
LEMMA GotoType ==
  ASSUME TypeOK, NEW c \in Client, NEW s \in Calls \cup {"idle", "store"}, Goto(c, s)
  PROVE  /\ stage' \in [Client -> Calls \cup {"idle", "store"}]
         /\ sent' \in [Client -> Nat] /\ tries' \in [Client -> Nat] /\ hits' \in [Client -> Nat]
  BY DEF TypeOK, Goto

LEMMA ExecuteType ==
  ASSUME TypeOK, NEW c \in Client, Execute(c)
  PROVE  TypeOK'
<1> USE DEF Execute
<1>1. stage[c] \in Calls
  BY DEF Statement, AddLine, AddLife, Calls
<1>2. file[c] \in UploadRecord /\ file[c].num \in Upload /\ file[c].size \in 0 .. MaxSize
  BY <1>1 DEF TypeOK, UploadRecord, Upload, Calls
<1>3. used_size' \in Int
  BY <1>2, PrintedInt DEF TypeOK, Statement, AddLine, AddLife, AddUsed
<1>4. log' \in [Upload -> Nat]
  BY <1>2 DEF TypeOK, Statement, AddLine, AddLife
<1>5. LifeKey(file[c]) \in [due : Nat, hash : Nat]
  <2>1. Hash(file[c].num) \in Nat
    BY <1>2 DEF Upload
  <2>2. now + file[c].days + 2 \in Nat
    BY <1>2 DEF TypeOK, UploadRecord
  <2> QED
    BY <2>1, <2>2 DEF LifeKey
<1>6. life' \subseteq LifeEntry
  BY <1>2, <1>5 DEF TypeOK, Statement, AddLine, AddLife, Replace, LifeEntry
<1>7. sent' \in [Client -> Nat] /\ hits' \in [Client -> Nat]
  BY DEF TypeOK
<1>8. again' \in Nat /\ told' \in Nat
  BY <1>2 DEF TypeOK
<1>9. acked' \in [Calls -> SUBSET Upload]
  BY <1>1, <1>2 DEF TypeOK
<1> QED
  BY <1>3, <1>4, <1>6, <1>7, <1>8, <1>9 DEF TypeOK

LEMMA NextType == TypeOK /\ [Next]_vars => TypeOK'
<1> SUFFICES ASSUME TypeOK, [Next]_vars
             PROVE  TypeOK'
  OBVIOUS
<1>1. CASE SetFlag \/ Tick
  BY <1>1 DEF TypeOK, SetFlag, Tick, tables, row, calls, history
<1>2. ASSUME NEW c \in Client, Check(c)
      PROVE  TypeOK'
  <2>1. PICK n \in Sizes, d \in Days :
           file' = [file EXCEPT ![c] = [num |-> uploads + 1, size |-> n, days |-> d]]
    BY <1>2 DEF Check
  <2>2. uploads' \in 0 .. MaxUploads /\ uploads + 1 \in 1 .. MaxUploads
    BY <1>2 DEF Check, TypeOK
  <2>3. file' \in [Client -> UploadRecord]
    BY <2>1, <2>2 DEF TypeOK, UploadRecord
  <2>4. \A b \in Client : stage'[b] # "idle" => file'[b].num # 0
    BY <1>2, <2>1, <2>2 DEF TypeOK, Check, Goto
  <2> QED
    BY <1>2, <2>2, <2>3, <2>4, GotoType DEF Check, TypeOK, tables, row, history
<1>3. ASSUME NEW c \in Client, Ends(c), UNCHANGED <<tables, now, uploads, history>>
      PROVE  TypeOK'
  <2>1. file' \in [Client -> UploadRecord]
    BY <1>3 DEF TypeOK, Ends, NoFile, UploadRecord
  <2>2. \A b \in Client : stage'[b] # "idle" => file'[b].num # 0
    BY <1>3 DEF TypeOK, Ends, Goto
  <2> QED
    BY <1>3, <2>1, <2>2, GotoType DEF Ends, TypeOK, tables, row, history
<1>4. ASSUME NEW c \in Client, Stores(c)
      PROVE  TypeOK'
  <2>1. stored' \in Nat
    BY <1>4 DEF TypeOK, Stores, UploadRecord
  <2>2. \A b \in Client : stage'[b] # "idle" => file'[b].num # 0
    BY <1>4 DEF TypeOK, Stores, Goto
  <2>3. "report" \in Calls
    BY DEF Calls
  <2> QED
    BY <1>4, <2>1, <2>2, <2>3, GotoType DEF Stores, TypeOK, tables, row
<1>5. ASSUME NEW c \in Client, Lost(c) \/ Retry(c)
      PROVE  TypeOK'
  BY <1>5 DEF Lost, Retry, TypeOK, tables, row, history
<1>6. ASSUME NEW c \in Client, stage[c] \in {"report", "log"}, Goto(c, After[stage[c]]),
             UNCHANGED <<tables, now, uploads, file, history>>
      PROVE  TypeOK'
  <2>1. After[stage[c]] \in Calls
    BY <1>6 DEF After, Calls
  <2>2. \A b \in Client : stage'[b] # "idle" => file'[b].num # 0
    BY <1>6 DEF TypeOK, Goto
  <2> QED
    BY <1>6, <2>1, <2>2, GotoType DEF TypeOK, tables, row, history
<1>7. CASE UNCHANGED vars
  BY <1>7 DEF vars, tables, row, calls, history, TypeOK
<1> QED
  BY <1>1, <1>2, <1>3, <1>4, <1>5, <1>6, <1>7, ExecuteType DEF Next, Fails, GoesOn, Calls

\* Every variable keeps its type (there is no bound on what is added up).
THEOREM TypeCorrect == Spec => []TypeOK
<1>1. TypeOK /\ [Next]_vars => TypeOK'
  BY NextType
<1> QED
  BY InitType, <1>1, PTL DEF Spec

-------------------------------------------------------------------------------
(* What was acknowledged is kept *)

Injective == \A u, v \in Upload : Hash(u) = Hash(v) => u = v

LEMMA KeptStep ==
  ASSUME Injective, TypeOK, KeyInv, AckedKept, [Next]_vars
  PROVE  KeyInv' /\ AckedKept'
<1>1. CASE UNCHANGED <<log, life, acked>>
  BY <1>1 DEF KeyInv, AckedKept
<1>2. ASSUME NEW c \in Client, Execute(c)
      PROVE  KeyInv' /\ AckedKept'
  <2> DEFINE u == file[c].num
             new == [key |-> LifeKey(file[c]), url |-> u]
  <2>1. u \in Upload
    BY <1>2 DEF Execute, Statement, AddLine, AddLife, TypeOK, UploadRecord, Upload, Calls
  <2>2. log' = log \/ log' = [log EXCEPT ![u] = @ + 1]
    BY <1>2 DEF Execute, Statement, AddLine, AddLife
  <2>3. stage[c] = "log" => log'[u] > 0
    BY <1>2, <2>1 DEF Execute, Statement, AddLine, AddLife, TypeOK
  <2>4. \A v \in acked'["log"] : log'[v] > 0
    <3>1. \A v \in acked'["log"] : v \in acked["log"] \/ (v = u /\ stage[c] = "log")
      BY <1>2 DEF Execute, TypeOK, Calls
    <3>2. \A v \in acked["log"] : log'[v] > 0
      BY <2>2, <2>1 DEF AckedKept, TypeOK, Calls
    <3> QED
      BY <2>3, <3>1, <3>2
  <2>5. CASE stage[c] # "life"
    <3>1. life' = life /\ acked'["life"] = acked["life"]
      BY <1>2, <2>5 DEF Execute, Statement, AddLine, AddLife, TypeOK, Calls
    <3> QED
      BY <2>4, <3>1 DEF KeyInv, AckedKept
  <2>6. CASE stage[c] = "life"
    <3>1. life' = {e \in life : e.key # LifeKey(file[c])} \cup {new}
      BY <1>2, <2>6 DEF Execute, Statement, AddLine, AddLife, Replace
    <3>2. LifeKey(file[c]).hash = Hash(u)
      BY DEF LifeKey
    <3>3. KeyInv'
      BY <3>1, <3>2 DEF KeyInv
    <3>4. \A e \in life : e.url # u => e \in life'
      <4> SUFFICES ASSUME NEW e \in life, e.url # u
                   PROVE  e.key # LifeKey(file[c])
        BY <3>1
      <4>1. e.url \in Upload /\ e.key.hash = Hash(e.url)
        BY DEF TypeOK, LifeEntry, KeyInv
      <4>2. Hash(e.url) # Hash(u)
        BY <4>1, <2>1 DEF Injective
      <4> QED
        BY <4>1, <4>2, <3>2
    <3>5. new \in life' /\ new.url = u
      BY <3>1
    <3>6. \A v \in Upload : (\E e \in life : e.url = v) => \E e \in life' : e.url = v
      BY <3>4, <3>5
    <3>7. \A v \in acked'["life"] : v = u \/ v \in acked["life"]
      BY <1>2 DEF Execute, TypeOK, Calls
    <3>8. \A v \in acked'["life"] : \E e \in life' : e.url = v
      BY <3>5, <3>6, <3>7 DEF AckedKept, TypeOK, Calls
    <3> QED
      BY <2>4, <3>3, <3>8 DEF AckedKept
  <2> QED
    BY <1>2, <2>5, <2>6 DEF Execute, Statement, AddLine, AddLife
<1> QED
  BY <1>1, <1>2 DEF Next, vars, tables, row, calls, history, SetFlag, Tick, Check, Fails,
                    Stores, Lost, Retry, GoesOn

\* When no two urls have the same hash, the line and the expiry record of a file
\* are kept once they are acknowledged.
THEOREM RecordsKept ==
  ASSUME Injective
  PROVE  Spec => []AckedKept
<1>1. Init => KeyInv /\ AckedKept
  BY DEF Init, KeyInv, AckedKept, Calls
<1>2. TypeOK /\ KeyInv /\ AckedKept /\ [Next]_vars => KeyInv' /\ AckedKept'
  BY KeptStep
<1> QED
  BY <1>1, <1>2, TypeCorrect, PTL DEF Spec

-------------------------------------------------------------------------------
(* How far a quota is exceeded *)

LEMMA Times ==
  /\ \A a, b \in Nat : a <= b => MaxSize * a <= MaxSize * b
  /\ \A a \in Nat : MaxSize * (a + 1) = MaxSize * a + MaxSize
  /\ \A a \in Int : MaxSize * a \in Int
  /\ \A a \in Nat : MaxSize * a \in Nat
  BY Z3

LEMMA PendingCount ==
  ASSUME NEW c \in Client, NEW P, P \subseteq Client
  PROVE  /\ IsFiniteSet(P \ {c}) /\ Cardinality(P \ {c}) \in Nat
         /\ Cardinality(P \ {c}) <= Cardinality(Client) - 1
<1>1. IsFiniteSet(P)
  BY FS_Subset
<1>2. IsFiniteSet(P \ {c}) /\ Cardinality(P \ {c}) \in Nat
  BY <1>1, FS_RemoveElement, FS_CardinalityType
<1>3. P \ {c} \in SUBSET (Client \ {c})
  OBVIOUS
<1>4. Cardinality(P \ {c}) <= Cardinality(Client \ {c})
  BY <1>3, FS_Subset, FS_RemoveElement
<1>5. Cardinality(Client \ {c}) = Cardinality(Client) - 1
  BY FS_RemoveElement
<1> QED
  BY <1>2, <1>4, <1>5

Room(quota) == quota + MaxSize * (Cardinality(Client) - 1) + again

LEMMA OwedType ==
  ASSUME TypeOK, NEW c \in Client
  PROVE  Owed(c) \in Nat
<1>1. Cardinality(Pending \ {c}) \in Nat
  BY PendingCount DEF Pending
<1>2. MaxSize * Cardinality(Pending \ {c}) \in Nat
  BY <1>1, Times
<1> QED
  BY <1>2 DEF Owed, TypeOK, UploadRecord

LEMMA RoomType ==
  ASSUME TypeOK, NEW quota \in {TotalSize, SizeDay}
  PROVE  Room(quota) \in Int
<1>1. Cardinality(Client) \in Nat
  BY FS_CardinalityType
<1>2. MaxSize * (Cardinality(Client) - 1) \in Int
  BY <1>1, Times
<1> QED
  BY <1>2 DEF Room, TypeOK

\* Nothing more is owed, and nothing is charged but what is repeated.
LEMMA LessOwed ==
  ASSUME TypeOK, TypeOK', OvershootInv, Pending' \subseteq Pending,
         \A c \in Pending' : file'[c] = file[c],
         used_size' - again' <= used_size - again
  PROVE  OvershootInv'
<1> SUFFICES ASSUME NEW quota \in {TotalSize, SizeDay}
             PROVE  \E c \in Client : used_size' + Owed(c)' <= Room(quota)'
  BY DEF OvershootInv, Room
<1>1. PICK c \in Client : used_size + Owed(c) <= Room(quota)
  BY DEF OvershootInv, Room
<1> DEFINE P == Pending \ {c}
           Q == Pending' \ {c}
<1>2. Q \in SUBSET P /\ IsFiniteSet(P) /\ Cardinality(P) \in Nat /\ Cardinality(Q) \in Nat
  BY PendingCount DEF Pending
<1>3. MaxSize * Cardinality(Q) <= MaxSize * Cardinality(P)
  BY <1>2, FS_Subset, Times
<1>4. MaxSize * Cardinality(Q) \in Nat /\ MaxSize * Cardinality(P) \in Nat
  BY <1>2, Times
<1>5. Owed(c)' <= Owed(c)
  BY <1>3, <1>4 DEF Owed, TypeOK, UploadRecord
<1>6. Room(quota)' = Room(quota) - again + again'
  <2>1. MaxSize * (Cardinality(Client) - 1) \in Int
    BY FS_CardinalityType, Times
  <2> QED
    BY <2>1 DEF Room, TypeOK
<1>7. Owed(c) \in Nat /\ Room(quota) \in Int
  BY OwedType, RoomType
<1>8. Owed(c)' \in Nat
  BY <1>4 DEF Owed, TypeOK, UploadRecord
<1>9. Room(quota)' \in Int
  BY <1>6, <1>7 DEF Room, TypeOK
<1> HIDE DEF P, Q
<1>10. used_size' + Owed(c)' <= Room(quota)'
  <2>1. used_size \in Int /\ used_size' \in Int /\ again \in Int /\ again' \in Int
    BY DEF TypeOK
  <2> QED
    BY <1>1, <1>5, <1>6, <1>7, <1>8, <1>9, <2>1
<1> QED
  BY <1>10

\* The file that is allowed fits in; all others may be the largest.
LEMMA CheckRoom ==
  ASSUME TypeOK, TypeOK', OvershootInv, NEW c \in Client, Check(c)
  PROVE  OvershootInv'
<1> SUFFICES ASSUME NEW quota \in {TotalSize, SizeDay}
             PROVE  used_size' + Owed(c)' <= Room(quota)'
  BY DEF OvershootInv, Room
<1>1. PICK n \in Sizes : Allowed(n) /\ file'[c].size = n
  <2>1. PICK n \in Sizes, d \in Days :
           /\ Allowed(n)
           /\ file' = [file EXCEPT ![c] = [num |-> uploads + 1, size |-> n, days |-> d]]
    BY DEF Check
  <2>2. file'[c].size = n
    BY <2>1 DEF TypeOK
  <2> QED
    BY <2>1, <2>2
<1>2. used_size' = used_size /\ again' = again
  BY DEF Check, tables, row, history
<1>3. used_size + n < quota
  BY <1>1 DEF Allowed, TypeOK
<1> DEFINE Q == Pending' \ {c}
<1>4. Cardinality(Client) \in Nat /\ Cardinality(Q) \in Nat /\ Cardinality(Q) <= Cardinality(Client) - 1
  BY PendingCount, FS_CardinalityType DEF Pending
<1>5. MaxSize * Cardinality(Q) <= MaxSize * (Cardinality(Client) - 1)
  BY <1>4, Times
<1>6. MaxSize * Cardinality(Q) \in Nat /\ MaxSize * (Cardinality(Client) - 1) \in Int
  BY <1>4, Times
<1>7. Owed(c)' <= n + MaxSize * Cardinality(Q) /\ Owed(c)' \in Nat
  BY <1>1, <1>6 DEF Owed
<1> QED
  BY <1>2, <1>3, <1>5, <1>6, <1>7 DEF Room, TypeOK

\* A first report moves the size of its file from what is owed to what is used.
LEMMA ReportRoom ==
  ASSUME TypeOK, TypeOK', OvershootInv, NEW c \in Client, Execute(c),
         stage[c] = "report", hits[c] = 0
  PROVE  OvershootInv'
<1> SUFFICES ASSUME NEW quota \in {TotalSize, SizeDay}
             PROVE  \E d \in Client : used_size' + Owed(d)' <= Room(quota)'
  BY DEF OvershootInv, Room
<1>1. PICK d \in Client : used_size + Owed(d) <= Room(quota)
  BY DEF OvershootInv, Room
<1>2. c \in Pending /\ Pending' = Pending \ {c} /\ file' = file
  BY DEF Pending, Execute, TypeOK
<1>3. file[c].size \in 0 .. MaxSize
  BY DEF TypeOK, UploadRecord
<1>4. used_size' <= used_size + file[c].size
  BY <1>3, PrintedInt DEF Execute, Statement, AddLine, AddLife, AddUsed, TypeOK
<1>5. again' = again
  BY DEF Execute
<1> DEFINE P == Pending \ {d}
           Q == Pending' \ {d}
<1>6. IsFiniteSet(P) /\ Cardinality(P) \in Nat /\ Cardinality(Q) \in Nat
  BY PendingCount DEF Pending
<1>7. MaxSize * Cardinality(P) \in Nat /\ MaxSize * Cardinality(Q) \in Nat
  BY <1>6, Times
<1>8. Owed(d)' + file[c].size <= Owed(d) /\ Owed(d)' \in Int /\ Owed(d) \in Int
  <2>1. CASE d = c
    <3>1. Q = P
      BY <1>2, <2>1
    <3> HIDE DEF P, Q
    <3>2. d \in Pending /\ d \notin Pending'
      BY <1>2, <2>1
    <3>3. Owed(d) = file[c].size + MaxSize * Cardinality(P)
      BY <3>2, <2>1 DEF Owed, P
    <3>4. Owed(d)' = 0 + MaxSize * Cardinality(Q)
      BY <3>2 DEF Owed, Q
    <3> QED
      BY <3>1, <3>3, <3>4, <1>3, <1>7
  <2>2. CASE d # c
    <3>1. Q = P \ {c} /\ c \in P
      BY <1>2, <2>2
    <3>2. Cardinality(P) = Cardinality(Q) + 1
      <4> HIDE DEF P, Q
      <4>1. Cardinality(P \ {c}) = Cardinality(P) - 1
        BY <3>1, <1>6, FS_RemoveElement
      <4> QED
        BY <3>1, <4>1, <1>6
    <3>3. MaxSize * Cardinality(P) = MaxSize * Cardinality(Q) + MaxSize
      BY <3>2, <1>6, Times
    <3>4. d \in Pending' <=> d \in Pending
      BY <1>2, <2>2
    <3> DEFINE own == IF d \in Pending THEN file[d].size ELSE 0
    <3>5. own \in Nat
      BY DEF TypeOK, UploadRecord
    <3>6. Owed(d) = own + MaxSize * Cardinality(P) /\ Owed(d)' = own + MaxSize * Cardinality(Q)
      BY <1>2, <3>4 DEF Owed
    <3> QED
      BY <3>3, <3>5, <3>6, <1>3, <1>7
  <2> QED
    BY <2>1, <2>2
<1>9. Room(quota)' = Room(quota) /\ Room(quota) \in Int
  BY <1>5, RoomType DEF Room
<1>10. used_size' + Owed(d)' <= Room(quota)'
  BY <1>1, <1>3, <1>4, <1>8, <1>9 DEF TypeOK
<1> QED
  BY <1>10

LEMMA RoomStep == TypeOK /\ OvershootInv /\ [Next]_vars => OvershootInv'
<1> SUFFICES ASSUME TypeOK, OvershootInv, [Next]_vars
             PROVE  OvershootInv'
  OBVIOUS
<1>1. TypeOK'
  BY NextType
<1>2. ASSUME NEW c \in Client, Check(c)
      PROVE  OvershootInv'
  BY <1>1, <1>2, CheckRoom
<1>3. ASSUME NEW c \in Client, Execute(c)
      PROVE  OvershootInv'
  <2>1. CASE stage[c] = "report" /\ hits[c] = 0
    BY <1>1, <1>3, <2>1, ReportRoom
  <2>2. CASE ~(stage[c] = "report" /\ hits[c] = 0)
    <3>1. Pending' \subseteq Pending /\ file' = file
      BY <1>3 DEF Execute, Pending, TypeOK
    <3>2. file[c].size \in 0 .. MaxSize /\ hits[c] \in Nat
      BY DEF TypeOK, UploadRecord
    <3>3. used_size' - again' <= used_size - again
      <4>1. CASE stage[c] = "report"
        <5>1. again' = again + file[c].size
          BY <1>3, <2>2, <4>1, <3>2 DEF Execute
        <5>2. used_size' <= used_size + file[c].size
          BY <1>3, <3>2, <4>1, PrintedInt DEF Execute, Statement, AddLine, AddLife, AddUsed, TypeOK
        <5> QED
          BY <5>1, <5>2, <3>2, <1>1 DEF TypeOK
      <4>2. CASE stage[c] # "report"
        BY <1>3, <4>2 DEF Execute, Statement, AddLine, AddLife, TypeOK
      <4> QED
        BY <4>1, <4>2
    <3> QED
      BY <1>1, <3>1, <3>3, LessOwed
  <2> QED
    BY <2>1, <2>2
<1>4. ASSUME NEW c \in Client, Fails(c) \/ Stores(c) \/ Lost(c) \/ Retry(c) \/ GoesOn(c)
      PROVE  OvershootInv'
  <2>1. used_size' = used_size /\ again' = again
    BY <1>4 DEF Fails, Stores, Lost, Retry, GoesOn, tables, row, history
  <2>2. \A b \in Client : b # c => stage'[b] = stage[b] /\ hits'[b] = hits[b] /\ file'[b] = file[b]
    BY <1>4 DEF Fails, Stores, Lost, Retry, GoesOn, Goto, Ends, TypeOK
  <2>3. c \in Pending' => c \in Pending /\ file'[c] = file[c]
    <3>1. CASE Fails(c)
      BY <3>1 DEF Fails, Ends, Goto, Pending, TypeOK
    <3>2. CASE Stores(c)
      BY <3>2 DEF Stores, Goto, Pending, TypeOK
    <3>3. CASE Lost(c) \/ Retry(c)
      BY <3>3 DEF Lost, Retry, Pending
    <3>4. CASE GoesOn(c)
      <4>1. \A s \in Calls \ {"life"} : After[s] \in {"log", "life"}
        BY DEF After, Calls
      <4>2. stage'[c] \in {"log", "life", "idle"}
        BY <3>4, <4>1 DEF GoesOn, Ends, Goto, TypeOK
      <4> QED
        BY <4>2 DEF Pending
    <3> QED
      BY <1>4, <3>1, <3>2, <3>3, <3>4
  <2>4. Pending' \subseteq Pending /\ \A b \in Pending' : file'[b] = file[b]
    BY <2>2, <2>3 DEF Pending
  <2> QED
    BY <1>1, <2>1, <2>4, LessOwed DEF TypeOK
<1>5. CASE SetFlag \/ Tick \/ UNCHANGED vars
  <2>1. Pending' = Pending /\ file' = file /\ used_size' = used_size /\ again' = again
    BY <1>5 DEF SetFlag, Tick, vars, tables, row, calls, history, Pending
  <2> QED
    BY <1>1, <2>1, LessOwed DEF TypeOK
<1> QED
  BY <1>2, <1>3, <1>4, <1>5 DEF Next

\* However the checks, reports and repetitions of the clients interleave, a quota
\* is exceeded by less than a file of each client but one, and what was repeated.
THEOREM QuotaOvershoot == Spec => []Overshoot
<1>1. Init => OvershootInv
  <2>1. PICK c \in Client : TRUE
    OBVIOUS
  <2> SUFFICES ASSUME Init, NEW quota \in {TotalSize, SizeDay}
               PROVE  used_size + Owed(c) <= Room(quota)
    BY DEF OvershootInv, Room
  <2>2. Pending = {} /\ used_size = 0 /\ again = 0
    BY DEF Init, Pending
  <2>3. Cardinality(Pending \ {c}) = 0
    BY <2>2, FS_EmptySet
  <2>4. Cardinality(Client) - 1 \in Nat
    <3>1. Cardinality(Client) \in Nat
      BY FS_CardinalityType
    <3>2. Cardinality(Client) # 0
      BY FS_EmptySet
    <3> QED
      BY <3>1, <3>2
  <2>5. MaxSize * (Cardinality(Client) - 1) \in Nat /\ MaxSize * 0 = 0
    BY <2>4, Times
  <2> QED
    BY <2>2, <2>3, <2>5 DEF Owed, Room
<1>2. OvershootInv /\ TypeOK => Overshoot
  <2> SUFFICES ASSUME OvershootInv, TypeOK, NEW quota \in {TotalSize, SizeDay}
               PROVE  used_size <= Room(quota)
    BY DEF Overshoot, Room
  <2>1. PICK c \in Client : used_size + Owed(c) <= Room(quota)
    BY DEF OvershootInv, Room
  <2>2. Owed(c) \in Nat /\ Room(quota) \in Int /\ used_size \in Int
    BY OwedType, RoomType DEF TypeOK
  <2> QED
    BY <2>1, <2>2
<1> QED
  BY <1>1, <1>2, RoomStep, TypeCorrect, PTL DEF Spec
-------------------------------------------------------------------------------
(* What a user is charged with *)

\* The bytes of the stored files whose report was not executed yet: a sum over the
\* clients, counted byte by byte.
Bytes(c) == IF stage[c] = "report" /\ hits[c] = 0 THEN 1 .. file[c].size ELSE {}
Unreported == {p \in Client \X (1 .. MaxSize) : p[2] \in Bytes(p[1])}

\* Told files are charged, and charged files are stored, with room for those that
\* are stored and not reported.
ChargedInv ==
    /\ known => told <= used_size
    /\ known => used_size + Cardinality(Unreported) <= stored + again

LEMMA UnreportedFinite ==
  ASSUME NEW P, P \subseteq Client \X (1 .. MaxSize)
  PROVE  IsFiniteSet(P) /\ Cardinality(P) \in Nat
<1>1. IsFiniteSet(1 .. MaxSize)
  BY FS_Interval
<1>2. IsFiniteSet(Client \X (1 .. MaxSize))
  BY <1>1, FS_Product
<1> QED
  BY <1>2, FS_Subset, FS_CardinalityType

\* The bytes of one client count for the size of its file.
LEMMA OneClient ==
  ASSUME NEW c \in Client, NEW n \in 0 .. MaxSize
  PROVE  Cardinality({c} \X (1 .. n)) = n
<1>1. IsFiniteSet(1 .. n) /\ Cardinality(1 .. n) = n
  BY FS_Interval
<1>2. IsFiniteSet({c}) /\ Cardinality({c}) = 1
  BY FS_Singleton
<1>3. Cardinality({c} \X (1 .. n)) = Cardinality({c}) * Cardinality(1 .. n)
  BY <1>1, <1>2, FS_Product
<1> QED
  BY <1>1, <1>2, <1>3

\* One client's bytes join the others.
LEMMA OneMore ==
  ASSUME NEW c \in Client, NEW n \in 0 .. MaxSize,
         NEW P, P \subseteq Client \X (1 .. MaxSize), P \cap ({c} \X (1 .. n)) = {}
  PROVE  Cardinality(P \cup ({c} \X (1 .. n))) = Cardinality(P) + n
<1> DEFINE own == {c} \X (1 .. n)
<1>1. own \subseteq Client \X (1 .. MaxSize)
  OBVIOUS
<1>2. IsFiniteSet(own) /\ IsFiniteSet(P) /\ Cardinality(P) \in Nat
  BY <1>1, UnreportedFinite
<1>3. Cardinality(own) = n
  BY OneClient
<1>4. P \cap own = {}
  OBVIOUS
<1> HIDE DEF own
<1>5. Cardinality(P \cap own) = 0
  BY <1>4, FS_EmptySet
<1>6. Cardinality(P \cup own) = Cardinality(P) + Cardinality(own) - Cardinality(P \cap own)
  BY <1>2, FS_Union
<1>7. Cardinality(P \cup own) = Cardinality(P) + n
  BY <1>2, <1>3, <1>5, <1>6
<1> QED
  BY <1>7 DEF own

LEMMA FewerBytes ==
  ASSUME TypeOK, TypeOK', Unreported' \subseteq Unreported, stored' = stored,
         used_size' + again <= used_size + again',
         used_size + Cardinality(Unreported) <= stored + again
  PROVE  used_size' + Cardinality(Unreported') <= stored' + again'
<1>1. IsFiniteSet(Unreported) /\ Cardinality(Unreported) \in Nat
  BY UnreportedFinite DEF Unreported
<1>2. Cardinality(Unreported') <= Cardinality(Unreported) /\ Cardinality(Unreported') \in Nat
  BY <1>1, FS_Subset, FS_CardinalityType
<1>3. PICK u \in Int, a \in Int : used_size' = u /\ again' = a
  BY DEF TypeOK
<1>4. used_size \in Int /\ again \in Int /\ stored \in Int
  BY DEF TypeOK
<1>5. u + again <= used_size + a
  BY <1>3
<1>6. u + Cardinality(Unreported') <= stored + a
  BY <1>1, <1>2, <1>4, <1>5
<1> QED
  BY <1>3, <1>6

\* Nobody owes a report who did not before, and what is charged is repeated.
LEMMA LessUnreported ==
  ASSUME TypeOK, TypeOK', ChargedInv, Unreported' \subseteq Unreported, known' = known,
         used_size' + again <= used_size + again', stored' = stored,
         known => told' <= used_size'
  PROVE  ChargedInv'
<1>1. known => used_size' + Cardinality(Unreported') <= stored' + again'
  BY FewerBytes DEF ChargedInv
<1> QED
  BY <1>1 DEF ChargedInv

LEMMA ExecuteCharges ==
  ASSUME MaxSize < Half, TypeOK, TypeOK', ChargedInv, NEW c \in Client, Execute(c)
  PROVE  ChargedInv'
<1>1. file[c].size \in 0 .. MaxSize /\ hits[c] \in Nat
  BY DEF TypeOK, UploadRecord
<1>2. known' = known /\ stored' = stored
  BY DEF Execute
<1>3. \A b \in Client \ {c} : Bytes(b)' = Bytes(b)
  BY DEF Bytes, Execute, TypeOK
<1>4. CASE stage[c] # "report"
  <2>1. used_size' = used_size /\ again' = again /\ told' = told
    BY <1>4 DEF Execute, Statement, AddLine, AddLife
  <2>2. Bytes(c)' = Bytes(c)
    BY <1>4 DEF Execute, Bytes
  <2>3. Unreported' = Unreported
    BY <1>3, <2>2 DEF Unreported
  <2> QED
    BY <1>2, <2>1, <2>3, LessUnreported DEF ChargedInv, TypeOK
<1>5. CASE stage[c] = "report"
  <2>1. known => used_size' = used_size + file[c].size
    BY <1>1, <1>5 DEF Execute, Statement, AddLine, AddLife, AddUsed, Printed
  <2>2. told' \in {told, told + file[c].size}
    BY DEF Execute
  <2>3. known => told' <= used_size'
    BY <1>1, <2>1, <2>2 DEF ChargedInv, TypeOK
  <2>4. Bytes(c)' = {}
    BY <1>1, <1>5 DEF Execute, Bytes, TypeOK
  <2>5. CASE hits[c] > 0
    <3>1. Unreported' \subseteq Unreported
      BY <1>3, <2>4 DEF Unreported
    <3>2. again' = again + file[c].size
      BY <1>5, <2>5 DEF Execute
    <3>3. used_size' <= used_size + file[c].size
      BY <1>1, <2>1, <1>5 DEF Execute, Statement, AddLine, AddLife, AddUsed, TypeOK
    <3>4. used_size' + again <= used_size + again'
      BY <1>1, <3>2, <3>3 DEF TypeOK
    <3> QED
      BY <1>2, <2>3, <3>1, <3>4, LessUnreported
  <2>6. CASE hits[c] = 0
    <3> DEFINE own == {c} \X (1 .. file[c].size)
    <3>1. Bytes(c) = 1 .. file[c].size
      BY <1>5, <2>6 DEF Bytes
    <3>2. Unreported = Unreported' \cup own /\ Unreported' \cap own = {}
      BY <1>1, <1>3, <2>4, <3>1 DEF Unreported
    <3>3. Unreported' \subseteq Client \X (1 .. MaxSize)
      BY DEF Unreported
    <3>4. Cardinality(Unreported) = Cardinality(Unreported') + file[c].size
      BY <1>1, <3>2, <3>3, OneMore
    <3>5. again' = again
      BY <2>6 DEF Execute
    <3>6. Cardinality(Unreported') \in Nat
      BY <3>3, UnreportedFinite
    <3> QED
      BY <1>1, <1>2, <2>1, <2>3, <3>4, <3>5, <3>6 DEF ChargedInv, TypeOK
  <2> QED
    BY <1>1, <2>5, <2>6
<1> QED
  BY <1>4, <1>5

LEMMA StoresCharges ==
  ASSUME TypeOK, TypeOK', ChargedInv, NEW c \in Client, Stores(c)
  PROVE  ChargedInv'
<1> DEFINE own == {c} \X (1 .. file[c].size)
<1>1. file[c].size \in 0 .. MaxSize
  BY DEF TypeOK, UploadRecord
<1>2. \A b \in Client \ {c} : Bytes(b)' = Bytes(b)
  BY DEF Bytes, Stores, Goto, TypeOK
<1>3. Bytes(c) = {} /\ Bytes(c)' = 1 .. file[c].size
  BY DEF Bytes, Stores, Goto, TypeOK
<1>4. Unreported' = Unreported \cup own /\ Unreported \cap own = {}
  BY <1>1, <1>2, <1>3 DEF Unreported
<1>5. Cardinality(Unreported') = Cardinality(Unreported) + file[c].size
  BY <1>1, <1>4, OneMore DEF Unreported
<1>6. Cardinality(Unreported) \in Nat
  BY UnreportedFinite DEF Unreported
<1>7. UNCHANGED <<known, used_size, again, told>> /\ stored' = stored + file[c].size
  BY DEF Stores, tables, row
<1> QED
  BY <1>1, <1>5, <1>6, <1>7 DEF ChargedInv, TypeOK

LEMMA ChargedStep == MaxSize < Half /\ TypeOK /\ ChargedInv /\ [Next]_vars => ChargedInv'
<1> SUFFICES ASSUME MaxSize < Half, TypeOK, ChargedInv, [Next]_vars
             PROVE  ChargedInv'
  OBVIOUS
<1>1. TypeOK'
  BY NextType
<1>2. ASSUME UNCHANGED <<known, used_size, again, stored, told>>, Unreported' \subseteq Unreported
      PROVE  ChargedInv'
  BY <1>1, <1>2, LessUnreported DEF ChargedInv, TypeOK
<1>3. ASSUME NEW c \in Client,
             Check(c) \/ Fails(c) \/ Lost(c) \/ Retry(c) \/ GoesOn(c)
      PROVE  ChargedInv'
  <2>1. UNCHANGED <<known, used_size, again, stored, told>>
    BY <1>3 DEF Check, Fails, Lost, Retry, GoesOn, tables, row, history
  <2>2. \A b \in Client \ {c} : Bytes(b)' = Bytes(b)
    BY <1>3 DEF Bytes, Check, Fails, Lost, Retry, GoesOn, Goto, Ends, TypeOK
  <2>3. Bytes(c)' = Bytes(c) \/ Bytes(c)' = {}
    <3>1. CASE Check(c)
      BY <3>1 DEF Check, Goto, Bytes, TypeOK
    <3>2. CASE Fails(c)
      BY <3>2 DEF Fails, Ends, Goto, Bytes, TypeOK
    <3>3. CASE Lost(c) \/ Retry(c)
      BY <3>3 DEF Lost, Retry, Bytes
    <3>4. CASE GoesOn(c)
      <4>1. \A s \in Calls \ {"life"} : After[s] \in {"log", "life"}
        BY DEF After, Calls
      <4>2. stage'[c] \in {"log", "life", "idle"}
        BY <3>4, <4>1 DEF GoesOn, Ends, Goto, TypeOK
      <4> QED
        BY <4>2 DEF Bytes
    <3> QED
      BY <1>3, <3>1, <3>2, <3>3, <3>4
  <2>4. Unreported' \subseteq Unreported
    BY <2>2, <2>3 DEF Unreported
  <2> QED
    BY <1>2, <2>1, <2>4
<1>4. CASE SetFlag \/ Tick \/ UNCHANGED vars
  <2>1. UNCHANGED <<known, used_size, again, stored, told, stage, hits, file>>
    BY <1>4 DEF SetFlag, Tick, vars, tables, row, calls, history
  <2>2. Unreported' = Unreported
    BY <2>1 DEF Unreported, Bytes
  <2> QED
    BY <1>2, <2>1, <2>2
<1> QED
  BY <1>1, <1>3, <1>4, ExecuteCharges, StoresCharges DEF Next

\* While the sizes of files are below 2^31 (above, the statement subtracts), the
\* space a user is charged with covers what was acknowledged, and nothing that was
\* not stored or reported twice.
THEOREM ChargesAccounted ==
  ASSUME MaxSize < Half
  PROVE  Spec => []Accounted
<1>1. Init => ChargedInv
  <2>1. Init => Unreported = {}
    BY DEF Init, Unreported, Bytes
  <2>2. Cardinality({}) = 0
    BY FS_EmptySet
  <2> QED
    BY <2>1, <2>2 DEF Init, ChargedInv
<1>2. ChargedInv /\ TypeOK => Accounted
  <2>1. Cardinality(Unreported) \in Nat
    BY UnreportedFinite DEF Unreported
  <2> QED
    BY <2>1 DEF ChargedInv, Accounted, TypeOK
<1>3. TypeOK /\ ChargedInv /\ [Next]_vars => ChargedInv'
  BY ChargedStep
<1> QED
  BY <1>1, <1>2, <1>3, TypeCorrect, PTL DEF Spec

=============================================================================
