-------------------------- MODULE MetaService_proofs --------------------------
(***************************************************************************)
(* Proofs about MetaService, for every set of workers, keys and requests,  *)
(* with and without faults and for every replication lag: the types and    *)
(* the control of the handlers (Base), then what holds of the files that   *)
(* are only ever added (Once).                                             *)
(***************************************************************************)
EXTENDS MetaService, SequenceTheorems, TLAPS

USE MetaAssumption, AbsentAssumption

(***************************************************************************)
(* The calls the handler of an operation goes through, and what a worker   *)
(* has read when it makes them.                                            *)
(***************************************************************************)
Through(op) == CASE op = "add" -> {"insert", "cache"}
                 [] op = "get" -> {"look", "query", "fill"}
                 [] op = "update" -> {"read", "fill", "forget", "write", "cache"}
                 [] op = "replace" -> {"read", "fill", "insert", "write", "cache", "save"}
                 [] op = "delete" -> {"erase", "delete"}
                 [] op = "clean" -> {"clean"}

Unread == {"idle", "look", "query", "read", "forget", "insert",
           "erase", "delete", "clean"}

Control(w) ==
    /\ (pc[w] = "idle") <=> (req[w] = Absent)
    /\ (pc[w] = "send") <=> (answer[w] # Absent)
    /\ pc[w] \notin {"idle", "send"} => pc[w] \in Through(req[w].op)
    /\ pc[w] \in Unread => seen[w] = Absent
    /\ pc[w] \in {"fill", "write"} => seen[w] # Absent
    /\ (pc[w] = "cache" /\ req[w].op = "update") => seen[w] # Absent
    /\ pc[w] = "save" => SavesOld(w)

Base == TypeOK /\ \A w \in Worker : Control(w)

-------------------------------------------------------------------------------
(***************************************************************************)
(* What the handlers write is file metadata.                               *)
(***************************************************************************)
LEMMA CutType ==
  ASSUME NEW s \in Seq(STRING), NEW n \in Nat
  PROVE  Cut(s, n) \in Seq(STRING)
<1> DEFINE last == IF n < Len(s) THEN n ELSE Len(s)
<1>1. Len(s) \in Nat /\ s \in [1 .. Len(s) -> STRING]
  BY LenProperties
<1>2. last \in Int /\ last <= Len(s)
  BY <1>1
<1>3. Cut(s, n) = SubSeq(s, 1, last)
  BY DEF Cut
<1> HIDE DEF last
<1>4. \A i \in 1 .. last : s[i] \in STRING
  BY <1>1, <1>2
<1>5. SubSeq(s, 1, last) \in Seq(STRING)
  BY <1>2, <1>4, SubSeqProperties
<1> QED
  BY <1>3, <1>5

LEMMA UpdatedType ==
  ASSUME NEW m \in Metas, NEW r \in Request
  PROVE  Updated(m, r) \in Metas
<1> DEFINE pwd == IF "pwd" \in r.set THEN r.meta.pwd ELSE m.pwd
           given == IF "pwd" \in r.set THEN Len(r.meta.pwd) ELSE 0
<1>1. r.meta \in Metas
  OBVIOUS
<1>2. m.pwd \in Seq(STRING) /\ r.meta.pwd \in Seq(STRING)
  BY <1>1 DEF Metas
<1>3. Len(r.meta.pwd) \in Nat
  BY <1>2, LenProperties
<1>4. pwd \in Seq(STRING) /\ given + 1 \in Nat
  BY <1>2, <1>3
<1>5. Cut(pwd, given + 1) \in Seq(STRING)
  BY <1>4, CutType
<1> QED
  BY <1>1, <1>5 DEF Updated, Metas

LEMMA DefaultType ==
  ASSUME NEW r \in Request
  PROVE  Default(r) \in Metas
<1>1. r.meta \in Metas /\ <<>> \in Seq(STRING)
  BY EmptySeq
<1> QED
  BY <1>1 DEF Default, Metas

LEMMA NewType ==
  ASSUME Base, NEW w \in Worker, pc[w] \in {"insert", "write", "cache"}
  PROVE  New(w) \in Metas
<1> USE DEF Base, TypeOK, Control, Through, Unread, Rows
<1>1. req[w] \in Request
  OBVIOUS
<1>2. CASE req[w].op = "add"
  BY <1>1, <1>2 DEF New
<1>3. CASE req[w].op = "update"
  <2>1. seen[w] \in Metas
    BY <1>1, <1>3
  <2> QED
    BY <1>1, <1>3, <2>1, UpdatedType DEF New
<1>4. CASE req[w].op = "replace"
  <2>1. CASE seen[w] = Absent
    BY <1>1, <1>4, <2>1, DefaultType DEF New
  <2>2. CASE seen[w] # Absent
    <3>1. seen[w] \in Metas /\ req[w].meta \in Metas
      BY <1>1, <2>2
    <3> QED
      BY <1>4, <2>2, <3>1 DEF New, Metas
  <2> QED
    BY <2>1, <2>2
<1> QED
  BY <1>1, <1>2, <1>3, <1>4 DEF Op

-------------------------------------------------------------------------------
(***************************************************************************)
(* What a step does to the database: at most one row is written, at its    *)
(* insert, write, save or delete, and all of them follow the types.        *)
(***************************************************************************)
Writes(w) ==
    \/ /\ pc[w] = "insert"
       /\ master[Path(w)] = Absent
       /\ Commit(Path(w), New(w))
    \/ pc[w] = "write" /\ Commit(Path(w), New(w))
    \/ pc[w] = "save" /\ Commit(Versioned(req[w]), seen[w])
    \/ pc[w] = "delete" /\ Commit(Path(w), Absent)

LEMMA StepWrites ==
  ASSUME NEW w \in Worker, Step(w)
  PROVE  UNCHANGED db \/ Writes(w)
  BY DEF Step, Look, Query, Read, Fill, Forget, Insert, Write, CacheNew,
         SaveOld, Erase, Delete, Clean, Send, Statement, Writes

LEMMA CommitType ==
  ASSUME TypeOK, NEW k \in Key, NEW m \in Rows, Commit(k, m)
  PROVE  /\ master' \in [Key -> Rows]
         /\ slave' \in [Key -> Rows]
         /\ relay' \in Seq(Key \X Rows)
<1>1. master' \in [Key -> Rows] /\ slave' \in [Key -> Rows]
  BY DEF TypeOK, Commit
<1>2. Append(relay, <<k, m>>) \in Seq(Key \X Rows)
  BY AppendProperties DEF TypeOK
<1> QED
  BY <1>1, <1>2 DEF TypeOK, Commit

LEMMA WritesType ==
  ASSUME Base, NEW w \in Worker, Writes(w)
  PROVE  /\ master' \in [Key -> Rows]
         /\ slave' \in [Key -> Rows]
         /\ relay' \in Seq(Key \X Rows)
<1> USE DEF Base, TypeOK, Control, Through, Unread
<1>1. req[w] \in Request /\ Path(w) \in Key
  BY DEF Writes, Path
<1>2. CASE pc[w] \in {"insert", "write"}
  BY <1>1, <1>2, NewType, CommitType DEF Writes, Rows
<1>3. CASE pc[w] = "save"
  BY <1>1, <1>3, CommitType DEF Writes, SavesOld
<1>4. CASE pc[w] = "delete"
  BY <1>1, <1>4, CommitType DEF Writes, Rows
<1> QED
  BY <1>2, <1>3, <1>4 DEF Writes

-------------------------------------------------------------------------------
(***************************************************************************)
(* Types and control.                                                      *)
(***************************************************************************)
LEMMA BaseInit == Init => Base
<1>1. <<>> \in Seq(Key \X Rows)
  BY EmptySeq
<1> QED
  BY <1>1 DEF Init, Base, TypeOK, Control, Unread, Label, Rows

\* The part of TypeOK that is not the database.
LocalType == /\ cache \in [Key -> Rows]
             /\ pc \in [Worker -> Label]
             /\ req \in [Worker -> Request \cup {Absent}]
             /\ seen \in [Worker -> Rows]
             /\ answer \in [Worker -> Answers \cup {Absent}]

LEMMA ReceiveBase ==
  ASSUME Base, NEW w \in Worker, Receive(w)
  PROVE  Base'
<1> USE DEF Base, TypeOK, Receive, Goto, db
<1>1. PICK r \in Request : /\ req' = [req EXCEPT ![w] = r]
                           /\ pc' = [pc EXCEPT ![w] = First(r.op)]
  OBVIOUS
<1>2. r.op \in Op
  OBVIOUS
<1>3. First(r.op) \in Through(r.op) \cap (Label \ {"idle", "send", "fill", "write", "cache", "save"})
  BY <1>2 DEF First, Through, Label, Op
<1>4. TypeOK'
  BY <1>1, <1>3
<1>5. Control(w)'
  BY <1>1, <1>3 DEF Control, Label, Unread
<1>6. \A v \in Worker : v # w => Control(v)'
  BY <1>1 DEF Control, SavesOld
<1> QED
  BY <1>4, <1>5, <1>6

\* The operation a worker serves, told by the call it makes.
LEMMA Serving ==
  ASSUME Base, NEW w \in Worker, pc[w] \notin {"idle", "send"}
  PROVE  /\ req[w] \in Request /\ Path(w) \in Key
         /\ pc[w] \in {"look", "query"} => req[w].op = "get"
         /\ pc[w] = "fill" => req[w].op \in {"get", "update", "replace"}
         /\ pc[w] = "forget" => req[w].op = "update"
         /\ pc[w] \in {"read", "write"} => req[w].op \in {"update", "replace"}
         /\ pc[w] = "insert" => req[w].op \in {"add", "replace"}
         /\ pc[w] = "cache" => req[w].op \in {"add", "update", "replace"}
         /\ pc[w] = "save" => req[w].op = "replace"
         /\ pc[w] \in {"erase", "delete"} => req[w].op = "delete"
         /\ pc[w] = "clean" => req[w].op = "clean"
<1>1. req[w] \in Request /\ Control(w)
  BY DEF Base, TypeOK, Control
<1>2. pc[w] \in Through(req[w].op) /\ req[w].op \in Op
  BY <1>1 DEF Control
<1> QED
  BY <1>1, <1>2 DEF Through, Op, Path

\* The two ways a call ends: the next call of the handler, or its answer.
LEMMA GotoLocal ==
  ASSUME Base, NEW w \in Worker, pc[w] \notin {"idle", "send"},
         NEW label \in Through(req[w].op), Goto(w, label),
         UNCHANGED <<req, answer>>,
         cache' \in [Key -> Rows], seen' \in [Worker -> Rows],
         label \in Unread => seen'[w] = Absent,
         label \in {"fill", "write"} => seen'[w] # Absent,
         label = "cache" /\ req[w].op = "update" => seen'[w] # Absent,
         label = "save" => SavesOld(w)'
  PROVE  LocalType' /\ Control(w)'
<1>1. req[w] \in Request /\ req[w].op \in Op
  BY Serving
<1>2. label \in Label \ {"idle", "send"}
  BY <1>1 DEF Through, Label, Op
<1>3. pc' \in [Worker -> Label] /\ pc'[w] = label
  BY <1>2 DEF Goto, Base, TypeOK
<1>4. LocalType'
  BY <1>3 DEF LocalType, Base, TypeOK
<1>5. answer[w] = Absent
  BY DEF Base, Control
<1> QED
  BY <1>1, <1>2, <1>3, <1>4, <1>5 DEF Control

LEMMA FinishLocal ==
  ASSUME Base, NEW w \in Worker, pc[w] \notin {"idle", "send"},
         NEW result \in Results, NEW meta \in Rows, Finish(w, result, meta),
         UNCHANGED <<req, seen>>, cache' \in [Key -> Rows]
  PROVE  LocalType' /\ Control(w)'
<1>1. Answer(result, meta) \in Answers
  BY DEF Answer, Answers, Rows
<1>2. /\ pc' \in [Worker -> Label] /\ pc'[w] = "send"
      /\ answer' \in [Worker -> Answers \cup {Absent}] /\ answer'[w] # Absent
  BY <1>1 DEF Finish, Goto, Base, TypeOK, Label
<1>3. LocalType'
  BY <1>2 DEF LocalType, Base, TypeOK
<1>4. req[w] # Absent
  BY Serving
<1> QED
  BY <1>2, <1>3, <1>4 DEF Control, Unread

LEMMA StepLocal ==
  ASSUME Base, NEW w \in Worker, Step(w)
  PROVE  LocalType' /\ Control(w)'
<1>1. /\ cache \in [Key -> Rows] /\ seen \in [Worker -> Rows]
      /\ slave \in [Key -> Rows] /\ master \in [Key -> Rows]
      /\ Control(w) /\ Absent \in Rows /\ Metas \subseteq Rows
  BY DEF Base, TypeOK, Rows
<1>2. \A k \in Key, m \in Rows : Cached(k, m) => cache' \in [Key -> Rows]
  BY <1>1 DEF Cached
<1>3. pc[w] \notin {"idle", "send"} => Path(w) \in Key /\ req[w] \in Request
  BY Serving
<1>4. CASE Look(w)
  <2>1. req[w].op = "get" /\ pc[w] = "look"
    BY <1>4, Serving DEF Look
  <2>2. cache[Path(w)] \in Rows
    BY <1>1, <1>3, <2>1
  <2>3. CASE cache[Path(w)] = Absent
    BY <1>1, <1>4, <2>1, <2>3, GotoLocal DEF Look, Through, Control, Unread, db
  <2>4. CASE cache[Path(w)] # Absent
    BY <1>1, <1>4, <2>1, <2>2, <2>4, FinishLocal DEF Look, Results, db
  <2> QED
    BY <2>3, <2>4
<1>5. CASE Query(w)
  <2>1. req[w].op = "get" /\ pc[w] = "query"
    BY <1>5, Serving DEF Query
  <2>2. slave[Path(w)] \in Rows
    BY <1>1, <1>3, <2>1
  <2>3. CASE /\ slave[Path(w)] # Absent
             /\ seen' = [seen EXCEPT ![w] = slave[Path(w)]]
             /\ Goto(w, "fill") /\ UNCHANGED answer
    BY <1>1, <1>5, <2>1, <2>2, <2>3, GotoLocal DEF Query, Through, Unread, db
  <2>4. CASE Finish(w, "KEY_NOT_EXIST", Absent) /\ UNCHANGED seen
    BY <1>1, <1>5, <2>1, <2>4, FinishLocal DEF Query, Results, db
  <2> QED
    BY <1>5, <2>3, <2>4 DEF Query
<1>6. CASE Read(w)
  <2>1. req[w].op \in {"update", "replace"} /\ pc[w] = "read"
    BY <1>6, Serving DEF Read
  <2>2. master[Path(w)] \in Rows
    BY <1>1, <1>3, <2>1
  <2>3. CASE Goto(w, "fill") /\ master[Path(w)] # Absent
               /\ seen' = [seen EXCEPT ![w] = master[Path(w)]]
    BY <1>1, <1>6, <2>1, <2>2, <2>3, GotoLocal DEF Read, Through, Unread, db
  <2>4. CASE Missing(w)
    BY <1>1, <1>6, <2>1, <2>4, GotoLocal
       DEF Read, Missing, Through, Control, Unread, db
  <2> QED
    BY <1>6, <2>3, <2>4 DEF Read
<1>7. CASE Fill(w)
  <2>1. req[w].op \in {"get", "update", "replace"} /\ pc[w] = "fill"
    BY <1>7, Serving DEF Fill
  <2>2. cache' \in [Key -> Rows] /\ seen[w] \in Rows
    BY <1>1, <1>2, <1>3, <1>7, <2>1 DEF Fill
  <2>3. CASE req[w].op = "get"
    BY <1>7, <2>1, <2>2, <2>3, FinishLocal DEF Fill, Results, db
  <2>4. CASE req[w].op # "get"
    BY <1>1, <1>7, <2>1, <2>2, <2>4, GotoLocal
       DEF Fill, Through, Control, Unread, db
  <2> QED
    BY <2>3, <2>4
<1>8. CASE Forget(w)
  <2>1. pc[w] = "forget" /\ cache' \in [Key -> Rows]
    BY <1>1, <1>2, <1>3, <1>8 DEF Forget
  <2> QED
    BY <1>1, <1>8, <2>1, FinishLocal DEF Forget, Results
<1>9. CASE Insert(w)
  <2>1. req[w].op \in {"add", "replace"} /\ pc[w] = "insert"
    BY <1>9, Serving DEF Insert
  <2>2. CASE Goto(w, "cache") /\ UNCHANGED answer
    BY <1>1, <1>9, <2>1, <2>2, GotoLocal DEF Insert, Through, Unread
  <2>3. CASE Finish(w, "INSERT_FAILED", Absent)
    BY <1>1, <1>9, <2>1, <2>3, FinishLocal DEF Insert, Results
  <2> QED
    BY <1>9, <2>2, <2>3 DEF Insert, Statement
<1>10. CASE Write(w)
  <2>1. req[w].op \in {"update", "replace"} /\ pc[w] = "write"
    BY <1>10, Serving DEF Write
  <2>2. CASE Goto(w, "cache") /\ UNCHANGED answer
    BY <1>1, <1>10, <2>1, <2>2, GotoLocal DEF Write, Through, Control, Unread
  <2>3. CASE Finish(w, "UPDATE_KV_ERROR", Absent)
    BY <1>1, <1>10, <2>1, <2>3, FinishLocal DEF Write, Results
  <2> QED
    BY <1>10, <2>2, <2>3 DEF Write, Statement
<1>11. CASE CacheNew(w)
  <2>1. req[w].op \in {"add", "update", "replace"} /\ pc[w] = "cache"
    BY <1>11, Serving DEF CacheNew
  <2>2. New(w) \in Rows
    BY <1>1, <2>1, NewType
  <2>3. cache' \in [Key -> Rows]
    BY <1>2, <1>3, <1>11, <2>1, <2>2 DEF CacheNew
  <2>4. CASE SavesOld(w)
    BY <1>1, <1>11, <2>1, <2>3, <2>4, GotoLocal
       DEF CacheNew, Through, Unread, SavesOld, db
  <2>5. CASE ~SavesOld(w)
    BY <1>1, <1>11, <2>1, <2>3, <2>5, FinishLocal DEF CacheNew, Results, db
  <2> QED
    BY <2>4, <2>5
<1>12. CASE SaveOld(w)
  <2>1. pc[w] = "save" /\ Finish(w, "SUCC", Absent)
    BY <1>12 DEF SaveOld, Statement
  <2> QED
    BY <1>1, <1>12, <2>1, FinishLocal DEF SaveOld, Results
<1>13. CASE Erase(w)
  <2>1. req[w].op = "delete" /\ pc[w] = "erase"
    BY <1>13, Serving DEF Erase
  <2>2. cache' \in [Key -> Rows]
    BY <1>1, <1>2, <1>3, <1>13, <2>1 DEF Erase
  <2> QED
    BY <1>1, <1>13, <2>1, <2>2, GotoLocal DEF Erase, Through, Control, Unread
<1>14. CASE Delete(w)
  <2>1. pc[w] = "delete"
    BY <1>14 DEF Delete
  <2>2. \/ Finish(w, "SUCC", Absent)
        \/ Finish(w, "DELETE_KV_ERROR", Absent)
    BY <1>14 DEF Delete, Statement
  <2> QED
    BY <1>1, <1>14, <2>1, <2>2, FinishLocal DEF Delete, Results
<1>15. CASE Clean(w)
  <2>1. pc[w] = "clean" /\ cache' \in [Key -> Rows]
    BY <1>1, <1>2, <1>3, <1>15 DEF Clean
  <2> QED
    BY <1>1, <1>15, <2>1, FinishLocal DEF Clean, Results
<1>16. CASE Send(w)
  BY <1>1, <1>16 DEF Send, Goto, LocalType, Control, Unread, Base, TypeOK,
                     Label, Rows
<1> QED
  BY <1>4, <1>5, <1>6, <1>7, <1>8, <1>9, <1>10, <1>11, <1>12, <1>13, <1>14,
     <1>15, <1>16 DEF Step

\* A step of one worker leaves the control of the others alone.
LEMMA StepOthers ==
  ASSUME Base, NEW w \in Worker, Step(w), NEW v \in Worker, v # w
  PROVE  /\ pc'[v] = pc[v] /\ req'[v] = req[v]
         /\ seen'[v] = seen[v] /\ answer'[v] = answer[v]
  BY DEF Base, TypeOK, Step, Look, Query, Read, Missing, Fill, Forget, Insert,
         Write, CacheNew, SaveOld, Erase, Delete, Clean, Send, Statement,
         Goto, Finish

LEMMA StepBase ==
  ASSUME Base, NEW w \in Worker, Step(w)
  PROVE  Base'
<1>1. LocalType' /\ Control(w)'
  BY StepLocal
<1>2. TypeOK'
  BY <1>1, StepWrites, WritesType DEF LocalType, Base, TypeOK, db
<1>3. ASSUME NEW v \in Worker, v # w PROVE Control(v)'
  BY <1>3, StepOthers DEF Base, Control, SavesOld
<1> QED
  BY <1>1, <1>2, <1>3 DEF Base

LEMMA ReplicateType ==
  ASSUME TypeOK, Replicate
  PROVE  /\ slave' \in [Key -> Rows] /\ relay' \in Seq(Key \X Rows)
         /\ Head(relay) \in Key \X Rows
<1>1. /\ Head(relay) \in Key \X Rows
      /\ Tail(relay) \in Seq(Key \X Rows)
  BY HeadTailProperties DEF Replicate, TypeOK
<1> QED
  BY <1>1 DEF Replicate, TypeOK

LEMMA BaseStep == Base /\ [Next]_vars => Base'
<1> SUFFICES ASSUME Base, [Next]_vars PROVE Base'
  OBVIOUS
<1>1. CASE UNCHANGED vars
  BY <1>1 DEF vars, Base, TypeOK, Control, SavesOld
<1>2. CASE Replicate
  BY <1>2, ReplicateType DEF Base, TypeOK, Control, SavesOld, Replicate
<1>3. ASSUME NEW k \in Key, WeedOut(k) PROVE Base'
  BY <1>3 DEF WeedOut, Cached, db, Base, TypeOK, Control, SavesOld, Rows
<1> QED
  BY <1>1, <1>2, <1>3, ReceiveBase, StepBase DEF Next

\* The tables, the cache and what the workers hold keep their types, and every
\* handler makes its calls in the order of its code.
THEOREM TypeCorrect == Spec => []TypeOK
<1>1. Base => TypeOK
  BY DEF Base
<1> QED
  BY <1>1, BaseInit, BaseStep, PTL DEF Spec

-------------------------------------------------------------------------------
(***************************************************************************)
(* The files that are only ever added.  The master writes the row of such  *)
(* a file once; the slave, the changes on their way to it, what a worker   *)
(* has read and what it is about to put in the cache all agree with it.    *)
(***************************************************************************)
CopiesOnce ==
    \A k \in WrittenOnce :
       /\ slave[k] \in {Absent, master[k]}
       /\ \A i \in 1 .. Len(relay) :
             relay[i][1] = k => relay[i][2] = master[k] /\ master[k] # Absent

WorkerOnce(w) ==
    (pc[w] # "idle" /\ Path(w) \in WrittenOnce) =>
       /\ pc[w] = "fill" => seen[w] = master[Path(w)]
       /\ pc[w] = "cache" => master[Path(w)] = New(w)
       /\ Won(w) => master[Path(w)] # Absent

Once == /\ CopiesOnce
        /\ CacheNeverWrong
        /\ \A w \in Worker : WorkerOnce(w)
        /\ AddExclusive

LEMMA OnceInit == Init => Once
<1> SUFFICES ASSUME Init PROVE Once
  OBVIOUS
<1>1. WrittenOnce \subseteq Key /\ Len(<<>>) = 0
  BY EmptySeq DEF WrittenOnce
<1>2. CopiesOnce
  BY <1>1 DEF Init, CopiesOnce
<1> QED
  BY <1>1, <1>2 DEF Init, Once, CacheNeverWrong, WorkerOnce, AddExclusive, Won

\* Only an insert writes the row of such a file, and only when there is none.
LEMMA OnceWrites ==
  ASSUME Base, NEW w \in Worker, Writes(w), NEW k \in WrittenOnce
  PROVE  \/ master'[k] = master[k]
         \/ /\ pc[w] = "insert" /\ req[w].op = "add" /\ Path(w) = k
            /\ master[k] = Absent /\ master'[k] = New(w)
<1>1. k \in Key /\ master \in [Key -> Rows]
  BY DEF WrittenOnce, Base, TypeOK
<1>2. pc[w] \in {"insert", "write", "save", "delete"}
  BY DEF Writes
<1>3. req[w] \in Request /\ Control(w)
  BY <1>2, Serving DEF Base
<1>4. /\ req[w].op \in {"update", "replace", "delete"} => Path(w) # k
      /\ req[w].ver > 0 => Versioned(req[w]) # k
  BY <1>3 DEF WrittenOnce, Path
<1>5. \A j, m : Commit(j, m) => master'[k] = IF j = k THEN m ELSE master[k]
  BY <1>1 DEF Commit
<1>6. CASE pc[w] = "insert"
  <2>1. req[w].op \in {"add", "replace"}
    BY <1>6, Serving
  <2> QED
    BY <1>4, <1>5, <1>6, <2>1 DEF Writes
<1>7. CASE pc[w] = "write"
  <2>1. req[w].op \in {"update", "replace"}
    BY <1>7, Serving
  <2> QED
    BY <1>4, <1>5, <1>7, <2>1 DEF Writes
<1>8. CASE pc[w] = "save"
  BY <1>3, <1>4, <1>5, <1>8 DEF Writes, Control, SavesOld
<1>9. CASE pc[w] = "delete"
  <2>1. req[w].op = "delete"
    BY <1>9, Serving
  <2> QED
    BY <1>4, <1>5, <1>9, <2>1 DEF Writes
<1> QED
  BY <1>2, <1>6, <1>7, <1>8, <1>9

LEMMA OnceCommit ==
  ASSUME TypeOK, CopiesOnce, NEW k \in Key, NEW m \in Rows, Commit(k, m),
         k \in WrittenOnce => master[k] = Absent /\ m # Absent
  PROVE  CopiesOnce'
<1> SUFFICES ASSUME NEW j \in WrittenOnce
             PROVE  /\ slave'[j] \in {Absent, master'[j]}
                    /\ \A i \in 1 .. Len(relay') : relay'[i][1] = j =>
                          relay'[i][2] = master'[j] /\ master'[j] # Absent
  BY DEF CopiesOnce, WrittenOnce
<1> DEFINE n == Len(relay)
<1>1. j \in Key /\ master'[j] = IF j = k THEN m ELSE master[j]
  BY DEF WrittenOnce, Commit, TypeOK
<1>2. slave'[j] = slave[j] \/ slave'[j] = master'[j]
  BY <1>1 DEF Commit, TypeOK
<1>3. /\ n \in Nat /\ Len(Append(relay, <<k, m>>)) = n + 1
      /\ \A i \in 1 .. n : Append(relay, <<k, m>>)[i] = relay[i]
      /\ Append(relay, <<k, m>>)[n + 1] = <<k, m>>
  BY LenProperties, AppendProperties DEF TypeOK
<1>4. CASE j # k
  <2>1. master'[j] = master[j] /\ slave'[j] \in {Absent, master'[j]}
    BY <1>1, <1>2, <1>4 DEF CopiesOnce
  <2>2. \A i \in 1 .. Len(relay') :
           relay'[i][1] = j => i \in 1 .. n /\ relay'[i] = relay[i]
    BY <1>3, <1>4 DEF Commit
  <2> QED
    BY <2>1, <2>2 DEF CopiesOnce
<1>5. CASE j = k
  <2>1. master[j] = Absent /\ master'[j] = m /\ m # Absent
    BY <1>1, <1>5
  <2>2. slave'[j] \in {Absent, master'[j]}
    BY <1>2, <2>1 DEF CopiesOnce
  <2>3. \A i \in 1 .. n : relay[i][1] # j
    BY <2>1 DEF CopiesOnce
  <2>4. \A i \in 1 .. Len(relay') : relay'[i][1] = j => relay'[i] = <<k, m>>
    BY <1>3, <2>3 DEF Commit
  <2> QED
    BY <2>1, <2>2, <2>4
<1> QED
  BY <1>4, <1>5

LEMMA OnceReplicate ==
  ASSUME Base, Once, Replicate
  PROVE  Once'
<1>1. /\ Head(relay) = relay[1] /\ 1 \in 1 .. Len(relay) /\ Len(relay) \in Nat
      /\ Len(Tail(relay)) = Len(relay) - 1
      /\ \A i \in 1 .. Len(Tail(relay)) : Tail(relay)[i] = relay[i + 1]
  BY HeadTailProperties, EmptySeq, LenProperties DEF Base, TypeOK, Replicate
<1>2. CopiesOnce'
  <2> SUFFICES ASSUME NEW k \in WrittenOnce
               PROVE  /\ slave'[k] \in {Absent, master[k]}
                      /\ \A i \in 1 .. Len(relay') : relay'[i][1] = k =>
                            relay'[i][2] = master[k] /\ master[k] # Absent
    BY DEF CopiesOnce, WrittenOnce, Replicate
  <2>1. slave'[k] \in {slave[k]} \cup {relay[1][2]}
           /\ (slave'[k] = slave[k] \/ relay[1][1] = k)
    BY <1>1 DEF Replicate, Base, TypeOK, WrittenOnce
  <2>2. slave'[k] \in {Absent, master[k]}
    BY <1>1, <2>1 DEF Once, CopiesOnce, Replicate, Base, TypeOK, WrittenOnce
  <2>3. \A i \in 1 .. Len(relay') : i + 1 \in 1 .. Len(relay) /\ relay'[i] = relay[i + 1]
    BY <1>1 DEF Replicate
  <2> QED
    BY <2>2, <2>3 DEF Once, CopiesOnce
<1> QED
  BY ZenonT(20), <1>2 DEF Once, Replicate, CacheNeverWrong, WrittenOnce, WorkerOnce, Won,
              AddExclusive, Path, New

\* A row of such a file stays as it was written.
LEMMA OnceKept ==
  ASSUME Base, NEW w \in Worker, Step(w), NEW k \in WrittenOnce
  PROVE  master[k] # Absent => master'[k] = master[k]
  BY StepWrites, OnceWrites DEF db

LEMMA CopiesStep ==
  ASSUME Base, Once, NEW w \in Worker, Step(w)
  PROVE  CopiesOnce'
<1>1. CASE UNCHANGED db
  BY <1>1 DEF db, Once, CopiesOnce, WrittenOnce
<1>2. CASE Writes(w)
  <2>1. TypeOK /\ CopiesOnce /\ Control(w)
    BY DEF Base, Once
  <2>2. /\ pc[w] \in {"insert", "write", "save", "delete"}
        /\ Path(w) \in Key /\ req[w] \in Request
    BY <1>2, Serving DEF Writes
  <2>3. CASE pc[w] = "insert"
    <3>1. New(w) \in Rows /\ New(w) # Absent
      BY <2>3, NewType DEF Rows
    <3> QED
      BY <1>2, <2>1, <2>2, <2>3, <3>1, OnceCommit DEF Writes
  <2>4. CASE pc[w] = "write"
    <3>1. New(w) \in Rows /\ req[w].op \in {"update", "replace"}
      BY <2>4, NewType, Serving DEF Rows
    <3>2. Path(w) \notin WrittenOnce
      BY <2>2, <3>1 DEF WrittenOnce, Path
    <3> QED
      BY <1>2, <2>1, <2>2, <2>4, <3>1, <3>2, OnceCommit DEF Writes
  <2>5. CASE pc[w] = "save"
    <3>1. req[w].ver > 0 /\ Versioned(req[w]) \in Key /\ seen[w] \in Rows
      BY <2>1, <2>2, <2>5 DEF Control, SavesOld, TypeOK
    <3>2. Versioned(req[w]) \notin WrittenOnce
      BY <2>2, <3>1 DEF WrittenOnce
    <3> QED
      BY <1>2, <2>1, <2>5, <3>1, <3>2, OnceCommit DEF Writes
  <2>6. CASE pc[w] = "delete"
    <3>1. req[w].op = "delete" /\ Absent \in Rows
      BY <2>6, Serving DEF Rows
    <3>2. Path(w) \notin WrittenOnce
      BY <2>2, <3>1 DEF WrittenOnce, Path
    <3> QED
      BY <1>2, <2>1, <2>2, <2>6, <3>1, <3>2, OnceCommit DEF Writes
  <2> QED
    BY <2>2, <2>3, <2>4, <2>5, <2>6
<1> QED
  BY <1>1, <1>2, StepWrites

\* What a handler puts in the cache: nothing, or what is in the master.
LEMMA StepCaches ==
  ASSUME Base, Once, NEW w \in Worker, Step(w),
         NEW k \in WrittenOnce, cache'[k] # cache[k]
  PROVE  cache'[k] \in {Absent, master[k]} /\ UNCHANGED db
<1>1. k \in Key /\ cache \in [Key -> Rows]
  BY DEF WrittenOnce, Base, TypeOK
<1>2. \A j, m : Cached(j, m) => (j = k /\ cache'[k] = m)
  BY <1>1 DEF Cached
<1>3. Fill(w) \/ Forget(w) \/ CacheNew(w) \/ Erase(w) \/ Clean(w)
  BY DEF Step, Look, Query, Read, Insert, Write, SaveOld, Delete, Send
<1>4. CASE Fill(w)
  <2>1. pc[w] = "fill" /\ Path(w) = k /\ cache'[k] = seen[w] /\ UNCHANGED db
    BY <1>2, <1>4 DEF Fill
  <2> QED
    BY <2>1 DEF Once, WorkerOnce
<1>5. CASE CacheNew(w)
  <2>1. pc[w] = "cache" /\ Path(w) = k /\ cache'[k] = New(w) /\ UNCHANGED db
    BY <1>2, <1>5 DEF CacheNew
  <2> QED
    BY <2>1 DEF Once, WorkerOnce
<1>6. CASE Forget(w) \/ Erase(w) \/ Clean(w)
  BY <1>2, <1>6 DEF Forget, Erase, Clean
<1> QED
  BY <1>3, <1>4, <1>5, <1>6

LEMMA CacheStep ==
  ASSUME Base, Once, NEW w \in Worker, Step(w)
  PROVE  CacheNeverWrong'
<1> SUFFICES ASSUME NEW k \in WrittenOnce
             PROVE  cache'[k] \in {Absent, master'[k]}
  BY DEF CacheNeverWrong, WrittenOnce
<1>1. CASE cache'[k] = cache[k]
  BY <1>1, OnceKept DEF Once, CacheNeverWrong
<1>2. CASE cache'[k] # cache[k]
  BY <1>2, StepCaches DEF db
<1> QED
  BY <1>1, <1>2

\* An add becomes a winner by its insert only.
LEMMA WinsByInsert ==
  ASSUME Base, NEW w \in Worker, Step(w), Won(w)'
  PROVE  /\ req'[w] = req[w] /\ req[w].op = "add"
         /\ Won(w) \/ (pc[w] = "insert" /\ Writes(w))
<1>1. pc[w] \notin {"idle", "send"}
  BY DEF Step, Look, Query, Read, Fill, Forget, Insert, Write, CacheNew,
         SaveOld, Erase, Delete, Clean, Send, Won, Base, TypeOK
<1>2. req' = req
  BY <1>1 DEF Step, Look, Query, Read, Fill, Forget, Insert, Write, CacheNew,
         SaveOld, Erase, Delete, Clean, Send
<1>3. req[w].op = "add" /\ req[w] # Absent
  BY <1>2 DEF Won
<1>4. pc[w] \in {"insert", "cache"}
  BY <1>1, <1>3 DEF Base, Control, Through
<1>5. CASE pc[w] = "insert"
  <2>1. Insert(w)
    BY <1>5 DEF Step, Look, Query, Read, Fill, Forget, Insert, Write, CacheNew,
         SaveOld, Erase, Delete, Clean, Send
  <2>2. ~Finish(w, "INSERT_FAILED", Absent)
    BY <1>2 DEF Won, Finish, Goto, Answer, Base, TypeOK
  <2> QED
    BY <1>2, <1>3, <1>5, <2>1, <2>2 DEF Insert, Statement, Writes
<1>6. CASE pc[w] = "cache"
  BY <1>2, <1>3, <1>6 DEF Won
<1> QED
  BY <1>4, <1>5, <1>6

LEMMA OthersOnce ==
  ASSUME Base, Once, NEW w \in Worker, Step(w), NEW v \in Worker, v # w
  PROVE  WorkerOnce(v)'
<1>1. /\ pc'[v] = pc[v] /\ req'[v] = req[v] /\ seen'[v] = seen[v]
      /\ Won(v)' = Won(v) /\ Path(v)' = Path(v) /\ New(v)' = New(v)
  BY StepOthers DEF Won, Path, New
<1> SUFFICES ASSUME pc[v] # "idle", Path(v) \in WrittenOnce
             PROVE  /\ pc[v] = "fill" => seen[v] = master'[Path(v)]
                    /\ pc[v] = "cache" => master'[Path(v)] = New(v)
                    /\ Won(v) => master'[Path(v)] # Absent
  BY <1>1 DEF WorkerOnce, WrittenOnce
<1>2. master[Path(v)] # Absent => master'[Path(v)] = master[Path(v)]
  BY OnceKept
<1>3. pc[v] = "fill" => seen[v] = master[Path(v)] /\ seen[v] # Absent
  BY DEF Once, WorkerOnce, Base, Control
<1>4. pc[v] = "cache" => master[Path(v)] = New(v) /\ New(v) # Absent
  BY NewType DEF Once, WorkerOnce
<1>5. Won(v) => master[Path(v)] # Absent
  BY DEF Once, WorkerOnce
<1> QED
  BY <1>2, <1>3, <1>4, <1>5

LEMMA SelfOnce ==
  ASSUME Base, Once, NEW w \in Worker, Step(w)
  PROVE  WorkerOnce(w)'
<1> SUFFICES ASSUME pc'[w] # "idle", (Path(w) \in WrittenOnce)'
             PROVE  /\ pc'[w] = "fill" => seen'[w] = master'[Path(w)']
                    /\ pc'[w] = "cache" => master'[Path(w)'] = New(w)'
                    /\ Won(w)' => master'[Path(w)'] # Absent
  BY DEF WorkerOnce
<1>1. pc[w] \notin {"idle", "send"} /\ req' = req
  BY DEF Step, Look, Query, Read, Fill, Forget, Insert, Write, CacheNew,
         SaveOld, Erase, Delete, Clean, Send, Goto, Base, TypeOK
<1>2. Path(w)' = Path(w) /\ Path(w) \in WrittenOnce /\ req[w] \in Request
  BY <1>1, Serving DEF Path, WrittenOnce
<1>3. req[w].op \notin {"update", "replace", "delete"}
  BY <1>2 DEF WrittenOnce, Path
<1>4. ASSUME pc'[w] = "fill" PROVE seen'[w] = master'[Path(w)]
  <2>1. Query(w) \/ Read(w)
    BY <1>4 DEF Step, Look, Read, Missing, Fill, Forget, Insert, Write,
         CacheNew, SaveOld, Erase, Delete, Clean, Send, Statement, Goto,
         Finish, Base, TypeOK
  <2>2. ~Read(w)
    BY <1>3, Serving DEF Read
  <2>3. slave[Path(w)] # Absent /\ seen'[w] = slave[Path(w)] /\ UNCHANGED db
    BY <1>4, <2>1, <2>2 DEF Query, Goto, Finish, Base, TypeOK
  <2> QED
    BY <1>2, <2>3 DEF Once, CopiesOnce, db
<1>5. ASSUME pc'[w] = "cache" PROVE master'[Path(w)] = New(w)'
  <2>1. Insert(w) \/ Write(w)
    BY <1>5 DEF Step, Look, Query, Read, Missing, Fill, Forget,
         CacheNew, SaveOld, Erase, Delete, Clean, Send, Statement, Goto,
         Finish, Base, TypeOK
  <2>2. ~Write(w)
    BY <1>3, Serving DEF Write
  <2>3. Commit(Path(w), New(w)) /\ UNCHANGED <<req, seen>>
    BY <1>5, <2>1, <2>2 DEF Insert, Statement, Goto, Finish, Base, TypeOK
  <2> QED
    BY <1>2, <2>3 DEF Commit, New, WrittenOnce, Base, TypeOK
<1>6. ASSUME Won(w)' PROVE master'[Path(w)] # Absent
  <2>1. CASE Won(w)
    BY <1>1, <1>2, <2>1, OnceKept DEF Once, WorkerOnce
  <2>2. CASE pc[w] = "insert" /\ Writes(w)
    <3>1. New(w) # Absent /\ master'[Path(w)] = New(w)
      BY <1>2, <2>2, NewType DEF Writes, Commit, WrittenOnce, Base, TypeOK
    <3> QED
      BY <3>1
  <2> QED
    BY <1>6, <2>1, <2>2, WinsByInsert
<1> QED
  BY <1>2, <1>4, <1>5, <1>6

LEMMA ExclusiveStep ==
  ASSUME Base, Once, NEW w \in Worker, Step(w)
  PROVE  AddExclusive'
<1>1. ASSUME NEW v \in Worker, v # w, Won(v)', Won(w)', (Path(v) \in WrittenOnce)'
      PROVE  Path(v)' # Path(w)'
  <2>1. Won(v) /\ Path(v)' = Path(v) /\ Path(v) \in WrittenOnce
    BY <1>1, StepOthers DEF Won, Path, WrittenOnce
  <2>2. Path(w)' = Path(w)
    BY <1>1, WinsByInsert DEF Path
  <2>3. master[Path(v)] # Absent
    BY <2>1 DEF Once, WorkerOnce, Won
  <2>4. CASE Won(w)
    BY <1>1, <2>1, <2>2, <2>4 DEF Once, AddExclusive
  <2>5. CASE pc[w] = "insert" /\ Writes(w)
    BY <2>1, <2>2, <2>3, <2>5 DEF Writes
  <2> QED
    BY <1>1, <2>4, <2>5, WinsByInsert
<1>2. ASSUME NEW u \in Worker, NEW v \in Worker, u # w, v # w, u # v,
             Won(u)', Won(v)', (Path(u) \in WrittenOnce)'
      PROVE  Path(u)' # Path(v)'
  <2>1. /\ Won(u) /\ Won(v) /\ Path(u)' = Path(u) /\ Path(v)' = Path(v)
        /\ Path(u) \in WrittenOnce
    BY <1>2, StepOthers DEF Won, Path, WrittenOnce
  <2> QED
    BY <1>2, <2>1 DEF Once, AddExclusive
<1> QED
  BY <1>1, <1>2 DEF AddExclusive, WrittenOnce

LEMMA OnceReceive ==
  ASSUME Base, Once, NEW w \in Worker, Receive(w)
  PROVE  Once'
<1>1. /\ pc'[w] \notin {"fill", "cache", "send"}
      /\ \A v \in Worker : v # w => pc'[v] = pc[v] /\ req'[v] = req[v]
      /\ UNCHANGED <<db, cache, seen, answer>>
  BY DEF Receive, Goto, First, Op, Base, TypeOK
<1>2. \A v \in Worker : Won(v)' => v # w /\ Won(v) /\ Path(v)' = Path(v)
  BY <1>1 DEF Won, Path
<1>3. ASSUME NEW v \in Worker, v # w PROVE WorkerOnce(v)'
  <2>1. /\ pc'[v] = pc[v] /\ req'[v] = req[v] /\ seen' = seen /\ master' = master
        /\ Won(v)' => Won(v)
    BY <1>1, <1>2, <1>3 DEF db
  <2>2. Path(v)' = Path(v) /\ New(v)' = New(v) /\ WrittenOnce' = WrittenOnce
    BY <2>1 DEF Path, New, WrittenOnce
  <2> QED
    BY <2>1, <2>2 DEF Once, WorkerOnce
<1>4. WorkerOnce(w)'
  BY <1>1, <1>2 DEF WorkerOnce
<1>5. CopiesOnce' /\ CacheNeverWrong'
  BY <1>1 DEF Once, CopiesOnce, CacheNeverWrong, WrittenOnce, db
<1>6. AddExclusive'
  BY <1>2 DEF Once, AddExclusive, WrittenOnce
<1> QED
  BY <1>3, <1>4, <1>5, <1>6 DEF Once

\* A step of neither the workers nor the database.
LEMMA WorkersSame ==
  ASSUME Once, UNCHANGED <<db, pc, req, seen, answer>>
  PROVE  CopiesOnce' /\ (\A w \in Worker : WorkerOnce(w)') /\ AddExclusive'
<1>1. WrittenOnce' = WrittenOnce
  BY DEF WrittenOnce
<1>2. CopiesOnce'
  BY <1>1 DEF Once, CopiesOnce, db
<1>3. \A w \in Worker : Won(w)' = Won(w) /\ Path(w)' = Path(w) /\ New(w)' = New(w)
  BY DEF Won, Path, New
<1>4. \A w \in Worker : WorkerOnce(w)'
  BY <1>1, <1>3 DEF Once, WorkerOnce, db
<1>5. AddExclusive'
  BY <1>1, <1>3 DEF Once, AddExclusive
<1> QED
  BY <1>2, <1>4, <1>5

LEMMA OnceStep == Base /\ Once /\ [Next]_vars => Once'
<1> SUFFICES ASSUME Base, Once, [Next]_vars PROVE Once'
  OBVIOUS
<1>1. CASE UNCHANGED vars
  BY <1>1, WorkersSame DEF vars, db, Once, CacheNeverWrong, WrittenOnce
<1>2. ASSUME NEW w \in Worker, Step(w) PROVE Once'
  BY <1>2, CopiesStep, CacheStep, OthersOnce, SelfOnce, ExclusiveStep DEF Once
<1>3. ASSUME NEW k \in Key, WeedOut(k) PROVE Once'
  <2>1. CacheNeverWrong'
    BY <1>3 DEF WeedOut, Cached, db, Once, CacheNeverWrong, WrittenOnce, Base,
                TypeOK
  <2> QED
    BY <1>3, <2>1, WorkersSame DEF WeedOut, Once
<1> QED
  BY <1>1, <1>2, <1>3, OnceReceive, OnceReplicate DEF Next

\* Types, control and the files written once, in every reachable state.
THEOREM Invariance == Spec => [](Base /\ Once)
  BY BaseInit, OnceInit, BaseStep, OnceStep, PTL DEF Spec

\* Whatever the workers interleave, statements fail after taking effect and
\* the slave lags behind, the cache never holds a wrong row of a file that is
\* only added: add_meta inserts before it caches, and get_db_meta caches what
\* the slave said, which is never out of date for such a file.
THEOREM NeverWrong == Spec => []CacheNeverWrong
<1>1. Once => CacheNeverWrong
  BY DEF Once
<1> QED
  BY <1>1, Invariance, PTL

\* Two overlapping add_meta of one path are never both answered with success:
\* the unique key of the table decides, not the cache.
THEOREM AddsExclusive == Spec => []AddExclusive
<1>1. Once => AddExclusive
  BY DEF Once
<1> QED
  BY <1>1, Invariance, PTL

\* Once it is in the master, the row of a file that is only added stays there
\* as it is, whatever requests for other files and versions do.
THEOREM RowsKept ==
  Spec => [][\A k \in WrittenOnce :
               master[k] # Absent => master'[k] = master[k]]_vars
<1> DEFINE Kept == \A k \in WrittenOnce :
                     master[k] # Absent => master'[k] = master[k]
<1>1. ASSUME Base, [Next]_vars PROVE [Kept]_vars
  <2>1. CASE UNCHANGED vars
    BY <2>1
  <2>2. ASSUME NEW w \in Worker, Step(w) PROVE Kept
    BY <1>1, <2>2, OnceKept
  <2>3. CASE Replicate \/ \E k \in Key : WeedOut(k)
    BY <2>3 DEF Replicate, WeedOut, db
  <2>4. ASSUME NEW w \in Worker, Receive(w) PROVE Kept
    BY <2>4 DEF Receive, db
  <2> QED
    BY <1>1, <2>1, <2>2, <2>3, <2>4 DEF Next
<1> QED
  BY <1>1, BaseInit, BaseStep, PTL DEF Spec

-------------------------------------------------------------------------------
(***************************************************************************)
(* Orderly steps.  While no request overlaps one that changes a row it     *)
(* uses, and none of the other harmful events of Orderly happens, the      *)
(* cache agrees with the database and the service implements MetaStore,    *)
(* for every number of workers, every lag and with failing statements.     *)
(***************************************************************************)
\* What a worker has read, found missing or written is what is there.
WorkerOrderly(w) ==
    /\ pc[w] \in {"fill", "write"} => seen[w] = master[Path(w)]
    /\ pc[w] = "forget" => Faults \/ master[Path(w)] = Absent
    /\ (pc[w] = "insert" /\ req[w].op = "replace") => Faults \/ master[Path(w)] = Absent
    /\ pc[w] = "cache" => master[Path(w)] = New(w)
    /\ pc[w] = "delete" => cache[Path(w)] = Absent

Pending(k) == \E w \in Worker : pc[w] = "cache" /\ Path(w) = k

Coherent ==
    /\ Apart
    /\ \A k \in Key : cache[k] \in {Absent, master[k]} \/ Pending(k)
    /\ \A w \in Worker : WorkerOrderly(w)

LEMMA CoherentInit == Init => Coherent
  BY DEF Init, Coherent, WorkerOrderly, Apart, Busy

\* The rows a request uses, and those it changes.
LEMMA RowsOf ==
  ASSUME Base, NEW w \in Worker, pc[w] # "idle"
  PROVE  /\ w \in Busy /\ req[w] \in Request /\ Path(w) \in Key
         /\ Path(w) = req[w].path /\ Path(w) \in Uses(req[w])
         /\ pc[w] \in {"read", "insert", "write", "cache", "save", "erase", "delete"} =>
               Changes(req[w]) = Uses(req[w])
         /\ pc[w] = "save" => Versioned(req[w]) \in Changes(req[w]) /\ Versioned(req[w]) \in Key
<1>1. req[w] \in Request /\ req[w] # Absent /\ Control(w)
  BY DEF Base, TypeOK, Control
<1>2. Path(w) = req[w].path /\ Path(w) \in Key
  BY <1>1 DEF Path
<1>3. pc[w] \in {"read", "insert", "write", "cache", "save", "erase", "delete"} =>
         req[w].op \notin {"get", "clean"}
  BY Serving
<1>4. pc[w] = "save" => req[w].ver > 0
  BY <1>1 DEF Control, SavesOld
<1> QED
  BY <1>1, <1>2, <1>3, <1>4 DEF Busy, Uses, Changes

\* Of two busy workers none changes a row of the other.
LEMMA TwoApart ==
  ASSUME Base, Coherent, NEW w \in Worker, NEW v \in Worker, v # w,
         pc[w] # "idle", pc[v] # "idle"
  PROVE  /\ Path(v) \notin Changes(req[w])
         /\ Changes(req[v]) \cap Uses(req[w]) = {}
         /\ Changes(req[w]) \cap Uses(req[v]) = {}
  BY RowsOf DEF Coherent, Apart

\* A step changes only rows its request changes, and the entry of its path.
LEMMA StepWhere ==
  ASSUME Base, NEW w \in Worker, Step(w), NEW j \in Key
  PROVE  /\ pc[w] # "idle"
         /\ j \notin Changes(req[w]) => master'[j] = master[j]
         /\ j # Path(w) => cache'[j] = cache[j]
         /\ UNCHANGED db \/ UNCHANGED cache
<1>1. pc[w] # "idle"
  BY DEF Step, Look, Query, Read, Fill, Forget, Insert, Write, CacheNew, SaveOld,
         Erase, Delete, Clean, Send
<1>2. j \notin Changes(req[w]) => master'[j] = master[j]
  <2>1. CASE UNCHANGED db
    BY <2>1 DEF db
  <2>2. CASE Writes(w)
    <3>1. \E k \in Changes(req[w]) : \E m : Commit(k, m)
      BY <1>1, <2>2, RowsOf DEF Writes
    <3> QED
      BY <3>1 DEF Commit, Base, TypeOK
  <2> QED
    BY <2>1, <2>2, StepWrites
<1>3. j # Path(w) => cache'[j] = cache[j]
  <2>1. UNCHANGED cache \/ \E m : Cached(Path(w), m)
    BY DEF Step, Look, Query, Read, Fill, Forget, Insert, Write, CacheNew, SaveOld,
           Erase, Delete, Clean, Send
  <2> QED
    BY <2>1 DEF Cached, Base, TypeOK
<1>4. UNCHANGED db \/ UNCHANGED cache
  BY DEF Step, Look, Query, Read, Fill, Forget, Insert, Write, CacheNew, SaveOld,
         Erase, Delete, Clean, Send, Statement
<1> QED
  BY <1>1, <1>2, <1>3, <1>4

LEMMA OthersOrderly ==
  ASSUME Base, Coherent, NEW w \in Worker, Step(w), NEW v \in Worker, v # w
  PROVE  WorkerOrderly(v)'
<1>1. /\ pc'[v] = pc[v] /\ Path(v)' = Path(v) /\ New(v)' = New(v)
      /\ seen'[v] = seen[v] /\ req'[v] = req[v]
  BY StepOthers DEF Path, New
<1>2. CASE pc[v] = "idle"
  BY <1>1, <1>2 DEF WorkerOrderly
<1>3. CASE pc[v] # "idle"
  <2>1. Path(v) \in Key /\ pc[w] # "idle"
    BY <1>3, RowsOf, StepWhere
  <2>2. master'[Path(v)] = master[Path(v)]
    BY <1>3, <2>1, TwoApart, StepWhere
  <2>3. pc[v] = "delete" => cache'[Path(v)] = cache[Path(v)]
    <3>1. pc[v] = "delete" => Path(v) # Path(w)
      BY <1>3, <2>1, TwoApart, RowsOf
    <3> QED
      BY <2>1, <3>1, StepWhere
  <2> QED
    BY <1>1, <2>2, <2>3 DEF WorkerOrderly, Coherent
<1> QED
  BY <1>2, <1>3

\* What a worker reads is what is there; what it caches is, too.
LEMMA SelfOrderly ==
  ASSUME Base, Coherent, Orderly, NEW w \in Worker, Step(w)
  PROVE  WorkerOrderly(w)'
<1>1. pc[w] # "idle" /\ WorkerOrderly(w)
  BY StepWhere DEF Coherent, Step, Look, Query, Read, Fill, Forget, Insert, Write,
         CacheNew, SaveOld, Erase, Delete, Clean, Send
<1>2. req[w] \in Request /\ Path(w) \in Key /\ master \in [Key -> Rows] /\ cache \in [Key -> Rows]
  BY <1>1, RowsOf DEF Base, TypeOK
<1>3. CASE Look(w) \/ Forget(w) \/ CacheNew(w) \/ SaveOld(w) \/ Delete(w) \/ Clean(w) \/ Send(w)
  <2>1. pc'[w] \in {"query", "send", "save", "idle"}
    BY <1>3 DEF Look, Forget, CacheNew, SaveOld, Delete, Clean, Send, Statement,
                Goto, Finish, Base, TypeOK
  <2> QED
    BY <2>1 DEF WorkerOrderly
<1>4. CASE Query(w)
  <2>1. /\ Path(w)' = Path(w) /\ master' = master /\ pc[w] = "query"
        /\ \/ pc'[w] = "fill" /\ seen'[w] = slave[Path(w)]
           \/ pc'[w] = "send"
    BY <1>4 DEF Query, Goto, Finish, Base, TypeOK, Path, db
  <2>2. slave[Path(w)] = master[Path(w)]
    BY <2>1 DEF Orderly, Leaves
  <2> QED
    BY <2>1, <2>2 DEF WorkerOrderly
<1>5. CASE Read(w)
  <2>1. /\ Path(w)' = Path(w) /\ master' = master
        /\ \/ pc'[w] = "fill" /\ seen'[w] = master[Path(w)]
           \/ pc'[w] \in {"forget", "insert"} /\ (Faults \/ master[Path(w)] = Absent)
    BY <1>5 DEF Read, Missing, Goto, Base, TypeOK, Path, db
  <2> QED
    BY <2>1 DEF WorkerOrderly
<1>6. CASE Fill(w)
  <2>1. /\ Path(w)' = Path(w) /\ master' = master /\ seen' = seen /\ pc[w] = "fill"
        /\ pc'[w] \in {"write", "send"}
    BY <1>6 DEF Fill, Goto, Finish, Base, TypeOK, Path, db
  <2> QED
    BY <1>1, <2>1 DEF WorkerOrderly
<1>7. CASE Insert(w) \/ Write(w)
  <2>1. Path(w)' = Path(w) /\ New(w)' = New(w)
    BY <1>7 DEF Insert, Write, Path, New
  <2>2. \/ pc'[w] = "send"
        \/ pc'[w] = "cache" /\ Commit(Path(w), New(w))
        \/ pc'[w] = "cache" /\ pc[w] = "write" /\ master[Path(w)] = Absent
    BY <1>7 DEF Insert, Write, Statement, Goto, Finish, Base, TypeOK
  <2>3. pc[w] = "write" => master[Path(w)] # Absent
    BY <1>1 DEF WorkerOrderly, Base, Control
  <2>4. Commit(Path(w), New(w)) => master'[Path(w)] = New(w)
    BY <1>2 DEF Commit
  <2> QED
    BY <2>1, <2>2, <2>3, <2>4 DEF WorkerOrderly
<1>8. CASE Erase(w)
  BY <1>2, <1>8 DEF Erase, Cached, Goto, WorkerOrderly, Base, TypeOK, Path
<1> QED
  BY <1>3, <1>4, <1>5, <1>6, <1>7, <1>8 DEF Step

\* A row that is changed is not cached, or its handler is about to cache it.
LEMMA RowChanged ==
  ASSUME Base, Coherent, Orderly, NEW w \in Worker, Step(w), NEW k \in Key,
         master'[k] # master[k]
  PROVE  cache'[k] = Absent \/ (pc'[w] = "cache" /\ Path(w)' = k)
<1>1. /\ cache' = cache /\ Writes(w) /\ pc[w] # "idle"
      /\ master \in [Key -> Rows] /\ WorkerOrderly(w)
  BY StepWhere, StepWrites DEF db, Base, TypeOK, Coherent
<1>2. /\ Path(w) \in Key /\ req[w] \in Request
      /\ pc[w] = "save" => Versioned(req[w]) \in Key
  BY <1>1, RowsOf
<1>3. \A j \in Key : \A m : Commit(j, m) => j = k
  BY <1>1 DEF Commit
<1>4. CASE pc[w] = "insert"
  <2>1. Path(w) = k /\ master[k] = Absent
    BY <1>1, <1>2, <1>3, <1>4 DEF Writes
  <2>2. ~ Pending(k)
    <3> SUFFICES ASSUME NEW v \in Worker, pc[v] = "cache", Path(v) = k
                 PROVE  FALSE
      BY DEF Pending
    <3>1. Path(v) \in Changes(req[w])
      BY <1>1, <1>4, <2>1, RowsOf
    <3> QED
      BY <1>1, <1>4, <3>1, TwoApart
  <2> QED
    BY <1>1, <2>1, <2>2 DEF Coherent
<1>5. CASE pc[w] = "write"
  <2>1. Path(w) = k /\ Write(w)
    BY <1>1, <1>2, <1>3, <1>5
       DEF Writes, Step, Look, Query, Read, Fill, Forget, Insert, CacheNew, SaveOld,
           Erase, Delete, Clean, Send
  <2>2. pc'[w] \in {"cache", "send"} /\ Path(w)' = Path(w)
    BY <2>1 DEF Write, Statement, Goto, Finish, Base, TypeOK, Path
  <2>3. pc'[w] # "send"
    BY <1>5 DEF Orderly, Leaves
  <2> QED
    BY <2>1, <2>2, <2>3
<1>6. CASE pc[w] = "save"
  <2>1. Versioned(req[w]) = k /\ SaveOld(w)
    BY <1>1, <1>2, <1>3, <1>6
       DEF Writes, Step, Look, Query, Read, Fill, Forget, Insert, Write, CacheNew,
           Erase, Delete, Clean, Send
  <2>2. pc'[w] = "send"
    BY <2>1 DEF SaveOld, Statement, Goto, Finish, Base, TypeOK
  <2> QED
    BY <1>1, <1>6, <2>1, <2>2 DEF Orderly, Leaves
<1>7. CASE pc[w] = "delete"
  <2>1. Path(w) = k
    BY <1>1, <1>2, <1>3, <1>7 DEF Writes
  <2> QED
    BY <1>1, <1>7, <2>1 DEF WorkerOrderly
<1> QED
  BY <1>1, <1>4, <1>5, <1>6, <1>7 DEF Writes

\* What is cached is in the master.
LEMMA EntryChanged ==
  ASSUME Base, Coherent, NEW w \in Worker, Step(w), NEW k \in Key,
         master'[k] = master[k]
  PROVE  cache'[k] \in {Absent, master'[k]} \/ Pending(k)'
<1>1. /\ pc[w] # "idle" /\ WorkerOrderly(w) /\ cache \in [Key -> Rows]
      /\ cache[k] \in {Absent, master[k]} \/ Pending(k)
  BY StepWhere DEF Coherent, Base, TypeOK
<1>2. \A j, m : Cached(j, m) => (j = k => cache'[k] = m)
  BY <1>1 DEF Cached
<1>3. CASE cache'[k] # cache[k]
  <2>1. Path(w) = k
    BY <1>3, StepWhere
  <2>2. \/ Fill(w) \/ Forget(w) \/ CacheNew(w) \/ Erase(w) \/ Clean(w)
    BY <1>3 DEF Step, Look, Query, Read, Insert, Write, SaveOld, Delete, Send
  <2>3. CASE Fill(w)
    BY <1>1, <1>2, <2>1, <2>3 DEF Fill, WorkerOrderly
  <2>4. CASE CacheNew(w)
    BY <1>1, <1>2, <2>1, <2>4 DEF CacheNew, WorkerOrderly
  <2>5. CASE Forget(w) \/ Erase(w) \/ Clean(w)
    BY <1>2, <2>1, <2>5 DEF Forget, Erase, Clean
  <2> QED
    BY <2>2, <2>3, <2>4, <2>5
<1>4. CASE cache'[k] = cache[k] /\ Pending(k)
  <2>1. PICK v \in Worker : pc[v] = "cache" /\ Path(v) = k
    BY <1>4 DEF Pending
  <2>2. CASE v # w
    <3>1. pc'[v] = "cache" /\ Path(v)' = k
      BY <2>1, <2>2, StepOthers DEF Path
    <3> QED
      BY <3>1 DEF Pending
  <2>3. CASE v = w
    <3>1. CacheNew(w)
      BY <2>1, <2>3 DEF Step, Look, Query, Read, Fill, Forget, Insert, Write, SaveOld,
                        Erase, Delete, Clean, Send
    <3>2. cache'[k] = New(w) /\ master[k] = New(w)
      BY <1>1, <1>2, <2>1, <2>3, <3>1 DEF CacheNew, WorkerOrderly
    <3> QED
      BY <3>2
  <2> QED
    BY <2>2, <2>3
<1> QED
  BY <1>1, <1>3, <1>4

LEMMA CoherentStep ==
  ASSUME Base, Coherent, [Next /\ Orderly]_vars
  PROVE  Coherent'
<1>1. CASE UNCHANGED vars
  BY ZenonT(20), <1>1 DEF vars, Coherent, Apart, Busy, WorkerOrderly, Pending, Path, New
<1> SUFFICES ASSUME Next, Orderly PROVE Coherent'
  BY <1>1
<1>2. Apart'
  BY DEF Orderly
<1>3. ASSUME NEW w \in Worker, Step(w) PROVE Coherent'
  <2>1. \A v \in Worker : WorkerOrderly(v)'
    BY <1>3, OthersOrderly, SelfOrderly
  <2>2. ASSUME NEW k \in Key
        PROVE  cache'[k] \in {Absent, master'[k]} \/ Pending(k)'
    <3>1. (pc'[w] = "cache" /\ Path(w)' = k) => Pending(k)'
      BY DEF Pending
    <3> QED
      BY <1>3, <3>1, RowChanged, EntryChanged
  <2> QED
    BY <1>2, <2>1, <2>2 DEF Coherent
<1>4. ASSUME NEW w \in Worker, Receive(w) PROVE Coherent'
  <2>1. /\ pc[w] = "idle" /\ UNCHANGED <<db, cache, seen>>
        /\ pc'[w] \in {"insert", "look", "read", "erase", "clean"}
        /\ pc'[w] = "insert" => req'[w].op = "add"
        /\ \A v \in Worker : v # w => pc'[v] = pc[v] /\ req'[v] = req[v]
    BY <1>4 DEF Receive, Goto, First, Op, Base, TypeOK
  <2>2. ASSUME NEW v \in Worker PROVE WorkerOrderly(v)'
    <3>1. CASE v = w
      BY <2>1, <3>1 DEF WorkerOrderly
    <3>2. CASE v # w
      BY <2>1, <3>2 DEF WorkerOrderly, Coherent, Path, New, db
    <3> QED
      BY <3>1, <3>2
  <2>3. \A k : Pending(k) => Pending(k)'
    BY <2>1 DEF Pending, Path
  <2> QED
    BY <1>2, <2>1, <2>2, <2>3 DEF Coherent, db
<1>5. CASE Replicate
  BY <1>2, <1>5 DEF Replicate, Coherent, WorkerOrderly, Pending, Path, New
<1>6. ASSUME NEW k \in Key, WeedOut(k) PROVE Coherent'
  <2>1. /\ UNCHANGED <<db, pc, req, seen>>
        /\ \A j \in Key : cache'[j] \in {Absent, cache[j]}
    BY <1>6 DEF WeedOut, Cached, Base, TypeOK
  <2>2. \A j : Pending(j)' = Pending(j)
    BY <2>1 DEF Pending, Path
  <2>3. \A w \in Worker : /\ Path(w)' = Path(w) /\ New(w)' = New(w)
                          /\ pc[w] = "delete" => Path(w) \in Key
    BY <2>1, Serving DEF Path, New
  <2>4. \A w \in Worker : WorkerOrderly(w)'
    BY <2>1, <2>3 DEF Coherent, WorkerOrderly, db
  <2> QED
    BY <1>2, <2>1, <2>2, <2>4 DEF Coherent, db
<1> QED
  BY <1>3, <1>4, <1>5, <1>6 DEF Next

LEMMA CoherentSays ==
  ASSUME Base, Coherent
  PROVE  CacheCoherent
<1> SUFFICES ASSUME NEW k \in Key, \A w \in Busy : k \notin Changes(req[w])
             PROVE  cache[k] \in {Absent, master[k]}
  BY DEF CacheCoherent
<1>1. ~ Pending(k)
  <2> SUFFICES ASSUME NEW w \in Worker, pc[w] = "cache", Path(w) = k
               PROVE  FALSE
    BY DEF Pending
  <2>1. w \in Busy /\ Path(w) \in Changes(req[w])
    BY RowsOf
  <2> QED
    BY <2>1
<1> QED
  BY <1>1 DEF Coherent

\* The cache agrees with the database about every row no request is changing,
\* for every number of workers, lag and failing statement, as long as none of
\* the four events of Orderly happens: overlapping changes, a query of a slave
\* that is behind, an update reported as failed that took effect, and an old
\* version that is cached when it is saved, or not saved.
THEOREM OrderlyCoherence == OrderlySpec => []CacheCoherent
<1>1. Base /\ [Next /\ Orderly]_vars => Base'
  BY BaseStep
<1>2. Base /\ Coherent /\ [Next /\ Orderly]_vars => Coherent'
  BY CoherentStep
<1>3. Base /\ Coherent => CacheCoherent
  BY CoherentSays
<1> QED
  BY <1>1, <1>2, <1>3, BaseInit, CoherentInit, PTL DEF OrderlySpec

-------------------------------------------------------------------------------
(***************************************************************************)
(* The service implements MetaStore, step by step.  What its clients see   *)
(* of the store is the master, but for the versions workers still have to  *)
(* save; no two workers owe the same one.                                  *)
(***************************************************************************)
SettledSays ==
    /\ Settled \in [Key -> Rows]
    /\ \A k \in Key : \/ \E w \in Owing : Versioned(req[w]) = k /\ Settled[k] = seen[w]
                      \/ /\ \A w \in Owing : Versioned(req[w]) # k
                         /\ Settled[k] = master[k]
    /\ \A v, w \in Owing : v # w => Versioned(req[v]) # Versioned(req[w])

LEMMA OwesOne ==
  ASSUME Base, Coherent, NEW w \in Worker, w \in Owing
  PROVE  /\ pc[w] # "idle" /\ Versioned(req[w]) \in Key
         /\ Versioned(req[w]) \in Changes(req[w])
<1>1. pc[w] \in {"cache", "save"} /\ req[w] \in Request /\ req[w].op = "replace" /\ req[w].ver > 0
  BY RowsOf DEF Owing, SavesOld
<1> QED
  BY <1>1 DEF Uses, Changes

LEMMA SettledNow == Base /\ Coherent => SettledSays
<1> SUFFICES ASSUME Base, Coherent PROVE SettledSays
  OBVIOUS
<1>1. Owing \subseteq Worker /\ seen \in [Worker -> Rows] /\ master \in [Key -> Rows]
  BY DEF Owing, Base, TypeOK
<1>2. \A v, w \in Owing : v # w => Versioned(req[v]) # Versioned(req[w])
  <2> SUFFICES ASSUME NEW v \in Owing, NEW w \in Owing, v # w,
                      Versioned(req[v]) = Versioned(req[w])
               PROVE  FALSE
    OBVIOUS
  <2>1. v \in Worker /\ w \in Worker
    BY <1>1
  <2>2. Versioned(req[v]) \in Changes(req[v]) /\ Versioned(req[w]) \in Changes(req[w])
    BY <2>1, OwesOne
  <2>3. pc[v] # "idle" /\ pc[w] # "idle"
    BY <2>1, OwesOne
  <2>4. Changes(req[v]) \subseteq Uses(req[v])
    BY DEF Changes
  <2>5. Changes(req[w]) \cap Uses(req[v]) = {}
    BY <2>1, <2>3, TwoApart
  <2> QED
    BY <2>2, <2>4, <2>5
<1>3. ASSUME NEW k \in Key
      PROVE  /\ Settled[k] \in Rows
             /\ \/ \E w \in Owing : Versioned(req[w]) = k /\ Settled[k] = seen[w]
                \/ /\ \A w \in Owing : Versioned(req[w]) # k
                   /\ Settled[k] = master[k]
  <2>1. CASE \E w \in Owing : Versioned(req[w]) = k
    <3>1. PICK w \in Owing : w = CHOOSE v \in Owing : Versioned(req[v]) = k
      BY <2>1
    <3>2. Versioned(req[w]) = k /\ Settled[k] = seen[w]
      BY <2>1, <3>1 DEF Settled
    <3> QED
      BY <1>1, <3>2
  <2>2. CASE \A w \in Owing : Versioned(req[w]) # k
    BY <1>1, <2>2 DEF Settled
  <2> QED
    BY <2>1, <2>2
<1>4. Settled \in [Key -> Rows]
  BY <1>3 DEF Settled
<1> QED
  BY <1>2, <1>3, <1>4 DEF SettledSays

LEMMA SettledNext == (Base /\ Coherent)' => SettledSays'
  BY SettledNow, PTL

\* What one worker makes of the row k in the eyes of the clients.
SettledBy(w, k) == IF w \in Owing /\ Versioned(req[w]) = k THEN seen[w] ELSE master[k]

\* A step of w is seen only in the rows of its request.
LEMMA SettledElsewhere ==
  ASSUME Base, Coherent, Base', Coherent', NEW w \in Worker, Step(w),
         NEW k \in Key, k \notin Uses(req[w])
  PROVE  Settled'[k] = Settled[k]
<1>1. master'[k] = master[k]
  BY StepWhere DEF Changes
<1>2. w \in Owing => Versioned(req[w]) # k
  BY OwesOne DEF Changes
<1>3. (w \in Owing)' => Versioned(req'[w]) # k
  <2>1. (w \in Owing)' => req'[w] = req[w] /\ req[w].ver > 0
    BY DEF Owing, Step, Look, Query, Read, Fill, Forget, Insert, Write, CacheNew, SaveOld,
           Erase, Delete, Clean, Send, Goto, Base, TypeOK, SavesOld
  <2> QED
    BY <2>1 DEF Uses
<1>4. \A v \in Worker : v # w => /\ (v \in Owing)' = (v \in Owing)
                                 /\ seen'[v] = seen[v] /\ req'[v] = req[v]
  BY StepOthers DEF Owing, SavesOld
<1>5. SettledSays /\ SettledSays' /\ Owing \subseteq Worker /\ Owing' \subseteq Worker
  BY SettledNow, SettledNext DEF Owing
<1>6. \A v \in Worker : Versioned(req[v])' = Versioned(req'[v])
  BY DEF Versioned
<1> QED
  BY <1>1, <1>2, <1>3, <1>4, <1>5, <1>6 DEF SettledSays

LEMMA SettledHere ==
  ASSUME Base, Coherent, Base', Coherent', NEW w \in Worker, Step(w),
         NEW k \in Key, k \in Uses(req[w])
  PROVE  Settled[k] = SettledBy(w, k) /\ Settled'[k] = SettledBy(w, k)'
<1>1. \A v \in Worker : v # w => /\ (v \in Owing)' = (v \in Owing)
                                 /\ seen'[v] = seen[v] /\ req'[v] = req[v]
  BY StepOthers DEF Owing, SavesOld
<1>2. \A v \in Worker : v # w /\ v \in Owing => Versioned(req[v]) # k
  BY OwesOne, StepWhere, TwoApart
<1>3. SettledSays /\ SettledSays' /\ Owing \subseteq Worker /\ Owing' \subseteq Worker
  BY SettledNow, SettledNext DEF Owing
<1>4. \A v \in Worker : Versioned(req[v])' = Versioned(req'[v])
  BY DEF Versioned
<1> QED
  BY <1>1, <1>2, <1>3, <1>4 DEF SettledSays, SettledBy

LEMMA StepBusy ==
  ASSUME NEW w \in Worker, Step(w)
  PROVE  pc[w] # "idle"
  BY DEF Step, Look, Query, Read, Fill, Forget, Insert, Write, CacheNew, SaveOld,
         Erase, Delete, Clean, Send

\* The row of its path is what the master holds, for every busy worker.
LEMMA SettledPath ==
  ASSUME Base, Coherent, Base', Coherent', NEW w \in Worker, Step(w)
  PROVE  Settled[Path(w)] = master[Path(w)]
<1>1. pc[w] # "idle" /\ Path(w) \in Key /\ Path(w) \in Uses(req[w])
      /\ Path(w) = req[w].path /\ req[w] \in Request
  BY RowsOf, StepBusy
<1>2. w \in Owing => Versioned(req[w]) # Path(w)
  BY <1>1 DEF Owing, SavesOld
<1> QED
  BY <1>1, <1>2, SettledHere DEF SettledBy

\* How clients see a step of w: the function G, when it is right at the rows
\* of the request.
LEMMA SettledIs ==
  ASSUME Base, Coherent, Base', Coherent', NEW w \in Worker, Step(w),
         NEW G \in [Key -> Rows],
         \A k \in Key : G[k] = IF k \in Uses(req[w]) THEN SettledBy(w, k)' ELSE Settled[k]
  PROVE  Settled' = G
<1>1. \A k \in Key : Settled'[k] = G[k]
  BY SettledElsewhere, SettledHere
<1>2. Settled' \in [Key -> Rows]
  BY SettledNext DEF SettledSays
<1> QED
  BY <1>1, <1>2

LEMMA SettledStays ==
  ASSUME Base, Coherent, Base', Coherent', NEW w \in Worker, Step(w),
         \A k \in Key : k \in Uses(req[w]) => SettledBy(w, k)' = SettledBy(w, k)
  PROVE  Settled' = Settled
<1>1. Settled \in [Key -> Rows]
  BY SettledNow DEF SettledSays
<1>2. \A k \in Key : Settled[k] = IF k \in Uses(req[w]) THEN SettledBy(w, k)' ELSE Settled[k]
  BY SettledHere
<1> QED
  BY <1>1, <1>2, SettledIs

\* A row written while nothing is owed.
LEMMA SettledPut ==
  ASSUME Base, Coherent, Base', Coherent', NEW w \in Worker, Step(w),
         w \notin Owing, (w \notin Owing)', NEW m \in Rows,
         master' = [master EXCEPT ![Path(w)] = m]
  PROVE  Settled' = [Settled EXCEPT ![Path(w)] = m]
<1>1. Settled \in [Key -> Rows] /\ master \in [Key -> Rows] /\ Path(w) \in Key
      /\ Path(w) \in Uses(req[w])
  BY SettledNow, RowsOf, StepWhere DEF SettledSays, Base, TypeOK
<1> DEFINE G == [Settled EXCEPT ![Path(w)] = m]
<1>2. G \in [Key -> Rows]
  BY <1>1
<1>3. ASSUME NEW k \in Key, k \in Uses(req[w]) PROVE G[k] = SettledBy(w, k)'
  <2>1. Settled[k] = SettledBy(w, k)
    BY <1>3, SettledHere
  <2>2. Settled[k] = master[k] /\ SettledBy(w, k)' = master'[k]
    BY <2>1 DEF SettledBy
  <2> QED
    BY <1>1, <2>2
<1>4. \A k \in Key : k \notin Uses(req[w]) => G[k] = Settled[k]
  BY <1>1
<1> HIDE DEF G
<1>5. Settled' = G
  BY <1>2, <1>3, <1>4, SettledIs
<1> QED
  BY <1>5 DEF G

\* The decisions of the others stay.
LEMMA OthersDecide ==
  ASSUME Base, NEW w \in Worker, Step(w), NEW a, Decided(w)' = a
  PROVE  [v \in Worker |-> Decided(v)]' = [[v \in Worker |-> Decided(v)] EXCEPT ![w] = a]
<1>1. \A v \in Worker : v # w => Decided(v)' = Decided(v)
  BY StepOthers DEF Decided
<1> QED
  BY <1>1

\* A step clients do not see: store, requests and decisions stay.
LEMMA Stutter ==
  ASSUME Base, Coherent, Base', Coherent', NEW w \in Worker, Step(w), req' = req,
         Decided(w)' = Decided(w),
         \A k \in Key : k \in Uses(req[w]) => SettledBy(w, k)' = SettledBy(w, k)
  PROVE  UNCHANGED Client!vars
<1>1. Settled' = Settled
  BY SettledStays
<1>2. \A v \in Worker : Decided(v)' = Decided(v)
  BY StepOthers DEF Decided
<1>3. [v \in Worker |-> Decided(v)]' = [v \in Worker |-> Decided(v)]
  BY <1>2
<1> QED
  BY <1>1, <1>3 DEF Client!vars

LEMMA RefineInit == Init => Client!Init
<1> SUFFICES ASSUME Init PROVE Client!Init
  OBVIOUS
<1>1. Owing = {}
  BY DEF Init, Owing
<1>2. Settled = [k \in Key |-> Absent]
  BY <1>1 DEF Init, Settled
<1>3. \A w \in Worker : Decided(w) = Absent
  BY DEF Init, Decided
<1> QED
  BY <1>2, <1>3 DEF Init, Client!Init

LEMMA InvisibleSteps ==
  ASSUME Base, Coherent, Base', Coherent', Orderly, NEW w \in Worker, Step(w),
         \/ Look(w) /\ cache[Path(w)] = Absent
         \/ Read(w) \/ Fill(w) \/ CacheNew(w) \/ SaveOld(w) \/ Erase(w)
  PROVE  UNCHANGED Client!vars
<1>1. /\ pc[w] \in {"look", "read", "fill", "cache", "save", "erase"}
      /\ req' = req
  BY DEF Look, Read, Fill, CacheNew, SaveOld, Erase
<1>2. req[w] \in Request /\ Control(w)
  BY <1>1, Serving DEF Base
<1> DEFINE Same == \A k \in Key : k \in Uses(req[w]) => SettledBy(w, k)' = SettledBy(w, k)
<1>3. (UNCHANGED <<db, seen>> /\ (w \in Owing)' = (w \in Owing)) => Same
  BY <1>1 DEF SettledBy, Versioned, db
<1>4. (UNCHANGED db /\ w \notin Owing /\ (w \notin Owing)') => Same
  BY DEF SettledBy, db
<1>5. CASE Look(w) /\ cache[Path(w)] = Absent
  <2>1. pc[w] = "look" /\ pc'[w] = "query" /\ UNCHANGED <<db, seen>>
    BY <1>5 DEF Look, Goto, Base, TypeOK
  <2>2. Decided(w)' = Decided(w) /\ w \notin Owing /\ (w \notin Owing)'
    BY <2>1 DEF Decided, Owing
  <2> QED
    BY <1>1, <1>3, <2>1, <2>2, Stutter
<1>6. CASE Read(w)
  <2>1. /\ pc[w] = "read" /\ pc'[w] \in {"fill", "forget", "insert"} /\ UNCHANGED db
        /\ req[w].op # "get"
    BY <1>6, Serving DEF Read, Missing, Goto, Base, TypeOK
  <2>2. Decided(w)' = Decided(w) /\ w \notin Owing /\ (w \notin Owing)'
    BY <1>1, <2>1 DEF Decided, Owing
  <2> QED
    BY <1>1, <1>4, <2>1, <2>2, Stutter
<1>7. CASE Fill(w)
  <2>1. /\ pc[w] = "fill" /\ UNCHANGED <<db, seen>>
        /\ IF req[w].op = "get"
           THEN pc'[w] = "send" /\ answer'[w] = Answer("SUCC", seen[w])
           ELSE pc'[w] = "write"
    BY <1>7 DEF Fill, Finish, Goto, Base, TypeOK
  <2>2. Decided(w)' = Decided(w) /\ w \notin Owing /\ (w \notin Owing)'
    BY <1>1, <2>1 DEF Decided, Owing
  <2> QED
    BY <1>1, <1>3, <2>1, <2>2, Stutter
<1>8. CASE CacheNew(w)
  <2>1. /\ pc[w] = "cache" /\ UNCHANGED <<db, seen>>
        /\ IF SavesOld(w)
           THEN pc'[w] = "save"
           ELSE pc'[w] = "send" /\ answer'[w] = Answer("SUCC", Absent)
    BY <1>8 DEF CacheNew, Finish, Goto, Base, TypeOK
  <2>2. Decided(w)' = Decided(w)
    BY <2>1 DEF Decided, Answer
  <2>3. SavesOld(w)' = SavesOld(w)
    BY <1>1, <2>1 DEF SavesOld
  <2>4. (w \in Owing)' = (w \in Owing)
    BY <2>1, <2>3 DEF Owing
  <2> QED
    BY <1>1, <1>3, <2>1, <2>2, <2>4, Stutter
<1>9. CASE SaveOld(w)
  <2>1. /\ pc[w] = "save" /\ pc'[w] = "send" /\ seen' = seen
        /\ answer'[w] = Answer("SUCC", Absent)
        /\ UNCHANGED db \/ Commit(Versioned(req[w]), seen[w])
    BY <1>9 DEF SaveOld, Statement, Finish, Goto, Base, TypeOK
  <2>2. Decided(w)' = Decided(w)
    BY <2>1 DEF Decided, Answer
  <2>3. w \in Owing /\ (w \notin Owing)' /\ Versioned(req[w]) \in Key
    BY <1>2, <2>1, OwesOne DEF Owing, Control
  <2>4. master'[Versioned(req[w])] = seen[w]
    BY <2>1, <2>3 DEF Orderly, Leaves, Commit, db, Base, TypeOK
  <2>5. \A k \in Key : k # Versioned(req[w]) => master'[k] = master[k]
    BY <2>1, <2>3 DEF Commit, db, Base, TypeOK
  <2>6. Same
    BY <2>3, <2>4, <2>5 DEF SettledBy
  <2> QED
    BY <1>1, <2>2, <2>6, Stutter
<1>10. CASE Erase(w)
  <2>1. pc[w] = "erase" /\ pc'[w] = "delete" /\ UNCHANGED <<db, seen>>
    BY <1>10 DEF Erase, Goto, Base, TypeOK
  <2>2. Decided(w)' = Decided(w) /\ w \notin Owing /\ (w \notin Owing)'
    BY <2>1 DEF Decided, Owing
  <2> QED
    BY <1>1, <1>3, <2>1, <2>2, Stutter
<1> QED
  BY <1>5, <1>6, <1>7, <1>8, <1>9, <1>10

\* What get_meta finds cached is in the master.
LEMMA CachedIs ==
  ASSUME Base, Coherent, NEW w \in Worker, pc[w] = "look"
  PROVE  cache[Path(w)] \in {Absent, master[Path(w)]}
<1>1. Path(w) \in Key /\ Path(w) \in Uses(req[w])
  BY RowsOf
<1>2. ~ Pending(Path(w))
  <2> SUFFICES ASSUME NEW v \in Worker, pc[v] = "cache", Path(v) = Path(w)
               PROVE  FALSE
    BY DEF Pending
  <2>1. Path(v) \in Changes(req[v]) /\ v # w
    BY RowsOf
  <2> QED
    BY <1>1, <2>1, TwoApart
<1> QED
  BY <1>1, <1>2 DEF Coherent

\* How clients see the moment at which a worker decides its answer.
LEMMA Decision ==
  ASSUME Base, Coherent, Base', Coherent', NEW w \in Worker, Step(w),
         pc[w] \notin {"cache", "save"}, Decided(w) = Absent, req' = req,
         NEW a, Decided(w)' = a
  PROVE  /\ Settled[Path(w)] = master[Path(w)] /\ w \notin Owing
         /\ Path(w) = req[w].path /\ Path(w) \in Key /\ req[w] \in Request
         /\ req[w] # Absent /\ UNCHANGED req
         /\ [v \in Worker |-> Decided(v)][w] = Absent
         /\ [v \in Worker |-> Decided(v)]' =
               [[v \in Worker |-> Decided(v)] EXCEPT ![w] = a]
<1>1. req[w] \in Request /\ Path(w) = req[w].path /\ Path(w) \in Key /\ req[w] # Absent
  BY RowsOf, StepBusy
<1>2. w \notin Owing
  BY DEF Owing
<1> QED
  BY <1>1, <1>2, SettledPath, OthersDecide

\* A decision that leaves the store alone.
LEMMA SettledKept ==
  ASSUME Base, Coherent, Base', Coherent', NEW w \in Worker, Step(w),
         w \notin Owing, (w \notin Owing)', master' = master
  PROVE  Settled' = Settled
<1>1. \A k \in Key : SettledBy(w, k)' = SettledBy(w, k)
  BY DEF SettledBy
<1> QED
  BY <1>1, SettledStays

\* get, and the requests that find no row: the store stays.
LEMMA DoReads ==
  ASSUME Base, Coherent, Base', Coherent', Orderly, NEW w \in Worker, Step(w),
         \/ Look(w) /\ cache[Path(w)] # Absent
         \/ Query(w) \/ Forget(w) \/ Clean(w)
  PROVE  Client!Do(w) \/ Client!Fail(w)
<1>1. /\ pc[w] \in {"look", "query", "forget", "clean"}
      /\ UNCHANGED <<db, req>> /\ master' = master
  BY DEF Look, Query, Forget, Clean, db
<1>2. Decided(w) = Absent
  BY <1>1 DEF Decided
<1>3. /\ (w \notin Owing)'
      /\ \/ /\ req[w].op = "get" /\ master[Path(w)] # Absent
            /\ Decided(w)' = Answer("SUCC", master[Path(w)])
         \/ /\ req[w].op \in {"get", "update"} /\ (Faults \/ master[Path(w)] = Absent)
            /\ Decided(w)' = Answer("KEY_NOT_EXIST", Absent)
         \/ /\ req[w].op = "clean"
            /\ Decided(w)' = Answer("SUCC", Absent)
  <2>1. CASE Look(w) /\ cache[Path(w)] # Absent
    <3>1. pc[w] = "look" /\ pc'[w] = "send" /\ answer'[w] = Answer("SUCC", cache[Path(w)])
      BY <2>1 DEF Look, Finish, Goto, Base, TypeOK
    <3>2. req[w].op = "get" /\ cache[Path(w)] = master[Path(w)]
      BY <2>1, <3>1, Serving, CachedIs
    <3> QED
      BY <2>1, <3>1, <3>2 DEF Decided, Owing
  <2>2. CASE Query(w)
    <3>1. /\ pc[w] = "query"
          /\ \/ /\ pc'[w] = "fill" /\ slave[Path(w)] # Absent
                /\ seen'[w] = slave[Path(w)]
             \/ /\ pc'[w] = "send" /\ (slave[Path(w)] = Absent \/ Faults)
                /\ answer'[w] = Answer("KEY_NOT_EXIST", Absent)
      BY <2>2 DEF Query, Finish, Goto, Base, TypeOK
    <3>2. slave[Path(w)] = master[Path(w)]
      BY <3>1 DEF Orderly, Leaves
    <3>3. req[w].op = "get"
      BY <3>1, Serving
    <3> QED
      BY <1>1, <3>1, <3>2, <3>3 DEF Decided, Owing
  <2>3. CASE Forget(w)
    <3>1. /\ pc[w] = "forget" /\ pc'[w] = "send"
          /\ answer'[w] = Answer("KEY_NOT_EXIST", Absent)
      BY <2>3 DEF Forget, Finish, Goto, Base, TypeOK
    <3>2. req[w].op = "update" /\ (Faults \/ master[Path(w)] = Absent)
      BY <3>1, Serving DEF WorkerOrderly, Coherent
    <3> QED
      BY <3>1, <3>2, Serving DEF Decided, Owing
  <2>4. CASE Clean(w)
    <3>1. pc[w] = "clean" /\ pc'[w] = "send" /\ answer'[w] = Answer("SUCC", Absent)
      BY <2>4 DEF Clean, Finish, Goto, Base, TypeOK
    <3>2. req[w].op = "clean"
      BY <3>1, Serving
    <3> QED
      BY <3>1, <3>2 DEF Decided, Owing
  <2> QED
    BY <2>1, <2>2, <2>3, <2>4
<1> DEFINE a == Decided(w)'
<1> HIDE DEF a
<1>4. Decided(w)' = a
  BY DEF a
<1>5. /\ Settled' = Settled /\ Settled[Path(w)] = master[Path(w)]
      /\ Path(w) = req[w].path /\ req[w] # Absent /\ UNCHANGED req
      /\ [v \in Worker |-> Decided(v)][w] = Absent
      /\ [v \in Worker |-> Decided(v)]' =
            [[v \in Worker |-> Decided(v)] EXCEPT ![w] = a]
  BY <1>1, <1>2, <1>3, <1>4, Decision, SettledKept DEF db
<1>6. \A r, m : a = Answer(r, m) => Client!Reply(w, r, m)
  BY <1>5 DEF Client!Reply, Client!Answer, Answer
<1>7. CASE req[w].op \in {"get", "update"} /\ a = Answer("KEY_NOT_EXIST", Absent)
           /\ Faults
  BY <1>5, <1>6, <1>7 DEF Client!Fail, Client!Errors
<1> QED
  BY <1>3, <1>4, <1>5, <1>6, <1>7 DEF Client!Do

\* update_meta writes one of the rows MetaStore allows.
LEMMA UpdatedAgrees ==
  ASSUME NEW m \in Metas, NEW r \in Request
  PROVE  Updated(m, r) \in Client!Updates(m, r)
<1>1. r.meta \in Metas /\ r.meta.pwd \in Seq(STRING) /\ m.pwd \in Seq(STRING)
  BY DEF Metas
<1>2. CASE "pwd" \in r.set
  <2>1. Len(r.meta.pwd) \in Nat /\ SubSeq(r.meta.pwd, 1, Len(r.meta.pwd)) = r.meta.pwd
    BY <1>1, LenProperties, SubSeqFull
  <2>2. Cut(r.meta.pwd, Len(r.meta.pwd) + 1) = r.meta.pwd
    BY <2>1 DEF Cut
  <2>3. Updated(m, r).pwd = r.meta.pwd
    BY <1>2, <2>2 DEF Updated
  <2> QED
    BY <1>2, <2>3 DEF Updated, Client!Updates
<1>3. CASE "pwd" \notin r.set
  <2> DEFINE n == IF 1 < Len(m.pwd) THEN 1 ELSE Len(m.pwd)
  <2>1. Len(m.pwd) \in Nat
    BY <1>1, LenProperties
  <2>2. n \in 0 .. Len(m.pwd)
    BY <2>1
  <2>3. Updated(m, r).pwd = SubSeq(m.pwd, 1, n)
    BY <1>3 DEF Updated, Cut
  <2> HIDE DEF n
  <2>4. Updated(m, r).pwd \in {SubSeq(m.pwd, 1, i) : i \in 0 .. Len(m.pwd)}
    BY <2>2, <2>3
  <2> QED
    BY <1>3, <2>4 DEF Updated, Client!Updates
<1> QED
  BY <1>2, <1>3

\* A row is written with success, or the statement that wrote it is reported
\* as failed, or nothing is written.
LEMMA DoInsert ==
  ASSUME Base, Coherent, Base', Coherent', NEW w \in Worker, Step(w), Insert(w)
  PROVE  Client!Do(w) \/ Client!Fail(w)
<1>1. /\ pc[w] = "insert" /\ UNCHANGED <<req, seen>> /\ seen[w] = Absent
      /\ req[w].op \in {"add", "replace"} /\ WorkerOrderly(w)
  BY Serving DEF Insert, Base, TypeOK, Control, Unread, Coherent
<1>2. Decided(w) = Absent /\ (w \notin Owing)' /\ w \notin Owing
  BY <1>1 DEF Decided, Owing, SavesOld
<1>3. /\ Settled[Path(w)] = master[Path(w)]
      /\ Path(w) = req[w].path /\ Path(w) \in Key /\ req[w] # Absent
      /\ \A a : Decided(w)' = a =>
            /\ [v \in Worker |-> Decided(v)][w] = Absent
            /\ [v \in Worker |-> Decided(v)]' =
                  [[v \in Worker |-> Decided(v)] EXCEPT ![w] = a]
  BY <1>1, <1>2, Decision
<1>4. \/ /\ master[Path(w)] = Absent /\ Decided(w)' = Answer("SUCC", Absent)
         /\ Commit(Path(w), New(w))
      \/ /\ Decided(w)' = Answer("INSERT_FAILED", Absent) /\ UNCHANGED db
         /\ Faults \/ (req[w].op = "add" /\ master[Path(w)] # Absent)
      \/ /\ Decided(w)' = Answer("INSERT_FAILED", Absent) /\ Faults
         /\ master[Path(w)] = Absent /\ Commit(Path(w), New(w))
  <2>1. \/ /\ pc'[w] = "cache" /\ Commit(Path(w), New(w)) /\ master[Path(w)] = Absent
        \/ /\ pc'[w] = "send" /\ answer'[w] = Answer("INSERT_FAILED", Absent)
           /\ UNCHANGED db /\ (Faults \/ master[Path(w)] # Absent)
        \/ /\ pc'[w] = "send" /\ answer'[w] = Answer("INSERT_FAILED", Absent)
           /\ Faults /\ master[Path(w)] = Absent /\ Commit(Path(w), New(w))
    BY DEF Insert, Statement, Finish, Goto, Base, TypeOK
  <2>2. (~ Faults /\ master[Path(w)] # Absent) => req[w].op = "add"
    BY <1>1 DEF WorkerOrderly
  <2>3. pc'[w] = "send" => Decided(w)' = answer'[w]
    BY DEF Decided
  <2>4. pc'[w] = "cache" => Decided(w)' = Answer("SUCC", Absent)
    BY DEF Decided, Answer
  <2> QED
    BY <2>1, <2>2, <2>3, <2>4
<1> DEFINE m == IF req[w].op = "add" THEN req[w].meta ELSE Default(req[w])
<1>5. New(w) = m /\ New(w) \in Rows
  BY <1>1, NewType DEF New, Rows
<1>6. Commit(Path(w), New(w)) => Settled' = [Settled EXCEPT ![Path(w)] = m]
  BY <1>2, <1>5, SettledPut DEF Commit
<1>7. UNCHANGED db => Settled' = Settled
  BY <1>2, SettledKept DEF db
<1>8. (master[Path(w)] = Absent /\ Commit(Path(w), New(w))) => Client!Change(req[w])
  BY <1>1, <1>3, <1>6 DEF Client!Change, Client!Put, Client!Replace, Client!Default, Default
<1>9. \A r : Decided(w)' = Answer(r, Absent) => Client!Reply(w, r, Absent)
  BY <1>1, <1>3 DEF Client!Reply, Client!Answer, Answer
<1> HIDE DEF m
<1>10. CASE Decided(w)' = Answer("SUCC", Absent) /\ Client!Change(req[w])
  BY <1>9, <1>10 DEF Client!Do
<1>11. CASE /\ Decided(w)' = Answer("INSERT_FAILED", Absent) /\ Faults
            /\ Settled' = Settled \/ Client!Change(req[w])
  BY <1>1, <1>3, <1>9, <1>11 DEF Client!Fail, Client!Errors
<1>12. CASE /\ Decided(w)' = Answer("INSERT_FAILED", Absent) /\ Settled' = Settled
            /\ req[w].op = "add" /\ master[Path(w)] # Absent
  BY <1>3, <1>9, <1>12 DEF Client!Do
<1> QED
  BY <1>4, <1>7, <1>8, <1>10, <1>11, <1>12

LEMMA DoDelete ==
  ASSUME Base, Coherent, Base', Coherent', NEW w \in Worker, Step(w), Delete(w)
  PROVE  Client!Do(w) \/ Client!Fail(w)
<1>1. /\ pc[w] = "delete" /\ UNCHANGED <<req, seen>> /\ req[w].op = "delete"
  BY Serving DEF Delete
<1>2. /\ Decided(w) = Absent /\ w \notin Owing /\ pc'[w] = "send" /\ (w \notin Owing)'
      /\ Decided(w)' = answer'[w]
  BY <1>1 DEF Decided, Owing, Delete, Statement, Finish, Goto, Base, TypeOK
<1>3. /\ Settled[Path(w)] = master[Path(w)]
      /\ Path(w) = req[w].path /\ Path(w) \in Key /\ req[w] # Absent
      /\ \A a : Decided(w)' = a =>
            /\ [v \in Worker |-> Decided(v)][w] = Absent
            /\ [v \in Worker |-> Decided(v)]' =
                  [[v \in Worker |-> Decided(v)] EXCEPT ![w] = a]
  BY <1>1, <1>2, Decision
<1>4. \/ /\ Decided(w)' = Answer("SUCC", Absent)
         /\ \/ Commit(Path(w), Absent)
            \/ UNCHANGED db /\ master[Path(w)] = Absent
      \/ /\ Decided(w)' = Answer("DELETE_KV_ERROR", Absent) /\ Faults
         /\ UNCHANGED db \/ Commit(Path(w), Absent)
  BY <1>2 DEF Delete, Statement, Finish, Base, TypeOK
<1>5. UNCHANGED db => Settled' = Settled
  BY <1>2, SettledKept DEF db
<1>6. Commit(Path(w), Absent) => Settled' = [Settled EXCEPT ![Path(w)] = Absent]
  BY <1>2, SettledPut DEF Commit, Rows
<1>7. Settled \in [Key -> Rows]
  BY SettledNow DEF SettledSays
<1>8. (UNCHANGED db /\ master[Path(w)] = Absent) \/ Commit(Path(w), Absent)
         => Client!Change(req[w])
  BY <1>1, <1>3, <1>5, <1>6, <1>7 DEF Client!Change, Client!Put
<1>9. \A r : Decided(w)' = Answer(r, Absent) => Client!Reply(w, r, Absent)
  BY <1>1, <1>3 DEF Client!Reply, Client!Answer, Answer
<1>10. CASE Decided(w)' = Answer("SUCC", Absent) /\ Client!Change(req[w])
  BY <1>9, <1>10 DEF Client!Do
<1>11. CASE /\ Decided(w)' = Answer("DELETE_KV_ERROR", Absent) /\ Faults
            /\ Settled' = Settled \/ Client!Change(req[w])
  BY <1>1, <1>3, <1>9, <1>11 DEF Client!Fail, Client!Errors
<1> QED
  BY <1>4, <1>5, <1>8, <1>10, <1>11

\* With a version, the row replaced counts as saved from the moment of the write.
LEMMA SettledReplace ==
  ASSUME Base, Coherent, Base', Coherent', NEW w \in Worker, Step(w), New(w) \in Rows,
         w \notin Owing, (w \in Owing)', UNCHANGED <<req, seen>>,
         seen[w] = master[Path(w)], master' = [master EXCEPT ![Path(w)] = New(w)]
  PROVE  Settled' = [[Settled EXCEPT ![Versioned(req[w])] = Settled[Path(w)]]
                        EXCEPT ![Path(w)] = New(w)]
<1>1. Path(w) \in Key /\ Versioned(req[w]) \in Key
  BY RowsOf, StepBusy DEF Owing, SavesOld
<1>2. PICK p \in Key, v \in Key, m \in Rows :
         p = Path(w) /\ v = Versioned(req[w]) /\ m = New(w)
  BY <1>1
<1>3. seen[w] = master[p] /\ master' = [master EXCEPT ![p] = m]
  BY <1>2
<1> DEFINE G == [[Settled EXCEPT ![v] = Settled[p]] EXCEPT ![p] = m]
<1>4. req[w] \in Request /\ p = req[w].path
  BY <1>2, RowsOf, StepBusy
<1>5. req[w].ver > 0
  BY DEF Owing, SavesOld
<1>6. v # p /\ Uses(req[w]) = {p, v}
  BY <1>2, <1>4, <1>5 DEF Uses
<1>7. /\ Settled \in [Key -> Rows] /\ master \in [Key -> Rows]
      /\ Settled[p] = master[p]
  BY <1>2, SettledNow, SettledPath DEF SettledSays, Base, TypeOK
<1>8. Versioned(req[w])' = v /\ seen'[w] = seen[w]
  BY <1>2 DEF Versioned
<1>9. SettledBy(w, p)' = m /\ SettledBy(w, v)' = seen[w]
  BY <1>2, <1>3, <1>6, <1>7, <1>8 DEF SettledBy
<1>10. G \in [Key -> Rows]
  BY <1>2, <1>7
<1>11. \A k \in Key : G[k] = IF k \in Uses(req[w]) THEN SettledBy(w, k)' ELSE Settled[k]
  BY <1>2, <1>3, <1>6, <1>7, <1>9
<1> HIDE DEF G
<1>12. Settled' = G
  BY <1>10, <1>11, SettledIs
<1> QED
  BY <1>2, <1>12 DEF G

LEMMA DoWrite ==
  ASSUME Base, Coherent, Base', Coherent', Orderly, NEW w \in Worker, Step(w), Write(w)
  PROVE  Client!Do(w) \/ Client!Fail(w)
<1> DEFINE r == req[w]
<1>1. /\ pc[w] = "write" /\ UNCHANGED <<req, seen>> /\ r.op \in {"update", "replace"}
      /\ seen[w] # Absent /\ seen[w] \in Metas /\ seen[w] = master[Path(w)]
  BY Serving DEF Write, Base, TypeOK, Control, Rows, Coherent, WorkerOrderly
<1>2. Decided(w) = Absent /\ w \notin Owing
  BY <1>1 DEF Decided, Owing
<1>3. /\ Settled[Path(w)] = master[Path(w)]
      /\ Path(w) = r.path /\ Path(w) \in Key /\ r \in Request /\ r # Absent
      /\ \A a : Decided(w)' = a =>
            /\ [v \in Worker |-> Decided(v)][w] = Absent
            /\ [v \in Worker |-> Decided(v)]' =
                  [[v \in Worker |-> Decided(v)] EXCEPT ![w] = a]
  BY <1>1, <1>2, Decision
<1>4. \A x : Decided(w)' = Answer(x, Absent) => Client!Reply(w, x, Absent)
  BY <1>1, <1>3 DEF Client!Reply, Client!Answer, Answer
<1>5. CASE pc'[w] = "send"
  <2>1. Faults /\ Decided(w)' = Answer("UPDATE_KV_ERROR", Absent) /\ (w \notin Owing)'
    BY <1>5 DEF Write, Statement, Finish, Goto, Base, TypeOK, Decided, Owing
  <2>2. master' = master
    BY <1>1, <1>5 DEF Orderly, Leaves
  <2>3. Settled' = Settled
    BY <1>2, <2>1, <2>2, SettledKept
  <2> QED
    BY <1>1, <1>3, <1>4, <2>1, <2>3 DEF Client!Fail, Client!Errors
<1>6. CASE pc'[w] # "send"
  <2>1. pc'[w] = "cache" /\ master' = [master EXCEPT ![Path(w)] = New(w)]
    BY <1>1, <1>6 DEF Write, Statement, Finish, Goto, Base, TypeOK, Commit
  <2>2. Decided(w)' = Answer("SUCC", Absent)
    BY <2>1 DEF Decided, Answer
  <2>3. New(w) \in Rows
    BY <1>1, NewType DEF Rows
  <2>4. (w \in Owing)' <=> r.op = "replace" /\ r.ver > 0
    BY <1>1, <2>1 DEF Owing, SavesOld
  <2>5. (w \notin Owing)' => Settled' = [Settled EXCEPT ![Path(w)] = New(w)]
    BY <1>2, <2>1, <2>3, SettledPut
  <2>6. CASE r.op = "update"
    <3>1. New(w) \in Client!Updates(Settled[r.path], r)
      BY <1>1, <1>3, <2>6, UpdatedAgrees DEF New
    <3> QED
      BY <1>1, <1>3, <2>4, <2>5, <2>6, <3>1, <1>4, <2>2
         DEF Client!Do, Client!Change, Client!Put
  <2>7. CASE r.op = "replace"
    <3>1. New(w) = [seen[w] EXCEPT !.url = r.meta.url]
      BY <1>1, <2>7 DEF New
    <3>2. Client!Replace(r)
      <4>1. CASE r.ver > 0
        <5>1. Versioned(r) \in Key
          BY <1>3, <4>1
        <5>2. (w \in Owing)' /\ UNCHANGED <<req, seen>>
          BY <1>1, <2>4, <2>7, <4>1
        <5>3. Settled' = [[Settled EXCEPT ![Versioned(req[w])] = Settled[Path(w)]]
                             EXCEPT ![Path(w)] = New(w)]
          BY <1>1, <1>2, <2>1, <2>3, <5>2, SettledReplace
        <5> QED
          BY <1>1, <1>3, <3>1, <4>1, <5>3 DEF Client!Replace, Versioned
      <4>2. CASE ~(r.ver > 0)
        BY <1>1, <1>3, <2>4, <2>5, <3>1, <4>2 DEF Client!Replace
      <4> QED
        BY <4>1, <4>2
    <3> QED
      BY <1>4, <2>2, <2>7, <3>2 DEF Client!Do, Client!Change
  <2> QED
    BY <1>1, <2>6, <2>7
<1> QED
  BY <1>5, <1>6

LEMMA RefineReceive ==
  ASSUME Base, Coherent, Base', Coherent', NEW w \in Worker, Receive(w)
  PROVE  Client!Receive(w)
<1>1. /\ req[w] = Absent /\ pc[w] = "idle" /\ UNCHANGED <<db, seen, answer>>
      /\ pc'[w] \in {"insert", "look", "read", "erase", "clean"}
      /\ \E r \in Request : req' = [req EXCEPT ![w] = r]
      /\ \A v \in Worker : v # w => pc'[v] = pc[v] /\ req'[v] = req[v]
  BY DEF Receive, Goto, First, Op, Base, TypeOK, Control
<1>2. \A v \in Worker : Decided(v)' = Decided(v)
  <2>1. Decided(w)' = Absent /\ Decided(w) = Absent
    BY <1>1 DEF Decided
  <2>2. \A v \in Worker : v # w => Decided(v)' = Decided(v)
    BY <1>1 DEF Decided
  <2> QED
    BY <2>1, <2>2
<1>3. [v \in Worker |-> Decided(v)]' = [v \in Worker |-> Decided(v)]
  BY <1>2
<1>4. Settled' = Settled
  <2>1. \A v \in Worker : (v \in Owing)' = (v \in Owing)
    BY <1>1 DEF Owing, SavesOld
  <2>2. \A v \in Owing : Versioned(req[v])' = Versioned(req[v])
    BY <1>1 DEF Owing, Versioned
  <2>3. SettledSays /\ SettledSays' /\ Owing \subseteq Worker /\ Owing' \subseteq Worker
    BY SettledNow, SettledNext DEF Owing
  <2>4. Owing' = Owing
    BY <2>1, <2>3
  <2>5. \A k \in Key : Settled'[k] = Settled[k]
    BY <1>1, <2>2, <2>3, <2>4 DEF SettledSays, db
  <2> QED
    BY <2>3, <2>5 DEF SettledSays
<1> QED
  BY <1>1, <1>3, <1>4 DEF Client!Receive

LEMMA RefineSend ==
  ASSUME Base, Coherent, Base', Coherent', NEW w \in Worker, Step(w), Send(w)
  PROVE  Client!Send(w)
<1>1. /\ pc[w] = "send" /\ answer[w] # Absent /\ UNCHANGED db /\ pc'[w] = "idle"
      /\ req' = [req EXCEPT ![w] = Absent]
  BY DEF Send, Goto, Base, TypeOK, Control
<1>2. Decided(w) = answer[w] /\ Decided(w)' = Absent /\ w \notin Owing /\ (w \notin Owing)'
  BY <1>1 DEF Decided, Owing
<1>3. /\ [v \in Worker |-> Decided(v)][w] # Absent
      /\ [v \in Worker |-> Decided(v)]' =
            [[v \in Worker |-> Decided(v)] EXCEPT ![w] = Absent]
  BY <1>1, <1>2, OthersDecide
<1>4. Settled' = Settled
  BY <1>1, <1>2, SettledKept DEF db
<1> QED
  BY <1>1, <1>3, <1>4 DEF Client!Send

LEMMA RefineStep ==
  ASSUME Base, Coherent, Base', Coherent', [Next /\ Orderly]_vars
  PROVE  [Client!Next]_(Client!vars)
<1>1. ASSUME Orderly, NEW w \in Worker, Step(w) PROVE [Client!Next]_(Client!vars)
  <2>1. CASE Look(w) \/ Query(w) \/ Read(w) \/ Fill(w) \/ Forget(w) \/ CacheNew(w)
             \/ SaveOld(w) \/ Erase(w) \/ Clean(w)
    BY <1>1, <2>1, InvisibleSteps, DoReads DEF Client!Next
  <2>2. CASE Insert(w) \/ Write(w) \/ Delete(w) \/ Send(w)
    BY <1>1, <2>2, DoInsert, DoWrite, DoDelete, RefineSend DEF Client!Next
  <2> QED
    BY <1>1, <2>1, <2>2 DEF Step
<1>2. ASSUME NEW w \in Worker, Receive(w) PROVE Client!Next
  BY <1>2, RefineReceive DEF Client!Next
<1>3. CASE UNCHANGED vars \/ Replicate \/ \E k \in Key : WeedOut(k)
  <2>1. UNCHANGED <<master, pc, req, seen, answer>>
    BY <1>3 DEF Replicate, WeedOut, vars, db
  <2>2. /\ Owing' = Owing
        /\ \A w : Decided(w)' = Decided(w)
    BY <2>1 DEF Owing, SavesOld, Decided
  <2>3. Settled' = Settled
    BY <2>1, <2>2 DEF Settled
  <2>4. [w \in Worker |-> Decided(w)]' = [w \in Worker |-> Decided(w)]
    BY <2>2
  <2> QED
    BY <2>1, <2>3, <2>4 DEF Client!vars
<1> QED
  BY <1>1, <1>2, <1>3 DEF Next

\* Under the same hypothesis every answer is the one MetaStore gives: however
\* requests overlap on other rows, whatever statements fail and however far the
\* slave is behind, a request takes effect at one instant, and no cache, replica
\* or version yet to be saved can be told from outside.
THEOREM Refinement == OrderlySpec => Implements
<1>1. Base /\ [Next /\ Orderly]_vars => Base'
  BY BaseStep
<1>2. Base /\ Coherent /\ [Next /\ Orderly]_vars => Coherent'
  BY CoherentStep
<1>3. Base /\ Coherent /\ Base' /\ Coherent' /\ [Next /\ Orderly]_vars
         => [Client!Next]_(Client!vars)
  BY RefineStep
<1> QED
  BY <1>1, <1>2, <1>3, BaseInit, CoherentInit, RefineInit, PTL
     DEF OrderlySpec, Implements, Client!Spec

===============================================================================
