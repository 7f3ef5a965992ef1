--------------------------- MODULE EventLoop_proofs ---------------------------
(***************************************************************************)
(* Proofs about EventLoop, for every set of workers, descriptors and       *)
(* handlers and for any traffic.  The inductive invariant has two parts:   *)
(* where each worker is and what it holds (Control), and, until loop_run   *)
(* closes what is left, who owns each descriptor and handler (Ownership).  *)
(***************************************************************************)
EXTENDS EventLoop, TLAPS

(***************************************************************************)
(* Where a worker is and what it holds.                                    *)
(***************************************************************************)
Free == {"top", "lock", "poll", "exited"}
Adding == {"add_conn", "add_epoll"}

Control(w) ==
    /\ IF pc[w] \in Free
       THEN at[w] = Idle
       ELSE at[w].fd \in Fd /\ at[w].h \in Handler
    /\ IF pc[w] \in Adding
       THEN new[w].fd \in Conn /\ new[w].h \in Handler
       ELSE new[w] = NoNew
    /\ pc[w] \in Adding \cup {"accept"} => at[w].fd = Listen

\* loop_run goes on only after a stop, and past its joins only when the
\* workers it joins have left.
MainInv == /\ main # "running" => ~run
           /\ ~Looping => \A w \in Joined : pc[w] = "exited"

(***************************************************************************)
(* While the loop runs, a descriptor is free, armed, reported, served by   *)
(* one worker or being created by one worker.                              *)
(***************************************************************************)
IsArmed(fd) == interest[fd] \notin {{}, {None}}

Holding == {"read", "write", "update", "modify", "delete", "accept"} \cup Adding

\* what a worker may count on for the descriptor and handler it works on
Owned(w) ==
    /\ pc[w] \notin Free => fdOf[at[w].h] = at[w].fd
    /\ pc[w] \in Holding => /\ interest[at[w].fd] = {}
                            /\ conns[at[w].fd] = at[w].h
                            /\ sock[at[w].fd] # "free"
    /\ pc[w] = "leave_epoll" => /\ interest[at[w].fd] = {}
                                /\ conns[at[w].fd] = None
                                /\ sock[at[w].fd] # "free"
    /\ pc[w] = "close" => /\ interest[at[w].fd] = {None}
                          /\ conns[at[w].fd] = None
                          /\ sock[at[w].fd] # "free"
    /\ pc[w] = "free" => conns[at[w].fd] # at[w].h
    /\ pc[w] \in Adding => /\ fdOf[new[w].h] = new[w].fd
                           /\ interest[new[w].fd] = {None}
                           /\ sock[new[w].fd] # "free"
                           /\ conns[new[w].fd] =
                                IF pc[w] = "add_conn" THEN None ELSE new[w].h

FdInv(fd) ==
    /\ sock[fd] = "free" => conns[fd] = None /\ interest[fd] = {None}
    /\ conns[fd] # None => fdOf[conns[fd]] = fd
    /\ IsArmed(fd) => /\ conns[fd] # None
                     /\ interest[fd] = flags[conns[fd]]
                     /\ \A w \in Worker : fd \notin Serves(w)

\* a handler out of the pool watches for input, and for writability when
\* something is left to send, but for the moments in which a worker reads,
\* writes or closes
HandlerInv(h) ==
    /\ fdOf[h] # None => R \in flags[h]
    /\ \/ unsent[h] => W \in flags[h]
       \/ \E w \in Worker : /\ at[w].h = h
                            /\ pc[w] \in {"read", "write", "delete",
                                          "leave_epoll", "close", "free"}

Distinct == \A v, w \in Worker : v # w => /\ Uses(v) \cap Uses(w) = {}
                                          /\ Serves(v) \cap Serves(w) = {}

Reported == \A e, f \in fired : e.fd = f.fd => e = f

Ownership == /\ \A w \in Worker : Owned(w)
             /\ \A fd \in Fd : FdInv(fd)
             /\ \A h \in Handler : HandlerInv(h)
             /\ Distinct
             /\ Reported
             /\ FiredIsCurrent
             /\ NothingForgotten

Base == TypeOK /\ (\A w \in Worker : Control(w)) /\ MainInv

IInv == /\ Base
        /\ SlotWasFree
        /\ Looping => Ownership

-------------------------------------------------------------------------------
USE LoopAssumption

LEMMA InitBase ==
  ASSUME NEW h \in Handler, InitWith(h)
  PROVE  Base
<1> USE DEF InitWith
<1> USE DEF Fd, R, W, Idle, NoNew
<1>1. TypeOK
  <2>1. /\ conns \in [Fd -> Handler \cup {None}]
        /\ sock \in [Fd -> {"free", "open", "eof"}]
        /\ input \in [Fd -> BOOLEAN]
    OBVIOUS
  <2>2. interest \in [Fd -> (SUBSET {R, W}) \cup {{None}}]
    OBVIOUS
  <2>3. /\ fdOf \in [Handler -> Fd \cup {None}]
        /\ unsent \in [Handler -> BOOLEAN]
    OBVIOUS
  <2>4. flags \in [Handler -> SUBSET {R, W}]
    OBVIOUS
  <2>5. /\ at \in [Worker -> [fd : Fd \cup {None}, h : Handler \cup {None},
                             mask : SUBSET {R, W}]]
        /\ new \in [Worker -> [fd : Fd \cup {None}, h : Handler \cup {None}]]
    OBVIOUS
  <2>6. /\ pc \in [Worker -> Labels] /\ traffic \in 0 .. MaxTraffic
        /\ \A w \in Worker : (leader = w) <=> (pc[w] = "poll")
    BY DEF Labels
  <2>7. /\ run \in BOOLEAN /\ failed \in BOOLEAN /\ fired \subseteq Reports
        /\ main \in {"running", "join", "sweep", "delete", "leave_epoll", "close", "free", "done"}
    OBVIOUS
  <2>8. left \subseteq Fd /\ old \in Handler \cup {None}
    OBVIOUS
  <2> HIDE DEF Fd, R, W, Idle, NoNew
  <2> QED
    BY <2>1, <2>2, <2>3, <2>4, <2>5, <2>6, <2>7, <2>8 DEF TypeOK
<1>2. \A w \in Worker : Control(w)
  BY DEF Control, Free, Adding
<1> QED
  BY <1>1, <1>2 DEF Base, MainInv, Looping

\* A step of one worker leaves what the others hold alone.
LEMMA StepOthers ==
  ASSUME Base, NEW w \in Worker, Step(w), NEW v \in Worker, v # w
  PROVE  pc'[v] = pc[v] /\ at'[v] = at[v] /\ new'[v] = new[v]
  BY ZenonT(60) DEF Base, TypeOK, Step, Goto, local, kernel, rest, vars, HandOut, DropOrphan, Top, LockLeader, Timeout, AeWait, LeaderLeaves, Take, Update, Modify, Read, ReadFails, ReadDone, Write, WriteFails, DeleteConn, DeleteEpoll, Close, PoolFree, Forget, Unwatch, CloseFd, Accept, AcceptFails, AcceptDone, AddConn, AddEpoll, AddFails

LEMMA StepMain ==
  ASSUME NEW w \in Worker, Step(w)
  PROVE  UNCHANGED rest
  BY DEF rest, vars, Step, Goto, local, kernel, rest, vars, HandOut, DropOrphan, Top, LockLeader, Timeout, AeWait, LeaderLeaves, Take, Update, Modify, Read, ReadFails, ReadDone, Write, WriteFails, DeleteConn, DeleteEpoll, Close, PoolFree, Forget, Unwatch, CloseFd, Accept, AcceptFails, AcceptDone, AddConn, AddEpoll, AddFails

LEMMA Running ==
  ASSUME NEW w \in Worker, Step(w)
  PROVE  pc[w] # "exited"
  BY DEF Step, vars, Top, LockLeader, Timeout, AeWait, LeaderLeaves, Take, Update, Modify, Read, ReadFails, ReadDone, Write, WriteFails, DeleteConn, DeleteEpoll, Close, PoolFree, Forget, Unwatch, CloseFd, Accept, AcceptFails, AcceptDone, AddConn, AddEpoll, AddFails

LEMMA BaseBy ==
  ASSUME Base, NEW w \in Worker, Step(w), TypeOK', Control(w)'
  PROVE  Base'
<1>1. ASSUME NEW v \in Worker PROVE Control(v)'
  BY StepOthers DEF Base, Control
<1>2. MainInv'
  <2>1. main' = main /\ run' = run
    BY StepMain DEF rest
  <2>2. ASSUME NEW v \in Worker, pc[v] = "exited" PROVE pc'[v] = "exited"
    BY <2>2, StepOthers, Running
  <2>3. Joined \subseteq Worker /\ Joined' = Joined
    BY DEF Joined
  <2> QED
    BY <2>1, <2>2, <2>3 DEF Base, MainInv, Looping
<1> QED
  BY <1>1, <1>2 DEF Base

LEMMA FlagsType == \A more \in BOOLEAN : Flags(more) \in SUBSET {R, W} /\ R \in Flags(more)
  BY DEF Flags

LEMMA IdleType ==
  /\ Idle \in [fd : Fd \cup {None}, h : Handler \cup {None}, mask : SUBSET {R, W}]
  /\ NoNew \in [fd : Fd \cup {None}, h : Handler \cup {None}]
  BY DEF Idle, NoNew

LEMMA StepTypes ==
  ASSUME Base, NEW w \in Worker, Step(w)
  PROVE  TypeOK'
<1> USE DEF Base, TypeOK, Goto, kernel, pool, local, rest
<1>0. Control(w)
  OBVIOUS
<1>1. CASE Top(w)
  BY <1>0, <1>1 DEF Top, Labels
<1>2. CASE LockLeader(w)
  BY <1>0, <1>2 DEF LockLeader, Labels
<1>3. CASE Timeout(w)
  BY <1>3 DEF Timeout, vars
<1>4. CASE AeWait(w)
  <2>1. PICK S \in SUBSET Reports : fired' = S /\ interest' = Disarmed({e.fd : e \in S})
    BY <1>4 DEF AeWait
  <2>2. interest' \in [Fd -> (SUBSET {R, W}) \cup {{None}}]
    BY <2>1 DEF Disarmed
  <2> QED
    BY <2>1, <2>2, <1>4 DEF AeWait
<1>5. CASE LeaderLeaves(w)
  BY <1>0, <1>5 DEF LeaderLeaves, Labels
<1>6. CASE Take(w)
  <2>1. PICK e \in fired : /\ fired' = fired \ {e}
                          /\ IF conns[e.fd] = None THEN DropOrphan(e.fd)
                             ELSE HandOut(w, e.fd, e.mask)
    BY <1>6 DEF Take
  <2>2. e.fd \in Fd /\ e.mask \in SUBSET {R, W}
    BY <2>1 DEF Reports
  <2>3. CASE DropOrphan(e.fd)
    BY <2>1, <2>2, <2>3, <1>6 DEF Take, DropOrphan
  <2>4. CASE HandOut(w, e.fd, e.mask)
    <3>1. Entry(e.fd, e.mask) \in Labels \ {"poll"}
      BY DEF Entry, Labels
    <3>2. /\ pc' \in [Worker -> Labels] /\ leader' = None
          /\ \A v \in Worker : pc'[v] # "poll"
      BY <2>4, <3>1, <1>6 DEF HandOut, Take
    <3>3. [fd |-> e.fd, h |-> conns[e.fd], mask |-> e.mask] \in
            [fd : Fd \cup {None}, h : Handler \cup {None}, mask : SUBSET {R, W}]
      BY <2>2
    <3>4. at' \in [Worker -> [fd : Fd \cup {None}, h : Handler \cup {None},
                             mask : SUBSET {R, W}]]
      BY <2>4, <3>3 DEF HandOut
    <3> QED
      BY SMTT(20), <2>1, <2>4, <3>2, <3>4, <1>6 DEF HandOut, Take
  <2> QED
    BY <2>1, <2>3, <2>4
<1>7. CASE Update(w)
  BY <1>0, <1>7 DEF Update, Labels
<1>8. CASE Modify(w)
  <2>1. /\ at' \in [Worker -> [fd : Fd \cup {None}, h : Handler \cup {None},
                             mask : SUBSET {R, W}]]
        /\ UNCHANGED <<leader, fired, sock, input, pool, new, rest, failed>>
    BY <1>8, IdleType DEF Modify
  <2>2. interest' \in [Fd -> (SUBSET {R, W}) \cup {{None}}]
    <3>1. at[w].h \in Handler
      BY <1>0, <1>8 DEF Control, Modify, Free
    <3>2. flags[at[w].h] \in SUBSET {R, W}
      BY <3>1
    <3> QED
      BY <3>2, <1>8 DEF Modify
  <2>3. /\ pc' \in [Worker -> Labels]
        /\ \A v \in Worker : (pc'[v] = "poll") <=> (pc[v] = "poll")
    BY ZenonT(20), <1>8 DEF Modify, Labels
  <2>4. conns' \in [Fd -> Handler \cup {None}]
    BY <1>8 DEF Modify
  <2> QED
    BY <2>1, <2>2, <2>3, <2>4
<1>9. CASE Read(w)
  BY <1>0, <1>9 DEF Read, Labels
<1>10. CASE ReadFails(w)
  BY <1>0, <1>10 DEF ReadFails, Labels
<1>11. CASE ReadDone(w)
  <2>1. at[w].h \in Handler
    BY <1>0, <1>11 DEF Control, ReadDone, Free
  <2>2. flags' \in [Handler -> SUBSET {R, W}]
    BY <2>1, <1>11, FlagsType DEF ReadDone
  <2>3. /\ pc' \in [Worker -> Labels]
        /\ \A v \in Worker : (pc'[v] = "poll") <=> (pc[v] = "poll")
    BY <1>11 DEF ReadDone, Labels
  <2> QED
    BY <2>2, <2>3, <1>11 DEF ReadDone
<1>12. CASE Write(w)
  <2>1. PICK more \in BOOLEAN : /\ unsent' = [unsent EXCEPT ![at[w].h] = more]
                               /\ flags' = [flags EXCEPT ![at[w].h] = Flags(more)]
    BY <1>12 DEF Write
  <2>2. /\ flags' \in [Handler -> SUBSET {R, W}]
        /\ unsent' \in [Handler -> BOOLEAN]
    BY <2>1, FlagsType
  <2>3. /\ pc' \in [Worker -> Labels]
        /\ \A v \in Worker : (pc'[v] = "poll") <=> (pc[v] = "poll")
    BY <1>12 DEF Write, Labels
  <2> QED
    BY <2>2, <2>3, <1>12 DEF Write
<1>13. CASE WriteFails(w)
  BY <1>0, <1>13 DEF WriteFails, Labels
<1>14. CASE DeleteConn(w)
  BY <1>0, <1>14 DEF DeleteConn, Forget, Labels
<1>15. CASE DeleteEpoll(w)
  BY <1>0, <1>15 DEF DeleteEpoll, Unwatch, Labels
<1>16. CASE Close(w)
  BY <1>0, <1>16 DEF Close, CloseFd, Unwatch, Labels
<1>17. CASE PoolFree(w)
  <2>1. at' \in [Worker -> [fd : Fd \cup {None}, h : Handler \cup {None},
                          mask : SUBSET {R, W}]]
    BY <1>17, IdleType DEF PoolFree
  <2>2. /\ pc' \in [Worker -> Labels]
        /\ \A v \in Worker : (pc'[v] = "poll") <=> (pc[v] = "poll")
    BY <1>17 DEF PoolFree, Labels
  <2>3. /\ fdOf' \in [Handler -> Fd \cup {None}]
        /\ flags' \in [Handler -> SUBSET {R, W}]
        /\ unsent' \in [Handler -> BOOLEAN]
    BY <1>17 DEF PoolFree, Reset
  <2> QED
    BY <2>1, <2>2, <2>3, <1>17 DEF PoolFree
<1>18. CASE Accept(w)
  <2>1. PICK fd \in Conn, h \in Handler :
           /\ sock' = [sock EXCEPT ![fd] = "open"]
           /\ fdOf' = [fdOf EXCEPT ![h] = fd]
           /\ flags' = [flags EXCEPT ![h] = {R, W}]
           /\ new' = [new EXCEPT ![w] = [fd |-> fd, h |-> h]]
    BY <1>18 DEF Accept
  <2>2. /\ sock' \in [Fd -> {"free", "open", "eof"}]
        /\ fdOf' \in [Handler -> Fd \cup {None}]
        /\ flags' \in [Handler -> SUBSET {R, W}]
    BY <2>1 DEF Fd
  <2>3. new' \in [Worker -> [fd : Fd \cup {None}, h : Handler \cup {None}]]
    BY <2>1 DEF Fd
  <2>4. /\ pc' \in [Worker -> Labels]
        /\ \A v \in Worker : (pc'[v] = "poll") <=> (pc[v] = "poll")
    BY <1>18 DEF Accept, Labels
  <2> QED
    BY <2>2, <2>3, <2>4, <1>18 DEF Accept
<1>19. CASE AcceptDone(w)
  BY <1>0, <1>19 DEF AcceptDone, Labels
<1>23. CASE AcceptFails(w)
  BY <1>0, <1>23 DEF AcceptFails, Labels
<1>20. CASE AddConn(w)
  BY <1>0, <1>20 DEF AddConn, Labels
<1>21. CASE AddEpoll(w)
  <2>1. new[w].h \in Handler
    BY <1>0, <1>21 DEF Control, AddEpoll, Adding
  <2>2. interest' \in [Fd -> (SUBSET {R, W}) \cup {{None}}]
    BY <2>1, <1>21 DEF AddEpoll
  <2>3. new' \in [Worker -> [fd : Fd \cup {None}, h : Handler \cup {None}]]
    BY <1>21, IdleType DEF AddEpoll
  <2>4. /\ pc' \in [Worker -> Labels]
        /\ \A v \in Worker : (pc'[v] = "poll") <=> (pc[v] = "poll")
    BY <1>21 DEF AddEpoll, Labels
  <2> QED
    BY <2>2, <2>3, <2>4, <1>21 DEF AddEpoll
<1>22. CASE AddFails(w)
  <2>1. new' \in [Worker -> [fd : Fd \cup {None}, h : Handler \cup {None}]]
    BY <1>22, IdleType DEF AddFails
  <2>2. /\ pc' \in [Worker -> Labels]
        /\ \A v \in Worker : (pc'[v] = "poll") <=> (pc[v] = "poll")
    BY <1>22 DEF AddFails, Labels
  <2>3. /\ fdOf' \in [Handler -> Fd \cup {None}]
        /\ flags' \in [Handler -> SUBSET {R, W}]
        /\ unsent' \in [Handler -> BOOLEAN]
    BY <1>22 DEF AddFails, Reset
  <2>4. /\ conns' \in [Fd -> Handler \cup {None}]
        /\ sock' \in [Fd -> {"free", "open", "eof"}]
        /\ input' \in [Fd -> BOOLEAN]
    BY <1>22 DEF AddFails
  <2> QED
    BY <2>1, <2>2, <2>3, <2>4, <1>22 DEF AddFails
<1> QED
  BY <1>1, <1>2, <1>3, <1>4, <1>5, <1>6, <1>7, <1>8, <1>9, <1>10, <1>11, <1>12, <1>13, <1>14, <1>15, <1>16, <1>17, <1>18, <1>19, <1>20, <1>21, <1>22, <1>23 DEF Step

LEMMA StepControl ==
  ASSUME Base, NEW w \in Worker, Step(w)
  PROVE  Control(w)'
<1> USE DEF Base, TypeOK, Control, Fd, Free, Adding, Goto, local
<1>1. CASE Top(w)
  BY <1>1 DEF Top
<1>2. CASE LockLeader(w)
  BY <1>2 DEF LockLeader
<1>3. CASE Timeout(w)
  BY <1>3 DEF Timeout, vars
<1>4. CASE AeWait(w)
  BY <1>4 DEF AeWait
<1>5. CASE LeaderLeaves(w)
  BY <1>5 DEF LeaderLeaves
<1>6. CASE Take(w)
  <2>1. PICK e \in fired : IF conns[e.fd] = None THEN DropOrphan(e.fd)
                          ELSE HandOut(w, e.fd, e.mask)
    BY <1>6 DEF Take
  <2>2. e.fd \in Conn \cup {Listen}
    BY <2>1 DEF Reports
  <2> QED
    BY <1>6, <2>1, <2>2 DEF Take, DropOrphan, HandOut, Entry
<1>7. CASE Update(w)
  BY <1>7 DEF Update
<1>8. CASE Modify(w)
  BY <1>8 DEF Modify
<1>9. CASE Read(w)
  BY <1>9 DEF Read
<1>10. CASE ReadFails(w)
  BY <1>10 DEF ReadFails
<1>11. CASE ReadDone(w)
  BY <1>11 DEF ReadDone
<1>12. CASE Write(w)
  BY <1>12 DEF Write
<1>13. CASE WriteFails(w)
  BY <1>13 DEF WriteFails
<1>14. CASE DeleteConn(w)
  BY <1>14 DEF DeleteConn, Forget
<1>15. CASE DeleteEpoll(w)
  BY <1>15 DEF DeleteEpoll, Unwatch
<1>16. CASE Close(w)
  BY <1>16 DEF Close, CloseFd, Unwatch
<1>17. CASE PoolFree(w)
  BY <1>17 DEF PoolFree
<1>18. CASE Accept(w)
  <2>1. PICK fd \in Conn, h \in Handler : new' = [new EXCEPT ![w] = [fd |-> fd, h |-> h]]
    BY <1>18 DEF Accept
  <2>2. at' = at /\ pc[w] = "accept" /\ pc' = [pc EXCEPT ![w] = "add_conn"]
    BY <1>18 DEF Accept
  <2>3. new'[w].fd \in Conn /\ new'[w].h \in Handler
    BY <2>1
  <2> QED
    BY <2>2, <2>3
<1>19. CASE AcceptDone(w) \/ AcceptFails(w)
  BY <1>19 DEF AcceptDone, AcceptFails
<1>20. CASE AddConn(w)
  BY <1>20 DEF AddConn
<1>21. CASE AddEpoll(w)
  BY <1>21 DEF AddEpoll
<1>22. CASE AddFails(w)
  BY <1>22 DEF AddFails
<1> QED
  BY <1>1, <1>2, <1>3, <1>4, <1>5, <1>6, <1>7, <1>8, <1>9, <1>10, <1>11, <1>12, <1>13, <1>14, <1>15, <1>16, <1>17, <1>18, <1>19, <1>20, <1>21, <1>22 DEF Step

(***************************************************************************)
(* A step of worker w touches the descriptors and handlers it holds before *)
(* or after it, and those belong to no other worker.  What is left to show *)
(* of each action is the part about these.                                 *)
(***************************************************************************)
Fds(w) == Serves(w) \cup Serves(w)'
Handlers(w) == Uses(w) \cup Uses(w)'

TouchesOwn(w) ==
    /\ \A fd \in Fd \ Fds(w) : /\ conns'[fd] = conns[fd]
                               /\ interest'[fd] = interest[fd]
                               /\ sock'[fd] = sock[fd]
    /\ \A h \in Handler \ Handlers(w) : /\ fdOf'[h] = fdOf[h]
                                        /\ flags'[h] = flags[h]
                                        /\ unsent'[h] = unsent[h]
    /\ \A fd \in Fds(w) : conns'[fd] \in Handlers(w) \cup {None}

OwnsIt(w) ==
    /\ \A v \in Worker : v # w => /\ Fds(w) \cap Serves(v) = {}
                                  /\ Handlers(w) \cap Uses(v) = {}
    /\ \A h \in Handlers(w), fd \in Fd \ Fds(w) : conns[fd] # h
    /\ \A e \in fired' : e \in fired /\ e.fd \notin Fds(w)
    /\ \A e \in fired : e.fd \notin Fds(w) => e \in fired'

LeavesGood(w) ==
    /\ Owned(w)'
    /\ \A fd \in Fds(w) : FdInv(fd)'
    /\ \A h \in Handlers(w) : HandlerInv(h)'
    /\ \A fd \in Fds(w) : \/ sock'[fd] = "free"
                          \/ IsArmed(fd)' /\ conns'[fd] # None
                          \/ fd \in Serves(w)'

LEMMA HeldTypes ==
  ASSUME Base, NEW w \in Worker
  PROVE  Serves(w) \subseteq Fd /\ Uses(w) \subseteq Handler
  BY DEF Base, TypeOK, Serves, Uses

LEMMA OthersHeld ==
  ASSUME Base, NEW w \in Worker, Step(w), NEW v \in Worker, v # w
  PROVE  Serves(v)' = Serves(v) /\ Uses(v)' = Uses(v)
  BY StepOthers DEF Serves, Uses

LEMMA Frame ==
  ASSUME Base, Base', Looping, Looping', Ownership, NEW w \in Worker, Step(w),
         TouchesOwn(w), OwnsIt(w), LeavesGood(w)
  PROVE  Ownership'
<1>1. \A v \in Worker : v # w => /\ pc'[v] = pc[v] /\ at'[v] = at[v] /\ new'[v] = new[v]
                                 /\ Serves(v)' = Serves(v) /\ Uses(v)' = Uses(v)
  BY StepOthers, OthersHeld
<1>2. Fds(w) \subseteq Fd /\ Handlers(w) \subseteq Handler
  <2>1. Serves(w) \subseteq Fd /\ Uses(w) \subseteq Handler
    BY HeldTypes
  <2>2. Serves(w)' \subseteq Fd /\ Uses(w)' \subseteq Handler
    BY DEF Base, TypeOK, Serves, Uses
  <2> QED
    BY <2>1, <2>2 DEF Fds, Handlers
<1>3. ASSUME NEW v \in Worker PROVE Owned(v)'
  <2>1. CASE v = w
    BY <2>1 DEF LeavesGood
  <2>2. CASE v # w
    <3>1. Owned(v) /\ Control(v) /\ at[v].fd \in Fd \cup {None} /\ new[v].fd \in Fd \cup {None}
      BY DEF Ownership, Base, TypeOK
    <3>2. pc[v] \notin Free => at[v].h \in Handler \ Handlers(w)
      BY <2>2, <3>1 DEF OwnsIt, Uses, Control
    <3>3. pc[v] \in Adding => new[v].h \in Handler \ Handlers(w)
      BY <2>2, <3>1 DEF OwnsIt, Uses, Control
    <3>4. pc[v] \notin Free \cup {"free"} => at[v].fd \in Fd \ Fds(w)
      BY <2>2, <3>1 DEF OwnsIt, Serves, Control
    <3>5. pc[v] \in Adding => new[v].fd \in Fd \ Fds(w)
      BY <2>2, <3>1 DEF OwnsIt, Serves, Control, Fd
    <3>6. pc[v] = "free" => conns'[at[v].fd] # at[v].h
      <4>1. CASE at[v].fd \in Fds(w)
        BY <3>2, <4>1 DEF TouchesOwn, Free
      <4>2. CASE at[v].fd \notin Fds(w)
        BY <3>1, <4>2 DEF TouchesOwn, Owned, Control, Free
      <4> QED
        BY <4>1, <4>2
    <3> QED
      BY <1>1, <2>2, <3>1, <3>2, <3>3, <3>4, <3>5, <3>6
         DEF Owned, TouchesOwn, Holding, Adding, Free
  <2> QED
    BY <2>1, <2>2
<1>4. ASSUME NEW fd \in Fd PROVE FdInv(fd)'
  <2>1. CASE fd \in Fds(w)
    BY <2>1 DEF LeavesGood
  <2>2. CASE fd \notin Fds(w)
    <3>1. FdInv(fd) /\ conns[fd] \in Handler \cup {None}
      BY DEF Ownership, Base, TypeOK
    <3>2. conns[fd] \notin Handlers(w)
      BY <2>2 DEF OwnsIt
    <3>3. \A v \in Worker : fd \notin Serves(v) => fd \notin Serves(v)'
      BY <1>1, <2>2 DEF Fds
    <3> QED
      BY <2>2, <3>1, <3>2, <3>3 DEF FdInv, TouchesOwn, IsArmed
  <2> QED
    BY <2>1, <2>2
<1>5. ASSUME NEW h \in Handler PROVE HandlerInv(h)'
  <2>1. CASE h \in Handlers(w)
    BY <2>1 DEF LeavesGood
  <2>2. CASE h \notin Handlers(w)
    <3>1. HandlerInv(h)
      BY DEF Ownership
    <3>2. at[w].h # h
      BY <2>2 DEF Handlers, Uses
    <3> QED
      BY <1>1, <2>2, <3>1, <3>2 DEF HandlerInv, TouchesOwn
  <2> QED
    BY <2>1, <2>2
<1>6. Distinct' /\ Reported'
  <2>1. Reported'
    BY DEF Ownership, Reported, OwnsIt
  <2>2. Distinct'
    BY <1>1 DEF Ownership, Distinct, OwnsIt, Fds, Handlers
  <2> QED
    BY <2>1, <2>2
<1>7. FiredIsCurrent'
  <2> SUFFICES ASSUME NEW e \in fired'
               PROVE  /\ conns'[e.fd] # None
                      /\ fdOf'[conns'[e.fd]] = e.fd
                      /\ interest'[e.fd] = {}
                      /\ \A v \in Worker : e.fd \notin Serves(v)'
    BY DEF FiredIsCurrent
  <2>1. e \in fired /\ e.fd \notin Fds(w) /\ e.fd \in Fd
    <3>1. e \in fired /\ e.fd \notin Fds(w)
      BY DEF OwnsIt
    <3>2. \A f \in Reports : f.fd \in Fd
      BY DEF Reports
    <3> QED
      BY <3>1, <3>2 DEF Base, TypeOK
  <2>2. /\ conns[e.fd] # None /\ fdOf[conns[e.fd]] = e.fd /\ interest[e.fd] = {}
        /\ \A v \in Worker : e.fd \notin Serves(v)
    BY <2>1 DEF Ownership, FiredIsCurrent
  <2>3. conns[e.fd] \in Handler \ Handlers(w)
    BY <2>1, <2>2 DEF OwnsIt, Base, TypeOK
  <2> QED
    BY <1>1, <2>1, <2>2, <2>3 DEF TouchesOwn, Fds
<1>8. NothingForgotten'
  <2> SUFFICES ASSUME NEW fd \in Fd, sock'[fd] # "free"
               PROVE  \/ IsArmed(fd)' /\ conns'[fd] # None
                      \/ \E e \in fired' : e.fd = fd
                      \/ \E v \in Worker : fd \in Serves(v)'
    BY DEF NothingForgotten, IsArmed
  <2>1. CASE fd \in Fds(w)
    BY <2>1 DEF LeavesGood
  <2>2. CASE fd \notin Fds(w)
    <3>1. \/ IsArmed(fd) /\ conns[fd] # None
          \/ \E e \in fired : e.fd = fd
          \/ \E v \in Worker : fd \in Serves(v)
      BY <2>2 DEF TouchesOwn, Ownership, NothingForgotten, IsArmed
    <3>2. \A v \in Worker : fd \in Serves(v) => fd \in Serves(v)'
      BY <1>1, <2>2 DEF Fds
    <3> QED
      BY <2>2, <3>1, <3>2 DEF TouchesOwn, OwnsIt, IsArmed
  <2> QED
    BY <2>1, <2>2
<1> QED
  BY <1>3, <1>4, <1>5, <1>6, <1>7, <1>8 DEF Ownership

\* A step that takes up nothing new touches what its worker owned before it.
LEMMA Stays ==
  ASSUME Base, Looping, Ownership, NEW w \in Worker, fired' = fired,
         Serves(w)' \subseteq Serves(w), Uses(w)' \subseteq Uses(w)
  PROVE  OwnsIt(w) /\ Fds(w) = Serves(w) /\ Handlers(w) = Uses(w)
<1>1. Fds(w) = Serves(w) /\ Handlers(w) = Uses(w)
  BY DEF Fds, Handlers
<1>2. ASSUME NEW h \in Uses(w), NEW fd \in Fd \ Serves(w) PROVE conns[fd] # h
  <2>1. Owned(w) /\ Control(w) /\ FdInv(fd)
    BY DEF Base, Ownership
  <2>2. CASE h = at[w].h
    BY <1>2, <2>1, <2>2 DEF Uses, Serves, Owned, Control, FdInv, Free, Idle, NoNew
  <2>3. CASE h = new[w].h
    BY <1>2, <2>1, <2>3 DEF Uses, Serves, Owned, Control, FdInv, Adding, Idle, NoNew
  <2> QED
    BY <1>2, <2>2, <2>3 DEF Uses
<1>3. \A v \in Worker : v # w => /\ Serves(w) \cap Serves(v) = {}
                                 /\ Uses(w) \cap Uses(v) = {}
  BY DEF Ownership, Distinct
<1>4. \A e \in fired : e.fd \notin Serves(w)
  BY DEF Ownership, FiredIsCurrent
<1> QED
  BY <1>1, <1>2, <1>3, <1>4 DEF OwnsIt

\* A step that moves no descriptor, no handler and no field of one.
LEMMA KeepsQuiet ==
  ASSUME Base, Base', Looping, Looping', Ownership, NEW w \in Worker, Step(w),
         UNCHANGED <<fired, conns, interest, sock, pool, at, new>>,
         \/ pc[w] \in Free /\ pc'[w] \in Free
         \/ pc[w] \in {"read", "write"} /\ pc'[w] = "delete"
         \/ pc[w] = "accept" /\ pc'[w] = "update"
  PROVE  Ownership'
<1>1. /\ Serves(w)' = Serves(w) /\ Uses(w)' = Uses(w)
  BY DEF Serves, Uses, Free
<1>2. OwnsIt(w) /\ Fds(w) = Serves(w) /\ Handlers(w) = Uses(w)
  BY <1>1, Stays
<1>3. TouchesOwn(w)
  <2>1. \A fd \in Serves(w) : conns[fd] \in Uses(w) \cup {None}
    BY DEF Ownership, Owned, Base, Control, Serves, Uses, Free, Adding, Holding, Idle, NoNew
  <2> QED
    BY <1>2, <2>1 DEF TouchesOwn, pool
<1>4. Owned(w)'
  BY DEF Ownership, Owned, pool, Free, Holding, Adding
<1>5. ASSUME NEW fd \in Fds(w) PROVE FdInv(fd)'
  <2>1. fd \in Fd /\ FdInv(fd) /\ ~IsArmed(fd)
    BY <1>2, HeldTypes DEF Ownership, FdInv
  <2> QED
    BY <2>1 DEF FdInv, IsArmed, pool
<1>6. ASSUME NEW h \in Handlers(w) PROVE HandlerInv(h)'
  <2>1. HandlerInv(h)
    BY <1>2, HeldTypes DEF Ownership
  <2>2. \A v \in Worker : v # w => pc'[v] = pc[v]
    BY StepOthers
  <2> QED
    BY <2>1, <2>2 DEF HandlerInv, pool, Free
<1>7. LeavesGood(w)
  BY <1>1, <1>2, <1>4, <1>5, <1>6 DEF LeavesGood
<1> QED
  BY <1>2, <1>3, <1>7, Frame

\* What a worker in a handler may count on.
LEMMA Works ==
  ASSUME Base, Ownership, NEW w \in Worker, pc[w] \notin Free \cup Adding
  PROVE  /\ at[w].fd \in Fd /\ at[w].h \in Handler /\ new[w] = NoNew
         /\ Uses(w) = {at[w].h}
         /\ Serves(w) = IF pc[w] = "free" THEN {} ELSE {at[w].fd}
         /\ fdOf[at[w].h] = at[w].fd
         /\ \A v \in Worker : v # w => at[v].h # at[w].h
         /\ Owned(w) /\ FdInv(at[w].fd) /\ HandlerInv(at[w].h)
<1>1. at[w].fd \in Fd /\ at[w].h \in Handler /\ new[w] = NoNew
  BY DEF Base, Control
<1>2. /\ Uses(w) = {at[w].h}
      /\ Serves(w) = IF pc[w] = "free" THEN {} ELSE {at[w].fd}
  BY <1>1 DEF Uses, Serves, NoNew
<1>3. Owned(w) /\ FdInv(at[w].fd) /\ HandlerInv(at[w].h)
  BY <1>1 DEF Ownership
<1>4. \A v \in Worker : v # w => at[v].h # at[w].h
  BY <1>1, <1>2 DEF Ownership, Distinct, Uses
<1> QED
  BY <1>1, <1>2, <1>3, <1>4 DEF Owned

\* A step of a worker in a handler: what it leaves of its own descriptor and
\* handler is all that is to be shown.
LEMMA WorkStep ==
  ASSUME Base, Base', Looping, Looping', Ownership, NEW w \in Worker, Step(w),
         NEW fd \in Fd, NEW h \in Handler,
         Uses(w) = {h}, Serves(w) = {fd}, fired' = fired,
         Uses(w)' \subseteq {h},
         \/ Serves(w)' = {fd}
         \/ Serves(w)' = {} /\ (sock'[fd] = "free" \/ IsArmed(fd)'),
         \A f \in Fd \ {fd} :
            conns'[f] = conns[f] /\ interest'[f] = interest[f] /\ sock'[f] = sock[f],
         \A g \in Handler \ {h} :
            fdOf'[g] = fdOf[g] /\ flags'[g] = flags[g] /\ unsent'[g] = unsent[g],
         conns'[fd] \in {h, None},
         Owned(w)', FdInv(fd)', HandlerInv(h)'
  PROVE  Ownership'
<1>1. OwnsIt(w) /\ Fds(w) = {fd} /\ Handlers(w) = {h}
  BY Stays
<1>2. TouchesOwn(w)
  BY <1>1 DEF TouchesOwn
<1>3. LeavesGood(w)
  BY <1>1 DEF LeavesGood, FdInv
<1> QED
  BY <1>1, <1>2, <1>3, Frame

LEMMA OwnUpdate ==
  ASSUME Base, Base', Looping, Looping', Ownership, NEW w \in Worker, Step(w), Update(w)
  PROVE  Ownership'
<1>1. pc[w] = "update" /\ pc[w] \notin Free \cup Adding
  BY DEF Update, Free, Adding
<1>2. PICK fd \in Fd, h \in Handler : at[w].fd = fd /\ at[w].h = h
  BY <1>1, Works
<1>3. /\ new[w] = NoNew /\ Uses(w) = {h} /\ Serves(w) = {fd} /\ fdOf[h] = fd
      /\ Owned(w) /\ FdInv(fd) /\ HandlerInv(h) /\ \A v \in Worker : v # w => at[v].h # h
  BY <1>1, <1>2, Works
<1>4. /\ pc'[w] = "modify"
      /\ conns'[fd] = h /\ conns' = [conns EXCEPT ![fd] = h]
      /\ UNCHANGED <<fired, interest, sock, fdOf, flags, unsent, at, new>>
  BY <1>2, <1>3 DEF Update, Goto, local, kernel, pool, rest, Base, TypeOK
<1>5. /\ Uses(w)' = {h} /\ Serves(w)' = {fd}
      /\ fired' = fired
  BY <1>2, <1>3, <1>4 DEF Uses, Serves
<1>6. Owned(w)'
  BY <1>1, <1>2, <1>3, <1>4 DEF Owned, Base, TypeOK, Free, Holding, Adding
<1>7. FdInv(fd)' /\ conns'[fd] \in {h, None}
  BY <1>1, <1>2, <1>3, <1>4, <1>5 DEF FdInv, IsArmed, Owned, Holding, Base, TypeOK
<1>8. HandlerInv(h)'
  BY <1>1, <1>2, <1>3, <1>4 DEF HandlerInv, Flags
<1>9. /\ \A f \in Fd \ {fd} : conns'[f] = conns[f] /\ interest'[f] = interest[f] /\ sock'[f] = sock[f]
      /\ \A g \in Handler \ {h} : fdOf'[g] = fdOf[g] /\ flags'[g] = flags[g] /\ unsent'[g] = unsent[g]
  BY <1>4 DEF Base, TypeOK, Reports
<1> QED
  BY <1>2, <1>3, <1>4, <1>5, <1>6, <1>7, <1>8, <1>9, WorkStep

LEMMA OwnRead ==
  ASSUME Base, Base', Looping, Looping', Ownership, NEW w \in Worker, Step(w), Read(w)
  PROVE  Ownership'
<1>1. pc[w] = "read" /\ pc[w] \notin Free \cup Adding
  BY DEF Read, Free, Adding
<1>2. PICK fd \in Fd, h \in Handler : at[w].fd = fd /\ at[w].h = h
  BY <1>1, Works
<1>3. /\ new[w] = NoNew /\ Uses(w) = {h} /\ Serves(w) = {fd} /\ fdOf[h] = fd
      /\ Owned(w) /\ FdInv(fd) /\ HandlerInv(h) /\ \A v \in Worker : v # w => at[v].h # h
  BY <1>1, <1>2, Works
<1>4. /\ pc'[w] = "read" /\ unsent' \in [Handler -> BOOLEAN]
      /\ \A g \in Handler \ {h} : unsent'[g] = unsent[g]
      /\ UNCHANGED <<fired, conns, interest, sock, fdOf, flags, at, new>>
  BY <1>2, <1>3 DEF Read, Goto, local, kernel, pool, rest, Base, TypeOK
<1>5. /\ Uses(w)' = {h} /\ Serves(w)' = {fd}
      /\ fired' = fired
  BY <1>2, <1>3, <1>4 DEF Uses, Serves
<1>6. Owned(w)'
  BY <1>1, <1>2, <1>3, <1>4 DEF Owned, Base, TypeOK, Free, Holding, Adding
<1>7. FdInv(fd)' /\ conns'[fd] \in {h, None}
  BY <1>1, <1>2, <1>3, <1>4, <1>5 DEF FdInv, IsArmed, Owned, Holding, Base, TypeOK
<1>8. HandlerInv(h)'
  <2>1. fdOf'[h] # None => R \in flags'[h]
    BY <1>3, <1>4 DEF HandlerInv
  <2>2. at'[w].h = h /\ pc'[w] = "read"
    BY <1>2, <1>4
  <2> QED
    BY <2>1, <2>2 DEF HandlerInv
<1>9. /\ \A f \in Fd \ {fd} : conns'[f] = conns[f] /\ interest'[f] = interest[f] /\ sock'[f] = sock[f]
      /\ \A g \in Handler \ {h} : fdOf'[g] = fdOf[g] /\ flags'[g] = flags[g] /\ unsent'[g] = unsent[g]
  BY <1>4 DEF Base, TypeOK, Reports
<1> QED
  BY <1>2, <1>3, <1>4, <1>5, <1>6, <1>7, <1>8, <1>9, WorkStep

LEMMA OwnReadDone ==
  ASSUME Base, Base', Looping, Looping', Ownership, NEW w \in Worker, Step(w), ReadDone(w)
  PROVE  Ownership'
<1>1. pc[w] = "read" /\ pc[w] \notin Free \cup Adding
  BY DEF ReadDone, Free, Adding
<1>2. PICK fd \in Fd, h \in Handler : at[w].fd = fd /\ at[w].h = h
  BY <1>1, Works
<1>3. /\ new[w] = NoNew /\ Uses(w) = {h} /\ Serves(w) = {fd} /\ fdOf[h] = fd
      /\ Owned(w) /\ FdInv(fd) /\ HandlerInv(h) /\ \A v \in Worker : v # w => at[v].h # h
  BY <1>1, <1>2, Works
<1>4. /\ pc'[w] \in {"write", "update"}
      /\ flags' = [flags EXCEPT ![h] = Flags(unsent[h])]
      /\ UNCHANGED <<fired, conns, interest, sock, fdOf, unsent, at, new>>
  BY <1>2, <1>3 DEF ReadDone, Goto, local, kernel, pool, rest, Base, TypeOK
<1>5. /\ Uses(w)' = {h} /\ Serves(w)' = {fd}
      /\ fired' = fired
  BY <1>2, <1>3, <1>4 DEF Uses, Serves
<1>6. Owned(w)'
  BY <1>1, <1>2, <1>3, <1>4 DEF Owned, Base, TypeOK, Free, Holding, Adding
<1>7. FdInv(fd)' /\ conns'[fd] \in {h, None}
  BY <1>1, <1>2, <1>3, <1>4, <1>5 DEF FdInv, IsArmed, Owned, Holding, Base, TypeOK
<1>8. HandlerInv(h)'
  <2>1. flags'[h] = Flags(unsent[h]) /\ unsent'[h] = unsent[h]
    BY <1>4 DEF Base, TypeOK
  <2> QED
    BY <2>1, FlagsType DEF HandlerInv, Flags
<1>9. /\ \A f \in Fd \ {fd} : conns'[f] = conns[f] /\ interest'[f] = interest[f] /\ sock'[f] = sock[f]
      /\ \A g \in Handler \ {h} : fdOf'[g] = fdOf[g] /\ flags'[g] = flags[g] /\ unsent'[g] = unsent[g]
  BY <1>4 DEF Base, TypeOK, Reports
<1> QED
  BY <1>2, <1>3, <1>4, <1>5, <1>6, <1>7, <1>8, <1>9, WorkStep

LEMMA OwnWrite ==
  ASSUME Base, Base', Looping, Looping', Ownership, NEW w \in Worker, Step(w), Write(w)
  PROVE  Ownership'
<1>1. pc[w] = "write" /\ pc[w] \notin Free \cup Adding
  BY DEF Write, Free, Adding
<1>2. PICK fd \in Fd, h \in Handler : at[w].fd = fd /\ at[w].h = h
  BY <1>1, Works
<1>3. /\ new[w] = NoNew /\ Uses(w) = {h} /\ Serves(w) = {fd} /\ fdOf[h] = fd
      /\ Owned(w) /\ FdInv(fd) /\ HandlerInv(h) /\ \A v \in Worker : v # w => at[v].h # h
  BY <1>1, <1>2, Works
<1>4. /\ pc'[w] = "update"
      /\ \E more \in BOOLEAN : /\ unsent' = [unsent EXCEPT ![h] = more]
                              /\ flags' = [flags EXCEPT ![h] = Flags(more)]
      /\ UNCHANGED <<fired, conns, interest, sock, fdOf, at, new>>
  BY <1>2, <1>3 DEF Write, Goto, local, kernel, pool, rest, Base, TypeOK
<1>5. /\ Uses(w)' = {h} /\ Serves(w)' = {fd}
      /\ fired' = fired
  BY <1>2, <1>3, <1>4 DEF Uses, Serves
<1>6. Owned(w)'
  BY <1>1, <1>2, <1>3, <1>4 DEF Owned, Base, TypeOK, Free, Holding, Adding
<1>7. FdInv(fd)' /\ conns'[fd] \in {h, None}
  BY <1>1, <1>2, <1>3, <1>4, <1>5 DEF FdInv, IsArmed, Owned, Holding, Base, TypeOK
<1>8. HandlerInv(h)'
  <2>1. PICK more \in BOOLEAN : unsent'[h] = more /\ flags'[h] = Flags(more)
    BY <1>4 DEF Base, TypeOK
  <2> QED
    BY <2>1 DEF HandlerInv, Flags
<1>9. /\ \A f \in Fd \ {fd} : conns'[f] = conns[f] /\ interest'[f] = interest[f] /\ sock'[f] = sock[f]
      /\ \A g \in Handler \ {h} : fdOf'[g] = fdOf[g] /\ flags'[g] = flags[g] /\ unsent'[g] = unsent[g]
  BY <1>4 DEF Base, TypeOK, Reports
<1> QED
  BY <1>2, <1>3, <1>4, <1>5, <1>6, <1>7, <1>8, <1>9, WorkStep

LEMMA OwnDeleteConn ==
  ASSUME Base, Base', Looping, Looping', Ownership, NEW w \in Worker, Step(w), DeleteConn(w)
  PROVE  Ownership'
<1>1. pc[w] = "delete" /\ pc[w] \notin Free \cup Adding
  BY DEF DeleteConn, Free, Adding
<1>2. PICK fd \in Fd, h \in Handler : at[w].fd = fd /\ at[w].h = h
  BY <1>1, Works
<1>3. /\ new[w] = NoNew /\ Uses(w) = {h} /\ Serves(w) = {fd} /\ fdOf[h] = fd
      /\ Owned(w) /\ FdInv(fd) /\ HandlerInv(h) /\ \A v \in Worker : v # w => at[v].h # h
  BY <1>1, <1>2, Works
<1>4. /\ pc'[w] = "leave_epoll"
      /\ conns' = [conns EXCEPT ![fd] = None]
      /\ UNCHANGED <<fired, interest, sock, fdOf, flags, unsent, at, new>>
  BY <1>2, <1>3 DEF DeleteConn, Forget, Goto, local, kernel, pool, rest, Base, TypeOK
<1>5. /\ Uses(w)' = {h} /\ Serves(w)' = {fd}
      /\ fired' = fired
  BY <1>2, <1>3, <1>4 DEF Uses, Serves
<1>6. Owned(w)'
  BY <1>1, <1>2, <1>3, <1>4 DEF Owned, Base, TypeOK, Free, Holding, Adding
<1>7. FdInv(fd)' /\ conns'[fd] \in {h, None}
  BY <1>1, <1>2, <1>3, <1>4, <1>5 DEF FdInv, IsArmed, Owned, Holding, Base, TypeOK
<1>8. HandlerInv(h)'
  BY <1>1, <1>2, <1>3, <1>4 DEF HandlerInv, Flags
<1>9. /\ \A f \in Fd \ {fd} : conns'[f] = conns[f] /\ interest'[f] = interest[f] /\ sock'[f] = sock[f]
      /\ \A g \in Handler \ {h} : fdOf'[g] = fdOf[g] /\ flags'[g] = flags[g] /\ unsent'[g] = unsent[g]
  BY <1>4 DEF Base, TypeOK, Reports
<1> QED
  BY <1>2, <1>3, <1>4, <1>5, <1>6, <1>7, <1>8, <1>9, WorkStep

LEMMA OwnDeleteEpoll ==
  ASSUME Base, Base', Looping, Looping', Ownership, NEW w \in Worker, Step(w), DeleteEpoll(w)
  PROVE  Ownership'
<1>1. pc[w] = "leave_epoll" /\ pc[w] \notin Free \cup Adding
  BY DEF DeleteEpoll, Free, Adding
<1>2. PICK fd \in Fd, h \in Handler : at[w].fd = fd /\ at[w].h = h
  BY <1>1, Works
<1>3. /\ new[w] = NoNew /\ Uses(w) = {h} /\ Serves(w) = {fd} /\ fdOf[h] = fd
      /\ Owned(w) /\ FdInv(fd) /\ HandlerInv(h) /\ \A v \in Worker : v # w => at[v].h # h
  BY <1>1, <1>2, Works
<1>4. /\ pc'[w] = "close"
      /\ interest' = [interest EXCEPT ![fd] = {None}]
      /\ UNCHANGED <<fired, conns, sock, fdOf, flags, unsent, at, new>>
  BY <1>2, <1>3 DEF DeleteEpoll, Unwatch, Goto, local, kernel, pool, rest, Base, TypeOK
<1>5. /\ Uses(w)' = {h} /\ Serves(w)' = {fd}
      /\ fired' = fired
  BY <1>2, <1>3, <1>4 DEF Uses, Serves
<1>6. Owned(w)'
  BY <1>1, <1>2, <1>3, <1>4 DEF Owned, Base, TypeOK, Free, Holding, Adding
<1>7. FdInv(fd)' /\ conns'[fd] \in {h, None}
  BY <1>1, <1>2, <1>3, <1>4, <1>5 DEF FdInv, IsArmed, Owned, Holding, Base, TypeOK
<1>8. HandlerInv(h)'
  BY <1>1, <1>2, <1>3, <1>4 DEF HandlerInv, Flags
<1>9. /\ \A f \in Fd \ {fd} : conns'[f] = conns[f] /\ interest'[f] = interest[f] /\ sock'[f] = sock[f]
      /\ \A g \in Handler \ {h} : fdOf'[g] = fdOf[g] /\ flags'[g] = flags[g] /\ unsent'[g] = unsent[g]
  BY <1>4 DEF Base, TypeOK, Reports
<1> QED
  BY <1>2, <1>3, <1>4, <1>5, <1>6, <1>7, <1>8, <1>9, WorkStep

LEMMA OwnClose ==
  ASSUME Base, Base', Looping, Looping', Ownership, NEW w \in Worker, Step(w), Close(w)
  PROVE  Ownership'
<1>1. pc[w] = "close" /\ pc[w] \notin Free \cup Adding
  BY DEF Close, Free, Adding
<1>2. PICK fd \in Fd, h \in Handler : at[w].fd = fd /\ at[w].h = h
  BY <1>1, Works
<1>3. /\ new[w] = NoNew /\ Uses(w) = {h} /\ Serves(w) = {fd} /\ fdOf[h] = fd
      /\ Owned(w) /\ FdInv(fd) /\ HandlerInv(h) /\ \A v \in Worker : v # w => at[v].h # h
  BY <1>1, <1>2, Works
<1>4. /\ pc'[w] = "free"
      /\ sock' = [sock EXCEPT ![fd] = "free"]
      /\ interest' = [interest EXCEPT ![fd] = {None}]
      /\ UNCHANGED <<fired, conns, fdOf, flags, unsent, at, new>>
  BY <1>2, <1>3 DEF Close, CloseFd, Unwatch, Goto, local, kernel, pool, rest, Base, TypeOK
<1>5. /\ Uses(w)' = {h} /\ Serves(w)' = {} /\ sock'[fd] = "free"
      /\ fired' = fired
  BY <1>2, <1>3, <1>4 DEF Uses, Serves, Base, TypeOK, NoNew
<1>6. Owned(w)'
  BY <1>1, <1>2, <1>3, <1>4 DEF Owned, Base, TypeOK, Free, Holding, Adding
<1>7. FdInv(fd)' /\ conns'[fd] \in {h, None}
  BY <1>1, <1>2, <1>3, <1>4, <1>5 DEF FdInv, IsArmed, Owned, Holding, Base, TypeOK
<1>8. HandlerInv(h)'
  BY <1>1, <1>2, <1>3, <1>4 DEF HandlerInv, Flags
<1>9. /\ \A f \in Fd \ {fd} : conns'[f] = conns[f] /\ interest'[f] = interest[f] /\ sock'[f] = sock[f]
      /\ \A g \in Handler \ {h} : fdOf'[g] = fdOf[g] /\ flags'[g] = flags[g] /\ unsent'[g] = unsent[g]
  BY <1>4 DEF Base, TypeOK, Reports
<1> QED
  BY <1>2, <1>3, <1>4, <1>5, <1>6, <1>7, <1>8, <1>9, WorkStep

LEMMA OwnModify ==
  ASSUME Base, Base', Looping, Looping', Ownership, NEW w \in Worker, Step(w), Modify(w)
  PROVE  Ownership'
<1>1. pc[w] = "modify" /\ pc[w] \notin Free \cup Adding
  BY DEF Modify, Free, Adding
<1>2. PICK fd \in Fd, h \in Handler : at[w].fd = fd /\ at[w].h = h
  BY <1>1, Works
<1>3. /\ new[w] = NoNew /\ Uses(w) = {h} /\ Serves(w) = {fd} /\ fdOf[h] = fd
      /\ Owned(w) /\ FdInv(fd) /\ HandlerInv(h) /\ \A v \in Worker : v # w => at[v].h # h
  BY <1>1, <1>2, Works
<1>4. interest[fd] = {} /\ conns[fd] = h /\ sock[fd] # "free"
  BY <1>1, <1>2, <1>3 DEF Owned, Holding
<1>5. /\ interest' = [interest EXCEPT ![fd] = flags[h]]
      /\ at'[w] = Idle /\ pc'[w] = "top"
      /\ UNCHANGED <<fired, conns, sock, fdOf, flags, unsent, new>>
  BY <1>2, <1>4 DEF Modify, Registered, Goto, pool, Base, TypeOK
<1>6. IsArmed(fd)' /\ interest'[fd] = flags'[h]
  <2>1. interest'[fd] = flags[h] /\ flags[h] \in SUBSET {R, W}
    BY <1>5 DEF Base, TypeOK
  <2>2. R \in flags[h]
    BY <1>3 DEF HandlerInv
  <2> QED
    BY <1>5, <2>1, <2>2 DEF IsArmed
<1>7. Uses(w)' = {} /\ Serves(w)' = {}
  BY <1>3, <1>5 DEF Uses, Serves, Idle, NoNew
<1>8. Owned(w)'
  BY <1>5 DEF Owned, Free, Holding, Adding
<1>9. FdInv(fd)'
  <2>1. \A v \in Worker : v # w => fd \notin Serves(v)'
    BY <1>3, OthersHeld DEF Ownership, Distinct
  <2> QED
    BY <1>3, <1>4, <1>5, <1>6, <1>7, <2>1 DEF FdInv
<1>10. HandlerInv(h)'
  <2>1. unsent[h] => W \in flags[h]
    BY <1>1, <1>3 DEF HandlerInv
  <2> QED
    BY <1>3, <1>5, <2>1 DEF HandlerInv
<1>11. /\ \A f \in Fd \ {fd} : conns'[f] = conns[f] /\ interest'[f] = interest[f] /\ sock'[f] = sock[f]
       /\ \A g \in Handler \ {h} : fdOf'[g] = fdOf[g] /\ flags'[g] = flags[g] /\ unsent'[g] = unsent[g]
  BY <1>5 DEF Base, TypeOK
<1> QED
  BY <1>3, <1>4, <1>5, <1>6, <1>7, <1>8, <1>9, <1>10, <1>11, WorkStep

LEMMA OwnPoolFree ==
  ASSUME Base, Base', Looping, Looping', Ownership, NEW w \in Worker, Step(w), PoolFree(w)
  PROVE  Ownership'
<1>1. pc[w] = "free" /\ pc[w] \notin Free \cup Adding
  BY DEF PoolFree, Free, Adding
<1>2. PICK h \in Handler : at[w].h = h
  BY <1>1, Works
<1>3. new[w] = NoNew /\ Uses(w) = {h} /\ Serves(w) = {}
  BY <1>1, <1>2, Works
<1>4. /\ fdOf'[h] = None /\ unsent'[h] = FALSE
      /\ \A g \in Handler \ {h} : fdOf'[g] = fdOf[g] /\ flags'[g] = flags[g] /\ unsent'[g] = unsent[g]
      /\ at'[w] = Idle /\ pc'[w] = "top"
      /\ UNCHANGED <<fired, conns, interest, sock, new>>
  BY <1>2 DEF PoolFree, Reset, Goto, kernel, Base, TypeOK
<1>5. Uses(w)' = {} /\ Serves(w)' = {}
  BY <1>3, <1>4 DEF Uses, Serves, Idle, NoNew
<1>6. OwnsIt(w) /\ Fds(w) = {} /\ Handlers(w) = {h}
  BY <1>3, <1>4, <1>5, Stays
<1>7. TouchesOwn(w)
  BY <1>4, <1>6 DEF TouchesOwn
<1>8. LeavesGood(w)
  <2>1. Owned(w)'
    BY <1>4 DEF Owned, Free, Holding, Adding
  <2>2. HandlerInv(h)'
    BY <1>4 DEF HandlerInv
  <2> QED
    BY <1>6, <2>1, <2>2 DEF LeavesGood
<1> QED
  BY <1>6, <1>7, <1>8, Frame

LEMMA OwnTake ==
  ASSUME Base, Base', Looping, Looping', Ownership, NEW w \in Worker, Step(w), Take(w)
  PROVE  Ownership'
<1>1. PICK e \in fired : /\ fired' = fired \ {e}
                        /\ IF conns[e.fd] = None THEN DropOrphan(e.fd)
                           ELSE HandOut(w, e.fd, e.mask)
  BY DEF Take
<1>2. PICK fd \in Fd : e.fd = fd
  <2>1. e \in Reports
    BY DEF Base, TypeOK
  <2> QED
    BY <2>1 DEF Reports
<1>3. /\ conns[fd] # None /\ fdOf[conns[fd]] = fd /\ interest[fd] = {}
      /\ \A v \in Worker : fd \notin Serves(v)
  BY <1>2 DEF Ownership, FiredIsCurrent
<1>4. PICK h \in Handler : conns[fd] = h
  BY <1>3 DEF Base, TypeOK
<1>5. pc[w] = "poll" /\ at[w] = Idle /\ new[w] = NoNew
  BY DEF Take, Base, Control, Free, Adding
<1>6. /\ at'[w].fd = fd /\ at'[w].h = h /\ pc'[w] \in {"accept", "read", "write"}
      /\ UNCHANGED <<conns, interest, sock, fdOf, flags, unsent, new>>
  BY <1>1, <1>2, <1>3, <1>4 DEF Take, HandOut, Entry, Goto, kernel, pool, Base, TypeOK
<1>7. /\ Uses(w) = {} /\ Serves(w) = {} /\ Uses(w)' = {h} /\ Serves(w)' = {fd}
      /\ Fds(w) = {fd} /\ Handlers(w) = {h}
  BY <1>5, <1>6 DEF Uses, Serves, Idle, NoNew, Fds, Handlers
<1>8. FdInv(fd) /\ sock[fd] # "free"
  BY <1>3 DEF Ownership, FdInv
<1>9. ASSUME NEW v \in Worker, v # w PROVE h \notin Uses(v)
  <2>1. Owned(v) /\ Control(v)
    BY DEF Ownership, Base
  <2>2. CASE h = at[v].h
    BY <1>3, <1>4, <2>1, <2>2 DEF Owned, Control, Serves, Idle
  <2>3. CASE h = new[v].h
    BY <1>3, <1>4, <2>1, <2>3 DEF Owned, Control, Serves, NoNew
  <2> QED
    BY <2>2, <2>3 DEF Uses
<1>10. OwnsIt(w)
  <2>1. \A f \in Fd \ {fd} : conns[f] # h
    BY <1>3, <1>4 DEF Ownership, FdInv
  <2>2. \A f \in fired' : f \in fired /\ f.fd # fd
    BY <1>1, <1>2 DEF Ownership, Reported
  <2>3. \A f \in fired : f.fd # fd => f \in fired'
    BY <1>1, <1>2
  <2> QED
    BY <1>3, <1>7, <1>9, <2>1, <2>2, <2>3 DEF OwnsIt
<1>11. TouchesOwn(w)
  BY <1>4, <1>6, <1>7 DEF TouchesOwn
<1>12. LeavesGood(w)
  <2>1. Owned(w)'
    BY <1>3, <1>4, <1>6, <1>8 DEF Owned, Free, Holding, Adding
  <2>2. FdInv(fd)'
    BY <1>3, <1>4, <1>6, <1>8 DEF FdInv, IsArmed
  <2>3. HandlerInv(h)'
    <3>1. HandlerInv(h)
      BY DEF Ownership
    <3>2. \A v \in Worker : v # w => pc'[v] = pc[v] /\ at'[v] = at[v]
      BY StepOthers
    <3>3. at[w].h # h
      BY <1>5 DEF Idle
    <3> QED
      BY <1>6, <3>1, <3>2, <3>3 DEF HandlerInv
  <2> QED
    BY <1>7, <2>1, <2>2, <2>3 DEF LeavesGood
<1> QED
  BY <1>10, <1>11, <1>12, Frame

LEMMA OwnAeWait ==
  ASSUME Base, Base', Looping, Looping', Ownership, NEW w \in Worker, Step(w), AeWait(w)
  PROVE  Ownership'
<1>1. PICK S \in SUBSET Reports :
         /\ \A e \in S : e.mask \in Masks(e.fd)
         /\ \A e, f \in S : e.fd = f.fd => e = f
         /\ fired' = S
         /\ interest' = Disarmed({e.fd : e \in S})
  BY DEF AeWait
<1>2. UNCHANGED <<conns, sock, fdOf, flags, unsent, at, new>> /\ fired = {} /\ pc' = pc
  BY DEF AeWait, pool, local
<1>3. ASSUME NEW e \in S PROVE e.fd \in Fd /\ IsArmed(e.fd) /\ interest'[e.fd] = {}
  <2>1. e.fd \in Fd
    BY DEF Reports
  <2>2. e.mask \in SUBSET (interest[e.fd] \cap {R, W}) /\ e.mask # {}
    BY <1>1 DEF Masks
  <2>3. IsArmed(e.fd)
    BY <2>2 DEF IsArmed
  <2> QED
    BY <1>1, <2>1, <2>3 DEF Disarmed
<1>4. \A fd \in Fd : IF \E e \in S : e.fd = fd THEN interest'[fd] = {}
                     ELSE interest'[fd] = interest[fd]
  BY <1>1 DEF Disarmed
<1>5. \A fd \in Fd : ~IsArmed(fd) => interest'[fd] = interest[fd]
  BY <1>3, <1>4
<1>6. ASSUME NEW v \in Worker PROVE Owned(v)'
  <2>1. Owned(v) /\ Control(v)
    BY DEF Ownership, Base
  <2>2. pc[v] \notin Free => at[v].fd \in Fd
    BY <2>1 DEF Control
  <2>3. pc[v] \in Adding => new[v].fd \in Fd
    BY <2>1 DEF Control, Fd
  <2>4. pc[v] \in Holding \cup {"leave_epoll", "close"} =>
           interest'[at[v].fd] = interest[at[v].fd]
    BY <1>5, <2>1, <2>2 DEF Owned, Holding, Free, Adding, IsArmed
  <2>5. pc[v] \in Adding => interest'[new[v].fd] = interest[new[v].fd]
    BY <1>5, <2>1, <2>3 DEF Owned, IsArmed
  <2> QED
    BY <1>2, <2>1, <2>4, <2>5 DEF Owned
<1>7. Serves(w)' = Serves(w) /\ \A v \in Worker : Serves(v)' = Serves(v) /\ Uses(v)' = Uses(v)
  BY <1>2 DEF Serves, Uses
<1>8. ASSUME NEW fd \in Fd PROVE FdInv(fd)'
  <2>1. FdInv(fd)
    BY DEF Ownership
  <2>2. IsArmed(fd)' => IsArmed(fd) /\ interest'[fd] = interest[fd]
    BY <1>4 DEF IsArmed
  <2> QED
    BY <1>2, <1>5, <1>7, <2>1, <2>2 DEF FdInv, IsArmed
<1>9. ASSUME NEW h \in Handler PROVE HandlerInv(h)'
  BY <1>2 DEF Ownership, HandlerInv
<1>10. Distinct' /\ Reported'
  BY <1>1, <1>7 DEF Ownership, Distinct, Reported
<1>11. FiredIsCurrent'
  <2> SUFFICES ASSUME NEW e \in fired'
               PROVE  /\ conns'[e.fd] # None
                      /\ fdOf'[conns'[e.fd]] = e.fd
                      /\ interest'[e.fd] = {}
                      /\ \A v \in Worker : e.fd \notin Serves(v)'
    BY DEF FiredIsCurrent
  <2>1. e.fd \in Fd /\ IsArmed(e.fd) /\ interest'[e.fd] = {}
    BY <1>1, <1>3
  <2> QED
    BY <1>2, <1>7, <2>1 DEF Ownership, FdInv
<1>12. NothingForgotten'
  BY <1>1, <1>2, <1>4, <1>7 DEF Ownership, NothingForgotten
<1> QED
  BY <1>6, <1>8, <1>9, <1>10, <1>11, <1>12 DEF Ownership

(***************************************************************************)
(* A new connection: while it is created its worker also holds the         *)
(* listener.                                                               *)
(***************************************************************************)
\* What somebody works on is open, and no handler in the pool is in use.
LEMMA InUse ==
  ASSUME Base, Ownership, NEW v \in Worker
  PROVE  /\ \A fd \in Serves(v) : sock[fd] # "free"
         /\ \A h \in Uses(v) : fdOf[h] # None
<1>1. Owned(v) /\ Control(v)
  BY DEF Ownership, Base
<1>2. pc[v] \in Free \cup Holding \cup {"leave_epoll", "close", "free"}
  BY DEF Base, TypeOK, Labels, Free, Holding, Adding
<1>3. at[v].fd \in Serves(v) => sock[at[v].fd] # "free"
  BY <1>1, <1>2 DEF Owned, Control, Serves, Idle, Free, Holding, Adding, NoNew, Fd
<1>4. new[v].fd \in Serves(v) => sock[new[v].fd] # "free"
  BY <1>1, <1>3 DEF Owned, Control, Serves, NoNew
<1>5. at[v].h \in Uses(v) => fdOf[at[v].h] # None
  BY <1>1 DEF Owned, Control, Uses, Idle
<1>6. new[v].h \in Uses(v) => fdOf[new[v].h] # None
  BY <1>1 DEF Owned, Control, Uses, NoNew, Fd
<1> QED
  BY <1>3, <1>4, <1>5, <1>6 DEF Serves, Uses

LEMMA OwnAccept ==
  ASSUME Base, Base', Looping, Looping', Ownership, NEW w \in Worker, Step(w), Accept(w)
  PROVE  Ownership'
<1>1. PICK fd \in Conn, h \in Handler :
         /\ sock[fd] = "free" /\ fdOf[h] = None
         /\ sock' = [sock EXCEPT ![fd] = "open"]
         /\ fdOf' = [fdOf EXCEPT ![h] = fd]
         /\ flags' = [flags EXCEPT ![h] = {R, W}]
         /\ new' = [new EXCEPT ![w] = [fd |-> fd, h |-> h]]
  BY DEF Accept
<1>2. pc[w] = "accept" /\ pc[w] \notin Free \cup Adding
  BY DEF Accept, Free, Adding
<1>3. PICK g \in Handler : at[w].h = g
  BY <1>2, Works
<1>4. /\ new[w] = NoNew /\ Uses(w) = {g} /\ Serves(w) = {Listen} /\ fdOf[g] = Listen
      /\ at[w].fd = Listen /\ Owned(w) /\ HandlerInv(g) /\ FdInv(Listen)
  <2>1. at[w].fd = Listen
    BY <1>2 DEF Base, Control
  <2> QED
    BY <1>2, <1>3, <2>1, Works
<1>5. fd \in Fd /\ fd # Listen /\ g # h /\ FdInv(fd) /\ HandlerInv(h)
  BY <1>1, <1>4 DEF Fd, Ownership
<1>6. /\ pc'[w] = "add_conn" /\ at'[w] = at[w] /\ new'[w] = [fd |-> fd, h |-> h]
      /\ sock'[fd] = "open" /\ fdOf'[h] = fd /\ flags'[h] = {R, W}
      /\ \A f \in Fd \ {fd} : sock'[f] = sock[f]
      /\ \A k \in Handler \ {h} : fdOf'[k] = fdOf[k] /\ flags'[k] = flags[k]
      /\ UNCHANGED <<fired, conns, interest, unsent, at>>
  BY <1>1, <1>5 DEF Accept, Goto, Base, TypeOK
<1>7. /\ Uses(w)' = {g, h} /\ Serves(w)' = {Listen, fd}
      /\ Fds(w) = {Listen, fd} /\ Handlers(w) = {g, h}
  BY <1>3, <1>4, <1>5, <1>6 DEF Uses, Serves, Fds, Handlers, Fd
<1>8. OwnsIt(w)
  <2>1. \A v \in Worker : v # w => /\ {Listen, fd} \cap Serves(v) = {}
                                   /\ {g, h} \cap Uses(v) = {}
    BY <1>1, <1>4, InUse DEF Ownership, Distinct
  <2>2. \A f \in Fd \ {Listen, fd} : conns[f] # g /\ conns[f] # h
    BY <1>1, <1>4 DEF Ownership, FdInv, Fd
  <2>3. \A e \in fired : e.fd \notin {Listen, fd}
    BY <1>1, <1>4, <1>5 DEF Ownership, FiredIsCurrent, FdInv
  <2> QED
    BY <1>6, <1>7, <2>1, <2>2, <2>3 DEF OwnsIt
<1>9. conns[Listen] = g /\ interest[Listen] = {} /\ conns[fd] = None /\ interest[fd] = {None}
  BY <1>1, <1>2, <1>3, <1>4, <1>5 DEF Owned, Holding, FdInv
<1>10. TouchesOwn(w)
  BY <1>6, <1>7, <1>9 DEF TouchesOwn
<1>11. LeavesGood(w)
  <2>1. Owned(w)'
    BY <1>2, <1>3, <1>4, <1>5, <1>6, <1>9 DEF Owned, Free, Holding, Adding, Fd
  <2>2. FdInv(Listen)' /\ FdInv(fd)'
    BY <1>4, <1>5, <1>6, <1>9 DEF FdInv, IsArmed, Fd
  <2>3. HandlerInv(g)'
    <3>1. unsent[g] => W \in flags[g]
      BY <1>2, <1>3, <1>4, Works DEF HandlerInv
    <3> QED
      BY <1>4, <1>5, <1>6, <3>1 DEF HandlerInv
  <2>4. HandlerInv(h)'
    BY <1>6 DEF HandlerInv
  <2> QED
    BY <1>7, <2>1, <2>2, <2>3, <2>4 DEF LeavesGood
<1> QED
  BY <1>8, <1>10, <1>11, Frame

LEMMA Adds ==
  ASSUME Base, Ownership, NEW w \in Worker, pc[w] \in Adding
  PROVE  \E fd \in Conn, g, h \in Handler :
            /\ at[w].fd = Listen /\ at[w].h = g /\ new[w].fd = fd /\ new[w].h = h
            /\ fd # Listen /\ fd \in Fd /\ g # h
            /\ Uses(w) = {g, h} /\ Serves(w) = {Listen, fd}
            /\ fdOf[g] = Listen /\ fdOf[h] = fd
            /\ interest[Listen] = {} /\ conns[Listen] = g /\ sock[Listen] # "free"
            /\ interest[fd] = {None} /\ sock[fd] # "free"
            /\ conns[fd] = IF pc[w] = "add_conn" THEN None ELSE h
            /\ R \in flags[g] /\ R \in flags[h]
            /\ unsent[g] => W \in flags[g]
            /\ unsent[h] => W \in flags[h]
<1>1. PICK fd \in Conn, h \in Handler, g \in Handler :
         new[w].fd = fd /\ new[w].h = h /\ at[w].h = g /\ at[w].fd = Listen
  BY DEF Base, Control, Free, Adding
<1>2. Owned(w) /\ HandlerInv(g) /\ HandlerInv(h)
  BY DEF Ownership
<1>3. fd # Listen /\ fd \in Fd /\ fdOf[g] = Listen /\ fdOf[h] = fd /\ g # h
  BY <1>1, <1>2 DEF Owned, Free, Adding, Fd
<1>4. Uses(w) = {g, h} /\ Serves(w) = {Listen, fd}
  BY <1>1, <1>3 DEF Uses, Serves, Adding, Fd
<1>5. /\ interest[Listen] = {} /\ conns[Listen] = g /\ sock[Listen] # "free"
      /\ interest[fd] = {None} /\ sock[fd] # "free"
      /\ conns[fd] = IF pc[w] = "add_conn" THEN None ELSE h
  BY <1>1, <1>2 DEF Owned, Holding
<1>6. \A v \in Worker : v # w => at[v].h # g /\ at[v].h # h
  BY <1>4 DEF Ownership, Distinct, Uses
<1>7. /\ R \in flags[g] /\ R \in flags[h]
      /\ unsent[g] => W \in flags[g]
      /\ unsent[h] => W \in flags[h]
  BY <1>1, <1>2, <1>3, <1>6 DEF HandlerInv, Adding, Fd
<1> QED
  BY <1>1, <1>3, <1>4, <1>5, <1>7

LEMMA OwnAddConn ==
  ASSUME Base, Base', Looping, Looping', Ownership, NEW w \in Worker, Step(w), AddConn(w)
  PROVE  Ownership'
<1>1. pc[w] = "add_conn" /\ pc[w] \in Adding
  BY DEF AddConn, Adding
<1>2. PICK fd \in Conn, g, h \in Handler :
         /\ at[w].fd = Listen /\ at[w].h = g /\ new[w].fd = fd /\ new[w].h = h
         /\ fd # Listen /\ fd \in Fd /\ g # h
         /\ Uses(w) = {g, h} /\ Serves(w) = {Listen, fd}
         /\ fdOf[g] = Listen /\ fdOf[h] = fd
         /\ interest[Listen] = {} /\ conns[Listen] = g /\ sock[Listen] # "free"
         /\ interest[fd] = {None} /\ sock[fd] # "free"
         /\ conns[fd] = IF pc[w] = "add_conn" THEN None ELSE h
         /\ R \in flags[g] /\ R \in flags[h]
         /\ unsent[g] => W \in flags[g]
         /\ unsent[h] => W \in flags[h]
  BY <1>1, Adds
<1>3. /\ pc'[w] = "add_epoll" /\ conns' = [conns EXCEPT ![fd] = h]
      /\ UNCHANGED <<fired, interest, sock, fdOf, flags, unsent, at, new>>
  BY <1>1, <1>2 DEF AddConn, Goto, kernel, pool, Base, TypeOK
<1>4. conns'[fd] = h /\ \A f \in Fd \ {fd} : conns'[f] = conns[f]
  BY <1>2, <1>3 DEF Base, TypeOK
<1>5. Uses(w)' = {g, h} /\ Serves(w)' = {Listen, fd}
  BY <1>1, <1>2, <1>3 DEF Uses, Serves
<1>6. OwnsIt(w) /\ Fds(w) = {Listen, fd} /\ Handlers(w) = {g, h}
  BY <1>2, <1>3, <1>5, Stays
<1>7. TouchesOwn(w)
  BY <1>2, <1>3, <1>4, <1>6 DEF TouchesOwn, Fd
<1>8. LeavesGood(w)
  <2>1. Owned(w)'
    BY <1>2, <1>3, <1>4 DEF Owned, Free, Holding, Adding, Fd
  <2>2. FdInv(Listen)' /\ FdInv(fd)'
    BY <1>2, <1>3, <1>4 DEF FdInv, IsArmed, Fd
  <2>3. HandlerInv(g)' /\ HandlerInv(h)'
    BY <1>2, <1>3 DEF HandlerInv
  <2> QED
    BY <1>5, <1>6, <2>1, <2>2, <2>3 DEF LeavesGood
<1> QED
  BY <1>6, <1>7, <1>8, Frame

LEMMA OwnAddEpoll ==
  ASSUME Base, Base', Looping, Looping', Ownership, NEW w \in Worker, Step(w), AddEpoll(w)
  PROVE  Ownership'
<1>1. pc[w] = "add_epoll" /\ pc[w] \in Adding
  BY DEF AddEpoll, Adding
<1>2. PICK fd \in Conn, g, h \in Handler :
         /\ at[w].fd = Listen /\ at[w].h = g /\ new[w].fd = fd /\ new[w].h = h
         /\ fd # Listen /\ fd \in Fd /\ g # h
         /\ Uses(w) = {g, h} /\ Serves(w) = {Listen, fd}
         /\ fdOf[g] = Listen /\ fdOf[h] = fd
         /\ interest[Listen] = {} /\ conns[Listen] = g /\ sock[Listen] # "free"
         /\ interest[fd] = {None} /\ sock[fd] # "free"
         /\ conns[fd] = IF pc[w] = "add_conn" THEN None ELSE h
         /\ R \in flags[g] /\ R \in flags[h]
         /\ unsent[g] => W \in flags[g]
         /\ unsent[h] => W \in flags[h]
  BY <1>1, Adds
<1>3. /\ pc'[w] = "accept" /\ interest' = [interest EXCEPT ![fd] = flags[h]]
      /\ new'[w] = NoNew
      /\ UNCHANGED <<fired, conns, sock, fdOf, flags, unsent, at>>
  BY <1>1, <1>2 DEF AddEpoll, Goto, pool, Base, TypeOK
<1>4. interest'[fd] = flags[h] /\ \A f \in Fd \ {fd} : interest'[f] = interest[f]
  BY <1>2, <1>3 DEF Base, TypeOK
<1>5. IsArmed(fd)' /\ conns'[fd] = h
  <2>1. flags[h] \in SUBSET {R, W}
    BY DEF Base, TypeOK
  <2> QED
    BY <1>1, <1>2, <1>3, <1>4, <2>1 DEF IsArmed
<1>6. Uses(w)' = {g} /\ Serves(w)' = {Listen}
  BY <1>1, <1>2, <1>3 DEF Uses, Serves, NoNew, Fd
<1>7. OwnsIt(w) /\ Fds(w) = {Listen, fd} /\ Handlers(w) = {g, h}
  BY <1>2, <1>3, <1>6, Stays
<1>8. TouchesOwn(w)
  BY <1>1, <1>2, <1>3, <1>4, <1>7 DEF TouchesOwn, Fd
<1>9. LeavesGood(w)
  <2>1. Owned(w)'
    BY <1>2, <1>3, <1>4 DEF Owned, Free, Holding, Adding, Fd
  <2>2. FdInv(Listen)'
    BY <1>2, <1>3, <1>4 DEF FdInv, IsArmed, Fd
  <2>3. FdInv(fd)'
    <3>1. \A v \in Worker : v # w => fd \notin Serves(v)'
      BY <1>2, OthersHeld DEF Ownership, Distinct
    <3> QED
      BY <1>2, <1>3, <1>4, <1>5, <1>6, <3>1 DEF FdInv
  <2>4. HandlerInv(g)' /\ HandlerInv(h)'
    BY <1>2, <1>3 DEF HandlerInv
  <2> QED
    BY <1>5, <1>6, <1>7, <2>1, <2>2, <2>3, <2>4 DEF LeavesGood
<1> QED
  BY <1>7, <1>8, <1>9, Frame

LEMMA OwnAddFails ==
  ASSUME Base, Base', Looping, Looping', Ownership, NEW w \in Worker, Step(w), AddFails(w)
  PROVE  Ownership'
<1>1. pc[w] = "add_epoll" /\ pc[w] \in Adding
  BY DEF AddFails, Adding
<1>2. PICK fd \in Conn, g, h \in Handler :
         /\ at[w].fd = Listen /\ at[w].h = g /\ new[w].fd = fd /\ new[w].h = h
         /\ fd # Listen /\ fd \in Fd /\ g # h
         /\ Uses(w) = {g, h} /\ Serves(w) = {Listen, fd}
         /\ fdOf[g] = Listen /\ fdOf[h] = fd
         /\ interest[Listen] = {} /\ conns[Listen] = g /\ sock[Listen] # "free"
         /\ interest[fd] = {None} /\ sock[fd] # "free"
         /\ conns[fd] = IF pc[w] = "add_conn" THEN None ELSE h
         /\ R \in flags[g] /\ R \in flags[h]
         /\ unsent[g] => W \in flags[g]
         /\ unsent[h] => W \in flags[h]
  BY <1>1, Adds
<1>3. /\ pc'[w] = "accept" /\ new'[w] = NoNew
      /\ conns' = [conns EXCEPT ![fd] = None] /\ sock' = [sock EXCEPT ![fd] = "free"]
      /\ fdOf' = [fdOf EXCEPT ![h] = None] /\ flags' = [flags EXCEPT ![h] = {}]
      /\ unsent' = [unsent EXCEPT ![h] = FALSE]
      /\ UNCHANGED <<fired, interest, at>>
  BY <1>1, <1>2 DEF AddFails, Reset, Goto, Base, TypeOK
<1>4. /\ conns'[fd] = None /\ sock'[fd] = "free"
      /\ \A f \in Fd \ {fd} : conns'[f] = conns[f] /\ sock'[f] = sock[f]
      /\ fdOf'[h] = None /\ unsent'[h] = FALSE
      /\ \A k \in Handler \ {h} : fdOf'[k] = fdOf[k] /\ flags'[k] = flags[k] /\ unsent'[k] = unsent[k]
  BY <1>2, <1>3 DEF Base, TypeOK
<1>5. Uses(w)' = {g} /\ Serves(w)' = {Listen}
  BY <1>1, <1>2, <1>3 DEF Uses, Serves, NoNew, Fd
<1>6. OwnsIt(w) /\ Fds(w) = {Listen, fd} /\ Handlers(w) = {g, h}
  BY <1>2, <1>3, <1>5, Stays
<1>7. TouchesOwn(w)
  BY ZenonT(60), <1>2, <1>3, <1>4, <1>6 DEF TouchesOwn, Fd
<1>8. LeavesGood(w)
  <2>1. Owned(w)'
    BY <1>2, <1>3, <1>4 DEF Owned, Free, Holding, Adding, Fd
  <2>2. FdInv(Listen)' /\ FdInv(fd)'
    BY <1>2, <1>3, <1>4 DEF FdInv, IsArmed, Fd
  <2>3. HandlerInv(g)' /\ HandlerInv(h)'
    BY <1>2, <1>4 DEF HandlerInv
  <2> QED
    BY <1>4, <1>5, <1>6, <2>1, <2>2, <2>3 DEF LeavesGood
<1> QED
  BY <1>6, <1>7, <1>8, Frame

LEMMA StepOwnership ==
  ASSUME Base, Base', Looping, Looping', Ownership, NEW w \in Worker, Step(w)
  PROVE  Ownership'
<1>1. CASE \/ Top(w) \/ LockLeader(w) \/ Timeout(w) \/ LeaderLeaves(w) \/ ReadFails(w)
           \/ WriteFails(w) \/ AcceptFails(w) \/ AcceptDone(w)
  <2>1. UNCHANGED <<fired, conns, interest, sock, pool, at, new>>
    BY <1>1 DEF Top, LockLeader, Timeout, LeaderLeaves, ReadFails, WriteFails, AcceptFails,
                AcceptDone,                 vars, kernel, local
  <2>2. \/ pc[w] \in Free /\ pc'[w] \in Free
        \/ pc[w] \in {"read", "write"} /\ pc'[w] = "delete"
        \/ pc[w] = "accept" /\ pc'[w] = "update"
    BY <1>1 DEF Top, LockLeader, Timeout, LeaderLeaves, ReadFails, WriteFails, AcceptFails,
                AcceptDone,                 vars, local, Goto, Free, Base, TypeOK
  <2> QED
    BY <2>1, <2>2, KeepsQuiet
<1>2. CASE AeWait(w)
  BY <1>2, OwnAeWait
<1>3. CASE Take(w)
  BY <1>3, OwnTake
<1>4. CASE Update(w)
  BY <1>4, OwnUpdate
<1>5. CASE Modify(w)
  BY <1>5, OwnModify
<1>6. CASE Read(w)
  BY <1>6, OwnRead
<1>7. CASE ReadDone(w)
  BY <1>7, OwnReadDone
<1>8. CASE Write(w)
  BY <1>8, OwnWrite
<1>9. CASE DeleteConn(w)
  BY <1>9, OwnDeleteConn
<1>10. CASE DeleteEpoll(w)
  BY <1>10, OwnDeleteEpoll
<1>11. CASE Close(w)
  BY <1>11, OwnClose
<1>12. CASE PoolFree(w)
  BY <1>12, OwnPoolFree
<1>13. CASE Accept(w)
  BY <1>13, OwnAccept
<1>14. CASE AddConn(w)
  BY <1>14, OwnAddConn
<1>15. CASE AddEpoll(w)
  BY <1>15, OwnAddEpoll
<1>16. CASE AddFails(w)
  BY <1>16, OwnAddFails
<1> QED
  BY <1>1, <1>2, <1>3, <1>4, <1>5, <1>6, <1>7, <1>8, <1>9, <1>10, <1>11, <1>12, <1>13,
     <1>14, <1>15, <1>16 DEF Step

(***************************************************************************)
(* The other steps: the main thread and the clients.                       *)
(***************************************************************************)
LEMMA StepBase ==
  ASSUME Base, NEW w \in Worker, Step(w)
  PROVE  Base'
  BY StepTypes, StepControl, BaseBy

LEMMA ClientDoes ==
  ASSUME Client
  PROVE  \E fd \in Fd : \/ (input' = [input EXCEPT ![fd] = TRUE] /\ UNCHANGED sock)
                        \/ (sock' = [sock EXCEPT ![fd] = "eof"] /\ UNCHANGED input)
<1>1. PICK fd \in Fd :
         \/ /\ ~input[fd]
            /\ input' = [input EXCEPT ![fd] = TRUE]
            /\ UNCHANGED sock
         \/ /\ fd # Listen
            /\ sock' = [sock EXCEPT ![fd] = "eof"]
            /\ UNCHANGED input
  BY DEF Client
<1> QED
  BY <1>1

LEMMA MainTypes ==
  ASSUME Base, Stop \/ Main \/ Client
  PROVE  TypeOK'
<1> USE DEF Base, TypeOK, beside, local, kernel, pool, rest
<1>1. CASE Stop
  BY <1>1 DEF Stop
<1>2. CASE Leave
  BY <1>2 DEF Leave
<1>3. CASE Join
  BY <1>3 DEF Join
<1>4. CASE Sweep
  <2>1. PICK fd \in left : /\ left' = left \ {fd} /\ old' = conns[fd]
                          /\ main' = IF conns[fd] = None THEN "sweep" ELSE "delete"
    BY <1>4 DEF Sweep
  <2>2. old' \in Handler \cup {None} /\ left' \subseteq Fd
    BY <2>1
  <2> QED
    BY <2>1, <2>2, <1>4 DEF Sweep
<1>5. CASE SweepConn \/ SweepEpoll \/ SweepClose
  <2>1. /\ conns' \in [Fd -> Handler \cup {None}]
        /\ sock' \in [Fd -> {"free", "open", "eof"}]
        /\ input' \in [Fd -> BOOLEAN]
    BY <1>5 DEF SweepConn, SweepEpoll, SweepClose, Forget, CloseFd
  <2>2. {None} \in (SUBSET {R, W}) \cup {{None}}
    OBVIOUS
  <2>3. interest' = interest \/ interest' = [interest EXCEPT ![fdOf[old]] = {None}]
    BY <1>5 DEF SweepConn, SweepEpoll, SweepClose, Unwatch, CloseFd
  <2>4. interest' \in [Fd -> (SUBSET {R, W}) \cup {{None}}]
    BY <2>2, <2>3
  <2> QED
    BY <2>1, <2>4, <1>5 DEF SweepConn, SweepEpoll, SweepClose
<1>7. CASE SweepFree
  <2>1. /\ fdOf' \in [Handler -> Fd \cup {None}]
        /\ flags' \in [Handler -> SUBSET {R, W}]
        /\ unsent' \in [Handler -> BOOLEAN]
    BY <1>7 DEF SweepFree, Reset
  <2> QED
    BY <2>1, <1>7 DEF SweepFree
<1>8. CASE SweepDone
  BY <1>8 DEF SweepDone
<1>6. CASE Client
  <2>1. PICK fd \in Fd : \/ (input' = [input EXCEPT ![fd] = TRUE] /\ UNCHANGED sock)
                        \/ (sock' = [sock EXCEPT ![fd] = "eof"] /\ UNCHANGED input)
    BY <1>6, ClientDoes
  <2>2. sock' \in [Fd -> {"free", "open", "eof"}] /\ input' \in [Fd -> BOOLEAN]
    BY <2>1
  <2>3. traffic' \in 0 .. MaxTraffic
    BY <1>6 DEF Client
  <2> QED
    BY <2>2, <2>3, <1>6 DEF Client
<1> QED
  BY <1>1, <1>2, <1>3, <1>4, <1>5, <1>6, <1>7, <1>8 DEF Main, Sweeping

LEMMA MainBase ==
  ASSUME Base, Stop \/ Main \/ Client
  PROVE  Base' /\ UNCHANGED <<pc, at, new, fired, failed>>
<1>1. UNCHANGED <<pc, at, new, fired, failed>>
  BY DEF Stop, Main, Leave, Join, Sweep, Sweeping, SweepConn, SweepEpoll, SweepClose,
              SweepFree, SweepDone, Client, beside, local, rest
<1>2. \A w \in Worker : Control(w)'
  BY <1>1 DEF Base, Control
<1>3. MainInv'
  BY <1>1 DEF Base, MainInv, Looping, Joined, Stop, Main, Leave, Join, Sweep, Sweeping, SweepConn, SweepEpoll, SweepClose,
              SweepFree, SweepDone,
              Client, rest
<1> QED
  BY <1>1, <1>2, <1>3, MainTypes DEF Base

LEMMA MainOwnership ==
  ASSUME Base, Base', Ownership, Stop \/ Main \/ Client, Looping, Looping'
  PROVE  Ownership'
<1>1. /\ UNCHANGED <<conns, interest, fdOf, flags, unsent, pc, at, new, fired>>
      /\ \A fd \in Fd : (sock'[fd] = "free") <=> (sock[fd] = "free")
  <2>1. CASE Stop \/ Leave
    BY <2>1 DEF Stop, Leave, beside, kernel, pool, local
  <2>2. CASE Client
    BY <2>2 DEF Client, beside, pool, local, Base, TypeOK
  <2>3. ~Join /\ ~Sweep /\ ~Sweeping /\ ~SweepDone
    BY DEF Join, Sweep, Sweeping, SweepConn, SweepEpoll, SweepClose, SweepFree, SweepDone,
       Looping
  <2> QED
    BY <2>1, <2>2, <2>3 DEF Main
<1>2. \A w \in Worker : Serves(w)' = Serves(w) /\ Uses(w)' = Uses(w)
  BY <1>1 DEF Serves, Uses
<1>3. ASSUME NEW w \in Worker PROVE Owned(w)'
  <2>1. Owned(w) /\ Control(w)
    BY DEF Ownership, Base
  <2> QED
    BY <1>1, <2>1 DEF Owned, Control, Free, Holding, Adding, Fd
<1>4. \A fd \in Fd : FdInv(fd)'
  BY <1>1, <1>2 DEF Ownership, FdInv, IsArmed
<1>5. \A h \in Handler : HandlerInv(h)'
  BY <1>1 DEF Ownership, HandlerInv
<1>6. Distinct' /\ Reported' /\ FiredIsCurrent' /\ NothingForgotten'
  BY <1>1, <1>2 DEF Ownership, Distinct, Reported, FiredIsCurrent, NothingForgotten
<1> QED
  BY <1>3, <1>4, <1>5, <1>6 DEF Ownership

(***************************************************************************)
(* The theorems.                                                           *)
(***************************************************************************)
LEMMA IInvInit == Init => IInv
<1> SUFFICES ASSUME NEW h \in Handler, InitWith(h) PROVE IInv
  BY DEF Init
<1> USE DEF InitWith
<1>1. Base
  BY InitBase
<1>2. /\ \A fd \in Fd : IF fd = Listen
                        THEN conns[fd] = h /\ interest[fd] = {R} /\ sock[fd] = "open"
                        ELSE conns[fd] = None /\ interest[fd] = {None} /\ sock[fd] = "free"
      /\ \A g \in Handler : /\ unsent[g] = FALSE
                            /\ IF g = h THEN fdOf[g] = Listen /\ flags[g] = {R}
                               ELSE fdOf[g] = None
      /\ \A w \in Worker : pc[w] = "top" /\ at[w] = Idle /\ new[w] = NoNew
      /\ fired = {} /\ main = "running" /\ failed = FALSE
  OBVIOUS
<1>3. \A w \in Worker : Uses(w) = {} /\ Serves(w) = {}
  BY <1>2 DEF Uses, Serves, Idle, NoNew
<1>4. \A w \in Worker : Owned(w)
  BY <1>2 DEF Owned, Free, Holding, Adding
<1>5. \A fd \in Fd : FdInv(fd)
  BY <1>2, <1>3 DEF FdInv, IsArmed, Fd
<1>6. \A g \in Handler : HandlerInv(g)
  BY <1>2 DEF HandlerInv
<1>7. Distinct /\ Reported /\ FiredIsCurrent
  BY <1>2, <1>3 DEF Distinct, Reported, FiredIsCurrent
<1>8. NothingForgotten
  BY <1>2 DEF NothingForgotten
<1>9. Ownership
  BY <1>4, <1>5, <1>6, <1>7, <1>8 DEF Ownership
<1> QED
  BY <1>1, <1>2, <1>9 DEF IInv, SlotWasFree, Looping

LEMMA IInvNext == IInv /\ [Next]_vars => IInv'
<1> SUFFICES ASSUME IInv, [Next]_vars PROVE IInv'
  OBVIOUS
<1>1. Base /\ SlotWasFree
  BY DEF IInv
<1>2. ASSUME NEW w \in Worker, Step(w) PROVE IInv'
  <2>1. Base'
    BY <1>1, <1>2, StepBase
  <2>2. Looping' <=> Looping
    BY <1>2, StepMain DEF rest, Looping
  <2>3. Looping' => Ownership'
    BY <1>1, <1>2, <2>1, <2>2, StepOwnership DEF IInv
  <2>4. SlotWasFree'
    <3>1. CASE AddConn(w)
      <4>1. Looping => conns[new[w].fd] = None
        BY <3>1 DEF AddConn, IInv, Ownership, Owned, Adding
      <4> QED
        BY <1>1, <2>2, <3>1, <4>1 DEF AddConn, SlotWasFree
    <3>2. CASE failed' = failed
      BY <1>1, <2>2, <3>2 DEF SlotWasFree
    <3>3. AddConn(w) \/ failed' = failed
      BY <1>2 DEF Step, vars, Top, LockLeader, Timeout, AeWait, LeaderLeaves, Take, Update,
         Modify, Read, ReadFails, ReadDone, Write, WriteFails, DeleteConn, DeleteEpoll,
         Close, PoolFree, Accept, AcceptFails, AcceptDone, AddEpoll, AddFails
    <3> QED
      BY <3>1, <3>2, <3>3
  <2> QED
    BY <2>1, <2>3, <2>4 DEF IInv
<1>3. CASE Stop \/ Main \/ Client
  <2>1. Base'
    BY <1>1, <1>3, MainBase
  <2>2. Looping' => Looping
    BY <1>3 DEF Looping, Stop, Main, Leave, Join, Sweep, Sweeping, SweepConn, SweepEpoll, SweepClose,
       SweepFree, SweepDone, Client, beside
  <2>3. SlotWasFree'
    BY <1>1, <1>3, <2>2, MainBase DEF SlotWasFree
  <2>4. Looping' => Ownership'
    BY <1>1, <1>3, <2>1, <2>2, MainOwnership DEF IInv
  <2> QED
    BY <2>1, <2>3, <2>4 DEF IInv
<1>4. CASE UNCHANGED vars
  <2>1. UNCHANGED <<conns, interest, sock, input, fdOf, flags, unsent, pc, at, new, fired,
                    leader, run, main, left, old, traffic, failed>>
    BY <1>4 DEF vars, kernel, pool, local, rest
  <2>2. Base'
    BY <1>1, <2>1 DEF Base, TypeOK, Control, MainInv, Looping
  <2>3. Looping' <=> Looping
    BY <2>1 DEF Looping
  <2>4. \A w \in Worker : Serves(w)' = Serves(w) /\ Uses(w)' = Uses(w)
    BY <2>1 DEF Serves, Uses
  <2>5. Ownership => Ownership'
    BY <2>1, <2>3, <2>4 DEF Ownership, Owned, FdInv, IsArmed, HandlerInv, Distinct,
       Reported, FiredIsCurrent, NothingForgotten
  <2> QED
    BY <1>1, <2>1, <2>2, <2>3, <2>5 DEF IInv, SlotWasFree
<1> QED
  BY <1>2, <1>3, <1>4 DEF Next

\* The inductive invariant holds in every state the threads, the main thread
\* and the clients can reach.
THEOREM Invariance == Spec => []IInv
<1> QED
  BY IInvInit, IInvNext, PTL DEF Spec

\* Type correctness; the leader mutex is held by exactly the thread that waits
\* for events or hands one out (thread_worker).
THEOREM TypeCorrect == Spec => []TypeOK
<1>1. IInv => TypeOK
  BY DEF IInv, Base
<1> QED
  BY <1>1, Invariance, PTL

\* "only one thread works on a handler" (cell_handler.c:26), with any number
\* of threads: EPOLLONESHOT and the order in which update_event, delete_event
\* and add_event touch conns and the epoll set keep the threads apart.
THEOREM HandlerHasOneThread == Spec => []OneThreadPerHandler
<1>1. IInv => OneThreadPerHandler
  <2> SUFFICES ASSUME IInv, Looping,
                      NEW w \in Worker, at[w].h # None
               PROVE  Distinct /\ fdOf[at[w].h] = at[w].fd
    BY DEF OneThreadPerHandler, Distinct, IInv, Ownership
  <2> QED
    BY DEF IInv, Base, Ownership, Owned, Control, Idle
<1> QED
  BY <1>1, Invariance, PTL

\* An event that epoll_wait reported still means the connection it was reported
\* for when a thread takes it up, so thread_worker's branch for a descriptor
\* without a handler is dead while the loop runs.
THEOREM EventsStayCurrent == Spec => []FiredIsCurrent
<1>1. IInv => FiredIsCurrent
  BY DEF IInv, Ownership, FiredIsCurrent
<1> QED
  BY <1>1, Invariance, PTL

\* The assert of add_event (poll_thread.c) does not fail until loop_run closes
\* the connections that are left.
THEOREM AssertHolds == Spec => []SlotWasFree
<1>1. IInv => SlotWasFree
  BY DEF IInv
<1> QED
  BY <1>1, Invariance, PTL

\* Every open descriptor is armed, reported, or in the hands of a thread: no
\* order of update_event, delete_event, close and accept loses one.
THEOREM NoneForgotten == Spec => []NothingForgotten
<1>1. IInv => NothingForgotten
  BY DEF IInv, Ownership, NothingForgotten
<1> QED
  BY <1>1, Invariance, PTL

\* Whenever a connection with unsent bytes is armed, it is armed for
\* writability (hander_send, check_write and update_event).
THEOREM UnsentWatched == Spec => []UnsentIsArmed
<1>1. IInv => UnsentIsArmed
  <2> SUFFICES ASSUME IInv, Looping, NEW fd \in Fd, conns[fd] # None, IsArmed(fd),
                      unsent[conns[fd]]
               PROVE  W \in interest[fd]
    BY DEF UnsentIsArmed, IsArmed
  <2>1. PICK h \in Handler : conns[fd] = h
    BY DEF IInv, Base, TypeOK
  <2>2. FdInv(fd) /\ HandlerInv(h)
    BY DEF IInv, Ownership
  <2>3. ASSUME NEW w \in Worker, at[w].h = h,
               pc[w] \in {"read", "write", "delete", "leave_epoll", "close", "free"}
        PROVE  FALSE
    <3>1. Owned(w) /\ Control(w)
      BY DEF IInv, Ownership, Base
    <3>2. at[w].fd = fd
      BY <2>1, <2>2, <2>3, <3>1 DEF Owned, FdInv, Free
    <3>3. CASE pc[w] = "free"
      BY <2>1, <2>3, <3>1, <3>2, <3>3 DEF Owned
    <3>4. CASE pc[w] # "free"
      BY <2>2, <2>3, <3>2, <3>4 DEF FdInv, Serves, Fd
    <3> QED
      BY <3>3, <3>4
  <2>4. unsent[h] => W \in flags[h]
    BY <2>2, <2>3 DEF HandlerInv
  <2> QED
    BY <2>1, <2>2, <2>4 DEF FdInv
<1> QED
  BY <1>1, Invariance, PTL

\* loop_run joins all but the thread created last, so when it closes what is
\* left at most that one still works on a handler.
THEOREM OneLeft == Spec => []AtMostOneLeft
<1>1. IInv => AtMostOneLeft
  BY DEF IInv, Base, MainInv, Looping, Joined, AtMostOneLeft
<1> QED
  BY <1>1, Invariance, PTL

===============================================================================
