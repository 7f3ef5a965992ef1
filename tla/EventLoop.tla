------------------------------ MODULE EventLoop -------------------------------
(***************************************************************************)
(* The event loop of cell/poll_thread.c and ae_poll.c with the connection  *)
(* handlers of cell_handler.c: leader/follower threads around one epoll    *)
(* set.  The leader lock protects nready and fired only; conns is indexed  *)
(* by descriptor and written by whatever thread works on the descriptor    *)
(* ("with fd as the index no lock is needed").  Two threads are kept away  *)
(* from one handler by EPOLLONESHOT: a reported descriptor is disarmed     *)
(* until update_event arms it again.                                       *)
(*                                                                         *)
(* A step is one access to shared state: conns, the epoll set, a socket,   *)
(* the handler pool.  What is read from a socket is not modelled, only     *)
(* whether something is there and whether something is left to send.       *)
(***************************************************************************)
EXTENDS Naturals, FiniteSets

CONSTANTS Worker,     \* the I/O threads
          Last,       \* the worker loop_run created last
          Conn,       \* the descriptors accept may return
          Listen,     \* the listening socket
          Handler,    \* handler objects: bounds how many exist
          None,
          MayStop,    \* whether a signal may end the loop
          MaxTraffic  \* bound on what the clients do

Fd == Conn \cup {Listen}

R == "readable"
W == "writable"

ASSUME LoopAssumption == /\ Last \in Worker
                         /\ Listen \notin Conn
                         /\ Handler # {}
                         /\ None \notin Fd \cup Handler \cup Worker \cup {R, W}
                         /\ MayStop \in BOOLEAN
                         /\ MaxTraffic \in Nat

VARIABLES run,        \* daemon_run # 0
          leader,     \* the owner of the leader mutex, or None
          fired,      \* the nready events collected and not handed out
          conns,      \* conns[fd]: the handler of fd, or None
          interest,   \* interest[fd]: armed events; {}: disarmed; None: not in epoll
          sock,       \* sock[fd]: "free", "open" or "eof" (closed by the client)
          input,      \* input[fd]: bytes, or connections on Listen, wait in the kernel
          fdOf,       \* fdOf[h]: the field fd, or None while h is in the pool
          flags,      \* flags[h]: the field ev_flags
          unsent,     \* unsent[h]: bytes are in the send stream
          pc,         \* pc[w]: where worker w is
          at,         \* at[w]: the descriptor, handler and mask w works on
          new,        \* new[w]: the descriptor and handler w is creating
          main,       \* where the main thread is in loop_run
          left,       \* loop_run: the indices of conns still to be looked at
          old,        \* the handler loop_run is closing
          traffic,    \* how often the clients acted
          failed      \* whether the assert of add_event has failed

local == <<pc, at, new>>
kernel == <<interest, sock, input>>
pool == <<fdOf, flags, unsent>>
rest == <<run, main, left, old, traffic>>
beside == <<leader, fired, local, failed>>
vars == <<leader, fired, conns, kernel, pool, local, rest, failed>>

Idle == [fd |-> None, h |-> None, mask |-> {}]
NoNew == [fd |-> None, h |-> None]

\* cell_init listens, loop_run has started the threads
InitWith(h) ==
    /\ run = TRUE
    /\ leader = None
    /\ fired = {}
    /\ conns = [fd \in Fd |-> IF fd = Listen THEN h ELSE None]
    /\ interest = [fd \in Fd |-> IF fd = Listen THEN {R} ELSE {None}]
    /\ sock = [fd \in Fd |-> IF fd = Listen THEN "open" ELSE "free"]
    /\ input = [fd \in Fd |-> FALSE]
    /\ fdOf = [g \in Handler |-> IF g = h THEN Listen ELSE None]
    /\ flags = [g \in Handler |-> IF g = h THEN {R} ELSE {}]
    /\ unsent = [g \in Handler |-> FALSE]
    /\ pc = [w \in Worker |-> "top"]
    /\ at = [w \in Worker |-> Idle]
    /\ new = [w \in Worker |-> NoNew]
    /\ main = "running" /\ left = Fd /\ old = None
    /\ traffic = 0
    /\ failed = FALSE

\* the first handler of the pool
Init == InitWith(CHOOSE h \in Handler : TRUE)

Goto(w, label) == pc' = [pc EXCEPT ![w] = label]

-------------------------------------------------------------------------------
(***************************************************************************)
(* thread_worker                                                           *)
(***************************************************************************)
Top(w) == /\ pc[w] = "top"
          /\ Goto(w, IF run THEN "lock" ELSE "exited")
          /\ UNCHANGED <<leader, fired, conns, kernel, pool, at, new, rest, failed>>

LockLeader(w) == /\ pc[w] = "lock"
                 /\ leader = None
                 /\ leader' = w
                 /\ Goto(w, "poll")
                 /\ UNCHANGED <<fired, conns, kernel, pool, at, new, rest, failed>>

Registered(fd) == interest[fd] # {None}

Readable(fd) == R \in interest[fd] /\ (input[fd] \/ sock[fd] = "eof")

\* what epoll may report of fd: whether it is writable is up to the client
Masks(fd) == {m \in SUBSET (interest[fd] \cap {R, W}) :
                 m # {} /\ (R \in m) = Readable(fd)}

Reports == {[fd |-> fd, mask |-> m] : fd \in Fd, m \in {{R}, {W}, {R, W}}}

\* a slip: without EPOLLONESHOT a reported descriptor stays armed
Armed(fds) == interest

Disarmed(fds) == [fd \in Fd |-> IF fd \in fds THEN {} ELSE interest[fd]]

\* half a second passes and nothing is reported: ae_wait is called again
Timeout(w) == /\ pc[w] = "poll" /\ run /\ fired = {}
              /\ \A fd \in Fd : ~Readable(fd)
              /\ UNCHANGED vars

\* ae_wait: everything that is ready is reported at once
AeWait(w) ==
    /\ pc[w] = "poll" /\ run /\ fired = {}
    /\ \E S \in (SUBSET Reports) \ {{}} :
          /\ \A e \in S : e.mask \in Masks(e.fd)
          /\ \A e, f \in S : e.fd = f.fd => e = f
          /\ {fd \in Fd : Readable(fd)} \subseteq {e.fd : e \in S}
          /\ fired' = S
          /\ interest' = Disarmed({e.fd : e \in S})
    /\ UNCHANGED <<leader, conns, sock, input, pool, local, rest, failed>>

\* a slip: the loop is left with the leader lock
LeaveLocked(w) ==
    /\ pc[w] = "poll" /\ ~run
    /\ Goto(w, "exited")
    /\ UNCHANGED <<leader, fired, conns, kernel, pool, at, new, rest, failed>>

LeaderLeaves(w) ==
    /\ pc[w] = "poll" /\ ~run
    /\ leader' = None
    /\ Goto(w, "exited")
    /\ UNCHANGED <<fired, conns, kernel, pool, at, new, rest, failed>>

\* what handle_machine does first
Entry(fd, mask) == IF fd = Listen THEN "accept"
                   ELSE IF R \in mask THEN "read" ELSE "write"

\* "conn %d should not be NULL": the descriptor is closed, the next event taken
DropOrphan(fd) == /\ interest' = [interest EXCEPT ![fd] = {None}]
                  /\ sock' = [sock EXCEPT ![fd] = "free"]
                  /\ input' = [input EXCEPT ![fd] = FALSE]
                  /\ UNCHANGED <<leader, at, pc>>

HandOut(w, fd, mask) ==
    /\ at' = [at EXCEPT ![w] = [fd |-> fd, h |-> conns[fd], mask |-> mask]]
    /\ leader' = None
    /\ Goto(w, Entry(fd, mask))
    /\ UNCHANGED kernel

Take(w) ==
    /\ pc[w] = "poll" /\ run
    /\ \E e \in fired :
          /\ fired' = fired \ {e}
          /\ IF conns[e.fd] = None THEN DropOrphan(e.fd)
             ELSE HandOut(w, e.fd, e.mask)
    /\ UNCHANGED <<conns, pool, new, rest, failed>>

\* update_event: conns first, then the descriptor is armed
Update(w) == /\ pc[w] = "update"
             /\ conns' = [conns EXCEPT ![at[w].fd] = at[w].h]
             /\ Goto(w, "modify")
             /\ UNCHANGED <<leader, fired, kernel, pool, at, new, rest, failed>>

Modify(w) ==
    LET fd == at[w].fd
    IN  /\ pc[w] = "modify"
        /\ IF Registered(fd)
           THEN /\ interest' = [interest EXCEPT ![fd] = flags[at[w].h]]
                /\ at' = [at EXCEPT ![w] = Idle]
                /\ Goto(w, "top")
                /\ UNCHANGED conns
           ELSE /\ conns' = [conns EXCEPT ![fd] = None]
                /\ Goto(w, "delete")
                /\ UNCHANGED <<interest, at>>
        /\ UNCHANGED <<leader, fired, sock, input, pool, new, rest, failed>>

-------------------------------------------------------------------------------
(***************************************************************************)
(* cell_handler.c                                                          *)
(***************************************************************************)
\* a slip: what a full socket left in the send stream is forgotten
FlagsRead(more) == {R}

\* hander_send and check_write: the flags a handler is armed with
Flags(more) == IF more THEN {R, W} ELSE {R}

\* handler_on_read and split_message: bytes are read; process may answer
Read(w) ==
    LET fd == at[w].fd
        h == at[w].h
    IN  /\ pc[w] = "read" /\ input[fd]
        /\ input' = [input EXCEPT ![fd] = FALSE]
        /\ \E answers \in BOOLEAN : unsent' = [unsent EXCEPT ![h] = @ \/ answers]
        /\ UNCHANGED <<leader, fired, conns, interest, sock, fdOf, flags, local,
                       rest, failed>>

\* a slip: the connection is closed without delete_event
CloseOnly(w) ==
    /\ pc[w] = "read"
    /\ input[at[w].fd] \/ sock[at[w].fd] # "open"
    /\ Goto(w, "close")
    /\ UNCHANGED <<leader, fired, conns, kernel, pool, at, new, rest, failed>>

\* a packet that is too long, end of file, or an error
ReadFails(w) ==
    /\ pc[w] = "read"
    /\ input[at[w].fd] \/ sock[at[w].fd] # "open"
    /\ Goto(w, "delete")
    /\ UNCHANGED <<leader, fired, conns, kernel, pool, at, new, rest, failed>>

\* a slip: the descriptor is not armed again
ReadDoneDisarmed(w) ==
    LET h == at[w].h
    IN  /\ pc[w] = "read"
        /\ ~input[at[w].fd] /\ sock[at[w].fd] = "open"
        /\ flags' = [flags EXCEPT ![h] = Flags(unsent[h])]
        /\ at' = [at EXCEPT ![w] = Idle]
        /\ Goto(w, "top")
        /\ UNCHANGED <<leader, fired, conns, kernel, fdOf, unsent, new, rest,
                       failed>>

\* EAGAIN
ReadDone(w) ==
    LET h == at[w].h
    IN  /\ pc[w] = "read"
        /\ ~input[at[w].fd] /\ sock[at[w].fd] = "open"
        /\ flags' = [flags EXCEPT ![h] = Flags(unsent[h])]
        /\ Goto(w, IF W \in at[w].mask THEN "write" ELSE "update")
        /\ UNCHANGED <<leader, fired, conns, kernel, fdOf, unsent, at, new, rest,
                       failed>>

\* handler_on_write: everything, or what fits
Write(w) ==
    LET h == at[w].h
    IN  /\ pc[w] = "write"
        /\ \E more \in IF unsent[h] THEN BOOLEAN ELSE {FALSE} :
              /\ unsent' = [unsent EXCEPT ![h] = more]
              /\ flags' = [flags EXCEPT ![h] = Flags(more)]
        /\ Goto(w, "update")
        /\ UNCHANGED <<leader, fired, conns, kernel, fdOf, at, new, rest, failed>>

WriteFails(w) ==
    /\ pc[w] = "write" /\ unsent[at[w].h] /\ sock[at[w].fd] = "eof"
    /\ Goto(w, "delete")
    /\ UNCHANGED <<leader, fired, conns, kernel, pool, at, new, rest, failed>>

\* handler_close: delete_event, close, pool_free
Forget(h) == conns' = [conns EXCEPT ![fdOf[h]] = None]
Unwatch(h) == interest' = [interest EXCEPT ![fdOf[h]] = {None}]
CloseFd(h) == /\ sock' = [sock EXCEPT ![fdOf[h]] = "free"]
              /\ input' = [input EXCEPT ![fdOf[h]] = FALSE]
              /\ Unwatch(h)

\* the fields of a handler that goes back to the pool are reset
Reset(h) == /\ fdOf' = [fdOf EXCEPT ![h] = None]
            /\ flags' = [flags EXCEPT ![h] = {}]
            /\ unsent' = [unsent EXCEPT ![h] = FALSE]

DeleteConn(w) ==
    /\ pc[w] = "delete"
    /\ Forget(at[w].h)
    /\ Goto(w, "leave_epoll")
    /\ UNCHANGED <<leader, fired, kernel, pool, at, new, rest, failed>>

DeleteEpoll(w) ==
    /\ pc[w] = "leave_epoll"
    /\ Unwatch(at[w].h)
    /\ Goto(w, "close")
    /\ UNCHANGED <<leader, fired, conns, sock, input, pool, at, new, rest, failed>>

Close(w) ==
    /\ pc[w] = "close"
    /\ CloseFd(at[w].h)
    /\ Goto(w, "free")
    /\ UNCHANGED <<leader, fired, conns, pool, at, new, rest, failed>>

PoolFree(w) ==
    /\ pc[w] = "free"
    /\ Reset(at[w].h)
    /\ at' = [at EXCEPT ![w] = Idle]
    /\ Goto(w, "top")
    /\ UNCHANGED <<leader, fired, conns, kernel, new, rest, failed>>

\* handler_on_listening: accept, pool_alloc and the fields of the handler
Accept(w) ==
    /\ pc[w] = "accept" /\ input[Listen]
    /\ \E fd \in Conn, h \in Handler :
          /\ sock[fd] = "free"
          /\ fdOf[h] = None
          /\ sock' = [sock EXCEPT ![fd] = "open"]
          /\ fdOf' = [fdOf EXCEPT ![h] = fd]
          /\ flags' = [flags EXCEPT ![h] = {R, W}]
          /\ new' = [new EXCEPT ![w] = [fd |-> fd, h |-> h]]
    /\ input' = [input EXCEPT ![Listen] = FALSE]
    /\ Goto(w, "add_conn")
    /\ UNCHANGED <<leader, fired, conns, interest, unsent, at, rest, failed>>

\* the new socket cannot be made non-blocking: it is closed, the loop is left
AcceptFails(w) ==
    /\ pc[w] = "accept" /\ input[Listen]
    /\ \E fd \in Conn : sock[fd] = "free"
    /\ input' = [input EXCEPT ![Listen] = FALSE]
    /\ Goto(w, "update")
    /\ UNCHANGED <<leader, fired, conns, interest, sock, pool, at, new, rest, failed>>

\* EAGAIN, or EMFILE when no descriptor is free
AcceptDone(w) ==
    /\ pc[w] = "accept"
    /\ ~input[Listen] \/ \A fd \in Conn : sock[fd] # "free"
    /\ Goto(w, "update")
    /\ UNCHANGED <<leader, fired, conns, kernel, pool, at, new, rest, failed>>

\* add_event
AddConn(w) ==
    /\ pc[w] = "add_conn"
    /\ failed' = (failed \/ conns[new[w].fd] # None)
    /\ conns' = [conns EXCEPT ![new[w].fd] = new[w].h]
    /\ Goto(w, "add_epoll")
    /\ UNCHANGED <<leader, fired, kernel, pool, at, new, rest>>

AddEpoll(w) ==
    /\ pc[w] = "add_epoll" /\ sock[new[w].fd] # "free"
    /\ interest' = [interest EXCEPT ![new[w].fd] = flags[new[w].h]]
    /\ new' = [new EXCEPT ![w] = NoNew]
    /\ Goto(w, "accept")
    /\ UNCHANGED <<leader, fired, conns, sock, input, pool, at, rest, failed>>

\* epoll_ctl fails: add_event, handler_new and handler_on_listening undo it all
AddFails(w) ==
    LET fd == new[w].fd
    IN  /\ pc[w] = "add_epoll"
        /\ conns' = [conns EXCEPT ![fd] = None]
        /\ Reset(new[w].h)
        /\ sock' = [sock EXCEPT ![fd] = "free"]
        /\ input' = [input EXCEPT ![fd] = FALSE]
        /\ new' = [new EXCEPT ![w] = NoNew]
        /\ Goto(w, "accept")
        /\ UNCHANGED <<leader, fired, interest, at, rest, failed>>

Step(w) ==
    \/ Top(w) \/ LockLeader(w) \/ Timeout(w) \/ AeWait(w) \/ LeaderLeaves(w)
    \/ Take(w) \/ Update(w) \/ Modify(w)
    \/ Read(w) \/ ReadFails(w) \/ ReadDone(w) \/ Write(w) \/ WriteFails(w)
    \/ DeleteConn(w) \/ DeleteEpoll(w) \/ Close(w) \/ PoolFree(w)
    \/ Accept(w) \/ AcceptFails(w) \/ AcceptDone(w) \/ AddConn(w) \/ AddEpoll(w) \/ AddFails(w)

-------------------------------------------------------------------------------
(***************************************************************************)
(* loop_run, and sig_handler of cell.c                                     *)
(***************************************************************************)
Stop == /\ MayStop /\ run
        /\ run' = FALSE
        /\ UNCHANGED <<beside, conns, kernel, pool, main, left, old, traffic>>

\* check_zookeeper returns once daemon_run is 0
Leave == /\ main = "running" /\ ~run
         /\ main' = "join"
         /\ UNCHANGED <<beside, conns, kernel, pool, run, left, old, traffic>>

\* a slip: loop_run joins none of them
JoinedNone == {}

\* the loop over the threads ends at thread_count - 1
Joined == Worker \ {Last}

Join == /\ main = "join"
        /\ \A w \in Joined : pc[w] = "exited"
        /\ main' = "sweep"
        /\ UNCHANGED <<beside, conns, kernel, pool, run, left, old, traffic>>

\* the indices of conns are looked at once, in a fixed order; what is found there
\* is closed
Sweep == /\ main = "sweep" /\ left # {}
         /\ LET fd == CHOOSE f \in left : TRUE
            IN  /\ left' = left \ {fd}
                /\ old' = conns[fd]
                /\ main' = IF conns[fd] = None THEN "sweep" ELSE "delete"
         /\ UNCHANGED <<beside, conns, kernel, pool, run, traffic>>

\* handler_close, by the main thread
SweepConn == /\ main = "delete" /\ main' = "leave_epoll"
             /\ Forget(old)
             /\ UNCHANGED <<beside, kernel, pool, run, left, old, traffic>>

SweepEpoll == /\ main = "leave_epoll" /\ main' = "close"
              /\ Unwatch(old)
              /\ UNCHANGED <<beside, conns, sock, input, pool, run, left, old, traffic>>

SweepClose == /\ main = "close" /\ main' = "free"
              /\ CloseFd(old)
              /\ UNCHANGED <<beside, conns, pool, run, left, old, traffic>>

SweepFree == /\ main = "free" /\ main' = "sweep"
             /\ Reset(old) /\ old' = None
             /\ UNCHANGED <<beside, conns, kernel, run, left, traffic>>

SweepDone == /\ main = "sweep" /\ left = {}
             /\ main' = "done"
             /\ UNCHANGED <<beside, conns, kernel, pool, run, left, old, traffic>>

Sweeping == SweepConn \/ SweepEpoll \/ SweepClose \/ SweepFree
Main == Leave \/ Join \/ Sweep \/ Sweeping \/ SweepDone

-------------------------------------------------------------------------------
(***************************************************************************)
(* The clients: bytes or a connection arrive, a connection is closed.      *)
(***************************************************************************)
Client == /\ traffic < MaxTraffic
          /\ traffic' = traffic + 1
          /\ \E fd \in Fd :
                /\ sock[fd] = "open"
                /\ \/ /\ ~input[fd]
                      /\ input' = [input EXCEPT ![fd] = TRUE]
                      /\ UNCHANGED sock
                   \/ /\ fd # Listen
                      /\ sock' = [sock EXCEPT ![fd] = "eof"]
                      /\ UNCHANGED input
          /\ UNCHANGED <<beside, conns, interest, pool, run, main, left, old>>

Next == Stop \/ Main \/ Client \/ \E w \in Worker : Step(w)

Spec == Init /\ [][Next]_vars

(***************************************************************************)
(* Every thread runs.  The leader mutex need not be fair: whoever gets it  *)
(* does the same.                                                          *)
(***************************************************************************)
FairSpec == Spec /\ WF_vars(Main) /\ \A w \in Worker : WF_vars(Step(w))

-------------------------------------------------------------------------------
Labels == {"top", "lock", "poll", "exited", "update", "modify", "read", "write",
           "delete", "leave_epoll", "close", "free", "accept", "add_conn", "add_epoll"}

TypeOK == /\ run \in BOOLEAN /\ failed \in BOOLEAN
          /\ \A w \in Worker : (leader = w) <=> (pc[w] = "poll")
          /\ fired \subseteq Reports
          /\ conns \in [Fd -> Handler \cup {None}]
          /\ interest \in [Fd -> (SUBSET {R, W}) \cup {{None}}]
          /\ sock \in [Fd -> {"free", "open", "eof"}]
          /\ input \in [Fd -> BOOLEAN]
          /\ fdOf \in [Handler -> Fd \cup {None}]
          /\ flags \in [Handler -> SUBSET {R, W}]
          /\ unsent \in [Handler -> BOOLEAN]
          /\ pc \in [Worker -> Labels]
          /\ at \in [Worker -> [fd : Fd \cup {None}, h : Handler \cup {None},
                                mask : SUBSET {R, W}]]
          /\ new \in [Worker -> [fd : Fd \cup {None}, h : Handler \cup {None}]]
          /\ main \in {"running", "join", "sweep", "delete", "leave_epoll", "close",
                        "free", "done"}
          /\ left \subseteq Fd
          /\ old \in Handler \cup {None}
          /\ traffic \in 0 .. MaxTraffic

\* the handler and the descriptor a thread works on; after close the
\* descriptor is no longer its business
Uses(w) == {at[w].h, new[w].h} \ {None}
Serves(w) == {new[w].fd, IF pc[w] = "free" THEN None ELSE at[w].fd} \ {None}

\* loop_run has not begun to close what is left: afterwards the threads that
\* it did not wait for (AllJoined) work on handlers and descriptors it freed.
Looping == main \in {"running", "join"}

\* "only one thread works on a handler" (cell_handler.c:26): no two threads
\* use or create the same handler or descriptor, and a handler in use still
\* belongs to the descriptor its thread works on.
OneThreadPerHandler ==
    Looping =>
       /\ \A v, w \in Worker : v # w => /\ Uses(v) \cap Uses(w) = {}
                                        /\ Serves(v) \cap Serves(w) = {}
       /\ \A w \in Worker : at[w].h # None => fdOf[at[w].h] = at[w].fd

\* A reported event finds its handler: the descriptor it names was not closed
\* or given to another connection since epoll_wait reported it, and nobody
\* else is working on it.  So the branch for a NULL handler is never taken.
FiredIsCurrent ==
    Looping =>
       \A e \in fired : /\ conns[e.fd] # None
                        /\ fdOf[conns[e.fd]] = e.fd
                        /\ interest[e.fd] = {}
                        /\ \A w \in Worker : e.fd \notin Serves(w)

\* assert(loop.conns[fd] == NULL) of add_event does not fail, although close
\* frees the descriptor for accept in another thread at once.  (It may once
\* loop_run closes handlers under the hands of the worker it did not join: that
\* worker gives a handler and its descriptor back and gets both again between
\* two calls of the main thread's handler_close.)
SlotWasFree == Looping => ~failed

\* No descriptor is forgotten: an open connection is armed, was reported, or
\* is in the hands of exactly the thread that will arm or close it.
NothingForgotten ==
    Looping =>
       \A fd \in Fd : sock[fd] # "free" =>
           \/ interest[fd] \notin {{}, {None}} /\ conns[fd] # None
           \/ \E e \in fired : e.fd = fd
           \/ \E w \in Worker : fd \in Serves(w)

\* Nothing stays in a send stream unless epoll watches for writability: no
\* answer waits for the client's next request.
UnsentIsArmed ==
    Looping =>
       \A fd \in Fd : (conns[fd] # None /\ interest[fd] \notin {{}, {None}})
                         => (unsent[conns[fd]] => W \in interest[fd])

\* What a client sends is read, or the connection is closed, once the clients
\* pause: between EAGAIN and update_event no arrival is lost.
InputServed == \A fd \in Conn : input[fd] /\ run ~> ~input[fd] \/ ~run

\* After a signal loop_run gets past its joins: each thread it waits for leaves
\* its loop, whether it was waiting for the leader lock, in epoll_wait or in a
\* handler.
JoinsEnd == ~run ~> ~Looping

\* When the main thread closes the handlers that are left, and at the end, at
\* most one worker still runs: no more than one can work on what is freed.
AtMostOneLeft ==
    ~Looping =>
        \A v, w \in Worker : pc[v] # "exited" /\ pc[w] # "exited" => v = w

\* "wait for all threads to exit" (poll_thread.c:165), "stopped all thread!"
\* (:171): when the main thread closes the handlers that are left, no worker
\* runs any more.
AllJoined == ~Looping => \A w \in Worker : pc[w] = "exited"
===============================================================================
