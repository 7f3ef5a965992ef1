------------------------------ MODULE RpcClient -------------------------------
(***************************************************************************)
(* The client library rpc/meta_rpc.c: threads that call metaservers over a *)
(* shared pool of sockets.  The pool is read and written only inside       *)
(* LOCK/UNLOCK sections (the "busy" entries by their owner too), so each   *)
(* section is one step; everything else a call does (checking a pooled     *)
(* socket, connecting, the unlocked sid_seed++, sending, waiting) is a     *)
(* step of its own.                                                        *)
(*                                                                         *)
(* A connection is a FIFO in both directions.  The far end is the server   *)
(* of cell/cell.c: it works the requests of one connection off in order    *)
(* and answers each, or none (a request that cannot be decoded).  An       *)
(* answer arrives whole or in two pieces, however late; recv_packet takes  *)
(* what has arrived, looks at the first packet and forgets the rest.       *)
(***************************************************************************)
EXTENDS Naturals, Sequences, FiniteSets, FiniteSetsExt

CONSTANTS Thread,     \* the threads of the application
          Server,     \* metaservers, records [ip, port]
          Fd,         \* descriptors: bounds how many sockets are open
          Size,       \* MAX_SIZE, 128
          PerMeta,    \* MAX_PRE_META, 8
          MaxCalls,   \* bound on the number of calls
          Kind,       \* the calls made: "get" (a file's meta data), "change"
          Code,       \* the results the servers give
          Split,      \* whether answers may arrive in two pieces
          None

RPC_SUCC == 0
RPC_TIMEOUT == 1
RPC_DB_FAILED == 3
RPC_SOCKET_ERROR == 5
RPC_PACKET_ERROR == 6
RPC_FILESPACE_LIMITED == 8
RPC_NOT_OWNER == 11

NET_SUCC == 0
INSERT_FAILED == 3
KEY_NOT_EXIST == 4
KV_VAULE_ERROR == 254
Shut == 256  \* NET_SUCC, and opened = 0 or a password in the meta data

CallNo == 1 .. MaxCalls
Slot == 1 .. Size
Whole(c) == [call |-> c, part |-> "whole"]
First(c) == [call |-> c, part |-> "first"]
Rest(c) == [call |-> c, part |-> "rest"]
Piece == [call : CallNo, part : {"whole", "first", "rest"}]

Entry == [fd : Fd, ip : {s.ip : s \in Server}, busy : BOOLEAN]
Connection == [to : Server, owed : Seq(Piece), in : Seq(Piece), eof : BOOLEAN]

ASSUME RpcAssumption == /\ Size \in Nat \ {0}
                        /\ PerMeta \in Nat \ {0}
                        /\ MaxCalls \in Nat
                        /\ \A s \in Server : DOMAIN s = {"ip", "port"}
                        /\ Kind \subseteq {"get", "change"}
                        /\ Code \subseteq Nat
                        /\ None \notin Fd \cup Nat \cup Entry \cup Connection

VARIABLES arr,        \* arr[i]: the socket in slot i, or None
          seed,       \* sid_seed
          conn,       \* conn[fd]: the connection behind fd, or None
          calls,      \* what is known of every call made
          pc,         \* where each thread is
          cur,        \* cur[t]: the call t makes or made last
          fdOf,       \* fdOf[t]: the local fd, or None (-1)
          got         \* got[t]: what recv_packet has read

vars == <<arr, seed, conn, calls, pc, cur, fdOf, got>>

Init == /\ arr = [i \in Slot |-> None]
        /\ seed = 0
        /\ conn = [fd \in Fd |-> None]
        /\ calls = <<>>
        /\ pc = [t \in Thread |-> "idle"]
        /\ cur = [t \in Thread |-> 0]
        /\ fdOf = [t \in Thread |-> None]
        /\ got = [t \in Thread |-> <<>>]

Goto(t, label) == pc' = [pc EXCEPT ![t] = label]
My(t) == calls[cur[t]]
Ip(t) == My(t).to.ip
Note(t, field, v) == calls' = [calls EXCEPT ![cur[t]][field] = v]

\* one of the rpc_ functions is called, with parameters that pass its checks
Call(t) ==
    /\ pc[t] = "idle"
    /\ Len(calls) < MaxCalls
    /\ \E s \in Server, k \in Kind :
          calls' = Append(calls, [to |-> s, kind |-> k, sid |-> None, answer |-> None,
                                  result |-> None, url |-> "unset"])
    /\ cur' = [cur EXCEPT ![t] = Len(calls) + 1]
    /\ Goto(t, "get")
    /\ UNCHANGED <<arr, seed, conn, fdOf, got>>

-------------------------------------------------------------------------------
\* get_socket: the first idle socket to this address; the port is not compared
Used(i) == arr[i] # None

\* a slip: sockets in use are handed out again
FitsBusy(i, ip) == Used(i) /\ arr[i].ip = ip

Fits(i, ip) == Used(i) /\ ~arr[i].busy /\ arr[i].ip = ip

GetSocket(t) ==
    /\ pc[t] = "get"
    /\ LET found == {i \in Slot : Fits(i, Ip(t))}
       IN  IF found = {}
           THEN Goto(t, "connect") /\ UNCHANGED <<arr, fdOf>>
           ELSE LET i == Min(found)
                IN  /\ arr' = [arr EXCEPT ![i].busy = TRUE]
                    /\ fdOf' = [fdOf EXCEPT ![t] = arr[i].fd]
                    /\ Goto(t, "check")
    /\ UNCHANGED <<seed, conn, calls, cur, got>>

Readable(fd) == conn[fd].in # <<>> \/ conn[fd].eof

\* check_socket: an idle socket with something to read is not used
CheckSocket(t) == /\ pc[t] = "check"
                  /\ Goto(t, IF Readable(fdOf[t]) THEN "discard" ELSE "sid")
                  /\ UNCHANGED <<arr, seed, conn, calls, cur, fdOf, got>>

Closed(fd) == conn' = [conn EXCEPT ![fd] = None]

Discard(t) ==
    /\ pc[t] = "discard"
    /\ Closed(fdOf[t])
    /\ arr' = [i \in Slot |-> IF Used(i) /\ arr[i].fd = fdOf[t] THEN None ELSE arr[i]]
    /\ fdOf' = [fdOf EXCEPT ![t] = None]
    /\ Goto(t, "connect")
    /\ UNCHANGED <<seed, calls, cur, got>>

\* connect_metaserver without a pooled socket
Connect(t) == /\ pc[t] = "connect"
              /\ \E fd \in Fd :
                    /\ conn[fd] = None
                    /\ conn' = [conn EXCEPT ![fd] = [to |-> My(t).to, owed |-> <<>>,
                                                     in |-> <<>>, eof |-> FALSE]]
                    /\ fdOf' = [fdOf EXCEPT ![t] = fd]
              /\ Goto(t, "sid")
              /\ UNCHANGED <<arr, seed, calls, cur, got>>

\* url as the get functions leave it; closed: the file is not open or has a password
UrlAfter(t, result) == IF My(t).kind = "get" /\ result # RPC_NOT_OWNER
                       THEN IF result = RPC_SUCC THEN "given" ELSE "NULL"
                       ELSE My(t).url

Result(t, r) == calls' = [calls EXCEPT ![cur[t]].result = r, ![cur[t]].url = UrlAfter(t, r)]

\* there is no socket, or the server does not accept
ConnectFails(t) == /\ pc[t] = "connect"
                   /\ Result(t, RPC_SOCKET_ERROR)
                   /\ Goto(t, "idle")
                   /\ UNCHANGED <<arr, seed, conn, cur, fdOf, got>>

-------------------------------------------------------------------------------
\* body.sid = sid_seed ++: a load and a store, no lock
LoadSid(t) == /\ pc[t] = "sid"
              /\ Note(t, "sid", seed)
              /\ Goto(t, "store")
              /\ UNCHANGED <<arr, seed, conn, cur, fdOf, got>>

StoreSid(t) == /\ pc[t] = "store"
               /\ seed' = My(t).sid + 1
               /\ Goto(t, "send")
               /\ UNCHANGED <<arr, conn, calls, cur, fdOf, got>>

\* send_packet; what send returns is not looked at
SendPacket(t) ==
    /\ pc[t] = "send"
    /\ conn' = IF conn[fdOf[t]].eof THEN conn
               ELSE [conn EXCEPT ![fdOf[t]].owed = Append(@, Whole(cur[t]))]
    /\ Goto(t, "recv")
    /\ UNCHANGED <<arr, seed, calls, cur, fdOf, got>>

\* process_ack: the sid must be ours; the message id is compared with itself
\* (rpc_get_meta compares it with GET_META_ACK)

\* a slip: the sid is not compared
MineByKind(t, c) == calls[c].kind = "get" \/ My(t).kind # "get"

Mine(t, c) == /\ calls[c].kind = "get" \/ My(t).kind # "get"
              /\ calls[c].sid = My(t).sid

\* the answer is an error code or, for a get, may say that the file is closed
Means(t, answer) == IF answer = Shut THEN RPC_NOT_OWNER
                    ELSE IF answer = NET_SUCC THEN RPC_SUCC
                    ELSE IF answer > 7 /\ My(t).kind # "get" THEN answer
                    ELSE RPC_DB_FAILED

\* recv_packet: the first packet is complete (then it is judged), or more is
\* needed; bytes from the middle of a packet read as a length may do either
Complete(s) == s[1].part = "whole" \/ (s[1].part = "first" /\ Len(s) > 1)

Recv(t) ==
    LET fd == fdOf[t]
        s == got[t] \o conn[fd].in
    IN /\ pc[t] = "recv"
       /\ conn[fd].in # <<>>
       /\ conn' = [conn EXCEPT ![fd].in = <<>>]
       /\ \/ /\ Complete(s)
             /\ Result(t, IF Mine(t, s[1].call) THEN Means(t, calls[s[1].call].answer)
                          ELSE RPC_PACKET_ERROR)
             /\ Goto(t, "release")
             /\ got' = [got EXCEPT ![t] = <<>>]
          \/ /\ s[1].part = "rest"
             /\ Result(t, RPC_PACKET_ERROR)
             /\ Goto(t, "release")
             /\ got' = [got EXCEPT ![t] = <<>>]
          \/ /\ ~Complete(s)
             /\ got' = [got EXCEPT ![t] = s]
             /\ UNCHANGED <<pc, calls>>
       /\ UNCHANGED <<arr, seed, cur, fdOf>>

\* select times out, or recvfrom finds the connection closed: both are RPC_TIMEOUT
Timeout(t) == /\ pc[t] = "recv"
              /\ conn[fdOf[t]].in = <<>>
              /\ Result(t, RPC_TIMEOUT)
              /\ got' = [got EXCEPT ![t] = <<>>]
              /\ Goto(t, "release")
              /\ UNCHANGED <<arr, seed, conn, cur, fdOf>>

\* release_socket, after a timeout too
InPool(fd, ip) == {i \in Slot : Used(i) /\ arr[i].ip = ip /\ arr[i].fd = fd}
Free == {i \in Slot : ~Used(i)}

\* a slip: one too many
RoomForOneMore(ip) ==
    Free # {} /\ Cardinality({i \in Slot : Used(i) /\ arr[i].ip = ip}) <= PerMeta

Room(ip) == Free # {} /\ Cardinality({i \in Slot : Used(i) /\ arr[i].ip = ip}) < PerMeta

\* a slip: a socket that does not fit is forgotten
Forgotten(fd, ip) ==
    IF InPool(fd, ip) # {}
    THEN /\ arr' = [arr EXCEPT ![Min(InPool(fd, ip))].busy = FALSE]
         /\ UNCHANGED conn
    ELSE IF Room(ip)
    THEN /\ arr' = [arr EXCEPT ![Min(Free)] = [fd |-> fd, ip |-> ip, busy |-> FALSE]]
         /\ UNCHANGED conn
    ELSE UNCHANGED <<arr, conn>>

Kept(fd, ip) ==
    IF InPool(fd, ip) # {}
    THEN /\ arr' = [arr EXCEPT ![Min(InPool(fd, ip))].busy = FALSE]
         /\ UNCHANGED conn
    ELSE IF Room(ip)
    THEN /\ arr' = [arr EXCEPT ![Min(Free)] = [fd |-> fd, ip |-> ip, busy |-> FALSE]]
         /\ UNCHANGED conn
    ELSE Closed(fd) /\ UNCHANGED arr

ReleaseSocket(t) == /\ pc[t] = "release"
                    /\ Kept(fdOf[t], Ip(t))
                    /\ fdOf' = [fdOf EXCEPT ![t] = None]
                    /\ Goto(t, "idle")
                    /\ UNCHANGED <<seed, calls, cur, got>>

-------------------------------------------------------------------------------
(***************************************************************************)
(* The server's side of a connection (process in cell/cell.c).             *)
(***************************************************************************)
Answers(kind) ==
    Code \cap (IF kind = "get" THEN {NET_SUCC, KEY_NOT_EXIST, KV_VAULE_ERROR, Shut}
              ELSE {NET_SUCC, INSERT_FAILED, RPC_FILESPACE_LIMITED})

Open(fd) == conn[fd] # None /\ ~conn[fd].eof

Arrives(fd, p) == conn' = [conn EXCEPT ![fd].in = Append(@, p), ![fd].owed = Tail(@)]

\* the request is processed; its answer arrives, or the first half of it
Serve(fd) ==
    /\ Open(fd) /\ conn[fd].owed # <<>>
    /\ LET c == Head(conn[fd].owed).call
       IN  /\ Head(conn[fd].owed).part = "whole"
           /\ \E a \in Answers(calls[c].kind) : calls' = [calls EXCEPT ![c].answer = a]
           /\ \/ Arrives(fd, Whole(c))
              \/ /\ Split
                 /\ conn' = [conn EXCEPT ![fd].in = Append(@, First(c)),
                                         ![fd].owed = <<Rest(c)>> \o Tail(@)]
    /\ UNCHANGED <<arr, seed, pc, cur, fdOf, got>>

ServeRest(fd) == /\ Open(fd) /\ conn[fd].owed # <<>>
                 /\ Head(conn[fd].owed).part = "rest"
                 /\ Arrives(fd, Head(conn[fd].owed))
                 /\ UNCHANGED <<arr, seed, calls, pc, cur, fdOf, got>>

\* the request is not decoded, there is no answer
NoAnswer(fd) == /\ Open(fd) /\ conn[fd].owed # <<>>
                /\ Head(conn[fd].owed).part = "whole"
                /\ conn' = [conn EXCEPT ![fd].owed = Tail(@)]
                /\ UNCHANGED <<arr, seed, calls, pc, cur, fdOf, got>>

\* the connection breaks or the server stops
Hangup(fd) == /\ Open(fd)
              /\ conn' = [conn EXCEPT ![fd].eof = TRUE, ![fd].owed = <<>>]
              /\ UNCHANGED <<arr, seed, calls, pc, cur, fdOf, got>>

Act(t) == \/ GetSocket(t) \/ CheckSocket(t) \/ Discard(t)
          \/ Connect(t) \/ ConnectFails(t)
          \/ LoadSid(t) \/ StoreSid(t) \/ SendPacket(t)
          \/ Recv(t) \/ Timeout(t) \/ ReleaseSocket(t)

\* the last call has returned (a bound of the model)
Finished == /\ Len(calls) = MaxCalls
            /\ \A t \in Thread : pc[t] = "idle"
            /\ UNCHANGED vars

Next == \/ \E t \in Thread : Call(t) \/ Act(t)
        \/ \E fd \in Fd : Serve(fd) \/ ServeRest(fd) \/ NoAnswer(fd) \/ Hangup(fd)
        \/ Finished

Spec == Init /\ [][Next]_vars

-------------------------------------------------------------------------------
(***************************************************************************)
(* What the pool has to keep.                                              *)
(***************************************************************************)
Outcome == {None, RPC_SUCC, RPC_TIMEOUT, RPC_DB_FAILED, RPC_SOCKET_ERROR,
            RPC_PACKET_ERROR, RPC_FILESPACE_LIMITED, RPC_NOT_OWNER}

Made == [to : Server, kind : Kind, sid : Nat \cup {None}, answer : Code \cup {None},
         result : Outcome \cup Code, url : {"unset", "NULL", "given"}]

\* The variables have the values the C types and the protocol allow.  The
\* outcome of a call is one of the codes of meta_rpc.h or, when it took the
\* answer to a call with the same number, a code of the server's.
TypeOK ==
    /\ arr \in [Slot -> Entry \cup {None}]
    /\ seed \in Nat
    /\ conn \in [Fd -> Connection \cup {None}]
    /\ calls \in Seq(Made) /\ Len(calls) <= MaxCalls
    /\ pc \in [Thread -> {"idle", "get", "check", "discard", "connect", "sid", "store",
                         "send", "recv", "release"}]
    /\ cur \in [Thread -> 0 .. MaxCalls]
    /\ fdOf \in [Thread -> Fd \cup {None}]
    /\ got \in [Thread -> Seq(Piece)]

Holders(fd) == {t \in Thread : fdOf[t] = fd}
Entries(fd) == {i \in Slot : Used(i) /\ arr[i].fd = fd}

\* Whatever way a call ends, an open socket is in the hands of a call or idle
\* in the pool: none is left open, or busy, for ever.
NoSocketLost ==
    \A fd \in Fd : conn[fd] # None =>
        Holders(fd) # {} \/ \E i \in Entries(fd) : ~arr[i].busy

\* No call and no slot keeps a descriptor that was closed, which the next
\* connect of another call may get again.
NoDangling == \A fd \in Fd : Holders(fd) \cup Entries(fd) # {} => conn[fd] # None

\* A pooled socket leads to the address it is filed under, and a call is never
\* made over a socket to another address than the caller asked for.
RightHost == /\ \A i \in Slot : Used(i) => conn[arr[i].fd].to.ip = arr[i].ip
             /\ \A t \in Thread : fdOf[t] # None => conn[fdOf[t]].to.ip = Ip(t)

\* A socket is used by one call at a time, stands in the pool once, and is
\* marked busy there while a call uses it; it is open and leads where the call
\* and the pool say (get_socket, release_socket, the closing of broken sockets).
SocketExclusive ==
    /\ \A fd \in Fd : /\ Cardinality(Holders(fd)) <= 1
                       /\ Cardinality(Entries(fd)) <= 1
                       /\ Holders(fd) # {} => \A i \in Entries(fd) : arr[i].busy
    /\ NoDangling
    /\ RightHost

\* The pool holds at most MAX_PRE_META sockets to one address.
PoolBounded == \A s \in Server :
    Cardinality({i \in Slot : Used(i) /\ arr[i].ip = s.ip}) <= PerMeta

\* A result that claims to be the server's is the server's answer to this very
\* call, whatever answers to earlier, timed-out calls are still under way.
AnswerIsMine == \A c \in DOMAIN calls :
    calls[c].result \in {RPC_SUCC, RPC_DB_FAILED, RPC_FILESPACE_LIMITED, RPC_NOT_OWNER} =>
        /\ calls[c].answer # None
        /\ (calls[c].answer = NET_SUCC) = (calls[c].result = RPC_SUCC)
        /\ (calls[c].answer = Shut) = (calls[c].result = RPC_NOT_OWNER)

-------------------------------------------------------------------------------
(***************************************************************************)
(* What the comments of the library say and the code does not do.          *)
(***************************************************************************)
\* meta_rpc.h:28, "port: the metaserver port to access": a request is sent to the
\* server it is meant for.
RightServer == \A t \in Thread : pc[t] = "recv" => conn[fdOf[t]].to = My(t).to

\* meta_rpc.h:12, RPC_PACKET_ERROR is "the packet the metaserver answered is
\* wrong"; the server modelled here sends no wrong packet.
NoPacketError == \A c \in DOMAIN calls : calls[c].result # RPC_PACKET_ERROR

\* meta_rpc.h:32 and :65, "url is NULL if the rpc fails".
UrlIsNull == \A c \in DOMAIN calls :
    calls[c].kind = "get" /\ calls[c].result \notin {None, RPC_SUCC} => calls[c].url = "NULL"

\* meta_rpc.h:34, :54 and :66, "2: the meta data does not exist".
MissingIsTold == \A c \in DOMAIN calls :
    calls[c].answer = KEY_NOT_EXIST => calls[c].result # RPC_DB_FAILED

===============================================================================
