--------------------------- MODULE RpcClient_proofs ---------------------------
(***************************************************************************)
(* Proofs about RpcClient, for every number of threads, servers, sockets,  *)
(* slots and calls.  Sockets says who may use a socket and where it leads; *)
(* Traffic says which answers may be under way.  From the first the three  *)
(* properties of the pool follow.  From the second it follows that an      *)
(* answer is never taken for that of another call, as long as no two calls *)
(* drew the same number, and one thread never draws a number twice.        *)
(***************************************************************************)
EXTENDS RpcClient, SequenceTheorems, FiniteSetTheorems, TLAPS

(***************************************************************************)
(* Sockets.                                                                *)
(***************************************************************************)
Holding == {"check", "discard", "sid", "store", "send", "recv", "release"}

\* a call that is under way has been noted; it has a socket between get_socket
\* or connect and release_socket
Control(t) == /\ pc[t] # "idle" => cur[t] \in 1 .. Len(calls)
              /\ (fdOf[t] # None) <=> (pc[t] \in Holding)

\* a call uses an open socket to its host, and nobody else uses it
Held(t) == fdOf[t] # None =>
              /\ conn[fdOf[t]] # None
              /\ conn[fdOf[t]].to.ip = Ip(t)
              /\ \A u \in Thread : u # t => fdOf[u] # fdOf[t]
              /\ \A i \in Slot : Used(i) /\ arr[i].fd = fdOf[t] => arr[i].busy

\* a slot holds an open socket to its host, and no other slot holds it
Stored(i) == Used(i) =>
                /\ conn[arr[i].fd] # None
                /\ conn[arr[i].fd].to.ip = arr[i].ip
                /\ \A j \in Slot : Used(j) /\ arr[j].fd = arr[i].fd => j = i

Sockets == /\ \A t \in Thread : Control(t)
           /\ \A t \in Thread : Held(t)
           /\ \A i \in Slot : Stored(i)
           /\ NoSocketLost
           /\ PoolBounded

(***************************************************************************)
(* Requests and answers.                                                   *)
(***************************************************************************)
Answered(p) == p.call \in 1 .. Len(calls) /\ calls[p.call].answer # None

Pending(p) == IF p.part = "whole"
              THEN p.call \in 1 .. Len(calls) /\ calls[p.call].answer = None
              ELSE Answered(p)

\* what a connection carries: requests that nobody has answered, answers to
\* requests that were processed
Carries(fd) == conn[fd] # None =>
    /\ \A k \in 1 .. Len(conn[fd].in) : Answered(conn[fd].in[k])
    /\ \A k \in 1 .. Len(conn[fd].owed) : Pending(conn[fd].owed[k])

\* request k of connection fd asks for call c
Asks(fd, k, c) == /\ conn[fd] # None
                  /\ k \in 1 .. Len(conn[fd].owed)
                  /\ conn[fd].owed[k] = Whole(c)

AskedOnce == \A c \in CallNo, fd, gd \in Fd, k, l \in Nat :
                Asks(fd, k, c) /\ Asks(gd, l, c) => fd = gd /\ k = l

Before == {"get", "check", "discard", "connect", "sid", "store", "send"}

\* what a thread knows of its call: before it has sent the request nobody has
\* seen it; from sid_seed++ on it has a number
Knows(t) ==
    /\ pc[t] \in Before => /\ My(t).answer = None
                           /\ \A fd \in Fd, k \in Nat : ~Asks(fd, k, cur[t])
    /\ pc[t] \in {"store", "send", "recv", "release"} => My(t).sid # None
    /\ pc[t] # "idle" => \A u \in Thread : u # t /\ pc[u] # "idle" => cur[u] # cur[t]
    /\ \A k \in 1 .. Len(got[t]) : Answered(got[t][k])

Traffic == /\ \A fd \in Fd : Carries(fd)
           /\ AskedOnce
           /\ \A t \in Thread : Knows(t)
           /\ \A c \in 1 .. Len(calls) :
                 calls[c].answer # None => calls[c].answer \in Answers(calls[c].kind)

\* the inductive invariant
IInv == TypeOK /\ Sockets /\ Traffic

\* no two calls drew the same number
UniqueSids == \A c, d \in 1 .. Len(calls) :
    calls[c].sid # None /\ calls[c].sid = calls[d].sid => c = d

\* one thread: sid_seed is beyond every number drawn, but for the moment
\* between the load and the store
Alone == \A t, u \in Thread : t = u

Numbered ==
    /\ \A c \in 1 .. Len(calls) : calls[c].sid # None =>
          \/ calls[c].sid < seed
          \/ calls[c].sid = seed /\ \E t \in Thread : pc[t] = "store" /\ cur[t] = c
    /\ \A t \in Thread : pc[t] = "store" => My(t).sid = seed

-------------------------------------------------------------------------------

\* what the proofs use of the assumption
LEMMA Basics ==
  /\ Size \in Nat /\ PerMeta \in Nat /\ MaxCalls \in Nat /\ Code \subseteq Nat
  /\ None \notin Fd /\ None \notin Nat /\ None \notin Entry /\ None \notin Connection
BY RpcAssumption

USE Basics

(***************************************************************************)
(* The least of some slots is one of them: otherwise the numbers that are  *)
(* not below all of them would be closed under "minus one", an injection   *)
(* of a finite set into itself that misses Size.                           *)
(***************************************************************************)
LEMMA LeastExists ==
  ASSUME NEW S \in SUBSET Slot, S # {}
  PROVE  \E x \in S : \A y \in S : x <= y
<1> SUFFICES ASSUME \A x \in S : \E y \in S : y < x PROVE FALSE
  BY DEF Slot
<1> DEFINE U == {k \in Slot : \E x \in S : x <= k}
           Down == [k \in U |-> k - 1]
<1>1. \A k \in U : k - 1 \in U
  <2> SUFFICES ASSUME NEW k \in Slot, NEW x \in S, x <= k
               PROVE  k - 1 \in Slot /\ \E y \in S : y <= k - 1
    OBVIOUS
  <2>1. PICK y \in S : y < x
    OBVIOUS
  <2> QED
    BY <2>1 DEF Slot
<1>2. IsFiniteSet(U)
  <2>1. IsFiniteSet(Slot)
    BY FS_Interval DEF Slot
  <2> QED
    BY <2>1, FS_Subset
<1>3. Down \in Injection(U, U)
  <2>1. Down \in [U -> U]
    BY <1>1
  <2>2. \A a, b \in U : Down[a] = Down[b] => a = b
    BY DEF Slot
  <2> QED
    BY <2>1, <2>2 DEF Injection, IsInjective
<1>4. Down \in Surjection(U, U)
  <2> HIDE DEF U, Down
  <2> QED
    BY <1>2, <1>3, FS_Injection
<1>5. Size \in U
  <2>1. PICK x \in S : x \in Slot
    OBVIOUS
  <2> QED
    BY <2>1 DEF Slot
<1>6. PICK k \in U : Down[k] = Size
  <2> HIDE DEF U, Down
  <2> QED
    BY <1>4, <1>5 DEF Surjection
<1> QED
  BY <1>6 DEF Slot

LEMMA MinIn ==
  ASSUME NEW S \in SUBSET Slot, S # {}
  PROVE  Min(S) \in S
  BY LeastExists DEF Min

(***************************************************************************)
(* What the steps do to the calls.                                         *)
(***************************************************************************)
\* call c may have changed, but neither where it goes nor what it asks
Only(c) == /\ calls' \in Seq(Made)
           /\ Len(calls') = Len(calls)
           /\ \A d \in 1 .. Len(calls) : d # c => calls'[d] = calls[d]
           /\ calls'[c].to = calls[c].to
           /\ calls'[c].kind = calls[c].kind

LEMMA CallType ==
  ASSUME TypeOK, NEW c \in 1 .. Len(calls)
  PROVE  /\ calls[c] \in Made
         /\ Len(calls) \in Nat /\ c \in CallNo
  BY LenProperties, ElementOfSeq DEF TypeOK, CallNo

LEMMA SetSid ==
  ASSUME TypeOK, NEW c \in 1 .. Len(calls), NEW v \in Nat,
         calls' = [calls EXCEPT ![c]["sid"] = v]
  PROVE  /\ Only(c) /\ calls'[c].sid = v
         /\ calls'[c].answer = calls[c].answer /\ calls'[c].result = calls[c].result
<1>1. calls[c] \in Made
  BY CallType
<1>2. [calls[c] EXCEPT !["sid"] = v] \in Made
  BY <1>1 DEF Made
<1>3. calls' = [calls EXCEPT ![c] = [calls[c] EXCEPT !["sid"] = v]]
  OBVIOUS
<1> QED
  BY <1>1, <1>2, <1>3, ExceptSeq DEF Only, TypeOK, Made

LEMMA SetAnswer ==
  ASSUME TypeOK, NEW c \in 1 .. Len(calls), NEW v \in Code,
         calls' = [calls EXCEPT ![c].answer = v]
  PROVE  /\ Only(c) /\ calls'[c].answer = v
         /\ calls'[c].sid = calls[c].sid /\ calls'[c].result = calls[c].result
<1>1. calls[c] \in Made
  BY CallType
<1>2. [calls[c] EXCEPT !.answer = v] \in Made
  BY <1>1 DEF Made
<1>3. calls' = [calls EXCEPT ![c] = [calls[c] EXCEPT !.answer = v]]
  OBVIOUS
<1> QED
  BY <1>1, <1>2, <1>3, ExceptSeq DEF Only, TypeOK, Made

LEMMA SetResult ==
  ASSUME TypeOK, NEW t \in Thread, cur[t] \in 1 .. Len(calls),
         NEW r \in Outcome \cup Code, Result(t, r)
  PROVE  /\ Only(cur[t]) /\ calls'[cur[t]].result = r
         /\ calls'[cur[t]].sid = calls[cur[t]].sid
         /\ calls'[cur[t]].answer = calls[cur[t]].answer
<1> DEFINE c == cur[t]
           m == [calls[c] EXCEPT !.result = r, !.url = UrlAfter(t, r)]
<1>1. calls[c] \in Made
  BY CallType
<1>2. UrlAfter(t, r) \in {"unset", "NULL", "given"}
  BY <1>1 DEF UrlAfter, My, Made
<1>3. m \in Made /\ m.result = r /\ m.sid = calls[c].sid /\ m.answer = calls[c].answer
      /\ m.to = calls[c].to /\ m.kind = calls[c].kind
  BY <1>1, <1>2 DEF Made
<1>4. calls' = [calls EXCEPT ![c] = m]
  BY CallType, LenProperties DEF Result, TypeOK
<1> HIDE DEF m, c
<1>5. c \in 1 .. Len(calls) /\ calls \in Seq(Made)
  BY DEF c, TypeOK
<1>6. Only(c) /\ calls'[c] = m
  BY <1>3, <1>4, <1>5, ExceptSeq DEF Only
<1> QED
  BY <1>3, <1>6 DEF c

LEMMA LoadSidCall ==
  ASSUME TypeOK, NEW t \in Thread, cur[t] \in 1 .. Len(calls), LoadSid(t)
  PROVE  /\ Only(cur[t])
         /\ calls'[cur[t]].sid = seed /\ calls'[cur[t]].sid # None
         /\ calls'[cur[t]].answer = calls[cur[t]].answer
         /\ calls'[cur[t]].result = calls[cur[t]].result
<1>1. seed \in Nat /\ seed # None
  BY DEF TypeOK
<1>2. calls' = [calls EXCEPT ![cur[t]]["sid"] = seed]
  BY DEF LoadSid, Note
<1>3. PICK c \in 1 .. Len(calls), v \in Nat : c = cur[t] /\ v = seed
  BY <1>1
<1>4. calls' = [calls EXCEPT ![c]["sid"] = v]
  BY <1>2, <1>3
<1>5. /\ Only(c) /\ calls'[c].sid = v
      /\ calls'[c].answer = calls[c].answer /\ calls'[c].result = calls[c].result
  BY <1>4, SetSid
<1> QED
  BY <1>1, <1>3, <1>5

LEMMA NewCall ==
  ASSUME TypeOK, NEW m \in Made, calls' = Append(calls, m), Len(calls) < MaxCalls
  PROVE  /\ calls' \in Seq(Made) /\ Len(calls') = Len(calls) + 1 /\ Len(calls) \in Nat
         /\ \A d \in 1 .. Len(calls) : calls'[d] = calls[d]
         /\ calls'[Len(calls) + 1] = m
  BY AppendProperties, LenProperties DEF TypeOK

(***************************************************************************)
(* What the steps do to the connections.                                   *)
(***************************************************************************)
\* connection fd carries something else; it is still open and leads where it led
OnlyConn(fd) == /\ conn' \in [Fd -> Connection \cup {None}]
                /\ \A g \in Fd : g # fd => conn'[g] = conn[g]
                /\ conn'[fd] # None
                /\ conn'[fd].to = conn[fd].to

LEMMA ConnType ==
  ASSUME TypeOK, NEW fd \in Fd, conn[fd] # None
  PROVE  /\ conn[fd] \in Connection
         /\ conn[fd].owed \in Seq(Piece) /\ conn[fd].in \in Seq(Piece)
         /\ conn[fd].to \in Server /\ conn[fd].eof \in BOOLEAN
  BY DEF TypeOK, Connection

LEMMA SetConn ==
  ASSUME TypeOK, NEW fd \in Fd, NEW k \in Connection, conn[fd] # None,
         k.to = conn[fd].to, conn' = [conn EXCEPT ![fd] = k]
  PROVE  OnlyConn(fd) /\ conn'[fd] = k
  BY DEF OnlyConn, TypeOK

LEMMA ConnArrives ==
  ASSUME TypeOK, NEW fd \in Fd, conn[fd] # None, conn[fd].owed # <<>>,
         NEW p \in Piece, Arrives(fd, p)
  PROVE  /\ OnlyConn(fd)
         /\ conn'[fd].in = Append(conn[fd].in, p)
         /\ conn'[fd].owed = Tail(conn[fd].owed)
<1> DEFINE k == [conn[fd] EXCEPT !.in = Append(@, p), !.owed = Tail(@)]
<1>1. Append(conn[fd].in, p) \in Seq(Piece) /\ Tail(conn[fd].owed) \in Seq(Piece)
  BY ConnType, AppendProperties, HeadTailProperties
<1>2. /\ k \in Connection /\ k.to = conn[fd].to
      /\ k.in = Append(conn[fd].in, p) /\ k.owed = Tail(conn[fd].owed)
  BY <1>1, ConnType DEF Connection
<1>3. conn' = [conn EXCEPT ![fd] = k]
  BY DEF Arrives, TypeOK
<1> QED
  BY <1>2, <1>3, SetConn

LEMMA ConnSplits ==
  ASSUME TypeOK, NEW fd \in Fd, conn[fd] # None, conn[fd].owed # <<>>,
         NEW p \in Piece, NEW q \in Piece,
         conn' = [conn EXCEPT ![fd].in = Append(@, p), ![fd].owed = <<q>> \o Tail(@)]
  PROVE  /\ OnlyConn(fd)
         /\ conn'[fd].in = Append(conn[fd].in, p)
         /\ conn'[fd].owed = <<q>> \o Tail(conn[fd].owed)
<1> DEFINE k == [conn[fd] EXCEPT !.in = Append(@, p), !.owed = <<q>> \o Tail(@)]
<1>1. Append(conn[fd].in, p) \in Seq(Piece) /\ <<q>> \o Tail(conn[fd].owed) \in Seq(Piece)
  BY ConnType, AppendProperties, HeadTailProperties, ConcatProperties
<1>2. /\ k \in Connection /\ k.to = conn[fd].to
      /\ k.in = Append(conn[fd].in, p) /\ k.owed = <<q>> \o Tail(conn[fd].owed)
  BY <1>1, ConnType DEF Connection
<1>3. conn' = [conn EXCEPT ![fd] = k]
  BY DEF TypeOK
<1> HIDE DEF k
<1> QED
  BY <1>2, <1>3, SetConn

LEMMA ConnDrops ==
  ASSUME TypeOK, NEW fd \in Fd, conn[fd] # None, conn[fd].owed # <<>>,
         conn' = [conn EXCEPT ![fd].owed = Tail(@)]
  PROVE  /\ OnlyConn(fd)
         /\ conn'[fd].in = conn[fd].in
         /\ conn'[fd].owed = Tail(conn[fd].owed)
<1> DEFINE k == [conn[fd] EXCEPT !.owed = Tail(@)]
<1>1. Tail(conn[fd].owed) \in Seq(Piece)
  BY ConnType, HeadTailProperties
<1>2. /\ k \in Connection /\ k.to = conn[fd].to
      /\ k.in = conn[fd].in /\ k.owed = Tail(conn[fd].owed)
  BY <1>1, ConnType DEF Connection
<1>3. conn' = [conn EXCEPT ![fd] = k]
  BY DEF TypeOK
<1> QED
  BY <1>2, <1>3, SetConn

LEMMA ConnEnds ==
  ASSUME TypeOK, NEW fd \in Fd, conn[fd] # None,
         conn' = [conn EXCEPT ![fd].eof = TRUE, ![fd].owed = <<>>]
  PROVE  /\ OnlyConn(fd)
         /\ conn'[fd].in = conn[fd].in
         /\ conn'[fd].owed = <<>>
<1> DEFINE k == [conn[fd] EXCEPT !.eof = TRUE, !.owed = <<>>]
<1>1. <<>> \in Seq(Piece)
  OBVIOUS
<1>2. /\ k \in Connection /\ k.to = conn[fd].to
      /\ k.in = conn[fd].in /\ k.owed = <<>>
  BY <1>1, ConnType DEF Connection
<1>3. conn' = [conn EXCEPT ![fd] = k]
  BY DEF TypeOK
<1> QED
  BY <1>2, <1>3, SetConn

LEMMA ConnReads ==
  ASSUME TypeOK, NEW fd \in Fd, conn[fd] # None, conn' = [conn EXCEPT ![fd].in = <<>>]
  PROVE  /\ OnlyConn(fd)
         /\ conn'[fd].in = <<>>
         /\ conn'[fd].owed = conn[fd].owed
<1> DEFINE k == [conn[fd] EXCEPT !.in = <<>>]
<1>1. <<>> \in Seq(Piece)
  OBVIOUS
<1>2. /\ k \in Connection /\ k.to = conn[fd].to
      /\ k.in = <<>> /\ k.owed = conn[fd].owed
  BY <1>1, ConnType DEF Connection
<1>3. conn' = [conn EXCEPT ![fd] = k]
  BY DEF TypeOK
<1> QED
  BY <1>2, <1>3, SetConn

LEMMA ConnSends ==
  ASSUME TypeOK, NEW fd \in Fd, conn[fd] # None, NEW p \in Piece,
         conn' = [conn EXCEPT ![fd].owed = Append(@, p)]
  PROVE  /\ OnlyConn(fd)
         /\ conn'[fd].in = conn[fd].in
         /\ conn'[fd].owed = Append(conn[fd].owed, p)
<1> DEFINE k == [conn[fd] EXCEPT !.owed = Append(@, p)]
<1>1. Append(conn[fd].owed, p) \in Seq(Piece)
  BY ConnType, AppendProperties
<1>2. /\ k \in Connection /\ k.to = conn[fd].to
      /\ k.in = conn[fd].in /\ k.owed = Append(conn[fd].owed, p)
  BY <1>1, ConnType DEF Connection
<1>3. conn' = [conn EXCEPT ![fd] = k]
  BY DEF TypeOK
<1> QED
  BY <1>2, <1>3, SetConn

LEMMA PieceType ==
  ASSUME NEW c \in CallNo
  PROVE  Whole(c) \in Piece /\ First(c) \in Piece /\ Rest(c) \in Piece
  BY DEF Whole, First, Rest, Piece

(***************************************************************************)
(* The larger actions, taken apart once.                                   *)
(***************************************************************************)
\* what recv_packet looks at: all that was read of it
Read(t) == got[t] \o conn[fdOf[t]].in

LEMMA RecvSteps ==
  ASSUME NEW t \in Thread, Recv(t)
  PROVE  /\ pc[t] = "recv" /\ conn[fdOf[t]].in # <<>>
         /\ conn' = [conn EXCEPT ![fdOf[t]].in = <<>>]
         /\ UNCHANGED <<arr, seed, cur, fdOf>>
         /\ got' = [got EXCEPT ![t] = <<>>] \/ got' = [got EXCEPT ![t] = Read(t)]
         /\ \/ UNCHANGED <<pc, calls>>
            \/ /\ Goto(t, "release")
               /\ \/ Result(t, RPC_PACKET_ERROR)
                  \/ /\ Mine(t, Read(t)[1].call)
                     /\ Result(t, Means(t, calls[Read(t)[1].call].answer))
BY Zenon DEF Recv, Read

LEMMA ServeSteps ==
  ASSUME NEW fd \in Fd, Serve(fd)
  PROVE  /\ Open(fd) /\ conn[fd].owed # <<>> /\ Head(conn[fd].owed).part = "whole"
         /\ \E a \in Answers(calls[Head(conn[fd].owed).call].kind) :
               calls' = [calls EXCEPT ![Head(conn[fd].owed).call].answer = a]
         /\ \/ Arrives(fd, Whole(Head(conn[fd].owed).call))
            \/ conn' = [conn EXCEPT
                  ![fd].in = Append(@, First(Head(conn[fd].owed).call)),
                  ![fd].owed = <<Rest(Head(conn[fd].owed).call)>> \o Tail(@)]
BY Zenon DEF Serve

LEMMA ServerSteps ==
  ASSUME NEW fd \in Fd, Serve(fd) \/ ServeRest(fd) \/ NoAnswer(fd) \/ Hangup(fd)
  PROVE  /\ Open(fd) /\ UNCHANGED <<arr, seed, pc, cur, fdOf, got>>
         /\ ~Serve(fd) => calls' = calls
BY Zenon DEF Serve, ServeRest, NoAnswer, Hangup

(***************************************************************************)
(* Type correctness, action by action.                                     *)
(***************************************************************************)
LEMMA MeansType ==
  ASSUME TypeOK, NEW t \in Thread, NEW c \in 1 .. Len(calls)
  PROVE  Means(t, calls[c].answer) \in Outcome \cup Code
<1>1. calls[c].answer \in Code \cup {None}
  BY CallType DEF Made
<1> QED
  BY <1>1 DEF Means, Outcome

\* what holds of the pieces of two sequences holds of those of the two together
LEMMA ConcatAnswered ==
  ASSUME NEW r \in Seq(Piece), NEW s \in Seq(Piece),
         \A k \in 1 .. Len(r) : Answered(r[k]),
         \A k \in 1 .. Len(s) : Answered(s[k])
  PROVE  /\ r \o s \in Seq(Piece)
         /\ \A k \in 1 .. Len(r \o s) : Answered((r \o s)[k])
         /\ s # <<>> => 1 \in 1 .. Len(r \o s)
<1>1. /\ r \o s \in Seq(Piece) /\ Len(r \o s) = Len(r) + Len(s)
      /\ \A k \in 1 .. Len(r) + Len(s) :
            (r \o s)[k] = IF k <= Len(r) THEN r[k] ELSE s[k - Len(r)]
  BY ConcatProperties
<1>2. Len(r) \in Nat /\ Len(s) \in Nat
  BY LenProperties
<1>3. s # <<>> => Len(s) # 0
  BY EmptySeq
<1>4. ASSUME NEW k \in 1 .. Len(r \o s) PROVE Answered((r \o s)[k])
  <2>1. CASE k <= Len(r)
    BY <1>1, <1>2, <2>1
  <2>2. CASE ~(k <= Len(r))
    BY <1>1, <1>2, <2>2
  <2> QED
    BY <2>1, <2>2
<1> QED
  BY <1>1, <1>2, <1>3, <1>4

LEMMA ReadType ==
  ASSUME TypeOK, Sockets, Traffic, NEW t \in Thread, pc[t] = "recv"
  PROVE  /\ fdOf[t] \in Fd /\ conn[fdOf[t]] # None
         /\ Read(t) \in Seq(Piece)
         /\ \A k \in 1 .. Len(Read(t)) : Answered(Read(t)[k])
         /\ conn[fdOf[t]].in # <<>> => Read(t)[1] \in Piece /\ Answered(Read(t)[1])
<1>1. fdOf[t] \in Fd /\ conn[fdOf[t]] # None
  BY DEF Sockets, Control, Held, Holding, TypeOK
<1>2. got[t] \in Seq(Piece) /\ conn[fdOf[t]].in \in Seq(Piece)
  BY <1>1, ConnType DEF TypeOK
<1>3. /\ \A k \in 1 .. Len(got[t]) : Answered(got[t][k])
      /\ \A k \in 1 .. Len(conn[fdOf[t]].in) : Answered(conn[fdOf[t]].in[k])
  BY <1>1 DEF Traffic, Knows, Carries
<1>4. /\ Read(t) \in Seq(Piece)
      /\ \A k \in 1 .. Len(Read(t)) : Answered(Read(t)[k])
      /\ conn[fdOf[t]].in # <<>> => 1 \in 1 .. Len(Read(t))
  BY <1>2, <1>3, ConcatAnswered DEF Read
<1>5. conn[fdOf[t]].in # <<>> => Read(t)[1] \in Piece /\ Answered(Read(t)[1])
  BY <1>4, ElementOfSeq
<1> QED
  BY <1>1, <1>4, <1>5

\* what recv_packet does, in terms of the invariant
LEMMA RecvDoes ==
  ASSUME TypeOK, Sockets, Traffic, NEW t \in Thread, Recv(t)
  PROVE  /\ pc[t] = "recv" /\ fdOf[t] \in Fd /\ conn[fdOf[t]] # None
         /\ Read(t) \in Seq(Piece) /\ Answered(Read(t)[1])
         /\ \A k \in 1 .. Len(Read(t)) : Answered(Read(t)[k])
         /\ OnlyConn(fdOf[t]) /\ conn'[fdOf[t]].in = <<>>
         /\ conn'[fdOf[t]].owed = conn[fdOf[t]].owed
         /\ UNCHANGED <<arr, seed, cur, fdOf>>
         /\ got' = [got EXCEPT ![t] = <<>>] \/ got' = [got EXCEPT ![t] = Read(t)]
         /\ \/ UNCHANGED <<pc, calls>>
            \/ Goto(t, "release") /\ \E r \in Outcome \cup Code : Result(t, r)
<1>1. /\ pc[t] = "recv" /\ fdOf[t] \in Fd /\ conn[fdOf[t]] # None
      /\ Read(t) \in Seq(Piece) /\ Answered(Read(t)[1])
      /\ \A k \in 1 .. Len(Read(t)) : Answered(Read(t)[k])
  BY RecvSteps, ReadType
<1>2. OnlyConn(fdOf[t]) /\ conn'[fdOf[t]].in = <<>>
      /\ conn'[fdOf[t]].owed = conn[fdOf[t]].owed
  BY <1>1, RecvSteps, ConnReads
<1>3. \/ UNCHANGED <<pc, calls>>
      \/ Goto(t, "release") /\ \E r \in Outcome \cup Code : Result(t, r)
  <2>1. Means(t, calls[Read(t)[1].call].answer) \in Outcome \cup Code
    BY <1>1, MeansType DEF Answered
  <2>2. RPC_PACKET_ERROR \in Outcome \cup Code
    BY DEF Outcome
  <2> QED
    BY <2>1, <2>2, RecvSteps
<1> QED
  BY <1>1, <1>2, <1>3, RecvSteps

LEMMA ActTypes ==
  ASSUME TypeOK, Sockets, Traffic, NEW t \in Thread, Act(t)
  PROVE  TypeOK'
<1>1. Control(t) /\ (pc[t] # "idle" => cur[t] \in 1 .. Len(calls))
  BY DEF Sockets, Control
<1>2. pc[t] \in Holding => fdOf[t] \in Fd /\ conn[fdOf[t]] # None
  BY DEF Sockets, Control, Held, TypeOK
<1>3. Len(calls) \in Nat
  BY LenProperties DEF TypeOK
<1>4. CASE GetSocket(t)
  <2>1. CASE {i \in Slot : Fits(i, Ip(t))} = {}
    BY <1>4, <2>1 DEF GetSocket, TypeOK, Goto
  <2>2. CASE {i \in Slot : Fits(i, Ip(t))} # {}
    <3>1. PICK i \in Slot : /\ Used(i)
                           /\ arr' = [arr EXCEPT ![i].busy = TRUE]
                           /\ fdOf' = [fdOf EXCEPT ![t] = arr[i].fd]
                           /\ Goto(t, "check")
      BY <1>4, <2>2, MinIn DEF GetSocket, Fits
    <3>2. arr[i] \in Entry
      BY <3>1 DEF Used, TypeOK
    <3>3. arr' \in [Slot -> Entry \cup {None}] /\ fdOf' \in [Thread -> Fd \cup {None}]
      BY <3>1, <3>2 DEF TypeOK, Entry
    <3> QED
      BY <1>4, <3>1, <3>3 DEF GetSocket, TypeOK, Goto
  <2> QED
    BY <2>1, <2>2
<1>5. CASE CheckSocket(t)
  BY <1>5 DEF CheckSocket, TypeOK, Goto
<1>6. CASE Discard(t)
  BY <1>6 DEF Discard, Closed, Used, TypeOK, Goto
<1>7. CASE Connect(t)
  <2>1. PICK fd \in Fd : /\ conn' = [conn EXCEPT ![fd] = [to |-> My(t).to, owed |-> <<>>,
                                                        in |-> <<>>, eof |-> FALSE]]
                        /\ fdOf' = [fdOf EXCEPT ![t] = fd]
    BY <1>7 DEF Connect
  <2>2. My(t).to \in Server
    BY <1>1, <1>7, CallType DEF Connect, My, Made
  <2>3. [to |-> My(t).to, owed |-> <<>>, in |-> <<>>, eof |-> FALSE] \in Connection
    BY <2>2 DEF Connection
  <2>4. conn' \in [Fd -> Connection \cup {None}] /\ fdOf' \in [Thread -> Fd \cup {None}]
    BY <2>1, <2>3 DEF TypeOK
  <2> QED
    BY <1>7, <2>4 DEF Connect, TypeOK, Goto
<1>8. CASE ConnectFails(t)
  <2>1. Only(cur[t])
    BY <1>1, <1>8, SetResult DEF ConnectFails, Outcome
  <2> QED
    BY <1>8, <2>1 DEF ConnectFails, TypeOK, Goto, Only
<1>9. CASE LoadSid(t)
  <2>1. Only(cur[t])
    BY <1>1, <1>9, LoadSidCall DEF LoadSid
  <2> QED
    BY <1>9, <2>1 DEF LoadSid, TypeOK, Goto, Only
<1>10. CASE StoreSid(t)
  <2>1. My(t).sid \in Nat
    <3>1. My(t).sid # None
      BY <1>10 DEF StoreSid, Traffic, Knows
    <3> QED
      BY <1>1, <1>10, <3>1, CallType DEF StoreSid, My, Made
  <2> QED
    BY <1>10, <2>1 DEF StoreSid, TypeOK, Goto
<1>11. CASE SendPacket(t)
  <2>1. conn' \in [Fd -> Connection \cup {None}]
    <3>1. CASE conn[fdOf[t]].eof
      BY <1>11, <3>1 DEF SendPacket, TypeOK
    <3>2. CASE ~conn[fdOf[t]].eof
      <4>1. Whole(cur[t]) \in Piece /\ fdOf[t] \in Fd /\ conn[fdOf[t]] # None
        BY <1>1, <1>2, <1>11, CallType, PieceType DEF SendPacket, Holding
      <4>2. conn' = [conn EXCEPT ![fdOf[t]].owed = Append(@, Whole(cur[t]))]
        BY <1>11, <3>2 DEF SendPacket
      <4> QED
        BY <4>1, <4>2, ConnSends DEF OnlyConn
    <3> QED
      BY <3>1, <3>2
  <2> QED
    BY <1>11, <2>1 DEF SendPacket, TypeOK, Goto
<1>12. CASE Recv(t)
  <2>1. conn' \in [Fd -> Connection \cup {None}]
    BY <1>12, RecvDoes DEF OnlyConn
  <2>2. calls' \in Seq(Made) /\ Len(calls') = Len(calls)
    <3>1. pc[t] # "idle" /\ (calls' = calls \/ \E r \in Outcome \cup Code : Result(t, r))
      BY <1>12, RecvDoes
    <3> QED
      BY <1>1, <3>1, SetResult DEF Only, TypeOK
  <2>3. got' \in [Thread -> Seq(Piece)]
    <3>1. got' = [got EXCEPT ![t] = <<>>] \/ got' = [got EXCEPT ![t] = Read(t)]
      BY <1>12, RecvDoes
    <3>2. <<>> \in Seq(Piece) /\ Read(t) \in Seq(Piece)
      BY <1>12, RecvDoes
    <3> QED
      BY <3>1, <3>2 DEF TypeOK
  <2>4. pc' = pc \/ Goto(t, "release")
    BY <1>12, RecvDoes
  <2>5. UNCHANGED <<arr, seed, cur, fdOf>>
    BY <1>12, RecvDoes
  <2> QED
    BY <2>1, <2>2, <2>3, <2>4, <2>5 DEF TypeOK, Goto
<1>13. CASE Timeout(t)
  <2>1. Only(cur[t])
    BY <1>1, <1>13, SetResult DEF Timeout, Outcome
  <2> QED
    BY <1>13, <2>1 DEF Timeout, TypeOK, Goto, Only
<1>14. CASE ReleaseSocket(t)
  <2>1. fdOf[t] \in Fd /\ Ip(t) \in {s.ip : s \in Server}
    BY <1>1, <1>2, <1>14, CallType DEF ReleaseSocket, Holding, Ip, My, Made
  <2>2. CASE InPool(fdOf[t], Ip(t)) # {}
    <3>1. PICK i \in Slot : Used(i) /\ arr' = [arr EXCEPT ![i].busy = FALSE] /\ UNCHANGED conn
      BY <1>14, <2>2, MinIn DEF ReleaseSocket, Kept, InPool
    <3>2. arr[i] \in Entry
      BY <3>1 DEF Used, TypeOK
    <3>3. arr' \in [Slot -> Entry \cup {None}]
      BY <3>1, <3>2 DEF TypeOK, Entry
    <3> QED
      BY <1>14, <3>1, <3>3 DEF ReleaseSocket, TypeOK, Goto
  <2>3. CASE InPool(fdOf[t], Ip(t)) = {} /\ Room(Ip(t))
    <3>1. PICK i \in Slot :
             /\ arr' = [arr EXCEPT ![i] = [fd |-> fdOf[t], ip |-> Ip(t), busy |-> FALSE]]
             /\ UNCHANGED conn
      BY <1>14, <2>3, MinIn DEF ReleaseSocket, Kept, Room, Free
    <3>2. arr' \in [Slot -> Entry \cup {None}]
      BY <2>1, <3>1 DEF TypeOK, Entry
    <3> QED
      BY <1>14, <3>1, <3>2 DEF ReleaseSocket, TypeOK, Goto
  <2>4. CASE InPool(fdOf[t], Ip(t)) = {} /\ ~Room(Ip(t))
    <3>1. Closed(fdOf[t]) /\ UNCHANGED arr
      BY <1>14, <2>4 DEF ReleaseSocket, Kept
    <3> QED
      BY <1>14, <3>1 DEF ReleaseSocket, TypeOK, Goto, Closed
  <2> QED
    BY <2>2, <2>3, <2>4
<1> QED
  BY <1>4, <1>5, <1>6, <1>7, <1>8, <1>9, <1>10, <1>11, <1>12, <1>13, <1>14 DEF Act

\* the first thing a connection still has to do
LEMMA HeadOwed ==
  ASSUME TypeOK, Traffic, NEW fd \in Fd, Open(fd), conn[fd].owed # <<>>
  PROVE  /\ Head(conn[fd].owed) = conn[fd].owed[1]
         /\ Head(conn[fd].owed) \in Piece
         /\ 1 \in 1 .. Len(conn[fd].owed)
         /\ Head(conn[fd].owed).call \in 1 .. Len(calls)
         /\ IF Head(conn[fd].owed).part = "whole"
            THEN calls[Head(conn[fd].owed).call].answer = None
            ELSE Answered(Head(conn[fd].owed))
<1>1. conn[fd] # None /\ conn[fd].owed \in Seq(Piece) /\ Carries(fd)
  BY ConnType DEF Open, Traffic
<1>2. PICK o \in Seq(Piece) : o = conn[fd].owed
  BY <1>1
<1>3. Head(o) = o[1] /\ o[1] \in Piece /\ 1 \in 1 .. Len(o)
  BY <1>2, HeadTailProperties, EmptySeq, LenProperties, ElementOfSeq
<1>4. IF o[1].part = "whole"
      THEN o[1].call \in 1 .. Len(calls) /\ calls[o[1].call].answer = None
      ELSE Answered(o[1])
  BY <1>1, <1>2, <1>3 DEF Carries, Pending
<1> QED
  BY <1>2, <1>3, <1>4 DEF Answered

LEMMA ServerTypes ==
  ASSUME TypeOK, Traffic, NEW fd \in Fd,
         Serve(fd) \/ ServeRest(fd) \/ NoAnswer(fd) \/ Hangup(fd)
  PROVE  TypeOK' /\ OnlyConn(fd)
<1>1. Open(fd) /\ conn[fd] # None /\ UNCHANGED <<arr, seed, pc, cur, fdOf, got>>
  BY ServerSteps DEF Open
<1>2. CASE Serve(fd)
  <2> DEFINE c == Head(conn[fd].owed).call
  <2>1. c \in 1 .. Len(calls) /\ c \in CallNo
    BY <1>1, <1>2, ServeSteps, HeadOwed, CallType
  <2>2. PICK a \in Answers(calls[c].kind) : calls' = [calls EXCEPT ![c].answer = a]
    BY <1>2, ServeSteps
  <2>3. a \in Code
    BY DEF Answers
  <2> HIDE DEF c
  <2>4. Only(c)
    BY <2>1, <2>2, <2>3, SetAnswer
  <2>5. OnlyConn(fd)
    <3> conn[fd].owed # <<>> /\ Whole(c) \in Piece /\ First(c) \in Piece /\ Rest(c) \in Piece
      BY <1>2, <2>1, ServeSteps, PieceType
    <3>1. CASE Arrives(fd, Whole(c))
      BY <1>1, <3>1, ConnArrives
    <3>2. CASE conn' = [conn EXCEPT ![fd].in = Append(@, First(c)),
                                    ![fd].owed = <<Rest(c)>> \o Tail(@)]
      BY <1>1, <3>2, ConnSplits
    <3> QED
      BY <1>2, <3>1, <3>2, ServeSteps, Zenon DEF c
  <2> QED
    BY <1>1, <2>4, <2>5 DEF OnlyConn, Only, TypeOK
<1>3. CASE ServeRest(fd)
  <2>1. OnlyConn(fd)
    BY <1>1, <1>3, HeadOwed, ConnArrives DEF ServeRest
  <2> QED
    BY <1>3, <2>1 DEF ServeRest, OnlyConn, TypeOK
<1>4. CASE NoAnswer(fd)
  <2>1. OnlyConn(fd)
    BY <1>1, <1>4, ConnDrops DEF NoAnswer
  <2> QED
    BY <1>4, <2>1 DEF NoAnswer, OnlyConn, TypeOK
<1>5. CASE Hangup(fd)
  <2>1. OnlyConn(fd)
    BY <1>1, <1>5, ConnEnds DEF Hangup
  <2> QED
    BY <1>5, <2>1 DEF Hangup, OnlyConn, TypeOK
<1> QED
  BY <1>2, <1>3, <1>4, <1>5

\* what is noted of a new call
LEMMA CallMakes ==
  ASSUME TypeOK, NEW t \in Thread, Call(t)
  PROVE  \E m \in Made :
            /\ calls' = Append(calls, m)
            /\ m.sid = None /\ m.answer = None /\ m.result = None
<1>1. PICK s \in Server, k \in Kind :
        calls' = Append(calls, [to |-> s, kind |-> k, sid |-> None, answer |-> None,
                                result |-> None, url |-> "unset"])
  BY DEF Call
<1>2. [to |-> s, kind |-> k, sid |-> None, answer |-> None,
       result |-> None, url |-> "unset"] \in Made
  BY DEF Made, Outcome
<1> QED
  BY <1>1, <1>2

LEMMA CallTypes ==
  ASSUME TypeOK, NEW t \in Thread, Call(t)
  PROVE  TypeOK'
<1>1. PICK m \in Made : calls' = Append(calls, m)
  BY CallMakes
<1>2. calls' \in Seq(Made) /\ Len(calls') = Len(calls) + 1 /\ Len(calls) \in Nat
  BY <1>1, NewCall DEF Call
<1> QED
  BY <1>2 DEF Call, TypeOK, Goto

(***************************************************************************)
(* Who uses a socket, action by action.                                    *)
(***************************************************************************)
Pooled(ip) == {i \in Slot : Used(i) /\ arr[i].ip = ip}

LEMMA PooledFinite ==
  ASSUME NEW S \in SUBSET Slot
  PROVE  IsFiniteSet(S) /\ Cardinality(S) \in Nat
<1>1. IsFiniteSet(Slot)
  BY FS_Interval DEF Slot
<1> QED
  BY <1>1, FS_Subset, FS_CardinalityType

\* no more sockets are in the pool than before
LEMMA PoolShrinks ==
  ASSUME PoolBounded, \A i \in Slot : Used(i)' => Used(i) /\ arr'[i].ip = arr[i].ip
  PROVE  PoolBounded'
<1> SUFFICES ASSUME NEW s \in Server PROVE Cardinality(Pooled(s.ip)') <= PerMeta
  BY DEF PoolBounded, Pooled
<1>1. Pooled(s.ip)' \subseteq Pooled(s.ip) /\ Pooled(s.ip) \in SUBSET Slot
  BY DEF Pooled
<1>2. Cardinality(Pooled(s.ip)') <= Cardinality(Pooled(s.ip))
  BY <1>1, PooledFinite, FS_Subset
<1>3. Cardinality(Pooled(s.ip)) <= PerMeta
  BY DEF PoolBounded, Pooled
<1>4. Cardinality(Pooled(s.ip)) \in Nat /\ Cardinality(Pooled(s.ip)') \in Nat
  BY <1>1, PooledFinite
<1> QED
  BY <1>2, <1>3, <1>4

\* a socket is filed that stands for a room that was found
LEMMA PoolGrows ==
  ASSUME TypeOK, PoolBounded, NEW i \in Slot, ~Used(i), NEW e \in Entry, Room(e.ip),
         arr' = [arr EXCEPT ![i] = e]
  PROVE  PoolBounded'
<1> SUFFICES ASSUME NEW s \in Server PROVE Cardinality(Pooled(s.ip)') <= PerMeta
  BY DEF PoolBounded, Pooled
<1>1. Pooled(s.ip) \in SUBSET Slot /\ i \notin Pooled(s.ip)
  BY DEF Pooled
<1>2. IsFiniteSet(Pooled(s.ip)) /\ Cardinality(Pooled(s.ip)) \in Nat
  BY <1>1, PooledFinite
<1>3. \A j \in Slot : arr'[j] = IF j = i THEN e ELSE arr[j]
  BY DEF TypeOK
<1>4. e # None
  OBVIOUS
<1>5. CASE e.ip = s.ip
  <2>1. Pooled(s.ip)' = Pooled(s.ip) \cup {i}
    BY <1>3, <1>4, <1>5 DEF Pooled, Used
  <2>2. Cardinality(Pooled(s.ip)) < PerMeta
    BY <1>5 DEF Room, Pooled
  <2>3. Cardinality(Pooled(s.ip) \cup {i}) = Cardinality(Pooled(s.ip)) + 1
    BY <1>1, <1>2, FS_AddElement
  <2> QED
    BY <1>2, <2>1, <2>2, <2>3
<1>6. CASE e.ip # s.ip
  <2>1. Pooled(s.ip)' = Pooled(s.ip)
    BY <1>3, <1>4, <1>6 DEF Pooled, Used
  <2> QED
    BY <2>1 DEF PoolBounded, Pooled
<1> QED
  BY <1>5, <1>6

\* the calls that are under way go where they went
LEMMA SocketsKept ==
  ASSUME TypeOK, Sockets, UNCHANGED <<arr, fdOf>>, \A t \in Thread : Control(t)',
         \A fd \in Fd : /\ conn[fd] = None => conn'[fd] = None
                        /\ conn[fd] # None => /\ conn'[fd] # None
                                              /\ conn'[fd].to = conn[fd].to,
         \A t \in Thread : fdOf[t] # None => Ip(t)' = Ip(t)
  PROVE  Sockets'
<1>1. \A t \in Thread : fdOf[t] # None => fdOf[t] \in Fd
  BY DEF TypeOK
<1>2. \A i \in Slot : Used(i) => arr[i].fd \in Fd
  BY DEF TypeOK, Used, Entry
<1>3. ASSUME NEW t \in Thread PROVE Held(t)'
  BY <1>1 DEF Sockets, Held, Used
<1>4. ASSUME NEW i \in Slot PROVE Stored(i)'
  BY <1>2 DEF Sockets, Stored, Used
<1>5. NoSocketLost'
  BY DEF Sockets, NoSocketLost, Holders, Entries, Used
<1>6. PoolBounded'
  BY DEF Sockets, PoolBounded, Used
<1> QED
  BY <1>3, <1>4, <1>5, <1>6 DEF Sockets

LEMMA GetSocketSockets ==
  ASSUME TypeOK, Sockets, NEW t \in Thread, GetSocket(t)
  PROVE  Sockets'
<1>1. pc[t] = "get" /\ fdOf[t] = None /\ cur[t] \in 1 .. Len(calls)
  BY DEF GetSocket, Sockets, Control, Holding
<1>2. UNCHANGED <<seed, conn, calls, cur, got>>
  BY DEF GetSocket
<1>3. CASE {i \in Slot : Fits(i, Ip(t))} = {}
  <2>1. Goto(t, "connect") /\ UNCHANGED <<arr, fdOf>>
    BY <1>3 DEF GetSocket
  <2>2. \A u \in Thread : Control(u)'
    BY <1>1, <1>2, <2>1 DEF Goto, TypeOK, Sockets, Control, Holding
  <2>3. \A u \in Thread : Ip(u)' = Ip(u)
    BY <1>2 DEF Ip, My
  <2> QED
    BY <1>2, <2>1, <2>2, <2>3, SocketsKept
<1>4. CASE {i \in Slot : Fits(i, Ip(t))} # {}
  <2>1. PICK i \in Slot : /\ Fits(i, Ip(t))
                         /\ arr' = [arr EXCEPT ![i].busy = TRUE]
                         /\ fdOf' = [fdOf EXCEPT ![t] = arr[i].fd]
                         /\ Goto(t, "check")
    BY <1>4, MinIn DEF GetSocket
  <2>2. arr[i] \in Entry /\ arr[i].fd \in Fd /\ Used(i) /\ ~arr[i].busy /\ arr[i].ip = Ip(t)
    BY <2>1 DEF Fits, Used, TypeOK, Entry
  <2>3. PICK e \in Entry : /\ e.fd = arr[i].fd /\ e.ip = arr[i].ip /\ e.busy = TRUE
                          /\ \A j \in Slot : arr'[j] = IF j = i THEN e ELSE arr[j]
    <3>1. [arr[i] EXCEPT !.busy = TRUE] \in Entry
      BY <2>2 DEF Entry
    <3>2. \A j \in Slot : arr'[j] = IF j = i THEN [arr[i] EXCEPT !.busy = TRUE] ELSE arr[j]
      BY <2>1 DEF TypeOK
    <3> QED
      BY <2>2, <3>1, <3>2 DEF Entry
  <2>4. /\ \A j \in Slot : (Used(j) <=> Used(j)')
        /\ \A j \in Slot : Used(j) => /\ arr'[j].fd = arr[j].fd /\ arr'[j].ip = arr[j].ip
                                      /\ arr[j].busy => arr'[j].busy
        /\ arr'[i].busy
        /\ \A j \in Slot : j # i => arr'[j] = arr[j]
    BY <2>2, <2>3 DEF Used
  <2>5. \A u \in Thread : fdOf'[u] = IF u = t THEN arr[i].fd ELSE fdOf[u]
    BY <2>1 DEF TypeOK
  <2>6. \A u \in Thread : Ip(u)' = Ip(u)
    BY <1>2 DEF Ip, My
  <2>7. \A u \in Thread : Control(u)'
    BY <1>1, <1>2, <2>1, <2>2, <2>5 DEF Goto, TypeOK, Sockets, Control, Holding
  <2>8. Stored(i) /\ \A u \in Thread : fdOf[u] # None => fdOf[u] # arr[i].fd
    BY <2>2 DEF Sockets, Held
  <2>9. ASSUME NEW u \in Thread PROVE Held(u)'
    <3>1. CASE u = t
      <4>1. conn'[fdOf'[u]] # None /\ conn'[fdOf'[u]].to.ip = Ip(u)'
        BY <1>2, <2>2, <2>5, <2>6, <2>8, <3>1 DEF Stored
      <4>2. \A v \in Thread : v # u => fdOf'[v] # fdOf'[u]
        BY <2>2, <2>5, <2>8, <3>1
      <4>3. \A j \in Slot : Used(j)' /\ arr'[j].fd = fdOf'[u] => arr'[j].busy
        BY <2>2, <2>4, <2>5, <2>8, <3>1 DEF Stored
      <4> QED
        BY <4>1, <4>2, <4>3 DEF Held
    <3>2. CASE u # t
      <4>1. Held(u)
        BY DEF Sockets
      <4> QED
        BY <1>2, <2>2, <2>4, <2>5, <2>6, <2>8, <3>2, <4>1 DEF Held
    <3> QED
      BY <3>1, <3>2
  <2>10. ASSUME NEW j \in Slot PROVE Stored(j)'
    BY <1>2, <2>4 DEF Sockets, Stored
  <2>11. NoSocketLost'
    <3> SUFFICES ASSUME NEW fd \in Fd, conn'[fd] # None
                 PROVE  Holders(fd)' # {} \/ \E j \in Entries(fd)' : ~arr'[j].busy
      BY DEF NoSocketLost
    <3>1. CASE fd = arr[i].fd
      BY <2>5, <3>1 DEF Holders
    <3>2. CASE fd # arr[i].fd
      <4>1. Holders(fd) # {} \/ \E j \in Entries(fd) : ~arr[j].busy
        BY <1>2 DEF Sockets, NoSocketLost
      <4>2. CASE Holders(fd) # {}
        BY <1>1, <2>5, <4>2 DEF Holders, TypeOK
      <4>3. CASE \E j \in Entries(fd) : ~arr[j].busy
        BY <2>4, <3>2, <4>3 DEF Entries
      <4> QED
        BY <4>1, <4>2, <4>3
    <3> QED
      BY <3>1, <3>2
  <2>12. PoolBounded'
    BY <2>4, PoolShrinks DEF Sockets
  <2> QED
    BY <2>7, <2>9, <2>10, <2>11, <2>12 DEF Sockets
<1> QED
  BY <1>3, <1>4

LEMMA DiscardSockets ==
  ASSUME TypeOK, Sockets, NEW t \in Thread, Discard(t)
  PROVE  Sockets'
<1>1. pc[t] = "discard" /\ fdOf[t] # None /\ fdOf[t] \in Fd
  BY DEF Discard, Sockets, Control, Holding, TypeOK
<1>2. /\ UNCHANGED <<seed, calls, cur, got>>
      /\ \A fd \in Fd : conn'[fd] = IF fd = fdOf[t] THEN None ELSE conn[fd]
      /\ \A u \in Thread : fdOf'[u] = IF u = t THEN None ELSE fdOf[u]
      /\ Goto(t, "connect")
  BY DEF Discard, Closed, TypeOK
<1>3. \A i \in Slot : arr'[i] = IF Used(i) /\ arr[i].fd = fdOf[t] THEN None ELSE arr[i]
  BY DEF Discard
<1>4. \A i \in Slot : Used(i)' => /\ Used(i) /\ arr[i].fd # fdOf[t] /\ arr'[i] = arr[i]
                                  /\ arr[i].fd \in Fd
  BY <1>3 DEF Used, TypeOK, Entry
<1>5. \A u \in Thread : Ip(u)' = Ip(u)
  BY <1>2 DEF Ip, My
<1>6. \A u \in Thread : Control(u)'
  BY <1>1, <1>2 DEF Goto, TypeOK, Sockets, Control, Holding
<1>7. Held(t) /\ \A u \in Thread : u # t => fdOf[u] # fdOf[t]
  BY <1>1 DEF Sockets, Held
<1>8. ASSUME NEW u \in Thread PROVE Held(u)'
  <2>1. CASE u = t
    BY <1>2, <2>1 DEF Held
  <2>2. CASE u # t
    <3>1. Held(u) /\ (fdOf[u] # None => fdOf[u] \in Fd)
      BY DEF Sockets, TypeOK
    <3> QED
      BY <1>2, <1>4, <1>5, <1>7, <2>2, <3>1 DEF Held
  <2> QED
    BY <2>1, <2>2
<1>9. ASSUME NEW i \in Slot PROVE Stored(i)'
  BY <1>2, <1>4 DEF Sockets, Stored
<1>10. NoSocketLost'
  <2> SUFFICES ASSUME NEW fd \in Fd, conn'[fd] # None
               PROVE  Holders(fd)' # {} \/ \E j \in Entries(fd)' : ~arr'[j].busy
    BY DEF NoSocketLost
  <2>1. fd # fdOf[t] /\ conn[fd] # None
    BY <1>2
  <2>2. Holders(fd) # {} \/ \E j \in Entries(fd) : ~arr[j].busy
    BY <2>1 DEF Sockets, NoSocketLost
  <2>3. CASE Holders(fd) # {}
    BY <1>2, <2>1, <2>3 DEF Holders
  <2>4. CASE \E j \in Entries(fd) : ~arr[j].busy
    BY <1>3, <2>1, <2>4 DEF Entries, Used
  <2> QED
    BY <2>2, <2>3, <2>4
<1>11. PoolBounded'
  BY <1>4, PoolShrinks DEF Sockets
<1> QED
  BY <1>6, <1>8, <1>9, <1>10, <1>11 DEF Sockets

LEMMA ConnectSockets ==
  ASSUME TypeOK, Sockets, NEW t \in Thread, Connect(t)
  PROVE  Sockets'
<1>1. pc[t] = "connect" /\ fdOf[t] = None /\ cur[t] \in 1 .. Len(calls)
  BY DEF Connect, Sockets, Control, Holding
<1>2. UNCHANGED <<arr, seed, calls, cur, got>> /\ Goto(t, "sid")
  BY DEF Connect
<1>3. PICK fd \in Fd : /\ conn[fd] = None
                      /\ conn' = [conn EXCEPT ![fd] = [to |-> My(t).to, owed |-> <<>>,
                                                       in |-> <<>>, eof |-> FALSE]]
                      /\ fdOf' = [fdOf EXCEPT ![t] = fd]
  BY DEF Connect
<1>4. My(t).to \in Server
  BY <1>1, CallType DEF My, Made
<1>5. PICK k \in Connection : /\ k.to.ip = Ip(t)
                              /\ \A g \in Fd : conn'[g] = IF g = fd THEN k ELSE conn[g]
  <2>1. [to |-> My(t).to, owed |-> <<>>, in |-> <<>>, eof |-> FALSE] \in Connection
    BY <1>4 DEF Connection
  <2> QED
    BY <1>3, <2>1 DEF Ip, TypeOK
<1>6. \A u \in Thread : fdOf'[u] = IF u = t THEN fd ELSE fdOf[u]
  BY <1>3 DEF TypeOK
<1>7. /\ \A u \in Thread : fdOf[u] # fd
      /\ \A i \in Slot : Used(i) => arr[i].fd # fd /\ arr[i].fd \in Fd
  BY <1>3 DEF Sockets, Held, Stored, Used, TypeOK, Entry
<1>8. \A u \in Thread : Ip(u)' = Ip(u)
  BY <1>2 DEF Ip, My
<1>9. \A u \in Thread : Control(u)'
  BY <1>1, <1>2, <1>6 DEF Goto, TypeOK, Sockets, Control, Holding
<1>10. ASSUME NEW u \in Thread PROVE Held(u)'
  <2>1. CASE u = t
    BY <1>2, <1>5, <1>6, <1>7, <1>8, <2>1 DEF Held, Used
  <2>2. CASE u # t
    <3>1. Held(u) /\ (fdOf[u] # None => fdOf[u] \in Fd)
      BY DEF Sockets, TypeOK
    <3> QED
      BY <1>2, <1>5, <1>6, <1>7, <1>8, <2>2, <3>1 DEF Held, Used
  <2> QED
    BY <2>1, <2>2
<1>11. ASSUME NEW i \in Slot PROVE Stored(i)'
  BY <1>2, <1>5, <1>7 DEF Sockets, Stored, Used
<1>12. NoSocketLost'
  <2> SUFFICES ASSUME NEW g \in Fd, conn'[g] # None
               PROVE  Holders(g)' # {} \/ \E j \in Entries(g)' : ~arr'[j].busy
    BY DEF NoSocketLost
  <2>1. CASE g = fd
    BY <1>6, <2>1 DEF Holders
  <2>2. CASE g # fd
    <3>1. Holders(g) # {} \/ \E j \in Entries(g) : ~arr[j].busy
      BY <1>5, <2>2 DEF Sockets, NoSocketLost
    <3> QED
      BY <1>1, <1>2, <1>6, <3>1 DEF Holders, Entries, Used
  <2> QED
    BY <2>1, <2>2
<1>13. PoolBounded'
  BY <1>2 DEF Sockets, PoolBounded, Used
<1> QED
  BY <1>9, <1>10, <1>11, <1>12, <1>13 DEF Sockets

\* what every way to release a socket has in common: the caller has it no more,
\* and for every other socket nothing has changed
LEMMA Released ==
  ASSUME TypeOK, Sockets, NEW t \in Thread, ReleaseSocket(t),
         NEW b \in Fd, b = fdOf[t],
         \A g \in Fd : g # b => conn'[g] = conn[g],
         \A j \in Slot : /\ Used(j) /\ arr[j].fd # b => arr'[j] = arr[j]
                         /\ Used(j)' => \/ Used(j) /\ arr'[j] = arr[j]
                                        \/ arr'[j].fd = b,
         \A j \in Slot : Used(j)' /\ arr'[j].fd = b => Stored(j)',
         conn'[b] # None => \E j \in Slot : Used(j)' /\ arr'[j].fd = b /\ ~arr'[j].busy
  PROVE  /\ \A u \in Thread : Control(u)'
         /\ \A u \in Thread : Held(u)'
         /\ \A j \in Slot : Stored(j)'
         /\ NoSocketLost'
<1>1. pc[t] = "release" /\ b # None
  BY DEF ReleaseSocket, Sockets, Control, Holding
<1>2. UNCHANGED <<seed, calls, cur, got>> /\ Goto(t, "idle")
  BY DEF ReleaseSocket
<1>3. \A u \in Thread : fdOf'[u] = IF u = t THEN None ELSE fdOf[u]
  BY DEF ReleaseSocket, TypeOK
<1>4. \A u \in Thread : Ip(u)' = Ip(u)
  BY <1>2 DEF Ip, My
<1>5. \A u \in Thread : Control(u)'
  BY <1>1, <1>2, <1>3 DEF Goto, TypeOK, Sockets, Control, Holding
<1>6. \A u \in Thread : u # t => fdOf[u] # b
  BY <1>1 DEF Sockets, Held
<1>7. ASSUME NEW u \in Thread PROVE Held(u)'
  <2>1. CASE u = t
    BY <1>3, <2>1 DEF Held
  <2>2. CASE u # t
    <3>1. Held(u) /\ (fdOf[u] # None => fdOf[u] \in Fd)
      BY DEF Sockets, TypeOK
    <3> QED
      BY <1>3, <1>4, <1>6, <2>2, <3>1 DEF Held
  <2> QED
    BY <2>1, <2>2
<1>8. ASSUME NEW j \in Slot PROVE Stored(j)'
  <2>1. CASE Used(j)' /\ arr'[j].fd = b
    BY <2>1
  <2>2. CASE Used(j)' /\ arr'[j].fd # b
    <3>1. Used(j) /\ arr'[j] = arr[j] /\ Stored(j) /\ arr[j].fd \in Fd
      BY <2>2 DEF Sockets, TypeOK, Used, Entry
    <3> QED
      BY <2>2, <3>1 DEF Stored
  <2>3. CASE ~Used(j)'
    BY <2>3 DEF Stored
  <2> QED
    BY <2>1, <2>2, <2>3
<1>9. NoSocketLost'
  <2> SUFFICES ASSUME NEW g \in Fd, conn'[g] # None
               PROVE  Holders(g)' # {} \/ \E j \in Entries(g)' : ~arr'[j].busy
    BY DEF NoSocketLost
  <2>1. CASE g = b
    BY <2>1 DEF Entries
  <2>2. CASE g # b
    <3>1. Holders(g) # {} \/ \E j \in Entries(g) : ~arr[j].busy
      BY <2>2 DEF Sockets, NoSocketLost
    <3>2. CASE Holders(g) # {}
      BY <1>3, <2>2, <3>2 DEF Holders
    <3>3. CASE \E j \in Entries(g) : ~arr[j].busy
      BY <2>2, <3>3 DEF Entries, Used
    <3> QED
      BY <3>1, <3>2, <3>3
  <2> QED
    BY <2>1, <2>2
<1> QED
  BY <1>5, <1>7, <1>8, <1>9

LEMMA ReleaseSockets ==
  ASSUME TypeOK, Sockets, NEW t \in Thread, ReleaseSocket(t)
  PROVE  Sockets'
<1>1. PICK b \in Fd : b = fdOf[t] /\ conn[b] # None /\ conn[b].to.ip = Ip(t)
  BY DEF ReleaseSocket, Sockets, Control, Held, Holding, TypeOK
<1>2. cur[t] \in 1 .. Len(calls) /\ Ip(t) \in {s.ip : s \in Server}
  <2>1. cur[t] \in 1 .. Len(calls)
    BY DEF ReleaseSocket, Sockets, Control
  <2> QED
    BY <2>1, CallType DEF Ip, My, Made
<1>3. /\ \A j \in Slot : Used(j) /\ arr[j].fd = b => j \in InPool(b, Ip(t))
      /\ \A j \in Slot : Used(j) => arr[j] \in Entry
  BY <1>1 DEF Sockets, Stored, InPool, Used, TypeOK
<1>4. CASE InPool(b, Ip(t)) # {}
  <2>1. PICK i \in InPool(b, Ip(t)) : arr' = [arr EXCEPT ![i].busy = FALSE] /\ UNCHANGED conn
    BY <1>1, <1>4, MinIn DEF ReleaseSocket, Kept, InPool
  <2>2. /\ i \in Slot /\ Used(i) /\ arr[i].fd = b /\ arr[i].ip = Ip(t) /\ arr[i] \in Entry
        /\ Stored(i)
    BY <1>3 DEF InPool, Sockets
  <2>3. PICK e \in Entry : /\ e.fd = b /\ e.ip = Ip(t) /\ e.busy = FALSE
                          /\ \A j \in Slot : arr'[j] = IF j = i THEN e ELSE arr[j]
    <3>1. [arr[i] EXCEPT !.busy = FALSE] \in Entry
      BY <2>2 DEF Entry
    <3>2. \A j \in Slot : arr'[j] = IF j = i THEN [arr[i] EXCEPT !.busy = FALSE] ELSE arr[j]
      BY <2>1 DEF TypeOK
    <3> QED
      BY <2>2, <3>1, <3>2 DEF Entry
  <2>4. \A j \in Slot : (Used(j) <=> Used(j)') /\ (j # i => arr'[j] = arr[j])
    BY <2>2, <2>3 DEF Used
  <2>5. \A j \in Slot : Used(j) /\ arr[j].fd = b => j = i
    BY <2>2 DEF Stored
  <2>6. \A j \in Slot : Used(j)' /\ arr'[j].fd = b => j = i
    BY <2>4, <2>5
  <2>7. Stored(i)'
    BY <1>1, <2>1, <2>2, <2>3, <2>6 DEF Stored
  <2>8. /\ \A u \in Thread : Control(u)'
        /\ \A u \in Thread : Held(u)'
        /\ \A j \in Slot : Stored(j)'
        /\ NoSocketLost'
    <3>1. \A g \in Fd : g # b => conn'[g] = conn[g]
      BY <2>1
    <3>2. \A j \in Slot : /\ Used(j) /\ arr[j].fd # b => arr'[j] = arr[j]
                          /\ Used(j)' => \/ Used(j) /\ arr'[j] = arr[j]
                                         \/ arr'[j].fd = b
      BY <2>2, <2>3, <2>4
    <3>3. \A j \in Slot : Used(j)' /\ arr'[j].fd = b => Stored(j)'
      BY <2>6, <2>7
    <3>4. \E j \in Slot : Used(j)' /\ arr'[j].fd = b /\ ~arr'[j].busy
      BY <2>2, <2>3, <2>4
    <3> QED
      BY <1>1, <3>1, <3>2, <3>3, <3>4, Released
  <2>9. PoolBounded'
    <3>1. \A j \in Slot : Used(j)' => Used(j) /\ arr'[j].ip = arr[j].ip
      BY <2>2, <2>3, <2>4
    <3> QED
      BY <3>1, PoolShrinks DEF Sockets
  <2> QED
    BY <2>8, <2>9 DEF Sockets
<1>5. CASE InPool(b, Ip(t)) = {} /\ Room(Ip(t))
  <2>1. PICK i \in Free :
           /\ arr' = [arr EXCEPT ![i] = [fd |-> b, ip |-> Ip(t), busy |-> FALSE]]
           /\ UNCHANGED conn
    BY <1>1, <1>5, MinIn DEF ReleaseSocket, Kept, Room, Free
  <2>2. PICK e \in Entry : /\ e.fd = b /\ e.ip = Ip(t) /\ e.busy = FALSE
                          /\ arr' = [arr EXCEPT ![i] = e]
    BY <1>2, <2>1 DEF Entry
  <2>3. \A j \in Slot : arr'[j] = IF j = i THEN e ELSE arr[j]
    BY <2>2 DEF TypeOK, Free
  <2>4. i \in Slot /\ ~Used(i) /\ \A j \in Slot : ~(Used(j) /\ arr[j].fd = b)
    BY <1>3, <1>5 DEF Free
  <2>5. \A j \in Slot : /\ Used(j) => arr'[j] = arr[j] /\ Used(j)'
                        /\ Used(j)' => Used(j) \/ j = i
    BY <2>3, <2>4 DEF Used
  <2>6. Used(i)' /\ arr'[i] = e
    BY <2>3, <2>4 DEF Used
  <2>7. \A j \in Slot : Used(j)' /\ arr'[j].fd = b => j = i
    BY <2>4, <2>5
  <2>8. Stored(i)'
    BY <1>1, <2>1, <2>2, <2>6, <2>7 DEF Stored
  <2>9. /\ \A u \in Thread : Control(u)'
        /\ \A u \in Thread : Held(u)'
        /\ \A j \in Slot : Stored(j)'
        /\ NoSocketLost'
    <3>1. \A g \in Fd : g # b => conn'[g] = conn[g]
      BY <2>1
    <3>2. \A j \in Slot : /\ Used(j) /\ arr[j].fd # b => arr'[j] = arr[j]
                          /\ Used(j)' => \/ Used(j) /\ arr'[j] = arr[j]
                                         \/ arr'[j].fd = b
      BY <2>2, <2>5, <2>6
    <3>3. \A j \in Slot : Used(j)' /\ arr'[j].fd = b => Stored(j)'
      BY <2>7, <2>8
    <3>4. \E j \in Slot : Used(j)' /\ arr'[j].fd = b /\ ~arr'[j].busy
      BY <2>2, <2>4, <2>6
    <3> QED
      BY <1>1, <3>1, <3>2, <3>3, <3>4, Released
  <2>10. PoolBounded'
    BY <1>5, <2>2, <2>4, PoolGrows DEF Sockets
  <2> QED
    BY <2>9, <2>10 DEF Sockets
<1>6. CASE InPool(b, Ip(t)) = {} /\ ~Room(Ip(t))
  <2>1. Closed(b) /\ UNCHANGED arr
    BY <1>1, <1>6 DEF ReleaseSocket, Kept
  <2>2. \A g \in Fd : conn'[g] = IF g = b THEN None ELSE conn[g]
    BY <2>1 DEF Closed, TypeOK
  <2>3. \A j \in Slot : ~(Used(j) /\ arr[j].fd = b)
    BY <1>3, <1>6
  <2>4. \A j \in Slot : Used(j)' <=> Used(j)
    BY <2>1 DEF Used
  <2>5. /\ \A u \in Thread : Control(u)'
        /\ \A u \in Thread : Held(u)'
        /\ \A j \in Slot : Stored(j)'
        /\ NoSocketLost'
    BY <1>1, <2>1, <2>2, <2>3, <2>4, Released
  <2>6. PoolBounded'
    BY <2>1, <2>4, PoolShrinks DEF Sockets
  <2> QED
    BY <2>5, <2>6 DEF Sockets
<1> QED
  BY <1>4, <1>5, <1>6

\* a step of a call that stays where it is in the pool
LEMMA MySockets ==
  ASSUME TypeOK, Sockets, NEW t \in Thread, pc[t] # "idle",
         UNCHANGED <<arr, fdOf, cur>>,
         calls' = calls \/ Only(cur[t]),
         conn' = conn \/ (fdOf[t] \in Fd /\ conn[fdOf[t]] # None /\ OnlyConn(fdOf[t])),
         NEW l, pc' = pc \/ Goto(t, l), l \in Holding <=> pc[t] \in Holding
  PROVE  Sockets'
<1>1. Control(t) /\ cur[t] \in 1 .. Len(calls)
  BY DEF Sockets, Control
<1>2. /\ Len(calls') = Len(calls)
      /\ \A d \in 1 .. Len(calls) : calls'[d].to = calls[d].to
  BY <1>1 DEF Only
<1>3. \A u \in Thread : Control(u)'
  BY <1>1, <1>2 DEF Goto, TypeOK, Sockets, Control
<1>4. \A u \in Thread : fdOf[u] # None => cur[u] \in 1 .. Len(calls)
  BY DEF Sockets, Control, Holding
<1>5. \A u \in Thread : fdOf[u] # None => Ip(u)' = Ip(u)
  BY <1>2, <1>4 DEF Ip, My
<1>6. \A fd \in Fd : /\ conn[fd] = None => conn'[fd] = None
                     /\ conn[fd] # None => conn'[fd] # None /\ conn'[fd].to = conn[fd].to
  BY DEF OnlyConn
<1> QED
  BY <1>3, <1>5, <1>6, SocketsKept

LEMMA ActSockets ==
  ASSUME TypeOK, Sockets, Traffic, NEW t \in Thread, Act(t)
  PROVE  Sockets'
<1>1. pc[t] # "idle" => cur[t] \in 1 .. Len(calls)
  BY DEF Sockets, Control
<1>2. pc[t] \in Holding => fdOf[t] \in Fd /\ conn[fdOf[t]] # None
  BY DEF Sockets, Control, Held, TypeOK
<1>3. CASE CheckSocket(t)
  BY <1>3, MySockets DEF CheckSocket, Holding
<1>4. CASE ConnectFails(t)
  <2>1. Only(cur[t]) /\ \A u \in Thread : cur'[u] = cur[u]
    BY <1>1, <1>4, SetResult DEF ConnectFails, Outcome
  <2>2. fdOf[t] = None
    BY <1>4 DEF ConnectFails, Sockets, Control, Holding
  <2> QED
    BY <1>4, <2>1, MySockets DEF ConnectFails, Holding
<1>5. CASE LoadSid(t)
  <2>1. Only(cur[t])
    BY <1>1, <1>5, LoadSidCall DEF LoadSid
  <2> QED
    BY <1>5, <2>1, MySockets DEF LoadSid, Holding
<1>6. CASE StoreSid(t)
  BY <1>6, MySockets DEF StoreSid, Holding
<1>7. CASE SendPacket(t)
  <2>1. CASE conn[fdOf[t]].eof
    BY <1>7, <2>1, MySockets DEF SendPacket, Holding
  <2>2. CASE ~conn[fdOf[t]].eof
    <3>1. Whole(cur[t]) \in Piece /\ fdOf[t] \in Fd /\ conn[fdOf[t]] # None
      BY <1>1, <1>2, <1>7, CallType, PieceType DEF SendPacket, Holding
    <3>2. conn' = [conn EXCEPT ![fdOf[t]].owed = Append(@, Whole(cur[t]))]
      BY <1>7, <2>2 DEF SendPacket
    <3>3. OnlyConn(fdOf[t])
      BY <3>1, <3>2, ConnSends
    <3> QED
      BY <1>7, <3>1, <3>3, MySockets DEF SendPacket, Holding
  <2> QED
    BY <2>1, <2>2
<1>8. CASE Recv(t)
  <2>1. /\ pc[t] = "recv" /\ fdOf[t] \in Fd /\ conn[fdOf[t]] # None
        /\ OnlyConn(fdOf[t]) /\ UNCHANGED <<arr, fdOf, cur>>
        /\ pc' = pc \/ Goto(t, "release")
        /\ calls' = calls \/ \E r \in Outcome \cup Code : Result(t, r)
    BY <1>8, RecvDoes
  <2>2. calls' = calls \/ Only(cur[t])
    BY <1>1, <2>1, SetResult
  <2> QED
    BY <2>1, <2>2, MySockets DEF Holding
<1>9. CASE Timeout(t)
  <2>1. Only(cur[t])
    BY <1>1, <1>9, SetResult DEF Timeout, Outcome
  <2> QED
    BY <1>9, <2>1, MySockets DEF Timeout, Holding
<1> QED
  BY <1>3, <1>4, <1>5, <1>6, <1>7, <1>8, <1>9, GetSocketSockets, DiscardSockets,
     ConnectSockets, ReleaseSockets DEF Act

LEMMA CallSockets ==
  ASSUME TypeOK, Sockets, NEW t \in Thread, Call(t)
  PROVE  Sockets'
<1>1. PICK m \in Made : calls' = Append(calls, m)
  BY CallMakes
<1>2. /\ Len(calls') = Len(calls) + 1 /\ Len(calls) \in Nat
      /\ \A d \in 1 .. Len(calls) : calls'[d] = calls[d]
  BY <1>1, NewCall DEF Call
<1>3. pc[t] = "idle" /\ fdOf[t] = None
  BY DEF Call, Sockets, Control, Holding
<1>4. /\ UNCHANGED <<arr, seed, conn, fdOf, got>> /\ Goto(t, "get")
      /\ cur' = [cur EXCEPT ![t] = Len(calls) + 1]
  BY DEF Call
<1>5. \A u \in Thread : Control(u)'
  BY <1>2, <1>3, <1>4 DEF Goto, TypeOK, Sockets, Control, Holding
<1>6. \A u \in Thread : fdOf[u] # None => cur[u] \in 1 .. Len(calls) /\ cur'[u] = cur[u]
  BY <1>3, <1>4 DEF Sockets, Control, Holding, TypeOK
<1>7. \A u \in Thread : fdOf[u] # None => Ip(u)' = Ip(u)
  BY <1>2, <1>6 DEF Ip, My
<1> QED
  BY <1>4, <1>5, <1>7, SocketsKept

LEMMA ServerSockets ==
  ASSUME TypeOK, Sockets, Traffic, NEW fd \in Fd,
         Serve(fd) \/ ServeRest(fd) \/ NoAnswer(fd) \/ Hangup(fd)
  PROVE  Sockets'
<1>1. conn[fd] # None /\ OnlyConn(fd)
  BY ServerTypes, ServerSteps DEF Open
<1>2. UNCHANGED <<arr, seed, pc, cur, fdOf, got>>
  BY ServerSteps
<1>3. calls' = calls \/ \E c \in 1 .. Len(calls) : Only(c)
  <2>1. CASE Serve(fd)
    <3> DEFINE c == Head(conn[fd].owed).call
    <3>1. c \in 1 .. Len(calls)
      BY <2>1, ServeSteps, HeadOwed
    <3>2. PICK a \in Code : calls' = [calls EXCEPT ![c].answer = a]
      BY <2>1, ServeSteps DEF Answers
    <3> HIDE DEF c
    <3> QED
      BY <3>1, <3>2, SetAnswer
  <2>2. CASE ~Serve(fd)
    BY <2>2, ServerSteps
  <2> QED
    BY <2>1, <2>2
<1>4. /\ Len(calls') = Len(calls)
      /\ \A d \in 1 .. Len(calls) : calls'[d].to = calls[d].to
  BY <1>3 DEF Only
<1>5. \A u \in Thread : Control(u)'
  BY <1>2, <1>4 DEF Sockets, Control
<1>6. \A u \in Thread : fdOf[u] # None => cur[u] \in 1 .. Len(calls)
  BY DEF Sockets, Control, Holding
<1>7. \A u \in Thread : fdOf[u] # None => Ip(u)' = Ip(u)
  BY <1>2, <1>4, <1>6 DEF Ip, My
<1>8. \A g \in Fd : /\ conn[g] = None => conn'[g] = None
                    /\ conn[g] # None => conn'[g] # None /\ conn'[g].to = conn[g].to
  BY <1>1 DEF OnlyConn
<1> QED
  BY <1>2, <1>5, <1>7, <1>8, SocketsKept

(***************************************************************************)
(* What is under way, action by action.                                    *)
(***************************************************************************)
\* no answer is forgotten or made up
Keeps == /\ Len(calls') = Len(calls)
         /\ \A d \in 1 .. Len(calls) : /\ calls'[d].answer = calls[d].answer
                                       /\ calls'[d].kind = calls[d].kind

\* connection b may have changed: it asks for nothing it did not ask for, and
\* delivers answers
Less(b) ==
    /\ \A g \in Fd : g # b => conn'[g] = conn[g]
    /\ conn'[b] # None =>
          /\ conn'[b] \in Connection
          /\ \A k \in 1 .. Len(conn'[b].in) : Answered(conn'[b].in[k])
          /\ \/ conn'[b].owed = <<>>
             \/ conn[b] # None /\ conn'[b].owed = conn[b].owed
             \/ conn[b] # None /\ conn[b].owed # <<>> /\ conn'[b].owed = Tail(conn[b].owed)

LEMMA TailFacts ==
  ASSUME NEW o \in Seq(Piece), o # <<>>
  PROVE  /\ Tail(o) \in Seq(Piece)
         /\ \A k \in 1 .. Len(Tail(o)) : k + 1 \in 1 .. Len(o) /\ Tail(o)[k] = o[k + 1]
<1>1. Tail(o) \in Seq(Piece) /\ Len(Tail(o)) = Len(o) - 1
      /\ \A k \in 1 .. Len(Tail(o)) : Tail(o)[k] = o[k + 1]
  BY HeadTailProperties
<1>2. Len(o) \in Nat /\ Len(o) # 0
  BY EmptySeq, LenProperties
<1> QED
  BY <1>1, <1>2

\* the requests of a connection are among those it had, all moved by as much
LEMMA OwedShift ==
  ASSUME TypeOK, NEW b \in Fd, Less(b), conn'[b] # None
  PROVE  \E s \in {0, 1} : \A k \in 1 .. Len(conn'[b].owed) :
            /\ conn[b] # None
            /\ k + s \in 1 .. Len(conn[b].owed)
            /\ conn'[b].owed[k] = conn[b].owed[k + s]
<1>1. CASE conn'[b].owed = <<>>
  BY <1>1, EmptySeq
<1>2. CASE conn[b] # None /\ conn'[b].owed = conn[b].owed
  <2>1. Len(conn[b].owed) \in Nat
    BY <1>2, ConnType, LenProperties
  <2>2. \A k \in 1 .. Len(conn[b].owed) : k + 0 = k
    BY <2>1
  <2> QED
    BY <1>2, <2>2
<1>3. CASE conn[b] # None /\ conn[b].owed # <<>> /\ conn'[b].owed = Tail(conn[b].owed)
  <2>1. PICK o \in Seq(Piece) : o = conn[b].owed
    BY <1>3, ConnType
  <2>2. \A k \in 1 .. Len(Tail(o)) : k + 1 \in 1 .. Len(o) /\ Tail(o)[k] = o[k + 1]
    BY <1>3, <2>1, TailFacts
  <2> QED
    BY <1>3, <2>1, <2>2
<1> QED
  BY <1>1, <1>2, <1>3 DEF Less

LEMMA CarriesLess ==
  ASSUME TypeOK, Traffic, Keeps, NEW b \in Fd, Less(b), NEW g \in Fd
  PROVE  Carries(g)'
<1>1. CASE g # b
  <2>1. conn'[g] = conn[g] /\ Carries(g)
    BY <1>1 DEF Less, Traffic
  <2>2. (conn[g] # None => \A k \in 1 .. Len(conn[g].in) : Answered(conn[g].in[k]))'
    BY <2>1 DEF Carries, Answered, Keeps
  <2>3. (conn[g] # None => \A k \in 1 .. Len(conn[g].owed) : Pending(conn[g].owed[k]))'
    BY <2>1 DEF Carries, Answered, Pending, Keeps
  <2> QED
    BY <2>2, <2>3 DEF Carries
<1>2. CASE g = b /\ conn'[b] # None
  <2>1. \A k \in 1 .. Len(conn'[b].in) :
           conn'[b].in[k].call \in 1 .. Len(calls') /\ calls'[conn'[b].in[k].call].answer # None
    BY <1>2 DEF Less, Answered, Keeps
  <2>2. PICK s \in {0, 1} : \A k \in 1 .. Len(conn'[b].owed) :
            /\ conn[b] # None
            /\ k + s \in 1 .. Len(conn[b].owed)
            /\ conn'[b].owed[k] = conn[b].owed[k + s]
    BY <1>2, OwedShift
  <2>3. \A k \in 1 .. Len(conn'[b].owed) : Pending(conn'[b].owed[k])
    BY <2>2 DEF Traffic, Carries
  <2>4. (\A k \in 1 .. Len(conn[b].owed) : Pending(conn[b].owed[k]))'
    BY <2>3 DEF Pending, Answered, Keeps
  <2> QED
    BY <1>2, <2>1, <2>4 DEF Carries, Answered
<1>3. CASE g = b /\ conn'[b] = None
  BY <1>3 DEF Carries
<1> QED
  BY <1>1, <1>2, <1>3

LEMMA AsksLess ==
  ASSUME TypeOK, Traffic, NEW b \in Fd, Less(b)
  PROVE  /\ AskedOnce'
         /\ \A g \in Fd, k \in Nat, c \in CallNo :
               Asks(g, k, c)' => \E l \in Nat : Asks(g, l, c)
<1>1. PICK s \in {0, 1} : \A k \in Nat, c \in CallNo : Asks(b, k, c)' => Asks(b, k + s, c)
  <2>1. CASE conn'[b] = None
    BY <2>1 DEF Asks
  <2>2. CASE conn'[b] # None
    BY <2>2, OwedShift DEF Asks, Whole
  <2> QED
    BY <2>1, <2>2
<1>2. \A g \in Fd, k \in Nat, c \in CallNo : g # b /\ Asks(g, k, c)' => Asks(g, k, c)
  BY DEF Less, Asks, Whole
<1>3. ASSUME NEW c \in CallNo, NEW g \in Fd, NEW h \in Fd, NEW k \in Nat, NEW l \in Nat,
             Asks(g, k, c)', Asks(h, l, c)'
      PROVE  g = h /\ k = l
  <2>1. PICK i \in Nat : Asks(g, i, c) /\ i = IF g = b THEN k + s ELSE k
    BY <1>1, <1>2, <1>3
  <2>2. PICK j \in Nat : Asks(h, j, c) /\ j = IF h = b THEN l + s ELSE l
    BY <1>1, <1>2, <1>3
  <2>3. g = h /\ i = j
    BY <2>1, <2>2 DEF Traffic, AskedOnce
  <2> QED
    BY <2>1, <2>2, <2>3
<1>4. ASSUME NEW g \in Fd, NEW k \in Nat, NEW c \in CallNo, Asks(g, k, c)'
      PROVE  \E l \in Nat : Asks(g, l, c)
  BY <1>1, <1>2, <1>4
<1> QED
  BY <1>3, <1>4 DEF AskedOnce

\* most steps: no call is added, nothing is asked for
LEMMA TrafficLess ==
  ASSUME TypeOK, Sockets, Traffic, Keeps, UNCHANGED cur,
         UNCHANGED conn \/ \E b \in Fd : Less(b),
         \A t \in Thread :
            /\ pc'[t] \in Before => pc[t] \in Before
            /\ pc'[t] # "idle" => pc[t] # "idle"
            /\ pc'[t] \in {"store", "send", "recv", "release"} => calls'[cur[t]].sid # None
            /\ \A k \in 1 .. Len(got'[t]) : Answered(got'[t][k])
  PROVE  Traffic'
<1>1. ASSUME NEW g \in Fd PROVE Carries(g)'
  <2>1. CASE UNCHANGED conn
    <3>1. Carries(g)
      BY DEF Traffic
    <3>2. (conn[g] # None => \A k \in 1 .. Len(conn[g].in) : Answered(conn[g].in[k]))'
      BY <2>1, <3>1 DEF Carries, Answered, Keeps
    <3>3. (conn[g] # None => \A k \in 1 .. Len(conn[g].owed) : Pending(conn[g].owed[k]))'
      BY <2>1, <3>1 DEF Carries, Answered, Pending, Keeps
    <3> QED
      BY <3>2, <3>3 DEF Carries
  <2> QED
    BY <2>1, CarriesLess
<1>2. /\ AskedOnce'
      /\ \A g \in Fd, k \in Nat, c \in CallNo :
            Asks(g, k, c)' => \E l \in Nat : Asks(g, l, c)
  <2>1. CASE UNCHANGED conn
    BY <2>1 DEF Traffic, AskedOnce, Asks, Whole
  <2> QED
    BY <2>1, AsksLess
<1>3. ASSUME NEW t \in Thread PROVE Knows(t)'
  <2>1. ASSUME pc'[t] \in Before
        PROVE  My(t)'.answer = None /\ \A fd \in Fd, k \in Nat : ~Asks(fd, k, cur[t])'
    <3>1. pc[t] \in Before /\ cur[t] \in 1 .. Len(calls) /\ cur[t] \in CallNo
      BY <2>1, CallType DEF Sockets, Control, Before
    <3>2. calls[cur[t]].answer = None /\ \A fd \in Fd, k \in Nat : ~Asks(fd, k, cur[t])
      BY <3>1 DEF Traffic, Knows, My
    <3> QED
      BY <1>2, <3>1, <3>2 DEF Keeps, My
  <2>2. pc'[t] \in {"store", "send", "recv", "release"} => My(t)'.sid # None
    BY DEF My
  <2>3. pc'[t] # "idle" => \A u \in Thread : u # t /\ pc'[u] # "idle" => cur'[u] # cur'[t]
    BY DEF Traffic, Knows
  <2>4. (\A k \in 1 .. Len(got[t]) : Answered(got[t][k]))'
    BY DEF Answered, Keeps
  <2> QED
    BY <2>1, <2>2, <2>3, <2>4 DEF Knows, Before, Asks, My
<1>4. \A c \in 1 .. Len(calls') :
         calls'[c].answer # None => calls'[c].answer \in Answers(calls'[c].kind)
  BY DEF Traffic, Keeps
<1> QED
  BY <1>1, <1>2, <1>3, <1>4 DEF Traffic, Answers

\* the same for a step of one call
LEMMA MyTraffic ==
  ASSUME TypeOK, Sockets, Traffic, NEW t \in Thread, pc[t] # "idle",
         UNCHANGED cur, UNCHANGED conn \/ \E b \in Fd : Less(b),
         calls' = calls \/ (Only(cur[t]) /\ calls'[cur[t]].answer = calls[cur[t]].answer),
         NEW l, \/ UNCHANGED <<pc, calls>>
                \/ /\ Goto(t, l)
                   /\ l \in Before => pc[t] \in Before
                   /\ l \in {"store", "send", "recv", "release"} => calls'[cur[t]].sid # None,
         NEW x, got' = got \/ got' = [got EXCEPT ![t] = x],
         \A k \in 1 .. Len(x) : Answered(x[k])
  PROVE  Traffic'
<1>1. Control(t) /\ cur[t] \in 1 .. Len(calls) /\ Knows(t)
  BY DEF Sockets, Control, Traffic
<1>2. Keeps
  BY <1>1 DEF Only, Keeps
<1>3. ASSUME NEW u \in Thread
      PROVE  /\ pc'[u] \in Before => pc[u] \in Before
             /\ pc'[u] # "idle" => pc[u] # "idle"
             /\ pc'[u] \in {"store", "send", "recv", "release"} => calls'[cur[u]].sid # None
             /\ \A k \in 1 .. Len(got'[u]) : Answered(got'[u][k])
  <2>1. Knows(u) /\ Control(u)
    BY DEF Traffic, Sockets
  <2>2. \A k \in 1 .. Len(got'[u]) : Answered(got'[u][k])
    <3>1. got'[u] = got[u] \/ got'[u] = x
      BY DEF TypeOK
    <3> QED
      BY <2>1, <3>1 DEF Knows
  <2>3. CASE u = t
    <3>1. (pc'[t] = pc[t] /\ calls' = calls) \/ pc'[t] = l
      BY DEF Goto, TypeOK
    <3> QED
      BY <2>1, <2>2, <2>3, <3>1 DEF Knows, My, Goto, TypeOK
  <2>4. CASE u # t
    <3>1. pc'[u] = pc[u]
      BY <2>4 DEF Goto, TypeOK
    <3>2. pc[u] # "idle" => cur[u] # cur[t] /\ cur[u] \in 1 .. Len(calls)
      BY <1>1, <2>1, <2>4 DEF Knows, Control
    <3>3. pc[u] # "idle" => calls'[cur[u]] = calls[cur[u]]
      BY <3>2 DEF Only
    <3> QED
      BY <2>1, <2>2, <3>1, <3>3 DEF Knows, My
  <2> QED
    BY <2>3, <2>4
<1> QED
  BY <1>2, <1>3, TrafficLess

\* a connection is closed or opened
LEMMA FreshLess ==
  ASSUME TypeOK, NEW b \in Fd, NEW k \in Connection \cup {None},
         k # None => k.owed = <<>> /\ k.in = <<>>,
         conn' = [conn EXCEPT ![b] = k]
  PROVE  Less(b)
  BY EmptySeq DEF Less, TypeOK

\* a connection is read, or closed by its far end
LEMMA QuietLess ==
  ASSUME TypeOK, Traffic, NEW b \in Fd, conn[b] # None, OnlyConn(b),
         conn'[b].in = <<>> \/ conn'[b].in = conn[b].in,
         \/ conn'[b].owed = <<>>
         \/ conn'[b].owed = conn[b].owed
         \/ conn[b].owed # <<>> /\ conn'[b].owed = Tail(conn[b].owed)
  PROVE  Less(b)
<1>1. conn'[b] \in Connection /\ \A g \in Fd : g # b => conn'[g] = conn[g]
  BY DEF OnlyConn
<1>2. \A k \in 1 .. Len(conn'[b].in) : Answered(conn'[b].in[k])
  BY EmptySeq DEF Traffic, Carries
<1> QED
  BY <1>1, <1>2 DEF Less

LEMMA NoneRead == \A k \in 1 .. Len(<<>>) : Answered(<<>>[k])
  BY EmptySeq

LEMMA SendTraffic ==
  ASSUME TypeOK, Sockets, Traffic, NEW t \in Thread, SendPacket(t)
  PROVE  Traffic'
<1>1. /\ pc[t] = "send" /\ cur[t] \in 1 .. Len(calls) /\ cur[t] \in CallNo
      /\ fdOf[t] \in Fd /\ conn[fdOf[t]] # None
      /\ Knows(t) /\ My(t).sid # None /\ My(t).answer = None
  <2>1. pc[t] = "send" /\ cur[t] \in 1 .. Len(calls) /\ Knows(t)
    BY DEF SendPacket, Sockets, Control, Traffic
  <2> QED
    BY <2>1, CallType DEF Sockets, Control, Held, Holding, Knows, Before, TypeOK
<1>2. UNCHANGED <<arr, seed, calls, cur, fdOf, got>> /\ Goto(t, "recv")
  BY DEF SendPacket
<1>3. CASE conn[fdOf[t]].eof
  <2>1. UNCHANGED conn
    BY <1>3 DEF SendPacket
  <2> QED
    BY <1>1, <1>2, <2>1, NoneRead, MyTraffic DEF Before, My
<1>4. CASE ~conn[fdOf[t]].eof
  <2>1. PICK b \in Fd : b = fdOf[t] /\ conn[b] # None
    BY <1>1
  <2>2. PICK c \in CallNo : c = cur[t] /\ c \in 1 .. Len(calls)
    BY <1>1
  <2>3. conn' = [conn EXCEPT ![b].owed = Append(@, Whole(c))]
    BY <1>4, <2>1, <2>2 DEF SendPacket
  <2>4. /\ OnlyConn(b) /\ conn'[b].in = conn[b].in
        /\ conn'[b].owed = Append(conn[b].owed, Whole(c))
    BY <2>1, <2>2, <2>3, PieceType, ConnSends
  <2>5. PICK o \in Seq(Piece) : o = conn[b].owed
    BY <2>1, ConnType
  <2>6. /\ Len(conn'[b].owed) = Len(o) + 1 /\ Len(o) \in Nat
        /\ \A k \in 1 .. Len(o) : conn'[b].owed[k] = o[k]
        /\ conn'[b].owed[Len(o) + 1] = Whole(c)
    BY <2>2, <2>4, <2>5, PieceType, AppendProperties, LenProperties
  <2>7. Pending(Whole(c))
    BY <1>1, <2>2 DEF Pending, Whole, My
  <2>8. ASSUME NEW g \in Fd PROVE Carries(g)'
    <3>1. CASE g # b
      <4>1. conn'[g] = conn[g] /\ Carries(g)
        BY <2>4, <3>1 DEF OnlyConn, Traffic
      <4> QED
        BY <1>2, <4>1 DEF Carries, Answered, Pending
    <3>2. CASE g = b
      <4>1. Carries(b)
        BY DEF Traffic
      <4>2. \A k \in 1 .. Len(conn'[b].owed) : Pending(conn'[b].owed[k])
        <5>1. \A k \in 1 .. Len(o) : Pending(conn'[b].owed[k])
          BY <2>1, <2>5, <2>6, <4>1 DEF Carries
        <5>2. \A k \in 1 .. Len(conn'[b].owed) : k \in 1 .. Len(o) \/ k = Len(o) + 1
          BY <2>6
        <5> QED
          BY <2>6, <2>7, <5>1, <5>2
      <4>3. \A k \in 1 .. Len(conn'[b].in) : Answered(conn'[b].in[k])
        BY <2>1, <2>4, <4>1 DEF Carries
      <4> QED
        BY <1>2, <3>2, <4>2, <4>3 DEF Carries, Answered, Pending
    <3> QED
      BY <3>1, <3>2
  <2>9. \A g \in Fd, k \in Nat, d \in CallNo :
           Asks(g, k, d)' => \/ Asks(g, k, d)
                             \/ (g = b /\ k = Len(o) + 1 /\ d = c)
    <3>1. ASSUME NEW k \in Nat, NEW d \in CallNo, Asks(b, k, d)'
          PROVE  Asks(b, k, d) \/ (k = Len(o) + 1 /\ d = c)
      <4>1. k \in 1 .. Len(conn'[b].owed) /\ conn'[b].owed[k] = Whole(d)
        BY <3>1 DEF Asks, Whole
      <4>2. CASE k = Len(o) + 1
        BY <2>6, <4>1, <4>2 DEF Whole
      <4>3. CASE k # Len(o) + 1
        <5>1. k \in 1 .. Len(o) /\ o[k] = Whole(d)
          BY <2>6, <4>1, <4>3
        <5> QED
          BY <2>1, <2>5, <5>1 DEF Asks
      <4> QED
        BY <4>2, <4>3
    <3>2. \A g \in Fd, k \in Nat, d \in CallNo : g # b /\ Asks(g, k, d)' => Asks(g, k, d)
      BY <2>4 DEF OnlyConn, Asks, Whole
    <3> QED
      BY <3>1, <3>2
  <2>10. \A g \in Fd, k \in Nat : ~Asks(g, k, c)
    BY <1>1, <2>2 DEF Knows, Before
  <2>11. AskedOnce'
    <3> SUFFICES ASSUME NEW d \in CallNo, NEW g \in Fd, NEW h \in Fd, NEW k \in Nat,
                        NEW l \in Nat, Asks(g, k, d)', Asks(h, l, d)'
                 PROVE  g = h /\ k = l
      BY DEF AskedOnce
    <3>1. CASE d = c
      BY <2>9, <2>10, <3>1
    <3>2. CASE d # c
      BY <2>9, <3>2 DEF Traffic, AskedOnce
    <3> QED
      BY <3>1, <3>2
  <2>12. ASSUME NEW u \in Thread PROVE Knows(u)'
    <3>1. Knows(u) /\ Control(u)
      BY DEF Traffic, Sockets
    <3>2. (\A k \in 1 .. Len(got[u]) : Answered(got[u][k]))'
      BY <1>2, <3>1 DEF Knows, Answered
    <3>3. \A v \in Thread : (pc'[v] # "idle" => pc[v] # "idle") /\ cur'[v] = cur[v]
      BY <1>1, <1>2 DEF Goto, TypeOK
    <3>4. (pc[u] # "idle" => \A v \in Thread : v # u /\ pc[v] # "idle" => cur[v] # cur[u])'
      BY <3>1, <3>3 DEF Knows
    <3>5. CASE u = t
      <4>1. pc'[t] = "recv"
        BY <1>2 DEF Goto, TypeOK
      <4> QED
        BY <1>1, <1>2, <3>2, <3>4, <3>5, <4>1 DEF Knows, Before, My
    <3>6. CASE u # t
      <4>1. pc'[u] = pc[u]
        BY <1>2, <3>6 DEF Goto, TypeOK
      <4>2. pc[u] # "idle" => cur[u] \in CallNo /\ cur[u] # c
        BY <1>1, <2>2, <3>1, <3>6, CallType DEF Control, Knows
      <4>3. ASSUME pc'[u] \in Before
            PROVE  My(u)'.answer = None /\ \A g \in Fd, k \in Nat : ~Asks(g, k, cur[u])'
        <5>1. pc[u] \in Before /\ pc[u] # "idle"
          BY <4>1, <4>3 DEF Before
        <5>2. PICK d \in CallNo : d = cur[u] /\ d # c
          BY <4>2, <5>1
        <5>3. My(u).answer = None /\ \A g \in Fd, k \in Nat : ~Asks(g, k, d)
          BY <3>1, <5>1, <5>2 DEF Knows
        <5>4. \A g \in Fd, k \in Nat : ~Asks(g, k, d)'
          BY <2>9, <5>2, <5>3
        <5> QED
          BY <1>2, <5>2, <5>3, <5>4 DEF My, Asks
      <4>4. pc'[u] \in {"store", "send", "recv", "release"} => My(u)'.sid # None
        BY <1>2, <3>1, <4>1 DEF Knows, My
      <4> QED
        BY <3>2, <3>4, <4>3, <4>4 DEF Knows
    <3> QED
      BY <3>5, <3>6
  <2>13. (\A d \in 1 .. Len(calls) :
            calls[d].answer # None => calls[d].answer \in Answers(calls[d].kind))'
    BY <1>2 DEF Traffic, Answers
  <2> QED
    BY <2>8, <2>11, <2>12, <2>13 DEF Traffic
<1> QED
  BY <1>3, <1>4

LEMMA ActTraffic ==
  ASSUME TypeOK, Sockets, Traffic, NEW t \in Thread, Act(t)
  PROVE  Traffic'
<1>1. pc[t] # "idle" => cur[t] \in 1 .. Len(calls)
  BY DEF Sockets, Control
<1>2. pc[t] \in Holding => fdOf[t] \in Fd /\ conn[fdOf[t]] # None
  BY DEF Sockets, Control, Held, TypeOK
<1>3. Knows(t)
  BY DEF Traffic
<1>4. CASE GetSocket(t)
  <2>1. \E l \in {"connect", "check"} : Goto(t, l)
    BY <1>4 DEF GetSocket
  <2> QED
    BY <1>4, <2>1, NoneRead, MyTraffic DEF GetSocket, Before
<1>5. CASE CheckSocket(t)
  <2>1. \E l \in {"discard", "sid"} : Goto(t, l)
    BY <1>5 DEF CheckSocket
  <2> QED
    BY <1>5, <2>1, NoneRead, MyTraffic DEF CheckSocket, Before
<1>6. CASE Discard(t)
  <2>1. fdOf[t] \in Fd /\ Less(fdOf[t])
    BY <1>2, <1>6, FreshLess DEF Discard, Closed, Holding
  <2>2. /\ pc[t] # "idle" /\ Goto(t, "connect") /\ UNCHANGED <<calls, cur, got>>
    BY <1>6 DEF Discard
  <2>3. /\ "connect" \in Before => pc[t] \in Before
        /\ "connect" \notin {"store", "send", "recv", "release"}
    BY <1>6 DEF Discard, Before
  <2>4. got' = [got EXCEPT ![t] = <<>>] \/ got' = got
    BY <2>2
  <2> QED
    BY <2>1, <2>2, <2>3, <2>4, NoneRead, MyTraffic
<1>7. CASE Connect(t)
  <2>1. PICK fd \in Fd : conn' = [conn EXCEPT ![fd] = [to |-> My(t).to, owed |-> <<>>,
                                                     in |-> <<>>, eof |-> FALSE]]
    BY <1>7 DEF Connect
  <2>2. My(t).to \in Server
    BY <1>1, <1>7, CallType DEF Connect, My, Made
  <2>3. [to |-> My(t).to, owed |-> <<>>, in |-> <<>>, eof |-> FALSE] \in Connection
    BY <2>2 DEF Connection
  <2>4. Less(fd)
    BY <2>1, <2>3, FreshLess
  <2> QED
    BY <1>7, <2>4, NoneRead, MyTraffic DEF Connect, Before
<1>8. CASE ConnectFails(t)
  <2>1. Only(cur[t]) /\ calls'[cur[t]].answer = calls[cur[t]].answer
    BY <1>1, <1>8, SetResult DEF ConnectFails, Outcome
  <2>2. /\ pc[t] # "idle" /\ Goto(t, "idle") /\ UNCHANGED <<conn, cur, got>>
    BY <1>8 DEF ConnectFails
  <2>3. /\ "idle" \in Before => pc[t] \in Before
        /\ "idle" \notin {"store", "send", "recv", "release"}
    BY <1>8 DEF ConnectFails, Before
  <2>4. got' = [got EXCEPT ![t] = <<>>] \/ got' = got
    BY <2>2
  <2> QED
    BY <2>1, <2>2, <2>3, <2>4, NoneRead, MyTraffic
<1>9. CASE LoadSid(t)
  <2>1. /\ Only(cur[t]) /\ calls'[cur[t]].answer = calls[cur[t]].answer
        /\ calls'[cur[t]].sid # None
    BY <1>1, <1>9, LoadSidCall DEF LoadSid
  <2> QED
    BY <1>9, <2>1, NoneRead, MyTraffic DEF LoadSid, Before
<1>10. CASE StoreSid(t)
  <2>1. My(t).sid # None
    BY <1>3, <1>10 DEF StoreSid, Knows
  <2> QED
    BY <1>10, <2>1, NoneRead, MyTraffic DEF StoreSid, Before, My
<1>11. CASE Recv(t)
  <2>1. pc[t] = "recv" /\ fdOf[t] \in Fd /\ UNCHANGED cur
    BY <1>11, RecvDoes
  <2>2. Less(fdOf[t])
    BY <1>11, RecvDoes, QuietLess
  <2>3. \/ UNCHANGED <<pc, calls>>
        \/ /\ Goto(t, "release") /\ Only(cur[t])
           /\ calls'[cur[t]].answer = calls[cur[t]].answer
           /\ calls'[cur[t]].sid # None
    <3>1. calls[cur[t]].sid # None
      BY <1>3, <2>1 DEF Knows, My
    <3>2. \/ UNCHANGED <<pc, calls>>
          \/ Goto(t, "release") /\ \E r \in Outcome \cup Code : Result(t, r)
      BY <1>11, RecvDoes
    <3> QED
      BY <1>1, <2>1, <3>1, <3>2, SetResult
  <2>4. \E x : /\ got' = [got EXCEPT ![t] = x]
               /\ \A k \in 1 .. Len(x) : Answered(x[k])
    <3>1. got' = [got EXCEPT ![t] = <<>>] \/ got' = [got EXCEPT ![t] = Read(t)]
      BY <1>11, RecvDoes
    <3>2. \A k \in 1 .. Len(Read(t)) : Answered(Read(t)[k])
      BY <1>11, RecvDoes
    <3> QED
      BY <3>1, <3>2, NoneRead
  <2> QED
    BY <2>1, <2>2, <2>3, <2>4, MyTraffic DEF Before
<1>12. CASE Timeout(t)
  <2>1. /\ Only(cur[t]) /\ calls'[cur[t]].answer = calls[cur[t]].answer
        /\ calls'[cur[t]].sid = calls[cur[t]].sid
    BY <1>1, <1>12, SetResult DEF Timeout, Outcome
  <2>2. calls[cur[t]].sid # None
    BY <1>3, <1>12 DEF Timeout, Knows, My
  <2> QED
    BY <1>12, <2>1, <2>2, NoneRead, MyTraffic DEF Timeout, Before
<1>13. CASE ReleaseSocket(t)
  <2>1. UNCHANGED conn \/ (fdOf[t] \in Fd /\ Less(fdOf[t]))
    <3>1. UNCHANGED conn \/ Closed(fdOf[t])
      BY <1>13 DEF ReleaseSocket, Kept
    <3> QED
      BY <1>2, <1>13, <3>1, FreshLess DEF ReleaseSocket, Closed, Holding
  <2>2. /\ pc[t] # "idle" /\ Goto(t, "idle") /\ UNCHANGED <<calls, cur, got>>
    BY <1>13 DEF ReleaseSocket
  <2>3. /\ "idle" \in Before => pc[t] \in Before
        /\ "idle" \notin {"store", "send", "recv", "release"}
    BY <1>13 DEF ReleaseSocket, Before
  <2>4. got' = [got EXCEPT ![t] = <<>>] \/ got' = got
    BY <2>2
  <2> QED
    BY <2>1, <2>2, <2>3, <2>4, NoneRead, MyTraffic
<1> QED
  BY <1>4, <1>5, <1>6, <1>7, <1>8, <1>9, <1>10, <1>11, <1>12, <1>13, SendTraffic DEF Act

\* a new call is not known to anybody else
LEMMA CallTraffic ==
  ASSUME TypeOK, Sockets, Traffic, NEW t \in Thread, Call(t)
  PROVE  Traffic'
<1>1. PICK m \in Made : calls' = Append(calls, m) /\ m.sid = None /\ m.answer = None
  BY CallMakes
<1>2. PICK n \in Nat : n = Len(calls)
  BY LenProperties DEF TypeOK
<1>3. /\ Len(calls') = n + 1
      /\ \A d \in 1 .. n : calls'[d] = calls[d]
      /\ calls'[n + 1] = m
  BY <1>1, <1>2, NewCall DEF Call
<1>4. /\ UNCHANGED <<arr, seed, conn, fdOf, got>> /\ pc[t] = "idle" /\ n + 1 \in CallNo
      /\ \A u \in Thread : pc'[u] = IF u = t THEN "get" ELSE pc[u]
      /\ \A u \in Thread : cur'[u] = IF u = t THEN n + 1 ELSE cur[u]
  BY <1>2 DEF Call, Goto, TypeOK, CallNo
<1>5. \A p : Answered(p) => p.call \in 1 .. Len(calls') /\ calls'[p.call].answer # None
  BY <1>2, <1>3 DEF Answered
<1>6. ASSUME NEW g \in Fd PROVE Carries(g)'
  <2>1. Carries(g)
    BY DEF Traffic
  <2>2. (conn[g] # None => \A k \in 1 .. Len(conn[g].in) : Answered(conn[g].in[k]))'
    BY <1>4, <1>5, <2>1 DEF Carries, Answered
  <2>3. (conn[g] # None => \A k \in 1 .. Len(conn[g].owed) : Pending(conn[g].owed[k]))'
    BY <1>2, <1>3, <1>4, <2>1 DEF Carries, Answered, Pending
  <2> QED
    BY <2>2, <2>3 DEF Carries
<1>7. \A g \in Fd, k \in Nat, c \in CallNo : Asks(g, k, c)' <=> Asks(g, k, c)
  BY <1>4 DEF Asks, Whole
<1>8. AskedOnce'
  BY <1>7 DEF Traffic, AskedOnce
<1>9. \A g \in Fd, k \in Nat : ~Asks(g, k, n + 1)
  <2> SUFFICES ASSUME NEW g \in Fd, NEW k \in Nat, Asks(g, k, n + 1) PROVE FALSE
    OBVIOUS
  <2>1. conn[g] # None /\ k \in 1 .. Len(conn[g].owed) /\ conn[g].owed[k] = Whole(n + 1)
    BY DEF Asks
  <2>2. Pending(Whole(n + 1))
    BY <2>1 DEF Traffic, Carries
  <2> QED
    BY <1>2, <2>2 DEF Pending, Whole
<1>10. ASSUME NEW u \in Thread PROVE Knows(u)'
  <2>1. Knows(u) /\ Control(u)
    BY DEF Traffic, Sockets
  <2>2. (\A k \in 1 .. Len(got[u]) : Answered(got[u][k]))'
    BY <1>4, <1>5, <2>1 DEF Knows, Answered
  <2>3. \A v \in Thread : pc[v] # "idle" => cur[v] \in 1 .. n
    BY <1>2 DEF Sockets, Control
  <2>4. (pc[u] # "idle" => \A v \in Thread : v # u /\ pc[v] # "idle" => cur[v] # cur[u])'
    BY <1>4, <2>1, <2>3 DEF Knows
  <2>5. CASE u = t
    <3>1. pc'[u] = "get" /\ cur'[u] = n + 1 /\ My(u)'.answer = None
      BY <1>1, <1>3, <1>4, <2>5 DEF My
    <3>2. \A g \in Fd, k \in Nat : ~Asks(g, k, n + 1)'
      BY <1>4, <1>7, <1>9
    <3>3. \A g \in Fd, k \in Nat : ~Asks(g, k, cur[u])'
      BY <3>1, <3>2 DEF Asks
    <3> QED
      BY <2>2, <2>4, <3>1, <3>3 DEF Knows
  <2>6. CASE u # t
    <3>1. pc'[u] = pc[u] /\ cur'[u] = cur[u]
      BY <1>4, <2>6
    <3>2. CASE pc[u] = "idle"
      BY <2>2, <2>4, <3>1, <3>2 DEF Knows, Before
    <3>3. CASE pc[u] # "idle"
      <4>1. PICK d \in CallNo : d = cur[u] /\ d \in 1 .. n
        BY <1>2, <2>1, <3>3, CallType DEF Control
      <4>2. My(u)' = My(u)
        BY <1>3, <3>1, <4>1 DEF My
      <4>3. (\A g \in Fd, k \in Nat : ~Asks(g, k, d)) => \A g \in Fd, k \in Nat : ~Asks(g, k, d)'
        BY <1>7
      <4>4. pc[u] \in Before => \A g \in Fd, k \in Nat : ~Asks(g, k, cur[u])'
        BY <2>1, <3>1, <4>1, <4>3 DEF Knows, Asks
      <4> QED
        BY <2>1, <2>2, <2>4, <3>1, <4>2, <4>4 DEF Knows
    <3> QED
      BY <3>2, <3>3
  <2> QED
    BY <2>5, <2>6
<1>11. (\A d \in 1 .. Len(calls) :
          calls[d].answer # None => calls[d].answer \in Answers(calls[d].kind))'
  <2>1. \A d \in 1 .. Len(calls') : d \in 1 .. n \/ d = n + 1
    BY <1>3
  <2> QED
    BY <1>1, <1>2, <1>3, <2>1 DEF Traffic, Answers
<1> QED
  BY <1>6, <1>8, <1>10, <1>11 DEF Traffic

\* the steps of the server that answer no request
LEMMA ServerLessTraffic ==
  ASSUME TypeOK, Sockets, Traffic, NEW fd \in Fd,
         ServeRest(fd) \/ NoAnswer(fd) \/ Hangup(fd)
  PROVE  Traffic'
<1>1. conn[fd] # None /\ OnlyConn(fd) /\ Carries(fd)
  BY ServerTypes DEF ServeRest, NoAnswer, Hangup, Open, Traffic
<1>2. UNCHANGED <<arr, seed, calls, pc, cur, fdOf, got>>
  BY DEF ServeRest, NoAnswer, Hangup
<1>3. Less(fd)
  <2>1. CASE ServeRest(fd)
    <3>1. PICK i \in Seq(Piece), p \in Piece :
             i = conn[fd].in /\ p = Head(conn[fd].owed) /\ Answered(p)
      BY <1>1, <2>1, ConnType, HeadOwed DEF ServeRest
    <3>2. conn[fd].owed # <<>> /\ Arrives(fd, p)
      BY <2>1, <3>1 DEF ServeRest
    <3>3. conn'[fd].in = Append(i, p) /\ conn'[fd].owed = Tail(conn[fd].owed)
      BY <1>1, <3>1, <3>2, ConnArrives
    <3>4. /\ Len(Append(i, p)) = Len(i) + 1 /\ Len(i) \in Nat
          /\ \A k \in 1 .. Len(i) : Append(i, p)[k] = i[k]
          /\ Append(i, p)[Len(i) + 1] = p
      BY AppendProperties, LenProperties
    <3>5. \A k \in 1 .. Len(i) : Answered(i[k])
      BY <1>1, <3>1 DEF Carries
    <3>6. \A k \in 1 .. Len(Append(i, p)) : k \in 1 .. Len(i) \/ k = Len(i) + 1
      BY <3>4
    <3>7. \A k \in 1 .. Len(Append(i, p)) : Answered(Append(i, p)[k])
      BY <3>1, <3>4, <3>5, <3>6
    <3> QED
      BY <1>1, <3>2, <3>3, <3>7 DEF Less, OnlyConn
  <2>2. CASE NoAnswer(fd)
    BY <1>1, <2>2, ConnDrops, QuietLess DEF NoAnswer
  <2>3. CASE Hangup(fd)
    BY <1>1, <2>3, ConnEnds, QuietLess DEF Hangup
  <2> QED
    BY <2>1, <2>2, <2>3
<1>4. \A t \in Thread : Knows(t)
  BY DEF Traffic
<1> QED
  BY <1>2, <1>3, <1>4, TrafficLess DEF Keeps, Knows, My

\* what Serve leaves on its connection: the answer, or half of it, and the rest
\* to come
LEMMA ServeParts ==
  ASSUME TypeOK, Traffic, NEW fd \in Fd, Serve(fd)
  PROVE  \E c \in CallNo, i \in Seq(Piece), o \in Seq(Piece), p \in Piece :
            /\ conn[fd] # None /\ conn[fd].in = i /\ conn[fd].owed = o
            /\ o # <<>> /\ o[1] = Whole(c) /\ 1 \in 1 .. Len(o)
            /\ c \in 1 .. Len(calls) /\ calls[c].answer = None
            /\ OnlyConn(fd) /\ conn'[fd].in = Append(i, p) /\ p.call = c
            /\ conn'[fd].owed = Tail(o) \/ conn'[fd].owed = <<Rest(c)>> \o Tail(o)
            /\ Only(c) /\ calls'[c].sid = calls[c].sid
            /\ calls'[c].answer \in Answers(calls[c].kind)
<1> DEFINE h == Head(conn[fd].owed)
<1>1. /\ conn[fd] # None /\ h \in Piece /\ h.part = "whole" /\ conn[fd].owed # <<>>
      /\ h.call \in 1 .. Len(calls) /\ calls[h.call].answer = None
      /\ h = conn[fd].owed[1] /\ 1 \in 1 .. Len(conn[fd].owed)
  BY ServeSteps, HeadOwed DEF Open
<1>2. PICK a \in Answers(calls[h.call].kind) : calls' = [calls EXCEPT ![h.call].answer = a]
  BY ServeSteps
<1>3. \/ Arrives(fd, Whole(h.call))
      \/ conn' = [conn EXCEPT ![fd].in = Append(@, First(h.call)),
                              ![fd].owed = <<Rest(h.call)>> \o Tail(@)]
  BY ServeSteps
<1> HIDE DEF h
<1>4. PICK c \in CallNo : c = h.call /\ h = Whole(c) /\ c \in 1 .. Len(calls)
  BY <1>1, CallType DEF Whole, Piece
<1>5. PICK i \in Seq(Piece), o \in Seq(Piece) : conn[fd].in = i /\ conn[fd].owed = o
  BY <1>1, ConnType
<1>6. a \in Code
  BY DEF Answers
<1>7. Only(c) /\ calls'[c].sid = calls[c].sid /\ calls'[c].answer \in Answers(calls[c].kind)
  BY <1>2, <1>4, <1>6, SetAnswer
<1>8. PICK p \in Piece : /\ OnlyConn(fd) /\ conn'[fd].in = Append(i, p) /\ p.call = c
                         /\ \/ conn'[fd].owed = Tail(o)
                            \/ conn'[fd].owed = <<Rest(c)>> \o Tail(o)
  <2>1. Whole(c) \in Piece /\ First(c) \in Piece /\ Rest(c) \in Piece
        /\ Whole(c).call = c /\ First(c).call = c
    BY PieceType DEF Whole, First
  <2>2. CASE Arrives(fd, Whole(c))
    <3>1. OnlyConn(fd) /\ conn'[fd].in = Append(i, Whole(c)) /\ conn'[fd].owed = Tail(o)
      BY <1>1, <1>5, <2>1, <2>2, ConnArrives
    <3> QED
      BY <2>1, <3>1
  <2>3. CASE conn' = [conn EXCEPT ![fd].in = Append(@, First(c)),
                                  ![fd].owed = <<Rest(c)>> \o Tail(@)]
    <3>1. /\ OnlyConn(fd) /\ conn'[fd].in = Append(i, First(c))
          /\ conn'[fd].owed = <<Rest(c)>> \o Tail(o)
      BY <1>1, <1>5, <2>1, <2>3, ConnSplits
    <3> QED
      BY <2>1, <3>1
  <2> QED
    BY <1>3, <1>4, <2>2, <2>3
<1> QED
  BY <1>1, <1>4, <1>5, <1>7, <1>8

LEMMA RestFacts ==
  ASSUME NEW o \in Seq(Piece), o # <<>>, NEW q \in Piece
  PROVE  /\ Len(<<q>> \o Tail(o)) = Len(o)
         /\ (<<q>> \o Tail(o))[1] = q
         /\ \A k \in 1 .. Len(o) : k # 1 => (<<q>> \o Tail(o))[k] = o[k]
<1>1. /\ Tail(o) \in Seq(Piece) /\ Len(Tail(o)) = Len(o) - 1
      /\ \A k \in 1 .. Len(Tail(o)) : Tail(o)[k] = o[k + 1]
  BY HeadTailProperties
<1>2. <<q>> \in Seq(Piece) /\ Len(<<q>>) = 1 /\ <<q>>[1] = q
  OBVIOUS
<1>3. Len(o) \in Nat /\ Len(o) # 0
  BY EmptySeq, LenProperties
<1>4. PICK r \in Seq(Piece) : r = Tail(o)
  BY <1>1
<1>5. PICK s \in Seq(Piece) : s = <<q>>
  BY <1>2
<1>6. /\ Len(s \o r) = Len(s) + Len(r)
      /\ \A k \in 1 .. Len(s) + Len(r) :
            (s \o r)[k] = IF k <= Len(s) THEN s[k] ELSE r[k - Len(s)]
  BY ConcatProperties
<1>7. Len(s) = 1 /\ s[1] = q /\ Len(r) = Len(o) - 1
  BY <1>1, <1>2, <1>4, <1>5
<1>8. \A k \in 1 .. Len(o) : k # 1 => r[k - 1] = o[k]
  BY <1>1, <1>3, <1>4
<1>9. \A k \in 1 .. Len(o) : k # 1 => (s \o r)[k] = o[k]
  BY <1>3, <1>6, <1>7, <1>8
<1> QED
  BY <1>3, <1>4, <1>5, <1>6, <1>7, <1>9

LEMMA ServeTraffic ==
  ASSUME TypeOK, Sockets, Traffic, NEW fd \in Fd, Serve(fd)
  PROVE  Traffic'
<1>1. PICK c \in CallNo, i \in Seq(Piece), o \in Seq(Piece), p \in Piece :
            /\ conn[fd] # None /\ conn[fd].in = i /\ conn[fd].owed = o
            /\ o # <<>> /\ o[1] = Whole(c) /\ 1 \in 1 .. Len(o)
            /\ c \in 1 .. Len(calls) /\ calls[c].answer = None
            /\ OnlyConn(fd) /\ conn'[fd].in = Append(i, p) /\ p.call = c
            /\ conn'[fd].owed = Tail(o) \/ conn'[fd].owed = <<Rest(c)>> \o Tail(o)
            /\ Only(c) /\ calls'[c].sid = calls[c].sid
            /\ calls'[c].answer \in Answers(calls[c].kind)
  BY ServeParts
<1>2. UNCHANGED <<arr, seed, pc, cur, fdOf, got>>
  BY ServerSteps
<1>3. calls'[c].answer # None
  BY <1>1 DEF Answers
<1>4. \A q : q.call \in 1 .. Len(calls) /\ (Answered(q) \/ q.call = c)
             => q.call \in 1 .. Len(calls') /\ calls'[q.call].answer # None
  BY <1>1, <1>3 DEF Answered, Only
<1>5. \A q \in Piece : Pending(q) /\ q # Whole(c) =>
         IF q.part = "whole"
         THEN q.call \in 1 .. Len(calls') /\ calls'[q.call].answer = None
         ELSE q.call \in 1 .. Len(calls') /\ calls'[q.call].answer # None
  <2> SUFFICES ASSUME NEW q \in Piece, Pending(q), q # Whole(c)
               PROVE  IF q.part = "whole"
                      THEN q.call \in 1 .. Len(calls') /\ calls'[q.call].answer = None
                      ELSE q.call \in 1 .. Len(calls') /\ calls'[q.call].answer # None
    OBVIOUS
  <2>1. CASE q.part = "whole"
    <3>1. q.call # c
      BY <2>1 DEF Whole, Piece
    <3> QED
      BY <1>1, <2>1, <3>1 DEF Pending, Only
  <2>2. CASE q.part # "whole"
    BY <1>4, <2>2 DEF Pending, Answered
  <2> QED
    BY <2>1, <2>2
<1>6. \A g \in Fd, k \in Nat : Asks(g, k, c) => g = fd /\ k = 1
  <2>1. Asks(fd, 1, c)
    BY <1>1 DEF Asks
  <2> QED
    BY <2>1 DEF Traffic, AskedOnce
<1>7. Len(o) \in Nat /\ \A k \in 1 .. Len(o) : k # 1 => o[k] \in Piece /\ Pending(o[k])
                                                        /\ o[k] # Whole(c)
  <2>1. Len(o) \in Nat /\ \A k \in 1 .. Len(o) : o[k] \in Piece
    BY LenProperties, ElementOfSeq
  <2>2. \A k \in 1 .. Len(o) : Pending(o[k])
    BY <1>1 DEF Traffic, Carries
  <2>3. \A k \in 1 .. Len(o) : o[k] = Whole(c) => Asks(fd, k, c)
    BY <1>1 DEF Asks
  <2> QED
    BY <1>6, <2>1, <2>2, <2>3
<1>8. PICK s \in {0, 1} : \A k \in 1 .. Len(conn'[fd].owed) :
         \/ k + s \in 1 .. Len(o) /\ k + s # 1 /\ conn'[fd].owed[k] = o[k + s]
         \/ conn'[fd].owed[k] = Rest(c)
  <2>1. CASE conn'[fd].owed = Tail(o)
    <3>1. \A k \in 1 .. Len(Tail(o)) : k + 1 \in 1 .. Len(o) /\ Tail(o)[k] = o[k + 1]
      BY <1>1, TailFacts
    <3>2. \A k \in 1 .. Len(Tail(o)) : k + 1 # 1
      BY <1>1, TailFacts, LenProperties
    <3> QED
      BY <2>1, <3>1, <3>2
  <2>2. CASE conn'[fd].owed = <<Rest(c)>> \o Tail(o)
    <3>1. Rest(c) \in Piece
      BY PieceType
    <3>2. PICK w : w = conn'[fd].owed
      OBVIOUS
    <3>3. Len(w) = Len(o) /\ w[1] = Rest(c) /\ \A k \in 1 .. Len(o) : k # 1 => w[k] = o[k]
      BY <1>1, <2>2, <3>1, <3>2, RestFacts
    <3>4. \A k \in 1 .. Len(o) : k + 0 = k
      BY <1>7
    <3> QED
      BY <3>2, <3>3, <3>4
  <2> QED
    BY <1>1, <2>1, <2>2
<1>9. ASSUME NEW g \in Fd PROVE Carries(g)'
  <2>1. Carries(g)
    BY DEF Traffic
  <2>2. CASE g # fd
    <3>1. conn'[g] = conn[g]
      BY <1>1, <2>2 DEF OnlyConn
    <3>2. (conn[g] # None => \A k \in 1 .. Len(conn[g].in) : Answered(conn[g].in[k]))'
      BY <1>4, <2>1, <3>1 DEF Carries, Answered
    <3>3. ASSUME conn[g] # None, NEW k \in 1 .. Len(conn[g].owed)
          PROVE  conn[g].owed[k] \in Piece /\ Pending(conn[g].owed[k])
                 /\ conn[g].owed[k] # Whole(c)
      <4>1. conn[g].owed \in Seq(Piece) /\ Len(conn[g].owed) \in Nat
        BY <3>3, ConnType, LenProperties
      <4>2. conn[g].owed[k] = Whole(c) => Asks(g, k, c)
        BY <3>3 DEF Asks
      <4> QED
        BY <1>6, <2>1, <2>2, <3>3, <4>1, <4>2, ElementOfSeq DEF Carries
    <3>4. (conn[g] # None => \A k \in 1 .. Len(conn[g].owed) : Pending(conn[g].owed[k]))'
      BY <1>5, <3>1, <3>3 DEF Pending, Answered
    <3> QED
      BY <3>2, <3>4 DEF Carries
  <2>3. CASE g = fd
    <3>1. Len(Append(i, p)) = Len(i) + 1 /\ Len(i) \in Nat
          /\ \A k \in 1 .. Len(i) : Append(i, p)[k] = i[k]
          /\ Append(i, p)[Len(i) + 1] = p
      BY AppendProperties, LenProperties
    <3>2. \A k \in 1 .. Len(i) : Answered(i[k])
      BY <1>1, <2>1, <2>3 DEF Carries
    <3>3. \A k \in 1 .. Len(Append(i, p)) : k \in 1 .. Len(i) \/ k = Len(i) + 1
      BY <3>1
    <3>4. \A k \in 1 .. Len(Append(i, p)) :
             /\ Append(i, p)[k].call \in 1 .. Len(calls)
             /\ Answered(Append(i, p)[k]) \/ Append(i, p)[k].call = c
      BY <1>1, <3>1, <3>2, <3>3 DEF Answered
    <3>5. (\A k \in 1 .. Len(conn[fd].in) : Answered(conn[fd].in[k]))'
      <4>1. conn'[fd].in = Append(i, p)
        BY <1>1
      <4>2. \A k \in 1 .. Len(conn'[fd].in) : /\ conn'[fd].in[k].call \in 1 .. Len(calls')
                                              /\ calls'[conn'[fd].in[k].call].answer # None
        BY <1>4, <3>4, <4>1
      <4> QED
        BY <4>2 DEF Answered
    <3>6. Rest(c).part # "whole" /\ Rest(c).call = c /\ c \in 1 .. Len(calls')
      BY <1>1 DEF Rest, Only
    <3>7. (\A k \in 1 .. Len(conn[fd].owed) : Pending(conn[fd].owed[k]))'
      <4>1. ASSUME NEW k \in 1 .. Len(conn'[fd].owed)
            PROVE  LET q == conn'[fd].owed[k]
                   IN  IF q.part = "whole"
                       THEN q.call \in 1 .. Len(calls') /\ calls'[q.call].answer = None
                       ELSE q.call \in 1 .. Len(calls') /\ calls'[q.call].answer # None
        <5>1. PICK q : q = conn'[fd].owed[k]
          OBVIOUS
        <5>2. CASE q = Rest(c)
          BY <1>3, <3>6, <5>1, <5>2
        <5>3. CASE q # Rest(c)
          <6>1. k + s \in 1 .. Len(o) /\ k + s # 1 /\ q = o[k + s]
            BY <1>8, <5>1, <5>3
          <6>2. q \in Piece /\ Pending(q) /\ q # Whole(c)
            BY <1>7, <6>1
          <6> QED
            BY <1>5, <5>1, <6>2
        <5> QED
          BY <5>2, <5>3
      <4> QED
        BY <4>1 DEF Pending, Answered
    <3> QED
      BY <2>3, <3>5, <3>7 DEF Carries
  <2> QED
    BY <2>2, <2>3
<1>10. \A k \in Nat, d \in CallNo :
          Asks(fd, k, d)' => k + s # 1 /\ Asks(fd, k + s, d)
  <2> SUFFICES ASSUME NEW k \in Nat, NEW d \in CallNo, Asks(fd, k, d)'
               PROVE  k + s # 1 /\ Asks(fd, k + s, d)
    OBVIOUS
  <2>1. k \in 1 .. Len(conn'[fd].owed) /\ conn'[fd].owed[k] = Whole(d)
    BY DEF Asks, Whole
  <2>2. Whole(d) # Rest(c)
    BY DEF Whole, Rest
  <2> QED
    BY <1>1, <1>8, <2>1, <2>2 DEF Asks
<1>11. \A g \in Fd, k \in Nat, d \in CallNo : g # fd /\ Asks(g, k, d)' => Asks(g, k, d)
  BY <1>1 DEF OnlyConn, Asks, Whole
<1>12. AskedOnce'
  <2> SUFFICES ASSUME NEW d \in CallNo, NEW g \in Fd, NEW h \in Fd, NEW k \in Nat,
                      NEW l \in Nat, Asks(g, k, d)', Asks(h, l, d)'
               PROVE  g = h /\ k = l
    BY DEF AskedOnce
  <2>1. PICK a \in Nat : Asks(g, a, d) /\ a = IF g = fd THEN k + s ELSE k
    BY <1>10, <1>11
  <2>2. PICK b \in Nat : Asks(h, b, d) /\ b = IF h = fd THEN l + s ELSE l
    BY <1>10, <1>11
  <2>3. g = h /\ a = b
    BY <2>1, <2>2 DEF Traffic, AskedOnce
  <2> QED
    BY <2>1, <2>2, <2>3
<1>13. ASSUME NEW u \in Thread PROVE Knows(u)'
  <2>1. Knows(u) /\ Control(u)
    BY DEF Traffic, Sockets
  <2>2. (\A k \in 1 .. Len(got[u]) : Answered(got[u][k]))'
    BY <1>2, <1>4, <2>1 DEF Knows, Answered
  <2>3. CASE pc[u] = "idle"
    BY <1>2, <2>2, <2>3 DEF Knows, Before
  <2>4. CASE pc[u] # "idle"
    <3>1. PICK d \in CallNo : d = cur[u] /\ d \in 1 .. Len(calls)
      BY <2>1, <2>4, CallType DEF Control
    <3>2. My(u)'.sid = My(u).sid
      BY <1>1, <1>2, <3>1 DEF My, Only
    <3>3. ASSUME pc[u] \in Before
          PROVE  My(u)'.answer = None /\ \A g \in Fd, k \in Nat : ~Asks(g, k, cur[u])'
      <4>1. \A g \in Fd, k \in Nat : ~Asks(g, k, d)
        BY <2>1, <3>1, <3>3 DEF Knows
      <4>2. Asks(fd, 1, c)
        BY <1>1 DEF Asks
      <4>3. d # c
        BY <4>1, <4>2
      <4>4. \A g \in Fd, k \in Nat : ~Asks(g, k, d)'
        BY <1>10, <1>11, <4>1
      <4>5. calls'[d] = calls[d]
        BY <1>1, <3>1, <4>3 DEF Only
      <4>6. \A g \in Fd, k \in Nat : ~Asks(g, k, cur[u])'
        BY <1>2, <3>1, <4>4 DEF Asks
      <4> QED
        BY <1>2, <2>1, <3>1, <3>3, <4>5, <4>6 DEF My, Knows
    <3> QED
      BY <1>2, <2>1, <2>2, <3>2, <3>3 DEF Knows
  <2> QED
    BY <2>3, <2>4
<1>14. (\A d \in 1 .. Len(calls) :
          calls[d].answer # None => calls[d].answer \in Answers(calls[d].kind))'
  <2> SUFFICES ASSUME NEW d \in 1 .. Len(calls'), calls'[d].answer # None
               PROVE  calls'[d].answer \in Answers(calls'[d].kind)
    BY DEF Answers
  <2>1. CASE d = c
    BY <1>1, <2>1 DEF Only
  <2>2. CASE d # c
    <3>1. d \in 1 .. Len(calls) /\ calls'[d] = calls[d]
      BY <1>1, <2>2 DEF Only
    <3> QED
      BY <3>1 DEF Traffic
  <2> QED
    BY <2>1, <2>2
<1> QED
  BY <1>9, <1>12, <1>13, <1>14 DEF Traffic

(***************************************************************************)
(* The inductive invariant.                                                *)
(***************************************************************************)
LEMMA InitInv == Init => IInv
<1> SUFFICES ASSUME Init PROVE IInv
  OBVIOUS
<1> USE DEF Init
<1>1. Len(calls) = 0
  BY EmptySeq
<1>2. TypeOK
  <2>1. calls \in Seq(Made) /\ <<>> \in Seq(Piece)
    OBVIOUS
  <2>2. got \in [Thread -> Seq(Piece)] /\ cur \in [Thread -> 0 .. MaxCalls]
    BY <2>1
  <2> QED
    BY <1>1, <2>1, <2>2 DEF TypeOK
<1>3. Sockets
  <2>1. \A i \in Slot : ~Used(i)
    BY DEF Used
  <2>2. PoolBounded
    <3> SUFFICES ASSUME NEW s \in Server PROVE Cardinality(Pooled(s.ip)) <= PerMeta
      BY DEF PoolBounded, Pooled
    <3>1. Pooled(s.ip) = {}
      BY <2>1 DEF Pooled
    <3> QED
      BY <3>1, FS_EmptySet
  <2> QED
    BY <2>1, <2>2 DEF Sockets, Control, Holding, Held, Stored, NoSocketLost
<1>4. Traffic
  <2>1. \A t \in Thread : Len(got[t]) = 0
    BY EmptySeq
  <2> QED
    BY <1>1, <2>1 DEF Traffic, Carries, AskedOnce, Asks, Knows, Before
<1> QED
  BY <1>2, <1>3, <1>4 DEF IInv

LEMMA NextInv == IInv /\ [Next]_vars => IInv'
<1> SUFFICES ASSUME IInv, [Next]_vars PROVE IInv'
  OBVIOUS
<1>1. TypeOK /\ Sockets /\ Traffic
  BY DEF IInv
<1>2. ASSUME NEW t \in Thread, Call(t) PROVE IInv'
  BY <1>1, <1>2, CallTypes, CallSockets, CallTraffic DEF IInv
<1>3. ASSUME NEW t \in Thread, Act(t) PROVE IInv'
  BY <1>1, <1>3, ActTypes, ActSockets, ActTraffic DEF IInv
<1>4. ASSUME NEW fd \in Fd, Serve(fd) PROVE IInv'
  BY <1>1, <1>4, ServerTypes, ServerSockets, ServeTraffic DEF IInv
<1>5. ASSUME NEW fd \in Fd, ServeRest(fd) \/ NoAnswer(fd) \/ Hangup(fd) PROVE IInv'
  BY <1>1, <1>5, ServerTypes, ServerSockets, ServerLessTraffic DEF IInv
<1>6. CASE UNCHANGED vars
  <2>1. TypeOK'
    BY <1>1, <1>6 DEF TypeOK, vars
  <2>2. Sockets'
    BY <1>1, <1>6 DEF Sockets, Control, Held, Stored, NoSocketLost, PoolBounded, Used,
                      Entries, Holders, Ip, My, vars
  <2>3. Traffic'
    BY <1>1, <1>6 DEF Traffic, Carries, Answered, Pending, AskedOnce, Asks, Knows, My,
                      Answers, vars
  <2> QED
    BY <2>1, <2>2, <2>3 DEF IInv
<1> QED
  BY <1>2, <1>3, <1>4, <1>5, <1>6 DEF Next, Finished

\* IInv is inductive, so it holds in every state.
THEOREM Invariance == Spec => []IInv
BY InitInv, NextInv, PTL DEF Spec

\* The variables have the values the C types and the protocol allow.  It takes
\* Traffic to see it: an answer read off a connection belongs to a call.
THEOREM TypeCorrect == Spec => []TypeOK
BY Invariance, PTL DEF IInv

LEMMA AtMostOne ==
  ASSUME NEW S, \A x, y \in S : x = y
  PROVE  Cardinality(S) <= 1
<1>1. CASE S = {}
  BY <1>1, FS_EmptySet
<1>2. CASE S # {}
  <2>1. PICK x : S = {x}
    BY <1>2
  <2>2. Cardinality({x}) = 1
    BY FS_Singleton
  <2> QED
    BY <2>1, <2>2
<1> QED
  BY <1>1, <1>2

\* A socket is used by one call at a time and stands in the pool once, busy
\* while it is used; nobody keeps a closed one, and each leads to its host.
THEOREM OneUser == Spec => []SocketExclusive
<1>1. ASSUME IInv PROVE SocketExclusive
  <2>1. TypeOK /\ Sockets
    BY <1>1 DEF IInv
  <2>2. ASSUME NEW fd \in Fd PROVE Cardinality(Holders(fd)) <= 1
    <3>1. \A t, u \in Holders(fd) : t = u
      BY <2>1 DEF Sockets, Held, Holders
    <3> QED
      BY <3>1, AtMostOne
  <2>3. ASSUME NEW fd \in Fd PROVE Cardinality(Entries(fd)) <= 1
    <3>1. \A i, j \in Entries(fd) : i = j
      BY <2>1 DEF Sockets, Stored, Entries
    <3> QED
      BY <3>1, AtMostOne
  <2>4. \A fd \in Fd : Holders(fd) # {} => \A i \in Entries(fd) : arr[i].busy
    BY <2>1 DEF Sockets, Held, Holders, Entries
  <2>5. NoDangling
    BY <2>1 DEF Sockets, Held, Stored, Holders, Entries, NoDangling
  <2>6. RightHost
    BY <2>1 DEF Sockets, Held, Stored, RightHost
  <2> QED
    BY <2>2, <2>3, <2>4, <2>5, <2>6 DEF SocketExclusive
<1> QED
  BY <1>1, Invariance, PTL

\* Every open socket is used by a call or idle in the pool, however calls end.
THEOREM NoneLost == Spec => []NoSocketLost
BY Invariance, PTL DEF IInv, Sockets

\* The pool never holds more than MAX_PRE_META sockets to one address, though
\* several calls release theirs at the same time.
THEOREM PoolStaysBounded == Spec => []PoolBounded
BY Invariance, PTL DEF IInv, Sockets

(***************************************************************************)
(* Whose answer a call takes.                                              *)
(***************************************************************************)
\* how a step of a call writes down its result
LEMMA ActResults ==
  ASSUME TypeOK, Sockets, Traffic, NEW t \in Thread, Act(t)
  PROVE  \/ LoadSid(t)
         \/ calls' = calls
         \/ \E r \in {RPC_TIMEOUT, RPC_SOCKET_ERROR, RPC_PACKET_ERROR} : Result(t, r)
         \/ \E c \in 1 .. Len(calls) : /\ pc[t] = "recv" /\ Mine(t, c)
                                       /\ calls[c].answer # None
                                       /\ Result(t, Means(t, calls[c].answer))
<1>1. CASE Recv(t)
  <2>1. pc[t] = "recv" /\ Answered(Read(t)[1])
    BY <1>1, RecvDoes
  <2>2. \/ calls' = calls
        \/ Result(t, RPC_PACKET_ERROR)
        \/ /\ Mine(t, Read(t)[1].call)
           /\ Result(t, Means(t, calls[Read(t)[1].call].answer))
    BY <1>1, RecvSteps
  <2> QED
    BY <2>1, <2>2 DEF Answered
<1>2. CASE ~Recv(t)
  BY <1>2 DEF Act, GetSocket, CheckSocket, Discard, Connect, ConnectFails, LoadSid, StoreSid,
              SendPacket, Timeout, ReleaseSocket
<1> QED
  BY <1>1, <1>2

LEMMA InitMine == Init => AnswerIsMine
<1> SUFFICES ASSUME Init PROVE AnswerIsMine
  OBVIOUS
<1>1. DOMAIN calls = {}
  BY DEF Init
<1> QED
  BY <1>1 DEF AnswerIsMine

LEMMA NextMine == IInv /\ UniqueSids /\ AnswerIsMine /\ [Next]_vars => AnswerIsMine'
<1> SUFFICES ASSUME IInv, UniqueSids, AnswerIsMine, [Next]_vars PROVE AnswerIsMine'
  OBVIOUS
<1> DEFINE Claims == {RPC_SUCC, RPC_DB_FAILED, RPC_FILESPACE_LIMITED, RPC_NOT_OWNER}
           Right(m) == m.result \in Claims =>
                          /\ m.answer # None
                          /\ (m.answer = NET_SUCC) = (m.result = RPC_SUCC)
                          /\ (m.answer = Shut) = (m.result = RPC_NOT_OWNER)
<1>1. TypeOK /\ Sockets /\ Traffic
  BY DEF IInv
<1>2. calls \in Seq(Made) /\ DOMAIN calls = 1 .. Len(calls) /\ Len(calls) \in Nat
  BY <1>1, LenProperties DEF TypeOK
<1>3. \A d \in 1 .. Len(calls) : Right(calls[d])
  BY <1>2 DEF AnswerIsMine
<1>4. ASSUME calls' \in Seq(Made), \A d \in 1 .. Len(calls') : Right(calls'[d])
      PROVE  AnswerIsMine'
  <2>1. DOMAIN calls' = 1 .. Len(calls')
    BY <1>4, LenProperties
  <2> QED
    BY <1>4, <2>1 DEF AnswerIsMine
<1>5. ASSUME NEW c \in 1 .. Len(calls), Only(c), Right(calls'[c])
      PROVE  AnswerIsMine'
  BY <1>3, <1>4, <1>5 DEF Only
<1>6. CASE calls' = calls
  BY <1>6 DEF AnswerIsMine
<1>7. ASSUME NEW t \in Thread, Call(t) PROVE AnswerIsMine'
  <2>1. PICK m \in Made : calls' = Append(calls, m) /\ m.result = None
    BY <1>1, <1>7, CallMakes
  <2>2. /\ calls' \in Seq(Made) /\ Len(calls') = Len(calls) + 1
        /\ \A d \in 1 .. Len(calls) : calls'[d] = calls[d]
        /\ calls'[Len(calls) + 1] = m
    BY <1>1, <1>7, <2>1, NewCall DEF Call
  <2>3. \A d \in 1 .. Len(calls') : d \in 1 .. Len(calls) \/ d = Len(calls) + 1
    BY <1>2, <2>2
  <2>4. Right(m)
    BY <2>1 DEF RPC_SUCC, RPC_DB_FAILED, RPC_FILESPACE_LIMITED, RPC_NOT_OWNER
  <2> QED
    BY <1>3, <1>4, <2>2, <2>3, <2>4
<1>8. ASSUME NEW t \in Thread, Act(t) PROVE AnswerIsMine'
  <2>1. cur[t] \in 1 .. Len(calls)
    <3>1. pc[t] # "idle"
      BY <1>8, Zenon DEF Act, GetSocket, CheckSocket, Discard, Connect,
         ConnectFails, LoadSid, StoreSid, SendPacket, Recv, Timeout, ReleaseSocket
    <3> QED
      BY <1>1, <3>1 DEF Sockets, Control
  <2>2. CASE LoadSid(t)
    <3>1. Only(cur[t]) /\ calls'[cur[t]].answer = calls[cur[t]].answer
          /\ calls'[cur[t]].result = calls[cur[t]].result
      BY <1>1, <2>1, <2>2, LoadSidCall
    <3> QED
      BY <1>3, <1>5, <2>1, <3>1
  <2>3. ASSUME NEW r \in {RPC_TIMEOUT, RPC_SOCKET_ERROR, RPC_PACKET_ERROR}, Result(t, r)
        PROVE  AnswerIsMine'
    <3>1. Only(cur[t]) /\ calls'[cur[t]].result = r
      BY <1>1, <2>1, <2>3, SetResult DEF Outcome
    <3>2. r \notin Claims
      BY DEF RPC_TIMEOUT, RPC_SOCKET_ERROR, RPC_PACKET_ERROR,
             RPC_SUCC, RPC_DB_FAILED, RPC_FILESPACE_LIMITED, RPC_NOT_OWNER
    <3> QED
      BY <1>5, <2>1, <3>1, <3>2
  <2>4. ASSUME NEW c \in 1 .. Len(calls), pc[t] = "recv", Mine(t, c),
               calls[c].answer # None, Result(t, Means(t, calls[c].answer))
        PROVE  AnswerIsMine'
    <3>1. c = cur[t]
      <4>1. calls[cur[t]].sid # None
        BY <1>1, <2>4 DEF Traffic, Knows, My
      <4> QED
        BY <2>1, <2>4, <4>1 DEF Mine, My, UniqueSids
    <3>2. PICK a \in Answers(calls[c].kind) : a = calls[c].answer
      BY <1>1, <2>4 DEF Traffic
    <3>3. /\ Only(c) /\ calls'[c].result = Means(t, a) /\ calls'[c].answer = a
      BY <1>1, <2>1, <2>4, <3>1, <3>2, SetResult, MeansType
    <3>4. My(t).kind = calls[c].kind /\ a # None
      BY <2>4, <3>1, <3>2 DEF My
    <3>5. /\ (a = NET_SUCC) = (Means(t, a) = RPC_SUCC)
          /\ (a = Shut) = (Means(t, a) = RPC_NOT_OWNER)
      BY <3>4 DEF Means, Answers, RPC_SUCC, RPC_DB_FAILED, RPC_FILESPACE_LIMITED,
         RPC_NOT_OWNER, NET_SUCC, INSERT_FAILED, KEY_NOT_EXIST, KV_VAULE_ERROR, Shut
    <3> QED
      BY <1>5, <3>3, <3>4, <3>5
  <2> QED
    <3>1. \/ LoadSid(t)
          \/ calls' = calls
          \/ \E r \in {RPC_TIMEOUT, RPC_SOCKET_ERROR, RPC_PACKET_ERROR} : Result(t, r)
          \/ \E c \in 1 .. Len(calls) : /\ pc[t] = "recv" /\ Mine(t, c)
                                        /\ calls[c].answer # None
                                        /\ Result(t, Means(t, calls[c].answer))
      BY <1>1, <1>8, ActResults
    <3> QED
      BY <1>6, <2>2, <2>3, <2>4, <3>1, Zenon
<1>9. ASSUME NEW fd \in Fd, Serve(fd) PROVE AnswerIsMine'
  <2>1. PICK c \in 1 .. Len(calls) : /\ calls[c].answer = None /\ Only(c)
                                    /\ calls'[c].result = calls[c].result
    <3> DEFINE d == Head(conn[fd].owed).call
    <3>1. d \in 1 .. Len(calls) /\ calls[d].answer = None
      BY <1>1, <1>9, ServeSteps, HeadOwed
    <3>2. PICK a \in Code : calls' = [calls EXCEPT ![d].answer = a]
      BY <1>9, ServeSteps DEF Answers
    <3> HIDE DEF d
    <3> QED
      BY <1>1, <3>1, <3>2, SetAnswer
  <2> QED
    BY <1>3, <1>5, <2>1
<1> QED
  BY <1>6, <1>7, <1>8, <1>9 DEF Next, Finished, ServeRest, NoAnswer, Hangup, vars

\* As long as no two calls drew the same number from sid_seed, a result that
\* claims to be the server's is its answer to this very call.
THEOREM MineIfUnique == Spec /\ []UniqueSids => []AnswerIsMine
BY Invariance, InitMine, NextMine, PTL DEF Spec

LEMMA InitNumbered == Init => UniqueSids /\ Numbered
<1> SUFFICES ASSUME Init PROVE UniqueSids /\ Numbered
  OBVIOUS
<1>1. Len(calls) = 0
  BY EmptySeq DEF Init
<1> QED
  BY <1>1 DEF Init, UniqueSids, Numbered

\* a step that draws no number
LEMMA NumbersKept ==
  ASSUME UniqueSids, Numbered, UNCHANGED seed, Len(calls') = Len(calls),
         \A d \in 1 .. Len(calls) : calls'[d].sid = calls[d].sid,
         \A t \in Thread : /\ pc'[t] = "store" <=> pc[t] = "store"
                           /\ pc[t] = "store" => /\ cur'[t] = cur[t]
                                                 /\ cur[t] \in 1 .. Len(calls)
  PROVE  UniqueSids' /\ Numbered'
<1>1. UniqueSids'
  BY DEF UniqueSids
<1>2. ASSUME NEW c \in 1 .. Len(calls'), calls'[c].sid # None
      PROVE  \/ calls'[c].sid < seed'
             \/ calls'[c].sid = seed' /\ \E t \in Thread : pc'[t] = "store" /\ cur'[t] = c
  BY <1>2 DEF Numbered
<1>3. \A t \in Thread : pc'[t] = "store" => My(t)'.sid = seed'
  BY DEF Numbered, My
<1> QED
  BY <1>1, <1>2, <1>3 DEF Numbered

LEMMA NextNumbered ==
  ASSUME Alone
  PROVE  IInv /\ UniqueSids /\ Numbered /\ [Next]_vars => UniqueSids' /\ Numbered'
<1> SUFFICES ASSUME IInv, UniqueSids, Numbered, [Next]_vars PROVE UniqueSids' /\ Numbered'
  OBVIOUS
<1>1. TypeOK /\ Sockets /\ Traffic
  BY DEF IInv
<1>2. \A u \in Thread : pc[u] # "idle" => cur[u] \in 1 .. Len(calls)
  BY <1>1 DEF Sockets, Control
<1>3. \A c \in 1 .. Len(calls) : calls[c].sid \in Nat \cup {None}
  BY <1>1, CallType DEF Made
<1>4. ASSUME NEW t \in Thread, Call(t) PROVE UniqueSids' /\ Numbered'
  <2>1. PICK m \in Made : calls' = Append(calls, m) /\ m.sid = None
    BY <1>1, <1>4, CallMakes
  <2>2. PICK n \in Nat : n = Len(calls)
    BY <1>1, LenProperties DEF TypeOK
  <2>3. /\ Len(calls') = n + 1 /\ calls'[n + 1] = m
        /\ \A d \in 1 .. n : calls'[d] = calls[d]
    BY <1>1, <1>4, <2>1, <2>2, NewCall DEF Call
  <2>4. \A d \in 1 .. Len(calls') : d \in 1 .. n \/ d = n + 1
    BY <2>3
  <2>5. \A d \in 1 .. Len(calls') : calls'[d].sid # None =>
           d \in 1 .. Len(calls) /\ calls'[d].sid = calls[d].sid
    BY <2>1, <2>2, <2>3, <2>4
  <2>6. /\ seed' = seed /\ pc[t] = "idle" /\ pc'[t] = "get"
        /\ \A u \in Thread : u # t => pc'[u] = pc[u] /\ cur'[u] = cur[u]
    BY <1>1, <1>4 DEF Call, Goto, TypeOK
  <2>7. UniqueSids'
    BY <2>5 DEF UniqueSids
  <2>8. ASSUME NEW c \in 1 .. Len(calls'), calls'[c].sid # None
        PROVE  \/ calls'[c].sid < seed'
               \/ calls'[c].sid = seed' /\ \E u \in Thread : pc'[u] = "store" /\ cur'[u] = c
    BY <2>5, <2>6, <2>8 DEF Numbered
  <2>9. \A u \in Thread : pc'[u] = "store" => My(u)'.sid = seed'
    BY <1>2, <2>2, <2>3, <2>6 DEF Numbered, My
  <2> QED
    BY <2>7, <2>8, <2>9 DEF Numbered
<1>5. ASSUME NEW t \in Thread, LoadSid(t) PROVE UniqueSids' /\ Numbered'
  <2>1. cur[t] \in 1 .. Len(calls) /\ pc[t] = "sid" /\ seed \in Nat
    BY <1>1, <1>2, <1>5 DEF LoadSid, TypeOK
  <2>2. /\ Only(cur[t]) /\ calls'[cur[t]].sid = seed
    BY <1>1, <1>5, <2>1, LoadSidCall
  <2>3. UNCHANGED <<seed, cur>> /\ pc'[t] = "store"
    BY <1>1, <1>5 DEF LoadSid, Goto, TypeOK
  <2>4. \A u \in Thread : u = t
    BY DEF Alone
  <2>5. \A d \in 1 .. Len(calls) : calls[d].sid # None => calls[d].sid < seed
    BY <2>1, <2>4 DEF Numbered
  <2>6. \A d \in 1 .. Len(calls) : d # cur[t] => calls'[d].sid = calls[d].sid
    BY <2>2 DEF Only
  <2>7. Len(calls') = Len(calls)
    BY <2>2 DEF Only
  <2>8. UniqueSids'
    BY <1>3, <2>1, <2>2, <2>5, <2>6, <2>7 DEF UniqueSids
  <2>9. ASSUME NEW c \in 1 .. Len(calls'), calls'[c].sid # None
        PROVE  \/ calls'[c].sid < seed'
               \/ calls'[c].sid = seed' /\ \E u \in Thread : pc'[u] = "store" /\ cur'[u] = c
    BY <2>2, <2>3, <2>5, <2>6, <2>7, <2>9
  <2>10. \A u \in Thread : pc'[u] = "store" => My(u)'.sid = seed'
    BY <2>2, <2>3, <2>4 DEF My
  <2> QED
    BY <2>8, <2>9, <2>10 DEF Numbered
<1>6. ASSUME NEW t \in Thread, StoreSid(t) PROVE UniqueSids' /\ Numbered'
  <2>1. /\ pc[t] = "store" /\ My(t).sid = seed /\ seed \in Nat
    BY <1>1, <1>6 DEF StoreSid, Numbered, TypeOK
  <2>2. seed' = seed + 1 /\ pc'[t] = "send" /\ calls' = calls
    BY <1>1, <1>6, <2>1 DEF StoreSid, Goto, TypeOK
  <2>3. \A u \in Thread : u = t
    BY DEF Alone
  <2>4. UniqueSids'
    BY <2>2 DEF UniqueSids
  <2>5. \A c \in 1 .. Len(calls') : calls'[c].sid # None => calls'[c].sid < seed'
    BY <1>3, <2>1, <2>2 DEF Numbered
  <2> QED
    BY <2>2, <2>3, <2>4, <2>5 DEF Numbered
<1>7. ASSUME NEW t \in Thread, Act(t), ~LoadSid(t), ~StoreSid(t)
      PROVE  UniqueSids' /\ Numbered'
  <2>1. /\ UNCHANGED <<seed, cur>> /\ pc[t] \notin {"store", "idle"}
        /\ pc' = pc \/ \E l \in {"check", "connect", "discard", "sid", "idle", "recv",
                                 "release"} : Goto(t, l)
    BY <1>7, Zenon DEF Act, GetSocket, CheckSocket, Discard, Connect, ConnectFails,
       SendPacket, Recv, Timeout, ReleaseSocket
  <2>2. \A u \in Thread : pc'[u] = "store" <=> pc[u] = "store"
    BY <1>1, <2>1 DEF Goto, TypeOK
  <2>3. calls' = calls \/ \E r \in Outcome \cup Code : Result(t, r)
    BY <1>1, <1>7, ActResults, MeansType DEF Outcome
  <2>4. Len(calls') = Len(calls) /\ \A d \in 1 .. Len(calls) : calls'[d].sid = calls[d].sid
    BY <1>1, <1>2, <2>1, <2>3, SetResult DEF Only
  <2>5. \A u \in Thread :
           /\ pc'[u] = "store" <=> pc[u] = "store"
           /\ pc[u] = "store" => cur'[u] = cur[u] /\ cur[u] \in 1 .. Len(calls)
    BY <1>2, <2>1, <2>2
  <2> QED
    BY <2>1, <2>4, <2>5, NumbersKept
<1>8. ASSUME NEW fd \in Fd, Serve(fd) \/ ServeRest(fd) \/ NoAnswer(fd) \/ Hangup(fd)
      PROVE  UniqueSids' /\ Numbered'
  <2>1. UNCHANGED <<seed, pc, cur>>
    BY <1>8, ServerSteps
  <2>2. Len(calls') = Len(calls) /\ \A d \in 1 .. Len(calls) : calls'[d].sid = calls[d].sid
    <3>1. CASE Serve(fd)
      BY <1>1, <3>1, ServeParts DEF Only
    <3>2. CASE ~Serve(fd)
      BY <1>8, <3>2, ServerSteps
    <3> QED
      BY <3>1, <3>2
  <2> QED
    BY <1>2, <2>1, <2>2, NumbersKept
<1>9. CASE UNCHANGED vars
  BY <1>2, <1>9, NumbersKept DEF vars
<1> QED
  BY <1>4, <1>5, <1>6, <1>7, <1>8, <1>9 DEF Next, Finished

\* An application with one thread draws every number once, however its calls
\* end, so it never takes the late answer to a call that it has given up.
THEOREM MineIfAlone ==
  ASSUME Alone
  PROVE  Spec => []AnswerIsMine
<1>1. Spec => [](UniqueSids /\ Numbered)
  BY Invariance, InitNumbered, NextNumbered, PTL DEF Spec
<1> QED
  BY <1>1, MineIfUnique, PTL

===============================================================================
