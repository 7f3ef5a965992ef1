-------------------------------- MODULE Framing -------------------------------
(***************************************************************************)
(* One connection between the client library and a metaserver, byte by     *)
(* byte: send_packet and recv_packet of rpc/meta_rpc.c at one end, the     *)
(* connection handler of cell/cell_handler.c with its two streams at the   *)
(* other.  A packet is its length, a message id and the fields of the      *)
(* message.  TCP keeps the order of the bytes and cuts them anywhere.      *)
(*                                                                         *)
(* A client that has waited long enough gives up and uses the socket again *)
(* for its next call, so that more than one request may be under way.      *)
(* What the request handlers do is in MetaService and UploadQuota; here    *)
(* they answer.                                                            *)
(***************************************************************************)
EXTENDS Codec, FiniteSets, FiniteSetsExt

CONSTANTS
    Scripts,       \* what a client may call: sequences of [kind, msg]
    Cuts,          \* bound: how many bytes of a packet may be cut off
    MaxPack,       \* MAX_PACK_SIZE
    MaxTimeout,    \* bound: how often the client gives up
    MaxHangup,     \* bound: how often the client hangs up
    MaxRequestCut, \* bound: how often the server sees 1 to 3 bytes of a request
                   \* behind a whole one
    MaxAnswerCut,  \* bound: how often the client sees 1 to 3 bytes of an answer
    MaxMove,       \* bound: how often realloc moves a stream
    StaleLengths   \* what 1 to 3 bytes and old ones behind them may read as

ASSUME FramingAssumption ==
    /\ Cuts \subseteq Nat
    /\ MaxPack \in Nat /\ MaxTimeout \in Nat /\ MaxHangup \in Nat
    /\ MaxRequestCut \in Nat /\ MaxAnswerCut \in Nat /\ MaxMove \in Nat
    /\ StaleLengths \subseteq Nat

VARIABLES
    script,    \* what the client will call
    asked,     \* how many requests it has sent on this connection
    waiting,   \* it waits in recv_packet
    crcv,      \* the stream recv_packet reads into
    results,   \* what its calls have returned
    toServer,  \* bytes sent and not read by the server
    toClient,  \* bytes written and not received by the client
    link,      \* "up", "hung" (by the client), "dropped" (by the server) or
               \* "closed" (by both)
    rstrm, sstrm,  \* the streams of the handler
    ev_flags,  \* the events the handler wants
    mask,      \* the events it is handling
    pc,        \* where it is: "idle", "read", "split", "write" or "stuck"
    handled,   \* history: the requests it has executed on this connection
    put,       \* history: how many bytes it has written
    count      \* how much of the bounds is used up: what has happened so far

client == <<script, asked, waiting, crcv, results>>
server == <<rstrm, sstrm, ev_flags, mask, pc, handled, put>>
vars == <<client, toServer, toClient, link, server, count>>

Bounds == [timeout |-> MaxTimeout, hangup |-> MaxHangup, request |-> MaxRequestCut,
           answer |-> MaxAnswerCut, move |-> MaxMove]
Use(b) == count[b] < Bounds[b] /\ count' = [count EXCEPT ![b] = @ + 1]

Kinds == DOMAIN ServerDecodes
R == "readable"
W == "writable"

Init ==
    /\ script \in Scripts
    /\ asked = 0 /\ waiting = FALSE /\ crcv = Fresh /\ results = <<>>
    /\ toServer = <<>> /\ toClient = <<>> /\ link = "up"
    /\ rstrm = Fresh /\ sstrm = Fresh
    /\ ev_flags = {R} /\ mask = {} /\ pc = "idle"
    /\ handled = <<>> /\ put = 0
    /\ count = [b \in DOMAIN Bounds |-> 0]

-----------------------------------------------------------------------------
(* Packets *)

Packet(id, fields, msg) ==
    LET body == Put2(id) \o Encode(fields, msg) IN Put4(Len(body)) \o body

Requests == UNION {{s[i] : i \in DOMAIN s} : s \in Scripts}
RequestBytes == [r \in Requests |-> Packet(MsgId[r.kind], ClientEncodes[r.kind], r.msg)]

\* What the handlers say: the sid of the request and, for a file, what is known.
AnswerTo(r) ==
    CASE r.kind = "GET_META" ->
             [sid |-> r.msg.sid, result |-> 0, path |-> r.msg.path, url |-> r.msg.path,
              uploader |-> <<0>>, pwd |-> <<0>>, crpyt_key |-> <<>>, opened |-> 1]
      [] r.kind = "STATE_INFO" -> [sid |-> r.msg.sid, info |-> <<0>>]
      [] r.kind = "TEST_MSG" -> r.msg
      [] OTHER -> [sid |-> r.msg.sid, result |-> 0, err |-> <<0>>]

AnswerBytes(r) == Packet(AnswerId(r.kind), ServerEncodes(r.kind), AnswerTo(r))

\* The length at the head of a stream, whatever lies behind the bytes there.
Lengths(s) == IF Used(s) < s.rsize + 4 THEN StaleLengths
              ELSE {Get4(At(s, s.rsize, 4))}

\* A packet is complete.  The subtraction is unsigned: 1 to 3 bytes are enough
\* for any length.
Whole(s, len) ==
    LET there == Used(s) - s.rsize IN there < 4 \/ len + 4 <= there

-----------------------------------------------------------------------------
(* The client *)

Calls == link = "up" /\ asked < Len(script)

\* send_packet, after get_socket has found this connection.
Send ==
    /\ Calls /\ ~waiting
    /\ asked' = asked + 1
    /\ waiting' = TRUE
    /\ crcv' = Resize(Fresh, 4 * Default)
    /\ toServer' = toServer \o RequestBytes[script[asked']]
    /\ UNCHANGED <<script, results, toClient, link, server, count>>

Return(result) ==
    /\ waiting' = FALSE
    /\ crcv' = Fresh
    /\ results' = Append(results, result)

NoMsg == <<>>
Result(how, msg) == [how |-> how, msg |-> msg]

\* A slip: the sid of the answer is not compared.
JudgeAny(r, s) ==
    LET len == ReadU32(s)
        id == ReadU16(len.s)
        body == Decode(ClientDecodes(r.kind), id.s)
    IN  IF body.ok THEN Result("succ", body.msg) ELSE Result("packet", NoMsg)

\* rpc_get_meta and process_ack: the answer must decode and carry the sid of the
\* request; the id is looked at in rpc_get_meta only (in process_ack it is
\* compared with itself).
Judge(r, s) ==
    LET len == ReadU32(s)
        id == ReadU16(len.s)
        body == Decode(ClientDecodes(r.kind), id.s)
    IN  IF /\ r.kind = "GET_META" => id.val = MsgId["GET_META_ACK"]
           /\ body.ok
           /\ body.msg.sid = r.msg.sid
        THEN Result("succ", body.msg)
        ELSE Result("packet", NoMsg)

Room(s) == s.size - Used(s)
Least(m, n) == IF m < n THEN m ELSE n

\* recv_packet: read what there is; return when one packet is complete, with
\* all that was read behind it dropped, otherwise make room and wait again.
Recv ==
    /\ waiting /\ toClient # <<>>
    /\ LET n == Least(Len(toClient), Room(crcv))
           got == [crcv EXCEPT !.data = @ \o SubSeq(toClient, 1, n)]
       IN  /\ IF Used(got) < 4 THEN Use("answer") ELSE UNCHANGED count
           /\ toClient' = SubSeq(toClient, n + 1, Len(toClient))
           /\ \E len \in Lengths(got) :
                 IF Whole(got, len)
                 THEN Return(Judge(script[asked], got))
                 ELSE /\ crcv' = IF got.size <= Used(got)
                                 THEN Resize(got, 2 * got.size) ELSE got
                      /\ UNCHANGED <<waiting, results>>
    /\ UNCHANGED <<script, asked, toServer, link, server>>

\* The select of recv_packet runs out of time, or the server has closed the
\* connection: the caller is told the same.
GiveUp ==
    /\ waiting
    /\ Return(Result("timeout", NoMsg))
    /\ IF link = "dropped" /\ toClient = <<>>
       THEN link' = "closed" /\ UNCHANGED count
       ELSE Use("timeout") /\ UNCHANGED link
    /\ UNCHANGED <<script, asked, toServer, toClient, server>>

\* The client closes the connection, or ends.
HangUp ==
    /\ link = "up" /\ Use("hangup")
    /\ link' = "hung"
    /\ toClient' = <<>>
    /\ waiting' = FALSE /\ crcv' = Fresh
    /\ UNCHANGED <<script, asked, results, toServer, server>>

\* A client connects; the pool gives the handler that was freed last.
Connect ==
    /\ link = "closed"
    /\ link' = "up"
    /\ asked' = 0 /\ waiting' = FALSE /\ crcv' = Fresh /\ results' = <<>>
    /\ toServer' = <<>> /\ toClient' = <<>>
    /\ handled' = <<>> /\ put' = 0
    /\ ev_flags' = {R}
    /\ UNCHANGED <<script, rstrm, sstrm, mask, pc, count>>

-----------------------------------------------------------------------------
(* Where the bytes are cut *)

Sum(seq) == LET upTo[i \in 0..Len(seq)] == IF i = 0 THEN 0 ELSE upTo[i - 1] + seq[i]
            IN  upTo[Len(seq)]

\* How long the first n packets of a script are.
Ends(Bytes(_)) ==
    [s \in Scripts |-> [n \in 0..Len(s) |-> Sum([i \in 1..n |-> Len(Bytes(s[i]))])]]
RequestEnds == Ends(LAMBDA r : RequestBytes[r])
AnswerEnds == Ends(AnswerBytes)

\* How many of the first pos bytes belong to a packet that is not over.
Partial(pos, ends) == pos - Max({ends[n] : n \in DOMAIN ends} \cap 0..pos)

Received(sent) == RequestEnds[script][asked] - Len(sent)

\* The bytes read end with the first 1 to 3 of a packet, behind a whole one.
CutsHead(s, sent) ==
    LET d == Partial(Received(sent), RequestEnds[script])
    IN  d \in 1..3 /\ d < Used(s) - s.rsize

-----------------------------------------------------------------------------
(* The connection handler *)

\* What epoll reports: bytes or an end to read, room to write.
Ready == (IF toServer # <<>> \/ link = "hung" THEN {R} ELSE {}) \cup {W}

\* handle_machine: reading first, writing after it.
Event ==
    /\ pc = "idle" /\ link \in {"up", "hung"}
    /\ ev_flags \cap Ready # {}
    /\ mask' = ev_flags \cap Ready
    /\ pc' = IF R \in mask' THEN "read" ELSE "write"
    /\ ev_flags' = {}
    /\ UNCHANGED <<client, toServer, toClient, link, rstrm, sstrm, handled, put, count>>

\* handler_close and the reset of what goes back to the pool.
Close ==
    /\ link' = IF link = "up" THEN "dropped" ELSE "closed"
    /\ pc' = "idle" /\ mask' = {} /\ ev_flags' = {}
    /\ rstrm' = Reduce(Rewind(rstrm)) /\ sstrm' = Reduce(Rewind(sstrm))
    /\ toServer' = <<>>
    /\ UNCHANGED <<handled, put>>

\* check_write: what is left to send arms the descriptor for writing.
CheckWrite(s) ==
    /\ ev_flags' = ev_flags \cup {R} \cup (IF Used(s) > s.rsize THEN {W} ELSE {})
    /\ sstrm' = Move(s)

\* The stream is tidied, and grown where it is full, before every read.
Prepared ==
    LET s == Move(rstrm) IN IF Used(s) >= s.size THEN Resize(s, 2 * s.size) ELSE s

\* split_message waits for more than the length of a packet.
Splits(s) == s.rsize + 4 < Used(s)

Read ==
    /\ pc = "read" /\ toServer # <<>>
    /\ \E n \in 1..Least(Len(toServer), Room(Prepared)) :
          /\ rstrm' = [Prepared EXCEPT !.data = @ \o SubSeq(toServer, 1, n)]
          /\ toServer' = SubSeq(toServer, n + 1, Len(toServer))
          /\ \/ n = Least(Len(toServer), Room(Prepared))
             \/ Partial(Received(toServer'), RequestEnds[script]) \in Cuts
          /\ IF CutsHead(rstrm', toServer') THEN Use("request") ELSE UNCHANGED count
          /\ pc' = IF Splits(rstrm') THEN "split" ELSE "read"
    /\ UNCHANGED <<client, toClient, link, sstrm, ev_flags, mask, handled, put>>

\* Nothing more to read: the events are set, and the writing is next.
Drained ==
    /\ pc = "read" /\ toServer = <<>> /\ link = "up"
    /\ rstrm' = Prepared
    /\ CheckWrite(sstrm)
    /\ pc' = IF W \in mask THEN "write" ELSE "idle"
    /\ mask' = mask \ {R}
    /\ UNCHANGED <<client, toServer, toClient, link, handled, put, count>>

\* The client has hung up, and everything it sent is read.
ReadEnd ==
    /\ pc = "read" /\ toServer = <<>> /\ link = "hung"
    /\ Close
    /\ UNCHANGED <<client, toClient, count>>

\* A slip: the length is set before the body is there.
SendUnset(s, r) ==
    Write(s, Put4(2) \o SubSeq(AnswerBytes(r), 5, Len(AnswerBytes(r))))

\* hander_send: the body is written and the length set last, at the place the
\* stream had before it grew.
AnswerSent(s, r) == Write(s, AnswerBytes(r))

\* Realloc has moved the stream while it grew: the length in it stays 0.
AnswerMoved(s, r) ==
    Write(s, Put4(0) \o SubSeq(AnswerBytes(r), 5, Len(AnswerBytes(r))))

Answer(r) ==
    \/ sstrm' = AnswerSent(sstrm, r) /\ UNCHANGED count
    \/ sstrm' = AnswerMoved(sstrm, r) /\ sstrm'.size # sstrm.size /\ Use("move")

\* process: a message is read, executed and answered.  A message that cannot be
\* read, or has no such id, is left where its reading stopped, without answer; a
\* test message is answered whatever its reading says, for test_msg_decode says
\* nothing; a value too long for it is echoed as an empty one.
Process(id, s) ==
    LET kinds == {k \in Kinds : MsgId[k] = id} IN
    IF kinds = {}
    THEN rstrm' = s /\ UNCHANGED <<handled, sstrm, ev_flags, count>>
    ELSE \E kind \in kinds : \E body \in {Decode(ServerDecodes[kind], s)} :
          /\ rstrm' = body.s
          /\ IF body.ok \/ kind = "TEST_MSG"
             THEN /\ handled' = Append(handled, [kind |-> kind, msg |-> body.msg])
                  /\ Answer([kind |-> kind, msg |-> body.msg])
                  /\ ev_flags' = ev_flags \cup {W}
             ELSE UNCHANGED <<handled, sstrm, ev_flags, count>>

\* One turn of split_message.  When 1 byte is left nothing is read of it, a test
\* message is taken for granted and the loop never ends.
Split ==
    /\ pc = "split"
    /\ \E len \in Lengths(rstrm) :
         LET head == ReadU32(rstrm)
             id == ReadU16(head.s)
         IN  IF len > MaxPack THEN Close /\ UNCHANGED count
             ELSE IF ~Whole(rstrm, len)
             THEN /\ pc' = "read"
                  /\ UNCHANGED <<toServer, link, rstrm, sstrm, ev_flags, mask, handled, put, count>>
             ELSE /\ Process(id.val, id.s)
                  /\ pc' = IF rstrm'.rsize >= Used(rstrm) THEN "read"
                           ELSE IF rstrm' = rstrm THEN "stuck" ELSE "split"
                  /\ UNCHANGED <<toServer, link, mask, put>>
    /\ UNCHANGED <<client, toClient>>

\* handler_on_write: as much as the kernel takes.  It takes nothing only when
\* it holds a few bytes already.
WriteSome ==
    /\ pc = "write" /\ link = "up"
    /\ LET unsent == Used(sstrm) - sstrm.rsize
       IN  \E n \in 0..unsent :
             /\ n = 0 /\ unsent > 0 => Len(toClient) >= 4
             /\ n \in {0, unsent} \/ Partial(put + n, AnswerEnds[script]) \in Cuts
             /\ toClient' = toClient \o At(sstrm, sstrm.rsize, n)
             /\ put' = put + n
             /\ ev_flags' = {R} \cup (IF n < unsent THEN {W} ELSE {})
             /\ sstrm' = Move([sstrm EXCEPT !.rsize = @ + n])
    /\ pc' = "idle" /\ mask' = {}
    /\ UNCHANGED <<client, toServer, link, rstrm, handled, count>>

\* Writing to a client that has hung up fails, at once or at the next event.
WriteEnd ==
    /\ pc = "write" /\ link = "hung"
    /\ Close
    /\ UNCHANGED <<client, toClient, count>>

Serve == Event \/ Read \/ Drained \/ ReadEnd \/ Split \/ WriteSome \/ WriteEnd

Next == Send \/ Recv \/ GiveUp \/ HangUp \/ Connect \/ Serve

Spec == Init /\ [][Next]_vars

\* The loop serves a handler that is armed, and a client reads what comes.
FairSpec == Spec /\ WF_vars(Serve) /\ WF_vars(Recv)

-----------------------------------------------------------------------------
(* Properties *)

\* The connection is the exchange of Exchange: what the server executes are the
\* requests the client sent, whole, once each and in order, however the bytes
\* are cut, the stream grown or moved and the handler used again (split_message,
\* process, bin_stream_move, handler_reset); and none is left unexecuted.
EX == INSTANCE Exchange WITH
          asked <- SubSeq(script, 1, asked),
          done <- handled,
          open <- link \in {"up", "dropped"}

Implements == EX!Spec

\* The bytes of all answers given on this connection.
Said == LET upTo[i \in 0..Len(handled)] ==
                IF i = 0 THEN <<>> ELSE upTo[i - 1] \o AnswerBytes(handled[i])
        IN  upTo[Len(handled)]

\* What is left in the send stream continues what is written already: partial
\* writes, moves and growing neither lose nor repeat a byte, and each answer has
\* its length (hander_send, handler_on_write, check_write).
AnswersWhole ==
    link \in {"up", "hung"} => Unread(sstrm) = SubSeq(Said, put + 1, Len(Said))

\* A call that returns success returns the answer of the server to this very
\* request, also when answers to calls given up come late (recv_packet,
\* process_ack, rpc_get_meta).
AcceptedIsMine ==
    \A i \in DOMAIN results :
        results[i].how = "succ" => results[i].msg = AnswerTo(script[i])

\* A client that has never given up gets its answer as long as it stays.
Answered == [](waiting /\ count.timeout = 0 => <>(~waiting \/ count.timeout > 0))
===============================================================================
