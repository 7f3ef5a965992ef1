-------------------------------- MODULE Codec ---------------------------------
(***************************************************************************)
(* What is written to a connection and how it is read back: the streams    *)
(* and conversions of cell_codec.c (the same file in cell/ and rpc/) and   *)
(* the messages of cell_msg.c.                                             *)
(*                                                                         *)
(* A stream is [data, rsize, size]: the bytes written and not dropped yet, *)
(* how many of them are read, and the bytes allocated; the field used is   *)
(* the length of data.  A message is a record from field names to values,  *)
(* a number or the bytes of a string with its terminating zero.  The       *)
(* client's encoder (rpc/cell_msg.c) and the server's decoder              *)
(* (cell/cell_msg.c) are separate lists of fields, as they are separate    *)
(* code.                                                                   *)
(***************************************************************************)
EXTENDS Naturals, Sequences

CONSTANTS
    Default,          \* DEFAULT_PACKET_SIZE
    Slack,            \* how little room makes bin_stream_move copy (256)
    Large,            \* above this size a stream is not kept (4096)
    MAX_FILE_NAME, POOL_NAME_SIZE, USERNAME_SIZE, CRPYT_CODE_SIZE,
    MAX_INFO_SIZE, STATE_INFO_SIZE

ASSUME StreamAssumption ==
    /\ Default \in Nat \ {0} /\ Slack \in Nat /\ Large \in Nat
    /\ Large >= Default

ASSUME BufferAssumption ==
    {MAX_FILE_NAME, POOL_NAME_SIZE, USERNAME_SIZE, CRPYT_CODE_SIZE, MAX_INFO_SIZE,
     STATE_INFO_SIZE} \subseteq Nat

-----------------------------------------------------------------------------
(* Streams *)

Fresh == [data |-> <<>>, rsize |-> 0, size |-> Default]

Used(s) == Len(s.data)
Unread(s) == SubSeq(s.data, s.rsize + 1, Used(s))

Rewind(s) == [s EXCEPT !.data = <<>>, !.rsize = 0]

Reduce(s) == IF s.size > Large THEN Fresh ELSE s

\* The doubled size that holds n bytes.
Doubled(size, n) ==
    LET from[k \in Nat] == IF n <= k THEN k ELSE from[2 * k]
    IN  from[size]
Resize(s, n) == [s EXCEPT !.size = Doubled(@, n)]

\* A slip: the copied stream keeps its read position.
MoveForgetful(s) ==
    IF Used(s) = s.rsize
    THEN [s EXCEPT !.data = <<>>, !.rsize = 0]
    ELSE IF s.rsize > s.size \div 2 /\ Used(s) + Slack >= s.size
    THEN [s EXCEPT !.data = Unread(s)]
    ELSE s

\* What is read is dropped: all of it when nothing is left, otherwise only
\* when half of the stream is read and there is little room behind.
Move(s) ==
    IF Used(s) = s.rsize
    THEN Rewind(s)
    ELSE IF s.rsize > s.size \div 2 /\ Used(s) + Slack >= s.size
    THEN [s EXCEPT !.data = Unread(s), !.rsize = 0]
    ELSE s

\* Append bytes, growing the stream where they do not fit.
Write(s, bytes) == [Resize(s, Used(s) + Len(bytes)) EXCEPT !.data = @ \o bytes]

-----------------------------------------------------------------------------
(* Numbers and strings *)

Put2(v) == <<v \div 256 % 256, v % 256>>
Put4(v) == Put2(v \div 65536) \o Put2(v)
PutData(bytes) == Put4(Len(bytes)) \o bytes

\* The n bytes at offset r.
At(s, r, n) == SubSeq(s.data, r + 1, r + n)
Get2(b) == 256 * b[1] + b[2]
Get4(b) == 65536 * Get2(b) + Get2(SubSeq(b, 3, 4))

\* A number of n bytes that is not there whole is 0, and nothing is read.
Number(s, n, val) ==
    IF Used(s) < s.rsize + n
    THEN [val |-> 0, s |-> s, ok |-> TRUE]
    ELSE [val |-> val, s |-> [s EXCEPT !.rsize = @ + n], ok |-> TRUE]

ReadU16(s) == Number(s, 2, Get2(At(s, s.rsize, 2)))
ReadU32(s) == Number(s, 4, Get4(At(s, s.rsize, 4)))

\* A string must fit its buffer and lie in the stream.  A refused one has its
\* length read.
ReadData(s, max) ==
    LET n == ReadU32(s) IN
    IF n.val > max \/ n.s.rsize + n.val > Used(s)
    THEN [val |-> <<>>, s |-> n.s, ok |-> FALSE]
    ELSE [val |-> At(s, n.s.rsize, n.val), s |-> [n.s EXCEPT !.rsize = @ + n.val],
          ok |-> TRUE]

-----------------------------------------------------------------------------
(* Fields *)

U16(name) == [kind |-> "u16", name |-> name, max |-> 0]
U32(name) == [kind |-> "u32", name |-> name, max |-> 0]
\* A string, when written.
Str(name) == [kind |-> "str", name |-> name, max |-> 0]
\* A string, when read into max bytes.
Buf(name, max) == [kind |-> "str", name |-> name, max |-> max]

PutField(f, v) ==
    CASE f.kind = "u16" -> Put2(v)
      [] f.kind = "u32" -> Put4(v)
      [] f.kind = "str" -> PutData(v)

GetField(f, s) ==
    CASE f.kind = "u16" -> ReadU16(s)
      [] f.kind = "u32" -> ReadU32(s)
      [] f.kind = "str" -> ReadData(s, f.max)

\* The fields in their order.
Encode(fields, msg) ==
    LET upTo[i \in 0..Len(fields)] ==
            IF i = 0 THEN <<>>
            ELSE upTo[i - 1] \o PutField(fields[i], msg[fields[i].name])
    IN  upTo[Len(fields)]

\* Op(v), where TLC evaluates v only once.
Once(v, Op(_)) == CHOOSE r \in {Op(x) : x \in {v}} : TRUE

\* A message with one more field.
With(msg, name, val) ==
    [x \in DOMAIN msg \cup {name} |-> IF x = name THEN val ELSE msg[x]]

\* The fields in their order, up to the first that is refused.
Decode(fields, s) ==
    LET add(before, f, got) == [msg |-> With(before.msg, f.name, got.val),
                                s |-> got.s, ok |-> got.ok]
        next(before, f) ==
            IF before.ok THEN add(before, f, GetField(f, before.s)) ELSE before
        upTo[i \in 0..Len(fields)] ==
            IF i = 0 THEN [msg |-> <<>>, s |-> s, ok |-> TRUE]
            ELSE Once(upTo[i - 1], LAMBDA before : next(before, fields[i]))
    IN  upTo[Len(fields)]

-----------------------------------------------------------------------------
(* Requests, as the client writes them and as the server reads them *)

add_meta_encode ==
    <<U32("sid"), Str("path"), Str("url"), Str("pool"), Str("uploader"), Str("pwd"),
      Str("crpyt_key"), U32("opened")>>

add_meta_decode ==
    <<U32("sid"), Buf("path", MAX_FILE_NAME), Buf("url", MAX_FILE_NAME),
      Buf("pool", POOL_NAME_SIZE), Buf("uploader", USERNAME_SIZE),
      Buf("pwd", USERNAME_SIZE), Buf("crpyt_key", CRPYT_CODE_SIZE), U32("opened")>>

update_meta_encode ==
    <<U32("sid"), Str("path"), Str("pool"), U32("op"), Str("pwd"), Str("crpyt_key"),
      U32("opened")>>

\* The password is held to the size of a pool name.
update_meta_decode ==
    <<U32("sid"), Buf("path", MAX_FILE_NAME), Buf("pool", POOL_NAME_SIZE), U32("op"),
      Buf("pwd", POOL_NAME_SIZE), Buf("crpyt_key", CRPYT_CODE_SIZE), U32("opened")>>

add_life_cycle_encode == <<U32("sid"), Str("url"), U32("days"), U32("cold")>>
add_life_cycle_decode ==
    <<U32("sid"), Buf("url", MAX_FILE_NAME), U32("days"), U32("cold")>>

get_meta_encode == <<U32("sid"), Str("path"), Str("pool")>>
get_meta_decode ==
    <<U32("sid"), Buf("path", MAX_FILE_NAME), Buf("pool", POOL_NAME_SIZE)>>

del_meta_encode == <<U32("sid"), Str("path"), Str("pool")>>
del_meta_decode ==
    <<U32("sid"), Buf("path", MAX_FILE_NAME), Buf("pool", POOL_NAME_SIZE)>>

upload_file_encode == <<U32("sid"), Str("user"), U32("file_size")>>
upload_file_decode == <<U32("sid"), Buf("user", USERNAME_SIZE), U32("file_size")>>

check_upload_encode == <<U32("sid"), Str("user"), Str("exname"), U32("file_size")>>
check_upload_decode ==
    <<U32("sid"), Buf("user", USERNAME_SIZE), Buf("exname", USERNAME_SIZE),
      U32("file_size")>>

user_flag_encode == <<U32("sid"), Str("user"), U32("flag")>>
user_flag_decode == <<U32("sid"), Buf("user", USERNAME_SIZE), U32("flag")>>

add_log_encode ==
    <<U32("sid"), Str("user"), Str("path"), Str("ip"), Str("pool"), U32("type")>>
add_log_decode ==
    <<U32("sid"), Buf("user", USERNAME_SIZE), Buf("path", MAX_FILE_NAME),
      Buf("ip", USERNAME_SIZE), Buf("pool", POOL_NAME_SIZE), U32("type")>>

replace_meta_encode ==
    <<U32("sid"), Str("path"), Str("url"), Str("user"), Str("pool"), U32("version")>>
replace_meta_decode ==
    <<U32("sid"), Buf("path", MAX_FILE_NAME), Buf("url", MAX_FILE_NAME),
      Buf("user", USERNAME_SIZE), Buf("pool", POOL_NAME_SIZE), U32("version")>>

clean_cache_encode == <<U32("sid"), Str("path")>>
clean_cache_decode == <<U32("sid"), Buf("path", MAX_FILE_NAME)>>

state_info_decode == <<U32("sid")>>

\* Written and read by the server alone; what is too long is read as nothing.
test_msg_encode == <<U16("id"), U32("key"), Str("value")>>
test_msg_decode == <<U16("id"), U32("key"), Buf("value", CRPYT_CODE_SIZE)>>

(* Answers, as the server writes them and as the client reads them *)

ack_encode == <<U32("sid"), U32("result"), Str("err")>>
ack_decode == <<U32("sid"), U32("result"), Buf("err", MAX_INFO_SIZE)>>

get_meta_ack_encode ==
    <<U32("sid"), U32("result"), Str("path"), Str("url"), Str("uploader"), Str("pwd"),
      Str("crpyt_key"), U32("opened")>>
get_meta_ack_decode ==
    <<U32("sid"), U32("result"), Buf("path", MAX_FILE_NAME), Buf("url", MAX_FILE_NAME),
      Buf("uploader", USERNAME_SIZE), Buf("pwd", USERNAME_SIZE),
      Buf("crpyt_key", CRPYT_CODE_SIZE), U32("opened")>>

state_info_ack_encode == <<U32("sid"), Str("info")>>

-----------------------------------------------------------------------------
(* The tables of messages *)

MsgId ==
    [TEST_MSG |-> 0, ADD_META |-> 1, ADD_META_ACK |-> 2, UPDATE_META |-> 3,
     UPDATE_META_ACK |-> 4, ADD_LIFE_CYCLE |-> 5, ADD_LIFE_CYCLE_ACK |-> 6,
     GET_META |-> 7, GET_META_ACK |-> 8, DELETE_META |-> 9, DELETE_META_ACK |-> 10,
     UPLAOD_FILE |-> 11, UPLOAD_FILE_ACK |-> 12, ADD_FILE_LOG |-> 13,
     ADD_FILE_LOG_ACK |-> 14, CHECK_UPLOAD |-> 15, CHECK_UPLOAD_ACK |-> 16,
     SET_USER_FLAG |-> 17, SET_USER_FLAG_ACK |-> 18, REPLACE_META_VER |-> 19,
     REPLACE_META_VER_ACK |-> 20, CLEAN_CACHE |-> 21, CLEAN_CACHE_ACK |-> 22,
     STATE_INFO |-> 4096, STATE_INFO_ACK |-> 4097]

\* encode_msg of the client: the requests its functions send.
ClientEncodes ==
    [ADD_META |-> add_meta_encode, UPDATE_META |-> update_meta_encode,
     ADD_LIFE_CYCLE |-> add_life_cycle_encode, GET_META |-> get_meta_encode,
     DELETE_META |-> del_meta_encode, UPLAOD_FILE |-> upload_file_encode,
     ADD_FILE_LOG |-> add_log_encode, CHECK_UPLOAD |-> check_upload_encode,
     SET_USER_FLAG |-> user_flag_encode, REPLACE_META_VER |-> replace_meta_encode,
     CLEAN_CACHE |-> clean_cache_encode]

\* process: what the server reads for a message id.
ServerDecodes ==
    [ADD_META |-> add_meta_decode, UPDATE_META |-> update_meta_decode,
     ADD_LIFE_CYCLE |-> add_life_cycle_decode, GET_META |-> get_meta_decode,
     DELETE_META |-> del_meta_decode, UPLAOD_FILE |-> upload_file_decode,
     ADD_FILE_LOG |-> add_log_decode, CHECK_UPLOAD |-> check_upload_decode,
     SET_USER_FLAG |-> user_flag_decode, REPLACE_META_VER |-> replace_meta_decode,
     CLEAN_CACHE |-> clean_cache_decode, STATE_INFO |-> state_info_decode,
     TEST_MSG |-> test_msg_decode]

\* encode_msg of the server, by the request that is answered: an acknowledgement
\* but for these.  The answer to CLEAN_CACHE has no case there and stays empty.
ServerEncodes(kind) ==
    CASE kind = "GET_META" -> get_meta_ack_encode
      [] kind = "STATE_INFO" -> state_info_ack_encode
      [] kind = "TEST_MSG" -> test_msg_encode
      [] kind = "CLEAN_CACHE" -> <<>>
      [] OTHER -> ack_encode

\* The id of the answer is the next number; a test message is sent back as it is.
AnswerId(kind) == IF kind = "TEST_MSG" THEN MsgId[kind] ELSE MsgId[kind] + 1

\* What the client reads into, by the call it made.
ClientDecodes(kind) ==
    IF kind = "GET_META" THEN get_meta_ack_decode ELSE ack_decode
===============================================================================
