---------------------------- MODULE RemoteMemory ----------------------------
(* The requests on which several connections and their clients exchange data *)
(* through internal_mem.  A remote call of a connection (remote_io_open,     *)
(* _system, _write, _read) puts its argument there, or reserves a buffer, and*)
(* tells its client the address; the client reads or fills it with m and M   *)
(* packets and ends the call with an F packet.  Every packet is decoded from *)
(* its bytes and handled in one step; module Connection has the queues that  *)
(* suspend and resume the calls.                                             *)
EXTENDS InternalMem

CONSTANTS Conns,
          Strings, Blocks,  \* the arguments of open and system, and of write
          ReadSizes,        \* the `max` arguments of remote_io_read
          FileBytes,        \* what the clients' files hold
          FeatureLists,     \* what a client announces in qSupported
          Malformed,        \* packets that are no request of the protocol
          UserReads,        \* [addr, len] of the m packets a user asks for
          PacketSize,       \* gdb_packet_buffer_size, the size of resp_buf
          Wild,             \* addresses a dangling iterator may give
          MaxStorage        \* bound: no call once the storage is that long

ASSUME RemoteMemoryAssumption ==
    /\ Strings \cup Blocks \subseteq Seq(Byte)
    /\ ReadSizes \subseteq Nat \ {0} /\ FileBytes \subseteq Byte
    /\ FeatureLists \subseteq Seq([name : Seq(Byte), value : Seq(Seq(Byte)),
                                   supported : BOOLEAN])
    /\ Malformed \subseteq Seq(Byte) \ {<<>>}
    /\ UserReads \subseteq [addr : Nat, len : Nat]
    /\ PacketSize \in Nat /\ PacketSize >= 3 /\ MaxStorage \in Nat /\ Wild \subseteq Nat

\* The memory ends below 2^64, whatever the constructor or a last call adds.
ASSUME MemoryFits ==
    /\ Address + StaticSize + Len(Hacked) + 1 < SizeMax
    /\ \A arg \in Strings \cup Blocks : Address + MaxStorage + Len(arg) < SizeMax
    /\ \A max \in ReadSizes : Address + MaxStorage + max < SizeMax

VARIABLES
    loop,       \* of each connection: "none", "running", or "ended" by an overflow
    call,       \* the remote call of each connection
    seen,       \* what its client has read of the argument or put in the buffer
    result,     \* the content of the latest read and what the client had put
    refusal,    \* the answer to the latest packet if that was malformed
    announced,  \* the features each client has announced
    remote_features

connVars == <<call, seen, result>>
vars == <<memVars, loop, connVars, refusal, announced, remote_features>>

NoCall == [op |-> "none", buf |-> internal_buf(0, 0), arg |-> <<>>,
           dangling |-> FALSE]

\* packet_type
read_mem  == 109
write_mem == 77
get       == 113
set       == 81
file_io   == 70

\* An answer, the storage it leaves, and the features the client has now.
Answer(text, store, features) ==
    [text |-> text, storage |-> store, features |-> features]

Only(c, text) == Answer(text, storage, remote_features[c])

OkText     == <<79, 75>>
ErrorText  == <<69, 48, 49>>                 \* append_error(unknown)
None       == <<-2>>
Overflow   == <<-1>>
Supported  == <<83, 117, 112, 112, 111, 114, 116, 101, 100>>
our_features ==
    <<Feature(<<80, 97, 99, 107, 101, 116, 83, 105, 122, 101>>,
              <<HexText(PacketSize)>>, TRUE)>>

\* resp_buf throws buffer_too_small, which ends the loop of the connection.
Fitting(text) == IF Len(text) > PacketSize THEN Overflow ELSE text

append_hex(c, bytes) == Only(c, Fitting(BytesEncode(bytes)))

-----------------------------------------------------------------------------
(* process_pkt and the handlers it calls                                     *)

handle_read_mem(c, buf) ==
    LET addr == Hex(buf, comma, TRUE)
        len  == Hex(addr.rest, NUL, FALSE)
        data == read_data(addr.val, len.val)
    IN  IF Failed(<<addr, len>>) THEN Only(c, ErrorText)
        ELSE IF ~has_addr(addr.val) THEN append_hex(c, <<97>>)
        ELSE IF data.exc # "none" THEN Only(c, ErrorText)
        ELSE append_hex(c, data.val)

write_args(buf) == LET addr == Hex(buf, comma, TRUE)
                       len  == Hex(addr.rest, colon, TRUE)
                   IN  [addr |-> addr, len |-> len, data |-> BytesDecode(len.rest)]

handle_write_mem(c, buf) ==
    LET addr == write_args(buf).addr
        len  == write_args(buf).len
        data == write_args(buf).data
    IN  IF Failed(<<addr, len, data>>) THEN Only(c, ErrorText)
        ELSE IF ~has_addr(addr.val) THEN Only(c, OkText)
        ELSE Answer(OkText, Written(addr.val, len.val, data.val),
                    remote_features[c])

handle_supported(c, buf) ==
    LET features == DecodeFeatures(buf)
    IN  IF features.exc # "none" THEN Only(c, ErrorText)
        ELSE Answer(Fitting(EncodeFeatures(our_features)),
                    storage, features.val)

\* One query is bound: Supported, followed by ':', as a get.  Without its
\* separator it is not found, and an unknown request has an empty answer.
handle_query(c, type, buf) ==
    IF ~IsPrefix(Supported \o <<colon>>, buf) THEN Only(c, <<>>)
    ELSE IF type = set THEN Only(c, ErrorText)
    ELSE handle_supported(c, SubSeq(buf, Len(Supported) + 2, Len(buf)))

\* The packets '?', 'g', 'p' and 'c' (connection.cpp 144-161) touch no memory and
\* are not sent here: Connection has what they do to the loop.
process_pkt(c, pkt) ==
    LET buf == Tail(pkt)
    IN  IF Head(pkt) = read_mem THEN handle_read_mem(c, buf)
        ELSE IF Head(pkt) = write_mem THEN handle_write_mem(c, buf)
        ELSE IF Head(pkt) \in {get, set} THEN handle_query(c, Head(pkt), buf)
        ELSE Only(c, <<>>)

\* The client sends a packet and waits for its answer.
Exchange(c, pkt) ==
    /\ loop[c] = "running"
    /\ \E answer \in {process_pkt(c, pkt)} :
          /\ loop' = [loop EXCEPT ![c] = IF answer.text = Overflow THEN "ended"
                                         ELSE "running"]
          /\ storage' = answer.storage
          /\ remote_features' = [remote_features EXCEPT ![c] = answer.features]
          /\ refusal' = IF pkt \in Malformed THEN answer.text ELSE None
    /\ UNCHANGED <<capacity, did_init>>

-----------------------------------------------------------------------------
(* The connection: its constructor and its remote calls                      *)

Construct(c) ==
    /\ loop[c] = "none"
    /\ loop' = [loop EXCEPT ![c] = "running"]
    /\ init
    /\ UNCHANGED <<connVars, refusal, announced, remote_features>>

Calls(c, op, buf, arg, dangling) ==
    /\ loop[c] # "none" /\ call[c].op = "none"
    /\ Len(storage) < MaxStorage
    /\ call' = [call EXCEPT ![c] = [op |-> op, buf |-> buf, arg |-> arg,
                                    dangling |-> dangling]]
    /\ seen' = [seen EXCEPT ![c] = <<>>]
    /\ UNCHANGED <<loop, result, refusal, announced, remote_features>>

\* remote_io_open and remote_io_system: len counts the terminator.
remote_io_encode_str(c, s) ==
    \E addr \in IF Dangles(s) THEN Wild ELSE {end} :
        /\ Calls(c, "string", internal_buf(addr, Len(s) + 1), s, Dangles(s))
        /\ add_str(s)

remote_io_write(c, data) ==
    /\ Calls(c, "data", internal_buf(end, Len(data)), data, FALSE)
    /\ add_data(data)

remote_io_read(c, max) ==
    /\ Calls(c, "read", internal_buf(end, max), <<>>, FALSE)
    /\ reserve(max)

\* handle_file_reply resumes the call: a retcode below 0 with an errno throws,
\* and remote_io_read takes as many bytes as the retcode, a size_t, says.
handle_file_reply(c, pkt) ==
    LET retcode == SignedHex(Tail(pkt), comma)
        errno   == OptCoder(retcode.rest, Hex(retcode.rest, comma, FALSE))
        ctrlc   == OptCoder(errno.rest, StrCoder(errno.rest, semicolon, FALSE))
        attach  == OptCoder(ctrlc.rest, StrCoder(ctrlc.rest, NUL, FALSE))
        fails   == retcode.val < 0 /\ errno.val # nullopt
        data    == read_data(call[c].buf.address, retcode.val % SizeMax)
    IN  /\ ~Failed(<<retcode, errno, ctrlc, attach>>)
        /\ result' = [result EXCEPT ![c] =
                         IF call[c].op # "read" \/ fails \/ data.exc # "none"
                         THEN nullopt
                         ELSE <<[content |-> data.val, put |-> seen[c]]>>]
        /\ call' = [call EXCEPT ![c] = NoCall]
        /\ seen' = [seen EXCEPT ![c] = <<>>]

-----------------------------------------------------------------------------
(* The clients                                                               *)

ReadPacket(addr, len) ==
    <<read_mem>> \o HexText(addr) \o <<comma>> \o HexText(len)

WritePacket(addr, data) ==
    <<write_mem>> \o HexText(addr) \o <<comma>> \o HexText(Len(data))
                  \o <<colon>> \o BytesEncode(data)

Left(c) == call[c].buf.len - Len(seen[c])
NextAddr(c) == call[c].buf.address + Len(seen[c])

\* The client reads the next n bytes of an argument ...
Fetch(c, n) ==
    /\ call[c].op \in {"string", "data"} /\ n <= Left(c)
    /\ Exchange(c, ReadPacket(NextAddr(c), n))
    /\ LET answer == process_pkt(c, ReadPacket(NextAddr(c), n))
       IN  seen' = [seen EXCEPT ![c] = @ \o BytesDecode(answer.text).val]
    /\ UNCHANGED <<call, result, announced>>

\* ... or puts the next bytes of its file into the buffer ...
Fill(c, bytes) ==
    /\ call[c].op = "read" /\ Len(bytes) <= Left(c)
    /\ Exchange(c, WritePacket(NextAddr(c), bytes))
    /\ seen' = [seen EXCEPT ![c] = @ \o bytes]
    /\ UNCHANGED <<call, result, announced>>

\* ... and replies: with the count, -1, or -1 and an errno.
Reply(c) ==
    /\ loop[c] = "running" /\ call[c].op # "none"
    /\ \E text \in {HexText(Len(seen[c])), <<minus, 49>>, <<minus, 49, comma, 53>>} :
          handle_file_reply(c, <<file_io>> \o text)
    /\ UNCHANGED <<memVars, loop, refusal, announced, remote_features>>

Ask(c, pkt) == Exchange(c, pkt) /\ UNCHANGED connVars

\* The first request of a client.
Announce(c, features) ==
    /\ announced[c] = <<>>
    /\ announced' = [announced EXCEPT ![c] = features]
    /\ Ask(c, <<get>> \o Supported \o <<colon>> \o EncodeFeatures(features))

Init == /\ MemInit
        /\ loop = [c \in Conns |-> "none"]
        /\ call = [c \in Conns |-> NoCall]
        /\ seen = [c \in Conns |-> <<>>]
        /\ result = [c \in Conns |-> nullopt]
        /\ refusal = None
        /\ announced = [c \in Conns |-> <<>>]
        /\ remote_features = [c \in Conns |-> <<>>]

Server(c) == \/ Construct(c)
             \/ \E s \in Strings : remote_io_encode_str(c, s)
             \/ \E data \in Blocks : remote_io_write(c, data)
             \/ \E max \in ReadSizes : remote_io_read(c, max)

Client(c) == \/ \E n \in 1..2 : Fetch(c, n)
             \/ \E n \in 1..2 : \E bytes \in [1..n -> FileBytes] : Fill(c, bytes)
             \/ Reply(c)
             \/ \E features \in FeatureLists : Announce(c, features)
             \/ /\ \E pkt \in Malformed : Ask(c, pkt)
                /\ UNCHANGED announced
             \/ /\ \E r \in UserReads : Ask(c, ReadPacket(r.addr, r.len))
                /\ UNCHANGED announced

Next == \E c \in Conns : Server(c) \/ Client(c)

Spec == Init /\ [][Next]_vars

-----------------------------------------------------------------------------
(* The type invariant: the vector never holds more than it has room for, and *)
(* the buffers of calls lie in the storage.                                  *)
TypeOK ==
    /\ MemTypeOK
    /\ loop \in [Conns -> {"none", "running", "ended"}]
    /\ \A c \in Conns :
          /\ call[c].op \in {"none", "string", "data", "read"}
          /\ call[c].op # "none" /\ ~call[c].dangling
                => /\ Address <= call[c].buf.address
                   /\ call[c].buf.address + call[c].buf.len <= end
          /\ Len(seen[c]) <= call[c].buf.len

(* What a client reads at the address it was given is the argument of the    *)
(* call, terminator included, in as many packets as it likes, and whatever   *)
(* the other connections and their clients do to the storage in between.     *)
(* A call whose address came from a dangling iterator is left out.           *)
ArgumentsArrive ==
    \A c \in Conns :
        call[c].op \in {"string", "data"} /\ ~call[c].dangling
            => IsPrefix(seen[c], IF call[c].op = "string" THEN WithNul(call[c].arg)
                                 ELSE call[c].arg)

(* What remote_io_read returns is what the client put in its buffer.         *)
FilesArrive == \A c \in Conns : result[c] # nullopt
                                    => result[c][1].content = result[c][1].put

(* Whatever a client announces, the server has it as it was announced.       *)
FeaturesAgree == \A c \in Conns : remote_features[c] = announced[c]

(* A packet that breaks off or has a number that is none is answered with an *)
(* error or not recognised, and writes nothing.                              *)
MalformedIsRefused ==
    [][refusal' # refusal /\ refusal' # None
          => refusal' \in {ErrorText, <<>>} /\ storage' = storage]_vars

=============================================================================
