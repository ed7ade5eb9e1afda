--------------------------- MODULE TelegramStream ---------------------------
(***************************************************************************)
(* Receiving telegrams on one channel of the sorter's TCP server           *)
(* (apps/plc-simulator/src/tcp-server/tcp-server.service.ts).  TCP keeps   *)
(* the bytes of a connection and their order but not the borders of what   *)
(* was written: a read may end inside a frame, in its header even, or span *)
(* several.  Lines may also carry noise between frames.                    *)
(***************************************************************************)
EXTENDS TelegramLayout

CONSTANTS
  Clients,
  Telegrams,   \* telegrams sent, [no, values], of numbers known and unknown
  Noise,       \* what may precede a frame: sequences of bytes, none of them STX
  Chunks,      \* sizes of a read, besides "all there is"
  MaxBytes     \* bound of the model: bytes on a connection of each client

\* A peer builds an unknown telegram by a definition of its own.
PeerSizes(no) == IF no \in DOMAIN Definitions THEN Definitions[no] ELSE <<2>>

ASSUME StreamAssumption ==
  /\ \A t \in Telegrams :
       /\ t \in [no : Word, values : Seq(Nat)]
       /\ Len(t.values) = Len(PeerSizes(t.no))
       /\ \A i \in DOMAIN t.values : Fits(t.values[i], PeerSizes(t.no)[i])
  /\ \A noise \in Noise : noise \in Seq((0 .. 255) \ {STX})
  /\ Chunks \subseteq Nat \ {0}
  /\ MaxBytes \in [Clients -> Nat]

VARIABLES
  wire,      \* bytes under way to the server
  rxBuffer,  \* channel.rxBuffer: bytes of an incomplete frame
  received,  \* telegrams handed to 'tcp.telegram.received'
  sent,      \* history: telegrams sent, each with the number of its last byte
  arrived    \* history: number of bytes read

vars == <<wire, rxBuffer, received, sent, arrived>>

Init ==
  /\ wire = [c \in Clients |-> <<>>]
  /\ rxBuffer = [c \in Clients |-> <<>>]
  /\ received = [c \in Clients |-> <<>>]
  /\ sent = [c \in Clients |-> <<>>]
  /\ arrived = [c \in Clients |-> 0]

-----------------------------------------------------------------------------
(***************************************************************************)
(* handleData().  The operators before each one are faulty variants of it, *)
(* for checking that the properties notice them.                           *)
(***************************************************************************)

\* Bytes before the first STX are dropped.
Resync(buffer) ==
  LET starts == { i \in DOMAIN buffer : buffer[i] = STX }
  IN  IF starts = {} THEN <<>> ELSE SubSeq(buffer, Min(starts), Len(buffer))

FrameSizeNoEtx(buffer) == HEADER_SIZE + DataLength(buffer)

FrameSize(buffer) == HEADER_SIZE + DataLength(buffer) + 1

HasFrame(buffer) == Len(buffer) >= HEADER_SIZE /\ Len(buffer) >= FrameSize(buffer)

\* One turn of the loop: the first frame in the buffer is taken out, parsed and handed
\* over; one that does not parse is logged and skipped.
Turn(state) ==
  LET buffer == Resync(state.buffer)
      frame == SubSeq(buffer, 1, FrameSize(buffer))
  IN  IF ~HasFrame(buffer) THEN [state EXCEPT !.buffer = buffer]
      ELSE [buffer |-> SubSeq(buffer, FrameSize(buffer) + 1, Len(buffer)),
            telegrams |-> IF Parses(frame) THEN Append(state.telegrams, Parse(frame))
                          ELSE state.telegrams]

\* The loop: each turn but the last takes a frame.
Deframe(bytes) ==
  LET turns == Len(bytes) \div MIN_TELEGRAM_SIZE + 1
      after[k \in 0 .. turns] == IF k = 0 THEN [buffer |-> bytes, telegrams |-> <<>>]
                                 ELSE Turn(after[k - 1])
  IN  after[turns]

\* The bytes of the connection seen so far and not yet used.
Buffered(c, bytes) == rxBuffer[c] \o bytes

\* A 'data' event with the first n bytes under way.
HandleData(c, n) ==
  LET result == Deframe(Buffered(c, SubSeq(wire[c], 1, n))) IN
  /\ n <= Len(wire[c])
  /\ wire' = [wire EXCEPT ![c] = SubSeq(@, n + 1, Len(@))]
  /\ rxBuffer' = [rxBuffer EXCEPT ![c] = result.buffer]
  /\ received' = [received EXCEPT ![c] = @ \o result.telegrams]
  /\ arrived' = [arrived EXCEPT ![c] = @ + n]
  /\ UNCHANGED sent

\* The 'close' event, and the next connection of the same client.
Close(c) ==
  /\ wire' = [wire EXCEPT ![c] = <<>>]
  /\ rxBuffer' = [rxBuffer EXCEPT ![c] = <<>>]
  /\ received' = [received EXCEPT ![c] = <<>>]
  /\ sent' = [sent EXCEPT ![c] = <<>>]
  /\ arrived' = [arrived EXCEPT ![c] = 0]

-----------------------------------------------------------------------------
(***************************************************************************)
(* The control system's side                                               *)
(***************************************************************************)

Frame == [t \in Telegrams |-> Build(t.no, PeerSizes(t.no), t.values)]

OnLine(c) == arrived[c] + Len(wire[c])

Send(c, noise, t) ==
  LET bytes == noise \o Frame[t] IN
  /\ OnLine(c) + Len(bytes) <= MaxBytes[c]
  /\ wire' = [wire EXCEPT ![c] = @ \o bytes]
  /\ sent' = [sent EXCEPT ![c] = Append(@, [telegram |-> t, end |-> OnLine(c) + Len(bytes)])]
  /\ UNCHANGED <<rxBuffer, received, arrived>>

Read(c) == wire[c] # <<>> /\ \E n \in Chunks \cup {Len(wire[c])} : HandleData(c, n)

Next == \E c \in Clients :
  \/ Read(c) \/ Close(c)
  \/ \E noise \in Noise, t \in Telegrams : Send(c, noise, t)

Spec == Init /\ [][Next]_vars

-----------------------------------------------------------------------------
(***************************************************************************)
(* Properties                                                              *)
(***************************************************************************)
Byte == 0 .. 255

TypeOK ==
  /\ wire \in [Clients -> Seq(Byte)]
  /\ rxBuffer \in [Clients -> Seq(Byte)]
  /\ \A c \in Clients :
       /\ OnLine(c) <= MaxBytes[c]
       /\ \A i \in DOMAIN received[c] : received[c][i].no \in DOMAIN Definitions

\* The telegrams whose last byte has been read, and those still under way
Passed(c) == Cardinality({i \in DOMAIN sent[c] : sent[c][i].end <= arrived[c]})
Under(c) == SubSeq(sent[c], Passed(c) + 1, Len(sent[c]))
Queue == [c \in Clients |-> [i \in DOMAIN Under(c) |-> Under(c)[i].telegram]]
Known == {t \in Telegrams : t.no \in DOMAIN Definitions}

\* The telegrams of each client reach the handlers once, whole, in order and as
\* soon as their last byte is read, however reads cut the stream and whatever
\* noise, unknown numbers and other connections come between (handleData(),
\* tcp-server.service.ts:93-153; build() and autoParse() agree on the bytes).
Channel == INSTANCE TelegramChannel WITH
  queue <- Queue

ImplementsChannel == Channel!Spec
=============================================================================
