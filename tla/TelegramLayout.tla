--------------------------- MODULE TelegramLayout ---------------------------
(***************************************************************************)
(* The byte layout of the telegrams between sorter and control system:     *)
(* packages/telegram.  A frame is                                          *)
(*   STX, data type, module id (6), telegram number (2), data length (2),  *)
(*   data, ETX                                                             *)
(* with numbers in big-endian order.  The data of a telegram is a sequence *)
(* of values, one per field; field names are left out.                     *)
(***************************************************************************)
EXTENDS Integers, SequencesExt

STX == 2
ETX == 3
HEADER_SIZE == 12
MIN_TELEGRAM_SIZE == HEADER_SIZE + 1

\* Sizes of the fields of each telegram, by number: heartbeat and status,
\* parcels, destinations and acknowledgements, commands and their answers
STATUS_TELEGRAMS == [no \in {1, 10, 11, 12} |->
  CASE no = 1 -> <<2, 2>> [] no = 10 -> <<2>> [] OTHER -> <<2, 2, 2>>]

PARCEL_TELEGRAMS == [no \in {20, 21, 22, 40} |->
  CASE no = 20 -> <<2, 2, 2, 4, 2, 2, 2, 2, 2, 2, 2, 2, 2>>
    [] no = 40 -> <<2>>
    [] OTHER -> <<2, 2, 2, 2, 2>>]

REPLY_TELEGRAMS == [no \in {30, 41, 100, 101, 110} |->
  CASE no = 30 -> <<2, 4, 2, 2, 2, 2, 2, 2, 2, 2>>
    [] no = 41 -> <<2, 2, 2, 2, 2, 2, 2, 2, 2, 2>>
    [] no = 100 -> <<2>>
    [] OTHER -> <<2, 2>>]

COMMAND_TELEGRAMS == [no \in {111, 120, 121, 130, 131, 140, 141} |->
  CASE no = 111 -> <<2, 2, 2>>
    [] no \in {120, 121} -> <<2, 2>>
    [] no \in {130, 131} -> <<2, 2, 2, 2>>
    [] OTHER -> <<2>>]

\* PLC_TO_SMC_DEFINITIONS, SMC_TO_PLC_DEFINITIONS and TelegramRegistry
Joined(f, g) == [no \in DOMAIN f \cup DOMAIN g |-> IF no \in DOMAIN f THEN f[no] ELSE g[no]]
PLC_TO_SMC == Joined(STATUS_TELEGRAMS, PARCEL_TELEGRAMS)
SMC_TO_PLC == Joined(REPLY_TELEGRAMS, COMMAND_TELEGRAMS)
Definitions == Joined(PLC_TO_SMC, SMC_TO_PLC)

\* Where the fields end in the data: offset += field.size
Offset(sizes) == LET offset[i \in 0 .. Len(sizes)] ==
                       IF i = 0 THEN 0 ELSE offset[i - 1] + sizes[i]
                 IN  offset
Sum(sizes) == Offset(sizes)[Len(sizes)]

\* Bytes the fields of each telegram take
DataSize == [no \in DOMAIN Definitions |-> Sum(Definitions[no])]

\* writeUInt8, writeUInt16BE, writeUInt32BE, and the readers
BigEndian(value, size) ==
  CASE size = 1 -> <<value>>
    [] size = 2 -> <<value \div 256, value % 256>>
    [] size = 4 -> <<value \div 16777216, (value \div 65536) % 256, (value \div 256) % 256,
                     value % 256>>

UInt(bytes) ==
  CASE Len(bytes) = 1 -> bytes[1]
    [] Len(bytes) = 2 -> 256 * bytes[1] + bytes[2]
    [] Len(bytes) = 4 -> 16777216 * bytes[1] + 65536 * bytes[2] + 256 * bytes[3] + bytes[4]

\* What two bytes hold
Word == {n \in Nat : n <= 65535}

\* The writers throw a RangeError unless this holds.
Fits(value, size) == \A i \in 1 .. size : BigEndian(value, size)[i] \in 0 .. 255

-----------------------------------------------------------------------------
\* The data, field by field
Written(sizes, values) ==
  LET written[i \in 0 .. Len(sizes)] ==
        IF i = 0 THEN <<>> ELSE written[i - 1] \o BigEndian(values[i], sizes[i])
  IN  written

\* TelegramBuilder.build(): data type 'D', module id "PSM00"
Build(no, sizes, values) ==
  <<STX, 68, 80, 83, 77, 48, 48, 0>>
    \o BigEndian(no, 2) \o BigEndian(Sum(sizes), 2)
    \o Written(sizes, values)[Len(sizes)]
    \o <<ETX>>

TelegramNo(frame) == UInt(SubSeq(frame, 9, 10))
DataLength(frame) == UInt(SubSeq(frame, 11, 12))

\* parseData(): field i
Field(frame, sizes, i) ==
  UInt(SubSeq(frame, HEADER_SIZE + Offset(sizes)[i - 1] + 1, HEADER_SIZE + Offset(sizes)[i]))

\* autoParse() throws unless this holds.  The fields have to fit the frame, not
\* the data length of its header.
Parses(frame) ==
  /\ Len(frame) >= HEADER_SIZE
  /\ frame[1] = STX
  /\ TelegramNo(frame) \in DOMAIN Definitions
  /\ HEADER_SIZE + DataSize[TelegramNo(frame)] <= Len(frame)
  /\ HEADER_SIZE + DataLength(frame) < Len(frame)
  /\ frame[HEADER_SIZE + DataLength(frame) + 1] = ETX

\* A faulty parseHeader() that takes the data length for the telegram number.
ParseNextNumber(frame) ==
  [no |-> DataLength(frame), values |-> <<UInt(SubSeq(frame, 13, 14))>>]

\* autoParse()
Parse(frame) ==
  LET sizes == Definitions[TelegramNo(frame)]
  IN  [no |-> TelegramNo(frame), values |-> [i \in DOMAIN sizes |-> Field(frame, sizes, i)]]

-----------------------------------------------------------------------------
\* TelegramValidator.quickValidate()
QuickValidate(frame) ==
  /\ Len(frame) >= MIN_TELEGRAM_SIZE
  /\ frame[1] = STX
  /\ HEADER_SIZE + DataLength(frame) < Len(frame)
  /\ frame[HEADER_SIZE + DataLength(frame) + 1] = ETX

\* TelegramValidator.validate() finds no error: the data length has to be that of
\* the definition, and then no field exceeds it.
Validate(frame) ==
  /\ QuickValidate(frame)
  /\ TelegramNo(frame) \in DOMAIN Definitions
  /\ DataLength(frame) = DataSize[TelegramNo(frame)]
=============================================================================
