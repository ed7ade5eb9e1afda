--------------------------- MODULE BinarySerializer ---------------------------
(***************************************************************************)
(* The binary serializer of packages/protocol (src/serialization/index.ts) *)
(* for records of fields of eight types.  A number is an integer, text a   *)
(* sequence of character codes, and hexadecimal text a sequence of digits. *)
(* A record is the sequence of its fields' values.                         *)
(***************************************************************************)
EXTENDS TelegramLayout

NumberTypes == {"uint8", "uint16be", "uint32be", "int16be", "int32be"}
FieldTypes == NumberTypes \cup {"ascii", "hex", "bcd"}

SPACE == 32

\* padStart(), padEnd(), and substring(0, length)
Padding(text, length, with) == [i \in 1 .. Max({0, length - Len(text)}) |-> with]
PadStart(text, length, with) == Padding(text, length, with) \o text
PadEnd(text, length, with) == text \o Padding(text, length, with)
Leading(text, length) == SubSeq(text, 1, length)

\* The n lowest digits of a number, and all of them.
Digits(value, base, n) == [i \in 1 .. n |-> (value \div base ^ (n - i)) % base]
Decimal(value) ==
  Digits(value, 10, CHOOSE n \in 1 .. 9 : value < 10 ^ n /\ (n > 1 => value >= 10 ^ (n - 1)))

\* Two digits to a byte, and back
Packed(digits, length) == [i \in 1 .. length |-> 16 * digits[2 * i - 1] + digits[2 * i]]
Unpacked(bytes) == FlattenSeq([i \in DOMAIN bytes |-> Digits(bytes[i], 16, 2)])

Signed(bytes) ==
  UInt([bytes EXCEPT ![1] = IF @ >= 128 THEN @ - 256 ELSE @])

\* trim()
Trimmed(text) ==
  LET written == {i \in DOMAIN text : text[i] # SPACE}
  IN  IF written = {} THEN <<>> ELSE SubSeq(text, Min(written), Max(written))

-----------------------------------------------------------------------------
\* getTotalSize()
GetTotalSize(fields) == Sum([i \in DOMAIN fields |-> fields[i].length])

\* writeField().  A number is in two's complement if it is negative; text too long
\* is cut to its start, a decimal number too large to its leading digits.
WriteField(field, value) ==
  CASE field.type \in NumberTypes -> BigEndian(value, field.length)
    [] field.type = "ascii" -> Leading(PadEnd(value, field.length, SPACE), field.length)
    [] field.type = "hex" -> Packed(PadStart(value, 2 * field.length, 0), field.length)
    [] field.type = "bcd" -> Packed(PadStart(Decimal(value), 2 * field.length, 0), field.length)

\* What is no decimal digit is written with two.
AppendDecimal(high, digit) == IF digit > 9 THEN 100 * high + digit ELSE 10 * high + digit

\* readField()
ReadField(field, bytes) ==
  CASE field.type \in {"int16be", "int32be"} -> Signed(bytes)
    [] field.type \in NumberTypes -> UInt(bytes)
    [] field.type = "ascii" -> Trimmed(bytes)
    [] field.type = "hex" -> Unpacked(bytes)
    [] field.type = "bcd" -> FoldLeft(AppendDecimal, 0, Unpacked(bytes))

\* serialize(): the fields' values one after the other
Serialize(fields, values) ==
  FlattenSeq([i \in DOMAIN fields |-> WriteField(fields[i], values[i])])

\* deserialize()
Deserialize(fields, buffer) ==
  [i \in DOMAIN fields |->
     LET from == GetTotalSize(Leading(fields, i - 1))
     IN  ReadField(fields[i], SubSeq(buffer, from + 1, from + fields[i].length))]
=============================================================================
