-------------------------- MODULE MCTelegramStream --------------------------
\* TelegramStream for TLC.
EXTENDS TelegramStream, BinarySerializer

\* A status whose bytes are STX and ETX, a command, and an unknown telegram, each
\* with a data length that has the value of STX.
MCTelegrams == { [no |-> 10, values |-> <<515>>], [no |-> 100, values |-> <<1>>],
                 [no |-> 99, values |-> <<2>>] }

MCNoise == {<<>>, <<ETX>>}

CONSTANTS c1, c2
MCMaxBytes == c1 :> 46 @@ c2 :> 16

\* The frames sent, with every data length up to two bytes off, and cut short.
MCFrames ==
  { SubSeq([Frame[t] EXCEPT ![12] = @ + off], 1, n) :
      t \in Telegrams, off \in -2 .. 2, n \in 1 .. 15 }

\* The validator and the parser agree: what the one accepts the other parses, and
\* what the builder builds of known telegrams both take
\* (validator.ts:22, parser.ts:15, builder.ts:27).
ASSUME ValidatorAgrees ==
  /\ \A frame \in MCFrames : Validate(frame) => Parses(frame) /\ QuickValidate(frame)
  /\ \A t \in Telegrams : Validate(Frame[t]) <=> t.no \in DOMAIN Definitions

\* A record of five fields, with numbers at their limits, and text that fits.
MCFields ==
  << [type |-> "int16be", length |-> 2], [type |-> "ascii", length |-> 3],
     [type |-> "hex", length |-> 1], [type |-> "bcd", length |-> 2], [type |-> "uint8", length |-> 1] >>
MCRecords ==
  { <<number, text, <<10, 15>>, decimal, byte>> :
      number \in {-32768, -1, 0, 32767}, text \in {<<>>, <<65>>, <<65, SPACE, 66>>},
      decimal \in {0, 9, 10, 9999}, byte \in {0, 255} }

\* What is serialized reads the same again, field by field, if it fits; of a
\* decimal number too large its last digits are lost (serialization/index.ts:39, 94).
ASSUME SerializerRoundTrips ==
  /\ \A values \in MCRecords :
       LET buffer == Serialize(MCFields, values) IN
       Len(buffer) = GetTotalSize(MCFields) /\ Deserialize(MCFields, buffer) = values
  /\ LET bcd == [type |-> "bcd", length |-> 2]
     IN  ReadField(bcd, WriteField(bcd, 12345)) = 1234
=============================================================================
