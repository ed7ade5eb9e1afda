------------------------ MODULE TelegramStreamProofs ------------------------
(***************************************************************************)
(* Theorems of TelegramStream: whatever TCP does to the borders of what is *)
(* written, the receiving loop hands over every telegram once, whole and   *)
(* in order.                                                               *)
(***************************************************************************)
EXTENDS TelegramStream, TLAPS, NaturalsInduction, WellFoundedInduction, FiniteSetTheorems,
        SequenceTheorems

(***************************************************************************)
(* Induction over sets of numbers, and functions defined by recursion      *)
(***************************************************************************)

LEMMA LeastNatural ==
  ASSUME NEW S \in SUBSET Nat, S # {}
  PROVE  \E m \in S : \A x \in S : m <= x
<1>1. PICK m \in S : \A y \in S : ~ (<<y, m>> \in OpToRel(<, Nat))
  BY NatLessThanWellFounded, WFMin, Zenon
<1>2. \A y \in S : ~ (y < m)
  BY <1>1, Zenon DEF OpToRel
<1> QED BY <1>2

LEMMA SetInduction ==
  ASSUME NEW S, 0 \in S, \A n \in Nat : n \in S => n + 1 \in S
  PROVE  Nat \subseteq S
<1> SUFFICES ASSUME NEW n0 \in Nat, n0 \notin S PROVE FALSE
  OBVIOUS
<1> DEFINE T == {n \in Nat : n \notin S}
<1>1. T \in SUBSET Nat /\ T # {}
  OBVIOUS
<1>2. PICK m \in T : \A x \in T : m <= x
  BY <1>1, LeastNatural
<1>3. m # 0 /\ m - 1 \in Nat
  BY <1>2
<1>4. m - 1 \in S
  BY <1>2, <1>3
<1> QED BY <1>2, <1>3, <1>4

\* The values of a sequence of steps stay where the steps stay.
LEMMA Stays ==
  ASSUME NEW n \in Nat, NEW f, NEW S, f[0] \in S,
         \A i \in 1 .. n : f[i - 1] \in S => f[i] \in S
  PROVE  \A i \in 0 .. n : f[i] \in S
<1> DEFINE In == {k \in Nat : k <= n => f[k] \in S}
<1>1. 0 \in In
  OBVIOUS
<1>2. ASSUME NEW k \in Nat, k \in In PROVE k + 1 \in In
  <2> SUFFICES ASSUME k + 1 <= n PROVE f[k + 1] \in S
    OBVIOUS
  <2>1. f[k] \in S /\ k + 1 \in 1 .. n
    BY <1>2
  <2> QED BY <2>1
<1>3. Nat \subseteq In
  <2> HIDE DEF In
  <2> QED BY <1>1, <1>2, SetInduction
<1> QED BY <1>3

\* A function on 0 .. n that is defined from each value for the next exists.
StepsOn(S, n) == [1 .. n -> [S -> S]]

\* The runs of such steps
Runs(S, base, n, g) ==
  {f \in [0 .. n -> S] : f[0] = base /\ \A i \in 1 .. n : f[i] = g[i][f[i - 1]]}

LEMMA Recursion ==
  ASSUME NEW S, NEW base \in S, NEW n \in Nat, NEW g \in StepsOn(S, n)
  PROVE  \E f : f \in Runs(S, base, n, g)
<1> USE DEF StepsOn
<1> DEFINE A(k) == {f \in [0 .. k -> S] :
                      f[0] = base /\ \A i \in 1 .. k : f[i] = g[i][f[i - 1]]}
           Good == {k \in Nat : k <= n => A(k) # {}}
<1>1. 0 \in Good
  <2>1. [i \in 0 .. 0 |-> base] \in A(0)
    OBVIOUS
  <2> QED BY <2>1
<1>2. ASSUME NEW k \in Nat, k \in Good PROVE k + 1 \in Good
  <2> SUFFICES ASSUME k + 1 <= n PROVE A(k + 1) # {}
    OBVIOUS
  <2>1. PICK f \in A(k) : TRUE
    BY <1>2
  <2> DEFINE h == [i \in 0 .. k + 1 |-> IF i = k + 1 THEN g[k + 1][f[k]] ELSE f[i]]
  <2>2. f[k] \in S /\ k + 1 \in 1 .. n
    BY <2>1
  <2>3. g[k + 1][f[k]] \in S
    BY <2>2
  <2>4. h \in [0 .. k + 1 -> S]
    BY <2>1, <2>3
  <2>5. h[0] = base /\ \A i \in 0 .. k : h[i] = f[i]
    BY <2>1
  <2>6. h[k + 1] = g[k + 1][h[k]]
    <3>1. k + 1 \in 0 .. k + 1 /\ k \in 0 .. k
      OBVIOUS
    <3>2. h[k + 1] = g[k + 1][f[k]]
      BY <3>1
    <3> QED BY <2>5, <3>1, <3>2
  <2>7. ASSUME NEW i \in 1 .. k + 1 PROVE h[i] = g[i][h[i - 1]]
    <3>1. CASE i = k + 1
      BY <3>1, <2>6
    <3>2. CASE i \in 1 .. k
      <4>1. h[i] = f[i] /\ h[i - 1] = f[i - 1]
        BY <3>2, <2>5
      <4> QED BY <4>1, <3>2, <2>1
    <3> QED BY <3>1, <3>2
  <2> HIDE DEF h
  <2> QED BY <2>4, <2>5, <2>7
<1>3. Nat \subseteq Good
  <2> HIDE DEF Good
  <2> QED BY <1>1, <1>2, SetInduction
<1> QED BY <1>3 DEF Runs

-----------------------------------------------------------------------------
LEMMA Concat ==
  ASSUME NEW S, NEW s \in Seq(S), NEW t \in Seq(S)
  PROVE  /\ s \o t \in Seq(S) /\ Len(s) \in Nat /\ Len(t) \in Nat
         /\ Len(s \o t) = Len(s) + Len(t)
         /\ \A k \in 1 .. Len(s) : (s \o t)[k] = s[k]
         /\ \A k \in 1 .. Len(t) : (s \o t)[Len(s) + k] = t[k]
OBVIOUS

(***************************************************************************)
(* The bytes of a telegram                                                 *)
(***************************************************************************)

Widths == {1, 2, 4}

\* What is written reads the same again.
LEMMA RoundTrip ==
  ASSUME NEW value \in Nat, NEW size \in Widths, Fits(value, size)
  PROVE  /\ BigEndian(value, size) \in Seq(Byte)
         /\ Len(BigEndian(value, size)) = size
         /\ \A bytes \in Seq(Byte) :
              Len(bytes) = size /\ (\A k \in 1 .. size : bytes[k] = BigEndian(value, size)[k])
                => UInt(bytes) = value
<1>1. CASE size = 1
  BY <1>1, SMT DEF Fits, BigEndian, UInt, Byte
<1>2. CASE size = 2
  <2>1. /\ BigEndian(value, size) = <<value \div 256, value % 256>>
        /\ value \div 256 \in 0 .. 255
    BY <1>2, SMT DEF Fits, BigEndian
  <2>2. value = 256 * (value \div 256) + (value % 256) /\ value % 256 \in 0 .. 255
    BY SMT
  <2>3. ASSUME NEW bytes \in Seq(Byte), Len(bytes) = size,
               \A k \in 1 .. size : bytes[k] = BigEndian(value, size)[k]
        PROVE  UInt(bytes) = value
    <3>1. bytes[1] = value \div 256 /\ bytes[2] = value % 256
      BY <1>2, <2>1, <2>3, SMT
    <3>2. UInt(bytes) = 256 * bytes[1] + bytes[2]
      BY <1>2, <2>3, SMT DEF UInt
    <3> QED BY <2>2, <3>1, <3>2, SMT
  <2>4. BigEndian(value, size) \in Seq(Byte) /\ Len(BigEndian(value, size)) = 2
    BY <2>1, <2>2, SMT DEF Byte
  <2> QED BY <1>2, <2>3, <2>4
<1>3. CASE size = 4
  <2> DEFINE a == value \div 256
             b == value \div 65536
             c == value \div 16777216
  <2>1. /\ BigEndian(value, size) = <<c, b % 256, a % 256, value % 256>>
        /\ c \in 0 .. 255
    BY <1>3, SMT DEF Fits, BigEndian
  <2>2. /\ a \in Nat /\ b \in Nat /\ c \in Nat
        /\ value = 256 * a + (value % 256) /\ value % 256 \in 0 .. 255
        /\ a = 256 * b + (a % 256) /\ a % 256 \in 0 .. 255
        /\ b = 256 * c + (b % 256) /\ b % 256 \in 0 .. 255
    BY SMT
  <2> HIDE DEF a, b, c
  <2>3. ASSUME NEW bytes \in Seq(Byte), Len(bytes) = size,
               \A k \in 1 .. size : bytes[k] = BigEndian(value, size)[k]
        PROVE  UInt(bytes) = value
    <3>1. bytes[1] = c /\ bytes[2] = b % 256 /\ bytes[3] = a % 256 /\ bytes[4] = value % 256
      BY <1>3, <2>1, <2>3, SMT
    <3>2. UInt(bytes) = 16777216 * bytes[1] + 65536 * bytes[2] + 256 * bytes[3] + bytes[4]
      BY <1>3, <2>3, SMT DEF UInt
    <3> DEFINE r == value % 256
               s == a % 256
               t == b % 256
    <3>3. /\ r \in Nat /\ s \in Nat /\ t \in Nat
          /\ value = 256 * a + r /\ a = 256 * b + s /\ b = 256 * c + t
      BY <2>2, SMT
    <3>4. UInt(bytes) = 16777216 * c + 65536 * t + 256 * s + r
      BY <3>1, <3>2, SMT
    <3> HIDE DEF r, s, t
    <3> QED BY <2>2, <3>3, <3>4, SMT
  <2>4. BigEndian(value, size) \in Seq(Byte) /\ Len(BigEndian(value, size)) = 4
    BY <2>1, <2>2, SMT DEF Byte
  <2> QED BY <1>3, <2>3, <2>4
<1> QED BY <1>1, <1>2, <1>3 DEF Widths

LEMMA KnownSizes ==
  \A no \in DOMAIN Definitions :
    Definitions[no] \in Seq(Widths) /\ Len(Definitions[no]) <= 13
<1> DEFINE Good(sizes) == sizes \in Seq(Widths) /\ Len(sizes) <= 13
<1>1. \A no \in DOMAIN STATUS_TELEGRAMS : Good(STATUS_TELEGRAMS[no])
  <2>1. Good(<<2, 2>>) /\ Good(<<2>>) /\ Good(<<2, 2, 2>>)
    BY DEF Widths
  <2> HIDE DEF Good
  <2> QED BY <2>1 DEF STATUS_TELEGRAMS
<1>2. \A no \in DOMAIN PARCEL_TELEGRAMS : Good(PARCEL_TELEGRAMS[no])
  <2>1. /\ Good(<<2, 2, 2, 4, 2, 2, 2, 2, 2, 2, 2, 2, 2>>)
        /\ Good(<<2>>) /\ Good(<<2, 2, 2, 2, 2>>)
    BY DEF Widths
  <2> HIDE DEF Good
  <2> QED BY <2>1 DEF PARCEL_TELEGRAMS
<1>3. \A no \in DOMAIN REPLY_TELEGRAMS : Good(REPLY_TELEGRAMS[no])
  <2>1. /\ Good(<<2, 4, 2, 2, 2, 2, 2, 2, 2, 2>>)
        /\ Good(<<2, 2, 2, 2, 2, 2, 2, 2, 2, 2>>)
        /\ Good(<<2>>) /\ Good(<<2, 2>>)
    BY DEF Widths
  <2> HIDE DEF Good
  <2> QED BY <2>1 DEF REPLY_TELEGRAMS
<1>4. \A no \in DOMAIN COMMAND_TELEGRAMS : Good(COMMAND_TELEGRAMS[no])
  <2>1. Good(<<2, 2, 2>>) /\ Good(<<2, 2>>) /\ Good(<<2, 2, 2, 2>>) /\ Good(<<2>>)
    BY DEF Widths
  <2> HIDE DEF Good
  <2> QED BY <2>1 DEF COMMAND_TELEGRAMS
<1> HIDE DEF Good
<1>5. \A f, g : (\A no \in DOMAIN f : Good(f[no])) /\ (\A no \in DOMAIN g : Good(g[no]))
        => \A no \in DOMAIN Joined(f, g) : Good(Joined(f, g)[no])
  BY DEF Joined
<1>6. \A no \in DOMAIN PLC_TO_SMC : Good(PLC_TO_SMC[no])
  BY <1>1, <1>2, <1>5 DEF PLC_TO_SMC
<1>7. \A no \in DOMAIN SMC_TO_PLC : Good(SMC_TO_PLC[no])
  BY <1>3, <1>4, <1>5 DEF SMC_TO_PLC
<1>8. \A no \in DOMAIN Definitions : Good(Definitions[no])
  BY <1>5, <1>6, <1>7 DEF Definitions
<1> QED BY <1>8 DEF Good

LEMMA OffsetFacts ==
  ASSUME NEW sizes \in Seq(Widths)
  PROVE  /\ Offset(sizes) \in [0 .. Len(sizes) -> Nat]
         /\ Offset(sizes)[0] = 0
         /\ \A i \in 1 .. Len(sizes) : Offset(sizes)[i] = Offset(sizes)[i - 1] + sizes[i]
<1> DEFINE n == Len(sizes)
           g == [i \in 1 .. n |-> [x \in Nat |-> x + sizes[i]]]
           Unfolds(f) == f = [i \in 0 .. n |-> IF i = 0 THEN 0 ELSE f[i - 1] + sizes[i]]
<1>1. n \in Nat /\ \A i \in 1 .. n : sizes[i] \in Nat
  BY DEF Widths
<1>2. g \in [1 .. n -> [Nat -> Nat]]
  BY <1>1
<1>3. \A i \in 1 .. n, x \in Nat : g[i][x] = x + sizes[i]
  OBVIOUS
<1> HIDE DEF g
<1>4. PICK f : f \in Runs(Nat, 0, n, g)
  <2>1. 0 \in Nat /\ n \in Nat /\ g \in StepsOn(Nat, n)
    BY <1>1, <1>2 DEF StepsOn
  <2> HIDE DEF n
  <2> QED BY <2>1, Recursion
<1>5. \A i \in 1 .. n : f[i - 1] \in Nat /\ f[i] = f[i - 1] + sizes[i]
  <2>1. /\ f \in [0 .. n -> Nat] /\ f[0] = 0
        /\ \A i \in 1 .. n : f[i] = g[i][f[i - 1]]
    BY <1>4 DEF Runs
  <2>2. ASSUME NEW i \in 1 .. n PROVE f[i - 1] \in Nat
    <3>1. i - 1 \in 0 .. n
      BY <1>1
    <3>2. f \in [0 .. n -> Nat]
      BY <2>1
    <3> QED BY <3>1, <3>2
  <2> QED BY <1>3, <2>1, <2>2
<1>6. Unfolds(f)
  BY <1>1, <1>4, <1>5 DEF Runs
<1>7. Unfolds(Offset(sizes))
  BY <1>6, Zenon DEF Offset
<1>8. \A i \in 0 .. n :
        Offset(sizes)[i] = IF i = 0 THEN 0 ELSE Offset(sizes)[i - 1] + sizes[i]
  BY <1>7, Zenon
<1>9. Offset(sizes)[0] = 0
  <2>1. 0 \in 0 .. n
    BY <1>1
  <2> QED BY <1>8, <2>1
<1>10. \A i \in 1 .. n : Offset(sizes)[i] = Offset(sizes)[i - 1] + sizes[i]
  BY <1>1, <1>8
<1>11. \A i \in 0 .. n : Offset(sizes)[i] \in Nat
  <2>1. \A i \in 1 .. n : Offset(sizes)[i - 1] \in Nat => Offset(sizes)[i] \in Nat
    BY <1>1, <1>10
  <2>2. Offset(sizes)[0] \in Nat
    BY <1>9
  <2> HIDE DEF n
  <2> QED BY <1>1, <2>1, <2>2, Stays, Zenon
<1>12. Offset(sizes) = [i \in 0 .. n |-> Offset(sizes)[i]]
  BY <1>7, Zenon
<1>13. Offset(sizes) \in [0 .. n -> Nat]
  BY <1>11, <1>12, Zenon
<1> QED BY <1>9, <1>10, <1>13

LEMMA SumBound ==
  ASSUME NEW sizes \in Seq(Widths)
  PROVE  Sum(sizes) \in Nat /\ Sum(sizes) <= 4 * Len(sizes)
<1> DEFINE n == Len(sizes)
           o == Offset(sizes)
           Good == {i \in Nat : i <= n => o[i] <= 4 * i}
<1>1. n \in Nat /\ (\A i \in 1 .. n : sizes[i] \in Nat /\ sizes[i] <= 4)
  BY DEF Widths
<1>2. /\ o \in [0 .. n -> Nat] /\ o[0] = 0
      /\ \A i \in 1 .. n : o[i] = o[i - 1] + sizes[i]
  BY OffsetFacts
<1> HIDE DEF n, o
<1>3. 0 \in Good
  BY <1>2
<1>4. ASSUME NEW i \in Nat, i \in Good PROVE i + 1 \in Good
  <2> SUFFICES ASSUME i + 1 <= n PROVE o[i + 1] <= 4 * (i + 1)
    OBVIOUS
  <2>1. o[i] \in Nat /\ o[i] <= 4 * i /\ i + 1 \in 1 .. n
    BY <1>1, <1>2, <1>4
  <2>2. o[i + 1] = o[i] + sizes[i + 1]
    BY <1>2, <2>1
  <2> QED BY <1>1, <2>1, <2>2
<1>5. Nat \subseteq Good
  <2> HIDE DEF Good
  <2> QED BY <1>3, <1>4, SetInduction
<1>6. o[n] \in Nat /\ o[n] <= 4 * n
  BY <1>1, <1>2, <1>5
<1> QED BY <1>6 DEF Sum, o, n

\* Values that fit their fields
Fitting(sizes) ==
  {values \in Seq(Nat) :
     Len(values) = Len(sizes) /\ \A i \in 1 .. Len(sizes) : Fits(values[i], sizes[i])}

LEMMA WrittenSteps ==
  ASSUME NEW sizes \in Seq(Widths), NEW values \in Fitting(sizes)
  PROVE  /\ Written(sizes, values)[0] = <<>>
         /\ \A i \in 1 .. Len(sizes) :
              Written(sizes, values)[i]
                = Written(sizes, values)[i - 1] \o BigEndian(values[i], sizes[i])
<1> DEFINE n == Len(sizes)
           S == Seq(Byte)
           bytes(i) == BigEndian(values[i], sizes[i])
           g == [i \in 1 .. n |-> [w \in S |-> w \o bytes(i)]]
           Unfolds(f) == f = [i \in 0 .. n |-> IF i = 0 THEN <<>> ELSE f[i - 1] \o bytes(i)]
<1>1. n \in Nat /\ \A i \in 1 .. n : bytes(i) \in S
  <2>1. \A i \in 1 .. n : values[i] \in Nat /\ sizes[i] \in Widths /\ Fits(values[i], sizes[i])
    BY DEF Fitting
  <2>2. n \in Nat
    OBVIOUS
  <2> QED BY <2>1, <2>2, RoundTrip
<1> HIDE DEF bytes
<1>2. \A i \in 1 .. n, w \in S : w \o bytes(i) \in S
  BY <1>1
<1>3. <<>> \in S
  OBVIOUS
<1> HIDE DEF S
<1>4. g \in StepsOn(S, n) /\ \A i \in 1 .. n, w \in S : g[i][w] = w \o bytes(i)
  BY <1>2 DEF StepsOn
<1> HIDE DEF g
<1>5. PICK f : f \in Runs(S, <<>>, n, g)
  <2> HIDE DEF n
  <2> QED BY <1>1, <1>3, <1>4, Recursion
<1>6. /\ f \in [0 .. n -> S] /\ f[0] = <<>>
      /\ \A i \in 1 .. n : f[i] = g[i][f[i - 1]]
  BY <1>5 DEF Runs
<1>7. \A i \in 1 .. n : f[i - 1] \in S
  BY <1>1, <1>6
<1>8. \A i \in 1 .. n : f[i] = f[i - 1] \o bytes(i)
  BY <1>4, <1>6, <1>7
<1>9. Unfolds(f)
  BY <1>1, <1>6, <1>8
<1>10. Unfolds(Written(sizes, values))
  BY <1>9, Zenon DEF Written, bytes
<1>11. \A i \in 0 .. n : Written(sizes, values)[i]
         = IF i = 0 THEN <<>> ELSE Written(sizes, values)[i - 1] \o bytes(i)
  BY <1>10, Zenon
<1>12. 0 \in 0 .. n /\ \A i \in 1 .. n : i \in 0 .. n /\ i # 0
  BY <1>1
<1> QED BY <1>11, <1>12, Zenon DEF bytes

\* What is written of field j lies where field j lies.
LEMMA WrittenFacts ==
  ASSUME NEW sizes \in Seq(Widths), NEW values \in Fitting(sizes)
  PROVE  LET w == Written(sizes, values)[Len(sizes)] IN
         /\ w \in Seq(Byte)
         /\ Len(w) = Sum(sizes)
         /\ \A j \in 1 .. Len(sizes) :
              /\ Offset(sizes)[j - 1] \in Nat
              /\ Offset(sizes)[j] = Offset(sizes)[j - 1] + sizes[j]
              /\ Offset(sizes)[j] <= Sum(sizes)
              /\ \A k \in 1 .. sizes[j] :
                   w[Offset(sizes)[j - 1] + k] = BigEndian(values[j], sizes[j])[k]
<1> DEFINE n == Len(sizes)
           o == Offset(sizes)
           w == Written(sizes, values)
           bytes(i) == BigEndian(values[i], sizes[i])
           Spelled(i, j) ==
             /\ o[j] <= o[i]
             /\ \A k \in 1 .. sizes[j] : w[i][o[j - 1] + k] = bytes(j)[k]
           Good == {i \in Nat : i <= n => /\ w[i] \in Seq(Byte) /\ Len(w[i]) = o[i]
                                          /\ \A j \in 1 .. i : Spelled(i, j)}
<1>1. n \in Nat /\ \A i \in 1 .. n : sizes[i] \in Nat /\ bytes(i) \in Seq(Byte) /\ Len(bytes(i)) = sizes[i]
  <2>1. \A i \in 1 .. n : values[i] \in Nat /\ sizes[i] \in Widths /\ Fits(values[i], sizes[i])
    BY DEF Fitting
  <2>2. n \in Nat /\ Widths \subseteq Nat
    BY DEF Widths
  <2> QED BY <2>1, <2>2, RoundTrip
<1>2. /\ o \in [0 .. n -> Nat] /\ o[0] = 0
      /\ \A i \in 1 .. n : o[i] = o[i - 1] + sizes[i]
  BY OffsetFacts
<1>3. w[0] = <<>> /\ \A i \in 1 .. n : w[i] = w[i - 1] \o bytes(i)
  BY WrittenSteps
<1> HIDE DEF n, o, w, bytes
<1>4. 0 \in Good
  <2>1. w[0] \in Seq(Byte) /\ Len(w[0]) = 0
    BY <1>3
  <2>2. \A j \in 1 .. 0 : Spelled(0, j)
    OBVIOUS
  <2> QED BY <1>2, <2>1, <2>2
<1>5. ASSUME NEW i \in Nat, i \in Good PROVE i + 1 \in Good
  <2> SUFFICES ASSUME i + 1 <= n
               PROVE  /\ w[i + 1] \in Seq(Byte) /\ Len(w[i + 1]) = o[i + 1]
                      /\ \A j \in 1 .. i + 1 : Spelled(i + 1, j)
    OBVIOUS
  <2>1. PICK m \in 1 .. n : m = i + 1
    BY <1>1
  <2>2. i <= n
    BY <1>1
  <2>3. /\ w[i] \in Seq(Byte) /\ Len(w[i]) = o[i]
        /\ \A j \in 1 .. i : Spelled(i, j)
    BY <1>5, <2>2, Zenon
  <2>4. o[i] \in Nat
    BY <1>1, <1>2, <2>2
  <2>5. PICK p \in Seq(Byte) : p = w[i]
    BY <2>3, Zenon
  <2>6. PICK b \in Seq(Byte) : b = bytes(m)
    BY <1>1
  <2>7. Len(b) = sizes[m] /\ sizes[m] \in Nat
    BY <1>1, <2>6
  <2>8. m - 1 = i
    BY <2>1
  <2>9. w[m] = p \o b /\ o[m] = o[i] + sizes[m]
    BY <1>2, <1>3, <2>5, <2>6, <2>8
  <2>10. /\ p \o b \in Seq(Byte) /\ Len(p \o b) = Len(p) + Len(b)
         /\ \A k \in 1 .. Len(p) : (p \o b)[k] = p[k]
         /\ \A k \in 1 .. Len(b) : (p \o b)[Len(p) + k] = b[k]
    BY Concat
  <2>11. /\ w[m] \in Seq(Byte) /\ Len(w[m]) = o[m]
         /\ \A k \in 1 .. o[i] : w[m][k] = w[i][k]
         /\ \A k \in 1 .. sizes[m] : w[m][o[i] + k] = bytes(m)[k]
    BY <2>5, <2>3, <2>4, <2>6, <2>7, <2>9, <2>10, Zenon
  <2>12. ASSUME NEW j \in 1 .. m PROVE Spelled(m, j)
    <3>1. CASE j = m
      <4>1. o[j] <= o[m]
        BY <2>3, <2>4, <2>7, <2>9, <3>1
      <4>2. o[j - 1] = o[i]
        BY <2>8, <3>1
      <4>3. \A k \in 1 .. sizes[j] : w[m][o[j - 1] + k] = bytes(j)[k]
        BY <2>11, <3>1, <4>2
      <4> QED BY <4>1, <4>3
    <3>2. CASE j \in 1 .. i
      <4>1. /\ o[j] <= o[i]
            /\ \A k \in 1 .. sizes[j] : w[i][o[j - 1] + k] = bytes(j)[k]
        BY <2>3, <3>2, Zenon
      <4>2. o[j] <= o[i]
        BY <4>1
      <4>3. j \in 1 .. n
        BY <1>1, <2>2, <3>2
      <4>4. o[j - 1] \in Nat /\ o[j] = o[j - 1] + sizes[j] /\ sizes[j] \in Nat
        BY <1>1, <1>2, <4>3
      <4>5. ASSUME NEW k \in 1 .. sizes[j] PROVE o[j - 1] + k \in 1 .. o[i]
        <5> DEFINE y == o[j - 1]
                   z == o[i]
        <5>1. y + sizes[j] <= z /\ y \in Nat /\ z \in Nat /\ sizes[j] \in Nat
          BY <2>4, <4>2, <4>4, Zenon
        <5> HIDE DEF y, z
        <5>2. y + k \in 1 .. z
          BY <5>1
        <5> QED BY <5>2 DEF y, z
      <4>6. \A k \in 1 .. sizes[j] : w[m][o[j - 1] + k] = bytes(j)[k]
        BY <2>11, <4>1, <4>5, Zenon
      <4>7. o[j] <= o[m]
        <5>1. o[i] <= o[m] /\ o[m] \in Nat
          BY <2>4, <2>7, <2>9
        <5>2. o[j] \in Nat
          BY <4>4
        <5> QED BY <2>4, <4>2, <5>1, <5>2
      <4> QED BY <4>6, <4>7
    <3> QED BY <2>8, <3>1, <3>2
  <2> QED BY <2>1, <2>11, <2>12, Zenon
<1>6. Nat \subseteq Good
  <2> HIDE DEF Good
  <2> QED BY <1>4, <1>5, SetInduction
<1>7. n \in Good
  BY <1>1, <1>6
<1>8. /\ w[n] \in Seq(Byte) /\ Len(w[n]) = o[n]
      /\ \A j \in 1 .. n : Spelled(n, j)
  BY <1>1, <1>7
<1>9. \A j \in 1 .. n : o[j - 1] \in Nat /\ o[j] = o[j - 1] + sizes[j]
  BY <1>1, <1>2
<1> QED BY <1>8, <1>9 DEF Sum, n, o, w, bytes

LEMMA TwoBytes ==
  ASSUME NEW n \in Word
  PROVE  /\ BigEndian(n, 2) \in Seq(Byte) /\ Len(BigEndian(n, 2)) = 2
         /\ \A bytes \in Seq(Byte) :
              Len(bytes) = 2 /\ (\A k \in 1 .. 2 : bytes[k] = BigEndian(n, 2)[k])
                => UInt(bytes) = n
<1>1. PICK size \in Widths : size = 2
  BY DEF Widths
<1>2. BigEndian(n, size) = <<n \div 256, n % 256>>
  BY <1>1, SMT DEF BigEndian
<1>3. n \div 256 \in 0 .. 255 /\ n % 256 \in 0 .. 255
  <2>1. n \in Nat /\ n <= 65535
    BY SMT DEF Word
  <2> QED BY <2>1, SMT
<1>4. \A i \in 1 .. size : BigEndian(n, size)[i] \in 0 .. 255
  <2>1. BigEndian(n, size)[1] \in 0 .. 255 /\ BigEndian(n, size)[2] \in 0 .. 255
    BY <1>2, <1>3, SMT
  <2>2. \A i \in 1 .. size : i = 1 \/ i = 2
    BY <1>1
  <2> QED BY <2>1, <2>2, SMT
<1>5. n \in Nat /\ Fits(n, size)
  BY <1>4, SMT DEF Fits, Word
<1> HIDE DEF Widths
<1>6. /\ BigEndian(n, size) \in Seq(Byte) /\ Len(BigEndian(n, size)) = size
      /\ \A bytes \in Seq(Byte) :
           Len(bytes) = size /\ (\A k \in 1 .. size : bytes[k] = BigEndian(n, size)[k])
             => UInt(bytes) = n
  BY <1>5, RoundTrip, SMT
<1> QED BY <1>1, <1>6, Zenon

\* f is s followed by t.
Joint(f, s, t) ==
  /\ f \in Seq(Byte)
  /\ Len(f) = Len(s) + Len(t)
  /\ \A k \in 1 .. Len(s) : f[k] = s[k]
  /\ \A k \in 1 .. Len(t) : f[Len(s) + k] = t[k]

LEMMA JointConcat ==
  ASSUME NEW s \in Seq(Byte), NEW t \in Seq(Byte)
  PROVE  Joint(s \o t, s, t)
BY Concat DEF Joint

\* Where the parts of a frame lie.
Framed(f, head, number, length, data, last) ==
  /\ f \in Seq(Byte) /\ Len(f) = 13 + Len(data)
  /\ f[1] = head[1] /\ f[13 + Len(data)] = last[1]
  /\ \A k \in 1 .. 2 : f[8 + k] = number[k] /\ f[10 + k] = length[k]
  /\ \A k \in 1 .. Len(data) : f[12 + k] = data[k]

LEMMA Framing ==
  ASSUME NEW head \in Seq(Byte), NEW number \in Seq(Byte), NEW length \in Seq(Byte),
         NEW data \in Seq(Byte), NEW last \in Seq(Byte),
         Len(head) = 8, Len(number) = 2, Len(length) = 2, Len(last) = 1
  PROVE  Framed(head \o number \o length \o data \o last, head, number, length, data, last)
<1> DEFINE a == head \o number
           b == a \o length
           c == b \o data
           f == c \o last
           size == Len(data)
<1>1. Joint(a, head, number)
  BY JointConcat, Zenon
<1> HIDE DEF a
<1>2. /\ a \in Seq(Byte) /\ Len(a) = 10 /\ a[1] = head[1]
      /\ \A k \in 1 .. 2 : a[8 + k] = number[k]
  BY <1>1 DEF Joint
<1>3. Joint(b, a, length)
  BY <1>2, JointConcat, Zenon
<1> HIDE DEF b
<1>4. /\ b \in Seq(Byte) /\ Len(b) = 12 /\ b[1] = head[1]
      /\ \A k \in 1 .. 2 : b[8 + k] = number[k] /\ b[10 + k] = length[k]
  BY <1>2, <1>3 DEF Joint
<1>5. Joint(c, b, data)
  BY <1>4, JointConcat, Zenon
<1> HIDE DEF c
<1>6. /\ c \in Seq(Byte) /\ Len(c) = 12 + size /\ c[1] = head[1]
      /\ \A k \in 1 .. 2 : c[8 + k] = number[k] /\ c[10 + k] = length[k]
      /\ \A k \in 1 .. size : c[12 + k] = data[k]
  <2>1. c \in Seq(Byte) /\ Len(c) = 12 + size /\ \A k \in 1 .. size : c[12 + k] = data[k]
    BY <1>4, <1>5, Zenon DEF Joint
  <2>2. \A k \in 1 .. 12 : c[k] = b[k]
    BY <1>4, <1>5, Zenon DEF Joint
  <2>3. 1 \in 1 .. 12 /\ \A k \in 1 .. 2 : 8 + k \in 1 .. 12 /\ 10 + k \in 1 .. 12
    OBVIOUS
  <2> QED BY <1>4, <2>1, <2>2, <2>3, Zenon
<1>7. Joint(f, c, last)
  BY <1>6, JointConcat, Zenon
<1> HIDE DEF f
<1>8. /\ f \in Seq(Byte) /\ Len(f) = 13 + size
      /\ f[1] = head[1]
      /\ \A k \in 1 .. 2 : f[8 + k] = number[k] /\ f[10 + k] = length[k]
      /\ \A k \in 1 .. size : f[12 + k] = data[k]
  <2>1. f \in Seq(Byte) /\ Len(f) = 13 + size
    BY <1>6, <1>7 DEF Joint
  <2>2. \A k \in 1 .. Len(c) : f[k] = c[k]
    BY <1>7, Zenon DEF Joint
  <2>3. /\ 1 \in 1 .. Len(c) /\ \A k \in 1 .. 2 : 8 + k \in 1 .. Len(c) /\ 10 + k \in 1 .. Len(c)
        /\ \A k \in 1 .. size : 12 + k \in 1 .. Len(c)
    BY <1>6
  <2> QED BY <1>6, <2>1, <2>2, <2>3, Zenon
<1>9. f[13 + size] = last[1]
  <2>1. 1 \in 1 .. Len(last) /\ Len(c) + 1 = 13 + size
    BY <1>6
  <2> QED BY <1>7, <2>1 DEF Joint
<1> QED BY <1>8, <1>9 DEF Framed, f, c, b, a

LEMMA Cut ==
  ASSUME NEW S, NEW B \in Seq(S), NEW m \in 0 .. Len(B), NEW d \in 0 .. m
  PROVE  /\ SubSeq(B, d + 1, m) \in Seq(S)
         /\ Len(SubSeq(B, d + 1, m)) = m - d
         /\ \A k \in 1 .. m - d : SubSeq(B, d + 1, m)[k] = B[d + k]
<1>1. \A k \in d + 1 .. m : B[k] \in S
  OBVIOUS
<1>2. d + 1 \in Int /\ m \in Int /\ m - (d + 1) + 1 = m - d
  OBVIOUS
<1>3. /\ SubSeq(B, d + 1, m) \in Seq(S)
      /\ Len(SubSeq(B, d + 1, m)) = IF d + 1 <= m THEN m - (d + 1) + 1 ELSE 0
      /\ \A k \in 1 .. m - (d + 1) + 1 : SubSeq(B, d + 1, m)[k] = B[d + 1 + k - 1]
  BY <1>1, <1>2, SubSeqProperties
<1> QED BY <1>3

LEMMA CutHead ==
  ASSUME NEW S, NEW B \in Seq(S), NEW n \in 0 .. Len(B)
  PROVE  /\ SubSeq(B, 1, n) \in Seq(S) /\ Len(SubSeq(B, 1, n)) = n
         /\ \A k \in 1 .. n : SubSeq(B, 1, n)[k] = B[k]
<1>1. /\ SubSeq(B, 0 + 1, n) \in Seq(S) /\ Len(SubSeq(B, 0 + 1, n)) = n - 0
      /\ \A k \in 1 .. n - 0 : SubSeq(B, 0 + 1, n)[k] = B[0 + k]
  <2>1. 0 \in 0 .. n
    OBVIOUS
  <2> QED BY <2>1, Cut, Zenon
<1>2. 0 + 1 = 1 /\ n - 0 = n /\ \A k \in 1 .. n : 0 + k = k
  OBVIOUS
<1> QED BY <1>1, <1>2, Zenon

\* What is built reads the same: the head, and every field.
LEMMA BuildFacts ==
  ASSUME NEW no \in Word, NEW sizes \in Seq(Widths), Len(sizes) <= 13,
         NEW values \in Fitting(sizes)
  PROVE  LET f == Build(no, sizes, values) IN
         /\ f \in Seq(Byte)
         /\ Len(f) = 13 + Sum(sizes)
         /\ f[1] = STX
         /\ TelegramNo(f) = no
         /\ DataLength(f) = Sum(sizes)
         /\ f[13 + Sum(sizes)] = ETX
         /\ \A i \in 1 .. Len(sizes) : Field(f, sizes, i) = values[i]
<1> DEFINE f == Build(no, sizes, values)
<1>1. Sum(sizes) \in Nat /\ Sum(sizes) <= 52 /\ Sum(sizes) \in Word
  <2>1. Sum(sizes) \in Nat /\ Sum(sizes) <= 4 * Len(sizes) /\ Len(sizes) \in Nat
    BY SumBound
  <2>2. Sum(sizes) <= 52
    BY <2>1
  <2>3. \A x \in Nat : x <= 52 => x \in Word
    BY SMT DEF Word
  <2> QED BY <2>1, <2>2, <2>3
<1> DEFINE head == <<STX, 68, 80, 83, 77, 48, 48, 0>>
           number == BigEndian(no, 2)
           length == BigEndian(Sum(sizes), 2)
           data == Written(sizes, values)[Len(sizes)]
           last == <<ETX>>
<1>2. head \in Seq(Byte) /\ Len(head) = 8 /\ head[1] = STX
  <2>1. /\ STX \in Byte /\ 68 \in Byte /\ 80 \in Byte /\ 83 \in Byte
        /\ 77 \in Byte /\ 48 \in Byte /\ 0 \in Byte
    BY DEF STX, Byte
  <2> QED BY <2>1
<1>3. number \in Seq(Byte) /\ Len(number) = 2
  BY TwoBytes
<1>4. length \in Seq(Byte) /\ Len(length) = 2
  BY <1>1, TwoBytes
<1>5. data \in Seq(Byte) /\ Len(data) = Sum(sizes)
  BY WrittenFacts
<1>6. last \in Seq(Byte) /\ Len(last) = 1 /\ last[1] = ETX
  <2>1. ETX \in Byte
    BY DEF ETX, Byte
  <2> QED BY <2>1
<1>7. f = head \o number \o length \o data \o last
  BY Zenon DEF Build
<1> HIDE DEF f, head, number, length, data, last
<1>8. /\ f \in Seq(Byte) /\ Len(f) = 13 + Sum(sizes)
      /\ f[1] = STX /\ f[13 + Sum(sizes)] = ETX
      /\ \A k \in 1 .. 2 : f[8 + k] = number[k] /\ f[10 + k] = length[k]
      /\ \A k \in 1 .. Sum(sizes) : f[12 + k] = data[k]
  <2>1. Framed(f, head, number, length, data, last)
    BY <1>2, <1>3, <1>4, <1>5, <1>6, <1>7, Framing, Zenon
  <2> QED BY <1>2, <1>5, <1>6, <2>1 DEF Framed
<1>9. TelegramNo(f) = no
  <2>1. /\ SubSeq(f, 9, 10) \in Seq(Byte) /\ Len(SubSeq(f, 9, 10)) = 2
        /\ SubSeq(f, 9, 10)[1] = f[9] /\ SubSeq(f, 9, 10)[2] = f[10]
    BY <1>1, <1>8
  <2>2. f[9] = number[1] /\ f[10] = number[2]
    BY <1>8
  <2>3. \A k \in 1 .. 2 : SubSeq(f, 9, 10)[k] = number[k]
    BY <2>1, <2>2
  <2> QED BY <2>1, <2>3, TwoBytes, Zenon DEF TelegramNo, number
<1>10. DataLength(f) = Sum(sizes)
  <2>1. /\ SubSeq(f, 11, 12) \in Seq(Byte) /\ Len(SubSeq(f, 11, 12)) = 2
        /\ SubSeq(f, 11, 12)[1] = f[11] /\ SubSeq(f, 11, 12)[2] = f[12]
    BY <1>1, <1>8
  <2>2. f[11] = length[1] /\ f[12] = length[2]
    BY <1>8
  <2>3. \A k \in 1 .. 2 : SubSeq(f, 11, 12)[k] = length[k]
    BY <2>1, <2>2
  <2> QED BY <1>1, <2>1, <2>3, TwoBytes, Zenon DEF DataLength, length
<1>11. ASSUME NEW i \in 1 .. Len(sizes) PROVE Field(f, sizes, i) = values[i]
  <2> DEFINE o == Offset(sizes)[i - 1]
             e == Offset(sizes)[i]
             g == SubSeq(f, HEADER_SIZE + o + 1, HEADER_SIZE + e)
  <2>1. /\ o \in Nat /\ e = o + sizes[i] /\ e <= Sum(sizes)
        /\ \A k \in 1 .. sizes[i] : data[o + k] = BigEndian(values[i], sizes[i])[k]
    BY WrittenFacts, Zenon DEF data
  <2>2. values[i] \in Nat /\ sizes[i] \in Widths /\ Fits(values[i], sizes[i])
    BY DEF Fitting
  <2>3. sizes[i] \in Nat
    BY <2>2 DEF Widths
  <2> HIDE DEF o, e
  <2>4. o \in Nat /\ e = o + sizes[i] /\ e <= Sum(sizes)
    BY <2>1
  <2>5. /\ g \in Seq(Byte) /\ Len(g) = sizes[i]
        /\ \A k \in 1 .. sizes[i] : g[k] = f[12 + o + k]
    <3>1. Sum(sizes) \in Nat
      BY <1>1
    <3>2. HEADER_SIZE + e \in 0 .. Len(f) /\ HEADER_SIZE + o \in 0 .. HEADER_SIZE + e
      <4>1. Len(f) = 13 + Sum(sizes)
        BY <1>8
      <4>2. HEADER_SIZE = 12 /\ e \in Nat /\ o <= e
        BY <2>3, <2>4 DEF HEADER_SIZE
      <4>3. 12 + e \in 0 .. 13 + Sum(sizes) /\ 12 + o \in 0 .. 12 + e
        BY <2>4, <3>1, <4>2
      <4> QED BY <4>1, <4>2, <4>3, Zenon
    <3>3. f \in Seq(Byte)
      BY <1>8
    <3>4. /\ g \in Seq(Byte) /\ Len(g) = (HEADER_SIZE + e) - (HEADER_SIZE + o)
          /\ \A k \in 1 .. (HEADER_SIZE + e) - (HEADER_SIZE + o) : g[k] = f[HEADER_SIZE + o + k]
      BY <3>2, <3>3, Cut, Zenon
    <3>5. (HEADER_SIZE + e) - (HEADER_SIZE + o) = sizes[i] /\ HEADER_SIZE + o = 12 + o
      <4>1. HEADER_SIZE = 12
        BY DEF HEADER_SIZE
      <4>2. (12 + e) - (12 + o) = sizes[i]
        <5>1. e = o + sizes[i] /\ o \in Nat
          BY <2>4
        <5> QED BY <2>3, <5>1
      <4> QED BY <4>1, <4>2, Zenon
    <3> QED BY <3>4, <3>5, Zenon
  <2> HIDE DEF g
  <2>6. \A k \in 1 .. sizes[i] : f[12 + o + k] = data[o + k]
    <3>1. Sum(sizes) \in Nat
      BY <1>1
    <3> SUFFICES ASSUME NEW k \in 1 .. sizes[i] PROVE f[12 + o + k] = data[o + k]
      OBVIOUS
    <3>2. o + k \in 1 .. Sum(sizes) /\ 12 + (o + k) = 12 + o + k
      BY <2>3, <2>4, <3>1
    <3>3. f[12 + (o + k)] = data[o + k]
      BY <1>8, <3>2
    <3> QED BY <3>2, <3>3
  <2>7. \A k \in 1 .. sizes[i] : g[k] = BigEndian(values[i], sizes[i])[k]
    BY <2>1, <2>5, <2>6, Zenon
  <2>8. UInt(g) = values[i]
    BY <2>2, <2>5, <2>7, RoundTrip, Zenon
  <2> QED BY <2>8, Zenon DEF Field, g, o, e
<1> QED BY <1>8, <1>9, <1>10, <1>11, Zenon DEF f

(***************************************************************************)
(* The frames of the telegrams sent                                        *)
(***************************************************************************)

LEMMA PeerFacts ==
  ASSUME NEW t \in Telegrams
  PROVE  /\ t.no \in Word
         /\ PeerSizes(t.no) \in Seq(Widths) /\ Len(PeerSizes(t.no)) <= 13
         /\ t.values \in Fitting(PeerSizes(t.no))
         /\ t = [no |-> t.no, values |-> t.values]
<1>1. /\ t \in [no : Word, values : Seq(Nat)]
      /\ Len(t.values) = Len(PeerSizes(t.no))
      /\ \A i \in DOMAIN t.values : Fits(t.values[i], PeerSizes(t.no)[i])
  BY StreamAssumption, Zenon
<1>2. t.no \in Word /\ t.values \in Seq(Nat) /\ t = [no |-> t.no, values |-> t.values]
  BY <1>1
<1>3. DOMAIN t.values = 1 .. Len(PeerSizes(t.no))
  BY <1>1, <1>2, LenProperties
<1>4. \A i \in 1 .. Len(PeerSizes(t.no)) : Fits(t.values[i], PeerSizes(t.no)[i])
  BY <1>1, <1>3, Zenon
<1>5. PeerSizes(t.no) \in Seq(Widths) /\ Len(PeerSizes(t.no)) <= 13
  <2>1. <<2>> \in Seq(Widths) /\ Len(<<2>>) <= 13
    BY DEF Widths
  <2> QED BY <2>1, KnownSizes DEF PeerSizes
<1>6. t.values \in Fitting(PeerSizes(t.no))
  BY <1>1, <1>2, <1>4, Zenon DEF Fitting
<1> QED BY <1>2, <1>5, <1>6

\* A frame tells its own length; what is known parses to what was sent.
LEMMA FrameFacts ==
  ASSUME NEW t \in Telegrams
  PROVE  /\ Frame[t] \in Seq(Byte)
         /\ Len(Frame[t]) \in Nat /\ Len(Frame[t]) >= 13
         /\ Frame[t][1] = STX
         /\ DataLength(Frame[t]) = Len(Frame[t]) - 13
         /\ Parses(Frame[t]) <=> t \in Known
         /\ t \in Known => Parse(Frame[t]) = t
<1> DEFINE sizes == PeerSizes(t.no)
           f == Frame[t]
           size == Sum(sizes)
<1>1. f = Build(t.no, sizes, t.values)
  BY DEF Frame
<1>2. /\ f \in Seq(Byte) /\ Len(f) = 13 + size
      /\ f[1] = STX
      /\ TelegramNo(f) = t.no
      /\ DataLength(f) = size
      /\ f[13 + size] = ETX
      /\ \A i \in 1 .. Len(sizes) : Field(f, sizes, i) = t.values[i]
  <2>1. /\ t.no \in Word /\ sizes \in Seq(Widths) /\ Len(sizes) <= 13
        /\ t.values \in Fitting(sizes)
    BY PeerFacts
  <2> HIDE DEF sizes, f, size
  <2> QED BY <1>1, <2>1, BuildFacts DEF size
<1>3. size \in Nat
  BY PeerFacts, SumBound
<1>4. t \in Known <=> t.no \in DOMAIN Definitions
  BY DEF Known
<1>5. ASSUME t.no \in DOMAIN Definitions
      PROVE  sizes = Definitions[t.no] /\ DataSize[t.no] = size
  BY <1>5 DEF PeerSizes, DataSize
<1> HIDE DEF f, size
<1>6. Parses(f) <=> t.no \in DOMAIN Definitions
  <2>1. HEADER_SIZE + DataLength(f) + 1 = 13 + size /\ HEADER_SIZE + DataLength(f) < Len(f)
    BY <1>2, <1>3 DEF HEADER_SIZE
  <2>2. f[HEADER_SIZE + DataLength(f) + 1] = ETX
    BY <1>2, <2>1
  <2>3. ASSUME t.no \in DOMAIN Definitions
        PROVE  HEADER_SIZE + DataSize[TelegramNo(f)] <= Len(f)
    BY <1>2, <1>3, <1>5, <2>3 DEF HEADER_SIZE
  <2>4. Len(f) >= HEADER_SIZE
    BY <1>2, <1>3 DEF HEADER_SIZE
  <2> QED BY <1>2, <2>1, <2>2, <2>3, <2>4 DEF Parses
<1>7. ASSUME t.no \in DOMAIN Definitions PROVE Parse(f) = t
  <2>1. DOMAIN sizes = 1 .. Len(sizes)
    BY PeerFacts, LenProperties
  <2>2. t.values \in Seq(Nat) /\ Len(t.values) = Len(sizes)
    BY PeerFacts DEF Fitting
  <2>3. t.values = [i \in 1 .. Len(sizes) |-> t.values[i]]
    BY <2>2
  <2>4. t.values = [i \in DOMAIN sizes |-> Field(f, sizes, i)]
    BY <1>2, <2>1, <2>3
  <2>5. Parse(f) = [no |-> t.no, values |-> [i \in DOMAIN sizes |-> Field(f, sizes, i)]]
    BY <1>2, <1>5, <1>7, Zenon DEF Parse
  <2> QED BY <2>4, <2>5, PeerFacts, Zenon
<1>8. Len(f) \in Nat /\ Len(f) >= 13 /\ DataLength(f) = Len(f) - 13
  BY <1>2, <1>3
<1> QED BY <1>2, <1>4, <1>6, <1>7, <1>8 DEF f

\* What the builder builds of a telegram in the registry, the validator accepts, the
\* parser parses, and what it finds are the values built in (build(), validate(),
\* autoParse()).
THEOREM BuiltTelegramsRead ==
  ASSUME NEW t \in Known
  PROVE  Validate(Frame[t]) /\ Parses(Frame[t]) /\ Parse(Frame[t]) = t
<1> DEFINE f == Frame[t]
<1>1. t \in Telegrams /\ t.no \in DOMAIN Definitions
  BY DEF Known
<1>2. Parses(f) /\ Parse(f) = t /\ f[1] = STX
  BY <1>1, FrameFacts
<1>3. Len(f) \in Nat /\ Len(f) >= 13 /\ DataLength(f) = Len(f) - 13
  BY <1>1, FrameFacts
<1>4. TelegramNo(f) = t.no /\ DataLength(f) = DataSize[t.no]
  <2> DEFINE sizes == PeerSizes(t.no)
  <2>1. f = Build(t.no, sizes, t.values) /\ DataSize[t.no] = Sum(sizes)
    BY <1>1 DEF Frame, PeerSizes, DataSize
  <2>2. /\ t.no \in Word /\ sizes \in Seq(Widths) /\ Len(sizes) <= 13
        /\ t.values \in Fitting(sizes)
    BY <1>1, PeerFacts
  <2> HIDE DEF sizes, f
  <2> QED BY <2>1, <2>2, BuildFacts
<1> HIDE DEF f
<1>5. QuickValidate(f)
  <2>1. Len(f) >= MIN_TELEGRAM_SIZE
    BY <1>3 DEF MIN_TELEGRAM_SIZE, HEADER_SIZE
  <2> QED BY <1>2, <2>1, Zenon DEF QuickValidate, Parses
<1>6. Validate(f)
  BY <1>1, <1>4, <1>5, Zenon DEF Validate
<1> QED BY <1>2, <1>6 DEF f

\* The parser parses whatever the validator accepts, built by build() or not; so no
\* frame found valid is later skipped with an error (validate(), autoParse()).
THEOREM ValidTelegramsParse ==
  ASSUME NEW frame \in Seq(Byte), Validate(frame)
  PROVE  Parses(frame)
<1>1. QuickValidate(frame) /\ TelegramNo(frame) \in DOMAIN Definitions
  BY DEF Validate
<1>2. DataLength(frame) = DataSize[TelegramNo(frame)]
  BY DEF Validate
<1>3. DataSize[TelegramNo(frame)] \in Nat
  BY <1>1, KnownSizes, SumBound DEF DataSize
<1>4. HEADER_SIZE + DataSize[TelegramNo(frame)] <= Len(frame) /\ Len(frame) >= HEADER_SIZE
  BY <1>1, <1>2, <1>3 DEF QuickValidate, HEADER_SIZE, MIN_TELEGRAM_SIZE
<1> QED BY <1>1, <1>4, Zenon DEF Parses, QuickValidate

(***************************************************************************)
(* The loop of handleData().  B is what is in the buffer and under way, b  *)
(* the number of bytes before it, m the number of its bytes that have been *)
(* read, r the telegrams in it.                                            *)
(***************************************************************************)

Entry == [telegram : Telegrams, end : Nat]

\* Bytes before the frame of an entry
First(e) == e.end - Len(Frame[e.telegram])

Ordered(r) == \A i, j \in 1 .. Len(r) : i < j => r[i].end <= First(r[j])

\* The frames of r lie where their entries say, and no STX lies outside of them.
Holds(B, at, f) == \A k \in 1 .. Len(f) : B[at + k] = f[k]

Laid(B, b, r) ==
  /\ \A i \in 1 .. Len(r) :
       /\ b <= First(r[i]) /\ r[i].end <= b + Len(B)
       /\ Holds(B, First(r[i]) - b, Frame[r[i].telegram])
  /\ \A x \in 1 .. Len(B) :
       B[x] = STX => \E i \in 1 .. Len(r) : First(r[i]) < b + x /\ b + x <= r[i].end

\* After d bytes have been used: j telegrams are done with, the others untouched.
Done(b, r, d, j) ==
  /\ \A i \in 1 .. j : r[i].end <= b + d
  /\ \A i \in j + 1 .. Len(r) : b + d <= First(r[i])

\* The loop has come to its end: the next telegram is not complete.
Settled(b, r, m, d, j) ==
  /\ \A i \in j + 1 .. Len(r) : b + m < r[i].end
  /\ d = m \/ (j < Len(r) /\ First(r[j + 1]) = b + d)

\* The loop after d bytes, ts being handed over
Loop(B, m, d, ts) == [buffer |-> SubSeq(B, d + 1, m), telegrams |-> ts]

LEMMA CutAgain ==
  ASSUME NEW S, NEW B \in Seq(S), NEW m \in 0 .. Len(B), NEW d \in 0 .. m, NEW x \in 0 .. m - d
  PROVE  SubSeq(SubSeq(B, d + 1, m), x + 1, m - d) = SubSeq(B, d + x + 1, m)
<1> DEFINE s == SubSeq(B, d + 1, m)
           t == SubSeq(s, x + 1, m - d)
           u == SubSeq(B, d + x + 1, m)
<1>1. s \in Seq(S) /\ Len(s) = m - d /\ \A k \in 1 .. m - d : s[k] = B[d + k]
  BY Cut
<1> HIDE DEF s
<1>2. m - d \in 0 .. Len(s) /\ x \in 0 .. m - d
  BY <1>1
<1>3. /\ t \in Seq(S) /\ Len(t) = m - d - x
      /\ \A k \in 1 .. m - d - x : t[k] = s[x + k]
  BY <1>1, <1>2, Cut
<1>4. d + x \in 0 .. m
  OBVIOUS
<1>5. /\ u \in Seq(S) /\ Len(u) = m - (d + x)
      /\ \A k \in 1 .. m - (d + x) : u[k] = B[d + x + k]
  BY <1>4, Cut
<1> HIDE DEF t, u
<1>6. Len(t) = Len(u) /\ \A k \in 1 .. Len(t) : t[k] = u[k]
  <2>1. Len(t) = m - (d + x) /\ Len(u) = m - (d + x)
    BY <1>3, <1>5
  <2> SUFFICES ASSUME NEW k \in 1 .. m - (d + x) PROVE t[k] = u[k]
    BY <2>1
  <2>2. t[k] = s[x + k]
    BY <1>3
  <2>3. x + k \in 1 .. m - d /\ d + (x + k) = d + x + k
    OBVIOUS
  <2>4. s[x + k] = B[d + (x + k)] /\ u[k] = B[d + x + k]
    BY <1>1, <1>5, <2>3
  <2> QED BY <2>2, <2>3, <2>4
<1>7. t = u
  BY <1>3, <1>5, <1>6, SeqEqual
<1> QED BY <1>7 DEF s, t, u

LEMMA EntryFacts ==
  ASSUME NEW e \in Entry
  PROVE  /\ e.telegram \in Telegrams /\ e.end \in Nat /\ First(e) \in Int
         /\ Frame[e.telegram] \in Seq(Byte) /\ Frame[e.telegram][1] = STX
         /\ Len(Frame[e.telegram]) \in Nat /\ Len(Frame[e.telegram]) >= 13
         /\ First(e) + Len(Frame[e.telegram]) = e.end /\ First(e) + 13 <= e.end
<1>1. e.telegram \in Telegrams /\ e.end \in Nat
  BY DEF Entry
<1>2. /\ Frame[e.telegram] \in Seq(Byte) /\ Frame[e.telegram][1] = STX
      /\ Len(Frame[e.telegram]) \in Nat /\ Len(Frame[e.telegram]) >= 13
  BY <1>1, FrameFacts
<1> QED BY <1>1, <1>2 DEF First

\* The ends of the frames of a sequence
LEMMA EndFacts ==
  ASSUME NEW r \in Seq(Entry), NEW i \in 1 .. Len(r)
  PROVE  /\ r[i] \in Entry /\ r[i].end \in Nat /\ First(r[i]) \in Int
         /\ First(r[i]) + 13 <= r[i].end
<1>1. r[i] \in Entry
  OBVIOUS
<1> QED BY <1>1, EntryFacts

\* The first STX in the buffer, if there is one, begins the next frame.
LEMMA Scan ==
  ASSUME NEW B \in Seq(Byte), NEW b \in Nat, NEW r \in Seq(Entry), Laid(B, b, r), Ordered(r),
         NEW m \in 0 .. Len(B), NEW d \in 0 .. m, NEW j \in 0 .. Len(r), Done(b, r, d, j)
  PROVE  \E e \in d .. m :
           /\ Resync(SubSeq(B, d + 1, m)) = SubSeq(B, e + 1, m)
           /\ \/ e = m /\ \A i \in j + 1 .. Len(r) : b + m <= First(r[i])
              \/ e < m /\ j < Len(r) /\ First(r[j + 1]) = b + e
<1> DEFINE X == SubSeq(B, d + 1, m)
           starts == {k \in DOMAIN X : X[k] = STX}
<1>1. /\ X \in Seq(Byte) /\ Len(X) = m - d
      /\ \A k \in 1 .. m - d : X[k] = B[d + k]
  BY Cut
<1>2. Resync(X) = IF starts = {} THEN <<>> ELSE SubSeq(X, Min(starts), Len(X))
  BY Zenon DEF Resync
<1> HIDE DEF X
<1>3. starts = {k \in 1 .. m - d : B[d + k] = STX}
  BY <1>1
<1> HIDE DEF starts
<1>4. \A i \in 1 .. Len(r) : r[i] \in Entry
  OBVIOUS
<1>5. ASSUME NEW i \in j + 1 .. Len(r), First(r[i]) < b + m
      PROVE  First(r[i]) - b - d + 1 \in starts
  <2>1. i \in 1 .. Len(r) /\ r[i] \in Entry
    BY <1>4
  <2>2. /\ First(r[i]) \in Int /\ 1 \in 1 .. Len(Frame[r[i].telegram])
        /\ Frame[r[i].telegram][1] = STX
    <3>1. /\ First(r[i]) \in Int /\ Frame[r[i].telegram][1] = STX
          /\ Len(Frame[r[i].telegram]) \in Nat /\ Len(Frame[r[i].telegram]) >= 13
      BY <2>1, EntryFacts, Zenon
    <3>2. \A z \in Nat : z >= 13 => 1 \in 1 .. z
      OBVIOUS
    <3> QED BY <3>1, <3>2, Zenon
  <2>3. Holds(B, First(r[i]) - b, Frame[r[i].telegram])
    BY <2>1 DEF Laid
  <2>4. B[First(r[i]) - b + 1] = STX
    BY <2>2, <2>3, Zenon DEF Holds
  <2>5. b + d <= First(r[i])
    BY DEF Done
  <2>6. First(r[i]) - b - d + 1 \in 1 .. m - d
    BY <1>5, <2>2, <2>5
  <2>7. d + (First(r[i]) - b - d + 1) = First(r[i]) - b + 1
    BY <2>2
  <2> QED BY <1>3, <2>4, <2>6, <2>7
<1>6. ASSUME NEW x \in starts PROVE \E i \in j + 1 .. Len(r) : First(r[i]) < b + d + x
  <2>1. x \in 1 .. m - d /\ B[d + x] = STX
    BY <1>3
  <2>2. d + x \in 1 .. Len(B)
    BY <2>1
  <2>3. PICK i \in 1 .. Len(r) : First(r[i]) < b + (d + x) /\ b + (d + x) <= r[i].end
    BY <2>1, <2>2 DEF Laid
  <2>4. r[i].end \in Nat /\ First(r[i]) \in Int
    BY <1>4, EntryFacts
  <2>5. ~ (i \in 1 .. j)
    <3>1. ASSUME i \in 1 .. j PROVE r[i].end <= b + d
      BY <3>1 DEF Done
    <3> QED BY <2>1, <2>3, <2>4, <3>1
  <2>6. i \in j + 1 .. Len(r) /\ b + (d + x) = b + d + x
    BY <2>1, <2>5
  <2> QED BY <2>3, <2>6
<1>7. CASE starts = {}
  <2>1. Resync(X) = <<>>
    BY <1>2, <1>7
  <2>2. SubSeq(B, m + 1, m) = <<>>
    BY SubSeqEmpty
  <2>3. ASSUME NEW i \in j + 1 .. Len(r) PROVE b + m <= First(r[i])
    <3>1. ~ (First(r[i]) < b + m)
      BY <1>5, <1>7
    <3>2. First(r[i]) \in Int
      BY <1>4, EntryFacts
    <3> QED BY <3>1, <3>2
  <2>4. m \in d .. m
    OBVIOUS
  <2> QED BY <2>1, <2>2, <2>3, <2>4 DEF X
<1>8. CASE starts # {}
  <2>1. PICK f \in starts : \A y \in starts : f <= y
    <3>1. starts \in SUBSET Nat
      BY <1>3
    <3> QED BY <1>8, <3>1, LeastNatural
  <2>2. f \in 1 .. m - d /\ \A y \in starts : y \in 1 .. m - d
    BY <1>3
  <2>3. Min(starts) = f
    <3>1. \A y \in starts : (\A z \in starts : y <= z) => y = f
      BY <2>1, <2>2
    <3> QED BY <2>1, <3>1 DEF Min
  <2>4. PICK i \in j + 1 .. Len(r) : First(r[i]) < b + d + f
    BY <1>6
  <2>5. j + 1 \in 1 .. Len(r) /\ i \in 1 .. Len(r) /\ j + 1 <= i
    BY <2>4
  <2>6. First(r[j + 1]) <= First(r[i]) /\ First(r[j + 1]) \in Int
    <3>1. /\ First(r[j + 1]) \in Int /\ First(r[i]) \in Int
          /\ r[j + 1].end \in Nat /\ First(r[j + 1]) <= r[j + 1].end
      <4>1. /\ First(r[j + 1]) \in Int /\ First(r[i]) \in Int
            /\ r[j + 1].end \in Nat /\ First(r[j + 1]) + 13 <= r[j + 1].end
        BY <2>5, EndFacts
      <4> QED BY <4>1
    <3>2. j + 1 < i => r[j + 1].end <= First(r[i])
      BY <2>5 DEF Ordered
    <3>3. j + 1 = i => First(r[j + 1]) = First(r[i])
      OBVIOUS
    <3> QED BY <2>5, <3>1, <3>2, <3>3
  <2>7. First(r[i]) \in Int
    BY <1>4, <2>5, EntryFacts
  <2>8. First(r[j + 1]) < b + d + f
    BY <2>2, <2>4, <2>6, <2>7
  <2>9. First(r[j + 1]) - b - d + 1 \in starts
    <3>1. First(r[j + 1]) < b + m /\ j + 1 \in j + 1 .. Len(r)
      BY <2>2, <2>5, <2>6, <2>8
    <3> QED BY <1>5, <3>1
  <2>10. f <= First(r[j + 1]) - b - d + 1
    BY <2>1, <2>9
  <2>11. First(r[j + 1]) = b + (d + f - 1)
    <3> DEFINE z == First(r[j + 1])
    <3>1. z \in Int /\ z < b + d + f /\ f <= z - b - d + 1
      BY <2>6, <2>8, <2>10
    <3>2. f \in Nat
      BY <2>2
    <3> HIDE DEF z
    <3>3. z = b + (d + f - 1)
      BY <3>1, <3>2
    <3> QED BY <3>3 DEF z
  <2>12. Resync(X) = SubSeq(X, f, m - d)
    BY <1>1, <1>2, <1>8, <2>3
  <2>13. SubSeq(X, f - 1 + 1, m - d) = SubSeq(B, d + (f - 1) + 1, m)
    <3>1. f - 1 \in 0 .. m - d
      BY <2>2
    <3> QED BY <3>1, CutAgain DEF X
  <2>14. f - 1 + 1 = f /\ d + (f - 1) + 1 = d + f - 1 + 1
    BY <2>2
  <2>15. d + f - 1 \in d .. m /\ d + f - 1 < m /\ j < Len(r)
    BY <2>2, <2>5
  <2> QED BY <2>11, <2>12, <2>13, <2>14, <2>15 DEF X
<1> QED BY <1>7, <1>8

\* The telegrams of a sequence of entries
Queued(r) == [i \in 1 .. Len(r) |-> r[i].telegram]

\* A turn that hands nothing over, and one that takes the next telegram, from the
\* state in which d bytes are used, j telegrams taken and ts handed over
Waits(B, b, r, m, d, j, ts) ==
  \E e \in d .. m :
    /\ Turn(Loop(B, m, d, ts)) = Loop(B, m, e, ts)
    /\ Done(b, r, e, j) /\ Settled(b, r, m, e, j)

Takes(B, b, r, m, d, j, ts) ==
  \E e \in d + 13 .. m :
    /\ j < Len(r) /\ ~ Settled(b, r, m, d, j) /\ Done(b, r, e, j + 1)
    /\ Turn(Loop(B, m, d, ts)) =
         Loop(B, m, e, IF r[j + 1].telegram \in Known
                       THEN Append(ts, r[j + 1].telegram) ELSE ts)

\* What one turn of the loop makes of the buffer and hands over.
LEMMA TurnFacts ==
  ASSUME NEW B \in Seq(Byte), NEW b \in Nat, NEW r \in Seq(Entry), Laid(B, b, r), Ordered(r),
         NEW m \in 0 .. Len(B), NEW d \in 0 .. m, NEW j \in 0 .. Len(r), Done(b, r, d, j),
         NEW ts
  PROVE  Waits(B, b, r, m, d, j, ts) \/ Takes(B, b, r, m, d, j, ts)
<1> DEFINE state == Loop(B, m, d, ts)
<1>1. PICK e \in d .. m :
        /\ Resync(SubSeq(B, d + 1, m)) = SubSeq(B, e + 1, m)
        /\ \/ e = m /\ \A i \in j + 1 .. Len(r) : b + m <= First(r[i])
           \/ e < m /\ j < Len(r) /\ First(r[j + 1]) = b + e
  BY Scan
<1> DEFINE X == SubSeq(B, e + 1, m)
<1>2. /\ X \in Seq(Byte) /\ Len(X) = m - e
      /\ \A k \in 1 .. m - e : X[k] = B[e + k]
  BY Cut
<1>3. state.telegrams = ts /\ Resync(state.buffer) = X
  BY <1>1 DEF Loop
<1>4. /\ ~ HasFrame(X) => Turn(state) = [buffer |-> X, telegrams |-> ts]
      /\ HasFrame(X) =>
           Turn(state) =
             [buffer |-> SubSeq(X, FrameSize(X) + 1, Len(X)),
              telegrams |-> IF Parses(SubSeq(X, 1, FrameSize(X)))
                            THEN Append(ts, Parse(SubSeq(X, 1, FrameSize(X)))) ELSE ts]
  BY <1>3 DEF Turn, Loop
<1>5. \A i \in 1 .. Len(r) : r[i] \in Entry
  OBVIOUS
<1>6. \A i \in 1 .. Len(r) :
        r[i].end \in Nat /\ First(r[i]) \in Int /\ First(r[i]) + 13 <= r[i].end
  BY EndFacts
<1> HIDE DEF X, state, Loop
\* Nothing but noise is left.
<1>7. CASE e = m /\ \A i \in j + 1 .. Len(r) : b + m <= First(r[i])
  <2>1. ~ HasFrame(X)
    BY <1>2, <1>7 DEF HasFrame, HEADER_SIZE
  <2>2. Done(b, r, e, j)
    <3>1. \A i \in 1 .. j : r[i].end <= b + e
      <4>1. \A i \in 1 .. j : r[i].end \in Nat /\ r[i].end <= b + d
        BY <1>6 DEF Done
      <4> QED BY <4>1
    <3> QED BY <1>7, <3>1 DEF Done
  <2>3. Settled(b, r, m, e, j)
    <3>1. ASSUME NEW i \in j + 1 .. Len(r) PROVE b + m < r[i].end
      <4>1. /\ r[i].end \in Nat /\ First(r[i]) \in Int /\ First(r[i]) + 13 <= r[i].end
            /\ b + m <= First(r[i])
        BY <1>6, <1>7
      <4> QED BY <4>1
    <3> QED BY <1>7, <3>1 DEF Settled
  <2>4. Turn(state) = Loop(B, m, e, ts)
    BY <1>4, <2>1 DEF X, Loop
  <2> QED BY <2>2, <2>3, <2>4, Zenon DEF Waits, state
\* The next frame begins, and is complete or not.
<1>8. CASE e < m /\ j < Len(r) /\ First(r[j + 1]) = b + e
  <2> DEFINE t == r[j + 1].telegram
             f == Frame[t]
             n == Len(f)
  <2>1. /\ j + 1 \in 1 .. Len(r) /\ t \in Telegrams /\ f \in Seq(Byte)
        /\ n \in Nat /\ n >= 13 /\ r[j + 1].end = b + e + n
        /\ DataLength(f) = n - 13
    <3>1. j + 1 \in 1 .. Len(r) /\ r[j + 1] \in Entry
      BY <1>5, <1>8
    <3>2. /\ t \in Telegrams /\ f \in Seq(Byte) /\ n \in Nat /\ n >= 13
          /\ First(r[j + 1]) + n = r[j + 1].end
      BY <3>1, EntryFacts
    <3> QED BY <1>8, <3>1, <3>2, FrameFacts
  <2>2. \A k \in 1 .. n : B[e + k] = f[k]
    <3>1. Holds(B, First(r[j + 1]) - b, f)
      BY <2>1 DEF Laid
    <3>2. First(r[j + 1]) - b = e
      BY <1>8
    <3> QED BY <3>1, <3>2 DEF Holds
  <2> HIDE DEF t, f, n
  <2>3. Done(b, r, e, j)
    <3>1. \A i \in 1 .. j : r[i].end <= b + e
      <4>1. \A i \in 1 .. j : r[i].end \in Nat /\ r[i].end <= b + d
        BY <1>6 DEF Done
      <4> QED BY <4>1
    <3>2. \A i \in j + 1 .. Len(r) : b + e <= First(r[i])
      <4> SUFFICES ASSUME NEW i \in j + 1 .. Len(r), j + 1 < i PROVE b + e <= First(r[i])
        BY <1>8
      <4>1. i \in 1 .. Len(r)
        OBVIOUS
      <4>2. r[j + 1].end <= First(r[i])
        BY <2>1, <4>1 DEF Ordered
      <4>3. First(r[i]) \in Int
        BY <1>6, <4>1
      <4> QED BY <2>1, <4>2, <4>3
    <3> QED BY <3>1, <3>2 DEF Done
  <2>4. ASSUME NEW k \in 1 .. m - e, k <= n PROVE X[k] = f[k]
    <3>1. k \in 1 .. n
      BY <2>1, <2>4
    <3>2. X[k] = B[e + k]
      BY <1>2
    <3> QED BY <2>2, <3>1, <3>2
  \* The header of the frame tells its size.
  <2>5. ASSUME m - e >= 12 PROVE FrameSize(X) = n
    <3>1. X[11] = f[11] /\ X[12] = f[12]
      <4>1. 11 \in 1 .. m - e /\ 12 \in 1 .. m - e /\ 11 <= n /\ 12 <= n
        BY <2>1, <2>5
      <4> QED BY <2>4, <4>1
    <3>2. /\ Len(SubSeq(X, 11, 12)) = 2
          /\ SubSeq(X, 11, 12)[1] = X[11] /\ SubSeq(X, 11, 12)[2] = X[12]
      BY <1>2, <2>5
    <3>3. /\ Len(SubSeq(f, 11, 12)) = 2
          /\ SubSeq(f, 11, 12)[1] = f[11] /\ SubSeq(f, 11, 12)[2] = f[12]
      BY <2>1 DEF n
    <3>4. DataLength(X) = DataLength(f)
      BY <3>1, <3>2, <3>3, SMT DEF DataLength, UInt
    <3> QED BY <2>1, <3>4 DEF FrameSize, HEADER_SIZE
  <2>6. HasFrame(X) <=> n <= m - e
    BY <1>2, <2>1, <2>5 DEF HasFrame, HEADER_SIZE
  <2>7. CASE ~ (n <= m - e)
    <3>1. \A i \in j + 1 .. Len(r) : b + m < r[i].end
      <4>1. b + m < r[j + 1].end
        BY <2>1, <2>7
      <4> SUFFICES ASSUME NEW i \in j + 1 .. Len(r), j + 1 < i PROVE b + m < r[i].end
        BY <4>1
      <4>2. i \in 1 .. Len(r)
        OBVIOUS
      <4>3. r[j + 1].end <= First(r[i])
        BY <2>1, <4>2 DEF Ordered
      <4>4. /\ First(r[i]) \in Int /\ First(r[i]) + 13 <= r[i].end
            /\ r[i].end \in Nat /\ r[j + 1].end \in Nat
        BY <1>6, <2>1, <4>2
      <4> DEFINE y == r[j + 1].end
                 z == First(r[i])
                 u == r[i].end
      <4>5. b + m < y /\ y <= z /\ z \in Int /\ z + 13 <= u /\ u \in Nat /\ y \in Nat
        BY <4>1, <4>3, <4>4
      <4> HIDE DEF y, z, u
      <4>6. b + m < u
        BY <4>5
      <4> QED BY <4>6 DEF u
    <3>2. Settled(b, r, m, e, j)
      BY <1>8, <3>1 DEF Settled
    <3>3. Turn(state) = Loop(B, m, e, ts)
      BY <1>4, <2>6, <2>7 DEF X, Loop
    <3> QED BY <2>3, <3>2, <3>3, Zenon DEF Waits, state
  <2>8. CASE n <= m - e
    <3>1. FrameSize(X) = n
      BY <2>1, <2>5, <2>8
    <3>2. SubSeq(X, 1, n) = f
      <4>1. /\ SubSeq(X, 1, n) \in Seq(Byte) /\ Len(SubSeq(X, 1, n)) = n
            /\ \A k \in 1 .. n : SubSeq(X, 1, n)[k] = X[k]
        <5>1. n \in 0 .. Len(X) /\ X \in Seq(Byte)
          BY <1>2, <2>1, <2>8
        <5> QED BY <5>1, CutHead, Zenon
      <4>2. \A k \in 1 .. n : SubSeq(X, 1, n)[k] = f[k]
        BY <2>4, <2>8, <4>1
      <4> QED BY <2>1, <4>1, <4>2, SeqEqual DEF n
    <3>3. SubSeq(X, n + 1, Len(X)) = SubSeq(B, e + n + 1, m)
      <4>1. n \in 0 .. m - e
        BY <2>1, <2>8
      <4> QED BY <1>2, <4>1, CutAgain DEF X
    <3>4. Turn(state) = [buffer |-> SubSeq(B, e + n + 1, m),
                         telegrams |-> IF t \in Known THEN Append(ts, t) ELSE ts]
      <4>1. Parses(f) <=> t \in Known
        BY <2>1, FrameFacts DEF f
      <4>2. t \in Known => Parse(f) = t
        BY <2>1, FrameFacts DEF f
      <4> QED BY <1>4, <2>6, <2>8, <3>1, <3>2, <3>3, <4>1, <4>2
    <3>5. e + n \in d + 13 .. m
      BY <2>1, <2>8
    <3>6. Done(b, r, e + n, j + 1)
      <4>1. ASSUME NEW i \in 1 .. j + 1 PROVE r[i].end <= b + (e + n)
        <5>1. CASE i = j + 1
          BY <2>1, <5>1
        <5>2. CASE i \in 1 .. j
          <6>1. r[i].end <= b + d /\ r[i].end \in Nat
            BY <1>6, <5>2 DEF Done
          <6>2. b + d <= b + (e + n)
            BY <2>1
          <6> QED BY <2>1, <6>1, <6>2
        <5> QED BY <5>1, <5>2
      <4>2. ASSUME NEW i \in j + 1 + 1 .. Len(r) PROVE b + (e + n) <= First(r[i])
        <5>1. r[j + 1].end <= First(r[i])
          BY <2>1 DEF Ordered
        <5> QED BY <2>1, <5>1
      <4> QED BY <4>1, <4>2 DEF Done
    <3>7. ~ Settled(b, r, m, d, j)
      <4>1. ~ (b + m < r[j + 1].end) /\ j + 1 \in j + 1 .. Len(r)
        BY <2>1, <2>8
      <4> QED BY <4>1 DEF Settled
    <3>8. Turn(state) = Loop(B, m, e + n, IF t \in Known THEN Append(ts, t) ELSE ts)
      BY <3>4, Zenon DEF Loop
    <3>9. j < Len(r)
      BY <1>8
    <3> QED BY <3>5, <3>6, <3>7, <3>8, <3>9, Zenon DEF Takes, state, t
  <2> QED BY <2>7, <2>8
<1> QED BY <1>1, <1>7, <1>8

LEMMA HandedOverSteps ==
  ASSUME NEW q \in Seq(Telegrams)
  PROVE  LET handed == Channel!HandedOver(q) IN
         /\ handed[0] = <<>>
         /\ \A k \in 1 .. Len(q) :
              handed[k] = IF q[k] \in Known THEN Append(handed[k - 1], q[k]) ELSE handed[k - 1]
         /\ \A k \in 0 .. Len(q) : handed[k] \in Seq(Known)
<1> DEFINE n == Len(q)
           S == Seq(Known)
           Step(k, h) == IF q[k] \in Known THEN Append(h, q[k]) ELSE h
           g == [k \in 1 .. n |-> [h \in S |-> Step(k, h)]]
           Unfolds(f) == f = [k \in 0 .. n |-> IF k = 0 THEN <<>> ELSE Step(k, f[k - 1])]
           handed == Channel!HandedOver(q)
<1>1. n \in Nat /\ \A k \in 1 .. n, h \in S : Step(k, h) \in S
  OBVIOUS
<1>2. <<>> \in S
  OBVIOUS
<1> HIDE DEF S, Step
<1>3. g \in StepsOn(S, n) /\ \A k \in 1 .. n, h \in S : g[k][h] = Step(k, h)
  BY <1>1 DEF StepsOn
<1> HIDE DEF g
<1>4. PICK f : f \in Runs(S, <<>>, n, g)
  <2> HIDE DEF n
  <2> QED BY <1>1, <1>2, <1>3, Recursion
<1>5. /\ f \in [0 .. n -> S] /\ f[0] = <<>>
      /\ \A k \in 1 .. n : f[k] = g[k][f[k - 1]]
  BY <1>4 DEF Runs
<1>6. \A k \in 1 .. n : f[k - 1] \in S
  BY <1>1, <1>5
<1>7. \A k \in 1 .. n : f[k] = Step(k, f[k - 1])
  BY <1>3, <1>5, <1>6
<1>8. Unfolds(f)
  BY <1>1, <1>5, <1>7
<1>9. Unfolds(handed)
  BY <1>8, Zenon DEF Channel!HandedOver, Step
<1> HIDE DEF handed
<1>10. \A k \in 0 .. n : handed[k] = IF k = 0 THEN <<>> ELSE Step(k, handed[k - 1])
  BY <1>9, Zenon
<1>11. 0 \in 0 .. n /\ \A k \in 1 .. n : k \in 0 .. n /\ k # 0
  BY <1>1
<1>12. handed[0] = <<>> /\ \A k \in 1 .. n : handed[k] = Step(k, handed[k - 1])
  BY <1>10, <1>11, Zenon
<1>13. \A k \in 0 .. n : handed[k] \in S
  <2>1. \A k \in 1 .. n : handed[k - 1] \in S => handed[k] \in S
    BY <1>1, <1>12
  <2>2. handed[0] \in S
    BY <1>2, <1>12
  <2> HIDE DEF n
  <2> QED BY <1>1, <2>1, <2>2, Stays
<1> QED BY <1>12, <1>13 DEF S, Step, handed

\* The states of the loop after each of its turns
Turns(bytes, turns, after) ==
  /\ Deframe(bytes) = after[turns]
  /\ after[0] = [buffer |-> bytes, telegrams |-> <<>>]
  /\ \A k \in 1 .. turns : after[k] = Turn(after[k - 1])

\* The turns of the loop exist.
LEMMA DeframeSteps ==
  ASSUME NEW bytes, NEW turns \in Nat, turns = Len(bytes) \div MIN_TELEGRAM_SIZE + 1
  PROVE  \E after : Turns(bytes, turns, after)
<1> DEFINE start == [buffer |-> bytes, telegrams |-> <<>>]
           Unfolds(f, n) == f = [k \in 0 .. n |-> IF k = 0 THEN start ELSE Turn(f[k - 1])]
           Good == {n \in Nat : \E f : Unfolds(f, n)}
<1> HIDE DEF start
<1>1. 0 \in Good
  <2> DEFINE f == [k \in 0 .. 0 |-> start]
  <2>1. f = [k \in 0 .. 0 |-> IF k = 0 THEN start ELSE Turn(f[k - 1])]
    OBVIOUS
  <2> HIDE DEF f
  <2> QED BY <2>1
<1>2. ASSUME NEW n \in Nat, n \in Good PROVE n + 1 \in Good
  <2>1. PICK f : Unfolds(f, n)
    BY <1>2
  <2>2. \A k \in 0 .. n : f[k] = IF k = 0 THEN start ELSE Turn(f[k - 1])
    BY <2>1, Zenon
  <2> DEFINE h == [k \in 0 .. n + 1 |-> IF k = n + 1 THEN Turn(f[n]) ELSE f[k]]
  <2>3. h = [k \in 0 .. n + 1 |-> h[k]]
    OBVIOUS
  <2>4. \A k \in 0 .. n : h[k] = f[k]
    OBVIOUS
  <2>5. h[n + 1] = Turn(f[n])
    <3>1. n + 1 \in 0 .. n + 1
      OBVIOUS
    <3> QED BY <3>1
  <2> HIDE DEF h
  <2>6. ASSUME NEW k \in 0 .. n + 1
        PROVE  h[k] = IF k = 0 THEN start ELSE Turn(h[k - 1])
    <3>1. CASE k = n + 1
      <4>1. n \in 0 .. n /\ k - 1 = n /\ k # 0
        BY <3>1
      <4> QED BY <2>4, <2>5, <3>1, <4>1
    <3>2. CASE k \in 1 .. n
      <4>1. k - 1 \in 0 .. n /\ k \in 0 .. n /\ k # 0
        BY <3>2
      <4> QED BY <2>2, <2>4, <4>1
    <3>3. CASE k = 0
      <4>1. 0 \in 0 .. n
        OBVIOUS
      <4> QED BY <2>2, <2>4, <3>3, <4>1
    <3> QED BY <3>1, <3>2, <3>3
  <2>7. Unfolds(h, n + 1)
    BY <2>3, <2>6
  <2> QED BY <2>7
<1>3. Nat \subseteq Good
  <2> HIDE DEF Good
  <2> QED BY <1>1, <1>2, SetInduction
<1>4. \E f : Unfolds(f, turns)
  BY <1>3
<1> DEFINE after == CHOOSE f : Unfolds(f, turns)
<1>5. Unfolds(after, turns)
  BY <1>4, Zenon
<1>6. Deframe(bytes) = after[turns]
  BY Zenon DEF Deframe, start
<1> HIDE DEF after
<1>7. \A k \in 0 .. turns : after[k] = IF k = 0 THEN start ELSE Turn(after[k - 1])
  BY <1>5, Zenon
<1>8. 0 \in 0 .. turns /\ \A k \in 1 .. turns : k \in 0 .. turns /\ k # 0
  OBVIOUS
<1>9. after[0] = start /\ \A k \in 1 .. turns : after[k] = Turn(after[k - 1])
  BY <1>7, <1>8, Zenon
<1> QED BY <1>6, <1>9, Zenon DEF start, Turns

\* The loop comes to its end, has used d bytes then and handed over what is known
\* of the first j telegrams.
LEMMA DeframeFacts ==
  ASSUME NEW B \in Seq(Byte), NEW b \in Nat, NEW r \in Seq(Entry), Laid(B, b, r), Ordered(r),
         NEW m \in 0 .. Len(B)
  PROVE  \E d \in 0 .. m, j \in 0 .. Len(r) :
           /\ Done(b, r, d, j) /\ Settled(b, r, m, d, j)
           /\ Deframe(SubSeq(B, 1, m)) =
                [buffer |-> SubSeq(B, d + 1, m),
                 telegrams |-> Channel!HandedOver(Queued(r))[j]]
<1> DEFINE X == SubSeq(B, 1, m)
           turns == Len(X) \div MIN_TELEGRAM_SIZE + 1
           q == Queued(r)
           handed == Channel!HandedOver(q)
           State(d, j) == Loop(B, m, d, handed[j])
<1>1. X \in Seq(Byte) /\ Len(X) = m
  BY CutHead, Zenon
<1>2. turns \in Nat /\ m < 13 * turns
  <2>1. MIN_TELEGRAM_SIZE = 13
    BY DEF MIN_TELEGRAM_SIZE, HEADER_SIZE
  <2>2. m \in Nat
    OBVIOUS
  <2>3. m \div 13 + 1 \in Nat /\ m < 13 * (m \div 13 + 1)
    BY <2>2
  <2> HIDE DEF X
  <2> QED BY <1>1, <2>1, <2>3
<1> HIDE DEF turns
<1>3. PICK after : Turns(X, turns, after)
  <2>1. turns = Len(X) \div MIN_TELEGRAM_SIZE + 1
    BY Zenon DEF turns
  <2> HIDE DEF X
  <2> QED BY <1>2, <2>1, DeframeSteps, Zenon
<1>4. /\ Len(q) = Len(r)
      /\ \A i \in 1 .. Len(r) : q[i] = r[i].telegram
      /\ handed[0] = <<>>
      /\ \A k \in 1 .. Len(r) :
           handed[k] = IF q[k] \in Known THEN Append(handed[k - 1], q[k]) ELSE handed[k - 1]
  <2>1. ASSUME NEW i \in 1 .. Len(r) PROVE r[i].telegram \in Telegrams
    <3>1. r[i] \in Entry
      BY EndFacts
    <3> QED BY <3>1, EntryFacts
  <2>2. q \in Seq(Telegrams) /\ Len(q) = Len(r) /\ \A i \in 1 .. Len(r) : q[i] = r[i].telegram
    BY <2>1 DEF Queued
  <2> HIDE DEF q
  <2> QED BY <2>2, HandedOverSteps
<1> HIDE DEF handed, q
<1> DEFINE At(k, d, j) == /\ Done(b, r, d, j) /\ after[k] = State(d, j)
                          /\ Settled(b, r, m, d, j) \/ 13 * k <= d
           Good == {k \in Nat : k <= turns => \E d \in 0 .. m, j \in 0 .. Len(r) : At(k, d, j)}
<1>5. 0 \in Good
  <2>1. Done(b, r, 0, 0)
    <3>1. \A i \in 0 + 1 .. Len(r) : b + 0 <= First(r[i])
      BY DEF Laid
    <3>2. \A i \in 1 .. 0 : r[i].end <= b + 0
      OBVIOUS
    <3> QED BY <3>1, <3>2 DEF Done
  <2>2. after[0] = State(0, 0)
    <3>1. after[0] = [buffer |-> X, telegrams |-> <<>>] /\ handed[0] = <<>>
      BY <1>3, <1>4, Zenon DEF Turns
    <3>2. X = SubSeq(B, 0 + 1, m)
      OBVIOUS
    <3> QED BY <3>1, <3>2, Zenon DEF Loop
  <2>3. 0 \in 0 .. m /\ 0 \in 0 .. Len(r)
    <3>1. m \in Nat /\ Len(r) \in Nat
      OBVIOUS
    <3> QED BY <3>1
  <2>4. At(0, 0, 0)
    BY <2>1, <2>2
  <2> HIDE DEF At
  <2> QED BY <2>3, <2>4
<1>6. ASSUME NEW k \in Nat, k \in Good PROVE k + 1 \in Good
  <2> SUFFICES ASSUME k + 1 <= turns
               PROVE  \E d \in 0 .. m, j \in 0 .. Len(r) : At(k + 1, d, j)
    OBVIOUS
  <2>1. PICK d \in 0 .. m, j \in 0 .. Len(r) : At(k, d, j)
    <3>1. k <= turns
      BY <1>2
    <3> HIDE DEF At
    <3> QED BY <1>6, <3>1
  <2>2. Done(b, r, d, j) /\ after[k] = State(d, j)
    BY <2>1, Zenon
  <2>3. Settled(b, r, m, d, j) \/ 13 * k <= d
    BY <2>1, Zenon
  <2>4. after[k + 1] = Turn(State(d, j))
    <3>1. PICK l \in 1 .. turns : l = k + 1 /\ l - 1 = k
      BY <1>2
    <3> QED BY <1>3, <2>2, <3>1, Zenon DEF Turns
  <2>5. CASE Waits(B, b, r, m, d, j, handed[j])
    <3>1. PICK e \in d .. m : /\ Turn(State(d, j)) = State(e, j)
                              /\ Done(b, r, e, j) /\ Settled(b, r, m, e, j)
      BY <2>5, Zenon DEF Waits
    <3>2. At(k + 1, e, j)
      BY <2>4, <3>1, Zenon
    <3>3. e \in 0 .. m
      OBVIOUS
    <3> HIDE DEF At
    <3> QED BY <3>2, <3>3, Zenon
  <2>6. CASE Takes(B, b, r, m, d, j, handed[j])
    <3> DEFINE more == IF r[j + 1].telegram \in Known
                       THEN Append(handed[j], r[j + 1].telegram) ELSE handed[j]
    <3>1. PICK e \in d + 13 .. m :
            /\ j < Len(r) /\ ~ Settled(b, r, m, d, j) /\ Done(b, r, e, j + 1)
            /\ Turn(State(d, j)) = Loop(B, m, e, more)
      BY <2>6, Zenon DEF Takes
    <3>2. PICK l \in 1 .. Len(r) : l = j + 1 /\ l - 1 = j
      BY <3>1
    <3>3. handed[l] = more
      BY <1>4, <3>2, Zenon
    <3>4. after[k + 1] = State(e, j + 1)
      BY <2>4, <3>1, <3>2, <3>3, Zenon
    <3>5. 13 * (k + 1) <= e
      <4>1. 13 * k <= d
        BY <2>3, <3>1
      <4> QED BY <4>1
    <3>6. At(k + 1, e, j + 1)
      BY <3>1, <3>4, <3>5, Zenon
    <3>7. e \in 0 .. m /\ j + 1 \in 0 .. Len(r)
      BY <3>1
    <3> HIDE DEF At
    <3> QED BY <3>6, <3>7, Zenon
  <2>7. Waits(B, b, r, m, d, j, handed[j]) \/ Takes(B, b, r, m, d, j, handed[j])
    BY <2>2, TurnFacts, Zenon
  <2> HIDE DEF At
  <2> QED BY <2>5, <2>6, <2>7, Zenon
<1>7. Nat \subseteq Good
  <2> HIDE DEF Good
  <2> QED BY <1>5, <1>6, SetInduction
<1>8. PICK d \in 0 .. m, j \in 0 .. Len(r) : At(turns, d, j)
  <2> HIDE DEF At
  <2> QED BY <1>2, <1>7
<1>9. Done(b, r, d, j) /\ after[turns] = State(d, j)
  BY <1>8, Zenon
<1>10. Settled(b, r, m, d, j) \/ 13 * turns <= d
  BY <1>8, Zenon
<1>11. Settled(b, r, m, d, j)
  BY <1>2, <1>10
<1> QED BY <1>3, <1>9, <1>11, Zenon DEF handed, q, Loop, Turns, X

(***************************************************************************)
(* One connection: w is under way, x in the buffer, s was sent, a bytes    *)
(* were read.                                                              *)
(***************************************************************************)

\* The first p telegrams have been read to their end, the others have not.
Upto(s, a, p) ==
  /\ \A i \in 1 .. p : s[i].end <= a
  /\ \A i \in p + 1 .. Len(s) : a < s[i].end

Sound(w, x, s, a) ==
  /\ w \in Seq(Byte) /\ x \in Seq(Byte) /\ s \in Seq(Entry)
  /\ a \in Nat /\ Len(x) <= a
  /\ Ordered(s)
  /\ \A i \in 1 .. Len(s) : s[i].end <= a + Len(w)
  /\ \E p \in 0 .. Len(s) :
       Upto(s, a, p) /\ Laid(x \o w, a - Len(x), SubSeq(s, p + 1, Len(s)))

CountOf(s, a) == Cardinality({i \in DOMAIN s : s[i].end <= a})

RestOf(s, a) == SubSeq(s, CountOf(s, a) + 1, Len(s))

LEMMA CountIs ==
  ASSUME NEW s \in Seq(Entry), NEW a \in Nat, NEW p \in 0 .. Len(s), Upto(s, a, p)
  PROVE  CountOf(s, a) = p
<1>1. DOMAIN s = 1 .. Len(s) /\ Len(s) \in Nat
  OBVIOUS
<1>2. ASSUME NEW i \in 1 .. Len(s) PROVE s[i].end <= a <=> i \in 1 .. p
  <2>1. s[i].end \in Nat
    BY EndFacts
  <2> QED BY <2>1 DEF Upto
<1>3. {i \in DOMAIN s : s[i].end <= a} = 1 .. p
  BY <1>1, <1>2
<1>4. Cardinality(1 .. p) = p
  <2>1. 1 \in Int /\ p \in Int /\ p - 1 + 1 = p /\ (1 > p => p = 0)
    BY <1>1
  <2>2. Cardinality(1 .. p) = IF 1 > p THEN 0 ELSE p - 1 + 1
    BY FS_Interval
  <2> QED BY <2>1, <2>2
<1> QED BY <1>3, <1>4, Zenon DEF CountOf

Quiet(noise) == noise \in Seq(Byte) /\ \A k \in 1 .. Len(noise) : noise[k] # STX

\* The entry of telegram t, written behind the first n bytes of the connection
Behind(e, t, n) == e \in Entry /\ e.telegram = t /\ e.end = n + Len(Frame[t])

\* Noise and a frame go behind what is laid out.
LEMMA LaidMore ==
  ASSUME NEW B \in Seq(Byte), NEW b \in Nat, NEW r \in Seq(Entry), Laid(B, b, r),
         NEW noise, Quiet(noise), NEW t \in Telegrams,
         NEW n \in Nat, n = b + Len(B) + Len(noise), NEW e, Behind(e, t, n)
  PROVE  Laid(B \o (noise \o Frame[t]), b, Append(r, e))
<1> DEFINE f == Frame[t]
           v == noise \o f
           A == B \o v
           q == Append(r, e)
<1>1. f \in Seq(Byte) /\ noise \in Seq(Byte) /\ e \in Entry /\ e.telegram = t
  BY FrameFacts, Zenon DEF Quiet, Behind
<1>2. Joint(v, noise, f)
  BY <1>1, JointConcat, Zenon
<1> HIDE DEF v
<1>3. Joint(A, B, v)
  <2>1. v \in Seq(Byte)
    BY <1>2, Zenon DEF Joint
  <2> QED BY <2>1, JointConcat, Zenon
<1> HIDE DEF f, A
<1>4. /\ q \in Seq(Entry) /\ Len(q) = Len(r) + 1 /\ Len(r) \in Nat
      /\ \A i \in 1 .. Len(r) : q[i] = r[i]
      /\ q[Len(r) + 1] = e
  <2>1. e \in Entry
    BY <1>1
  <2> QED BY <2>1
<1> HIDE DEF q
<1>5. /\ Len(B) \in Nat /\ Len(noise) \in Nat /\ Len(f) \in Nat
      /\ Len(v) = Len(noise) + Len(f) /\ Len(A) = Len(B) + Len(v)
  <2>1. Len(noise) \in Nat /\ Len(f) \in Nat
    BY <1>1
  <2> QED BY <1>2, <1>3, <2>1 DEF Joint
<1>6. e.end = b + Len(A) /\ First(e) = b + Len(B) + Len(noise)
  <2>1. e.end = n + Len(f) /\ First(e) = e.end - Len(f)
    BY Zenon DEF Behind, First, f
  <2> QED BY <1>5, <2>1
<1>7. ASSUME NEW i \in 1 .. Len(q)
      PROVE  /\ b <= First(q[i]) /\ q[i].end <= b + Len(A)
             /\ Holds(A, First(q[i]) - b, Frame[q[i].telegram])
  <2>1. CASE i \in 1 .. Len(r)
    <3>1. /\ q[i] = r[i] /\ r[i].telegram \in Telegrams /\ r[i].end \in Nat
          /\ First(r[i]) \in Int /\ First(r[i]) + Len(Frame[r[i].telegram]) = r[i].end
      BY <1>4, <2>1, EndFacts, EntryFacts
    <3>2. /\ b <= First(r[i]) /\ r[i].end <= b + Len(B)
          /\ Holds(B, First(r[i]) - b, Frame[r[i].telegram])
      BY <2>1 DEF Laid
    <3> DEFINE g == Frame[r[i].telegram]
    <3>3. Len(g) \in Nat
      BY <3>1, FrameFacts
    <3> HIDE DEF g
    <3>4. ASSUME NEW k \in 1 .. Len(g) PROVE A[First(r[i]) - b + k] = g[k]
      <4>1. First(r[i]) - b + k \in 1 .. Len(B)
        <5> DEFINE x == First(r[i])
        <5>1. x \in Int /\ b <= x /\ x + Len(g) <= b + Len(B)
          BY <3>1, <3>2 DEF g
        <5> HIDE DEF x
        <5>2. x - b + k \in 1 .. Len(B)
          BY <1>5, <3>3, <5>1
        <5> QED BY <5>2 DEF x
      <4>2. B[First(r[i]) - b + k] = g[k]
        BY <3>2 DEF Holds, g
      <4> QED BY <1>3, <4>1, <4>2, Zenon DEF Joint
    <3>5. Holds(A, First(r[i]) - b, g)
      BY <3>4, Zenon DEF Holds
    <3>6. r[i].end <= b + Len(A)
      <4> DEFINE u == r[i].end
      <4>1. u \in Nat /\ u <= b + Len(B)
        BY <3>1, <3>2
      <4> HIDE DEF u
      <4>2. u <= b + Len(A)
        BY <1>5, <4>1
      <4> QED BY <4>2 DEF u
    <3> QED BY <3>1, <3>2, <3>5, <3>6, Zenon DEF g
  <2>2. CASE i = Len(r) + 1
    <3>1. q[i] = e
      BY <1>4, <2>2
    <3>2. ASSUME NEW k \in 1 .. Len(f) PROVE A[First(e) - b + k] = f[k]
      <4>1. First(e) - b + k = Len(B) + (Len(noise) + k) /\ Len(noise) + k \in 1 .. Len(v)
        BY <1>5, <1>6
      <4> QED BY <1>2, <1>3, <4>1 DEF Joint
    <3>3. Holds(A, First(e) - b, f)
      BY <3>2, Zenon DEF Holds
    <3>4. b <= First(e) /\ e.end <= b + Len(A)
      BY <1>5, <1>6
    <3> QED BY <1>1, <3>1, <3>3, <3>4, Zenon DEF f
  <2> QED BY <1>4, <2>1, <2>2
<1>8. ASSUME NEW y \in 1 .. Len(A), A[y] = STX
      PROVE  \E i \in 1 .. Len(q) : First(q[i]) < b + y /\ b + y <= q[i].end
  <2>1. CASE y <= Len(B)
    <3>1. y \in 1 .. Len(B)
      BY <2>1
    <3>2. B[y] = STX
      BY <1>3, <1>8, <3>1, Zenon DEF Joint
    <3>3. PICK i \in 1 .. Len(r) : First(r[i]) < b + y /\ b + y <= r[i].end
      BY <3>1, <3>2 DEF Laid
    <3>4. i \in 1 .. Len(q) /\ q[i] = r[i]
      BY <1>4
    <3> QED BY <3>3, <3>4
  <2>2. CASE Len(B) < y /\ y <= Len(B) + Len(noise)
    <3>1. PICK k \in 1 .. Len(noise) : y = Len(B) + k
      <4>1. y - Len(B) \in 1 .. Len(noise) /\ y = Len(B) + (y - Len(B))
        BY <1>5, <2>2
      <4> QED BY <4>1
    <3>2. k \in 1 .. Len(v)
      BY <1>5
    <3>3. A[y] = noise[k]
      BY <1>2, <1>3, <3>1, <3>2, Zenon DEF Joint
    <3> QED BY <1>8, <3>1, <3>3 DEF Quiet
  <2>3. CASE Len(B) + Len(noise) < y
    <3>1. First(e) < b + y /\ b + y <= e.end
      BY <1>5, <1>6, <2>3
    <3>2. Len(r) + 1 \in 1 .. Len(q)
      BY <1>4
    <3> QED BY <1>4, <3>1, <3>2
  <2> QED BY <1>5, <2>1, <2>2, <2>3
<1>9. Laid(A, b, q)
  BY <1>7, <1>8, Zenon DEF Laid
<1> QED BY <1>9 DEF A, q, v, f

\* What is behind the bytes used is laid out as before.
LEMMA LaidLess ==
  ASSUME NEW B \in Seq(Byte), NEW b \in Nat, NEW r \in Seq(Entry), Laid(B, b, r),
         NEW d \in 0 .. Len(B), NEW j \in 0 .. Len(r), Done(b, r, d, j)
  PROVE  Laid(SubSeq(B, d + 1, Len(B)), b + d, SubSeq(r, j + 1, Len(r)))
<1> DEFINE A == SubSeq(B, d + 1, Len(B))
           q == SubSeq(r, j + 1, Len(r))
<1>1. Len(B) \in Nat /\ Len(r) \in Nat /\ Len(B) \in 0 .. Len(B) /\ Len(r) \in 0 .. Len(r)
  OBVIOUS
<1>2. /\ A \in Seq(Byte) /\ Len(A) = Len(B) - d
      /\ \A k \in 1 .. Len(B) - d : A[k] = B[d + k]
  BY <1>1, Cut
<1>3. /\ q \in Seq(Entry) /\ Len(q) = Len(r) - j
      /\ \A i \in 1 .. Len(r) - j : q[i] = r[j + i]
  BY <1>1, Cut
<1> HIDE DEF A, q
<1>4. ASSUME NEW i \in 1 .. Len(q)
      PROVE  /\ b + d <= First(q[i]) /\ q[i].end <= b + d + Len(A)
             /\ Holds(A, First(q[i]) - (b + d), Frame[q[i].telegram])
  <2>1. PICK l \in j + 1 .. Len(r) : l = j + i
    BY <1>1, <1>3
  <2>2. q[i] = r[l] /\ l \in 1 .. Len(r)
    BY <1>1, <1>3, <2>1
  <2>3. /\ r[l].telegram \in Telegrams /\ r[l].end \in Nat
        /\ First(r[l]) \in Int /\ First(r[l]) + Len(Frame[r[l].telegram]) = r[l].end
    BY <2>2, EndFacts, EntryFacts
  <2>4. /\ b <= First(r[l]) /\ r[l].end <= b + Len(B)
        /\ Holds(B, First(r[l]) - b, Frame[r[l].telegram])
    BY <2>2 DEF Laid
  <2>5. b + d <= First(r[l])
    BY DEF Done
  <2> DEFINE g == Frame[r[l].telegram]
  <2>6. Len(g) \in Nat
    BY <2>3, FrameFacts
  <2> HIDE DEF g
  <2>7. ASSUME NEW k \in 1 .. Len(g) PROVE A[First(r[l]) - (b + d) + k] = g[k]
    <3>1. /\ First(r[l]) - (b + d) + k \in 1 .. Len(B) - d
          /\ d + (First(r[l]) - (b + d) + k) = First(r[l]) - b + k
      <4> DEFINE x == First(r[l])
      <4>1. x \in Int /\ b + d <= x /\ x + Len(g) <= b + Len(B)
        BY <2>3, <2>4, <2>5 DEF g
      <4> HIDE DEF x
      <4>2. x - (b + d) + k \in 1 .. Len(B) - d /\ d + (x - (b + d) + k) = x - b + k
        BY <1>1, <2>6, <4>1
      <4> QED BY <4>2 DEF x
    <3>2. B[First(r[l]) - b + k] = g[k]
      BY <2>4 DEF Holds, g
    <3> QED BY <1>2, <3>1, <3>2
  <2>8. Holds(A, First(r[l]) - (b + d), g)
    BY <2>7, Zenon DEF Holds
  <2>9. r[l].end <= b + d + Len(A)
    BY <1>1, <1>2, <2>3, <2>4
  <2> QED BY <2>2, <2>5, <2>8, <2>9, Zenon DEF g
<1>5. ASSUME NEW y \in 1 .. Len(A), A[y] = STX
      PROVE  \E i \in 1 .. Len(q) : First(q[i]) < b + d + y /\ b + d + y <= q[i].end
  <2>1. d + y \in 1 .. Len(B) /\ y \in 1 .. Len(B) - d /\ b + (d + y) = b + d + y
    BY <1>1, <1>2
  <2>2. B[d + y] = STX
    BY <1>2, <1>5, <2>1
  <2>3. PICK l \in 1 .. Len(r) : First(r[l]) < b + (d + y) /\ b + (d + y) <= r[l].end
    BY <2>1, <2>2 DEF Laid
  <2>4. ~ (l \in 1 .. j)
    <3>1. ASSUME l \in 1 .. j PROVE FALSE
      <4>1. r[l].end <= b + d /\ r[l].end \in Nat
        BY <3>1, EndFacts DEF Done
      <4> QED BY <2>3, <4>1
    <3> QED BY <3>1
  <2>5. PICK i \in 1 .. Len(q) : l = j + i
    <3>1. l - j \in 1 .. Len(q) /\ l = j + (l - j)
      BY <1>1, <1>3, <2>4
    <3> QED BY <3>1
  <2>6. q[i] = r[l]
    BY <1>3, <2>5
  <2> QED BY <2>1, <2>3, <2>6
<1>6. Laid(A, b + d, q)
  BY <1>4, <1>5, Zenon DEF Laid
<1> QED BY <1>6 DEF A, q

LEMMA SoundAtFirst == Sound(<<>>, <<>>, <<>>, 0)
<1>1. <<>> \in Seq(Byte) /\ <<>> \in Seq(Entry) /\ Len(<<>>) = 0 /\ <<>> \o <<>> = <<>>
  OBVIOUS
<1>2. Upto(<<>>, 0, 0)
  BY <1>1 DEF Upto
<1>3. SubSeq(<<>>, 0 + 1, Len(<<>>)) = <<>>
  OBVIOUS
<1>4. Laid(<<>> \o <<>>, 0 - Len(<<>>), SubSeq(<<>>, 0 + 1, Len(<<>>)))
  <2>1. Laid(<<>>, 0, <<>>)
    <3>1. 1 .. Len(<<>>) = {}
      BY <1>1
    <3> QED BY <3>1, Zenon DEF Laid
  <2>2. 0 - Len(<<>>) = 0
    <3>1. Len(<<>>) = 0 /\ 0 - 0 = 0
      OBVIOUS
    <3> QED BY <3>1, Zenon
  <2> QED BY <1>1, <1>3, <2>1, <2>2
<1>5. Ordered(<<>>)
  BY <1>1 DEF Ordered
<1>6. 0 \in 0 .. Len(<<>>)
  BY <1>1
<1>7. \A i \in 1 .. Len(<<>>) : <<>>[i].end <= 0 + Len(<<>>)
  BY <1>1
<1>8. 0 \in Nat /\ Len(<<>>) <= 0
  BY <1>1
<1> QED BY <1>1, <1>2, <1>4, <1>5, <1>6, <1>7, <1>8, Zenon DEF Sound

LEMMA Associates ==
  ASSUME NEW x \in Seq(Byte), NEW w \in Seq(Byte), NEW v \in Seq(Byte)
  PROVE  (x \o w) \o v = x \o (w \o v)
BY ConcatAssociative

\* e is the entry of telegram t, sent after noise.
Follows(e, t, noise, w, a) ==
  \E n \in Nat : n = a + Len(w) + Len(noise) /\ Behind(e, t, n)

Sends(w, x, s, a, bytes, e) ==
  /\ Sound(w \o bytes, x, Append(s, e), a)
  /\ RestOf(Append(s, e), a) = Append(RestOf(s, a), e)

\* What is sent is behind everything else, and still on its way.
LEMMA SendSound ==
  ASSUME NEW w, NEW x, NEW s, NEW a, Sound(w, x, s, a),
         NEW noise, Quiet(noise), NEW t \in Telegrams,
         NEW e, Follows(e, t, noise, w, a)
  PROVE  Sends(w, x, s, a, noise \o Frame[t], e)
<1> DEFINE f == Frame[t]
           v == noise \o f
           u == w \o v
           q == Append(s, e)
<1>0. PICK n \in Nat : n = a + Len(w) + Len(noise) /\ Behind(e, t, n)
  BY Zenon DEF Follows
<1>1. /\ w \in Seq(Byte) /\ x \in Seq(Byte) /\ s \in Seq(Entry)
      /\ a \in Nat /\ Len(x) <= a /\ Ordered(s)
      /\ \A i \in 1 .. Len(s) : s[i].end <= a + Len(w)
  BY Zenon DEF Sound
<1>2. PICK p \in 0 .. Len(s) :
        Upto(s, a, p) /\ Laid(x \o w, a - Len(x), SubSeq(s, p + 1, Len(s)))
  BY Zenon DEF Sound
<1>3. noise \in Seq(Byte) /\ f \in Seq(Byte) /\ e \in Entry /\ e.telegram = t
  BY <1>0, FrameFacts, Zenon DEF Quiet, Behind
<1>4. v \in Seq(Byte) /\ Len(v) = Len(noise) + Len(f)
  BY <1>3, JointConcat, Zenon DEF Joint
<1>5. e.end = n + Len(f) /\ First(e) = n /\ Len(f) \in Nat /\ Len(f) >= 13
  <2>1. e.end = n + Len(f) /\ First(e) = e.end - Len(f)
    BY <1>0, Zenon DEF Behind, First
  <2>2. Len(f) \in Nat /\ Len(f) >= 13
    BY FrameFacts, Zenon
  <2> HIDE DEF f
  <2> QED BY <2>1, <2>2
<1> HIDE DEF v, f
<1>6. u \in Seq(Byte) /\ Len(u) = Len(w) + Len(v)
  BY <1>1, <1>4, JointConcat, Zenon DEF Joint
<1>7. /\ Len(w) \in Nat /\ Len(noise) \in Nat /\ Len(x) \in Nat /\ Len(s) \in Nat
      /\ a \in Nat
  BY <1>1, <1>3
<1>8. e.end = a + Len(u)
  <2>1. Len(u) = Len(w) + (Len(noise) + Len(f))
    BY <1>4, <1>6, Zenon
  <2>2. n + Len(f) = a + (Len(w) + (Len(noise) + Len(f)))
    BY <1>0, <1>5, <1>7
  <2> QED BY <1>5, <2>1, <2>2, Zenon
<1>9. /\ q \in Seq(Entry) /\ Len(q) = Len(s) + 1
      /\ \A i \in 1 .. Len(s) : q[i] = s[i]
      /\ q[Len(s) + 1] = e
  BY <1>1, <1>3
<1> HIDE DEF u, q
<1>10. Ordered(q)
  <2> SUFFICES ASSUME NEW i \in 1 .. Len(q), NEW k \in 1 .. Len(q), i < k
               PROVE  q[i].end <= First(q[k])
    BY DEF Ordered
  <2>1. i \in 1 .. Len(s) /\ q[i] = s[i]
    BY <1>7, <1>9
  <2>2. CASE k \in 1 .. Len(s)
    BY <1>1, <1>9, <2>1, <2>2, Zenon DEF Ordered
  <2>3. CASE k = Len(s) + 1
    <3>1. s[i].end <= a + Len(w) /\ s[i].end \in Nat
      BY <1>1, <2>1, EndFacts
    <3>2. s[i].end <= n
      BY <1>0, <1>7, <3>1
    <3> QED BY <1>5, <1>9, <2>1, <2>3, <3>2
  <2>4. k \in 1 .. Len(s) \/ k = Len(s) + 1
    <3>1. Len(q) = Len(s) + 1
      BY <1>9
    <3> QED BY <1>7, <3>1
  <2> QED BY <2>2, <2>3, <2>4, Zenon
<1>11. \A i \in 1 .. Len(q) : q[i].end <= a + Len(u)
  <2> SUFFICES ASSUME NEW i \in 1 .. Len(q) PROVE q[i].end <= a + Len(u)
    OBVIOUS
  <2>1. CASE i \in 1 .. Len(s)
    <3>1. q[i] = s[i] /\ s[i].end <= a + Len(w)
      BY <1>1, <1>9, <2>1, Zenon
    <3>2. s[i].end \in Nat
      BY <1>1, <2>1, EndFacts, Zenon
    <3>3. Len(w) <= Len(u) /\ Len(u) \in Nat
      BY <1>4, <1>5, <1>6, <1>7
    <3> QED BY <1>7, <3>1, <3>2, <3>3
  <2>2. CASE i = Len(s) + 1
    <3>1. a + Len(u) \in Nat
      BY <1>1, <1>6
    <3> QED BY <1>8, <1>9, <2>2, <3>1
  <2> QED BY <1>7, <1>9, <2>1, <2>2
<1>12. Upto(q, a, p)
  <2>1. ASSUME NEW i \in 1 .. p PROVE q[i].end <= a
    <3>1. i \in 1 .. Len(s)
      BY <1>7
    <3> QED BY <1>2, <1>9, <3>1 DEF Upto
  <2>2. ASSUME NEW i \in p + 1 .. Len(q) PROVE a < q[i].end
    <3>1. CASE i \in p + 1 .. Len(s)
      <4>1. i \in 1 .. Len(s)
        BY <1>7, <3>1
      <4> QED BY <1>2, <1>9, <3>1, <4>1 DEF Upto
    <3>2. CASE i = Len(s) + 1
      <4>1. a < e.end
        BY <1>0, <1>5, <1>7
      <4> QED BY <1>9, <3>2, <4>1
    <3> QED BY <1>7, <1>9, <3>1, <3>2
  <2> QED BY <2>1, <2>2 DEF Upto
<1>13. p \in 0 .. Len(q)
  BY <1>7, <1>9
<1> DEFINE r == SubSeq(s, p + 1, Len(s))
           r2 == SubSeq(q, p + 1, Len(q))
<1>14. r2 = Append(r, e)
  <2>1. /\ r \in Seq(Entry) /\ Len(r) = Len(s) - p
        /\ \A i \in 1 .. Len(s) - p : r[i] = s[p + i]
    <3>1. Len(s) \in 0 .. Len(s)
      BY <1>7
    <3> QED BY <1>1, <3>1, Cut
  <2>2. /\ r2 \in Seq(Entry) /\ Len(r2) = Len(q) - p
        /\ \A i \in 1 .. Len(q) - p : r2[i] = q[p + i]
    <3>1. Len(q) \in 0 .. Len(q)
      BY <1>7, <1>9
    <3> QED BY <1>9, <1>13, <3>1, Cut
  <2> HIDE DEF r, r2
  <2> DEFINE r3 == Append(r, e)
  <2>3. /\ r3 \in Seq(Entry) /\ Len(r3) = Len(r) + 1
        /\ \A i \in 1 .. Len(r) : r3[i] = r[i]
        /\ r3[Len(r) + 1] = e
    BY <1>3, <2>1
  <2> HIDE DEF r3
  <2>4. Len(r2) = Len(r3)
    BY <1>7, <1>9, <2>1, <2>2, <2>3
  <2>5. ASSUME NEW i \in 1 .. Len(r2) PROVE r2[i] = r3[i]
    <3>1. i \in 1 .. Len(q) - p /\ r2[i] = q[p + i]
      BY <2>2
    <3>2. CASE i \in 1 .. Len(s) - p
      <4>1. p + i \in 1 .. Len(s)
        BY <1>7, <3>2
      <4> QED BY <1>9, <2>1, <2>3, <3>1, <3>2, <4>1
    <3>3. CASE i = Len(s) - p + 1
      <4>1. p + i = Len(s) + 1 /\ i = Len(r) + 1
        BY <1>7, <2>1, <3>3
      <4> QED BY <1>9, <2>3, <3>1, <4>1
    <3> QED BY <1>7, <1>9, <3>1, <3>2, <3>3
  <2>6. r2 = r3
    BY <2>2, <2>3, <2>4, <2>5, SeqEqual
  <2> QED BY <2>6 DEF r3
<1>15. Laid(x \o u, a - Len(x), r2)
  <2> DEFINE B == x \o w
             b == a - Len(x)
  <2>1. B \in Seq(Byte) /\ Len(B) = Len(x) + Len(w)
    BY <1>1, JointConcat, Zenon DEF Joint
  <2>2. b \in Nat /\ n = b + Len(B) + Len(noise)
    <3>1. Len(x) <= a
      BY <1>1
    <3> HIDE DEF B
    <3> QED BY <1>0, <1>7, <2>1, <3>1
  <2>3. r \in Seq(Entry)
    <3>1. Len(s) \in 0 .. Len(s)
      BY <1>7
    <3> QED BY <1>1, <3>1, Cut
  <2>4. Laid(B, b, r)
    BY <1>2
  <2> HIDE DEF B, b, r
  <2>5. Laid(B \o (noise \o Frame[t]), b, Append(r, e))
    BY <1>0, <2>1, <2>2, <2>3, <2>4, LaidMore, Zenon
  <2>6. B \o v = x \o u
    <3>1. x \in Seq(Byte) /\ w \in Seq(Byte) /\ v \in Seq(Byte)
      BY <1>1, <1>4, Zenon
    <3>2. (x \o w) \o v = x \o (w \o v)
      BY <3>1, Associates
    <3> QED BY <3>2, Zenon DEF B, u
  <2> QED BY <1>14, <2>5, <2>6, Zenon DEF v, f, b
<1>16. Sound(u, x, q, a)
  BY <1>1, <1>6, <1>9, <1>10, <1>11, <1>12, <1>13, <1>15, Zenon DEF Sound
<1>17. CountOf(s, a) = p /\ CountOf(q, a) = p
  BY <1>1, <1>2, <1>9, <1>12, <1>13, CountIs, Zenon
<1>18. RestOf(q, a) = Append(RestOf(s, a), e)
  BY <1>14, <1>17, Zenon DEF RestOf
<1> QED BY <1>16, <1>18, Zenon DEF Sends, u, v, f, q

\* A read of n bytes: the loop hands over what has come to its end, and the buffer
\* and what is still under way are as they should be.
Reads(w, x, s, a, n, j) ==
  LET result == Deframe(x \o SubSeq(w, 1, n))
      rest == RestOf(s, a)
  IN  /\ Sound(SubSeq(w, n + 1, Len(w)), result.buffer, s, a + n)
      /\ RestOf(s, a + n) = SubSeq(rest, j + 1, Len(rest))
      /\ result.telegrams = Channel!HandedOver(Queued(rest))[j]

LEMMA ReadSound ==
  ASSUME NEW w, NEW x, NEW s, NEW a, Sound(w, x, s, a), NEW n \in 0 .. Len(w)
  PROVE  /\ RestOf(s, a) \in Seq(Entry)
         /\ \E j \in 0 .. Len(RestOf(s, a)) : Reads(w, x, s, a, n, j)
<1>1. /\ w \in Seq(Byte) /\ x \in Seq(Byte) /\ s \in Seq(Entry)
      /\ a \in Nat /\ Len(x) <= a /\ Ordered(s)
      /\ \A i \in 1 .. Len(s) : s[i].end <= a + Len(w)
  BY Zenon DEF Sound
<1>2. PICK p \in 0 .. Len(s) :
        Upto(s, a, p) /\ Laid(x \o w, a - Len(x), SubSeq(s, p + 1, Len(s)))
  BY Zenon DEF Sound
<1> DEFINE r == SubSeq(s, p + 1, Len(s))
           B == x \o w
           b == a - Len(x)
           m == Len(x) + n
<1>3. /\ Len(w) \in Nat /\ Len(x) \in Nat /\ Len(s) \in Nat /\ a \in Nat
      /\ n \in Nat /\ n <= Len(w) /\ Len(s) \in 0 .. Len(s)
  BY <1>1
<1>4. CountOf(s, a) = p
  BY <1>1, <1>2, CountIs, Zenon
<1>5. RestOf(s, a) = r
  BY <1>4, Zenon DEF RestOf
<1>6. /\ r \in Seq(Entry) /\ Len(r) = Len(s) - p
      /\ \A i \in 1 .. Len(s) - p : r[i] = s[p + i]
  BY <1>1, <1>3, Cut
<1>7. /\ B \in Seq(Byte) /\ Len(B) = Len(x) + Len(w)
      /\ \A k \in 1 .. Len(x) : B[k] = x[k]
      /\ \A k \in 1 .. Len(w) : B[Len(x) + k] = w[k]
  BY <1>1, JointConcat, Zenon DEF Joint
<1>8. Laid(B, b, r)
  BY <1>2
<1>9. b \in Nat /\ b + Len(x) = a /\ m \in 0 .. Len(B) /\ m \in Nat /\ b + m = a + n
  <2>1. Len(x) <= a /\ Len(B) = Len(x) + Len(w)
    BY <1>1, <1>7
  <2> HIDE DEF B
  <2> QED BY <1>3, <2>1
<1> HIDE DEF B, b, r, m
<1>10. Ordered(r)
  <2> SUFFICES ASSUME NEW i \in 1 .. Len(r), NEW k \in 1 .. Len(r), i < k
               PROVE  r[i].end <= First(r[k])
    BY DEF Ordered
  <2>1. p + i \in 1 .. Len(s) /\ p + k \in 1 .. Len(s) /\ p + i < p + k
    BY <1>3, <1>6
  <2>2. s[p + i].end <= First(s[p + k])
    BY <1>1, <2>1 DEF Ordered
  <2> QED BY <1>6, <2>2
<1> DEFINE y == x \o SubSeq(w, 1, n)
           w2 == SubSeq(w, n + 1, Len(w))
<1>11. y = SubSeq(B, 1, m)
  <2> DEFINE u == SubSeq(w, 1, n)
             v == SubSeq(B, 1, m)
  <2>1. /\ u \in Seq(Byte) /\ Len(u) = n /\ \A k \in 1 .. n : u[k] = w[k]
    <3>1. n \in 0 .. Len(w) /\ w \in Seq(Byte)
      BY <1>1, <1>3
    <3> QED BY <3>1, CutHead, Zenon
  <2>2. /\ v \in Seq(Byte) /\ Len(v) = m /\ \A k \in 1 .. m : v[k] = B[k]
    <3>1. B \in Seq(Byte) /\ m \in 0 .. Len(B)
      BY <1>7, <1>9
    <3> QED BY <3>1, CutHead, Zenon
  <2> HIDE DEF u, v
  <2>3. Joint(y, x, u)
    BY <1>1, <2>1, JointConcat, Zenon DEF u
  <2> HIDE DEF y
  <2>4. y \in Seq(Byte) /\ Len(y) = m
    BY <2>1, <2>3 DEF Joint, m
  <2>5. ASSUME NEW k \in 1 .. m PROVE y[k] = v[k]
    <3>1. CASE k \in 1 .. Len(x)
      BY <1>7, <2>2, <2>3, <3>1, Zenon DEF Joint
    <3>2. CASE k > Len(x)
      <4>1. PICK l \in 1 .. n : k = Len(x) + l
        <5>1. k - Len(x) \in 1 .. n /\ k = Len(x) + (k - Len(x))
          BY <1>3, <3>2 DEF m
        <5> QED BY <5>1
      <4>2. l \in 1 .. Len(w)
        BY <1>3
      <4>3. y[k] = w[l]
        BY <2>1, <2>3, <4>1, Zenon DEF Joint
      <4> QED BY <1>7, <2>2, <4>1, <4>2, <4>3, Zenon
    <3> QED BY <1>3, <3>1, <3>2 DEF m
  <2>6. y = v
    BY <2>2, <2>4, <2>5, SeqEqual
  <2> QED BY <2>6 DEF v
<1> HIDE DEF y
<1>12. PICK d \in 0 .. m, j \in 0 .. Len(r) :
         /\ Done(b, r, d, j) /\ Settled(b, r, m, d, j)
         /\ Deframe(SubSeq(B, 1, m)) =
              [buffer |-> SubSeq(B, d + 1, m),
               telegrams |-> Channel!HandedOver(Queued(r))[j]]
  BY <1>6, <1>7, <1>8, <1>9, <1>10, DeframeFacts, Zenon
<1> DEFINE x2 == SubSeq(B, d + 1, m)
<1>13. /\ Deframe(y).buffer = x2
       /\ Deframe(y).telegrams = Channel!HandedOver(Queued(r))[j]
  BY <1>11, <1>12
<1>14. Len(r) \in Nat /\ d \in Nat /\ d <= m /\ j \in Nat /\ j <= Len(r)
  BY <1>3, <1>6, <1>9
<1>15. /\ x2 \in Seq(Byte) /\ Len(x2) = m - d
       /\ \A k \in 1 .. m - d : x2[k] = B[d + k]
  <2>1. B \in Seq(Byte) /\ m \in 0 .. Len(B)
    BY <1>7, <1>9
  <2> QED BY <2>1, Cut, Zenon
<1>16. /\ w2 \in Seq(Byte) /\ Len(w2) = Len(w) - n
       /\ \A k \in 1 .. Len(w) - n : w2[k] = w[n + k]
  <2>1. Len(w) \in 0 .. Len(w) /\ n \in 0 .. Len(w)
    BY <1>3
  <2> QED BY <1>1, <2>1, Cut
<1> HIDE DEF x2, w2
<1>17. x2 \o w2 = SubSeq(B, d + 1, Len(B))
  <2> DEFINE u == x2 \o w2
             v == SubSeq(B, d + 1, Len(B))
  <2>1. Joint(u, x2, w2)
    BY <1>15, <1>16, JointConcat, Zenon
  <2>2. /\ v \in Seq(Byte) /\ Len(v) = Len(B) - d
        /\ \A k \in 1 .. Len(B) - d : v[k] = B[d + k]
    <3>1. Len(B) \in 0 .. Len(B) /\ d \in 0 .. Len(B)
      BY <1>7, <1>9, <1>14
    <3> QED BY <1>7, <3>1, Cut
  <2> HIDE DEF u, v
  <2>3. u \in Seq(Byte) /\ Len(u) = m - d + (Len(w) - n)
    BY <1>15, <1>16, <2>1, Zenon DEF Joint
  <2>4. Len(B) - d = m - d + (Len(w) - n)
    BY <1>3, <1>7, <1>14 DEF m
  <2>5. ASSUME NEW k \in 1 .. Len(B) - d PROVE u[k] = v[k]
    <3>1. CASE k \in 1 .. m - d
      BY <1>15, <2>1, <2>2, <3>1, Zenon DEF Joint
    <3>2. CASE k > m - d
      <4>1. PICK l \in 1 .. Len(w) - n : k = m - d + l
        <5>1. k - (m - d) \in 1 .. Len(w) - n /\ k = m - d + (k - (m - d))
          BY <1>3, <1>9, <1>14, <2>4, <3>2
        <5> QED BY <5>1
      <4>2. u[k] = w[n + l]
        BY <1>15, <1>16, <2>1, <4>1, Zenon DEF Joint
      <4>3. n + l \in 1 .. Len(w) /\ Len(x) + (n + l) = d + k
        BY <1>3, <1>9, <1>14, <4>1 DEF m
      <4>4. B[d + k] = w[n + l]
        BY <1>7, <4>3
      <4> QED BY <2>2, <4>2, <4>4, Zenon
    <3>3. k \in 1 .. m - d \/ k > m - d
      BY <1>9, <1>14
    <3> QED BY <3>1, <3>2, <3>3
  <2>6. u = v
    BY <2>2, <2>3, <2>4, <2>5, SeqEqual
  <2> QED BY <2>6 DEF u, v
<1>18. a + n \in Nat /\ Len(x2) <= a + n /\ (a + n) - Len(x2) = b + d
  <2>1. Len(x2) = m - d
    BY <1>15
  <2>2. a + n \in Nat /\ m - d <= a + n /\ (a + n) - (m - d) = b + d
    BY <1>3, <1>9, <1>14
  <2> QED BY <2>1, <2>2, Zenon
<1>19. p + j \in 0 .. Len(s)
  BY <1>3, <1>6, <1>14
<1>20. Upto(s, a + n, p + j)
  <2>1. ASSUME NEW i \in 1 .. p + j PROVE s[i].end <= a + n
    <3>1. i \in 1 .. Len(s)
      BY <1>3, <1>19
    <3>2. s[i].end \in Nat
      BY <1>1, <3>1, EndFacts
    <3>3. CASE i \in 1 .. p
      <4>1. s[i].end <= a
        BY <1>2, <3>3 DEF Upto
      <4> QED BY <1>3, <3>2, <4>1
    <3>4. CASE i > p
      <4>1. PICK l \in 1 .. j : i = p + l
        <5>1. i - p \in 1 .. j /\ i = p + (i - p)
          BY <1>14, <3>4
        <5> QED BY <5>1
      <4>2. l \in 1 .. Len(s) - p
        BY <1>3, <1>6, <1>14
      <4>3. s[i].end <= b + d
        <5>1. r[l].end <= b + d
          BY <1>12, Zenon DEF Done
        <5> QED BY <1>6, <4>1, <4>2, <5>1, Zenon
      <4> QED BY <1>9, <1>14, <3>2, <4>3
    <3> QED BY <3>3, <3>4
  <2>2. ASSUME NEW i \in p + j + 1 .. Len(s) PROVE a + n < s[i].end
    <3>1. PICK l \in j + 1 .. Len(r) : i = p + l
      <4>1. i - p \in j + 1 .. Len(r) /\ i = p + (i - p)
        BY <1>3, <1>6, <1>14
      <4> QED BY <4>1
    <3>2. l \in 1 .. Len(s) - p
      BY <1>3, <1>6, <1>14
    <3>3. b + m < r[l].end
      BY <1>12, Zenon DEF Settled
    <3> QED BY <1>6, <1>9, <3>1, <3>2, <3>3
  <2> QED BY <2>1, <2>2, Zenon DEF Upto
<1>21. SubSeq(s, p + j + 1, Len(s)) = SubSeq(r, j + 1, Len(r))
  <2>1. Len(s) \in 0 .. Len(s) /\ j \in 0 .. Len(s) - p
    BY <1>3, <1>6, <1>14
  <2>2. SubSeq(SubSeq(s, p + 1, Len(s)), j + 1, Len(s) - p) = SubSeq(s, p + j + 1, Len(s))
    BY <1>1, <2>1, CutAgain
  <2> QED BY <1>6, <2>2 DEF r
<1>22. Laid(x2 \o w2, (a + n) - Len(x2), SubSeq(s, p + j + 1, Len(s)))
  <2>1. d \in 0 .. Len(B)
    BY <1>7, <1>9, <1>14
  <2>2. Laid(SubSeq(B, d + 1, Len(B)), b + d, SubSeq(r, j + 1, Len(r)))
    BY <1>6, <1>7, <1>8, <1>9, <1>12, <2>1, LaidLess, Zenon
  <2> QED BY <1>17, <1>18, <1>21, <2>2, Zenon
<1>23. \A i \in 1 .. Len(s) : s[i].end <= a + n + Len(w2)
  <2>1. a + n + Len(w2) = a + Len(w)
    BY <1>3, <1>16
  <2> QED BY <1>1, <2>1
<1>24. Sound(w2, x2, s, a + n)
  <2>1. \E q \in 0 .. Len(s) :
          Upto(s, a + n, q) /\ Laid(x2 \o w2, (a + n) - Len(x2), SubSeq(s, q + 1, Len(s)))
    BY <1>19, <1>20, <1>22, Zenon
  <2>2. /\ w2 \in Seq(Byte) /\ x2 \in Seq(Byte) /\ s \in Seq(Entry)
        /\ a + n \in Nat /\ Len(x2) <= a + n /\ Ordered(s)
    BY <1>1, <1>15, <1>16, <1>18, Zenon
  <2> QED BY <1>23, <2>1, <2>2, Zenon DEF Sound
<1>25. CountOf(s, a + n) = p + j
  BY <1>1, <1>18, <1>19, <1>20, CountIs, Zenon
<1>26. RestOf(s, a + n) = SubSeq(r, j + 1, Len(r))
  BY <1>21, <1>25, Zenon DEF RestOf
<1>27. Reads(w, x, s, a, n, j)
  BY <1>5, <1>13, <1>24, <1>26, Zenon DEF Reads, y, w2
<1> QED BY <1>5, <1>6, <1>27, Zenon

(***************************************************************************)
(* The inductive invariant, and the steps of the channel                   *)
(***************************************************************************)
Inv ==
  /\ wire \in [Clients -> Seq(Byte)]
  /\ rxBuffer \in [Clients -> Seq(Byte)]
  /\ sent \in [Clients -> Seq(Entry)]
  /\ arrived \in [Clients -> Nat]
  /\ received \in [Clients -> Seq(Known)]
  /\ \A c \in Clients : OnLine(c) <= MaxBytes[c]
  /\ \A c \in Clients : Sound(wire[c], rxBuffer[c], sent[c], arrived[c])

\* The telegrams of a client on their way
Way(s, a) == Queued(RestOf(s, a))

LEMMA QueuedFacts ==
  ASSUME NEW r \in Seq(Entry)
  PROVE  /\ Queued(r) \in Seq(Telegrams) /\ Len(Queued(r)) = Len(r)
         /\ [i \in DOMAIN r |-> r[i].telegram] = Queued(r)
<1>1. DOMAIN r = 1 .. Len(r) /\ Len(r) \in Nat
  OBVIOUS
<1>2. ASSUME NEW i \in 1 .. Len(r) PROVE r[i].telegram \in Telegrams
  <2>1. r[i] \in Entry
    BY EndFacts
  <2> QED BY <2>1, EntryFacts
<1>3. Queued(r) = [i \in 1 .. Len(r) |-> r[i].telegram]
  BY Zenon DEF Queued
<1>4. Queued(r) \in Seq(Telegrams) /\ Len(Queued(r)) = Len(r)
  BY <1>1, <1>2, <1>3
<1> QED BY <1>1, <1>3, <1>4, Zenon

LEMMA QueuedMore ==
  ASSUME NEW r \in Seq(Entry), NEW e \in Entry
  PROVE  Queued(Append(r, e)) = Append(Queued(r), e.telegram)
<1> DEFINE q == Queued(r)
           r2 == Append(r, e)
           q2 == Queued(r2)
           q3 == Append(q, e.telegram)
<1>1. e.telegram \in Telegrams
  BY EntryFacts
<1>2. /\ r2 \in Seq(Entry) /\ Len(r2) = Len(r) + 1 /\ Len(r) \in Nat
      /\ \A i \in 1 .. Len(r) : r2[i] = r[i]
      /\ r2[Len(r) + 1] = e
  OBVIOUS
<1>3. /\ q \in Seq(Telegrams) /\ Len(q) = Len(r)
      /\ \A i \in 1 .. Len(r) : q[i] = r[i].telegram
  BY QueuedFacts DEF Queued
<1> HIDE DEF r2
<1>4. /\ q2 \in Seq(Telegrams) /\ Len(q2) = Len(r2)
      /\ \A i \in 1 .. Len(r2) : q2[i] = r2[i].telegram
  BY <1>2, QueuedFacts DEF Queued
<1> HIDE DEF q, q2
<1>5. /\ q3 \in Seq(Telegrams) /\ Len(q3) = Len(r) + 1
      /\ \A i \in 1 .. Len(r) : q3[i] = q[i]
      /\ q3[Len(r) + 1] = e.telegram
  BY <1>1, <1>3
<1> HIDE DEF q3
<1>6. ASSUME NEW i \in 1 .. Len(q2) PROVE q2[i] = q3[i]
  <2>1. CASE i \in 1 .. Len(r)
    <3>1. i \in 1 .. Len(r2)
      BY <1>2, <2>1
    <3> QED BY <1>2, <1>3, <1>4, <1>5, <2>1, <3>1, Zenon
  <2>2. CASE i = Len(r) + 1
    <3>1. i \in 1 .. Len(r2)
      BY <1>2, <2>2
    <3> QED BY <1>2, <1>4, <1>5, <2>2, <3>1, Zenon
  <2> QED BY <1>2, <1>4, <2>1, <2>2
<1>7. Len(q2) = Len(q3)
  BY <1>2, <1>4, <1>5, Zenon
<1>8. q2 = q3
  BY <1>4, <1>5, <1>6, <1>7, SeqEqual
<1> QED BY <1>8, Zenon DEF q2, q3, r2, q

LEMMA QueuedLess ==
  ASSUME NEW r \in Seq(Entry), NEW j \in 0 .. Len(r)
  PROVE  Queued(SubSeq(r, j + 1, Len(r))) = SubSeq(Queued(r), j + 1, Len(Queued(r)))
<1> DEFINE q == Queued(r)
           r2 == SubSeq(r, j + 1, Len(r))
           q2 == Queued(r2)
           q3 == SubSeq(q, j + 1, Len(q))
<1>1. Len(r) \in Nat /\ Len(r) \in 0 .. Len(r)
  OBVIOUS
<1>2. /\ r2 \in Seq(Entry) /\ Len(r2) = Len(r) - j
      /\ \A i \in 1 .. Len(r) - j : r2[i] = r[j + i]
  BY <1>1, Cut
<1>3. /\ q \in Seq(Telegrams) /\ Len(q) = Len(r)
      /\ \A i \in 1 .. Len(r) : q[i] = r[i].telegram
  BY QueuedFacts DEF Queued
<1> HIDE DEF r2
<1>4. /\ q2 \in Seq(Telegrams) /\ Len(q2) = Len(r2)
      /\ \A i \in 1 .. Len(r2) : q2[i] = r2[i].telegram
  BY <1>2, QueuedFacts DEF Queued
<1> HIDE DEF q, q2
<1>5. /\ q3 \in Seq(Telegrams) /\ Len(q3) = Len(q) - j
      /\ \A i \in 1 .. Len(q) - j : q3[i] = q[j + i]
  <2>1. Len(q) \in 0 .. Len(q) /\ j \in 0 .. Len(q)
    BY <1>1, <1>3
  <2> QED BY <1>3, <2>1, Cut
<1> HIDE DEF q3
<1>6. ASSUME NEW i \in 1 .. Len(q2) PROVE q2[i] = q3[i]
  <2>1. /\ i \in 1 .. Len(r2) /\ i \in 1 .. Len(r) - j /\ i \in 1 .. Len(q) - j
        /\ j + i \in 1 .. Len(r)
    BY <1>1, <1>2, <1>3, <1>4
  <2> QED BY <1>2, <1>3, <1>4, <1>5, <2>1, Zenon
<1>7. Len(q2) = Len(q3)
  BY <1>2, <1>3, <1>4, <1>5, Zenon
<1>8. q2 = q3
  BY <1>4, <1>5, <1>6, <1>7, SeqEqual
<1> QED BY <1>8, Zenon DEF q2, q3, r2, q

LEMMA InvInit == Init => Inv
<1> SUFFICES ASSUME Init PROVE Inv
  OBVIOUS
<1>1. /\ wire = [c \in Clients |-> <<>>] /\ rxBuffer = [c \in Clients |-> <<>>]
      /\ received = [c \in Clients |-> <<>>] /\ sent = [c \in Clients |-> <<>>]
      /\ arrived = [c \in Clients |-> 0]
  BY DEF Init
<1>2. \A S : <<>> \in Seq(S)
  OBVIOUS
<1>3. /\ wire \in [Clients -> Seq(Byte)] /\ rxBuffer \in [Clients -> Seq(Byte)]
      /\ sent \in [Clients -> Seq(Entry)] /\ arrived \in [Clients -> Nat]
      /\ received \in [Clients -> Seq(Known)]
  BY <1>1, <1>2
<1>4. ASSUME NEW c \in Clients
      PROVE  /\ OnLine(c) <= MaxBytes[c]
             /\ Sound(wire[c], rxBuffer[c], sent[c], arrived[c])
  <2>1. wire[c] = <<>> /\ rxBuffer[c] = <<>> /\ sent[c] = <<>> /\ arrived[c] = 0
    BY <1>1
  <2>2. OnLine(c) = 0
    <3>1. 0 + Len(<<>>) = 0
      OBVIOUS
    <3> QED BY <2>1, <3>1, Zenon DEF OnLine
  <2>3. MaxBytes[c] \in Nat
    BY StreamAssumption
  <2>4. OnLine(c) <= MaxBytes[c]
    BY <2>2, <2>3
  <2> QED BY <2>1, <2>4, SoundAtFirst, Zenon
<1> QED BY <1>3, <1>4, Zenon DEF Inv

\* What a step of one client does to its connection and to what is on its way
LEMMA SendStep ==
  ASSUME Inv, NEW c \in Clients, NEW noise \in Noise, NEW t \in Telegrams, Send(c, noise, t)
  PROVE  /\ Inv'
         /\ Way(sent'[c], arrived'[c]) = Append(Way(sent[c], arrived[c]), t)
         /\ \A k \in Clients \ {c} : sent'[k] = sent[k] /\ arrived'[k] = arrived[k]
         /\ received' = received
<1> DEFINE f == Frame[t]
           v == noise \o f
           e == [telegram |-> t, end |-> OnLine(c) + Len(v)]
           n == arrived[c] + Len(wire[c]) + Len(noise)
<1>1. /\ wire \in [Clients -> Seq(Byte)] /\ rxBuffer \in [Clients -> Seq(Byte)]
      /\ sent \in [Clients -> Seq(Entry)] /\ arrived \in [Clients -> Nat]
      /\ received \in [Clients -> Seq(Known)]
  BY DEF Inv
<1>2. /\ OnLine(c) + Len(v) <= MaxBytes[c]
      /\ wire' = [wire EXCEPT ![c] = @ \o v]
      /\ sent' = [sent EXCEPT ![c] = Append(@, e)]
      /\ rxBuffer' = rxBuffer /\ received' = received /\ arrived' = arrived
  BY Zenon DEF Send
<1>3. Quiet(noise)
  <2>1. noise \in Seq((0 .. 255) \ {STX})
    BY StreamAssumption
  <2> QED BY <2>1 DEF Quiet, Byte
<1>4. noise \in Seq(Byte) /\ f \in Seq(Byte) /\ Len(f) \in Nat /\ Len(noise) \in Nat
  <2>1. f \in Seq(Byte) /\ Len(f) \in Nat
    BY FrameFacts, Zenon
  <2>2. noise \in Seq(Byte)
    BY <1>3, Zenon DEF Quiet
  <2> HIDE DEF f
  <2> QED BY <2>1, <2>2
<1> HIDE DEF f
<1>5. v \in Seq(Byte) /\ Len(v) = Len(noise) + Len(f)
  BY <1>4, JointConcat, Zenon DEF Joint
<1>6. wire[c] \in Seq(Byte) /\ Len(wire[c]) \in Nat /\ arrived[c] \in Nat
  BY <1>1
<1>7. n \in Nat /\ OnLine(c) + Len(v) = n + Len(f) /\ n + Len(f) \in Nat
  <2>1. OnLine(c) = arrived[c] + Len(wire[c])
    BY DEF OnLine
  <2> HIDE DEF v
  <2> QED BY <1>4, <1>5, <1>6, <2>1
<1>8. Behind(e, t, n)
  <2> HIDE DEF n, v
  <2>1. e \in Entry /\ e.telegram = t /\ e.end = n + Len(f)
    BY <1>7 DEF Entry
  <2> QED BY <2>1, Zenon DEF Behind, f
<1>9. Sound(wire[c], rxBuffer[c], sent[c], arrived[c])
  BY Zenon DEF Inv
<1>10. /\ Sound(wire[c] \o v, rxBuffer[c], Append(sent[c], e), arrived[c])
       /\ RestOf(Append(sent[c], e), arrived[c]) = Append(RestOf(sent[c], arrived[c]), e)
  <2> HIDE DEF e
  <2>1. Follows(e, t, noise, wire[c], arrived[c])
    BY <1>7, <1>8, Zenon DEF Follows
  <2>2. Sends(wire[c], rxBuffer[c], sent[c], arrived[c], noise \o Frame[t], e)
    BY <1>3, <1>9, <2>1, SendSound, Zenon
  <2> QED BY <2>2, Zenon DEF Sends, f
<1>11. e \in Entry
  BY <1>8, Zenon DEF Behind
<1> HIDE DEF v, e
<1>12. /\ wire'[c] = wire[c] \o v /\ sent'[c] = Append(sent[c], e)
       /\ rxBuffer'[c] = rxBuffer[c] /\ arrived'[c] = arrived[c]
  BY <1>1, <1>2
<1>13. \A k \in Clients \ {c} : /\ wire'[k] = wire[k] /\ sent'[k] = sent[k]
                               /\ rxBuffer'[k] = rxBuffer[k] /\ arrived'[k] = arrived[k]
  BY <1>1, <1>2
<1>14. /\ wire' \in [Clients -> Seq(Byte)] /\ rxBuffer' \in [Clients -> Seq(Byte)]
       /\ sent' \in [Clients -> Seq(Entry)] /\ arrived' \in [Clients -> Nat]
       /\ received' \in [Clients -> Seq(Known)]
  <2>1. wire[c] \o v \in Seq(Byte)
    BY <1>5, <1>6, Concat
  <2>2. Append(sent[c], e) \in Seq(Entry)
    BY <1>1, <1>11
  <2>3. wire' \in [Clients -> Seq(Byte)]
    BY <1>1, <1>2, <2>1
  <2>4. sent' \in [Clients -> Seq(Entry)]
    BY <1>1, <1>2, <2>2
  <2> QED BY <1>1, <1>2, <2>3, <2>4
<1>15. ASSUME NEW k \in Clients
       PROVE  /\ OnLine(k)' <= MaxBytes[k]
              /\ Sound(wire'[k], rxBuffer'[k], sent'[k], arrived'[k])
  <2>1. CASE k = c
    <3>1. Len(wire[c] \o v) = Len(wire[c]) + Len(v)
      BY <1>5, <1>6, JointConcat, Zenon DEF Joint
    <3>2. arrived[c] + Len(wire[c]) + Len(v) <= MaxBytes[c]
      BY <1>2, Zenon DEF OnLine
    <3>3. arrived[c] + Len(wire[c] \o v) <= MaxBytes[c]
      <4>1. Len(v) \in Nat
        BY <1>4, <1>5
      <4> QED BY <1>6, <3>1, <3>2, <4>1
    <3>4. OnLine(c)' <= MaxBytes[c]
      BY <1>12, <3>3, Zenon DEF OnLine
    <3> QED BY <1>10, <1>12, <2>1, <3>4, Zenon
  <2>2. CASE k # c
    <3>1. k \in Clients \ {c}
      BY <2>2
    <3>2. OnLine(k) <= MaxBytes[k] /\ Sound(wire[k], rxBuffer[k], sent[k], arrived[k])
      BY Zenon DEF Inv
    <3> QED BY <1>13, <3>1, <3>2, Zenon DEF OnLine
  <2> QED BY <2>1, <2>2
<1>16. Inv'
  BY <1>14, <1>15, Zenon DEF Inv
<1>17. Way(sent'[c], arrived'[c]) = Append(Way(sent[c], arrived[c]), t)
  <2>1. RestOf(sent[c], arrived[c]) \in Seq(Entry)
    <3>1. 0 \in 0 .. Len(wire[c])
      BY <1>6
    <3> QED BY <1>9, <3>1, ReadSound, Zenon
  <2>2. e.telegram = t
    BY <1>8, Zenon DEF Behind
  <2> QED BY <1>10, <1>11, <1>12, <2>1, <2>2, QueuedMore, Zenon DEF Way
<1> QED BY <1>2, <1>13, <1>16, <1>17, Zenon

\* A read hands over what is known of the first j telegrams on their way.
Delivers(c, j) ==
  LET q == Way(sent[c], arrived[c]) IN
  /\ Way(sent'[c], arrived'[c]) = SubSeq(q, j + 1, Len(q))
  /\ received' = [received EXCEPT ![c] = @ \o Channel!HandedOver(q)[j]]

LEMMA ReadStep ==
  ASSUME Inv, NEW c \in Clients, NEW n \in Nat, HandleData(c, n)
  PROVE  /\ Inv'
         /\ Way(sent[c], arrived[c]) \in Seq(Telegrams)
         /\ \E j \in 0 .. Len(Way(sent[c], arrived[c])) : Delivers(c, j)
         /\ \A k \in Clients \ {c} : sent'[k] = sent[k] /\ arrived'[k] = arrived[k]
<1> DEFINE w == wire[c]
           x == rxBuffer[c]
           s == sent[c]
           a == arrived[c]
           rest == RestOf(s, a)
           q == Way(s, a)
           result == Deframe(x \o SubSeq(w, 1, n))
           more == result.telegrams
           w2 == SubSeq(w, n + 1, Len(w))
<1>1. /\ wire \in [Clients -> Seq(Byte)] /\ rxBuffer \in [Clients -> Seq(Byte)]
      /\ sent \in [Clients -> Seq(Entry)] /\ arrived \in [Clients -> Nat]
      /\ received \in [Clients -> Seq(Known)]
  BY DEF Inv
<1>2. /\ n <= Len(w)
      /\ wire' = [wire EXCEPT ![c] = SubSeq(@, n + 1, Len(@))]
      /\ rxBuffer' = [rxBuffer EXCEPT ![c] = result.buffer]
      /\ received' = [received EXCEPT ![c] = @ \o more]
      /\ arrived' = [arrived EXCEPT ![c] = @ + n]
      /\ sent' = sent
  BY Zenon DEF HandleData, Buffered
<1>3. Sound(w, x, s, a)
  BY Zenon DEF Inv
<1>4. w \in Seq(Byte) /\ Len(w) \in Nat /\ a \in Nat /\ s \in Seq(Entry) /\ n \in 0 .. Len(w)
  <2>1. w \in Seq(Byte) /\ a \in Nat /\ s \in Seq(Entry)
    BY <1>1
  <2>2. Len(w) \in Nat
    BY <2>1
  <2> HIDE DEF w
  <2> QED BY <1>2, <2>1, <2>2
<1> HIDE DEF result, more
<1>5. rest \in Seq(Entry) /\ \E j \in 0 .. Len(rest) : Reads(w, x, s, a, n, j)
  BY <1>3, <1>4, ReadSound, Zenon
<1>6. PICK j \in 0 .. Len(rest) : Reads(w, x, s, a, n, j)
  BY <1>5, Zenon
<1>7. /\ Sound(w2, result.buffer, s, a + n)
      /\ RestOf(s, a + n) = SubSeq(rest, j + 1, Len(rest))
      /\ more = Channel!HandedOver(Queued(rest))[j]
  BY <1>6, Zenon DEF Reads, result, more
<1>8. w2 \in Seq(Byte) /\ result.buffer \in Seq(Byte)
  BY <1>7, Zenon DEF Sound
<1>9. q = Queued(rest) /\ q \in Seq(Telegrams) /\ Len(q) = Len(rest)
  BY <1>5, QueuedFacts, Zenon DEF Way
<1> HIDE DEF q, rest
<1>10. j \in 0 .. Len(q)
  BY <1>9, Zenon
<1>11. more \in Seq(Known)
  <2>1. \A k \in 0 .. Len(q) : Channel!HandedOver(q)[k] \in Seq(Known)
    BY <1>9, HandedOverSteps
  <2> QED BY <1>7, <1>9, <1>10, <2>1, Zenon
<1>12. /\ wire'[c] = w2 /\ sent'[c] = s
       /\ rxBuffer'[c] = result.buffer /\ arrived'[c] = a + n
  BY <1>1, <1>2
<1>13. \A k \in Clients \ {c} : /\ wire'[k] = wire[k] /\ sent'[k] = sent[k]
                               /\ rxBuffer'[k] = rxBuffer[k] /\ arrived'[k] = arrived[k]
  BY <1>1, <1>2
<1>14. /\ wire' \in [Clients -> Seq(Byte)] /\ rxBuffer' \in [Clients -> Seq(Byte)]
       /\ sent' \in [Clients -> Seq(Entry)] /\ arrived' \in [Clients -> Nat]
       /\ received' \in [Clients -> Seq(Known)]
  <2>1. wire' \in [Clients -> Seq(Byte)]
    BY <1>1, <1>2, <1>8
  <2>2. rxBuffer' \in [Clients -> Seq(Byte)]
    BY <1>1, <1>2, <1>8
  <2>3. arrived' \in [Clients -> Nat]
    BY <1>1, <1>2
  <2>4. received' \in [Clients -> Seq(Known)]
    <3>1. received[c] \in Seq(Known)
      BY <1>1
    <3>2. received[c] \o more \in Seq(Known)
      BY <1>11, <3>1, Concat, Zenon
    <3> QED BY <1>1, <1>2, <3>2
  <2> QED BY <1>1, <1>2, <2>1, <2>2, <2>3, <2>4
<1>15. ASSUME NEW k \in Clients
       PROVE  /\ OnLine(k)' <= MaxBytes[k]
              /\ Sound(wire'[k], rxBuffer'[k], sent'[k], arrived'[k])
  <2>1. CASE k = c
    <3>1. Len(w2) = Len(w) - n
      <4>1. Len(w) \in 0 .. Len(w)
        BY <1>4
      <4> QED BY <1>4, <4>1, Cut
    <3>2. a + Len(w) <= MaxBytes[c]
      BY Zenon DEF Inv, OnLine
    <3> HIDE DEF w2, w, a
    <3>3. a + n + Len(w2) = a + Len(w)
      BY <1>4, <3>1
    <3>4. OnLine(c)' <= MaxBytes[c]
      BY <1>12, <3>2, <3>3, Zenon DEF OnLine
    <3> QED BY <1>7, <1>12, <2>1, <3>4, Zenon
  <2>2. CASE k # c
    <3>1. k \in Clients \ {c}
      BY <2>2
    <3>2. OnLine(k) <= MaxBytes[k] /\ Sound(wire[k], rxBuffer[k], sent[k], arrived[k])
      BY Zenon DEF Inv
    <3> QED BY <1>13, <3>1, <3>2, Zenon DEF OnLine
  <2> QED BY <2>1, <2>2
<1>16. Inv'
  BY <1>14, <1>15, Zenon DEF Inv
<1>17. Delivers(c, j)
  <2>1. Way(sent'[c], arrived'[c]) = SubSeq(q, j + 1, Len(q))
    BY <1>5, <1>7, <1>9, <1>12, QueuedLess, Zenon DEF Way
  <2>2. more = Channel!HandedOver(q)[j]
    BY <1>7, <1>9, Zenon
  <2> QED BY <1>2, <2>1, <2>2, Zenon DEF Delivers, q
<1> QED BY <1>9, <1>10, <1>13, <1>16, <1>17, Zenon DEF q

LEMMA WayEmpty == Way(<<>>, 0) = <<>>
<1>1. /\ <<>> \in Seq(Entry) /\ 0 \in Nat /\ 0 \in 0 .. Len(<<>>) /\ Len(<<>>) = 0
  OBVIOUS
<1>2. Upto(<<>>, 0, 0)
  <2>1. 1 .. 0 = {} /\ 0 + 1 .. Len(<<>>) = {}
    OBVIOUS
  <2> QED BY <2>1, Zenon DEF Upto
<1>3. CountOf(<<>>, 0) = 0
  BY <1>1, <1>2, CountIs, Zenon
<1>4. RestOf(<<>>, 0) = <<>>
  <2>1. SubSeq(<<>>, 0 + 1, Len(<<>>)) = <<>>
    OBVIOUS
  <2> QED BY <1>3, <2>1, Zenon DEF RestOf
<1>5. Queued(<<>>) \in Seq(Telegrams) /\ Len(Queued(<<>>)) = 0
  BY <1>1, QueuedFacts, Zenon
<1>6. \A z \in Seq(Telegrams) : Len(z) = 0 => z = <<>>
  OBVIOUS
<1> QED BY <1>4, <1>5, <1>6, Zenon DEF Way

LEMMA CloseStep ==
  ASSUME Inv, NEW c \in Clients, Close(c)
  PROVE  /\ Inv'
         /\ Way(sent'[c], arrived'[c]) = <<>>
         /\ \A k \in Clients \ {c} : sent'[k] = sent[k] /\ arrived'[k] = arrived[k]
<1>1. /\ wire \in [Clients -> Seq(Byte)] /\ rxBuffer \in [Clients -> Seq(Byte)]
      /\ sent \in [Clients -> Seq(Entry)] /\ arrived \in [Clients -> Nat]
      /\ received \in [Clients -> Seq(Known)]
  BY DEF Inv
<1>2. /\ wire' = [wire EXCEPT ![c] = <<>>] /\ rxBuffer' = [rxBuffer EXCEPT ![c] = <<>>]
      /\ received' = [received EXCEPT ![c] = <<>>] /\ sent' = [sent EXCEPT ![c] = <<>>]
      /\ arrived' = [arrived EXCEPT ![c] = 0]
  BY DEF Close
<1>3. \A S : <<>> \in Seq(S)
  OBVIOUS
<1>4. /\ wire' \in [Clients -> Seq(Byte)] /\ rxBuffer' \in [Clients -> Seq(Byte)]
      /\ sent' \in [Clients -> Seq(Entry)] /\ arrived' \in [Clients -> Nat]
      /\ received' \in [Clients -> Seq(Known)]
  BY <1>1, <1>2, <1>3
<1>5. wire'[c] = <<>> /\ rxBuffer'[c] = <<>> /\ sent'[c] = <<>> /\ arrived'[c] = 0
  BY <1>1, <1>2
<1>6. \A k \in Clients \ {c} : /\ wire'[k] = wire[k] /\ sent'[k] = sent[k]
                              /\ rxBuffer'[k] = rxBuffer[k] /\ arrived'[k] = arrived[k]
  BY <1>1, <1>2
<1>7. ASSUME NEW k \in Clients
      PROVE  /\ OnLine(k)' <= MaxBytes[k]
             /\ Sound(wire'[k], rxBuffer'[k], sent'[k], arrived'[k])
  <2>1. CASE k = c
    <3>1. 0 + Len(<<>>) = 0
      OBVIOUS
    <3>2. 0 <= MaxBytes[c]
      BY StreamAssumption
    <3>3. OnLine(c)' <= MaxBytes[c]
      BY <1>5, <3>1, <3>2, Zenon DEF OnLine
    <3> QED BY <1>5, <2>1, <3>3, SoundAtFirst, Zenon
  <2>2. CASE k # c
    <3>1. k \in Clients \ {c}
      BY <2>2
    <3>2. OnLine(k) <= MaxBytes[k] /\ Sound(wire[k], rxBuffer[k], sent[k], arrived[k])
      BY Zenon DEF Inv
    <3> QED BY <1>6, <3>1, <3>2, Zenon DEF OnLine
  <2> QED BY <2>1, <2>2
<1>8. Inv'
  BY <1>4, <1>7, Zenon DEF Inv
<1> QED BY <1>5, <1>6, <1>8, WayEmpty, Zenon

\* The guard of a read
LEMMA ReadSome ==
  ASSUME Inv, NEW c \in Clients, Read(c)
  PROVE  \E n \in Nat : HandleData(c, n)
<1>1. Chunks \cup {Len(wire[c])} \subseteq Nat
  <2>1. Len(wire[c]) \in Nat
    <3>1. wire[c] \in Seq(Byte)
      BY DEF Inv
    <3> QED BY <3>1
  <2>2. Chunks \subseteq Nat
    BY StreamAssumption
  <2> QED BY <2>1, <2>2
<1> QED BY <1>1, Zenon DEF Read

LEMMA InvNext == Inv /\ [Next]_vars => Inv'
<1> SUFFICES ASSUME Inv, [Next]_vars PROVE Inv'
  OBVIOUS
<1>1. ASSUME NEW c \in Clients, Read(c) PROVE Inv'
  BY <1>1, ReadSome, ReadStep, Zenon
<1>2. ASSUME NEW c \in Clients, Close(c) PROVE Inv'
  BY <1>2, CloseStep, Zenon
<1>3. ASSUME NEW c \in Clients, NEW noise \in Noise, NEW t \in Telegrams, Send(c, noise, t)
      PROVE  Inv'
  BY <1>3, SendStep, Zenon
<1>4. CASE UNCHANGED vars
  <2>1. /\ wire' = wire /\ rxBuffer' = rxBuffer /\ received' = received
        /\ sent' = sent /\ arrived' = arrived
    BY <1>4 DEF vars
  <2> QED BY <2>1, Zenon DEF Inv, OnLine
<1> QED BY <1>1, <1>2, <1>3, <1>4, Zenon DEF Next

\* What lies in buffer and on the wire of a client is at all times laid out as the
\* telegrams still under way say: handleData() takes whole frames out and leaves the
\* rest where it is, and what the peer writes comes behind what is there.
THEOREM StreamSound == Spec => []Inv
BY InvInit, InvNext, PTL DEF Spec

\* The bytes of the stream are bytes, the buffer and the wire hold what they may, and
\* only telegrams of the registry's numbers are handed to the listeners of
\* 'tcp.telegram.received' (handleData() emits what autoParse() finds a layout for).
THEOREM TelegramTypes == Spec => []TypeOK
<1>1. Inv => TypeOK
  <2> SUFFICES ASSUME Inv PROVE TypeOK
    OBVIOUS
  <2>1. ASSUME NEW c \in Clients, NEW i \in DOMAIN received[c]
        PROVE  received[c][i].no \in DOMAIN Definitions
    <3>1. received[c] \in Seq(Known)
      BY DEF Inv
    <3>2. received[c][i] \in Known
      BY <3>1
    <3> QED BY <3>2 DEF Known
  <2>2. /\ wire \in [Clients -> Seq(Byte)] /\ rxBuffer \in [Clients -> Seq(Byte)]
        /\ \A c \in Clients : OnLine(c) <= MaxBytes[c]
    BY Zenon DEF Inv
  <2> QED BY <2>1, <2>2, Zenon DEF TypeOK
<1> QED BY <1>1, StreamSound, PTL

-----------------------------------------------------------------------------
(***************************************************************************)
(* The refinement                                                          *)
(***************************************************************************)

LEMMA QueueIs ==
  /\ Inv => Queue = [c \in Clients |-> Way(sent[c], arrived[c])]
  /\ Inv' => Queue' = [c \in Clients |-> Way(sent'[c], arrived'[c])]
<1> DEFINE Rest(u, s, a) == u = RestOf(s, a)
           Matches(u, s, a) == [i \in DOMAIN u |-> u[i].telegram] = Way(s, a)
<1>1. ASSUME NEW w, NEW x, NEW s, NEW a, Sound(w, x, s, a), NEW u, Rest(u, s, a)
      PROVE  Matches(u, s, a)
  <2>1. 0 \in 0 .. Len(w)
    <3>1. w \in Seq(Byte)
      BY <1>1, Zenon DEF Sound
    <3> QED BY <3>1
  <2>2. u \in Seq(Entry)
    BY <1>1, <2>1, ReadSound, Zenon
  <2>3. [i \in DOMAIN u |-> u[i].telegram] = Queued(u)
    BY <2>2, QueuedFacts, Zenon
  <2> QED BY <1>1, <2>3, Zenon DEF Way
<1>2. ASSUME Inv PROVE Queue = [c \in Clients |-> Way(sent[c], arrived[c])]
  <2>1. ASSUME NEW c \in Clients
        PROVE  [i \in DOMAIN Under(c) |-> Under(c)[i].telegram] = Way(sent[c], arrived[c])
    <3>1. Sound(wire[c], rxBuffer[c], sent[c], arrived[c])
      BY <1>2, Zenon DEF Inv
    <3>2. Rest(Under(c), sent[c], arrived[c])
      BY Zenon DEF Under, Passed, RestOf, CountOf
    <3> HIDE DEF Rest, Matches
    <3>3. Matches(Under(c), sent[c], arrived[c])
      BY <1>1, <3>1, <3>2, Zenon
    <3> QED BY <3>3, Zenon DEF Matches
  <2> QED BY <2>1, Zenon DEF Queue
<1>3. ASSUME Inv' PROVE Queue' = [c \in Clients |-> Way(sent'[c], arrived'[c])]
  <2>1. ASSUME NEW c \in Clients
        PROVE  [i \in DOMAIN Under(c)' |-> Under(c)'[i].telegram] = Way(sent'[c], arrived'[c])
    <3>1. Sound(wire'[c], rxBuffer'[c], sent'[c], arrived'[c])
      BY <1>3, Zenon DEF Inv
    <3>2. Rest(Under(c)', sent'[c], arrived'[c])
      BY Zenon DEF Under, Passed, RestOf, CountOf
    <3> HIDE DEF Rest, Matches
    <3>3. Matches(Under(c)', sent'[c], arrived'[c])
      BY <1>1, <3>1, <3>2, Zenon
    <3> QED BY <3>3, Zenon DEF Matches
  <2> QED BY <2>1, Zenon DEF Queue
<1> QED BY <1>2, <1>3

\* What is on its way to one client changes as said, to the others not at all.
LEMMA QueueChanges ==
  ASSUME Inv, Inv', NEW c \in Clients, NEW new, Way(sent'[c], arrived'[c]) = new,
         \A k \in Clients \ {c} : sent'[k] = sent[k] /\ arrived'[k] = arrived[k]
  PROVE  Queue' = [Queue EXCEPT ![c] = new] /\ Queue[c] = Way(sent[c], arrived[c])
<1>1. Queue = [k \in Clients |-> Way(sent[k], arrived[k])]
  BY QueueIs, Zenon
<1>2. Queue' = [k \in Clients |-> Way(sent'[k], arrived'[k])]
  BY QueueIs, Zenon
<1>3. ASSUME NEW k \in Clients
      PROVE  Way(sent'[k], arrived'[k]) = IF k = c THEN new ELSE Queue[k]
  BY <1>1, Zenon
<1>4. Queue' = [k \in Clients |-> IF k = c THEN new ELSE Queue[k]]
  BY <1>2, <1>3, Zenon
<1>5. [Queue EXCEPT ![c] = new] = [k \in Clients |-> IF k = c THEN new ELSE Queue[k]]
  BY <1>1, Zenon
<1> QED BY <1>1, <1>4, <1>5, Zenon

LEMMA ChannelInit == Init => Channel!Init
<1> SUFFICES ASSUME Init PROVE Channel!Init
  OBVIOUS
<1>1. Inv
  BY InvInit
<1>2. Queue = [c \in Clients |-> Way(sent[c], arrived[c])]
  BY <1>1, QueueIs, Zenon
<1>3. \A c \in Clients : sent[c] = <<>> /\ arrived[c] = 0
  BY DEF Init
<1>4. Queue = [c \in Clients |-> <<>>]
  BY <1>2, <1>3, WayEmpty, Zenon
<1>5. received = [c \in Clients |-> <<>>]
  BY DEF Init
<1> QED BY <1>4, <1>5, Zenon DEF Channel!Init

LEMMA ChannelNext == Inv /\ Inv' /\ [Next]_vars => [Channel!Next]_(Channel!vars)
<1> SUFFICES ASSUME Inv, Inv', [Next]_vars PROVE [Channel!Next]_(Channel!vars)
  OBVIOUS
<1>1. ASSUME NEW c \in Clients, Read(c) PROVE [Channel!Next]_(Channel!vars)
  <2> DEFINE q == Way(sent[c], arrived[c])
  <2>1. PICK n \in Nat : HandleData(c, n)
    BY <1>1, ReadSome, Zenon
  <2>2. /\ q \in Seq(Telegrams)
        /\ \E j \in 0 .. Len(q) : Delivers(c, j)
        /\ \A k \in Clients \ {c} : sent'[k] = sent[k] /\ arrived'[k] = arrived[k]
    BY <2>1, ReadStep, Zenon
  <2>3. PICK j \in 0 .. Len(q) : Delivers(c, j)
    BY <2>2, Zenon
  <2>4. /\ Way(sent'[c], arrived'[c]) = SubSeq(q, j + 1, Len(q))
        /\ received' = [received EXCEPT ![c] = @ \o Channel!HandedOver(q)[j]]
    BY <2>3, Zenon DEF Delivers
  <2>5. Queue' = [Queue EXCEPT ![c] = SubSeq(q, j + 1, Len(q))] /\ Queue[c] = q
    BY <2>2, <2>4, QueueChanges, Zenon
  <2> HIDE DEF q
  <2>6. CASE j \in 1 .. Len(q)
    <3>1. Queue' = [Queue EXCEPT ![c] = SubSeq(@, j + 1, Len(@))]
      BY <2>5, Zenon
    <3>2. Channel!Deliver(c)
      BY <2>4, <2>5, <2>6, <3>1, Zenon DEF Channel!Deliver
    <3> QED BY <3>2, Zenon DEF Channel!Next
  <2>7. CASE j = 0
    <3>1. SubSeq(q, 0 + 1, Len(q)) = q
      <4> DEFINE u == SubSeq(q, 0 + 1, Len(q))
      <4>1. Len(q) \in 0 .. Len(q) /\ 0 \in 0 .. Len(q)
        BY <2>2
      <4>2. /\ u \in Seq(Telegrams) /\ Len(u) = Len(q) - 0
            /\ \A k \in 1 .. Len(q) - 0 : u[k] = q[0 + k]
        BY <2>2, <4>1, Cut
      <4> HIDE DEF u
      <4>3. Len(u) = Len(q) /\ \A k \in 1 .. Len(u) : u[k] = q[k]
        BY <2>2, <4>2
      <4>4. u = q
        BY <2>2, <4>2, <4>3, SeqEqual
      <4> QED BY <4>4 DEF u
    <3>2. Queue' = Queue
      <4>1. DOMAIN Queue = Clients /\ Queue = [k \in Clients |-> Queue[k]]
        BY QueueIs
      <4> QED BY <2>5, <2>7, <3>1, <4>1, Zenon
    <3>3. Channel!HandedOver(q)[0] = <<>>
      BY <2>2, HandedOverSteps, Zenon
    <3>4. received[c] \in Seq(Known) /\ received \in [Clients -> Seq(Known)]
      BY DEF Inv
    <3>5. received[c] \o <<>> = received[c]
      BY <3>4
    <3>6. received' = received
      BY <2>4, <2>7, <3>3, <3>4, <3>5, Zenon
    <3> QED BY <3>2, <3>6, Zenon DEF Channel!vars
  <2>8. j = 0 \/ j \in 1 .. Len(q)
    BY <2>2
  <2> QED BY <2>6, <2>7, <2>8
<1>2. ASSUME NEW c \in Clients, Close(c) PROVE Channel!Next
  <2>1. /\ Way(sent'[c], arrived'[c]) = <<>>
        /\ \A k \in Clients \ {c} : sent'[k] = sent[k] /\ arrived'[k] = arrived[k]
    BY <1>2, CloseStep, Zenon
  <2>2. Queue' = [Queue EXCEPT ![c] = <<>>]
    BY <2>1, QueueChanges, Zenon
  <2>3. received' = [received EXCEPT ![c] = <<>>]
    BY <1>2 DEF Close
  <2>4. Channel!Close(c)
    BY <2>2, <2>3, Zenon DEF Channel!Close
  <2> QED BY <2>4, Zenon DEF Channel!Next
<1>3. ASSUME NEW c \in Clients, NEW noise \in Noise, NEW t \in Telegrams, Send(c, noise, t)
      PROVE  Channel!Next
  <2> DEFINE q == Way(sent[c], arrived[c])
  <2>1. /\ Way(sent'[c], arrived'[c]) = Append(q, t)
        /\ \A k \in Clients \ {c} : sent'[k] = sent[k] /\ arrived'[k] = arrived[k]
        /\ received' = received
    BY <1>3, SendStep, Zenon
  <2>2. Queue' = [Queue EXCEPT ![c] = Append(q, t)] /\ Queue[c] = q
    BY <2>1, QueueChanges, Zenon
  <2> HIDE DEF q
  <2>3. Queue' = [Queue EXCEPT ![c] = Append(@, t)]
    BY <2>2, Zenon
  <2>4. Channel!Send(c, t)
    BY <2>1, <2>3, Zenon DEF Channel!Send
  <2> QED BY <2>4, Zenon DEF Channel!Next
<1>4. CASE UNCHANGED vars
  <2>1. received' = received /\ sent' = sent /\ arrived' = arrived
    BY <1>4 DEF vars
  <2>2. Queue' = Queue
    BY <2>1, QueueIs, Zenon
  <2> QED BY <2>1, <2>2, Zenon DEF Channel!vars
<1> QED BY <1>1, <1>2, <1>3, <1>4, Zenon DEF Next

\* However TCP cuts the stream, whatever noise lies between the frames and however the
\* telegrams of several clients come in turn, the listeners get every telegram of a
\* known number once, whole, in the order it was sent, and as soon as its last byte has
\* been read (handleData(), the layouts of the registry, buildHeader(), build() and
\* autoParse()): for all telegrams whose values fit their fields, all reads and noise.
THEOREM ChannelKept == Spec => ImplementsChannel
<1>1. Inv /\ Inv' /\ [Next]_vars => [Channel!Next]_(Channel!vars)
  BY ChannelNext
<1>2. Init => Channel!Init
  BY ChannelInit
<1> QED BY <1>1, <1>2, StreamSound, PTL DEF Spec, ImplementsChannel, Channel!Spec
=============================================================================
