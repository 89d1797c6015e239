---------------------------- MODULE FramingProofs ----------------------------
(* Proofs about module Framing, for frames of every type, sequence number  *)
(* and payload and for reads of every size.                                *)
EXTENDS Framing, DataInduction, SequenceTheorems, TLAPS

----------------------------------------------------------------------------
(* Pieces put together *)

(* u is s with t behind it. *)
Glued(S, s, t, u) ==
    /\ u \in Seq(S) /\ Len(u) = Len(s) + Len(t)
    /\ \A i \in 1 .. Len(s) : u[i] = s[i]
    /\ \A i \in 1 .. Len(t) : u[Len(s) + i] = t[i]
    /\ \A i, j \in 1 .. Len(s) : SubSeq(u, i, j) = SubSeq(s, i, j)
    /\ SubSeq(u, Len(s) + 1, Len(u)) = t

LEMMA ConcatGlues ==
    ASSUME NEW S, NEW s \in Seq(S), NEW t \in Seq(S)
    PROVE  Glued(S, s, t, s \o t)
<1>1. s \o t \in Seq(S) /\ Len(s \o t) = Len(s) + Len(t)
  OBVIOUS
<1>2. SubSeq(s \o t, Len(s) + 1, Len(s) + Len(t)) = t
  OBVIOUS
<1>3. \A i \in 1 .. Len(s) : (s \o t)[i] = s[i]
  OBVIOUS
<1>4. \A i \in 1 .. Len(t) : (s \o t)[Len(s) + i] = t[i]
  OBVIOUS
<1>5. \A i, j \in 1 .. Len(s) : SubSeq(s \o t, i, j) = SubSeq(s, i, j)
  BY SubSeqOfConcat1
<1> QED
  BY <1>1, <1>2, <1>3, <1>4, <1>5, Zenon DEF Glued

(* upTo[i] is the first i pieces in a row, a sequence over S. *)
Flattens(S, ss, upTo) ==
    /\ \A i \in 0 .. Len(ss) : upTo[i] \in Seq(S)
    /\ upTo[0] = <<>> /\ \A i \in 1 .. Len(ss) : upTo[i] = upTo[i - 1] \o ss[i]
    /\ FlattenSeq(ss) = upTo[Len(ss)]

LEMMA FlattenForm ==
    ASSUME NEW S, NEW ss \in Seq(Seq(S))
    PROVE  \E f : Flattens(S, ss, f)
<1> DEFINE step == [i \in Nat \ {0} |-> [s \in Seq(S) |->
                       IF i <= Len(ss) THEN s \o ss[i] ELSE s]]
           Unfolds(g) == g = [i \in 1 .. Len(ss) |->
                                IF i = 1 THEN ss[i] ELSE g[i - 1] \o ss[i]]
           flatten == CHOOSE g : Unfolds(g)
<1>1. PICK n \in Nat : n = Len(ss)
  OBVIOUS
<1>2. \A i \in 1 .. n : ss[i] \in Seq(S)
  BY <1>1
<1>3. step \in [Nat \ {0} -> [Seq(S) -> Seq(S)]] /\ <<>> \in Seq(S)
  BY <1>1, <1>2, EmptySeq
<1>4. PICK f \in [0 .. n -> Seq(S)] : Recurs(f, n, <<>>, step)
  BY <1>3, RecursUpTo, Zenon
<1>5. \A i \in 0 .. n : f[i] \in Seq(S)
  OBVIOUS
<1>6. f[0] = <<>>
  BY <1>4 DEF Recurs
<1>7. ASSUME NEW i \in 1 .. n
      PROVE  f[i] = f[i - 1] \o ss[i]
  <2>1. i \in Nat \ {0} /\ i <= Len(ss) /\ i - 1 \in 0 .. n
    BY <1>1
  <2>2. f[i - 1] \in Seq(S)
    BY <2>1
  <2>3. f[i] = step[i][f[i - 1]]
    BY <1>4 DEF Recurs
  <2> QED
    BY <2>1, <2>2, <2>3
<1> HIDE DEF step
<1>8. CASE n = 0
  <2>1. ss = <<>> /\ Len(ss) = 0
    BY <1>1, <1>8, EmptySeq
  <2>2. FlattenSeq(ss) = ss
    BY <2>1, Zenon DEF FlattenSeq
  <2>3. \A i \in 1 .. Len(ss) : f[i] = f[i - 1] \o ss[i]
    BY <2>1
  <2> QED
    BY <1>1, <1>5, <1>6, <1>8, <2>1, <2>2, <2>3 DEF Flattens
<1>9. CASE n # 0
  <2> DEFINE g == [i \in 1 .. n |-> f[i]]
  <2>1. f[1] = ss[1]
    <3>1. 1 \in 1 .. n /\ 1 - 1 = 0
      BY <1>9
    <3>2. f[1] = <<>> \o ss[1]
      BY <1>6, <1>7, <3>1
    <3> QED
      BY <1>2, <3>1, <3>2, ConcatEmptySeq
  <2>2. ASSUME NEW i \in 1 .. n
        PROVE  g[i] = IF i = 1 THEN ss[i] ELSE g[i - 1] \o ss[i]
    <3>1. CASE i # 1
      <4>1. i - 1 \in 1 .. n
        BY <3>1
      <4> QED
        BY <1>7, <3>1, <4>1
    <3> QED
      BY <2>1, <3>1
  <2>3. Unfolds(g)
    BY <1>1, <2>2
  <2>4. Unfolds(flatten)
    BY <2>3, Zenon
  <2>5. FlattenSeq(ss) = flatten[n]
    BY <1>1, <1>9, Zenon DEF FlattenSeq
  <2> HIDE DEF flatten
  <2>6. \A i \in 1 .. n : flatten[i] = IF i = 1 THEN ss[i] ELSE flatten[i - 1] \o ss[i]
    BY <1>1, <2>4
  <2> DEFINE T == {i \in Nat : i \in 1 .. n => flatten[i] = f[i]}
  <2>7. 0 \in T
    OBVIOUS
  <2>8. ASSUME NEW i \in Nat, i \in T
        PROVE  i + 1 \in T
    <3>1. CASE i = 0
      <4>1. 1 \in 1 .. n /\ i + 1 = 1
        BY <1>9, <3>1
      <4>2. flatten[1] = f[1]
        BY <2>1, <2>6, <4>1
      <4> QED
        BY <4>1, <4>2
    <3>2. CASE i # 0 /\ i + 1 \in 1 .. n
      <4>1. i \in 1 .. n /\ (i + 1) - 1 = i /\ i + 1 # 1
        BY <3>2
      <4>2. flatten[i] = f[i]
        BY <2>8, <4>1
      <4>3. flatten[i + 1] = flatten[i] \o ss[i + 1]
        BY <2>6, <3>2, <4>1
      <4>4. f[i + 1] = f[i] \o ss[i + 1]
        BY <1>7, <3>2, <4>1
      <4>5. flatten[i + 1] = f[i + 1]
        BY <4>2, <4>3, <4>4
      <4> QED
        BY <4>5
    <3> QED
      BY <3>1, <3>2
  <2> HIDE DEF T
  <2>9. n \in T
    BY <2>7, <2>8, SetInduction
  <2>10. FlattenSeq(ss) = f[n]
    BY <1>9, <2>5, <2>9 DEF T
  <2> QED
    BY <1>1, <1>5, <1>6, <1>7, <2>10 DEF Flattens
<1> QED
  BY <1>8, <1>9

LEMMA FlattenTyped ==
    ASSUME NEW S, NEW ss \in Seq(Seq(S))
    PROVE  FlattenSeq(ss) \in Seq(S) /\ (Len(ss) = 0 => FlattenSeq(ss) = <<>>)
<1>1. PICK f : Flattens(S, ss, f)
  BY FlattenForm
<1>2. Len(ss) \in 0 .. Len(ss)
  OBVIOUS
<1> QED
  BY <1>1, <1>2 DEF Flattens

LEMMA FlattenFirst ==
    ASSUME NEW S, NEW ss \in Seq(Seq(S)), NEW tt \in Seq(Seq(S))
    PROVE  Len(ss) = Len(tt) + 1 /\ (\A i \in 1 .. Len(tt) : ss[i + 1] = tt[i])
              => ss[1] \in Seq(S) /\ FlattenSeq(ss) = ss[1] \o FlattenSeq(tt)
<1>1. SUFFICES ASSUME Len(ss) = Len(tt) + 1,
                      \A i \in 1 .. Len(tt) : ss[i + 1] = tt[i]
               PROVE  ss[1] \in Seq(S) /\ FlattenSeq(ss) = ss[1] \o FlattenSeq(tt)
  OBVIOUS
<1>2. PICK n \in Nat : n = Len(tt)
  OBVIOUS
<1>3. /\ ss[1] \in Seq(S) /\ \A i \in 1 .. n : ss[i + 1] = tt[i] /\ tt[i] \in Seq(S)
      /\ Len(ss) = n + 1
  BY <1>1, <1>2
<1>4. ss[1] \in Seq(S)
  BY <1>3
<1>5. PICK f : Flattens(S, ss, f)
  BY FlattenForm
<1>6. PICK g : Flattens(S, tt, g)
  BY FlattenForm
<1>7. /\ \A i \in 0 .. n + 1 : f[i] \in Seq(S)
      /\ f[0] = <<>> /\ \A i \in 1 .. n + 1 : f[i] = f[i - 1] \o ss[i]
      /\ FlattenSeq(ss) = f[n + 1]
  BY <1>3, <1>5 DEF Flattens
<1>8. /\ \A i \in 0 .. n : g[i] \in Seq(S)
      /\ g[0] = <<>> /\ \A i \in 1 .. n : g[i] = g[i - 1] \o tt[i]
      /\ FlattenSeq(tt) = g[n]
  BY <1>2, <1>6 DEF Flattens
<1> DEFINE T == {i \in Nat : i <= n => f[i + 1] = ss[1] \o g[i]}
<1>9. 0 \in T
  <2>1. 1 \in 1 .. n + 1 /\ 1 - 1 = 0 /\ 0 + 1 = 1
    OBVIOUS
  <2>2. f[1] = <<>> \o ss[1]
    BY <1>7, <2>1
  <2>3. <<>> \o ss[1] = ss[1] \o <<>>
    BY <1>3, ConcatEmptySeq
  <2>4. f[0 + 1] = ss[1] \o g[0]
    BY <1>8, <2>1, <2>2, <2>3
  <2> QED
    BY <2>4
<1>10. ASSUME NEW i \in Nat, i \in T
      PROVE  i + 1 \in T
  <2>1. i + 1 \in Nat
    OBVIOUS
  <2>2. CASE i + 1 <= n
    <3>1. /\ i + 1 \in 1 .. n /\ (i + 1) - 1 = i /\ i <= n
          /\ (i + 1) + 1 \in 1 .. n + 1 /\ ((i + 1) + 1) - 1 = i + 1
      BY <2>2
    <3>2. f[i + 1] = ss[1] \o g[i]
      BY <1>10, <3>1
    <3>3. f[(i + 1) + 1] = f[i + 1] \o ss[(i + 1) + 1] /\ ss[(i + 1) + 1] = tt[i + 1]
      BY <1>3, <1>7, <3>1
    <3>4. g[i + 1] = g[i] \o tt[i + 1]
      BY <1>8, <3>1
    <3>5. i \in 0 .. n
      BY <3>1
    <3>6. g[i] \in Seq(S)
      BY <1>8, <3>5, Zenon
    <3>7. tt[i + 1] \in Seq(S)
      BY <1>3, <3>1, Zenon
    <3>8. (ss[1] \o g[i]) \o tt[i + 1] = ss[1] \o (g[i] \o tt[i + 1])
      <4>1. PICK x \in Seq(S), y \in Seq(S), z \in Seq(S) :
               x = ss[1] /\ y = g[i] /\ z = tt[i + 1]
        BY <1>4, <3>6, <3>7, Zenon
      <4>2. (x \o y) \o z = x \o (y \o z)
        BY SMTT(40)
      <4> QED
        BY <4>1, <4>2, Zenon
    <3>9. f[(i + 1) + 1] = ss[1] \o g[i + 1]
      BY <3>2, <3>3, <3>4, <3>8, Zenon
    <3> QED
      BY <2>1, <3>9, Zenon
  <2> QED
    BY <2>1, <2>2, Zenon
<1> HIDE DEF T
<1>11. n <= n
  OBVIOUS
<1>12. n \in T
  BY <1>9, <1>10, SetInduction
<1>13. f[n + 1] = ss[1] \o g[n]
  BY <1>11, <1>12, Zenon DEF T
<1> QED
  BY <1>3, <1>7, <1>8, <1>13, Zenon

----------------------------------------------------------------------------
(* Bytes of a frame *)

LEMMA TypesReadBack ==
    ASSUME NEW b \in Byte
    PROVE  ToByte(FromByte(b)) = b
<1> DEFINE names == DOMAIN Named
<1>1. /\ names = {"ack", "data_mdr", "data_mdr_no2"}
      /\ "other" \notin names
  BY DEF Named
<1>2. CASE \E n \in names : Named[n] = b
  <2>1. PICK m : m = CHOOSE n \in names : Named[n] = b
    OBVIOUS
  <2>2. m \in names /\ Named[m] = b
    BY <1>2, <2>1
  <2>3. FromByte(b).name = m
    BY <1>2, <2>1 DEF FromByte
  <2> QED
    BY <1>1, <2>2, <2>3 DEF ToByte
<1>3. CASE ~ \E n \in names : Named[n] = b
  BY <1>3 DEF FromByte, ToByte
<1> QED
  BY <1>2, <1>3

LEMMA FrameForm ==
    ASSUME NEW f \in FrameSet
    PROVE  /\ ToByte(f.type) \in Byte /\ f.seq \in Byte /\ f.payload \in Seq(Byte)
           /\ f = Frame(ToByte(f.type), f.seq, f.payload)
<1>1. PICK b \in Byte : f.type = FromByte(b)
  BY DEF FrameSet
<1>2. ToByte(f.type) = b
  BY <1>1, TypesReadBack, Zenon
<1>3. f.seq \in Byte /\ f.payload \in Seq(Byte)
  BY DEF FrameSet
<1>4. f = [type |-> f.type, seq |-> f.seq, payload |-> f.payload]
  BY DEF FrameSet
<1>5. f = Frame(b, f.seq, f.payload)
  BY <1>1, <1>4, Zenon DEF Frame
<1> QED
  BY <1>2, <1>3, <1>5, Zenon

LEMMA LengthReadsBack ==
    ASSUME NEW n \in Nat, ((n \div 256) \div 256) \div 256 \in Byte
    PROVE  /\ BigEndian(n) \in Seq(Byte) /\ Len(BigEndian(n)) = 4
           /\ FromBigEndian(BigEndian(n)) = n
<1> DEFINE over1 == n \div 256
           over2 == over1 \div 256
           over3 == over2 \div 256
<1>1. over1 \in Nat /\ over2 \in Nat /\ over3 \in Byte
  BY DEF Byte
<1>2. \A m \in Nat : m % 256 \in Byte /\ m = (m \div 256) * 256 + (m % 256)
  BY DEF Byte
<1>3. PICK d \in Byte : d = n % 256 /\ n = over1 * 256 + d
  BY <1>2
<1>4. PICK c \in Byte : c = over1 % 256 /\ over1 = over2 * 256 + c
  BY <1>1, <1>2
<1>5. PICK b \in Byte : b = over2 % 256 /\ over2 = over3 * 256 + b
  BY <1>1, <1>2
<1>6. PICK a \in Byte : a = over3 % 256 /\ a = over3
  BY <1>1 DEF Byte
<1>7. BigEndian(n) = <<over3 % 256, over2 % 256, over1 % 256, n % 256>>
  BY DEF BigEndian
<1> HIDE DEF over1, over2, over3
<1>8. FromBigEndian(<<a, b, c, d>>) = ((a * 256 + b) * 256 + c) * 256 + d
  BY DEF FromBigEndian
<1>9. n = ((a * 256 + b) * 256 + c) * 256 + d
  BY <1>3, <1>4, <1>5, <1>6 DEF Byte
<1>10. <<a, b, c, d>> \in Seq(Byte) /\ Len(<<a, b, c, d>>) = 4
  OBVIOUS
<1>11. BigEndian(n) = <<a, b, c, d>>
  BY <1>3, <1>4, <1>5, <1>6, <1>7, ZenonT(40)
<1> QED
  BY <1>8, <1>9, <1>10, <1>11, ZenonT(40)

----------------------------------------------------------------------------
(* Escapes *)

Halfway == [out : Seq(Byte), open : BOOLEAN]

LEMMA MoreIsTyped ==
    ASSUME NEW sofar \in Halfway, NEW b \in Byte
    PROVE  OneByteMore(sofar, b) \in Halfway
<1>1. b + 16 * (1 - Bit4(b)) \in Byte
  BY DEF Bit4, Byte
<1>2. PICK c \in Byte : c = b + 16 * (1 - Bit4(b))
  BY <1>1
<1>3. /\ sofar.out \in Seq(Byte) /\ Append(sofar.out, b) \in Seq(Byte)
      /\ Append(sofar.out, c) \in Seq(Byte)
  BY DEF Halfway
<1> QED
  BY <1>2, <1>3, Zenon DEF OneByteMore, Halfway

(* upTo[i] is what the first i bytes come to. *)
Unescapes(bytes, upTo) ==
    /\ \A i \in 0 .. Len(bytes) : upTo[i] \in Halfway
    /\ upTo[0] = [out |-> <<>>, open |-> FALSE]
    /\ \A i \in 1 .. Len(bytes) : upTo[i] = OneByteMore(upTo[i - 1], bytes[i])
    /\ Unescape(bytes) = upTo[Len(bytes)]

LEMMA UnescapeForm ==
    ASSUME NEW bytes \in Seq(Byte)
    PROVE  \E f : Unescapes(bytes, f)
<1> DEFINE nothing == [out |-> <<>>, open |-> FALSE]
           step == [i \in Nat \ {0} |-> [h \in Halfway |->
                       IF i <= Len(bytes) THEN OneByteMore(h, bytes[i]) ELSE h]]
           Unfolds(g) == g = [i \in 0 .. Len(bytes) |->
                                IF i = 0 THEN nothing ELSE OneByteMore(g[i - 1], bytes[i])]
           upTo == CHOOSE g : Unfolds(g)
<1>1. PICK n \in Nat : n = Len(bytes)
  OBVIOUS
<1>2. \A i \in 1 .. n : bytes[i] \in Byte
  BY <1>1
<1>3. nothing \in Halfway
  BY EmptySeq DEF Halfway
<1>4. step \in [Nat \ {0} -> [Halfway -> Halfway]]
  <2>1. ASSUME NEW i \in Nat \ {0}, NEW h \in Halfway
        PROVE  (IF i <= Len(bytes) THEN OneByteMore(h, bytes[i]) ELSE h) \in Halfway
    <3>1. CASE i <= Len(bytes)
      <4>1. bytes[i] \in Byte
        BY <1>1, <1>2, <3>1
      <4> QED
        BY <3>1, <4>1, MoreIsTyped, Zenon
    <3> QED
      BY <3>1, Zenon
  <2> QED
    BY <2>1, Zenon
<1> HIDE DEF nothing, step
<1>5. PICK f \in [0 .. n -> Halfway] : Recurs(f, n, nothing, step)
  BY <1>3, <1>4, RecursUpTo, Zenon
<1>6. f[0] = nothing
  BY <1>5, Zenon DEF Recurs
<1>7. ASSUME NEW i \in 1 .. n
      PROVE  f[i] = OneByteMore(f[i - 1], bytes[i])
  <2>1. i \in Nat \ {0} /\ i <= Len(bytes) /\ i - 1 \in 0 .. n
    BY <1>1
  <2>2. f[i - 1] \in Halfway
    BY <2>1, Zenon
  <2>3. f[i] = step[i][f[i - 1]]
    BY <1>5, Zenon DEF Recurs
  <2> QED
    BY <2>1, <2>2, <2>3, Zenon DEF step
<1>8. ASSUME NEW i \in 0 .. n
      PROVE  f[i] = IF i = 0 THEN nothing ELSE OneByteMore(f[i - 1], bytes[i])
  <2>1. i # 0 => i \in 1 .. n
    OBVIOUS
  <2> QED
    BY <1>6, <1>7, <2>1, Zenon
<1>9. Unfolds(f)
  BY <1>1, <1>8, Zenon
<1>10. Unfolds(upTo)
  BY <1>9, Zenon
<1>11. Unescape(bytes) = upTo[Len(bytes)]
  BY Zenon DEF Unescape, nothing
<1> HIDE DEF upTo
<1>12. \A i \in 0 .. n :
          upTo[i] = IF i = 0 THEN nothing ELSE OneByteMore(upTo[i - 1], bytes[i])
  BY <1>1, <1>10, Zenon
<1> DEFINE T == {i \in Nat : i <= n => upTo[i] = f[i]}
<1>13. 0 \in T
  <2>1. 0 \in 0 .. n /\ 0 \in Nat
    OBVIOUS
  <2> QED
    BY <1>6, <1>12, <2>1, Zenon
<1>14. ASSUME NEW i \in Nat, i \in T
       PROVE  i + 1 \in T
  <2>1. i + 1 \in Nat
    OBVIOUS
  <2>2. CASE i + 1 <= n
    <3>1. /\ i <= n /\ i + 1 \in 0 .. n /\ i + 1 \in 1 .. n
          /\ i + 1 # 0 /\ (i + 1) - 1 = i
      BY <2>2
    <3>2. upTo[i] = f[i]
      BY <1>14, <3>1, Zenon
    <3>3. upTo[i + 1] = OneByteMore(upTo[(i + 1) - 1], bytes[i + 1])
      BY <1>12, <3>1, Zenon
    <3>4. f[i + 1] = OneByteMore(f[(i + 1) - 1], bytes[i + 1])
      BY <1>7, <3>1, Zenon
    <3>5. upTo[i + 1] = f[i + 1]
      BY <3>1, <3>2, <3>3, <3>4, Zenon
    <3> QED
      BY <2>1, <3>5, Zenon
  <2> QED
    BY <2>1, <2>2, Zenon
<1> HIDE DEF T
<1>15. n \in T
  BY <1>13, <1>14, SetInduction
<1>16. n <= n /\ n \in 0 .. n
  OBVIOUS
<1>17. upTo[n] = f[n]
  BY <1>15, <1>16, Zenon DEF T
<1> QED
  BY <1>1, <1>6, <1>7, <1>11, <1>17, Zenon DEF Unescapes, nothing

LEMMA UnescapeTyped ==
    ASSUME NEW bytes \in Seq(Byte)
    PROVE  Unescape(bytes) \in Halfway
<1>1. PICK f : Unescapes(bytes, f)
  BY UnescapeForm
<1>2. Len(bytes) \in 0 .. Len(bytes)
  OBVIOUS
<1> QED
  BY <1>1, <1>2, Zenon DEF Unescapes

LEMMA UnescapeNothing == Unescape(<<>>) = [out |-> <<>>, open |-> FALSE]
<1>1. PICK f : Unescapes(<<>>, f)
  BY EmptySeq, UnescapeForm, Zenon
<1>2. Len(<<>>) = 0
  OBVIOUS
<1> QED
  BY <1>1, <1>2, Zenon DEF Unescapes

(* The bytes of x that are read first do not depend on what follows. *)
LEMMA UnescapeAppend ==
    ASSUME NEW x \in Seq(Byte), NEW b \in Byte
    PROVE  Unescape(Append(x, b)) = OneByteMore(Unescape(x), b)
<1>1. PICK n \in Nat : n = Len(x)
  OBVIOUS
<1>2. PICK y : y = Append(x, b)
  OBVIOUS
<1>3. /\ y \in Seq(Byte) /\ Len(y) = n + 1 /\ y[n + 1] = b
      /\ \A i \in 1 .. n : y[i] = x[i]
  BY <1>1, <1>2
<1>4. PICK f : Unescapes(x, f)
  BY UnescapeForm
<1>5. PICK g : Unescapes(y, g)
  BY <1>3, UnescapeForm
<1>6. /\ f[0] = [out |-> <<>>, open |-> FALSE] /\ Unescape(x) = f[n]
      /\ \A i \in 1 .. n : f[i] = OneByteMore(f[i - 1], x[i])
  BY <1>1, <1>4, Zenon DEF Unescapes
<1>7. /\ g[0] = [out |-> <<>>, open |-> FALSE] /\ Unescape(y) = g[n + 1]
      /\ \A i \in 1 .. n + 1 : g[i] = OneByteMore(g[i - 1], y[i])
  BY <1>3, <1>5, Zenon DEF Unescapes
<1> DEFINE T == {i \in Nat : i <= n => g[i] = f[i]}
<1>8. 0 \in T
  BY <1>6, <1>7, Zenon
<1>9. ASSUME NEW i \in Nat, i \in T
      PROVE  i + 1 \in T
  <2>1. i + 1 \in Nat
    OBVIOUS
  <2>2. CASE i + 1 <= n
    <3>1. i <= n /\ i + 1 \in 1 .. n /\ i + 1 \in 1 .. n + 1 /\ (i + 1) - 1 = i
      BY <2>2
    <3>2. g[(i + 1) - 1] = f[(i + 1) - 1]
      BY <1>9, <3>1, Zenon
    <3>3. g[i + 1] = f[i + 1]
      BY <1>3, <1>6, <1>7, <3>1, <3>2, Zenon
    <3> QED
      BY <2>1, <3>3, Zenon
  <2> QED
    BY <2>1, <2>2, Zenon
<1> HIDE DEF T
<1>10. n \in T
  BY <1>8, <1>9, SetInduction
<1>11. n <= n /\ n + 1 \in 1 .. n + 1 /\ (n + 1) - 1 = n
  OBVIOUS
<1>12. g[n] = f[n]
  BY <1>10, <1>11, Zenon DEF T
<1>13. g[n + 1] = OneByteMore(g[n], b)
  BY <1>3, <1>7, <1>11, Zenon
<1> QED
  BY <1>2, <1>6, <1>7, <1>12, <1>13, Zenon

(* An escaped byte reads as the byte. *)
LEMMA EscapeReadsBack ==
    ASSUME NEW x \in Seq(Byte), NEW b \in Byte, ~ Unescape(x).open
    PROVE  /\ Escaped(b) \in Seq(Byte \ {Start, End})
           /\ Unescape(x \o Escaped(b)) =
                 [out |-> Append(Unescape(x).out, b), open |-> FALSE]
<1> DEFINE u == Unescape(x)
           c == b - 16 * Bit4(b)
<1>1. u \in Halfway
  BY UnescapeTyped
<1>2. CASE b \in {Start, End, Escape}
  <2>1. /\ c \in Byte /\ c # Start /\ c # End /\ c # Escape /\ Escape \in Byte
        /\ Escape # Start /\ Escape # End /\ c + 16 * (1 - Bit4(c)) = b
    BY <1>2 DEF Bit4, Byte, Start, End, Escape
  <2> HIDE DEF c
  <2>2. PICK d \in Byte \ {Start, End} : d = c
    BY <2>1
  <2>3. Escape \in Byte \ {Start, End}
    BY <2>1
  <2>4. Escaped(b) = <<Escape, d>>
    BY <1>2, <2>2, Zenon DEF Escaped, c
  <2>5. <<Escape, d>> \in Seq(Byte \ {Start, End})
    BY <2>3
  <2>6. x \o <<Escape, d>> = Append(Append(x, Escape), d)
    BY <2>3
  <2>7. Append(x, Escape) \in Seq(Byte)
    BY <2>3
  <2>8. Unescape(Append(x, Escape)) = OneByteMore(u, Escape)
    BY <2>1, UnescapeAppend, Zenon
  <2>9. OneByteMore(u, Escape) = [out |-> u.out, open |-> TRUE]
    BY Zenon DEF OneByteMore
  <2>10. Unescape(Append(Append(x, Escape), d)) = OneByteMore([out |-> u.out, open |-> TRUE], d)
    BY <2>1, <2>2, <2>7, <2>8, <2>9, UnescapeAppend, Zenon
  <2>11. OneByteMore([out |-> u.out, open |-> TRUE], d) =
            [out |-> Append(u.out, b), open |-> FALSE]
    BY <2>1, <2>2, Zenon DEF OneByteMore
  <2> QED
    BY <2>4, <2>5, <2>6, <2>10, <2>11, Zenon
<1>3. CASE b \notin {Start, End, Escape}
  <2>1. Escaped(b) = <<b>>
    BY <1>3, Zenon DEF Escaped
  <2>2. b \in Byte \ {Start, End} /\ b # Escape
    BY <1>3
  <2>3. <<b>> \in Seq(Byte \ {Start, End})
    BY <2>2
  <2>4. x \o <<b>> = Append(x, b)
    OBVIOUS
  <2>5. OneByteMore(u, b) = [out |-> Append(u.out, b), open |-> FALSE]
    BY <2>2, Zenon DEF OneByteMore
  <2> QED
    BY <2>1, <2>3, <2>4, <2>5, UnescapeAppend, Zenon
<1> QED
  BY <1>2, <1>3

LEMMA BodyReadsBack ==
    ASSUME NEW bytes \in Seq(Byte)
    PROVE  /\ EscapedBody(bytes) \in Seq(Byte \ {Start, End})
           /\ Unescape(EscapedBody(bytes)) = [out |-> bytes, open |-> FALSE]
<1> DEFINE S == Byte \ {Start, End}
<1>1. PICK n \in Nat : n = Len(bytes)
  OBVIOUS
<1>2. \A i \in 1 .. n : bytes[i] \in Byte
  BY <1>1
<1>3. PICK ss : ss = [i \in DOMAIN bytes |-> Escaped(bytes[i])]
  OBVIOUS
<1>4. DOMAIN bytes = 1 .. n
  BY <1>1
<1>5. Unescape(<<>>) = [out |-> <<>>, open |-> FALSE] /\ <<>> \in Seq(Byte)
  BY UnescapeNothing, EmptySeq, Zenon
<1>6. ASSUME NEW i \in 1 .. n
      PROVE  ss[i] = Escaped(bytes[i]) /\ ss[i] \in Seq(S)
  <2>1. ~ Unescape(<<>>).open
    BY <1>5
  <2>2. Escaped(bytes[i]) \in Seq(S)
    BY <1>2, <1>5, <2>1, EscapeReadsBack, Zenon
  <2> QED
    BY <1>3, <1>4, <2>2, Zenon
<1>7. ss \in Seq(Seq(S)) /\ Len(ss) = n
  <2>1. ss \in [1 .. n -> Seq(S)]
    BY <1>3, <1>4, <1>6, Zenon
  <2> QED
    BY <1>1, <2>1, SeqDef
<1>8. PICK f : Flattens(S, ss, f)
  BY <1>7, FlattenForm, Zenon
<1>9. /\ f[0] = <<>> /\ EscapedBody(bytes) = f[n]
      /\ \A i \in 0 .. n : f[i] \in Seq(S)
      /\ \A i \in 1 .. n : f[i] = f[i - 1] \o ss[i]
  BY <1>3, <1>7, <1>8, Zenon DEF Flattens, EscapedBody
<1> DEFINE upTo(i) == [out |-> SubSeq(bytes, 1, i), open |-> FALSE]
           T == {i \in Nat : i <= n => Unescape(f[i]) = upTo(i)}
<1>10. 0 \in T
  <2>1. SubSeq(bytes, 1, 0) = <<>>
    OBVIOUS
  <2> QED
    BY <1>5, <1>9, <2>1, Zenon
<1>11. ASSUME NEW i \in Nat, i \in T
       PROVE  i + 1 \in T
  <2>1. i + 1 \in Nat
    OBVIOUS
  <2>2. CASE i + 1 <= n
    <3>1. i <= n /\ i \in 0 .. n /\ i + 1 \in 1 .. n /\ (i + 1) - 1 = i
      BY <2>2
    <3>2. f[i + 1] = f[i] \o Escaped(bytes[i + 1])
      BY <1>6, <1>9, <3>1, Zenon
    <3>3. f[i] \in Seq(S) /\ bytes[i + 1] \in Byte
      BY <1>2, <1>9, <3>1, Zenon
    <3>4. f[i] \in Seq(Byte)
      BY <3>3, SeqMonotonic
    <3>5. Unescape(f[i]) = upTo(i)
      BY <1>11, <3>1, Zenon
    <3>6. Unescape(f[i]).out = SubSeq(bytes, 1, i) /\ ~ Unescape(f[i]).open
      BY <3>5
    <3>7. Unescape(f[i] \o Escaped(bytes[i + 1])) =
             [out |-> Append(SubSeq(bytes, 1, i), bytes[i + 1]), open |-> FALSE]
      BY <3>3, <3>4, <3>6, EscapeReadsBack, Zenon
    <3>8. Append(SubSeq(bytes, 1, i), bytes[i + 1]) = SubSeq(bytes, 1, i + 1)
      BY <1>1, <3>1
    <3>9. Unescape(f[i + 1]) = upTo(i + 1)
      BY <3>2, <3>7, <3>8, Zenon
    <3> QED
      BY <2>1, <3>9, Zenon
  <2> QED
    BY <2>1, <2>2, Zenon
<1> HIDE DEF T
<1>12. n \in T
  BY <1>10, <1>11, SetInduction
<1>13. n <= n /\ n \in 0 .. n /\ SubSeq(bytes, 1, n) = bytes
  BY <1>1
<1>14. Unescape(f[n]) = upTo(n)
  BY <1>12, <1>13, Zenon DEF T
<1> QED
  BY <1>9, <1>13, <1>14, Zenon

----------------------------------------------------------------------------
(* One frame *)

LEMMA ChecksumTyped ==
    ASSUME NEW body \in Seq(Byte)
    PROVE  Checksum(body) \in Byte
<1> DEFINE step == [i \in Nat \ {0} |-> [s \in Byte |->
                       IF i <= Len(body) THEN (s + body[i]) % 256 ELSE s]]
           Unfolds(g) == g = [i \in 0 .. Len(body) |->
                                IF i = 0 THEN 0 ELSE (g[i - 1] + body[i]) % 256]
           sum == CHOOSE g : Unfolds(g)
<1>1. PICK n \in Nat : n = Len(body)
  OBVIOUS
<1>2. \A i \in 1 .. n : body[i] \in Byte
  BY <1>1
<1>3. \A s, c \in Byte : (s + c) % 256 \in Byte
  BY DEF Byte
<1>4. 0 \in Byte
  BY DEF Byte
<1>5. step \in [Nat \ {0} -> [Byte -> Byte]]
  <2>1. ASSUME NEW i \in Nat \ {0}, NEW s \in Byte
        PROVE  (IF i <= Len(body) THEN (s + body[i]) % 256 ELSE s) \in Byte
    <3>1. CASE i <= Len(body)
      <4>1. body[i] \in Byte
        BY <1>1, <1>2, <3>1
      <4> QED
        BY <1>3, <3>1, <4>1, Zenon
    <3> QED
      BY <3>1, Zenon
  <2> QED
    BY <2>1, Zenon
<1> HIDE DEF step
<1>6. PICK f \in [0 .. n -> Byte] : Recurs(f, n, 0, step)
  BY <1>4, <1>5, RecursUpTo, Zenon
<1>7. ASSUME NEW i \in 0 .. n
      PROVE  f[i] = IF i = 0 THEN 0 ELSE (f[i - 1] + body[i]) % 256
  <2>1. CASE i # 0
    <3>1. i \in 1 .. n /\ i \in Nat \ {0} /\ i <= Len(body) /\ i - 1 \in 0 .. n
      BY <1>1, <2>1
    <3>2. f[i] = step[i][f[i - 1]] /\ f[i - 1] \in Byte
      BY <1>6, <3>1, Zenon DEF Recurs
    <3> QED
      BY <2>1, <3>1, <3>2, Zenon DEF step
  <2> QED
    BY <1>6, <2>1, Zenon DEF Recurs
<1>8. Unfolds(f)
  BY <1>1, <1>7
<1>9. Unfolds(sum)
  BY <1>8, ZenonT(40)
<1>10. Checksum(body) = sum[n]
  BY <1>1, Zenon DEF Checksum
<1> HIDE DEF sum
<1>11. \A i \in 0 .. n : sum[i] = IF i = 0 THEN 0 ELSE (sum[i - 1] + body[i]) % 256
  BY <1>1, <1>9, Zenon
<1> DEFINE T == {i \in Nat : i <= n => sum[i] \in Byte}
<1>12. 0 \in T
  <2>1. 0 \in 0 .. n /\ 0 \in Nat
    OBVIOUS
  <2> QED
    BY <1>4, <1>11, <2>1, Zenon
<1>13. ASSUME NEW i \in Nat, i \in T
       PROVE  i + 1 \in T
  <2>1. i + 1 \in Nat
    OBVIOUS
  <2>2. CASE i + 1 <= n
    <3>1. /\ i <= n /\ i + 1 \in 0 .. n /\ i + 1 \in 1 .. n
          /\ i + 1 # 0 /\ (i + 1) - 1 = i
      BY <2>2
    <3>2. sum[i] \in Byte /\ body[i + 1] \in Byte
      BY <1>2, <1>13, <3>1, Zenon
    <3>3. sum[i + 1] = (sum[i] + body[i + 1]) % 256
      BY <1>11, <3>1, ZenonT(40)
    <3>4. sum[i + 1] \in Byte
      BY <1>3, <3>2, <3>3
    <3> QED
      BY <2>1, <3>4, Zenon
  <2> QED
    BY <2>1, <2>2, Zenon
<1> HIDE DEF T
<1>14. n \in T
  BY <1>12, <1>13, SetInduction
<1>15. n <= n
  OBVIOUS
<1> QED
  BY <1>10, <1>14, <1>15, Zenon DEF T

(* u is the header with type t, number s and length l, and p behind it. *)
LaidOut(S, t, s, l, p, u) ==
    /\ u \in Seq(S) /\ Len(u) = 6 + Len(p) /\ u[1] = t /\ u[2] = s
    /\ SubSeq(u, 3, 6) = l /\ SubSeq(u, 7, Len(u)) = p

LEMMA Layout ==
    ASSUME NEW S, NEW t \in S, NEW s \in S, NEW l \in Seq(S), NEW p \in Seq(S)
    PROVE  Len(l) = 4 => LaidOut(S, t, s, l, p, <<t, s>> \o l \o p)
<1>1. HAVE Len(l) = 4
<1>2. PICK g : g = <<t, s>>
  OBVIOUS
<1>3. g \in Seq(S) /\ Len(g) = 2 /\ g[1] = t /\ g[2] = s
  BY <1>2
<1>4. PICK h : h = g \o l /\ Glued(S, g, l, h)
  BY <1>3, ConcatGlues, Zenon
<1>5. h \in Seq(S) /\ Len(h) = 6 /\ h[1] = t /\ h[2] = s /\ SubSeq(h, 3, 6) = l
  BY <1>1, <1>3, <1>4 DEF Glued
<1>6. PICK u : u = h \o p /\ Glued(S, h, p, u)
  BY <1>5, ConcatGlues, Zenon
<1>7. u \in Seq(S) /\ Len(u) = 6 + Len(p) /\ u[1] = t /\ u[2] = s
  BY <1>5, <1>6 DEF Glued
<1>8. SubSeq(u, 3, 6) = l
  BY <1>5, <1>6 DEF Glued
<1>9. SubSeq(u, 7, Len(u)) = p
  BY <1>5, <1>6 DEF Glued
<1> QED
  BY <1>2, <1>4, <1>6, <1>7, <1>8, <1>9, Zenon DEF LaidOut

LEMMA BodyForm ==
    ASSUME NEW f, OnTheWire(f)
    PROVE  /\ Body(f) \in Seq(Byte) /\ Len(Body(f)) = HeaderLen + Len(f.payload)
           /\ Body(f)[1] = ToByte(f.type) /\ Body(f)[2] = f.seq
           /\ FromBigEndian(SubSeq(Body(f), 3, 6)) = Len(f.payload)
           /\ SubSeq(Body(f), HeaderLen + 1, Len(Body(f))) = f.payload
<1>1. PICK t \in Byte, s \in Byte, p \in Seq(Byte) :
         t = ToByte(f.type) /\ s = f.seq /\ p = f.payload
  BY FrameForm, Zenon DEF OnTheWire
<1>2. ((Len(p) \div 256) \div 256) \div 256 \in Byte
  BY <1>1, Zenon DEF OnTheWire
<1>3. PICK m \in Nat : m = Len(p)
  OBVIOUS
<1>4. PICK l \in Seq(Byte) : l = BigEndian(m) /\ Len(l) = 4 /\ FromBigEndian(l) = m
  BY <1>2, <1>3, LengthReadsBack, Zenon
<1>5. PICK body : body = <<t, s>> \o l \o p
  OBVIOUS
<1>6. LaidOut(Byte, t, s, l, p, body)
  BY <1>4, <1>5, Layout, Zenon
<1>7. Body(f) = body
  BY <1>1, <1>3, <1>4, <1>5, Zenon DEF Body
<1>8. HeaderLen = 6 /\ HeaderLen + 1 = 7
  BY DEF HeaderLen
<1> QED
  BY <1>1, <1>3, <1>4, <1>6, <1>7, <1>8, Zenon DEF LaidOut

(* What Encode lays out is judged to be the frame itself. *)
LEMMA JudgeReadsBack ==
    ASSUME NEW f, OnTheWire(f)
    PROVE  /\ Append(Body(f), Checksum(Body(f))) \in Seq(Byte)
           /\ Judge(Append(Body(f), Checksum(Body(f)))) = Verdict("frame", <<f>>)
<1>1. PICK body \in Seq(Byte) : body = Body(f)
  BY BodyForm, Zenon
<1>2. PICK sum \in Byte : sum = Checksum(body)
  BY ChecksumTyped, Zenon
<1>3. PICK m \in Nat : m = Len(f.payload)
  BY FrameForm, LenProperties, Zenon DEF OnTheWire
<1>4. /\ Len(body) = 6 + m /\ body[1] = ToByte(f.type) /\ body[2] = f.seq
      /\ FromBigEndian(SubSeq(body, 3, 6)) = m
      /\ SubSeq(body, HeaderLen + 1, Len(body)) = f.payload
  BY <1>1, <1>3, BodyForm, Zenon DEF HeaderLen
<1>5. PICK bytes : bytes = Append(body, sum)
  OBVIOUS
<1>6. bytes \in Seq(Byte) /\ Len(bytes) = Len(body) + 1 /\ bytes[Len(body) + 1] = sum
  BY <1>5, AppendProperties
<1>7. SubSeq(bytes, 1, Len(body)) = body
  BY <1>5
<1>8. Len(body) = 6 + m
  BY <1>4
<1>9. Len(bytes) = m + 7 /\ bytes[m + 7] = sum /\ SubSeq(bytes, 1, Len(bytes) - 1) = body
  BY <1>6, <1>7, <1>8
<1>10. ~ Len(bytes) < HeaderLen + 1
  BY <1>9 DEF HeaderLen
<1>11. Frame(body[1], body[2], f.payload) = f
  BY <1>4, FrameForm, Zenon DEF OnTheWire
<1>12. Judge(bytes) = Verdict("frame", <<f>>)
  BY <1>2, <1>3, <1>4, <1>9, <1>10, <1>11, Zenon DEF Judge
<1> QED
  BY <1>1, <1>2, <1>5, <1>6, <1>12, Zenon

----------------------------------------------------------------------------
(* Frames in a buffer *)

LEMMA PositionForm ==
    ASSUME NEW buf, NEW from \in Nat, NEW b
    PROVE  \/ /\ Position(buf, from, b) = 0
              /\ \A i \in from .. Len(buf) : buf[i] # b
           \/ /\ Position(buf, from, b) \in from .. Len(buf)
              /\ buf[Position(buf, from, b)] = b
              /\ \A i \in from .. Len(buf) : buf[i] = b => Position(buf, from, b) <= i
<1> DEFINE I == {i \in from .. Len(buf) : buf[i] = b}
<1>1. Position(buf, from, b) = IF I # {} THEN Min(I) ELSE 0
  BY Zenon DEF Position, SelectInSubSeq
<1>2. CASE I = {}
  BY <1>1, <1>2, Zenon
<1>3. CASE I # {}
  <2>1. I \subseteq Nat
    OBVIOUS
  <2>2. PICK x \in I : \A y \in I : x <= y
    BY <1>3, <2>1, LeastNatural, Zenon
  <2>3. Min(I) \in I /\ \A y \in I : Min(I) <= y
    BY <2>2, Zenon DEF Min
  <2> QED
    BY <1>1, <1>3, <2>3, Zenon
<1> QED
  BY <1>2, <1>3

(* The bytes of an encoded frame: its markers are its first and its last.  *)
Marked(bytes, m) ==
    /\ m \in Seq(Byte \ {Start, End}) /\ bytes \in Seq(Byte)
    /\ Len(bytes) = Len(m) + 2 /\ bytes[1] = Start /\ bytes[Len(bytes)] = End
    /\ \A i \in 1 .. Len(m) : bytes[i + 1] = m[i]

LEMMA EncodeForm ==
    ASSUME NEW f, OnTheWire(f)
    PROVE  \E m : /\ Marked(Encode(f), m)
                  /\ ~ Unescape(m).open
                  /\ Judge(Unescape(m).out) = Verdict("frame", <<f>>)
<1> DEFINE S == Byte \ {Start, End}
<1>1. PICK bytes \in Seq(Byte) : /\ bytes = Append(Body(f), Checksum(Body(f)))
                                 /\ Judge(bytes) = Verdict("frame", <<f>>)
  BY JudgeReadsBack, Zenon
<1>2. PICK m \in Seq(S) : /\ m = EscapedBody(bytes)
                          /\ Unescape(m) = [out |-> bytes, open |-> FALSE]
  BY BodyReadsBack, Zenon
<1>3. Encode(f) = <<Start>> \o m \o <<End>>
  BY <1>1, <1>2, Zenon DEF Encode
<1>4. m \in Seq(Byte)
  BY SeqMonotonic
<1>5. Start \in Byte /\ End \in Byte
  BY DEF Start, End, Byte
<1>6. PICK a : a = <<Start>>
  OBVIOUS
<1>7. a \in Seq(Byte) /\ Len(a) = 1 /\ a[1] = Start
  BY <1>5, <1>6
<1>8. PICK z : z = <<End>>
  OBVIOUS
<1>9. z \in Seq(Byte) /\ Len(z) = 1 /\ z[1] = End
  BY <1>5, <1>8
<1>10. PICK h : h = a \o m /\ Glued(Byte, a, m, h)
  BY <1>4, <1>7, ConcatGlues, Zenon
<1>11. /\ h \in Seq(Byte) /\ Len(h) = Len(m) + 1 /\ h[1] = Start
       /\ \A i \in 1 .. Len(m) : h[i + 1] = m[i]
  BY <1>7, <1>10 DEF Glued
<1>12. PICK u : u = h \o z /\ Glued(Byte, h, z, u)
  BY <1>9, <1>11, ConcatGlues, Zenon
<1>13. /\ u \in Seq(Byte) /\ Len(u) = Len(m) + 2 /\ u[1] = Start /\ u[Len(u)] = End
       /\ \A i \in 1 .. Len(m) : u[i + 1] = m[i]
  BY <1>9, <1>11, <1>12 DEF Glued
<1>14. Marked(u, m)
  BY <1>13, Zenon DEF Marked
<1>15. Encode(f) = u
  BY <1>3, <1>6, <1>8, <1>10, <1>12, Zenon
<1>16. Unescape(m).out = bytes /\ ~ Unescape(m).open
  BY <1>2
<1> QED
  BY <1>1, <1>14, <1>15, <1>16, Zenon

LEMMA EncodeTyped ==
    ASSUME NEW f, OnTheWire(f)
    PROVE  Encode(f) \in Seq(Byte)
BY EncodeForm, Zenon DEF Marked

(* A whole frame at the front of the buffer is decoded, and leaves what is *)
(* behind it.                                                              *)
LEMMA DecodeWhole ==
    ASSUME NEW f, OnTheWire(f), NEW behind \in Seq(Byte)
    PROVE  DecodeFrame(Encode(f) \o behind) = Leaving(Verdict("frame", <<f>>), behind)
<1>1. PICK m : /\ Marked(Encode(f), m)
               /\ ~ Unescape(m).open
               /\ Judge(Unescape(m).out) = Verdict("frame", <<f>>)
  BY EncodeForm
<1>2. PICK e : e = Encode(f) /\ Marked(e, m)
  BY <1>1
<1>3. PICK k \in Nat : k = Len(m)
  BY <1>2 DEF Marked
<1>4. /\ e \in Seq(Byte) /\ Len(e) = k + 2 /\ e[1] = Start /\ e[k + 2] = End
      /\ m \in Seq(Byte \ {Start, End}) /\ Len(m) = k
      /\ \A i \in 1 .. k : e[i + 1] = m[i] /\ m[i] # End
  BY <1>2, <1>3 DEF Marked
<1>5. PICK buf : buf = e \o behind /\ Glued(Byte, e, behind, buf)
  BY <1>4, ConcatGlues, Zenon
<1>6. /\ buf \in Seq(Byte) /\ Len(buf) = (k + 2) + Len(behind)
      /\ \A i \in 1 .. k + 2 : buf[i] = e[i]
      /\ SubSeq(buf, (k + 2) + 1, Len(buf)) = behind
      /\ \A i, j \in 1 .. k + 2 : SubSeq(buf, i, j) = SubSeq(e, i, j)
  BY <1>4, <1>5, Zenon DEF Glued
<1>7. PICK n \in Nat : n = Len(buf) /\ n >= k + 2
  BY <1>6
<1>8. Position(buf, 1, Start) = 1
  <2>1. 1 \in 1 .. n /\ buf[1] = Start /\ 1 \in 1 .. k + 2
    BY <1>4, <1>6, <1>7
  <2>2. \/ Position(buf, 1, Start) = 0 /\ \A i \in 1 .. n : buf[i] # Start
        \/ /\ Position(buf, 1, Start) \in 1 .. n
           /\ \A i \in 1 .. n : buf[i] = Start => Position(buf, 1, Start) <= i
    BY <1>7, PositionForm
  <2> QED
    BY <2>1, <2>2
<1>9. Position(buf, 2, End) = k + 2
  <2>1. k + 2 \in 2 .. n /\ buf[k + 2] = End
    BY <1>4, <1>6, <1>7
  <2>2. ASSUME NEW i \in 2 .. k + 1
        PROVE  buf[i] # End
    <3>1. i \in 1 .. k + 2 /\ i - 1 \in 1 .. k /\ (i - 1) + 1 = i
      OBVIOUS
    <3> QED
      BY <1>4, <1>6, <3>1, ZenonT(40)
  <2>3. \/ Position(buf, 2, End) = 0 /\ \A i \in 2 .. n : buf[i] # End
        \/ /\ Position(buf, 2, End) \in 2 .. n
           /\ buf[Position(buf, 2, End)] = End
           /\ \A i \in 2 .. n : buf[i] = End => Position(buf, 2, End) <= i
    BY <1>7, PositionForm
  <2> QED
    BY <2>1, <2>2, <2>3
<1>10. SubSeq(buf, 2, k + 1) = m
  <2>1. CASE k = 0
    <3>1. m = <<>>
      BY <1>4, <2>1
    <3>2. SubSeq(buf, 2, k + 1) = <<>>
      BY <1>6, <2>1, SubSeqEmpty
    <3> QED
      BY <3>1, <3>2
  <2>2. CASE k # 0
    <3>1. 2 \in 1 .. k + 2 /\ k + 1 \in 1 .. k + 2
      BY <2>2
    <3>2. SubSeq(buf, 2, k + 1) = SubSeq(e, 2, k + 1)
      BY <1>6, <3>1, Zenon
    <3>3. SubSeq(e, 2, k + 1) \in Seq(Byte) /\ Len(SubSeq(e, 2, k + 1)) = k
      BY <1>4
    <3>4. \A i \in 1 .. k : SubSeq(e, 2, k + 1)[i] = m[i]
      BY <1>4
    <3>5. SubSeq(e, 2, k + 1) = m
      BY <1>4, <3>3, <3>4, SeqEqual
    <3> QED
      BY <3>2, <3>5
  <2> QED
    BY <2>1, <2>2
<1>11. 1 + 1 = 2 /\ (k + 2) - 1 = k + 1 /\ 1 # 0 /\ k + 2 # 0
  OBVIOUS
<1>12. DecodeFrame(buf) = Leaving(Judge(Unescape(m).out), SubSeq(buf, (k + 2) + 1, Len(buf)))
  BY <1>1, <1>8, <1>9, <1>10, <1>11, Zenon DEF DecodeFrame
<1> QED
  BY <1>1, <1>2, <1>5, <1>6, <1>12, Zenon

LEMMA DecodeNothing ==
    ASSUME NEW buf, Position(buf, 1, Start) = 0 \/ Position(buf, 2, End) = 0,
           Position(buf, 1, Start) \in {0, 1}
    PROVE  DecodeFrame(buf) = Leaving(Verdict("none", <<>>), buf)
<1>1. 1 + 1 = 2
  OBVIOUS
<1> QED
  BY <1>1, Zenon DEF DecodeFrame

(* Before its END marker is there, no frame is decoded. *)
LEMMA DecodePart ==
    ASSUME NEW f, OnTheWire(f), NEW buf \in Seq(Byte), Len(buf) < Len(Encode(f)),
           \A i \in 1 .. Len(buf) : buf[i] = Encode(f)[i]
    PROVE  DecodeFrame(buf).verdict = "none"
<1>1. PICK m : Marked(Encode(f), m)
  BY EncodeForm
<1>2. PICK e : e = Encode(f) /\ Marked(e, m)
  BY <1>1
<1>3. PICK n \in Nat : n = Len(buf)
  OBVIOUS
<1>4. /\ n <= Len(m) + 1 /\ e[1] = Start /\ Len(m) \in Nat
      /\ \A i \in 1 .. Len(m) : e[i + 1] = m[i] /\ m[i] # End
      /\ \A i \in 1 .. n : buf[i] = e[i]
  BY <1>2, <1>3 DEF Marked
<1>5. Position(buf, 1, Start) \in {0, 1}
  <2>1. \/ Position(buf, 1, Start) = 0
        \/ /\ Position(buf, 1, Start) \in 1 .. n
           /\ \A i \in 1 .. n : buf[i] = Start => Position(buf, 1, Start) <= i
    BY <1>3, PositionForm
  <2>2. 1 <= n => 1 \in 1 .. n /\ buf[1] = Start
    BY <1>4
  <2> QED
    BY <2>1, <2>2
<1>6. Position(buf, 2, End) = 0
  <2>1. ASSUME NEW i \in 2 .. n
        PROVE  buf[i] # End
    <3>1. i \in 1 .. n /\ i - 1 \in 1 .. Len(m) /\ (i - 1) + 1 = i
      BY <1>4
    <3> QED
      BY <1>4, <3>1, ZenonT(40)
  <2>2. \/ Position(buf, 2, End) = 0
        \/ Position(buf, 2, End) \in 2 .. n /\ buf[Position(buf, 2, End)] = End
    BY <1>3, PositionForm
  <2> QED
    BY <2>1, <2>2, Zenon
<1>7. DecodeFrame(buf) = Leaving(Verdict("none", <<>>), buf)
  BY <1>5, <1>6, DecodeNothing, Zenon
<1> QED
  BY <1>7 DEF Leaving, Verdict

(* What is decoded is a frame, and what is left is bytes. *)
Verdicts == {"none", "frame", "invalid", "checksum"}

LEMMA JudgeTyped ==
    ASSUME NEW bytes \in Seq(Byte)
    PROVE  \E v \in Verdicts : \E fs :
              /\ Judge(bytes) = Verdict(v, fs)
              /\ fs = <<>> \/ \E g \in FrameSet : fs = <<g>>
<1> DEFINE body == SubSeq(bytes, 1, Len(bytes) - 1)
           payload == SubSeq(body, HeaderLen + 1, Len(body))
           g == Frame(body[1], body[2], payload)
<1>1. CASE Len(bytes) < HeaderLen + 1
  BY <1>1, Zenon DEF Judge, Verdicts
<1>2. CASE ~ Len(bytes) < HeaderLen + 1 /\ Checksum(body) # bytes[Len(bytes)]
  BY <1>2, Zenon DEF Judge, Verdicts
<1>3. CASE /\ ~ Len(bytes) < HeaderLen + 1 /\ Checksum(body) = bytes[Len(bytes)]
           /\ Len(payload) # FromBigEndian(SubSeq(body, 3, 6))
  BY <1>3, Zenon DEF Judge, Verdicts
<1>4. CASE /\ ~ Len(bytes) < HeaderLen + 1 /\ Checksum(body) = bytes[Len(bytes)]
           /\ Len(payload) = FromBigEndian(SubSeq(body, 3, 6))
  <2>1. PICK n \in Nat : n = Len(bytes) /\ n >= 7
    BY <1>4 DEF HeaderLen
  <2>2. PICK b : b = body
    OBVIOUS
  <2>3. b \in Seq(Byte) /\ Len(b) = n - 1
    BY <2>1, <2>2
  <2>4. b[1] \in Byte /\ b[2] \in Byte
    BY <2>1, <2>3
  <2>5. SubSeq(b, HeaderLen + 1, Len(b)) \in Seq(Byte)
    BY <2>1, <2>3 DEF HeaderLen
  <2>6. PICK t \in Byte, s \in Byte, p \in Seq(Byte) : t = b[1] /\ s = b[2] /\ p = payload
    BY <2>2, <2>4, <2>5, Zenon
  <2>7. Frame(t, s, p) \in FrameSet
    BY DEF Frame, FrameSet
  <2>8. g \in FrameSet
    BY <2>2, <2>6, <2>7, Zenon
  <2>9. Judge(bytes) = Verdict("frame", <<g>>)
    BY <1>4, Zenon DEF Judge
  <2>10. "frame" \in Verdicts
    BY DEF Verdicts
  <2> QED
    BY <2>8, <2>9, <2>10, Zenon
<1> QED
  BY <1>1, <1>2, <1>3, <1>4, Zenon

LEMMA DecodeTyped ==
    ASSUME NEW buf \in Seq(Byte)
    PROVE  \E v \in Verdicts : \E fs : \E rest \in Seq(Byte) :
              /\ DecodeFrame(buf) = Leaving(Verdict(v, fs), rest)
              /\ fs = <<>> \/ \E g \in FrameSet : fs = <<g>>
<1> DEFINE start == Position(buf, 1, Start)
           end == Position(buf, start + 1, End)
           bare == Unescape(SubSeq(buf, start + 1, end - 1))
<1>1. CASE start = 0 \/ end = 0
  BY <1>1, Zenon DEF DecodeFrame, Verdicts
<1>2. CASE ~ (start = 0 \/ end = 0) /\ bare.open
  BY <1>2, Zenon DEF DecodeFrame, Verdicts
<1>3. CASE ~ (start = 0 \/ end = 0) /\ ~ bare.open
  <2>1. PICK s \in Nat : s = start /\ s >= 1
    <3>1. \/ start = 0 \/ start \in 1 .. Len(buf)
      BY PositionForm, 1 \in Nat, Zenon
    <3> QED
      BY <1>3, <3>1
  <2>2. PICK t \in Nat : t = end /\ t \in s + 1 .. Len(buf)
    <3>1. \/ end = 0 \/ end \in s + 1 .. Len(buf)
      BY <2>1, PositionForm, s + 1 \in Nat, Zenon
    <3> QED
      BY <1>3, <3>1
  <2>3. SubSeq(buf, s + 1, t - 1) \in Seq(Byte) /\ SubSeq(buf, t + 1, Len(buf)) \in Seq(Byte)
    BY <2>1, <2>2
  <2>4. bare \in Halfway
    BY <2>1, <2>2, <2>3, UnescapeTyped, Zenon
  <2>5. bare.out \in Seq(Byte)
    BY <2>4 DEF Halfway
  <2>6. DecodeFrame(buf) = Leaving(Judge(bare.out), SubSeq(buf, t + 1, Len(buf)))
    BY <1>3, <2>2, Zenon DEF DecodeFrame
  <2> QED
    BY <2>3, <2>5, <2>6, JudgeTyped, Zenon
<1> QED
  BY <1>1, <1>2, <1>3, Zenon

----------------------------------------------------------------------------
(* The inductive invariant *)

Undecoded(k) == [i \in 1 .. Len(sent) - k |-> Encode(sent[k + i])]

(* Of undamaged frames some have come out, and the bytes of the others, in *)
(* the buffer and under way, are all there and in order.                   *)
InOrder ==
    damaged = {} =>
        /\ verdict \in {"none", "frame"}
        /\ \E k \in 0 .. Len(sent) :
              got = SubSeq(sent, 1, k) /\ buffer \o line = FlattenSeq(Undecoded(k))

IInv == TypeOK /\ InOrder

LEMMA UndecodedTyped ==
    ASSUME sent \in Seq(Frames), NEW k \in 0 .. Len(sent)
    PROVE  /\ Undecoded(k) \in Seq(Seq(Byte)) /\ Len(Undecoded(k)) = Len(sent) - k
           /\ FlattenSeq(Undecoded(k)) \in Seq(Byte)
<1>1. PICK n \in Nat : n = Len(sent) - k
  OBVIOUS
<1>2. ASSUME NEW i \in 1 .. n
      PROVE  Encode(sent[k + i]) \in Seq(Byte)
  <2>1. k + i \in 1 .. Len(sent)
    BY <1>1
  <2>2. sent[k + i] \in Frames
    BY <2>1
  <2> QED
    BY <2>2, FramesAssumption, EncodeTyped, Zenon
<1>3. PICK u : u = Undecoded(k)
  OBVIOUS
<1>4. u = [i \in 1 .. n |-> Encode(sent[k + i])]
  BY <1>1, <1>3, Zenon DEF Undecoded
<1>5. u \in [1 .. n -> Seq(Byte)]
  BY <1>2, <1>4, Zenon
<1>6. u \in Seq(Seq(Byte)) /\ Len(u) = n
  BY <1>5, SeqDef
<1>7. FlattenSeq(u) \in Seq(Byte)
  BY <1>6, FlattenTyped, Zenon
<1> QED
  BY <1>1, <1>3, <1>6, <1>7, Zenon

(* What is not decoded yet starts with the next frame, if there is one. *)
LEMMA NextFrame ==
    ASSUME sent \in Seq(Frames), NEW k \in 0 .. Len(sent), k # Len(sent)
    PROVE  /\ k + 1 \in 0 .. Len(sent) /\ OnTheWire(sent[k + 1])
           /\ FlattenSeq(Undecoded(k)) =
                 Encode(sent[k + 1]) \o FlattenSeq(Undecoded(k + 1))
<1>1. k + 1 \in 0 .. Len(sent) /\ k + 1 \in 1 .. Len(sent)
  OBVIOUS
<1>2. OnTheWire(sent[k + 1])
  BY <1>1, FramesAssumption
<1>3. PICK n \in Nat : n = Len(sent) - (k + 1) /\ Len(sent) - k = n + 1
  <2>1. PICK m \in Nat : m = Len(sent)
    OBVIOUS
  <2>2. m - (k + 1) \in Nat /\ m - k = (m - (k + 1)) + 1
    BY <2>1
  <2> QED
    BY <2>1, <2>2, Zenon
<1>4. PICK ss \in Seq(Seq(Byte)) : ss = Undecoded(k) /\ Len(ss) = n + 1
  BY <1>3, UndecodedTyped
<1>5. PICK tt \in Seq(Seq(Byte)) : tt = Undecoded(k + 1) /\ Len(tt) = n
  BY <1>1, <1>3, UndecodedTyped
<1>6. ss = [i \in 1 .. n + 1 |-> Encode(sent[k + i])]
  BY <1>3, <1>4, Zenon DEF Undecoded
<1>7. tt = [i \in 1 .. n |-> Encode(sent[(k + 1) + i])]
  BY <1>3, <1>5, Zenon DEF Undecoded
<1>8. ss[1] = Encode(sent[k + 1])
  <2>1. 1 \in 1 .. n + 1
    OBVIOUS
  <2> QED
    BY <1>6, <2>1, Zenon
<1>9. ASSUME NEW i \in 1 .. n
      PROVE  ss[i + 1] = tt[i]
  <2>1. i + 1 \in 1 .. n + 1 /\ k + (i + 1) = (k + 1) + i
    OBVIOUS
  <2> QED
    BY <1>6, <1>7, <2>1, Zenon
<1>10. Len(ss) = Len(tt) + 1 /\ \A i \in 1 .. Len(tt) : ss[i + 1] = tt[i]
  BY <1>4, <1>5, <1>9, Zenon
<1>11. FlattenSeq(ss) = ss[1] \o FlattenSeq(tt)
  BY <1>10, FlattenFirst, Zenon
<1> QED
  BY <1>1, <1>2, <1>4, <1>5, <1>8, <1>11, Zenon

LEMMA NoneLeft ==
    ASSUME sent \in Seq(Frames)
    PROVE  FlattenSeq(Undecoded(Len(sent))) = <<>>
<1>1. Len(sent) \in 0 .. Len(sent) /\ Len(sent) - Len(sent) = 0
  OBVIOUS
<1>2. PICK ss \in Seq(Seq(Byte)) : ss = Undecoded(Len(sent)) /\ Len(ss) = 0
  BY <1>1, UndecodedTyped
<1> QED
  BY <1>2, FlattenTyped, Zenon

Groups(s, t, u) == (s \o t) \o u = s \o (t \o u)

LEMMA GroupsAny ==
    ASSUME NEW S, NEW s \in Seq(S), NEW t \in Seq(S), NEW u \in Seq(S)
    PROVE  Groups(s, t, u)
BY ConcatAssociative DEF Groups

(* A common front may be dropped. *)
Drops(s, t, u, v) == (s \o t) \o u = s \o v => t \o u = v

LEMMA DropFront ==
    ASSUME NEW S, NEW s \in Seq(S), NEW t \in Seq(S), NEW u \in Seq(S), NEW v \in Seq(S)
    PROVE  Drops(s, t, u, v)
<1>1. (s \o t) \o u = s \o (t \o u) /\ t \o u \in Seq(S)
  BY ConcatAssociative
<1> QED
  BY <1>1, ConcatSimplifications DEF Drops

(* The front of the buffer is the next frame, whole or in part. *)
LEMMA DecodeFront ==
    ASSUME sent \in Seq(Frames), buffer \in Seq(Byte), line \in Seq(Byte),
           NEW k \in 0 .. Len(sent), buffer \o line = FlattenSeq(Undecoded(k))
    PROVE  \/ /\ DecodeFrame(buffer).verdict = "none"
              /\ line = <<>> => k = Len(sent)
           \/ /\ k # Len(sent)
              /\ \E rest \in Seq(Byte) :
                    /\ DecodeFrame(buffer) = Leaving(Verdict("frame", <<sent[k + 1]>>), rest)
                    /\ rest \o line = FlattenSeq(Undecoded(k + 1))
<1>1. CASE k = Len(sent)
  <2>1. buffer \o line = <<>>
    BY <1>1, NoneLeft, Zenon
  <2>2. buffer = <<>>
    BY <2>1, ConcatEqualIffEmpty
  <2>3. PICK buf \in Seq(Byte) : buf = buffer /\ Len(buf) = 0
    BY <2>2
  <2>4. Position(buf, 1, Start) = 0
    <3>1. Position(buf, 1, Start) = 0 \/ Position(buf, 1, Start) \in 1 .. 0
      BY <2>3, PositionForm
    <3> QED
      BY <3>1
  <2>5. DecodeFrame(buf) = Leaving(Verdict("none", <<>>), buf)
    BY <2>4, DecodeNothing
  <2> QED
    BY <1>1, <2>3, <2>5 DEF Leaving, Verdict
<1>2. CASE k # Len(sent)
  <2>1. PICK f : f = sent[k + 1] /\ OnTheWire(f)
    BY <1>2, NextFrame
  <2>2. PICK e \in Seq(Byte) : e = Encode(f)
    BY <2>1, EncodeTyped
  <2>3. PICK more \in Seq(Byte) : more = FlattenSeq(Undecoded(k + 1))
    BY <1>2, NextFrame, UndecodedTyped
  <2>4. buffer \o line = e \o more
    BY <1>2, <2>1, <2>2, <2>3, NextFrame, Zenon
  <2>5. PICK all : all = e \o more /\ Glued(Byte, e, more, all)
    BY ConcatGlues, Zenon
  <2>6. Glued(Byte, buffer, line, all)
    BY <2>4, <2>5, ConcatGlues, Zenon
  <2>7. CASE Len(buffer) < Len(e)
    <3>1. \A i \in 1 .. Len(buffer) : buffer[i] = e[i]
      BY <2>5, <2>6, <2>7 DEF Glued
    <3>2. DecodeFrame(buffer).verdict = "none"
      BY <2>1, <2>2, <2>7, <3>1, DecodePart, Zenon
    <3>3. line # <<>>
      <4>1. Len(buffer) + Len(line) = Len(e) + Len(more)
        BY <2>5, <2>6 DEF Glued
      <4>2. Len(line) # 0
        BY <2>7, <4>1
      <4> QED
        BY <4>2
    <3> QED
      BY <3>2, <3>3
  <2>8. CASE ~ Len(buffer) < Len(e)
    <3> DEFINE rest == SubSeq(buffer, Len(e) + 1, Len(buffer))
    <3>1. PICK r \in Seq(Byte) : r = rest /\ buffer = e \o r
      <4>1. rest \in Seq(Byte) /\ Len(rest) = Len(buffer) - Len(e)
        BY <2>8
      <4>2. PICK r \in Seq(Byte) : r = rest /\ Len(r) = Len(buffer) - Len(e)
        BY <4>1
      <4>3. \A i \in 1 .. Len(r) : r[i] = buffer[Len(e) + i]
        BY <2>8, <4>2
      <4>4. \A i \in 1 .. Len(e) : buffer[i] = e[i]
        BY <2>5, <2>6, <2>8 DEF Glued
      <4>5. PICK b : b = e \o r /\ Glued(Byte, e, r, b)
        BY ConcatGlues
      <4>6. b \in Seq(Byte) /\ Len(b) = Len(buffer)
        BY <4>2, <4>5 DEF Glued
      <4>7. ASSUME NEW i \in 1 .. Len(buffer)
            PROVE  b[i] = buffer[i]
        <5>1. CASE i <= Len(e)
          BY <4>4, <4>5, <5>1 DEF Glued
        <5>2. CASE ~ i <= Len(e)
          <6>1. i - Len(e) \in 1 .. Len(r) /\ Len(e) + (i - Len(e)) = i
            BY <4>2, <5>2
          <6> QED
            BY <4>3, <4>5, <6>1 DEF Glued
        <5> QED
          BY <5>1, <5>2
      <4>8. b = buffer
        BY <4>6, <4>7, SeqEqual
      <4> QED
        BY <4>2, <4>5, <4>8
    <3>2. DecodeFrame(buffer) = Leaving(Verdict("frame", <<f>>), r)
      BY <2>1, <2>2, <3>1, DecodeWhole, Zenon
    <3>3. (e \o r) \o line = e \o more
      BY <2>4, <3>1, Zenon
    <3>4. r \o line = more
      <4>1. Drops(e, r, line, more)
        BY DropFront, Zenon
      <4> QED
        BY <3>3, <4>1, Zenon DEF Drops
    <3> QED
      BY <1>2, <2>1, <2>3, <3>2, <3>4, Zenon
  <2> QED
    BY <2>7, <2>8
<1> QED
  BY <1>1, <1>2

----------------------------------------------------------------------------
(* The invariant holds from the start and in every step *)

LEMMA DamagedTyped ==
    ASSUME NEW bytes \in Seq(Byte), NEW b \in Damaged(bytes)
    PROVE  b \in Seq(Byte)
<1>1. PICK n \in Nat : n = Len(bytes)
  OBVIOUS
<1>2. DOMAIN bytes = 1 .. n
  BY <1>1
<1>3. CASE \E i \in 1 .. n : b = RemoveAt(bytes, i)
  <2>1. PICK i \in 1 .. n : b = SubSeq(bytes, 1, i - 1) \o SubSeq(bytes, i + 1, Len(bytes))
    BY <1>3, Zenon DEF RemoveAt
  <2>2. /\ SubSeq(bytes, 1, i - 1) \in Seq(Byte)
        /\ SubSeq(bytes, i + 1, Len(bytes)) \in Seq(Byte)
    BY <1>1
  <2> QED
    BY <2>1, <2>2, ConcatProperties
<1>4. CASE \E i \in 1 .. n : \E c \in NoiseBytes : b = ReplaceAt(bytes, i, c)
  <2>1. PICK i \in 1 .. n, c \in NoiseBytes : b = [bytes EXCEPT ![i] = c]
    BY <1>4, Zenon DEF ReplaceAt
  <2>2. c \in Byte
    BY NoiseAssumption
  <2>3. i \in 1 .. Len(bytes)
    BY <1>1
  <2> QED
    BY <2>1, <2>2, <2>3, ExceptSeq
<1>5. CASE \E i \in 1 .. n : b = SubSeq(bytes, 1, i)
  BY <1>1, <1>5
<1>6. CASE \E i \in 1 .. n : b = SubSeq(bytes, i, Len(bytes))
  BY <1>1, <1>6
<1> QED
  <2>1. \/ \E i \in DOMAIN bytes : b = RemoveAt(bytes, i)
        \/ \E i \in DOMAIN bytes : \E c \in NoiseBytes : b = ReplaceAt(bytes, i, c)
        \/ \E i \in DOMAIN bytes : b = SubSeq(bytes, 1, i)
        \/ \E i \in DOMAIN bytes : b = SubSeq(bytes, i, Len(bytes))
    BY DEF Damaged
  <2> QED
    BY <1>2, <1>3, <1>4, <1>5, <1>6, <2>1, Zenon

LEMMA InitHolds ==
    ASSUME Init
    PROVE  IInv
<1> DEFINE bytes == [i \in DOMAIN sent |-> Encode(sent[i])]
<1>1. sent \in Seq(Frames) /\ Len(sent) <= MaxSent
  <2>1. PICK m \in 0 .. MaxSent : sent \in [1 .. m -> Frames]
    BY Zenon DEF Init, BoundedSeq, SeqOf
  <2>2. m \in Nat /\ m <= MaxSent
    BY MaxSentAssumption
  <2> QED
    BY <2>1, <2>2, SeqDef
<1>2. PICK n \in Nat : n = Len(sent)
  BY <1>1
<1>3. DOMAIN sent = 1 .. n
  BY <1>1, <1>2
<1>4. bytes = Undecoded(0)
  <2>1. n - 0 = n /\ \A i \in 1 .. n : 0 + i = i
    OBVIOUS
  <2>2. Undecoded(0) = [i \in 1 .. n |-> Encode(sent[0 + i])]
    BY <1>2, <2>1, Zenon DEF Undecoded
  <2>3. ASSUME NEW i \in 1 .. n
        PROVE  bytes[i] = Undecoded(0)[i]
    BY <1>3, <2>1, <2>2, Zenon
  <2> QED
    BY <1>3, <2>2, <2>3, Zenon
<1> HIDE DEF bytes
<1>5. 0 \in 0 .. Len(sent)
  BY <1>2
<1>6. bytes \in Seq(Seq(Byte)) /\ FlattenSeq(bytes) \in Seq(Byte) /\ Len(bytes) = n
  <2>1. Len(sent) - 0 = n
    BY <1>2
  <2> QED
    BY <1>1, <1>4, <1>5, <2>1, UndecodedTyped, Zenon
<1>7. buffer = <<>> /\ verdict = "none" /\ got = <<>>
  BY DEF Init
<1>8. \/ damaged = {} /\ line = FlattenSeq(bytes)
      \/ \E i \in 1 .. n : \E b \in Damaged(bytes[i]) :
            damaged = {i} /\ line = FlattenSeq([bytes EXCEPT ![i] = b])
  BY <1>3, Zenon DEF Init, bytes
<1>9. damaged \subseteq DOMAIN sent /\ line \in Seq(Byte)
  <2>1. CASE damaged = {} /\ line = FlattenSeq(bytes)
    BY <1>6, <2>1
  <2>2. CASE \E i \in 1 .. n : \E b \in Damaged(bytes[i]) :
                damaged = {i} /\ line = FlattenSeq([bytes EXCEPT ![i] = b])
    <3>1. PICK i \in 1 .. n : \E b \in Damaged(bytes[i]) :
                damaged = {i} /\ line = FlattenSeq([bytes EXCEPT ![i] = b])
      BY <2>2
    <3>2. PICK b \in Damaged(bytes[i]) :
                damaged = {i} /\ line = FlattenSeq([bytes EXCEPT ![i] = b])
      BY <3>1
    <3>3. i \in 1 .. Len(bytes) /\ bytes[i] \in Seq(Byte)
      BY <1>6
    <3>4. b \in Seq(Byte)
      BY <3>3, DamagedTyped, Zenon
    <3>5. [bytes EXCEPT ![i] = b] \in Seq(Seq(Byte))
      BY <1>6, <3>3, <3>4, ExceptSeq
    <3>6. line \in Seq(Byte)
      BY <3>2, <3>5, FlattenTyped, Zenon
    <3> QED
      BY <1>3, <3>2, <3>6
  <2> QED
    BY <1>8, <2>1, <2>2
<1>10. TypeOK
  <2>1. <<>> \in Seq(Byte) /\ <<>> \in Seq(FrameSet)
    BY EmptySeq
  <2> QED
    BY <1>1, <1>7, <1>9, <2>1, Zenon DEF TypeOK
<1>11. InOrder
  <2>1. CASE damaged = {}
    <3>1. line = FlattenSeq(Undecoded(0))
      <4>1. \A i : damaged # {i}
        BY <2>1
      <4> QED
        BY <1>4, <1>8, <4>1, Zenon
    <3>2. buffer \o line = line
      BY <1>7, <1>9, ConcatEmptySeq
    <3>3. got = SubSeq(sent, 1, 0)
      BY <1>1, <1>7
    <3>4. verdict \in {"none", "frame"}
      BY <1>7
    <3> QED
      BY <1>5, <3>1, <3>2, <3>3, <3>4, Zenon DEF InOrder
  <2> QED
    BY <2>1, Zenon DEF InOrder
<1> QED
  BY <1>10, <1>11 DEF IInv

(* A read only moves bytes from the line to the buffer. *)
LEMMA ReadKeepsBytes ==
    ASSUME IInv, Read
    PROVE  buffer' \in Seq(Byte) /\ buffer' \o line' = buffer \o line
<1>1. PICK n \in DOMAIN line : /\ buffer' = buffer \o SubSeq(line, 1, n)
                               /\ line' = SubSeq(line, n + 1, Len(line))
  BY Zenon DEF Read
<1>2. line \in Seq(Byte) /\ buffer \in Seq(Byte)
  BY DEF IInv, TypeOK
<1>3. n \in 1 .. Len(line)
  BY <1>2
<1>4. PICK s \in Seq(Byte), t \in Seq(Byte) :
         s = SubSeq(line, 1, n) /\ t = SubSeq(line, n + 1, Len(line))
  <2>1. SubSeq(line, 1, n) \in Seq(Byte)
    BY <1>2, <1>3
  <2>2. SubSeq(line, n + 1, Len(line)) \in Seq(Byte)
    BY <1>2, <1>3
  <2> QED
    BY <2>1, <2>2, Zenon
<1>5. s \o t = line
  <2>1. PICK l \in Seq(Byte) : l = line
    BY <1>2
  <2>2. /\ 1 \in 1 .. Len(l) + 1 /\ n \in 1 - 1 .. Len(l) /\ Len(l) \in n .. Len(l)
        /\ SubSeq(l, 1, Len(l)) = l
    BY <1>3, <2>1
  <2>3. SubSeq(l, 1, n) \o SubSeq(l, n + 1, Len(l)) = SubSeq(l, 1, Len(l))
    BY <2>2, ConcatAdjacentSubSeq
  <2> QED
    BY <1>4, <2>1, <2>2, <2>3, Zenon
<1>6. buffer' = buffer \o s /\ line' = t
  BY <1>1, <1>4, Zenon
<1>7. buffer' \o line' = buffer \o line
  <2>1. PICK b \in Seq(Byte) : b = buffer
    BY <1>2
  <2>2. Groups(b, s, t)
    BY GroupsAny, Zenon
  <2> QED
    BY <1>5, <1>6, <2>1, <2>2, Zenon DEF Groups
<1> QED
  BY <1>2, <1>6, <1>7, ConcatProperties

LEMMA ReadHolds ==
    ASSUME IInv, Read
    PROVE  IInv'
<1>1. UNCHANGED <<sent, damaged, verdict, got>>
  BY DEF Read
<1>2. buffer' \in Seq(Byte) /\ buffer' \o line' = buffer \o line
  BY ReadKeepsBytes
<1>3. line' \in Seq(Byte)
  <2>1. PICK n \in DOMAIN line : line' = SubSeq(line, n + 1, Len(line))
    BY Zenon DEF Read
  <2>2. line \in Seq(Byte)
    BY DEF IInv, TypeOK
  <2> QED
    BY <2>1, <2>2
<1>4. TypeOK'
  <2>1. TypeOK
    BY DEF IInv
  <2> QED
    BY <1>1, <1>2, <1>3, <2>1, Zenon DEF TypeOK
<1>5. InOrder'
  <2>1. InOrder
    BY DEF IInv
  <2>2. \A k : Undecoded(k)' = Undecoded(k)
    BY <1>1, Zenon DEF Undecoded
  <2> QED
    BY <1>1, <1>2, <2>1, <2>2, Zenon DEF InOrder
<1> QED
  BY <1>4, <1>5, Zenon DEF IInv

LEMMA DecodeHolds ==
    ASSUME IInv, Decode
    PROVE  IInv'
<1> DEFINE d == DecodeFrame(buffer)
<1>1. /\ d.verdict # "none"
      /\ buffer' = d.rest /\ verdict' = d.verdict /\ got' = got \o d.frame
      /\ sent' = sent /\ damaged' = damaged /\ line' = line
  BY Zenon DEF Decode
<1>2. /\ sent \in Seq(Frames) /\ line \in Seq(Byte) /\ buffer \in Seq(Byte)
      /\ got \in Seq(FrameSet)
  BY DEF IInv, TypeOK
<1>3. PICK v \in Verdicts : \E fs : \E rest \in Seq(Byte) :
              /\ d = Leaving(Verdict(v, fs), rest)
              /\ fs = <<>> \/ \E g \in FrameSet : fs = <<g>>
  BY <1>2, DecodeTyped, Zenon
<1>4. PICK fs : \E rest \in Seq(Byte) :
              /\ d = Leaving(Verdict(v, fs), rest)
              /\ fs = <<>> \/ \E g \in FrameSet : fs = <<g>>
  BY <1>3, Zenon
<1>5. PICK rest \in Seq(Byte) :
              /\ d = Leaving(Verdict(v, fs), rest)
              /\ fs = <<>> \/ \E g \in FrameSet : fs = <<g>>
  BY <1>4, Zenon
<1>6. d.verdict = v /\ d.frame = fs /\ d.rest = rest
  BY <1>5 DEF Leaving, Verdict
<1>7. fs \in Seq(FrameSet)
  <2>1. <<>> \in Seq(FrameSet)
    BY EmptySeq
  <2>2. \A g \in FrameSet : <<g>> \in Seq(FrameSet)
    OBVIOUS
  <2> QED
    BY <1>5, <2>1, <2>2, Zenon
<1>8. TypeOK'
  <2>1. got' \in Seq(FrameSet)
    BY <1>1, <1>2, <1>6, <1>7, ConcatProperties
  <2>2. verdict' \in {"none", "frame", "invalid", "checksum"}
    BY <1>1, <1>6 DEF Verdicts
  <2> QED
    BY <1>1, <1>6, <2>1, <2>2, Zenon DEF IInv, TypeOK
<1>9. InOrder'
  <2>1. SUFFICES ASSUME damaged = {}
                 PROVE  /\ verdict' \in {"none", "frame"}
                        /\ \E k \in 0 .. Len(sent)' :
                              /\ got' = SubSeq(sent, 1, k)'
                              /\ (buffer \o line)' = FlattenSeq(Undecoded(k))'
    BY <1>1, Zenon DEF InOrder
  <2>2. PICK k \in 0 .. Len(sent) :
           got = SubSeq(sent, 1, k) /\ buffer \o line = FlattenSeq(Undecoded(k))
    BY <2>1, Zenon DEF IInv, InOrder
  <2>3. /\ k # Len(sent)
        /\ \E r \in Seq(Byte) :
              /\ d = Leaving(Verdict("frame", <<sent[k + 1]>>), r)
              /\ r \o line = FlattenSeq(Undecoded(k + 1))
    BY <1>1, <1>2, <2>2, DecodeFront, Zenon
  <2>4. PICK r \in Seq(Byte) :
              /\ d = Leaving(Verdict("frame", <<sent[k + 1]>>), r)
              /\ r \o line = FlattenSeq(Undecoded(k + 1))
    BY <2>3
  <2>5. d.verdict = "frame" /\ d.frame = <<sent[k + 1]>> /\ d.rest = r
    BY <2>4 DEF Leaving, Verdict
  <2>6. got' = SubSeq(sent, 1, k + 1)
    <3>1. got' = SubSeq(sent, 1, k) \o <<sent[k + 1]>>
      BY <1>1, <2>2, <2>5, Zenon
    <3>2. SubSeq(sent, 1, k) \o <<sent[k + 1]>> = SubSeq(sent, 1, k + 1)
      BY <1>2, <2>3
    <3> QED
      BY <3>1, <3>2, Zenon
  <2>7. k + 1 \in 0 .. Len(sent)
    BY <1>2, <2>3
  <2>8. \A i : Undecoded(i)' = Undecoded(i)
    BY <1>1, Zenon DEF Undecoded
  <2>9. verdict' \in {"none", "frame"}
    BY <1>1, <2>5
  <2> QED
    BY <1>1, <2>4, <2>5, <2>6, <2>7, <2>8, <2>9, Zenon
<1> QED
  BY <1>8, <1>9, Zenon DEF IInv

(* IInv is inductive. *)
THEOREM Invariance == Spec => []IInv
<1>1. Init => IInv
  BY InitHolds
<1>2. IInv /\ [Next]_vars => IInv'
  <2>1. CASE UNCHANGED vars
    <3>1. \A k : Undecoded(k)' = Undecoded(k)
      BY <2>1, Zenon DEF Undecoded, vars
    <3> QED
      BY <2>1, <3>1, Zenon DEF IInv, TypeOK, InOrder, vars
  <2> QED
    BY <2>1, ReadHolds, DecodeHolds DEF Next
<1> QED
  BY <1>1, <1>2, PTL DEF Spec

(* Bytes stay bytes: no checksum, length or escape leaves a u8, and what   *)
(* decode_frame gives is one of its verdicts, with at most one frame.      *)
THEOREM TypeCorrect == Spec => []TypeOK
<1>1. IInv => TypeOK
  BY DEF IInv
<1> QED
  BY <1>1, Invariance, PTL

(* Whatever frames are encoded, with reserved bytes wherever they occur,   *)
(* and however their bytes are split over the reads of read_frame_until,   *)
(* decode_frame gives them back one by one, in order and without an error, *)
(* and none is missing when it waits for more.                             *)
THEOREM IntactFramesComeOut == Spec => []IntactComesOut
<1>1. IInv => IntactComesOut
  <2>1. SUFFICES ASSUME IInv, damaged = {}
                 PROVE  /\ IsPrefix(got, sent)
                        /\ verdict \in {"none", "frame"}
                        /\ Quiet => got = sent
    BY Zenon DEF IntactComesOut
  <2>2. PICK k \in 0 .. Len(sent) :
           got = SubSeq(sent, 1, k) /\ buffer \o line = FlattenSeq(Undecoded(k))
    BY <2>1, Zenon DEF IInv, InOrder
  <2>3. sent \in Seq(Frames) /\ line \in Seq(Byte) /\ buffer \in Seq(Byte)
    BY <2>1 DEF IInv, TypeOK
  <2>4. IsPrefix(got, sent)
    <3>1. Len(got) = k
      BY <2>2, <2>3
    <3>2. SubSeq(got, 1, k) = got
      BY <2>2, <2>3, <3>1
    <3>3. k <= Len(sent)
      BY <2>3
    <3> QED
      BY <2>2, <3>1, <3>2, <3>3, Zenon DEF IsPrefix
  <2>5. Quiet => got = sent
    <3>1. Quiet => k = Len(sent)
      <4>1. Quiet => line = <<>> /\ DecodeFrame(buffer).verdict = "none"
        BY Zenon DEF Quiet
      <4>2. \A f, r : Leaving(Verdict("frame", f), r).verdict # "none"
        BY DEF Leaving, Verdict
      <4> QED
        BY <2>2, <2>3, <4>1, <4>2, DecodeFront, Zenon
    <3>2. SubSeq(sent, 1, Len(sent)) = sent
      BY <2>3
    <3> QED
      BY <2>2, <3>1, <3>2, Zenon
  <2> QED
    BY <2>1, <2>4, <2>5, Zenon DEF IInv, InOrder
<1> QED
  BY <1>1, Invariance, PTL

----------------------------------------------------------------------------
(* Escaped bytes, one by one and behind others *)

LEMMA OneElement ==
    ASSUME NEW S, NEW e \in S
    PROVE  <<e>> \in Seq(S) /\ Len(<<e>>) = 1 /\ <<e>>[1] = e
OBVIOUS

LEMMA FlattenLast ==
    ASSUME NEW S, NEW ss \in Seq(Seq(S)), NEW tt \in Seq(Seq(S))
    PROVE  Len(ss) = Len(tt) + 1 /\ (\A i \in 1 .. Len(tt) : ss[i] = tt[i])
              => FlattenSeq(ss) = FlattenSeq(tt) \o ss[Len(ss)]
<1>1. SUFFICES ASSUME Len(ss) = Len(tt) + 1, \A i \in 1 .. Len(tt) : ss[i] = tt[i]
               PROVE  FlattenSeq(ss) = FlattenSeq(tt) \o ss[Len(ss)]
  OBVIOUS
<1>2. PICK n \in Nat : n = Len(tt)
  OBVIOUS
<1>3. Len(ss) = n + 1 /\ \A i \in 1 .. n : ss[i] = tt[i]
  BY <1>1, <1>2
<1>4. PICK f : Flattens(S, ss, f)
  BY FlattenForm
<1>5. PICK g : Flattens(S, tt, g)
  BY FlattenForm
<1>6. /\ f[0] = <<>> /\ \A i \in 1 .. n + 1 : f[i] = f[i - 1] \o ss[i]
      /\ FlattenSeq(ss) = f[n + 1]
  BY <1>3, <1>4, Zenon DEF Flattens
<1>7. /\ g[0] = <<>> /\ \A i \in 1 .. n : g[i] = g[i - 1] \o tt[i]
      /\ FlattenSeq(tt) = g[n]
  BY <1>2, <1>5, Zenon DEF Flattens
<1> DEFINE T == {i \in Nat : i <= n => f[i] = g[i]}
<1>8. 0 \in T
  BY <1>6, <1>7, Zenon
<1>9. ASSUME NEW i \in Nat, i \in T
      PROVE  i + 1 \in T
  <2>1. i + 1 \in Nat
    OBVIOUS
  <2>2. CASE i + 1 <= n
    <3>1. i <= n /\ i + 1 \in 1 .. n /\ i + 1 \in 1 .. n + 1 /\ (i + 1) - 1 = i
      BY <2>2
    <3>2. f[i] = g[i]
      BY <1>9, <3>1, Zenon
    <3>3. f[i + 1] = g[i + 1]
      BY <1>3, <1>6, <1>7, <3>1, <3>2, Zenon
    <3> QED
      BY <2>1, <3>3, Zenon
  <2> QED
    BY <2>1, <2>2, Zenon
<1> HIDE DEF T
<1>10. n \in T
  BY <1>8, <1>9, SetInduction
<1>11. n <= n /\ n + 1 \in 1 .. n + 1 /\ (n + 1) - 1 = n
  OBVIOUS
<1>12. f[n] = g[n]
  BY <1>10, <1>11, Zenon DEF T
<1> QED
  BY <1>3, <1>6, <1>7, <1>11, <1>12, Zenon

(* No marker is left in what is escaped. *)
LEMMA EscapedTyped ==
    ASSUME NEW b \in Byte
    PROVE  Escaped(b) \in Seq(Byte \ {Start, End}) /\ Escaped(b) \in Seq(Byte)
<1>1. <<>> \in Seq(Byte) /\ ~ Unescape(<<>>).open
  BY EmptySeq, UnescapeNothing
<1>2. Escaped(b) \in Seq(Byte \ {Start, End})
  BY <1>1, EscapeReadsBack, Zenon
<1>3. Escaped(b) \in Seq(Byte)
  BY <1>2, SeqMonotonic
<1> QED
  BY <1>2, <1>3

LEMMA EscapedAppend ==
    ASSUME NEW bytes \in Seq(Byte), NEW b \in Byte
    PROVE  EscapedBody(Append(bytes, b)) = EscapedBody(bytes) \o Escaped(b)
<1>1. PICK n \in Nat : n = Len(bytes)
  OBVIOUS
<1>2. PICK more \in Seq(Byte) : /\ more = Append(bytes, b) /\ Len(more) = n + 1
                                /\ more[n + 1] = b
                                /\ \A i \in 1 .. n : more[i] = bytes[i]
  <2>1. PICK more : more = Append(bytes, b)
    OBVIOUS
  <2>2. /\ more \in Seq(Byte) /\ Len(more) = n + 1 /\ more[n + 1] = b
        /\ \A i \in 1 .. n : more[i] = bytes[i]
    BY <1>1, <2>1
  <2> QED
    BY <2>1, <2>2, Zenon
<1>3. \A c \in Byte : Escaped(c) \in Seq(Byte)
  BY EscapedTyped
<1>4. DOMAIN bytes = 1 .. n /\ DOMAIN more = 1 .. n + 1
  BY <1>1, <1>2
<1>5. PICK tt : tt = [i \in 1 .. n |-> Escaped(bytes[i])]
  OBVIOUS
<1>6. PICK ss : ss = [i \in 1 .. n + 1 |-> Escaped(more[i])]
  OBVIOUS
<1>7. EscapedBody(bytes) = FlattenSeq(tt) /\ EscapedBody(more) = FlattenSeq(ss)
  BY <1>4, <1>5, <1>6, Zenon DEF EscapedBody
<1>8. tt \in Seq(Seq(Byte)) /\ Len(tt) = n
  <2>1. \A i \in 1 .. n : bytes[i] \in Byte
    BY <1>1
  <2>2. tt \in [1 .. n -> Seq(Byte)]
    BY <1>3, <1>5, <2>1, Zenon
  <2> QED
    BY <2>2, SeqDef
<1>9. ss \in Seq(Seq(Byte)) /\ Len(ss) = n + 1
  <2>1. \A i \in 1 .. n + 1 : more[i] \in Byte
    BY <1>2
  <2>2. ss \in [1 .. n + 1 -> Seq(Byte)]
    BY <1>3, <1>6, <2>1, Zenon
  <2>3. n + 1 \in Nat
    OBVIOUS
  <2> QED
    BY <2>2, <2>3, SeqDef
<1>10. \A i \in 1 .. n : ss[i] = tt[i]
  <2>1. \A i \in 1 .. n : i \in 1 .. n + 1
    OBVIOUS
  <2> QED
    BY <1>2, <1>5, <1>6, <2>1, Zenon
<1>11. ss[n + 1] = Escaped(b)
  <2>1. n + 1 \in 1 .. n + 1
    OBVIOUS
  <2> QED
    BY <1>2, <1>6, <2>1, Zenon
<1>12. FlattenSeq(ss) = FlattenSeq(tt) \o ss[n + 1]
  BY <1>8, <1>9, <1>10, FlattenLast, Zenon
<1> QED
  BY <1>2, <1>7, <1>11, <1>12, Zenon

(* Escaped bytes behind any others that do not end in an escape. *)
ReadsOnTo(x, bytes) ==
    Unescape(x \o EscapedBody(bytes)) = [out |-> Unescape(x).out \o bytes, open |-> FALSE]

LEMMA BodyReadsOn ==
    ASSUME NEW x \in Seq(Byte), ~ Unescape(x).open, NEW bytes \in Seq(Byte)
    PROVE  ReadsOnTo(x, bytes)
<1>1. PICK n \in Nat : n = Len(bytes)
  OBVIOUS
<1>2. PICK u \in Seq(Byte) : Unescape(x) = [out |-> u, open |-> FALSE]
  BY UnescapeTyped DEF Halfway
<1> DEFINE first(i) == SubSeq(bytes, 1, i)
           T == {i \in Nat : i <= n => ReadsOnTo(x, first(i))}
<1>3. 0 \in T
  <2>1. first(0) = <<>> /\ <<>> \in Seq(Byte)
    BY EmptySeq
  <2>2. EscapedBody(<<>>) = <<>>
    <3>1. [i \in DOMAIN <<>> |-> Escaped(<<>>[i])] \in Seq(Seq(Byte))
      BY EmptySeq
    <3>2. Len([i \in DOMAIN <<>> |-> Escaped(<<>>[i])]) = 0
      OBVIOUS
    <3> QED
      BY <3>1, <3>2, FlattenTyped, Zenon DEF EscapedBody
  <2>3. x \o <<>> = x /\ u \o <<>> = u
    BY ConcatEmptySeq
  <2>4. Unescape(x).out = u
    BY <1>2
  <2>5. ReadsOnTo(x, <<>>)
    BY <1>2, <2>2, <2>3, <2>4, Zenon DEF ReadsOnTo
  <2> QED
    BY <2>1, <2>5, Zenon
<1>4. ASSUME NEW i \in Nat, i \in T
      PROVE  i + 1 \in T
  <2>1. i + 1 \in Nat
    OBVIOUS
  <2>2. CASE i + 1 <= n
    <3>1. i <= n /\ i + 1 \in 1 .. n
      BY <2>2
    <3>2. PICK p \in Seq(Byte), b \in Byte : p = first(i) /\ b = bytes[i + 1]
      <4>1. first(i) \in Seq(Byte) /\ bytes[i + 1] \in Byte
        BY <1>1, <3>1
      <4> QED
        BY <4>1, Zenon
    <3>3. first(i + 1) = Append(p, b)
      BY <1>1, <3>1, <3>2
    <3>4. PICK e \in Seq(Byte), c \in Seq(Byte) : e = EscapedBody(p) /\ c = Escaped(b)
      <4>1. EscapedBody(p) \in Seq(Byte \ {Start, End})
        BY BodyReadsBack, Zenon
      <4>2. EscapedBody(p) \in Seq(Byte)
        BY <4>1, SeqMonotonic
      <4> QED
        BY <4>2, EscapedTyped, Zenon
    <3>5. EscapedBody(Append(p, b)) = e \o c
      BY <3>4, EscapedAppend, Zenon
    <3>6. x \o e \in Seq(Byte)
      OBVIOUS
    <3>7. Unescape(x \o e) = [out |-> u \o p, open |-> FALSE]
      <4>1. ReadsOnTo(x, p)
        BY <1>4, <3>1, <3>2, Zenon
      <4> QED
        BY <1>2, <3>4, <4>1 DEF ReadsOnTo
    <3>8. ~ Unescape(x \o e).open /\ Unescape(x \o e).out = u \o p
      BY <3>7
    <3>9. Unescape((x \o e) \o c) = [out |-> Append(u \o p, b), open |-> FALSE]
      BY <3>4, <3>6, <3>8, EscapeReadsBack, Zenon
    <3>10. Groups(x, e, c)
      BY GroupsAny, Zenon
    <3>11. Append(u \o p, b) = u \o Append(p, b)
      <4>1. PICK z \in Seq(Byte) : z = <<b>>
        BY OneElement, Zenon
      <4>2. Groups(u, p, z)
        BY GroupsAny, Zenon
      <4>3. u \o p \in Seq(Byte)
        OBVIOUS
      <4>4. Append(u \o p, b) = (u \o p) \o <<b>> /\ Append(p, b) = p \o <<b>>
        BY <4>3, AppendIsConcat
      <4> QED
        BY <4>1, <4>2, <4>4, Zenon DEF Groups
    <3>12. Unescape(x \o (e \o c)) = [out |-> u \o Append(p, b), open |-> FALSE]
      BY <3>9, <3>10, <3>11, Zenon DEF Groups
    <3>13. Unescape(x).out = u
      BY <1>2
    <3>14. ReadsOnTo(x, Append(p, b))
      BY <3>5, <3>12, <3>13, Zenon DEF ReadsOnTo
    <3> QED
      BY <2>1, <3>3, <3>14, Zenon
  <2> QED
    BY <2>1, <2>2, Zenon
<1> HIDE DEF T
<1>5. n \in T
  BY <1>3, <1>4, SetInduction
<1>6. n <= n /\ first(n) = bytes
  BY <1>1
<1> QED
  BY <1>5, <1>6, Zenon DEF T

----------------------------------------------------------------------------
(* What is judged to be a frame, and the checksum it has *)

(* Any four bytes are the length they read as. *)
LEMMA LengthWritesBack ==
    ASSUME NEW a \in Byte, NEW b \in Byte, NEW c \in Byte, NEW d \in Byte, NEW n,
           n = ((a * 256 + b) * 256 + c) * 256 + d
    PROVE  BigEndian(n) = <<a, b, c, d>> /\ ((n \div 256) \div 256) \div 256 \in Byte
<1>1. ASSUME NEW q \in Nat, NEW r \in Byte
      PROVE  (q * 256 + r) \div 256 = q /\ (q * 256 + r) % 256 = r
  BY DEF Byte
<1>2. PICK x \in Nat : x = a * 256 + b
  BY DEF Byte
<1>3. PICK y \in Nat : y = x * 256 + c
  BY DEF Byte
<1>4. n = y * 256 + d
  BY <1>2, <1>3
<1>5. n \div 256 = y /\ n % 256 = d
  BY <1>1, <1>4
<1>6. y \div 256 = x /\ y % 256 = c
  BY <1>1, <1>3
<1>7. x \div 256 = a /\ x % 256 = b
  <2>1. a \in Nat
    BY DEF Byte
  <2> QED
    BY <1>1, <1>2, <2>1
<1>8. a % 256 = a
  BY DEF Byte
<1>9. /\ (n \div 256) \div 256 = x /\ ((n \div 256) \div 256) \div 256 = a
      /\ (n \div 256) % 256 = c /\ ((n \div 256) \div 256) % 256 = b
      /\ (((n \div 256) \div 256) \div 256) % 256 = a /\ n % 256 = d
  BY <1>5, <1>6, <1>7, <1>8
<1> QED
  BY <1>9 DEF BigEndian

LEMMA FourElements ==
    ASSUME NEW S, NEW l \in Seq(S), Len(l) = 4
    PROVE  \E a, b, c, d \in S : l = <<a, b, c, d>>
<1>1. PICK a \in S, b \in S, c \in S, d \in S : a = l[1] /\ b = l[2] /\ c = l[3] /\ d = l[4]
  <2>1. 1 \in 1 .. Len(l) /\ 2 \in 1 .. Len(l) /\ 3 \in 1 .. Len(l) /\ 4 \in 1 .. Len(l)
    OBVIOUS
  <2>2. l[1] \in S /\ l[2] \in S /\ l[3] \in S /\ l[4] \in S
    BY <2>1, ElementOfSeq, Zenon
  <2> QED
    BY <2>2, Zenon
<1>2. PICK k : k = <<a, b, c, d>>
  OBVIOUS
<1>3. /\ k \in Seq(S) /\ Len(k) = 4
      /\ k[1] = a /\ k[2] = b /\ k[3] = c /\ k[4] = d
  BY <1>2
<1>4. \A i \in 1 .. 4 : l[i] = k[i]
  BY <1>1, <1>3
<1>5. l = k
  BY <1>3, <1>4, SeqEqual
<1> QED
  BY <1>2, <1>5, Zenon

(* What is judged to be a frame is that frame laid out. *)
LEMMA JudgeFaithful ==
    ASSUME NEW bytes \in Seq(Byte), NEW g, Judge(bytes).frame = <<g>>
    PROVE  OnTheWire(g) /\ bytes = Append(Body(g), Checksum(Body(g)))
<1> DEFINE body == SubSeq(bytes, 1, Len(bytes) - 1)
           payload == SubSeq(body, HeaderLen + 1, Len(body))
<1>1. /\ ~ Len(bytes) < HeaderLen + 1 /\ Checksum(body) = bytes[Len(bytes)]
      /\ Len(payload) = FromBigEndian(SubSeq(body, 3, 6))
      /\ g = Frame(body[1], body[2], payload)
  <2>1. \A v : Verdict(v, <<>>).frame # <<g>>
    BY DEF Verdict
  <2>2. \A h : Verdict("frame", <<h>>).frame = <<g>> => h = g
    BY DEF Verdict
  <2> QED
    BY <2>1, <2>2, Zenon DEF Judge
<1>2. PICK n \in Nat : n = Len(bytes) /\ n >= 7
  BY <1>1 DEF HeaderLen
<1>3. PICK b : b = body
  OBVIOUS
<1>4. /\ b \in Seq(Byte) /\ Len(b) = n - 1
      /\ \A i \in 1 .. n - 1 : b[i] = bytes[i]
  BY <1>2, <1>3
<1>5. PICK p : p = SubSeq(b, 7, Len(b))
  OBVIOUS
<1>6. /\ p \in Seq(Byte) /\ Len(p) = n - 7
      /\ \A i \in 1 .. n - 7 : p[i] = b[6 + i]
  BY <1>2, <1>4, <1>5, SMTT(40)
<1>7. PICK l : l = SubSeq(b, 3, 6)
  OBVIOUS
<1>8. l \in Seq(Byte) /\ Len(l) = 4 /\ \A i \in 1 .. 4 : l[i] = b[2 + i]
  BY <1>2, <1>4, <1>7
<1>9. HeaderLen + 1 = 7
  BY DEF HeaderLen
<1>10. PICK t \in Byte, s \in Byte : t = b[1] /\ s = b[2]
  BY <1>2, <1>4
<1>11. g = Frame(t, s, p) /\ Len(p) = FromBigEndian(l)
  BY <1>1, <1>3, <1>5, <1>7, <1>9, <1>10, Zenon
<1>12. PICK c1 \in Byte, c2 \in Byte, c3 \in Byte, c4 \in Byte : l = <<c1, c2, c3, c4>>
  BY <1>8, FourElements
<1>13. Len(p) = ((c1 * 256 + c2) * 256 + c3) * 256 + c4
  BY <1>11, <1>12 DEF FromBigEndian
<1>14. BigEndian(Len(p)) = l /\ ((Len(p) \div 256) \div 256) \div 256 \in Byte
  BY <1>12, <1>13, LengthWritesBack
<1>15. g.type = FromByte(t) /\ g.seq = s /\ g.payload = p /\ g \in FrameSet
  BY <1>6, <1>11 DEF Frame, FrameSet
<1>16. OnTheWire(g)
  BY <1>14, <1>15, Zenon DEF OnTheWire
<1>17. PICK u : u = <<t, s>> \o l \o p
  OBVIOUS
<1>18. LaidOut(Byte, t, s, l, p, u)
  BY <1>6, <1>8, <1>17, Layout, Zenon
<1>19. Body(g) = u
  BY <1>14, <1>15, <1>17, TypesReadBack, Zenon DEF Body
<1>20. u = b
  <2>1. /\ u \in Seq(Byte) /\ Len(u) = 6 + Len(p) /\ u[1] = t /\ u[2] = s
        /\ SubSeq(u, 3, 6) = l /\ SubSeq(u, 7, Len(u)) = p
    BY <1>18, Zenon DEF LaidOut
  <2>2. Len(u) = n - 1
    BY <1>2, <1>6, <2>1
  <2>3. \A i \in 3 .. 6 : u[i] = b[i]
    <3>1. \A i \in 1 .. 4 : SubSeq(u, 3, 6)[i] = u[2 + i]
      BY <1>2, <2>1, <2>2
    <3>2. \A i \in 3 .. 6 : i - 2 \in 1 .. 4 /\ 2 + (i - 2) = i
      OBVIOUS
    <3> QED
      BY <1>8, <2>1, <3>1, <3>2, ZenonT(40)
  <2>4. \A i \in 7 .. n - 1 : u[i] = b[i]
    <3>1. \A i \in 1 .. n - 7 : SubSeq(u, 7, Len(u))[i] = u[6 + i]
      BY <1>2, <2>1, <2>2
    <3>2. \A i \in 7 .. n - 1 : i - 6 \in 1 .. n - 7 /\ 6 + (i - 6) = i
      BY <1>2
    <3> QED
      BY <1>6, <2>1, <3>1, <3>2, Zenon
  <2>5. \A i \in 1 .. n - 1 : u[i] = b[i]
    <3>1. \A i \in 1 .. n - 1 : i = 1 \/ i = 2 \/ i \in 3 .. 6 \/ i \in 7 .. n - 1
      BY <1>2
    <3> QED
      BY <1>10, <2>1, <2>3, <2>4, <3>1, Zenon
  <2> QED
    BY <1>4, <2>1, <2>2, <2>5, SeqEqual
<1>21. bytes = Append(b, bytes[n])
  <2>1. bytes[n] \in Byte
    BY <1>2
  <2> QED
    BY <1>2, <1>4, <2>1
<1>22. bytes[n] = Checksum(b)
  BY <1>1, <1>2, <1>3, Zenon
<1> QED
  BY <1>16, <1>19, <1>20, <1>21, <1>22, Zenon

(* Nothing but a frame that damage to f excuses is read from the bytes. *)
Safe(f, bytes) == \A g : Judge(bytes).frame = <<g>> => Checksum(Body(g)) \in SumBytes(f)

(* What ends as f ends has a checksum that f is sent with. *)
LEMMA SafeLast ==
    ASSUME NEW f, NEW bytes \in Seq(Byte), bytes[Len(bytes)] \in SumBytes(f)
    PROVE  Safe(f, bytes)
<1>1. ASSUME NEW g, Judge(bytes).frame = <<g>>
      PROVE  Checksum(Body(g)) \in SumBytes(f)
  <2>1. OnTheWire(g) /\ bytes = Append(Body(g), Checksum(Body(g)))
    BY <1>1, JudgeFaithful
  <2>2. PICK b \in Seq(Byte), c \in Byte : b = Body(g) /\ c = Checksum(b)
    BY <2>1, BodyForm, ChecksumTyped, Zenon
  <2>3. Append(b, c)[Len(Append(b, c))] = c
    OBVIOUS
  <2> QED
    BY <2>1, <2>2, <2>3, Zenon
<1> QED
  BY <1>1, Zenon DEF Safe

LEMMA SumIsItsOwn ==
    ASSUME NEW f
    PROVE  Checksum(Body(f)) \in SumBytes(f)
BY Zenon DEF SumBytes

(* A header that is intact tells the length. *)
LEMMA SafeFront ==
    ASSUME NEW f, OnTheWire(f), NEW bytes \in Seq(Byte),
           \A h \in 1 .. Len(bytes) - 1 : h <= Len(Body(f)) => bytes[h] = Body(f)[h]
    PROVE  Safe(f, bytes)
<1>1. ASSUME NEW g, Judge(bytes).frame = <<g>>
      PROVE  Checksum(Body(g)) \in SumBytes(f)
  <2>1. OnTheWire(g) /\ bytes = Append(Body(g), Checksum(Body(g)))
    BY <1>1, JudgeFaithful
  <2>2. PICK G \in Seq(Byte), c \in Byte : G = Body(g) /\ c = Checksum(G)
    BY <2>1, BodyForm, ChecksumTyped, Zenon
  <2>3. PICK F \in Seq(Byte) : F = Body(f)
    BY BodyForm, Zenon
  <2>4. PICK k \in Nat : k = Len(g.payload)
    BY <2>1, FrameForm, LenProperties, Zenon DEF OnTheWire
  <2>5. PICK l \in Nat : l = Len(f.payload)
    BY FrameForm, LenProperties, Zenon DEF OnTheWire
  <2>6. Len(G) = HeaderLen + k /\ FromBigEndian(SubSeq(G, 3, 6)) = k
    BY <2>1, <2>2, <2>4, BodyForm, Zenon
  <2>7. Len(F) = HeaderLen + l /\ FromBigEndian(SubSeq(F, 3, 6)) = l
    BY <2>3, <2>5, BodyForm, Zenon
  <2>8. Len(bytes) = Len(G) + 1 /\ \A h \in 1 .. Len(G) : bytes[h] = G[h]
    BY <2>1, <2>2, AppendProperties
  <2>9. Len(G) = 6 + k /\ Len(F) = 6 + l
    BY <2>6, <2>7 DEF HeaderLen
  <2>10. \A h \in 1 .. Len(G) : h <= Len(F) => G[h] = F[h]
    <3>1. Len(bytes) - 1 = Len(G)
      BY <2>8, <2>9
    <3> QED
      BY <2>3, <2>8, <3>1, Zenon
  <2>11. \A h \in 3 .. 6 : G[h] = F[h]
    BY <2>9, <2>10
  <2>12. SubSeq(G, 3, 6) = SubSeq(F, 3, 6)
    <3>1. PICK x : x = SubSeq(G, 3, 6)
      OBVIOUS
    <3>2. PICK y : y = SubSeq(F, 3, 6)
      OBVIOUS
    <3>3. x \in Seq(Byte) /\ Len(x) = 4 /\ \A i \in 1 .. 4 : x[i] = G[2 + i]
      BY <2>9, <3>1
    <3>4. y \in Seq(Byte) /\ Len(y) = 4 /\ \A i \in 1 .. 4 : y[i] = F[2 + i]
      BY <2>9, <3>2
    <3>5. \A i \in 1 .. 4 : 2 + i \in 3 .. 6
      OBVIOUS
    <3>6. \A i \in 1 .. 4 : x[i] = y[i]
      BY <2>11, <3>3, <3>4, <3>5, Zenon
    <3>7. x = y
      BY <3>3, <3>4, <3>6, SeqEqual
    <3> QED
      BY <3>1, <3>2, <3>7, Zenon
  <2>13. Len(G) = Len(F)
    BY <2>6, <2>7, <2>12, Zenon
  <2>14. \A h \in 1 .. Len(G) : G[h] = F[h]
    BY <2>9, <2>10, <2>13
  <2>15. G = F
    BY <2>13, <2>14, SeqEqual
  <2> QED
    BY <2>2, <2>3, <2>15, SumIsItsOwn, Zenon
<1> QED
  BY <1>1, Zenon DEF Safe

----------------------------------------------------------------------------
(* One byte of an escaped one is lost or misread *)

(* r is s without its element p, or with c in its place. *)
Removed(S, s, p, r) ==
    /\ r \in Seq(S) /\ Len(r) = Len(s) - 1
    /\ \A i \in 1 .. Len(r) : r[i] = IF i < p THEN s[i] ELSE s[i + 1]

Replaced(S, s, p, c, r) ==
    /\ r \in Seq(S) /\ Len(r) = Len(s)
    /\ \A i \in 1 .. Len(r) : r[i] = IF i = p THEN c ELSE s[i]

LEMMA RemoveForm ==
    ASSUME NEW S, NEW s \in Seq(S), NEW p \in 1 .. Len(s)
    PROVE  Removed(S, s, p, RemoveAt(s, p))
<1>1. PICK n \in Nat : n = Len(s)
  OBVIOUS
<1>2. PICK a : a = SubSeq(s, 1, p - 1)
  OBVIOUS
<1>3. PICK z : z = SubSeq(s, p + 1, n)
  OBVIOUS
<1>4. a \in Seq(S) /\ Len(a) = p - 1 /\ \A i \in 1 .. p - 1 : a[i] = s[i]
  BY <1>1, <1>2
<1>5. z \in Seq(S) /\ Len(z) = n - p /\ \A i \in 1 .. n - p : z[i] = s[p + i]
  BY <1>1, <1>3
<1>6. PICK r : r = a \o z /\ Glued(S, a, z, r)
  BY <1>4, <1>5, ConcatGlues, Zenon
<1>7. r \in Seq(S) /\ Len(r) = n - 1
  BY <1>1, <1>4, <1>5, <1>6 DEF Glued
<1>8. ASSUME NEW i \in 1 .. Len(r)
      PROVE  r[i] = IF i < p THEN s[i] ELSE s[i + 1]
  <2>1. CASE i < p
    <3>1. i \in 1 .. p - 1
      BY <2>1
    <3>2. i \in 1 .. Len(a)
      BY <1>4, <3>1
    <3> QED
      BY <1>4, <1>6, <2>1, <3>1, <3>2, Zenon DEF Glued
  <2>2. CASE ~ i < p
    <3>1. /\ i - (p - 1) \in 1 .. n - p /\ p + (i - (p - 1)) = i + 1
          /\ (p - 1) + (i - (p - 1)) = i
      BY <1>1, <1>7, <2>2
    <3>2. i - (p - 1) \in 1 .. Len(z) /\ Len(a) + (i - (p - 1)) = i
      BY <1>4, <1>5, <3>1
    <3>3. r[Len(a) + (i - (p - 1))] = z[i - (p - 1)]
      BY <1>6, <3>2, Zenon DEF Glued
    <3> QED
      BY <1>5, <2>2, <3>1, <3>2, <3>3, Zenon
  <2> QED
    BY <2>1, <2>2
<1>9. RemoveAt(s, p) = r
  BY <1>1, <1>2, <1>3, <1>6, Zenon DEF RemoveAt
<1> QED
  BY <1>1, <1>7, <1>8, <1>9, Zenon DEF Removed

LEMMA ReplaceForm ==
    ASSUME NEW S, NEW s \in Seq(S), NEW p \in 1 .. Len(s), NEW c \in S
    PROVE  Replaced(S, s, p, c, ReplaceAt(s, p, c))
<1>1. PICK r : r = [s EXCEPT ![p] = c]
  OBVIOUS
<1>2. r \in Seq(S) /\ Len(r) = Len(s)
      /\ \A i \in 1 .. Len(s) : r[i] = IF i = p THEN c ELSE s[i]
  BY <1>1, ExceptSeq
<1>3. ReplaceAt(s, p, c) = r
  BY <1>1, Zenon DEF ReplaceAt
<1> QED
  BY <1>2, <1>3, Zenon DEF Replaced

(* One byte of an escaped one is lost or misread. *)
Broken(e) ==
    {RemoveAt(e, q) : q \in 1 .. Len(e)}
        \cup {ReplaceAt(e, q, c) : q \in 1 .. Len(e), c \in Byte}

(* Two elements; the name keeps the pair from being taken apart.            *)
Pair(a, b) == <<a, b>>

LEMMA TwoElements ==
    ASSUME NEW S, NEW s \in Seq(S), Len(s) = 2
    PROVE  s[1] \in S /\ s[2] \in S /\ s = Pair(s[1], s[2])
<1>1. 1 \in 1 .. Len(s) /\ 2 \in 1 .. Len(s)
  OBVIOUS
<1>2. PICK a \in S, b \in S : a = s[1] /\ b = s[2]
  BY <1>1, ElementOfSeq, Zenon
<1>3. PICK k : k = Pair(a, b)
  OBVIOUS
<1>4. k \in Seq(S) /\ Len(k) = 2 /\ k[1] = a /\ k[2] = b
  BY <1>3 DEF Pair
<1>5. \A i \in 1 .. 2 : s[i] = k[i]
  BY <1>2, <1>4
<1>6. s = k
  BY <1>4, <1>5, SeqEqual
<1> QED
  BY <1>2, <1>3, <1>6, Zenon

LEMMA OneElementOnly ==
    ASSUME NEW S, NEW s \in Seq(S), Len(s) = 1
    PROVE  s[1] \in S /\ s = <<s[1]>>
<1>1. 1 \in 1 .. Len(s)
  OBVIOUS
<1>2. PICK a \in S : a = s[1]
  BY <1>1, ElementOfSeq, Zenon
<1>3. PICK k : k = <<a>>
  OBVIOUS
<1>4. k \in Seq(S) /\ Len(k) = 1 /\ k[1] = a
  BY <1>3
<1>5. \A i \in 1 .. 1 : s[i] = k[i]
  BY <1>2, <1>4
<1>6. s = k
  BY <1>4, <1>5, SeqEqual
<1> QED
  BY <1>2, <1>3, <1>6, Zenon

(* An escaped byte is itself or an escape and another byte. *)
LEMMA EscapedForm ==
    ASSUME NEW v \in Byte
    PROVE  \/ Escaped(v) = <<v>> /\ v # Escape
           \/ \E y \in Byte : Escaped(v) = Pair(Escape, y) /\ y # Escape
<1>1. CASE v \in {Start, End, Escape}
  <2>1. v - 16 * Bit4(v) \in Byte /\ v - 16 * Bit4(v) # Escape
    BY <1>1 DEF Bit4, Byte, Start, End, Escape
  <2> QED
    BY <1>1, <2>1, Zenon DEF Escaped, Pair
<1>2. CASE v \notin {Start, End, Escape}
  BY <1>2, Zenon DEF Escaped
<1> QED
  BY <1>1, <1>2

LEMMA EscapeIsByte == Escape \in Byte /\ Start \in Byte /\ End \in Byte
BY DEF Escape, Start, End, Byte

(* A byte lost or misread leaves nothing, a byte, or two. *)
LEMMA BrokenForm ==
    ASSUME NEW v \in Byte, NEW d \in Broken(Escaped(v))
    PROVE  \/ d = <<>>
           \/ \E c \in Byte : d = <<c>>
           \/ \E c, y \in Byte : d = Pair(c, y) /\ y # Escape
           \/ \E c \in Byte : d = Pair(Escape, c)
<1>1. PICK e \in Seq(Byte) : e = Escaped(v)
  BY EscapedTyped, Zenon
<1>2. \/ \E q \in 1 .. Len(e) : d = RemoveAt(e, q)
      \/ \E q \in 1 .. Len(e) : \E c \in Byte : d = ReplaceAt(e, q, c)
  <2>1. d \in Broken(e)
    BY <1>1
  <2> QED
    BY <2>1 DEF Broken
<1>3. \/ \E q \in 1 .. Len(e) : Removed(Byte, e, q, d)
      \/ \E q \in 1 .. Len(e) : \E c \in Byte : Replaced(Byte, e, q, c, d)
  BY <1>2, RemoveForm, ReplaceForm, Zenon
<1>4. CASE e = <<v>>
  <2>1. Len(e) = 1
    BY <1>4
  <2>2. d \in Seq(Byte) /\ (Len(d) = 0 \/ Len(d) = 1)
    BY <1>3, <2>1 DEF Removed, Replaced
  <2>3. Len(d) = 0 => d = <<>>
    BY <2>2
  <2> QED
    BY <2>2, <2>3, OneElementOnly, Zenon
<1>5. CASE \E y \in Byte : e = Pair(Escape, y) /\ y # Escape
  <2>1. PICK y \in Byte : e = Pair(Escape, y) /\ y # Escape
    BY <1>5
  <2>2. Len(e) = 2 /\ e[1] = Escape /\ e[2] = y
    BY <2>1 DEF Pair
  <2>3. CASE \E q \in 1 .. Len(e) : Removed(Byte, e, q, d)
    <3>1. d \in Seq(Byte) /\ Len(d) = 1
      BY <2>2, <2>3 DEF Removed
    <3> QED
      BY <3>1, OneElementOnly, Zenon
  <2>4. CASE \E q \in 1 .. Len(e) : \E c \in Byte : Replaced(Byte, e, q, c, d)
    <3>1. PICK q \in 1 .. 2, c \in Byte : Replaced(Byte, e, q, c, d)
      BY <2>2, <2>4, Zenon
    <3>2. d \in Seq(Byte) /\ Len(d) = 2
      BY <2>2, <3>1 DEF Replaced
    <3>3. d[1] = Escape \/ d[2] # Escape
      <4>1. 1 \in 1 .. Len(d) /\ 2 \in 1 .. Len(d)
        BY <3>2
      <4>2. d[1] = (IF 1 = q THEN c ELSE e[1]) /\ d[2] = (IF 2 = q THEN c ELSE e[2])
        BY <3>1, <4>1, Zenon DEF Replaced
      <4>3. q = 1 \/ q = 2
        OBVIOUS
      <4> QED
        BY <2>1, <2>2, <4>2, <4>3
    <3>4. d = Pair(d[1], d[2]) /\ d[1] \in Byte /\ d[2] \in Byte
      BY <3>2, TwoElements, Zenon
    <3> QED
      BY <3>3, <3>4, Zenon
  <2> QED
    BY <1>3, <2>3, <2>4, Zenon
<1> QED
  BY <1>1, <1>4, <1>5, EscapedForm, Zenon

(* One byte behind others, and two. *)
LEMMA ReadOne ==
    ASSUME NEW a \in Seq(Byte), NEW c \in Byte, NEW d, d = <<c>>, NEW u, u = Unescape(a)
    PROVE  Unescape(a \o d) = OneByteMore(u, c)
<1>1. a \o d = Append(a, c)
  BY AppendIsConcat
<1> QED
  BY <1>1, UnescapeAppend, Zenon

LEMMA ReadTwo ==
    ASSUME NEW a \in Seq(Byte), NEW c \in Byte, NEW y \in Byte, NEW d, d = Pair(c, y),
           NEW u, u = Unescape(a)
    PROVE  Unescape(a \o d) = OneByteMore(OneByteMore(u, c), y)
<1>1. a \o d = Append(Append(a, c), y)
  BY DEF Pair
<1>2. Append(a, c) \in Seq(Byte)
  OBVIOUS
<1> QED
  BY <1>1, <1>2, UnescapeAppend, Zenon

Shut(out) == [out |-> out, open |-> FALSE]
Open(out) == [out |-> out, open |-> TRUE]

LEMMA MoreShut ==
    ASSUME NEW P \in Seq(Byte), NEW c \in Byte
    PROVE  OneByteMore(Shut(P), c) = IF c = Escape THEN Open(P) ELSE Shut(P \o <<c>>)
<1>1. P \o <<c>> = Append(P, c)
  BY AppendIsConcat
<1>2. Shut(P).out = P /\ ~ Shut(P).open
  BY DEF Shut
<1> QED
  BY <1>1, <1>2, Zenon DEF OneByteMore, Shut, Open

LEMMA MoreOpen ==
    ASSUME NEW P \in Seq(Byte), NEW c \in Byte
    PROVE  \E b \in Byte : OneByteMore(Open(P), c) = Shut(P \o <<b>>)
<1>1. PICK b \in Byte : b = c + 16 * (1 - Bit4(c))
  BY DEF Bit4, Byte
<1>2. P \o <<b>> = Append(P, b)
  BY AppendIsConcat
<1>3. Open(P).out = P /\ Open(P).open
  BY DEF Open
<1> QED
  BY <1>1, <1>2, <1>3, Zenon DEF OneByteMore, Shut, Open

LEMMA TwoBehind ==
    ASSUME NEW P \in Seq(Byte), NEW b \in Byte, NEW c \in Byte
    PROVE  Pair(b, c) \in Seq(Byte) /\ (P \o <<b>>) \o <<c>> = P \o Pair(b, c)
<1>1. Pair(b, c) \in Seq(Byte)
  BY DEF Pair
<1>2. P \o Pair(b, c) = Append(Append(P, b), c)
  BY DEF Pair
<1>3. Append(P, b) = P \o <<b>>
  BY AppendIsConcat
<1>4. Append(P, b) \in Seq(Byte)
  OBVIOUS
<1>5. Append(Append(P, b), c) = Append(P, b) \o <<c>>
  BY <1>4, AppendIsConcat
<1> QED
  BY <1>1, <1>2, <1>3, <1>5, Zenon

(* What is broken leaves what is in front of it as it was, and an escape   *)
(* open or not.                                                            *)
LEMMA AfterBroken ==
    ASSUME NEW a \in Seq(Byte), NEW P \in Seq(Byte), Unescape(a) = Shut(P),
           NEW v \in Byte, NEW d \in Broken(Escaped(v))
    PROVE  /\ d \in Seq(Byte)
           /\ \/ Unescape(a \o d) = Open(P)
              \/ \E more \in Seq(Byte) : Unescape(a \o d) = Shut(P \o more)
<1>1. CASE d = <<>>
  <2>1. a \o d = a /\ P \o <<>> = P /\ <<>> \in Seq(Byte)
    BY <1>1, ConcatEmptySeq, EmptySeq
  <2> QED
    BY <1>1, <2>1, Zenon
<1>2. CASE \E c \in Byte : d = <<c>>
  <2>1. PICK c \in Byte : d = <<c>>
    BY <1>2
  <2>2. d \in Seq(Byte)
    BY <2>1, OneElement, Zenon
  <2>3. Unescape(a \o d) = IF c = Escape THEN Open(P) ELSE Shut(P \o <<c>>)
    BY <2>1, ReadOne, MoreShut
  <2> QED
    BY <2>1, <2>2, <2>3, Zenon
<1>3. CASE \E c, y \in Byte : d = Pair(c, y) /\ y # Escape
  <2>1. PICK c \in Byte, y \in Byte : d = Pair(c, y) /\ y # Escape
    BY <1>3
  <2>2. d \in Seq(Byte)
    BY <2>1, TwoBehind, Zenon
  <2>3. Unescape(a \o d) = OneByteMore(OneByteMore(Shut(P), c), y)
    BY <2>1, ReadTwo
  <2>4. CASE c = Escape
    <3>1. Unescape(a \o d) = OneByteMore(Open(P), y)
      BY <2>3, <2>4, MoreShut, Zenon
    <3>2. PICK b \in Byte : OneByteMore(Open(P), y) = Shut(P \o <<b>>)
      BY MoreOpen
    <3>3. PICK w \in Seq(Byte) : w = <<b>>
      BY OneElement, Zenon
    <3>4. Unescape(a \o d) = Shut(P \o w)
      BY <3>1, <3>2, <3>3, Zenon
    <3> QED
      BY <2>2, <3>4, Zenon
  <2>5. CASE c # Escape
    <3>1. P \o <<c>> \in Seq(Byte)
      OBVIOUS
    <3>2. OneByteMore(Shut(P), c) = Shut(P \o <<c>>)
      BY <2>5, MoreShut, Zenon
    <3>3. OneByteMore(Shut(P \o <<c>>), y) = Shut((P \o <<c>>) \o <<y>>)
      BY <2>1, <3>1, MoreShut, Zenon
    <3>4. Pair(c, y) \in Seq(Byte) /\ (P \o <<c>>) \o <<y>> = P \o Pair(c, y)
      BY <2>1, TwoBehind
    <3>5. Unescape(a \o d) = Shut(P \o Pair(c, y))
      BY <2>3, <3>2, <3>3, <3>4, Zenon
    <3> QED
      BY <2>2, <3>4, <3>5, Zenon
  <2> QED
    BY <2>4, <2>5
<1>4. CASE \E c \in Byte : d = Pair(Escape, c)
  <2>1. PICK c \in Byte : d = Pair(Escape, c)
    BY <1>4
  <2>2. d \in Seq(Byte)
    BY <2>1, TwoBehind, EscapeIsByte, Zenon
  <2>3. Unescape(a \o d) = OneByteMore(OneByteMore(Shut(P), Escape), c)
    BY <2>1, ReadTwo, EscapeIsByte
  <2>4. Unescape(a \o d) = OneByteMore(Open(P), c)
    BY <2>3, MoreShut, EscapeIsByte, Zenon
  <2>5. PICK b \in Byte : OneByteMore(Open(P), c) = Shut(P \o <<b>>)
    BY MoreOpen
  <2>6. PICK w \in Seq(Byte) : w = <<b>>
    BY OneElement, Zenon
  <2>7. Unescape(a \o d) = Shut(P \o w)
    BY <2>4, <2>5, <2>6, Zenon
  <2> QED
    BY <2>2, <2>7, Zenon
<1> QED
  BY <1>1, <1>2, <1>3, <1>4, BrokenForm, Zenon

(* Behind an open escape an escaped byte is misread, and no more.          *)
LEMMA AfterOpen ==
    ASSUME NEW a \in Seq(Byte), NEW P \in Seq(Byte), Unescape(a) = Open(P), NEW v \in Byte
    PROVE  \E w \in Seq(Byte) :
              /\ Unescape(a \o Escaped(v)) = Shut(P \o w)
              /\ Len(w) = 1 \/ (Len(w) = 2 /\ w[2] \in ToSet(Escaped(v)))
<1>1. CASE Escaped(v) = <<v>>
  <2>1. Unescape(a \o Escaped(v)) = OneByteMore(Open(P), v)
    BY <1>1, ReadOne
  <2>2. PICK b \in Byte : OneByteMore(Open(P), v) = Shut(P \o <<b>>)
    BY MoreOpen
  <2>3. PICK w \in Seq(Byte) : w = <<b>> /\ Len(w) = 1
    BY OneElement, Zenon
  <2>4. Unescape(a \o Escaped(v)) = Shut(P \o w)
    BY <2>1, <2>2, <2>3, Zenon
  <2> QED
    BY <2>3, <2>4, Zenon
<1>2. CASE \E y \in Byte : Escaped(v) = Pair(Escape, y) /\ y # Escape
  <2>1. PICK y \in Byte : Escaped(v) = Pair(Escape, y) /\ y # Escape
    BY <1>2
  <2>2. Unescape(a \o Escaped(v)) = OneByteMore(OneByteMore(Open(P), Escape), y)
    BY <2>1, ReadTwo, EscapeIsByte
  <2>3. PICK b \in Byte : OneByteMore(Open(P), Escape) = Shut(P \o <<b>>)
    BY MoreOpen, EscapeIsByte, Zenon
  <2>4. P \o <<b>> \in Seq(Byte)
    OBVIOUS
  <2>5. OneByteMore(Shut(P \o <<b>>), y) = Shut((P \o <<b>>) \o <<y>>)
    BY <2>1, <2>4, MoreShut, Zenon
  <2>6. Unescape(a \o Escaped(v)) = Shut(P \o Pair(b, y)) /\ Pair(b, y) \in Seq(Byte)
    BY <2>2, <2>3, <2>5, TwoBehind, Zenon
  <2>7. Len(Pair(b, y)) = 2 /\ Pair(b, y)[2] = y
    BY DEF Pair
  <2>8. y \in ToSet(Escaped(v))
    <3>1. 2 \in DOMAIN Pair(Escape, y) /\ Pair(Escape, y)[2] = y
      BY DEF Pair
    <3> QED
      BY <2>1, <3>1, Zenon DEF ToSet
  <2> QED
    BY <2>6, <2>7, <2>8, Zenon
<1> QED
  BY <1>1, <1>2, EscapedForm, Zenon

----------------------------------------------------------------------------
(* Escaped bytes in pieces, one of them broken *)

LEMMA EscapedNothing == EscapedBody(<<>>) = <<>>
<1>1. [i \in DOMAIN <<>> |-> Escaped(<<>>[i])] \in Seq(Seq(Byte))
  BY EmptySeq
<1>2. Len([i \in DOMAIN <<>> |-> Escaped(<<>>[i])]) = 0
  OBVIOUS
<1> QED
  BY <1>1, <1>2, FlattenTyped, Zenon DEF EscapedBody

LEMMA EscapedBodyTyped ==
    ASSUME NEW bytes \in Seq(Byte)
    PROVE  /\ EscapedBody(bytes) \in Seq(Byte)
           /\ EscapedBody(bytes) \in Seq(Byte \ {Start, End})
<1>1. EscapedBody(bytes) \in Seq(Byte \ {Start, End})
  BY BodyReadsBack, Zenon
<1>2. EscapedBody(bytes) \in Seq(Byte)
  BY <1>1, SeqMonotonic
<1> QED
  BY <1>1, <1>2

(* u is what the first bytes of b are escaped to, v is what the e-th is,   *)
(* and w is what the others are.                                           *)
Pieces(b, e, u, v, w) ==
    /\ u = EscapedBody(SubSeq(b, 1, e - 1)) /\ v = Escaped(b[e])
    /\ w = EscapedBody(SubSeq(b, e + 1, Len(b)))

EscapesTo(s, t) == EscapedBody(s \o t) = EscapedBody(s) \o EscapedBody(t)

(* Bytes are escaped one by one. *)
LEMMA EscapedConcat ==
    ASSUME NEW s \in Seq(Byte), NEW t \in Seq(Byte)
    PROVE  EscapesTo(s, t)
<1>1. PICK n \in Nat : n = Len(t)
  OBVIOUS
<1> DEFINE T == {i \in Nat : i <= n => EscapesTo(s, SubSeq(t, 1, i))}
<1>2. 0 \in T
  <2>1. SubSeq(t, 1, 0) = <<>> /\ s \o <<>> = s
    BY ConcatEmptySeq
  <2>2. EscapedBody(s) \o <<>> = EscapedBody(s)
    BY EscapedBodyTyped, ConcatEmptySeq
  <2>3. EscapesTo(s, <<>>)
    BY <2>1, <2>2, EscapedNothing, Zenon DEF EscapesTo
  <2> QED
    BY <2>1, <2>3, Zenon
<1>3. ASSUME NEW i \in Nat, i \in T
      PROVE  i + 1 \in T
  <2>1. i + 1 \in Nat
    OBVIOUS
  <2>2. CASE i + 1 <= n
    <3>1. PICK p \in Seq(Byte), b \in Byte : p = SubSeq(t, 1, i) /\ b = t[i + 1]
      <4>1. SubSeq(t, 1, i) \in Seq(Byte) /\ t[i + 1] \in Byte
        BY <1>1, <2>2
      <4> QED
        BY <4>1, Zenon
    <3>2. SubSeq(t, 1, i + 1) = Append(p, b)
      BY <1>1, <2>2, <3>1
    <3>3. EscapedBody(s \o p) = EscapedBody(s) \o EscapedBody(p)
      <4>1. i <= n
        BY <2>2
      <4> QED
        BY <1>3, <3>1, <4>1, Zenon DEF EscapesTo
    <3>4. s \o p \in Seq(Byte) /\ s \o Append(p, b) = Append(s \o p, b)
      OBVIOUS
    <3>5. EscapedBody(s \o Append(p, b)) = (EscapedBody(s) \o EscapedBody(p)) \o Escaped(b)
      BY <3>3, <3>4, EscapedAppend, Zenon
    <3>6. Groups(EscapedBody(s), EscapedBody(p), Escaped(b))
      BY EscapedBodyTyped, EscapedTyped, GroupsAny, Zenon
    <3>7. EscapedBody(Append(p, b)) = EscapedBody(p) \o Escaped(b)
      BY EscapedAppend, Zenon
    <3>8. EscapesTo(s, Append(p, b))
      BY <3>5, <3>6, <3>7, Zenon DEF Groups, EscapesTo
    <3> QED
      BY <2>1, <3>2, <3>8, Zenon
  <2> QED
    BY <2>1, <2>2, Zenon
<1> HIDE DEF T
<1>4. n \in T
  BY <1>2, <1>3, SetInduction
<1>5. n <= n /\ SubSeq(t, 1, n) = t
  BY <1>1
<1> QED
  BY <1>4, <1>5, Zenon DEF T

LEMMA InPieces ==
    ASSUME NEW b \in Seq(Byte), NEW e \in 1 .. Len(b), NEW u, NEW v, NEW w, Pieces(b, e, u, v, w)
    PROVE  /\ u \in Seq(Byte) /\ v \in Seq(Byte) /\ w \in Seq(Byte) /\ b[e] \in Byte
           /\ EscapedBody(b) = (u \o v) \o w
           /\ EscapedBody(SubSeq(b, 1, e)) = u \o v
<1>1. PICK n \in Nat : n = Len(b)
  OBVIOUS
<1>2. PICK f \in Seq(Byte), c \in Byte, g \in Seq(Byte) :
         f = SubSeq(b, 1, e - 1) /\ c = b[e] /\ g = SubSeq(b, e + 1, n)
  <2>1. SubSeq(b, 1, e - 1) \in Seq(Byte)
    BY <1>1
  <2>2. b[e] \in Byte
    BY <1>1
  <2>3. SubSeq(b, e + 1, n) \in Seq(Byte)
    BY <1>1
  <2> QED
    BY <2>1, <2>2, <2>3, Zenon
<1>3. SubSeq(b, 1, e) = Append(f, c)
  BY <1>1, <1>2
<1>4. u = EscapedBody(f) /\ v = Escaped(c) /\ w = EscapedBody(g)
  BY <1>1, <1>2, Zenon DEF Pieces
<1>5. EscapedBody(SubSeq(b, 1, e)) = u \o v
  BY <1>3, <1>4, EscapedAppend, Zenon
<1>6. PICK h \in Seq(Byte) : h = SubSeq(b, 1, e)
  <2>1. SubSeq(b, 1, e) \in Seq(Byte)
    OBVIOUS
  <2> QED
    BY <2>1, Zenon
<1>7. h \o g = b
  <2>1. /\ 1 \in 1 .. Len(b) + 1 /\ e \in 1 - 1 .. Len(b) /\ Len(b) \in e .. Len(b)
        /\ SubSeq(b, 1, Len(b)) = b
    OBVIOUS
  <2>2. SubSeq(b, 1, e) \o SubSeq(b, e + 1, Len(b)) = SubSeq(b, 1, Len(b))
    BY <2>1, ConcatAdjacentSubSeq
  <2> QED
    BY <1>1, <1>2, <1>6, <2>1, <2>2, Zenon
<1>8. EscapedBody(b) = EscapedBody(h) \o EscapedBody(g)
  BY <1>7, EscapedConcat, Zenon DEF EscapesTo
<1>9. EscapedBody(b) = (u \o v) \o w
  BY <1>4, <1>5, <1>6, <1>8, Zenon
<1>10. u \in Seq(Byte) /\ v \in Seq(Byte) /\ w \in Seq(Byte)
  BY <1>4, EscapedBodyTyped, EscapedTyped, Zenon
<1> QED
  BY <1>2, <1>5, <1>9, <1>10, Zenon

(* Every byte of an escaped body belongs to a byte of the body.            *)
LEMMA FindPiece ==
    ASSUME NEW b \in Seq(Byte), NEW p \in 1 .. Len(EscapedBody(b))
    PROVE  \E e \in 1 .. Len(b), u, v, w \in Seq(Byte) :
              Pieces(b, e, u, v, w) /\ \E q \in 1 .. Len(v) : p = Len(u) + q
<1>1. PICK n \in Nat : n = Len(b)
  OBVIOUS
<1> DEFINE upTo(i) == EscapedBody(SubSeq(b, 1, i))
           T == {i \in Nat : i <= n /\ p <= Len(upTo(i))}
<1>2. n \in T
  <2>1. SubSeq(b, 1, n) = b /\ n <= n
    BY <1>1
  <2>2. p <= Len(EscapedBody(b))
    BY EscapedBodyTyped
  <2> QED
    BY <2>1, <2>2, Zenon
<1>3. PICK e \in T : \A i \in T : e <= i
  <2>1. T \subseteq Nat /\ T # {}
    BY <1>2
  <2> QED
    BY <2>1, LeastNatural, Zenon
<1>4. e \in Nat /\ e <= n /\ p <= Len(upTo(e))
  BY <1>3
<1>5. e # 0
  <2>1. SubSeq(b, 1, 0) = <<>> /\ Len(<<>>) = 0
    OBVIOUS
  <2>2. Len(upTo(0)) = 0
    BY <2>1, EscapedNothing, Zenon
  <2> HIDE DEF upTo
  <2>3. 1 <= p /\ p \in Nat
    BY EscapedBodyTyped
  <2> QED
    BY <1>4, <2>2, <2>3
<1>6. e - 1 \notin T /\ e - 1 \in Nat /\ e - 1 <= n
  <2>1. e - 1 \in Nat /\ e - 1 <= n /\ ~ e <= e - 1
    BY <1>4, <1>5
  <2> QED
    BY <1>3, <2>1, Zenon
<1>7. ~ p <= Len(upTo(e - 1))
  BY <1>6, Zenon
<1>8. e \in 1 .. Len(b)
  BY <1>1, <1>4, <1>5
<1>9. PICK u, v, w : Pieces(b, e, u, v, w)
  BY Zenon DEF Pieces
<1>10. u \in Seq(Byte) /\ v \in Seq(Byte) /\ w \in Seq(Byte) /\ upTo(e) = u \o v
  BY <1>8, <1>9, InPieces
<1>11. upTo(e - 1) = u
  BY <1>9, Zenon DEF Pieces
<1> HIDE DEF upTo
<1>12. Len(upTo(e)) = Len(u) + Len(v)
  BY <1>10
<1>13. p \in Nat
  BY EscapedBodyTyped
<1>14. PICK q \in 1 .. Len(v) : p = Len(u) + q
  <2>1. ~ p <= Len(u) /\ p <= Len(u) + Len(v)
    BY <1>4, <1>7, <1>11, <1>12, Zenon
  <2>2. p - Len(u) \in 1 .. Len(v) /\ p = Len(u) + (p - Len(u))
    BY <1>10, <1>13, <2>1
  <2> QED
    BY <2>2
<1> QED
  BY <1>8, <1>9, <1>10, <1>14, Zenon

(* t is u, v and w in a row. *)
InARow(S, u, v, w, t) ==
    /\ t \in Seq(S) /\ Len(t) = Len(u) + Len(v) + Len(w)
    /\ \A i \in 1 .. Len(u) : t[i] = u[i]
    /\ \A i \in 1 .. Len(v) : t[Len(u) + i] = v[i]
    /\ \A i \in 1 .. Len(w) : t[Len(u) + Len(v) + i] = w[i]

LEMMA ThreeInARow ==
    ASSUME NEW S, NEW u \in Seq(S), NEW v \in Seq(S), NEW w \in Seq(S)
    PROVE  InARow(S, u, v, w, (u \o v) \o w)
<1>1. PICK h : h = u \o v /\ Glued(S, u, v, h)
  BY ConcatGlues, Zenon
<1>2. h \in Seq(S) /\ Len(h) = Len(u) + Len(v)
  BY <1>1 DEF Glued
<1>3. PICK t : t = h \o w /\ Glued(S, h, w, t)
  BY <1>2, ConcatGlues, Zenon
<1>4. t \in Seq(S) /\ Len(t) = Len(u) + Len(v) + Len(w)
  BY <1>2, <1>3 DEF Glued
<1>5. \A i \in 1 .. Len(u) : t[i] = u[i]
  <2>1. \A i \in 1 .. Len(u) : i \in 1 .. Len(h)
    BY <1>2
  <2> QED
    BY <1>1, <1>3, <2>1, Zenon DEF Glued
<1>6. \A i \in 1 .. Len(v) : t[Len(u) + i] = v[i]
  <2>1. \A i \in 1 .. Len(v) : Len(u) + i \in 1 .. Len(h)
    BY <1>2
  <2> QED
    BY <1>1, <1>3, <2>1, Zenon DEF Glued
<1>7. \A i \in 1 .. Len(w) : t[Len(u) + Len(v) + i] = w[i]
  BY <1>2, <1>3, Zenon DEF Glued
<1> QED
  BY <1>1, <1>3, <1>4, <1>5, <1>6, <1>7, Zenon DEF InARow

(* What is in a row is there place by place, and is nothing else. *)
LEMMA SameRow ==
    ASSUME NEW S, NEW u \in Seq(S), NEW v \in Seq(S), NEW w \in Seq(S), NEW t,
           InARow(S, u, v, w, t)
    PROVE  t = (u \o v) \o w
<1>1. PICK r : r = (u \o v) \o w /\ InARow(S, u, v, w, r)
  BY ThreeInARow, Zenon
<1>2. t \in Seq(S) /\ r \in Seq(S) /\ Len(t) = Len(r)
  BY <1>1, Zenon DEF InARow
<1>3. Len(t) = Len(u) + Len(v) + Len(w)
  BY DEF InARow
<1>4. ASSUME NEW i \in 1 .. Len(t)
      PROVE  t[i] = r[i]
  <2>1. CASE i <= Len(u)
    <3>1. i \in 1 .. Len(u)
      BY <2>1
    <3> QED
      BY <1>1, <3>1, Zenon DEF InARow
  <2>2. CASE ~ i <= Len(u) /\ i <= Len(u) + Len(v)
    <3>1. i - Len(u) \in 1 .. Len(v) /\ Len(u) + (i - Len(u)) = i
      BY <2>2
    <3> QED
      BY <1>1, <3>1, ZenonT(40) DEF InARow
  <2>3. CASE ~ i <= Len(u) + Len(v)
    <3>1. /\ i - (Len(u) + Len(v)) \in 1 .. Len(w)
          /\ Len(u) + Len(v) + (i - (Len(u) + Len(v))) = i
      BY <1>3, <2>3
    <3> QED
      BY <1>1, <3>1, ZenonT(40) DEF InARow
  <2> QED
    BY <2>1, <2>2, <2>3
<1>5. t = r
  BY <1>2, <1>4, SeqEqual
<1> QED
  BY <1>1, <1>5, Zenon

(* Losing or misreading an element of what is in a row leaves the rest.    *)
LEMMA RemoveInARow ==
    ASSUME NEW S, NEW u \in Seq(S), NEW v \in Seq(S), NEW w \in Seq(S),
           NEW q \in 1 .. Len(v), NEW s, InARow(S, u, v, w, s)
    PROVE  InARow(S, u, RemoveAt(v, q), w, RemoveAt(s, Len(u) + q))
<1>1. InARow(S, u, v, w, s)
  OBVIOUS
<1>2. PICK r : r = RemoveAt(v, q) /\ Removed(S, v, q, r)
  BY RemoveForm, Zenon
<1>3. PICK p \in Nat : p = Len(u) + q
  OBVIOUS
<1>4. s \in Seq(S) /\ Len(s) = Len(u) + Len(v) + Len(w) /\ p \in 1 .. Len(s)
  <2>1. s \in Seq(S) /\ Len(s) = Len(u) + Len(v) + Len(w)
    BY <1>1, Zenon DEF InARow
  <2> QED
    BY <1>3, <2>1
<1>5. PICK t : t = RemoveAt(s, p) /\ Removed(S, s, p, t)
  BY <1>4, RemoveForm, Zenon
<1>6. r \in Seq(S) /\ Len(r) = Len(v) - 1
  BY <1>2, Zenon DEF Removed
<1>7. t \in Seq(S) /\ Len(t) = Len(s) - 1
  BY <1>5, Zenon DEF Removed
<1>8. Len(t) = Len(u) + Len(r) + Len(w)
  BY <1>4, <1>6, <1>7
<1>9. ASSUME NEW i \in 1 .. Len(u)
      PROVE  t[i] = u[i]
  <2>1. i \in 1 .. Len(t) /\ i < p
    BY <1>3, <1>6, <1>8
  <2> QED
    BY <1>1, <1>5, <2>1, Zenon DEF Removed, InARow
<1>10. ASSUME NEW i \in 1 .. Len(r)
       PROVE  t[Len(u) + i] = r[i]
  <2>1. /\ Len(u) + i \in 1 .. Len(t) /\ i \in 1 .. Len(v) /\ i + 1 \in 1 .. Len(v)
        /\ (Len(u) + i) + 1 = Len(u) + (i + 1) /\ (Len(u) + i < p <=> i < q)
    BY <1>3, <1>6, <1>8
  <2>2. t[Len(u) + i] = IF i < q THEN s[Len(u) + i] ELSE s[Len(u) + (i + 1)]
    BY <1>5, <2>1, Zenon DEF Removed
  <2>3. s[Len(u) + i] = v[i] /\ s[Len(u) + (i + 1)] = v[i + 1]
    BY <1>1, <2>1, Zenon DEF InARow
  <2> QED
    BY <1>2, <2>2, <2>3, Zenon DEF Removed
<1>11. ASSUME NEW i \in 1 .. Len(w)
       PROVE  t[Len(u) + Len(r) + i] = w[i]
  <2>1. /\ Len(u) + Len(r) + i \in 1 .. Len(t) /\ ~ Len(u) + Len(r) + i < p
        /\ (Len(u) + Len(r) + i) + 1 = Len(u) + Len(v) + i
    BY <1>3, <1>6, <1>8
  <2>2. t[Len(u) + Len(r) + i] = s[(Len(u) + Len(r) + i) + 1]
    BY <1>5, <2>1, Zenon DEF Removed
  <2> QED
    BY <1>1, <2>1, <2>2, Zenon DEF InARow
<1>12. InARow(S, u, r, w, t)
  BY <1>7, <1>8, <1>9, <1>10, <1>11, Zenon DEF InARow
<1> QED
  BY <1>2, <1>3, <1>5, <1>12, Zenon

LEMMA ReplaceInARow ==
    ASSUME NEW S, NEW u \in Seq(S), NEW v \in Seq(S), NEW w \in Seq(S),
           NEW q \in 1 .. Len(v), NEW c \in S, NEW s, InARow(S, u, v, w, s)
    PROVE  InARow(S, u, ReplaceAt(v, q, c), w, ReplaceAt(s, Len(u) + q, c))
<1>1. InARow(S, u, v, w, s)
  OBVIOUS
<1>2. PICK r : r = ReplaceAt(v, q, c) /\ Replaced(S, v, q, c, r)
  BY ReplaceForm, Zenon
<1>3. PICK p \in Nat : p = Len(u) + q
  OBVIOUS
<1>4. s \in Seq(S) /\ Len(s) = Len(u) + Len(v) + Len(w) /\ p \in 1 .. Len(s)
  <2>1. s \in Seq(S) /\ Len(s) = Len(u) + Len(v) + Len(w)
    BY <1>1, Zenon DEF InARow
  <2> QED
    BY <1>3, <2>1
<1>5. PICK t : t = ReplaceAt(s, p, c) /\ Replaced(S, s, p, c, t)
  BY <1>4, ReplaceForm, Zenon
<1>6. r \in Seq(S) /\ Len(r) = Len(v)
  BY <1>2, Zenon DEF Replaced
<1>7. t \in Seq(S) /\ Len(t) = Len(s)
  BY <1>5, Zenon DEF Replaced
<1>8. Len(t) = Len(u) + Len(r) + Len(w)
  BY <1>4, <1>6, <1>7
<1>9. ASSUME NEW i \in 1 .. Len(u)
      PROVE  t[i] = u[i]
  <2>1. i \in 1 .. Len(t) /\ i # p
    BY <1>3, <1>6, <1>8
  <2> QED
    BY <1>1, <1>5, <2>1, Zenon DEF Replaced, InARow
<1>10. ASSUME NEW i \in 1 .. Len(r)
       PROVE  t[Len(u) + i] = r[i]
  <2>1. Len(u) + i \in 1 .. Len(t) /\ i \in 1 .. Len(v)
    BY <1>3, <1>6, <1>8
  <2>2. t[Len(u) + i] = IF i = q THEN c ELSE s[Len(u) + i]
    <3>1. i = q => Len(u) + i = p
      BY <1>3
    <3>2. Len(u) + i = p => i = q
      BY <1>3
    <3> QED
      BY <1>5, <2>1, <3>1, <3>2, Zenon DEF Replaced
  <2>3. s[Len(u) + i] = v[i]
    BY <1>1, <2>1, Zenon DEF InARow
  <2> QED
    BY <1>2, <2>2, <2>3, Zenon DEF Replaced
<1>11. ASSUME NEW i \in 1 .. Len(w)
       PROVE  t[Len(u) + Len(r) + i] = w[i]
  <2>1. Len(u) + Len(r) + i \in 1 .. Len(t) /\ ~ Len(u) + Len(r) + i <= p
    BY <1>3, <1>6, <1>8
  <2>2. t[Len(u) + Len(r) + i] = s[Len(u) + Len(r) + i]
    <3>1. Len(u) + Len(r) + i # p
      BY <1>3, <2>1
    <3> QED
      BY <1>5, <2>1, <3>1, Zenon DEF Replaced
  <2> QED
    BY <1>1, <1>6, <2>2, Zenon DEF InARow
<1>12. InARow(S, u, r, w, t)
  BY <1>7, <1>8, <1>9, <1>10, <1>11, Zenon DEF InARow
<1> QED
  BY <1>2, <1>3, <1>5, <1>12, Zenon

----------------------------------------------------------------------------
(* What damage to a frame reads as *)

(* More bytes only add to what has been read. *)
AddsTo(x, y) == \E more \in Seq(Byte) : Unescape(x \o y).out = Unescape(x).out \o more

LEMMA BitSetAgain ==
    ASSUME NEW b \in Byte
    PROVE  b + 16 * (1 - Bit4(b)) \in Byte
BY DEF Bit4, Byte

AppendsTo(s, t, e) == Append(t, e) \in Seq(Byte) /\ Append(s \o t, e) = s \o Append(t, e)

LEMMA AppendFurther ==
    ASSUME NEW s \in Seq(Byte), NEW t \in Seq(Byte), NEW e \in Byte
    PROVE  AppendsTo(s, t, e)
BY DEF AppendsTo

(* What has been read stays. *)
LEMMA OutGrows ==
    ASSUME NEW x \in Seq(Byte), NEW y \in Seq(Byte)
    PROVE  AddsTo(x, y)
<1>1. PICK n \in Nat : n = Len(y)
  OBVIOUS
<1>2. PICK o \in Seq(Byte) : o = Unescape(x).out
  BY UnescapeTyped DEF Halfway
<1> DEFINE T == {i \in Nat : i <= n => AddsTo(x, SubSeq(y, 1, i))}
<1>3. 0 \in T
  <2>1. SubSeq(y, 1, 0) = <<>> /\ x \o <<>> = x /\ o \o <<>> = o /\ <<>> \in Seq(Byte)
    BY ConcatEmptySeq, EmptySeq
  <2>2. AddsTo(x, <<>>)
    BY <1>2, <2>1, Zenon DEF AddsTo
  <2> QED
    BY <2>1, <2>2, Zenon
<1>4. ASSUME NEW i \in Nat, i \in T
      PROVE  i + 1 \in T
  <2>1. i + 1 \in Nat
    OBVIOUS
  <2>2. CASE i + 1 <= n
    <3>1. PICK p \in Seq(Byte), b \in Byte : p = SubSeq(y, 1, i) /\ b = y[i + 1]
      <4>1. SubSeq(y, 1, i) \in Seq(Byte) /\ y[i + 1] \in Byte
        BY <1>1, <2>2
      <4> QED
        BY <4>1, Zenon
    <3>2. SubSeq(y, 1, i + 1) = Append(p, b)
      BY <1>1, <2>2, <3>1
    <3>3. x \o p \in Seq(Byte) /\ x \o Append(p, b) = Append(x \o p, b)
      OBVIOUS
    <3>4. PICK more \in Seq(Byte) : Unescape(x \o p).out = o \o more
      <4>1. i <= n
        BY <2>2
      <4> QED
        BY <1>2, <1>4, <3>1, <4>1, Zenon DEF AddsTo
    <3>5. Unescape(x \o Append(p, b)) = OneByteMore(Unescape(x \o p), b)
      BY <3>3, UnescapeAppend, Zenon
    <3>6. PICK c \in Byte : c = b + 16 * (1 - Bit4(b))
      BY BitSetAgain, Zenon
    <3>7. \/ Unescape(x \o Append(p, b)).out = Append(o \o more, c)
          \/ Unescape(x \o Append(p, b)).out = Append(o \o more, b)
          \/ Unescape(x \o Append(p, b)).out = o \o more
      BY <3>4, <3>5, <3>6, SMTT(40) DEF OneByteMore
    <3>8. AppendsTo(o, more, b) /\ AppendsTo(o, more, c)
      BY AppendFurther, Zenon
    <3>9. AddsTo(x, Append(p, b))
      BY <1>2, <3>4, <3>7, <3>8, Zenon DEF AddsTo, AppendsTo
    <3> QED
      BY <2>1, <3>2, <3>9, Zenon
  <2> QED
    BY <2>1, <2>2, Zenon
<1> HIDE DEF T
<1>5. n \in T
  BY <1>3, <1>4, SetInduction
<1>6. n <= n /\ SubSeq(y, 1, n) = y
  BY <1>1
<1> QED
  BY <1>5, <1>6, Zenon DEF T

(* What damage to f may be read as. *)
Harmless(f, x) == Unescape(x).open \/ Safe(f, Unescape(x).out)

(* The bytes that Encode escapes. *)
Whole(f, b) == b \in Seq(Byte) /\ b = Append(Body(f), Checksum(Body(f)))

LEMMA WholeForm ==
    ASSUME NEW f, OnTheWire(f), NEW b, Whole(f, b)
    PROVE  /\ Body(f) \in Seq(Byte) /\ Len(b) = Len(Body(f)) + 1
           /\ \A h \in 1 .. Len(Body(f)) : b[h] = Body(f)[h]
           /\ b[Len(b)] = Checksum(Body(f)) /\ b[Len(b)] \in SumBytes(f)
<1>1. PICK F \in Seq(Byte), c \in Byte : F = Body(f) /\ c = Checksum(F)
  BY BodyForm, ChecksumTyped, Zenon
<1>2. b = Append(F, c)
  BY <1>1, Zenon DEF Whole
<1>3. Len(b) = Len(F) + 1 /\ b[Len(b)] = c /\ \A h \in 1 .. Len(F) : b[h] = F[h]
  BY <1>2
<1> QED
  BY <1>1, <1>3, SumIsItsOwn, Zenon

(* The front of an encoded frame is harmless, wherever it is cut off. *)
LEMMA PrefixHarmless ==
    ASSUME NEW f, OnTheWire(f), NEW b, Whole(f, b),
           NEW x \in Seq(Byte), NEW y \in Seq(Byte), x \o y = EscapedBody(b)
    PROVE  Harmless(f, x)
<1>1. PICK o \in Seq(Byte) : o = Unescape(x).out
  BY UnescapeTyped DEF Halfway
<1>2. Unescape(x \o y).out = b
  <2>1. Unescape(EscapedBody(b)) = [out |-> b, open |-> FALSE]
    BY BodyReadsBack, Zenon DEF Whole
  <2> QED
    BY <2>1
<1>3. PICK more \in Seq(Byte) : b = o \o more
  BY <1>1, <1>2, OutGrows, Zenon DEF AddsTo
<1>4. Glued(Byte, o, more, b)
  BY <1>3, ConcatGlues, Zenon
<1>5. PICK F \in Seq(Byte) : F = Body(f)
  BY WholeForm, Zenon
<1>6. ASSUME NEW h \in 1 .. Len(o) - 1, h <= Len(F)
      PROVE  o[h] = F[h]
  <2>1. h \in 1 .. Len(o) /\ h \in 1 .. Len(F)
    BY <1>6
  <2> QED
    BY <1>4, <1>5, <2>1, WholeForm, Zenon DEF Glued
<1>7. Safe(f, o)
  BY <1>5, <1>6, SafeFront, Zenon
<1> QED
  BY <1>1, <1>7, Zenon DEF Harmless

LEMMA EndsAs ==
    ASSUME NEW S, NEW s \in Seq(S), NEW t \in Seq(S), Len(t) # 0
    PROVE  (s \o t)[Len(s \o t)] = t[Len(t)]
<1>1. PICK u : u = s \o t /\ Glued(S, s, t, u)
  BY ConcatGlues, Zenon
<1>2. Len(u) = Len(s) + Len(t) /\ Len(t) \in 1 .. Len(t)
  BY <1>1 DEF Glued
<1>3. u[Len(s) + Len(t)] = t[Len(t)]
  BY <1>1, <1>2, Zenon DEF Glued
<1> QED
  BY <1>1, <1>2, <1>3, Zenon

(* What ends in a byte that f's checksum is sent as. *)
LEMMA SafeEnd ==
    ASSUME NEW f, NEW s \in Seq(Byte), NEW t \in Seq(Byte), Len(t) # 0,
           t[Len(t)] \in SumBytes(f)
    PROVE  Safe(f, s \o t)
<1>1. s \o t \in Seq(Byte)
  OBVIOUS
<1>2. (s \o t)[Len(s \o t)] \in SumBytes(f)
  BY EndsAs
<1> QED
  BY <1>1, <1>2, SafeLast, Zenon

(* The front of f's bytes with few or more of others behind it.            *)
LEMMA SafeStart ==
    ASSUME NEW f, OnTheWire(f), NEW b, Whole(f, b), NEW n \in Nat, n <= Len(Body(f)),
           NEW t \in Seq(Byte), Len(t) <= 1 \/ n = Len(Body(f))
    PROVE  Safe(f, SubSeq(b, 1, n) \o t)
<1>1. PICK F \in Seq(Byte) : /\ F = Body(f) /\ Len(b) = Len(F) + 1 /\ b \in Seq(Byte)
                             /\ \A h \in 1 .. Len(F) : b[h] = F[h]
  BY WholeForm, Zenon DEF Whole
<1>2. PICK s : s = SubSeq(b, 1, n)
  OBVIOUS
<1>3. s \in Seq(Byte) /\ Len(s) = n /\ \A h \in 1 .. n : s[h] = b[h]
  BY <1>1, <1>2
<1>4. PICK u : u = s \o t /\ Glued(Byte, s, t, u)
  BY <1>3, ConcatGlues, Zenon
<1>5. u \in Seq(Byte) /\ Len(u) = n + Len(t)
  BY <1>3, <1>4 DEF Glued
<1>6. ASSUME NEW h \in 1 .. Len(u) - 1, h <= Len(F)
      PROVE  u[h] = F[h]
  <2>1. h \in 1 .. n /\ h \in 1 .. Len(F)
    BY <1>1, <1>5, <1>6
  <2> QED
    BY <1>1, <1>3, <1>4, <2>1, Zenon DEF Glued
<1>7. Safe(f, u)
  BY <1>1, <1>5, <1>6, SafeFront, Zenon
<1> QED
  BY <1>2, <1>4, <1>7, Zenon

LEMMA PiecesInARow ==
    ASSUME NEW b \in Seq(Byte), NEW e \in 1 .. Len(b), NEW u, NEW v, NEW w, Pieces(b, e, u, v, w)
    PROVE  u \in Seq(Byte) /\ InARow(Byte, u, v, w, EscapedBody(b))
<1>1. /\ u \in Seq(Byte) /\ v \in Seq(Byte) /\ w \in Seq(Byte)
      /\ EscapedBody(b) = (u \o v) \o w
  BY InPieces
<1> QED
  BY <1>1, ThreeInARow

(* So is the whole of it with the e-th byte broken. *)
LEMMA BrokenHarmless ==
    ASSUME NEW f, OnTheWire(f), NEW b, Whole(f, b), NEW e \in 1 .. Len(b),
           NEW u, NEW v, NEW w, Pieces(b, e, u, v, w), NEW d \in Broken(v),
           NEW r, InARow(Byte, u, d, w, r)
    PROVE  Harmless(f, r)
<1>1. /\ b \in Seq(Byte) /\ Len(b) = Len(Body(f)) + 1 /\ Body(f) \in Seq(Byte)
      /\ b[Len(b)] = Checksum(Body(f)) /\ b[Len(b)] \in SumBytes(f)
  BY WholeForm, Zenon DEF Whole
<1>2. PICK n \in Nat : n = Len(b) /\ Len(Body(f)) = n - 1
  BY <1>1
<1>3. u \in Seq(Byte) /\ v \in Seq(Byte) /\ w \in Seq(Byte) /\ b[e] \in Byte
  BY <1>1, InPieces
<1>4. PICK P \in Seq(Byte) : P = SubSeq(b, 1, e - 1) /\ Unescape(u) = Shut(P)
  <2>1. SubSeq(b, 1, e - 1) \in Seq(Byte)
    BY <1>1
  <2> QED
    BY <2>1, BodyReadsBack, Zenon DEF Pieces, Shut
<1>5. PICK g \in Seq(Byte) : /\ g = SubSeq(b, e + 1, n) /\ w = EscapedBody(g)
                             /\ Len(g) = n - e
                             /\ \A h \in 1 .. n - e : g[h] = b[e + h]
  <2>1. PICK g : g = SubSeq(b, e + 1, n)
    OBVIOUS
  <2>2. g \in Seq(Byte) /\ Len(g) = n - e /\ \A h \in 1 .. n - e : g[h] = b[e + h]
    BY <1>1, <1>2, <2>1
  <2> QED
    BY <1>2, <2>1, <2>2, Zenon DEF Pieces
<1>6. /\ d \in Seq(Byte)
      /\ \/ Unescape(u \o d) = Open(P)
         \/ \E more \in Seq(Byte) : Unescape(u \o d) = Shut(P \o more)
  <2>1. d \in Broken(Escaped(b[e]))
    BY Zenon DEF Pieces
  <2> QED
    BY <1>3, <1>4, <2>1, AfterBroken, ZenonT(40)
<1>7. PICK x \in Seq(Byte) : x = u \o d
  <2>1. d \in Seq(Byte)
    BY <1>6, Zenon
  <2>2. u \o d \in Seq(Byte)
    BY <1>3, <2>1, ConcatProperties
  <2> QED
    BY <2>2, Zenon
<1>8. e \in 1 .. n /\ r = x \o w
  <2>1. r = (u \o d) \o w
    BY <1>3, <1>6, SameRow
  <2> QED
    BY <1>2, <1>7, <2>1
<1>9. CASE e = n
  <2>1. g = <<>> /\ w = <<>> /\ x \o w = x
    <3>1. Len(g) = 0
      BY <1>5, <1>9
    <3>2. g = <<>>
      BY <3>1
    <3> QED
      BY <1>5, <3>2, EscapedNothing, ConcatEmptySeq
  <2>2. P = SubSeq(b, 1, n - 1) /\ n - 1 = Len(Body(f)) /\ n - 1 \in Nat
    BY <1>2, <1>4, <1>8, <1>9
  <2>3. CASE Unescape(u \o d) = Open(P)
    <3>1. Unescape(x).open
      BY <1>7, <2>3 DEF Open
    <3> QED
      BY <1>8, <2>1, <3>1, Zenon DEF Harmless
  <2>4. CASE \E more \in Seq(Byte) : Unescape(u \o d) = Shut(P \o more)
    <3>1. PICK more \in Seq(Byte) : Unescape(u \o d) = Shut(P \o more)
      BY <2>4
    <3>2. n - 1 <= Len(Body(f))
      BY <1>2
    <3>3. Safe(f, P \o more)
      BY <2>2, <3>2, SafeStart, Zenon
    <3>4. Unescape(x).out = P \o more
      BY <1>7, <3>1 DEF Shut
    <3> QED
      BY <1>8, <2>1, <3>3, <3>4, Zenon DEF Harmless
  <2> QED
    BY <1>6, <2>3, <2>4
<1>10. CASE e # n
  <2>1. n - e \in Nat /\ n - e # 0 /\ n - e \in 1 .. n - e /\ e + (n - e) = n /\ 1 \in 1 .. n - e
    BY <1>8, <1>10
  <2>2. g[Len(g)] \in SumBytes(f) /\ Len(g) # 0
    <3>1. g[n - e] = b[e + (n - e)]
      BY <1>5, <2>1, Zenon
    <3> QED
      BY <1>1, <1>2, <1>5, <2>1, <3>1, Zenon
  <2>3. CASE \E more \in Seq(Byte) : Unescape(u \o d) = Shut(P \o more)
    <3>1. PICK more \in Seq(Byte), Q \in Seq(Byte) :
             Unescape(x) = Shut(Q) /\ Q = P \o more
      <4>1. \A more \in Seq(Byte) : P \o more \in Seq(Byte)
        OBVIOUS
      <4> QED
        BY <1>7, <2>3, <4>1, Zenon
    <3>2. Unescape(x).out = Q /\ ~ Unescape(x).open
      BY <3>1 DEF Shut
    <3>3. Unescape(x \o w) = [out |-> Q \o g, open |-> FALSE]
      BY <1>5, <3>2, BodyReadsOn, Zenon DEF ReadsOnTo
    <3>4. Safe(f, Q \o g)
      BY <2>2, SafeEnd, Zenon
    <3>5. Unescape(x \o w).out = Q \o g
      BY <3>3
    <3> QED
      BY <1>8, <3>4, <3>5, Zenon DEF Harmless
  <2>4. CASE Unescape(u \o d) = Open(P)
    <3>1. PICK c \in Byte : c = g[1] /\ c = b[e + 1]
      <4>1. g[1] = b[e + 1] /\ 1 \in 1 .. Len(g)
        BY <1>5, <2>1, Zenon
      <4> QED
        BY <4>1, ElementOfSeq, Zenon
    <3>2. PICK g2 \in Seq(Byte) : /\ g2 = SubSeq(g, 2, Len(g)) /\ Len(g2) = (n - e) - 1
                                  /\ \A h \in 1 .. (n - e) - 1 : g2[h] = g[h + 1]
      <4>1. PICK y : y = SubSeq(g, 2, Len(g))
        OBVIOUS
      <4>2. PICK k \in Nat : k = n - e /\ k # 0
        BY <2>1
      <4>3. Len(g) = k
        BY <1>5, <4>2, Zenon
      <4>4. y \in Seq(Byte) /\ Len(y) = k - 1 /\ \A h \in 1 .. k - 1 : y[h] = g[h + 1]
        BY <4>1, <4>2, <4>3, SMTT(40)
      <4> QED
        BY <4>1, <4>2, <4>4, Zenon
    <3>3. PICK v2 \in Seq(Byte), w2 \in Seq(Byte) :
             v2 = Escaped(c) /\ w2 = EscapedBody(g2) /\ w = v2 \o w2
      <4>1. PICK v2 \in Seq(Byte), w2 \in Seq(Byte) : v2 = Escaped(c) /\ w2 = EscapedBody(g2)
        BY EscapedTyped, EscapedBodyTyped, Zenon
      <4>2. PICK u2 : u2 = <<>> /\ Pieces(g, 1, u2, v2, w2)
        <5>1. SubSeq(g, 1, 1 - 1) = <<>> /\ 1 + 1 = 2
          OBVIOUS
        <5> QED
          BY <3>1, <3>2, <4>1, <5>1, EscapedNothing, Zenon DEF Pieces
      <4>3. 1 \in 1 .. Len(g)
        BY <1>5, <2>1
      <4>4. w = (u2 \o v2) \o w2
        <5>1. InARow(Byte, u2, v2, w2, w) /\ u2 \in Seq(Byte)
          BY <1>5, <4>2, <4>3, PiecesInARow, Zenon
        <5> QED
          BY <5>1, SameRow, SMTT(40)
      <4>5. u2 \o v2 = v2
        BY <4>2, ConcatEmptySeq
      <4> QED
        BY <4>1, <4>4, <4>5, Zenon
    <3>4. PICK z \in Seq(Byte) : /\ Unescape(x \o v2) = Shut(P \o z)
                                 /\ Len(z) = 1 \/ (Len(z) = 2 /\ z[2] \in ToSet(v2))
      <4>1. Unescape(x) = Open(P)
        BY <1>7, <2>4, Zenon
      <4>2. PICK z \in Seq(Byte) :
               /\ Unescape(x \o Escaped(c)) = Shut(P \o z)
               /\ Len(z) = 1 \/ (Len(z) = 2 /\ z[2] \in ToSet(Escaped(c)))
        BY <4>1, AfterOpen, Zenon
      <4> QED
        BY <3>3, <4>2, Zenon
    <3>5. PICK X \in Seq(Byte), Q \in Seq(Byte) : X = x \o v2 /\ Q = P \o z
      <4>1. x \o v2 \in Seq(Byte)
        OBVIOUS
      <4>2. P \o z \in Seq(Byte)
        OBVIOUS
      <4> QED
        BY <4>1, <4>2, Zenon
    <3>6. x \o w = X \o w2
      <4>1. Groups(x, v2, w2)
        BY GroupsAny, Zenon
      <4> QED
        BY <3>3, <3>5, <4>1, Zenon DEF Groups
    <3>7. Unescape(X).out = Q /\ ~ Unescape(X).open
      BY <3>4, <3>5 DEF Shut
    <3>8. Unescape(x \o w) = [out |-> Q \o g2, open |-> FALSE]
      BY <3>3, <3>6, <3>7, BodyReadsOn, ZenonT(40) DEF ReadsOnTo
    <3>9. Unescape(x \o w).out = Q \o g2
      BY <3>8
    <3>10. CASE e + 1 = n
      <4>1. g2 = <<>> /\ Q \o g2 = Q
        <5>1. Len(g2) = 0
          BY <3>2, <3>10
        <5>2. g2 = <<>>
          BY <5>1
        <5> QED
          BY <5>2, ConcatEmptySeq
      <4>2. CASE Len(z) = 1
        <5>1. e - 1 \in Nat /\ e - 1 <= Len(Body(f)) /\ Len(z) <= 1
          BY <1>2, <1>8, <4>2
        <5>2. Safe(f, P \o z)
          BY <1>4, <5>1, SafeStart, Zenon
        <5> QED
          BY <1>8, <3>5, <3>9, <4>1, <5>2, Zenon DEF Harmless
      <4>3. CASE Len(z) = 2 /\ z[2] \in ToSet(v2)
        <5>1. c = Checksum(Body(f))
          BY <1>1, <1>2, <3>1, <3>10, Zenon
        <5>2. z[Len(z)] \in SumBytes(f)
          BY <3>3, <4>3, <5>1, Zenon DEF SumBytes
        <5>3. Len(z) # 0
          BY <4>3
        <5>4. Safe(f, P \o z)
          BY <5>2, <5>3, SafeEnd, Zenon
        <5> QED
          BY <1>8, <3>5, <3>9, <4>1, <5>4, Zenon DEF Harmless
      <4> QED
        BY <3>4, <4>2, <4>3
    <3>11. CASE e + 1 # n
      <4>1. (n - e) - 1 \in 1 .. (n - e) - 1 /\ ((n - e) - 1) + 1 = n - e /\ (n - e) - 1 # 0
        BY <1>8, <1>10, <3>11
      <4>2. g2[(n - e) - 1] = g[n - e]
        BY <3>2, <4>1, Zenon
      <4>3. g2[Len(g2)] \in SumBytes(f) /\ Len(g2) # 0
        BY <1>5, <2>2, <3>2, <4>1, <4>2, Zenon
      <4>4. Safe(f, Q \o g2)
        BY <4>3, SafeEnd, Zenon
      <4> QED
        BY <1>8, <3>9, <4>4, Zenon DEF Harmless
    <3> QED
      BY <3>10, <3>11
  <2> QED
    BY <1>6, <2>3, <2>4
<1> QED
  BY <1>9, <1>10

(* One byte lost or misread between the markers. *)
LEMMA MiddleHarmless ==
    ASSUME NEW f, OnTheWire(f), NEW b, Whole(f, b), NEW m, m = EscapedBody(b),
           NEW p \in 1 .. Len(m)
    PROVE  /\ Harmless(f, RemoveAt(m, p))
           /\ \A c \in Byte : Harmless(f, ReplaceAt(m, p, c))
<1>1. b \in Seq(Byte)
  BY DEF Whole
<1>2. PICK e \in 1 .. Len(b), u \in Seq(Byte), v \in Seq(Byte), w \in Seq(Byte) :
         Pieces(b, e, u, v, w) /\ \E q \in 1 .. Len(v) : p = Len(u) + q
  BY <1>1, FindPiece
<1>3. PICK q \in 1 .. Len(v) : p = Len(u) + q
  BY <1>2
<1>4. InARow(Byte, u, v, w, m)
  BY <1>1, <1>2, PiecesInARow
<1>5. Harmless(f, RemoveAt(m, p))
  <2>1. RemoveAt(v, q) \in Broken(v)
    BY DEF Broken
  <2>2. InARow(Byte, u, RemoveAt(v, q), w, RemoveAt(m, p))
    BY <1>3, <1>4, RemoveInARow
  <2> QED
    BY <1>2, <2>1, <2>2, BrokenHarmless
<1>6. ASSUME NEW c \in Byte
      PROVE  Harmless(f, ReplaceAt(m, p, c))
  <2>1. ReplaceAt(v, q, c) \in Broken(v)
    BY DEF Broken
  <2>2. InARow(Byte, u, ReplaceAt(v, q, c), w, ReplaceAt(m, p, c))
    BY <1>3, <1>4, ReplaceInARow
  <2> QED
    BY <1>2, <2>1, <2>2, BrokenHarmless
<1> QED
  BY <1>5, <1>6

----------------------------------------------------------------------------
(* The fate of a damaged frame *)

(* What damage makes of a frame: nothing that starts a frame ... *)
NoStart(d) == \A h \in 1 .. Len(d) : d[h] # Start

(* ... or a start that only the frame behind it ends ... *)
Headed(d) == Len(d) # 0 /\ d[1] = Start /\ \A h \in 2 .. Len(d) : d[h] # End

(* ... or a frame up to q that is no other than f's damage excuses.        *)
ClosedAt(f, d, q) ==
    /\ d[1] = Start /\ d[q] = End /\ \A h \in 2 .. q - 1 : d[h] # End
    /\ \A h \in q + 1 .. Len(d) : d[h] # Start
    /\ Harmless(f, SubSeq(d, 2, q - 1))
Closed(f, d) == \E q \in 2 .. Len(d) : ClosedAt(f, d, q)

(* The first byte, those in between, and the last.                         *)
Enclosed(x, d) ==
    /\ d \in Seq(Byte) /\ Len(d) = Len(x) + 2
    /\ d[1] = Start /\ d[Len(x) + 2] = End
    /\ \A h \in 1 .. Len(x) : d[h + 1] = x[h]

LEMMA RowEncloses ==
    ASSUME NEW x \in Seq(Byte), NEW d, InARow(Byte, <<Start>>, x, <<End>>, d)
    PROVE  Enclosed(x, d)
<1>1. PICK a : a = <<Start>> /\ Len(a) = 1 /\ a[1] = Start
  OBVIOUS
<1>2. PICK z : z = <<End>> /\ Len(z) = 1 /\ z[1] = End
  OBVIOUS
<1>3. InARow(Byte, a, x, z, d)
  BY <1>1, <1>2, Zenon
<1>4. 1 \in 1 .. 1
  OBVIOUS
<1>5. d \in Seq(Byte) /\ Len(d) = 1 + Len(x) + 1 /\ d[1] = Start
      /\ d[1 + Len(x) + 1] = End /\ \A i \in 1 .. Len(x) : d[1 + i] = x[i]
  BY <1>1, <1>2, <1>3, <1>4, Zenon DEF InARow
<1>6. 1 + Len(x) + 1 = Len(x) + 2 /\ \A i \in 1 .. Len(x) : 1 + i = i + 1
  OBVIOUS
<1> QED
  BY <1>5, <1>6, Zenon DEF Enclosed

LEMMA EnclosedCloses ==
    ASSUME NEW f, NEW x \in Seq(Byte), NEW d, Enclosed(x, d),
           \A h \in 1 .. Len(x) : x[h] # End, Harmless(f, x)
    PROVE  Closed(f, d)
<1>1. PICK n \in Nat : n = Len(x)
  OBVIOUS
<1>2. d \in Seq(Byte) /\ Len(d) = n + 2 /\ d[1] = Start /\ d[n + 2] = End
      /\ \A h \in 1 .. n : d[h + 1] = x[h]
  BY <1>1, Zenon DEF Enclosed
<1>3. n + 2 \in 2 .. Len(d) /\ (n + 2) - 1 = n + 1 /\ ~ \E h \in (n + 2) + 1 .. Len(d) : TRUE
  BY <1>2
<1>4. ASSUME NEW h \in 2 .. n + 1
      PROVE  d[h] # End
  <2>1. h - 1 \in 1 .. n /\ (h - 1) + 1 = h
    OBVIOUS
  <2>2. d[(h - 1) + 1] = x[h - 1] /\ x[h - 1] # End
    BY <1>1, <1>2, <2>1, Zenon
  <2> QED
    BY <2>1, <2>2, Zenon
<1>5. SubSeq(d, 2, n + 1) = x
  <2>1. PICK y : y = SubSeq(d, 2, n + 1)
    OBVIOUS
  <2>2. y \in Seq(Byte) /\ Len(y) = n /\ \A h \in 1 .. n : y[h] = d[h + 1]
    BY <1>2, <2>1
  <2>3. \A h \in 1 .. n : y[h] = x[h]
    BY <1>2, <2>2, Zenon
  <2>4. y = x
    BY <1>1, <2>2, <2>3, SeqEqual
  <2> QED
    BY <2>1, <2>4, Zenon
<1>6. ClosedAt(f, d, n + 2)
  BY <1>2, <1>3, <1>4, <1>5, Zenon DEF ClosedAt
<1> QED
  BY <1>3, <1>6, Zenon DEF Closed

LEMMA EncodeEncloses ==
    ASSUME NEW f, OnTheWire(f)
    PROVE  \E b, m : /\ Whole(f, b) /\ m = EscapedBody(b) /\ m \in Seq(Byte \ {Start, End})
                     /\ InARow(Byte, <<Start>>, m, <<End>>, Encode(f))
                     /\ Enclosed(m, Encode(f))
<1>1. PICK b : Whole(f, b)
  BY JudgeReadsBack, Zenon DEF Whole
<1>2. PICK m \in Seq(Byte \ {Start, End}) : m = EscapedBody(b) /\ m \in Seq(Byte)
  BY <1>1, EscapedBodyTyped, Zenon DEF Whole
<1>3. PICK a \in Seq(Byte), z \in Seq(Byte) : a = <<Start>> /\ z = <<End>>
  BY OneElement, EscapeIsByte, Zenon
<1>4. Encode(f) = (a \o m) \o z
  BY <1>1, <1>2, <1>3, Zenon DEF Encode, Whole
<1>5. InARow(Byte, a, m, z, Encode(f))
  BY <1>2, <1>4, ThreeInARow
<1>6. Enclosed(m, Encode(f))
  BY <1>2, <1>3, <1>5, RowEncloses, Zenon
<1> QED
  BY <1>1, <1>2, <1>3, <1>5, <1>6, Zenon

LEMMA IntactCloses ==
    ASSUME NEW f, OnTheWire(f)
    PROVE  Closed(f, Encode(f))
<1>1. PICK b, m : /\ Whole(f, b) /\ m = EscapedBody(b) /\ m \in Seq(Byte \ {Start, End})
                  /\ Enclosed(m, Encode(f))
  BY EncodeEncloses, Zenon
<1>2. m \in Seq(Byte)
  BY <1>1, SeqMonotonic
<1>3. Harmless(f, m)
  <2>1. <<>> \in Seq(Byte) /\ m \o <<>> = m
    BY <1>2, EmptySeq, ConcatEmptySeq
  <2> QED
    BY <1>1, <1>2, <2>1, PrefixHarmless, Zenon
<1>4. \A h \in 1 .. Len(m) : m[h] # End
  BY <1>1
<1> QED
  BY <1>1, <1>2, <1>3, <1>4, EnclosedCloses, Zenon

Fate(f, d) == d \in Seq(Byte) /\ (NoStart(d) \/ Headed(d) \/ Closed(f, d))

(* The bytes of an encoded frame by their places. *)
LEMMA EnclosedPlaces ==
    ASSUME NEW m \in Seq(Byte \ {Start, End}), NEW s, Enclosed(m, s), NEW n \in Nat, n = Len(m)
    PROVE  /\ s \in Seq(Byte) /\ Len(s) = n + 2 /\ s[1] = Start /\ s[n + 2] = End
           /\ \A h \in 2 .. n + 2 : s[h] # Start
           /\ \A h \in 1 .. n + 1 : s[h] # End
<1>1. /\ s \in Seq(Byte) /\ Len(s) = n + 2 /\ s[1] = Start /\ s[n + 2] = End
      /\ \A h \in 1 .. n : s[h + 1] = m[h]
  BY Zenon DEF Enclosed
<1>2. Start # End
  BY DEF Start, End
<1>3. ASSUME NEW h \in 2 .. n + 1
      PROVE  s[h] # Start /\ s[h] # End
  <2>1. h - 1 \in 1 .. n /\ (h - 1) + 1 = h
    OBVIOUS
  <2>2. m[h - 1] \in Byte \ {Start, End}
    BY <2>1, ElementOfSeq
  <2> QED
    BY <1>1, <2>1, <2>2, Zenon
<1>4. \A h \in 2 .. n + 2 : h \in 2 .. n + 1 \/ h = n + 2
  OBVIOUS
<1>5. \A h \in 1 .. n + 1 : h \in 2 .. n + 1 \/ h = 1
  OBVIOUS
<1> QED
  BY <1>1, <1>2, <1>3, <1>4, <1>5, Zenon

(* A lost byte, be it a marker or one between them. *)
LEMMA RemovedFate ==
    ASSUME NEW f, OnTheWire(f), NEW p \in 1 .. Len(Encode(f))
    PROVE  Fate(f, RemoveAt(Encode(f), p))
<1>1. PICK b, m : /\ Whole(f, b) /\ m = EscapedBody(b) /\ m \in Seq(Byte \ {Start, End})
                  /\ InARow(Byte, <<Start>>, m, <<End>>, Encode(f))
                  /\ Enclosed(m, Encode(f))
  BY EncodeEncloses, Zenon
<1>2. PICK n \in Nat : n = Len(m)
  BY <1>1
<1>3. PICK s \in Seq(Byte) : s = Encode(f)
  BY EncodeTyped
<1>4. /\ Len(s) = n + 2 /\ s[1] = Start /\ s[n + 2] = End
      /\ \A h \in 2 .. n + 2 : s[h] # Start
      /\ \A h \in 1 .. n + 1 : s[h] # End
  BY <1>1, <1>2, <1>3, EnclosedPlaces, SMTT(40)
<1>5. PICK d : d = RemoveAt(s, p) /\ Removed(Byte, s, p, d)
  BY <1>3, RemoveForm, Zenon
<1>6. /\ d \in Seq(Byte) /\ Len(d) = n + 1 /\ p \in 1 .. n + 2
      /\ \A i \in 1 .. n + 1 : d[i] = IF i < p THEN s[i] ELSE s[i + 1]
  BY <1>3, <1>4, <1>5 DEF Removed
<1>7. CASE p = 1
  <2>1. ASSUME NEW h \in 1 .. n + 1
        PROVE  d[h] # Start
    <3>1. h + 1 \in 2 .. n + 2 /\ ~ h < p
      BY <1>7
    <3> QED
      BY <1>4, <1>6, <3>1, Zenon
  <2> QED
    BY <1>3, <1>5, <1>6, <2>1, Zenon DEF Fate, NoStart
<1>8. CASE p = n + 2
  <2>1. \A h \in 1 .. n + 1 : d[h] = s[h]
    <3>1. \A h \in 1 .. n + 1 : h < p
      BY <1>8
    <3> QED
      BY <1>6, <3>1, Zenon
  <2>2. 1 \in 1 .. n + 1 /\ n + 1 # 0 /\ \A h \in 2 .. n + 1 : h \in 1 .. n + 1
    OBVIOUS
  <2>3. Headed(d)
    BY <1>4, <1>6, <2>1, <2>2, Zenon DEF Headed
  <2> QED
    BY <1>3, <1>5, <1>6, <2>3, Zenon DEF Fate
<1>9. CASE p \in 2 .. n + 1
  <2>1. PICK q \in 1 .. Len(m) : p = 1 + q
    <3>1. p - 1 \in 1 .. Len(m) /\ p = 1 + (p - 1)
      BY <1>2, <1>9
    <3> QED
      BY <3>1
  <2>2. PICK x : x = RemoveAt(m, q) /\ Removed(Byte \ {Start, End}, m, q, x)
    BY <1>1, RemoveForm, Zenon
  <2>3. x \in Seq(Byte \ {Start, End}) /\ x \in Seq(Byte)
    <3>1. x \in Seq(Byte \ {Start, End})
      BY <2>2, Zenon DEF Removed
    <3> QED
      BY <3>1, SeqMonotonic
  <2>4. Harmless(f, x)
    BY <1>1, <2>2, MiddleHarmless
  <2>5. PICK a \in Seq(Byte), z \in Seq(Byte) : a = <<Start>> /\ z = <<End>> /\ Len(a) = 1
    BY OneElement, EscapeIsByte, Zenon
  <2>6. m \in Seq(Byte) /\ InARow(Byte, a, m, z, s)
    BY <1>1, <1>3, <2>5, EscapedBodyTyped, Zenon DEF Whole
  <2>7. InARow(Byte, a, x, z, d)
    <3>1. InARow(Byte, a, RemoveAt(m, q), z, RemoveAt(s, Len(a) + q))
      BY <2>6, RemoveInARow, Zenon
    <3> QED
      BY <1>5, <2>1, <2>2, <2>5, <3>1, Zenon
  <2>8. Enclosed(x, d)
    BY <2>3, <2>5, <2>7, RowEncloses, Zenon
  <2>9. \A h \in 1 .. Len(x) : x[h] # End
    BY <2>3
  <2>10. Closed(f, d)
    BY <2>3, <2>4, <2>8, <2>9, EnclosedCloses, Zenon
  <2> QED
    BY <1>3, <1>5, <1>6, <2>10, Zenon DEF Fate
<1>10. p = 1 \/ p = n + 2 \/ p \in 2 .. n + 1
  BY <1>6
<1> QED
  BY <1>7, <1>8, <1>9, <1>10

(* A byte that is misread, likewise, and as any other. *)
LEMMA ReplacedFate ==
    ASSUME NEW f, OnTheWire(f), NEW p \in 1 .. Len(Encode(f)), NEW c \in Byte
    PROVE  Fate(f, ReplaceAt(Encode(f), p, c))
<1>1. PICK b, m : /\ Whole(f, b) /\ m = EscapedBody(b) /\ m \in Seq(Byte \ {Start, End})
                  /\ InARow(Byte, <<Start>>, m, <<End>>, Encode(f))
                  /\ Enclosed(m, Encode(f))
  BY EncodeEncloses, Zenon
<1>2. PICK n \in Nat : n = Len(m)
  BY <1>1
<1>3. PICK s \in Seq(Byte) : s = Encode(f)
  BY EncodeTyped
<1>4. /\ Len(s) = n + 2 /\ s[1] = Start /\ s[n + 2] = End
      /\ \A h \in 2 .. n + 2 : s[h] # Start
      /\ \A h \in 1 .. n + 1 : s[h] # End
  BY <1>1, <1>2, <1>3, EnclosedPlaces, SMTT(40)
<1>5. PICK d : d = ReplaceAt(s, p, c) /\ Replaced(Byte, s, p, c, d)
  BY <1>3, ReplaceForm, Zenon
<1>6. /\ d \in Seq(Byte) /\ Len(d) = n + 2 /\ p \in 1 .. n + 2
      /\ \A i \in 1 .. n + 2 : d[i] = IF i = p THEN c ELSE s[i]
  BY <1>3, <1>4, <1>5 DEF Replaced
<1>7. CASE c = s[p]
  <2>1. \A i \in 1 .. n + 2 : d[i] = s[i]
    BY <1>6, <1>7, Zenon
  <2>2. d = s
    BY <1>4, <1>6, <2>1, SeqEqual
  <2> QED
    BY <1>3, <1>5, <2>2, IntactCloses, Zenon DEF Fate
<1>8. CASE c # s[p] /\ p = 1
  <2>1. ASSUME NEW h \in 1 .. n + 2
        PROVE  d[h] # Start
    <3>1. h # 1 => h \in 2 .. n + 2
      OBVIOUS
    <3> QED
      BY <1>4, <1>6, <1>8, <3>1, Zenon
  <2> QED
    BY <1>3, <1>5, <1>6, <2>1, Zenon DEF Fate, NoStart
<1>9. CASE c # s[p] /\ p = n + 2
  <2>1. ASSUME NEW h \in 2 .. n + 2
        PROVE  d[h] # End
    <3>1. h \in 1 .. n + 2 /\ (h # n + 2 => h \in 1 .. n + 1)
      OBVIOUS
    <3> QED
      BY <1>4, <1>6, <1>9, <3>1, Zenon
  <2>2. 1 \in 1 .. n + 2 /\ 1 # n + 2 /\ n + 2 # 0
    OBVIOUS
  <2>3. Headed(d)
    BY <1>4, <1>6, <1>9, <2>1, <2>2, Zenon DEF Headed
  <2> QED
    BY <1>3, <1>5, <1>6, <2>3, Zenon DEF Fate
<1>10. CASE p \in 2 .. n + 1 /\ c # End
  <2>1. PICK q \in 1 .. Len(m) : p = 1 + q
    <3>1. p - 1 \in 1 .. Len(m) /\ p = 1 + (p - 1)
      BY <1>2, <1>10
    <3> QED
      BY <3>1
  <2>2. m \in Seq(Byte)
    BY <1>1, EscapedBodyTyped, Zenon DEF Whole
  <2>3. PICK x : x = ReplaceAt(m, q, c) /\ Replaced(Byte, m, q, c, x)
    BY <2>2, ReplaceForm, Zenon
  <2>4. x \in Seq(Byte) /\ Len(x) = n
    BY <1>2, <2>3, Zenon DEF Replaced
  <2>5. Harmless(f, x)
    BY <1>1, <2>3, MiddleHarmless
  <2>6. PICK a \in Seq(Byte), z \in Seq(Byte) : a = <<Start>> /\ z = <<End>> /\ Len(a) = 1
    BY OneElement, EscapeIsByte, Zenon
  <2>7. InARow(Byte, a, m, z, s)
    BY <1>1, <1>3, <2>6, Zenon
  <2>8. InARow(Byte, a, x, z, d)
    <3>1. InARow(Byte, a, ReplaceAt(m, q, c), z, ReplaceAt(s, Len(a) + q, c))
      BY <2>2, <2>7, ReplaceInARow, Zenon
    <3> QED
      BY <1>5, <2>1, <2>3, <2>6, <3>1, Zenon
  <2>9. Enclosed(x, d)
    BY <2>4, <2>6, <2>8, RowEncloses, Zenon
  <2>10. ASSUME NEW h \in 1 .. Len(x)
         PROVE  x[h] # End
    <3>1. m[h] \in Byte \ {Start, End}
      BY <1>1, <1>2, <2>4, ElementOfSeq
    <3> QED
      BY <1>10, <2>3, <3>1, Zenon DEF Replaced
  <2>11. Closed(f, d)
    BY <2>4, <2>5, <2>9, <2>10, EnclosedCloses, Zenon
  <2> QED
    BY <1>3, <1>5, <1>6, <2>11, Zenon DEF Fate
<1>11. CASE p \in 2 .. n + 1 /\ c = End
  <2>1. /\ p \in 2 .. Len(d) /\ 1 \in 1 .. n + 2 /\ 1 # p /\ p \in 1 .. n + 2
        /\ \A h \in 2 .. p - 1 : h \in 1 .. n + 2 /\ h # p /\ h \in 1 .. n + 1
        /\ \A h \in p + 1 .. n + 2 : h \in 1 .. n + 2 /\ h # p /\ h \in 2 .. n + 2
    BY <1>6, <1>11
  <2>2. /\ d[1] = Start /\ d[p] = End /\ \A h \in 2 .. p - 1 : d[h] # End
        /\ \A h \in p + 1 .. Len(d) : d[h] # Start
    BY <1>4, <1>6, <1>11, <2>1, Zenon
  <2>3. m \in Seq(Byte) /\ Len(m) = n
    BY <1>1, <1>2, EscapedBodyTyped, Zenon DEF Whole
  <2>4. PICK x \in Seq(Byte), y \in Seq(Byte) :
           x = SubSeq(m, 1, p - 2) /\ y = SubSeq(m, p - 1, n) /\ Len(x) = p - 2
    <3>1. SubSeq(m, 1, p - 2) \in Seq(Byte) /\ Len(SubSeq(m, 1, p - 2)) = p - 2
      BY <1>11, <2>3
    <3>2. SubSeq(m, p - 1, n) \in Seq(Byte)
      BY <1>11, <2>3
    <3> QED
      BY <3>1, <3>2, Zenon
  <2>5. x \o y = m
    <3>1. PICK k \in Nat : k = p - 2 /\ k <= n
      BY <1>11
    <3>2. /\ 1 \in 1 .. Len(m) + 1 /\ k \in 1 - 1 .. Len(m) /\ Len(m) \in k .. Len(m)
          /\ SubSeq(m, 1, Len(m)) = m
      BY <2>3, <3>1
    <3>3. SubSeq(m, 1, k) \o SubSeq(m, k + 1, Len(m)) = SubSeq(m, 1, Len(m))
      BY <2>3, <3>2, ConcatAdjacentSubSeq
    <3>4. k + 1 = p - 1
      BY <1>11, <3>1
    <3> QED
      BY <2>3, <2>4, <3>1, <3>2, <3>3, <3>4, Zenon
  <2>6. Harmless(f, x)
    BY <1>1, <2>5, PrefixHarmless, Zenon
  <2>7. SubSeq(d, 2, p - 1) = x
    <3>1. PICK y2 : y2 = SubSeq(d, 2, p - 1)
      OBVIOUS
    <3>2. y2 \in Seq(Byte) /\ Len(y2) = p - 2 /\ \A h \in 1 .. p - 2 : y2[h] = d[h + 1]
      BY <1>6, <1>11, <3>1
    <3>3. \A h \in 1 .. p - 2 : x[h] = m[h]
      BY <1>11, <2>3, <2>4, SMTT(40)
    <3>4. ASSUME NEW h \in 1 .. p - 2
          PROVE  y2[h] = x[h]
      <4>1. h + 1 \in 1 .. n + 2 /\ h + 1 # p /\ h \in 1 .. n
        BY <1>11
      <4>2. d[h + 1] = s[h + 1] /\ s[h + 1] = m[h]
        BY <1>1, <1>2, <1>3, <1>6, <4>1, Zenon DEF Enclosed
      <4> QED
        BY <3>2, <3>3, <4>2, Zenon
    <3>5. y2 = x
      BY <2>4, <3>2, <3>4, SeqEqual
    <3> QED
      BY <3>1, <3>5, Zenon
  <2>8. Closed(f, d)
    BY <2>1, <2>2, <2>6, <2>7, Zenon DEF Closed, ClosedAt
  <2> QED
    BY <1>3, <1>5, <1>6, <2>8, Zenon DEF Fate
<1>12. p = 1 \/ p = n + 2 \/ p \in 2 .. n + 1
  BY <1>6
<1> QED
  BY <1>7, <1>8, <1>9, <1>10, <1>11, <1>12

(* However an encoded frame is damaged, it starts no frame, or its end is  *)
(* missing, or its bytes give nothing that its checksum does not excuse.   *)
LEMMA DamagedFate ==
    ASSUME NEW f, OnTheWire(f), NEW d \in Damaged(Encode(f))
    PROVE  Fate(f, d)
<1>1. PICK b, m : m \in Seq(Byte \ {Start, End}) /\ Enclosed(m, Encode(f))
  BY EncodeEncloses, Zenon
<1>2. PICK n \in Nat : n = Len(m)
  BY <1>1
<1>3. PICK s \in Seq(Byte) : s = Encode(f)
  BY EncodeTyped
<1>4. /\ Len(s) = n + 2 /\ s[1] = Start /\ s[n + 2] = End
      /\ \A h \in 2 .. n + 2 : s[h] # Start
      /\ \A h \in 1 .. n + 1 : s[h] # End
  BY <1>1, <1>2, <1>3, EnclosedPlaces
<1>5. d \in Seq(Byte)
  BY <1>3, DamagedTyped
<1>6. CASE \E i \in 1 .. n + 2 : d = RemoveAt(s, i)
  <2>1. PICK i \in 1 .. n + 2 : d = RemoveAt(s, i)
    BY <1>6
  <2> QED
    BY <1>3, <1>4, <2>1, RemovedFate, Zenon
<1>7. CASE \E i \in 1 .. n + 2 : \E c \in NoiseBytes : d = ReplaceAt(s, i, c)
  <2>1. PICK i \in 1 .. n + 2, c \in Byte : d = ReplaceAt(s, i, c)
    BY <1>7, NoiseAssumption
  <2> QED
    BY <1>3, <1>4, <2>1, ReplacedFate, Zenon
<1>8. CASE \E i \in 1 .. n + 2 : d = SubSeq(s, 1, i)
  <2>1. PICK i \in 1 .. n + 2 : d = SubSeq(s, 1, i)
    BY <1>8
  <2>2. Len(d) = i /\ \A h \in 1 .. i : d[h] = s[h]
    BY <1>4, <2>1
  <2>3. CASE i = n + 2
    <3>1. d = s
      BY <1>4, <2>1, <2>3
    <3> QED
      BY <1>3, <1>5, <3>1, IntactCloses, Zenon DEF Fate
  <2>4. CASE i # n + 2
    <3>1. i # 0 /\ 1 \in 1 .. i /\ \A h \in 2 .. i : h \in 1 .. i /\ h \in 1 .. n + 1
      BY <2>4
    <3>2. Headed(d)
      BY <1>4, <2>2, <3>1, Zenon DEF Headed
    <3> QED
      BY <1>5, <3>2, Zenon DEF Fate
  <2> QED
    BY <2>3, <2>4
<1>9. CASE \E i \in 1 .. n + 2 : d = SubSeq(s, i, n + 2)
  <2>1. PICK i \in 1 .. n + 2 : d = SubSeq(s, i, n + 2)
    BY <1>9
  <2>2. CASE i = 1
    <3>1. d = s
      BY <1>4, <2>1, <2>2
    <3> QED
      BY <1>3, <1>5, <3>1, IntactCloses, Zenon DEF Fate
  <2>3. CASE i # 1
    <3>1. Len(d) = (n + 2) - i + 1 /\ \A h \in 1 .. (n + 2) - i + 1 : d[h] = s[(i - 1) + h]
      BY <1>4, <2>1
    <3>2. \A h \in 1 .. (n + 2) - i + 1 : (i - 1) + h \in 2 .. n + 2
      BY <2>3
    <3>3. ASSUME NEW h \in 1 .. Len(d)
          PROVE  d[h] # Start
      <4>1. h \in 1 .. (n + 2) - i + 1
        BY <3>1
      <4>2. d[h] = s[(i - 1) + h] /\ (i - 1) + h \in 2 .. n + 2
        BY <3>1, <3>2, <4>1, Zenon
      <4> QED
        BY <1>4, <4>2, Zenon
    <3>4. NoStart(d)
      BY <3>3, Zenon DEF NoStart
    <3> QED
      BY <1>5, <3>4, Zenon DEF Fate
  <2> QED
    BY <2>2, <2>3
<1> QED
  <2>1. \/ \E i \in DOMAIN s : d = RemoveAt(s, i)
        \/ \E i \in DOMAIN s : \E c \in NoiseBytes : d = ReplaceAt(s, i, c)
        \/ \E i \in DOMAIN s : d = SubSeq(s, 1, i)
        \/ \E i \in DOMAIN s : d = SubSeq(s, i, Len(s))
    BY <1>3 DEF Damaged
  <2>2. DOMAIN s = 1 .. n + 2
    BY <1>4
  <2> QED
    BY <1>4, <1>6, <1>7, <1>8, <1>9, <2>1, <2>2, Zenon

----------------------------------------------------------------------------
(* What decode_frame comes to between two markers *)

LEMMA DecodeNone ==
    ASSUME NEW buf, NEW p \in Nat, p = Position(buf, 1, Start),
           p = 0 \/ Position(buf, p + 1, End) = 0
    PROVE  DecodeFrame(buf).verdict = "none"
<1>1. DecodeFrame(buf) = Leaving(Verdict("none", <<>>), buf)
  BY Zenon DEF DecodeFrame
<1> QED
  BY <1>1 DEF Leaving, Verdict

(* What decode_frame makes of x between the first markers, with more       *)
(* behind them in the buffer and under way.                                *)
Spans(buf, lin, x, more) ==
    \/ Unescape(x).open /\ DecodeFrame(buf) = Leaving(Verdict("invalid", <<>>), buf)
    \/ /\ ~ Unescape(x).open
       /\ \E rest \in Seq(Byte) :
             DecodeFrame(buf) = Leaving(Judge(Unescape(x).out), rest) /\ rest \o lin = more

(* The markers may be in the buffer or under way. *)
LEMMA DecodeSpan ==
    ASSUME NEW buf \in Seq(Byte), NEW lin \in Seq(Byte), NEW T, T = buf \o lin,
           NEW p \in 1 .. Len(T), NEW q \in p + 1 .. Len(T), T[p] = Start, T[q] = End,
           \A h \in 1 .. p - 1 : T[h] # Start, \A h \in p + 1 .. q - 1 : T[h] # End
    PROVE  \/ DecodeFrame(buf).verdict = "none" /\ lin # <<>>
           \/ Spans(buf, lin, SubSeq(T, p + 1, q - 1), SubSeq(T, q + 1, Len(T)))
<1>1. Glued(Byte, buf, lin, T)
  BY ConcatGlues, Zenon
<1>2. PICK n \in Nat, l \in Nat : n = Len(buf) /\ l = Len(lin)
  BY LenProperties
<1>3. T \in Seq(Byte) /\ Len(T) = n + l /\ \A h \in 1 .. n : T[h] = buf[h]
  BY <1>1, <1>2, Zenon DEF Glued
<1>4. \A h \in 1 .. l : T[n + h] = lin[h]
  BY <1>1, <1>2, Zenon DEF Glued
<1>5. p \in 1 .. n + l /\ q \in p + 1 .. n + l
  BY <1>3, Zenon
<1>6. CASE ~ q <= n
  <2>1. lin # <<>>
    <3>1. l # 0
      BY <1>5, <1>6
    <3> QED
      BY <1>2, <3>1
  <2>2. DecodeFrame(buf).verdict = "none"
    <3>1. \/ Position(buf, 1, Start) = 0
          \/ /\ Position(buf, 1, Start) \in 1 .. n
             /\ buf[Position(buf, 1, Start)] = Start
             /\ \A h \in 1 .. n : buf[h] = Start => Position(buf, 1, Start) <= h
      BY <1>2, PositionForm, 1 \in Nat
    <3>2. CASE Position(buf, 1, Start) = 0
      BY <3>2, DecodeNone
    <3>3. CASE Position(buf, 1, Start) # 0
      <4>1. PICK k \in 1 .. n : k = Position(buf, 1, Start) /\ buf[k] = Start
        BY <3>1, <3>3, Zenon
      <4>2. ~ k < p
        <5>1. k < p => k \in 1 .. p - 1
          BY <1>5
        <5> QED
          BY <1>3, <4>1, <5>1, Zenon
      <4>3. Position(buf, k + 1, End) = 0
        <5>1. \/ Position(buf, k + 1, End) = 0
              \/ /\ Position(buf, k + 1, End) \in k + 1 .. n
                 /\ buf[Position(buf, k + 1, End)] = End
          BY <1>2, PositionForm, k + 1 \in Nat
        <5>2. ASSUME NEW h \in k + 1 .. n
              PROVE  buf[h] # End
          <6>1. h \in 1 .. n /\ h \in p + 1 .. q - 1
            BY <1>5, <1>6, <4>2
          <6> QED
            BY <1>3, <6>1, Zenon
        <5> QED
          BY <5>1, <5>2, Zenon
      <4>4. k \in Nat
        OBVIOUS
      <4> QED
        BY <4>1, <4>3, <4>4, DecodeNone, Zenon
    <3> QED
      BY <3>2, <3>3
  <2> QED
    BY <2>1, <2>2, Zenon
<1>7. CASE q <= n
  <2>1. p \in 1 .. n /\ q \in 1 .. n /\ buf[p] = Start /\ buf[q] = End
    <3>1. p \in 1 .. n /\ q \in 1 .. n
      BY <1>5, <1>7
    <3> QED
      BY <1>3, <3>1, Zenon
  <2>2. Position(buf, 1, Start) = p
    <3>1. \/ Position(buf, 1, Start) = 0 /\ \A h \in 1 .. n : buf[h] # Start
          \/ /\ Position(buf, 1, Start) \in 1 .. n
             /\ buf[Position(buf, 1, Start)] = Start
             /\ \A h \in 1 .. n : buf[h] = Start => Position(buf, 1, Start) <= h
      BY <1>2, PositionForm, 1 \in Nat
    <3>2. PICK k \in 1 .. n : k = Position(buf, 1, Start) /\ buf[k] = Start /\ k <= p
      BY <2>1, <3>1, Zenon
    <3>3. ~ k < p
      <4>1. k < p => k \in 1 .. p - 1
        BY <1>5
      <4> QED
        BY <1>3, <3>2, <4>1, Zenon
    <3>4. k = p
      BY <1>5, <3>2, <3>3
    <3> QED
      BY <3>2, <3>4, Zenon
  <2>3. Position(buf, p + 1, End) = q
    <3>1. q \in p + 1 .. n
      BY <1>5, <1>7
    <3>2. \/ Position(buf, p + 1, End) = 0 /\ \A h \in p + 1 .. n : buf[h] # End
          \/ /\ Position(buf, p + 1, End) \in p + 1 .. n
             /\ buf[Position(buf, p + 1, End)] = End
             /\ \A h \in p + 1 .. n : buf[h] = End => Position(buf, p + 1, End) <= h
      BY <1>2, PositionForm, p + 1 \in Nat
    <3>3. PICK k \in p + 1 .. n : k = Position(buf, p + 1, End) /\ buf[k] = End /\ k <= q
      BY <2>1, <3>1, <3>2, Zenon
    <3>4. ~ k < q
      <4>1. k \in 1 .. n /\ (k < q => k \in p + 1 .. q - 1)
        BY <1>5
      <4> QED
        BY <1>3, <3>3, <4>1, Zenon
    <3>5. k = q
      BY <1>5, <3>3, <3>4
    <3> QED
      BY <3>3, <3>5, Zenon
  <2>4. SubSeq(buf, p + 1, q - 1) = SubSeq(T, p + 1, q - 1)
    <3>1. PICK x : x = SubSeq(buf, p + 1, q - 1)
      OBVIOUS
    <3>2. PICK y : y = SubSeq(T, p + 1, q - 1)
      OBVIOUS
    <3>3. /\ x \in Seq(Byte) /\ Len(x) = (q - p) - 1
          /\ \A h \in 1 .. (q - p) - 1 : x[h] = buf[p + h]
      BY <1>2, <1>5, <1>7, <3>1
    <3>4. /\ y \in Seq(Byte) /\ Len(y) = (q - p) - 1
          /\ \A h \in 1 .. (q - p) - 1 : y[h] = T[p + h]
      BY <1>3, <1>5, <1>7, <3>2, SMTT(40)
    <3>5. \A h \in 1 .. (q - p) - 1 : p + h \in 1 .. n
      BY <1>5, <1>7
    <3>6. \A h \in 1 .. (q - p) - 1 : x[h] = y[h]
      BY <1>3, <3>3, <3>4, <3>5, Zenon
    <3>7. x = y
      BY <3>3, <3>4, <3>6, SeqEqual
    <3> QED
      BY <3>1, <3>2, <3>7, Zenon
  <2>5. PICK rest \in Seq(Byte) : /\ rest = SubSeq(buf, q + 1, Len(buf))
                                  /\ rest \o lin = SubSeq(T, q + 1, Len(T))
    <3>1. PICK r : r = SubSeq(buf, q + 1, n)
      OBVIOUS
    <3>2. r \in Seq(Byte) /\ Len(r) = n - q /\ \A h \in 1 .. n - q : r[h] = buf[q + h]
      BY <1>2, <1>5, <1>7, <3>1
    <3>3. PICK m : m = SubSeq(T, q + 1, n + l)
      OBVIOUS
    <3>4. /\ m \in Seq(Byte) /\ Len(m) = (n + l) - q
          /\ \A h \in 1 .. (n + l) - q : m[h] = T[q + h]
      BY <1>3, <1>5, <1>7, <3>3, SMTT(40)
    <3>5. PICK g : g = r \o lin /\ Glued(Byte, r, lin, g)
      BY <3>2, ConcatGlues, Zenon
    <3>6. g \in Seq(Byte) /\ Len(g) = (n - q) + l
      BY <1>2, <3>2, <3>5, Zenon DEF Glued
    <3>7. (n - q) + l = (n + l) - q /\ n - q \in Nat
      BY <1>5, <1>7
    <3>8. ASSUME NEW h \in 1 .. (n + l) - q
          PROVE  g[h] = m[h]
      <4>1. CASE h <= n - q
        <5>1. h \in 1 .. n - q /\ q + h \in 1 .. n
          BY <1>5, <1>7, <4>1
        <5> QED
          BY <1>3, <3>2, <3>4, <3>5, <5>1, ZenonT(40) DEF Glued
      <4>2. CASE ~ h <= n - q
        <5>1. /\ h - (n - q) \in 1 .. l /\ (n - q) + (h - (n - q)) = h
              /\ n + (h - (n - q)) = q + h
          BY <1>5, <1>7, <4>2
        <5>2. g[(n - q) + (h - (n - q))] = lin[h - (n - q)]
          BY <1>2, <3>2, <3>5, <5>1, Zenon DEF Glued
        <5>3. T[n + (h - (n - q))] = lin[h - (n - q)]
          BY <1>4, <5>1, Zenon
        <5> QED
          BY <3>4, <5>1, <5>2, <5>3, Zenon
      <4> QED
        BY <4>1, <4>2
    <3>9. g = m
      <4>1. Len(g) = Len(m) /\ \A h \in 1 .. Len(g) : g[h] = m[h]
        BY <3>4, <3>6, <3>7, <3>8, Zenon
      <4> QED
        BY <3>4, <3>6, <4>1, SeqEqual, Zenon
    <3> QED
      BY <1>2, <1>3, <3>1, <3>2, <3>3, <3>5, <3>9, Zenon
  <2>6. p # 0 /\ q # 0
    BY <1>5
  <2> QED
    BY <2>2, <2>3, <2>4, <2>5, <2>6, Zenon DEF DecodeFrame, Spans
<1> QED
  BY <1>6, <1>7

(* Two markers in the buffer are taken out of it, but for a bare escape. *)
LEMMA DecodeShrinks ==
    ASSUME NEW buf \in Seq(Byte)
    PROVE  \/ DecodeFrame(buf).verdict = "none"
           \/ DecodeFrame(buf).verdict = "invalid" /\ DecodeFrame(buf).rest = buf
           \/ Len(DecodeFrame(buf).rest) < Len(buf)
<1> DEFINE start == Position(buf, 1, Start)
           end == Position(buf, start + 1, End)
           bare == Unescape(SubSeq(buf, start + 1, end - 1))
<1>1. CASE start = 0 \/ end = 0
  <2>1. DecodeFrame(buf) = Leaving(Verdict("none", <<>>), buf)
    BY <1>1, Zenon DEF DecodeFrame
  <2> QED
    BY <2>1 DEF Leaving, Verdict
<1>2. CASE ~ (start = 0 \/ end = 0) /\ bare.open
  <2>1. DecodeFrame(buf) = Leaving(Verdict("invalid", <<>>), buf)
    BY <1>2, Zenon DEF DecodeFrame
  <2> QED
    BY <2>1 DEF Leaving, Verdict
<1>3. CASE ~ (start = 0 \/ end = 0) /\ ~ bare.open
  <2>1. PICK s \in Nat : s = start
    <3>1. \/ start = 0 \/ start \in 1 .. Len(buf)
      BY PositionForm, 1 \in Nat, Zenon
    <3> QED
      BY <1>3, <3>1
  <2>2. PICK t \in Nat : t = end /\ t \in s + 1 .. Len(buf)
    <3>1. \/ end = 0 \/ end \in s + 1 .. Len(buf)
      BY <2>1, PositionForm, s + 1 \in Nat, Zenon
    <3> QED
      BY <1>3, <3>1
  <2>3. PICK r : r = SubSeq(buf, t + 1, Len(buf))
    OBVIOUS
  <2>4. Len(r) = Len(buf) - t /\ Len(r) < Len(buf)
    BY <2>1, <2>2, <2>3
  <2>5. DecodeFrame(buf) = Leaving(Judge(bare.out), r)
    BY <1>3, <2>2, <2>3, Zenon DEF DecodeFrame
  <2>6. DecodeFrame(buf).rest = r
    BY <2>5 DEF Leaving
  <2> QED
    BY <2>4, <2>6
<1> QED
  BY <1>1, <1>2, <1>3, Zenon

----------------------------------------------------------------------------
(* Frames behind noise, and damaged ones *)

(* x is what s holds behind its first a elements, up to the b-th.          *)
Slice(S, s, a, b, x) ==
    x \in Seq(S) /\ Len(x) = b - a /\ \A h \in 1 .. b - a : x[h] = s[a + h]

LEMMA SliceForm ==
    ASSUME NEW S, NEW s \in Seq(S), NEW a \in Nat, NEW b \in Nat, a <= b, b <= Len(s)
    PROVE  Slice(S, s, a, b, SubSeq(s, a + 1, b))
<1>1. PICK x : x = SubSeq(s, a + 1, b)
  OBVIOUS
<1>2. x \in Seq(S) /\ Len(x) = b - a
  BY <1>1
<1>3. \A h \in 1 .. b - a : x[h] = s[a + h]
  BY <1>1
<1> QED
  BY <1>1, <1>2, <1>3, Zenon DEF Slice

(* The rest follows bytes that start no frame. *)
BehindNoise(all, rest) ==
    \E j \in 0 .. Len(all) :
        SubSeq(all, j + 1, Len(all)) = rest /\ \A h \in 1 .. j : all[h] # Start

LEMMA NoiseInFront ==
    ASSUME NEW d \in Seq(Byte), NEW rest \in Seq(Byte), NoStart(d)
    PROVE  BehindNoise(d \o rest, rest)
<1>1. PICK T : T = d \o rest /\ Glued(Byte, d, rest, T)
  BY ConcatGlues, Zenon
<1>2. Len(d) \in 0 .. Len(T) /\ SubSeq(T, Len(d) + 1, Len(T)) = rest
  BY <1>1 DEF Glued
<1>3. \A h \in 1 .. Len(d) : T[h] # Start
  BY <1>1, Zenon DEF Glued, NoStart
<1> QED
  BY <1>1, <1>2, <1>3, Zenon DEF BehindNoise

(* Where nothing starts, the reader waits ... *)
LEMMA NothingStarts ==
    ASSUME NEW buf \in Seq(Byte), NEW lin \in Seq(Byte), BehindNoise(buf \o lin, <<>>)
    PROVE  DecodeFrame(buf).verdict = "none"
<1>1. PICK T \in Seq(Byte) : T = buf \o lin /\ Glued(Byte, buf, lin, T)
  <2>1. PICK T : T = buf \o lin /\ Glued(Byte, buf, lin, T)
    BY ConcatGlues, Zenon
  <2>2. T \in Seq(Byte)
    BY <2>1, Zenon DEF Glued
  <2> QED
    BY <2>1, <2>2, Zenon
<1>2. PICK j \in 0 .. Len(T) : /\ SubSeq(T, j + 1, Len(T)) = <<>>
                               /\ \A h \in 1 .. j : T[h] # Start
  BY <1>1, Zenon DEF BehindNoise
<1>3. j = Len(T)
  <2>1. Len(SubSeq(T, j + 1, Len(T))) = Len(T) - j
    OBVIOUS
  <2>2. Len(T) - j = 0
    BY <1>2, <2>1
  <2> QED
    BY <2>2
<1>4. ASSUME NEW h \in 1 .. Len(buf)
      PROVE  buf[h] # Start
  <2>1. h \in 1 .. j
    BY <1>1, <1>3 DEF Glued
  <2> QED
    BY <1>1, <1>2, <2>1, Zenon DEF Glued
<1>5. Position(buf, 1, Start) = 0
  <2>1. \/ Position(buf, 1, Start) = 0
        \/ /\ Position(buf, 1, Start) \in 1 .. Len(buf)
           /\ buf[Position(buf, 1, Start)] = Start
    BY PositionForm, 1 \in Nat
  <2> QED
    BY <1>4, <2>1, Zenon
<1> QED
  BY <1>5, DecodeNone

(* ... and where nothing ends. *)
LEMMA NothingEnds ==
    ASSUME NEW buf \in Seq(Byte), NEW lin \in Seq(Byte), Headed(buf \o lin)
    PROVE  DecodeFrame(buf).verdict = "none"
<1>1. PICK T \in Seq(Byte) : T = buf \o lin /\ Glued(Byte, buf, lin, T)
  <2>1. PICK T : T = buf \o lin /\ Glued(Byte, buf, lin, T)
    BY ConcatGlues, Zenon
  <2>2. T \in Seq(Byte)
    BY <2>1, Zenon DEF Glued
  <2> QED
    BY <2>1, <2>2, Zenon
<1>2. PICK k : k = Position(buf, 1, Start)
  OBVIOUS
<1>3. k = 0 \/ k \in 1 .. Len(buf)
  BY <1>2, PositionForm, 1 \in Nat
<1>4. k \in Nat
  BY <1>3
<1>5. CASE k # 0
  <2>1. ASSUME NEW h \in k + 1 .. Len(buf)
        PROVE  buf[h] # End
    <3>1. h \in 2 .. Len(T) /\ h \in 1 .. Len(buf)
      BY <1>1, <1>3, <1>5 DEF Glued
    <3> QED
      BY <1>1, <3>1, Zenon DEF Glued, Headed
  <2>2. \/ Position(buf, k + 1, End) = 0
        \/ /\ Position(buf, k + 1, End) \in k + 1 .. Len(buf)
           /\ buf[Position(buf, k + 1, End)] = End
    BY <1>4, PositionForm, k + 1 \in Nat
  <2>3. Position(buf, k + 1, End) = 0
    BY <2>1, <2>2, Zenon
  <2> QED
    BY <1>2, <1>4, <2>3, DecodeNone, Zenon
<1>6. CASE k = 0
  BY <1>2, <1>6, DecodeNone
<1> QED
  BY <1>5, <1>6

(* f comes out of the buffer and leaves more, unless more has to be read.  *)
ComesOut(f, more, buf, lin) ==
    \/ DecodeFrame(buf).verdict = "none" /\ lin # <<>>
    \/ \E rest \in Seq(Byte) :
          /\ DecodeFrame(buf) = Leaving(Verdict("frame", <<f>>), rest)
          /\ rest \o lin = more

(* A frame behind noise is decoded, and leaves what is behind it.          *)
LEMMA DecodeBehind ==
    ASSUME NEW f, OnTheWire(f), NEW more \in Seq(Byte),
           NEW buf \in Seq(Byte), NEW lin \in Seq(Byte),
           BehindNoise(buf \o lin, Encode(f) \o more)
    PROVE  ComesOut(f, more, buf, lin)
<1>1. PICK m : /\ Marked(Encode(f), m)
               /\ ~ Unescape(m).open
               /\ Judge(Unescape(m).out) = Verdict("frame", <<f>>)
  BY EncodeForm
<1>2. PICK e \in Seq(Byte) : e = Encode(f)
  BY EncodeTyped
<1>3. PICK k \in Nat : k = Len(m)
  BY <1>1 DEF Marked
<1>4. /\ Len(e) = k + 2 /\ e[1] = Start /\ e[k + 2] = End /\ m \in Seq(Byte \ {Start, End})
      /\ \A h \in 1 .. k : e[h + 1] = m[h]
  BY <1>1, <1>2, <1>3, Zenon DEF Marked
<1>5. m \in Seq(Byte) /\ \A h \in 1 .. k : m[h] # End
  <2>1. m \in Seq(Byte)
    BY <1>4, SeqMonotonic
  <2> QED
    BY <1>3, <1>4, <2>1
<1>6. PICK R : R = e \o more /\ Glued(Byte, e, more, R)
  BY ConcatGlues, Zenon
<1>7. PICK T \in Seq(Byte) : T = buf \o lin
  <2>1. buf \o lin \in Seq(Byte)
    OBVIOUS
  <2> QED
    BY <2>1, Zenon
<1>8. PICK j \in 0 .. Len(T) : SubSeq(T, j + 1, Len(T)) = R /\ \A h \in 1 .. j : T[h] # Start
  BY <1>2, <1>6, <1>7, Zenon DEF BehindNoise
<1>9. PICK n \in Nat : n = Len(T)
  OBVIOUS
<1>10. Len(R) = n - j /\ j \in 0 .. n /\ \A h \in 1 .. n - j : T[j + h] = R[h]
  BY <1>8, <1>9
<1>11. PICK r \in Nat : r = Len(more) /\ n = j + (k + 2) + r
  <2>1. Len(R) = (k + 2) + Len(more)
    BY <1>4, <1>6 DEF Glued
  <2> QED
    BY <1>10, <2>1
<1>12. \A h \in 1 .. k + 2 : h \in 1 .. n - j /\ T[j + h] = e[h]
  <2>1. \A h \in 1 .. k + 2 : h \in 1 .. n - j
    BY <1>11
  <2> QED
    BY <1>4, <1>6, <1>10, <2>1, Zenon DEF Glued
<1>13. \A h \in 1 .. r : T[j + ((k + 2) + h)] = more[h]
  <2>1. \A h \in 1 .. r : (k + 2) + h \in 1 .. n - j
    BY <1>11
  <2> QED
    BY <1>4, <1>6, <1>10, <1>11, <2>1, ZenonT(40) DEF Glued
<1>14. PICK p \in 1 .. n, q \in 1 .. n : p = j + 1 /\ q = j + (k + 2) /\ q \in p + 1 .. n
  BY <1>10, <1>11
<1>15. /\ p \in Nat /\ q \in Nat /\ q = p + (k + 1) /\ n = q + r
       /\ (q - 1) - (p + 1) + 1 = k /\ n - (q + 1) + 1 = r
  BY <1>10, <1>11, <1>14
<1>16. T[p] = Start /\ T[q] = End
  <2>1. 1 \in 1 .. k + 2 /\ k + 2 \in 1 .. k + 2
    OBVIOUS
  <2> QED
    BY <1>4, <1>12, <1>14, <2>1, Zenon
<1>17. ASSUME NEW h \in 1 .. p - 1
       PROVE  T[h] # Start
  <2>1. h \in 1 .. j
    BY <1>10, <1>14
  <2> QED
    BY <1>8, <2>1, Zenon
<1>18. ASSUME NEW h \in 1 .. k
       PROVE  T[p + h] = m[h]
  <2>1. h + 1 \in 1 .. k + 2 /\ j + (h + 1) = p + h
    BY <1>10, <1>14
  <2> QED
    BY <1>4, <1>12, <2>1, Zenon
<1>19. ASSUME NEW h \in p + 1 .. q - 1
       PROVE  T[h] # End
  <2>1. h - p \in 1 .. k /\ p + (h - p) = h
    BY <1>10, <1>14
  <2>2. T[p + (h - p)] # End
    BY <1>5, <1>18, <2>1, Zenon
  <2> QED
    BY <2>1, <2>2, Zenon
<1>20. SubSeq(T, p + 1, q - 1) = m
  <2>1. PICK x : x = SubSeq(T, p + 1, q - 1)
    OBVIOUS
  <2>2. x \in Seq(Byte) /\ Len(x) = k /\ \A h \in 1 .. k : x[h] = T[p + h]
    <3>1. q - 1 \in Nat /\ p <= q - 1 /\ q - 1 <= n /\ (q - 1) - p = k
      BY <1>15
    <3>2. Slice(Byte, T, p, q - 1, x)
      BY <1>9, <1>15, <2>1, <3>1, SliceForm
    <3> QED
      BY <3>1, <3>2, Zenon DEF Slice
  <2>3. \A h \in 1 .. k : x[h] = m[h]
    BY <1>18, <2>2, Zenon
  <2>4. x = m
    BY <1>3, <1>5, <2>2, <2>3, SeqEqual
  <2> QED
    BY <2>1, <2>4, Zenon
<1>21. SubSeq(T, q + 1, n) = more
  <2>1. PICK x : x = SubSeq(T, q + 1, n)
    OBVIOUS
  <2>2. x \in Seq(Byte) /\ Len(x) = r /\ \A h \in 1 .. r : x[h] = T[q + h]
    <3>1. q <= n /\ n <= n /\ n - q = r
      BY <1>15
    <3>2. Slice(Byte, T, q, n, x)
      BY <1>9, <1>15, <2>1, <3>1, SliceForm
    <3> QED
      BY <3>1, <3>2, Zenon DEF Slice
  <2>3. \A h \in 1 .. r : q + h = j + ((k + 2) + h)
    BY <1>10, <1>14
  <2>4. \A h \in 1 .. r : x[h] = more[h]
    BY <1>13, <2>2, <2>3, Zenon
  <2>5. x = more
    BY <1>11, <2>2, <2>4, SeqEqual
  <2> QED
    BY <2>1, <2>5, Zenon
<1>22. \/ DecodeFrame(buf).verdict = "none" /\ lin # <<>>
       \/ Spans(buf, lin, SubSeq(T, p + 1, q - 1), SubSeq(T, q + 1, Len(T)))
  BY <1>7, <1>9, <1>14, <1>16, <1>17, <1>19, DecodeSpan, Zenon
<1> QED
  BY <1>1, <1>9, <1>20, <1>21, <1>22, Zenon DEF Spans, ComesOut

(* What a damaged frame gives is no frame, or one that f's checksum excuses. *)
Excusable(f, fs) ==
    \/ fs = <<>>
    \/ \E g \in FrameSet : fs = <<g>> /\ Checksum(Body(g)) \in SumBytes(f)

Closes(f, more, buf, lin) ==
    \/ DecodeFrame(buf).verdict = "none" /\ lin # <<>>
    \/ DecodeFrame(buf) = Leaving(Verdict("invalid", <<>>), buf)
    \/ \E v, fs : \E rest \in Seq(Byte) :
          /\ v # "none" /\ DecodeFrame(buf) = Leaving(Verdict(v, fs), rest)
          /\ Excusable(f, fs) /\ BehindNoise(rest \o lin, more)

(* Two markers always come to a verdict. *)
LEMMA JudgeSpeaks ==
    ASSUME NEW bytes
    PROVE  Judge(bytes).verdict # "none"
<1>1. \A fs : /\ Verdict("invalid", fs).verdict = "invalid"
              /\ Verdict("checksum", fs).verdict = "checksum"
              /\ Verdict("frame", fs).verdict = "frame"
  BY DEF Verdict
<1>2. \E fs : \/ Judge(bytes) = Verdict("invalid", fs)
              \/ Judge(bytes) = Verdict("checksum", fs)
              \/ Judge(bytes) = Verdict("frame", fs)
  BY Zenon DEF Judge
<1> QED
  BY <1>1, <1>2

(* So it goes with a damaged frame that has both its markers. *)
LEMMA DecodeClosed ==
    ASSUME NEW f, NEW d \in Seq(Byte), Closed(f, d), NEW more \in Seq(Byte),
           NEW buf \in Seq(Byte), NEW lin \in Seq(Byte), buf \o lin = d \o more
    PROVE  Closes(f, more, buf, lin)
<1>1. PICK q \in 2 .. Len(d) : ClosedAt(f, d, q)
  BY Zenon DEF Closed
<1>2. /\ d[1] = Start /\ d[q] = End /\ \A h \in 2 .. q - 1 : d[h] # End
      /\ \A h \in q + 1 .. Len(d) : d[h] # Start
      /\ Harmless(f, SubSeq(d, 2, q - 1))
  BY <1>1, Zenon DEF ClosedAt
<1>3. PICK n \in Nat, r \in Nat : n = Len(d) /\ r = Len(more)
  BY LenProperties
<1>4. PICK T : T = d \o more /\ Glued(Byte, d, more, T)
  BY ConcatGlues, Zenon
<1>5. /\ T \in Seq(Byte) /\ Len(T) = n + r /\ \A h \in 1 .. n : T[h] = d[h]
      /\ \A h \in 1 .. r : T[n + h] = more[h]
  BY <1>3, <1>4, Zenon DEF Glued
<1>6. q \in 2 .. n
  BY <1>3
<1>7. T[1] = Start /\ T[q] = End
  <2>1. 1 \in 1 .. n /\ q \in 1 .. n
    BY <1>6
  <2> QED
    BY <1>2, <1>5, <2>1, Zenon
<1>8. ASSUME NEW h \in 2 .. q - 1
      PROVE  T[h] # End
  <2>1. h \in 1 .. n
    BY <1>6
  <2> QED
    BY <1>2, <1>5, <2>1, Zenon
<1>9. SubSeq(T, 2, q - 1) = SubSeq(d, 2, q - 1)
  <2>1. PICK x : x = SubSeq(T, 1 + 1, q - 1)
    OBVIOUS
  <2>2. PICK y : y = SubSeq(d, 1 + 1, q - 1)
    OBVIOUS
  <2>3. 1 \in Nat /\ q - 1 \in Nat /\ 1 <= q - 1 /\ q - 1 <= n /\ q - 1 <= n + r /\ 1 + 1 = 2
    BY <1>6
  <2>4. Slice(Byte, T, 1, q - 1, x)
    BY <1>5, <2>1, <2>3, SliceForm
  <2>5. Slice(Byte, d, 1, q - 1, y)
    BY <1>3, <2>2, <2>3, SliceForm
  <2>6. x \in Seq(Byte) /\ y \in Seq(Byte) /\ Len(x) = (q - 1) - 1 /\ Len(x) = Len(y)
    BY <2>4, <2>5, Zenon DEF Slice
  <2>7. ASSUME NEW h \in 1 .. (q - 1) - 1
        PROVE  x[h] = y[h]
    <3>1. 1 + h \in 1 .. n
      BY <1>6
    <3> QED
      BY <1>5, <2>4, <2>5, <3>1, Zenon DEF Slice
  <2>8. x = y
    BY <2>6, <2>7, SeqEqual
  <2> QED
    BY <2>1, <2>2, <2>3, <2>8, Zenon
<1>10. BehindNoise(SubSeq(T, q + 1, n + r), more)
  <2>1. PICK x : x = SubSeq(T, q + 1, n + r)
    OBVIOUS
  <2>2. q \in Nat /\ n + r \in Nat /\ q <= n + r /\ (n + r) - q = (n - q) + r /\ n - q \in Nat
    BY <1>6
  <2>3. Slice(Byte, T, q, n + r, x)
    BY <1>5, <2>1, <2>2, SliceForm
  <2>4. /\ x \in Seq(Byte) /\ Len(x) = (n - q) + r
        /\ \A h \in 1 .. (n - q) + r : x[h] = T[q + h]
    BY <2>2, <2>3, Zenon DEF Slice
  <2>5. ASSUME NEW h \in 1 .. n - q
        PROVE  x[h] # Start
    <3>1. h \in 1 .. (n - q) + r /\ q + h \in q + 1 .. n /\ q + h \in 1 .. n
      BY <1>6
    <3> QED
      BY <1>2, <1>3, <1>5, <2>4, <3>1, ZenonT(40)
  <2>6. SubSeq(x, (n - q) + 1, Len(x)) = more
    <3>1. PICK y : y = SubSeq(x, (n - q) + 1, Len(x))
      OBVIOUS
    <3>2. /\ n - q <= Len(x) /\ Len(x) <= Len(x) /\ Len(x) \in Nat /\ Len(x) - (n - q) = r
      BY <2>2, <2>4
    <3>3. Slice(Byte, x, n - q, Len(x), y)
      BY <2>2, <2>4, <3>1, <3>2, SliceForm
    <3>4. y \in Seq(Byte) /\ Len(y) = r
      BY <3>2, <3>3, Zenon DEF Slice
    <3>5. ASSUME NEW h \in 1 .. r
          PROVE  y[h] = more[h]
      <4>1. (n - q) + h \in 1 .. (n - q) + r /\ q + ((n - q) + h) = n + h
        BY <1>6
      <4>2. y[h] = x[(n - q) + h]
        BY <3>2, <3>3, Zenon DEF Slice
      <4> QED
        BY <1>5, <2>4, <4>1, <4>2, Zenon
    <3>6. y = more
      BY <1>3, <3>4, <3>5, SeqEqual
    <3> QED
      BY <3>1, <3>6, Zenon
  <2>7. n - q \in 0 .. Len(x)
    BY <2>2, <2>4
  <2> QED
    BY <2>1, <2>5, <2>6, <2>7, Zenon DEF BehindNoise
<1>11. \/ DecodeFrame(buf).verdict = "none" /\ lin # <<>>
       \/ Spans(buf, lin, SubSeq(T, 2, q - 1), SubSeq(T, q + 1, Len(T)))
  <2>1. /\ 1 \in 1 .. Len(T) /\ q \in 1 + 1 .. Len(T) /\ 1 + 1 = 2
        /\ \A h \in 1 .. 1 - 1 : FALSE
    BY <1>5, <1>6
  <2>2. T = buf \o lin
    BY <1>4
  <2> QED
    BY <1>7, <1>8, <2>1, <2>2, DecodeSpan, Zenon
<1> DEFINE x == SubSeq(d, 2, q - 1)
<1>12. CASE Spans(buf, lin, x, SubSeq(T, q + 1, n + r)) /\ ~ Unescape(x).open
  <2>1. PICK rest \in Seq(Byte) :
           /\ DecodeFrame(buf) = Leaving(Judge(Unescape(x).out), rest)
           /\ rest \o lin = SubSeq(T, q + 1, n + r)
    BY <1>12, Zenon DEF Spans
  <2>2. PICK o \in Seq(Byte) : o = Unescape(x).out
    <3>1. x \in Seq(Byte)
      BY <1>6, <1>3
    <3> QED
      BY <3>1, UnescapeTyped DEF Halfway
  <2>3. Safe(f, o)
    BY <1>2, <1>12, <2>2, Zenon DEF Harmless
  <2>4. PICK v \in Verdicts : \E fs :
              /\ Judge(o) = Verdict(v, fs)
              /\ fs = <<>> \/ \E g \in FrameSet : fs = <<g>>
    BY JudgeTyped, Zenon
  <2>5. PICK fs : /\ Judge(o) = Verdict(v, fs)
                  /\ fs = <<>> \/ \E g \in FrameSet : fs = <<g>>
    BY <2>4, Zenon
  <2>6. Judge(o).frame = fs
    BY <2>5 DEF Verdict
  <2>7. v # "none"
    <3>1. Judge(o).verdict # "none"
      BY JudgeSpeaks, Zenon
    <3> QED
      BY <2>5, <3>1 DEF Verdict
  <2>8. Excusable(f, fs)
    BY <2>3, <2>5, <2>6, Zenon DEF Excusable, Safe
  <2>9. DecodeFrame(buf) = Leaving(Verdict(v, fs), rest)
    BY <2>1, <2>2, <2>5, Zenon
  <2> QED
    BY <1>10, <2>1, <2>8, <2>9, <2>7, Zenon DEF Closes
<1>13. CASE Spans(buf, lin, x, SubSeq(T, q + 1, n + r)) /\ Unescape(x).open
  BY <1>13, Zenon DEF Spans, Closes
<1> QED
  BY <1>5, <1>9, <1>11, <1>12, <1>13, Zenon DEF Closes

(* A start whose end is missing takes the frame behind it along, and reads *)
(* as nothing but what that frame's checksum excuses.                      *)
LEMMA HeadedCloses ==
    ASSUME NEW d \in Seq(Byte), Headed(d), NEW f, OnTheWire(f)
    PROVE  Closed(f, d \o Encode(f))
<1>1. PICK b, m : /\ Whole(f, b) /\ m = EscapedBody(b) /\ m \in Seq(Byte \ {Start, End})
                  /\ Enclosed(m, Encode(f))
  BY EncodeEncloses, Zenon
<1>2. m \in Seq(Byte) /\ b \in Seq(Byte)
  BY <1>1, SeqMonotonic DEF Whole
<1>3. PICK n \in Nat, k \in Nat : n = Len(d) /\ k = Len(m) /\ n # 0
  BY <1>2, LenProperties DEF Headed
<1>4. PICK e \in Seq(Byte) : e = Encode(f)
  BY EncodeTyped
<1>5. /\ Len(e) = k + 2 /\ e[1] = Start /\ e[k + 2] = End
      /\ \A h \in 1 .. k + 1 : e[h] # End
  BY <1>1, <1>3, <1>4, EnclosedPlaces, SMTT(40)
<1>6. \A h \in 1 .. k : e[h + 1] = m[h]
  BY <1>1, <1>3, <1>4, Zenon DEF Enclosed
<1>7. PICK D : D = d \o e /\ Glued(Byte, d, e, D)
  BY ConcatGlues, Zenon
<1>8. /\ D \in Seq(Byte) /\ Len(D) = n + (k + 2) /\ \A h \in 1 .. n : D[h] = d[h]
      /\ \A h \in 1 .. k + 2 : D[n + h] = e[h]
  BY <1>3, <1>5, <1>7, Zenon DEF Glued
<1>9. PICK q \in Nat : q = n + (k + 2)
  OBVIOUS
<1>10. D[1] = Start /\ D[q] = End /\ q \in 2 .. Len(D)
  <2>1. 1 \in 1 .. n /\ k + 2 \in 1 .. k + 2
    BY <1>3
  <2>2. q \in 2 .. Len(D)
    BY <1>8, <1>9
  <2> QED
    BY <1>5, <1>8, <1>9, <2>1, <2>2, Zenon DEF Headed
<1>11. ASSUME NEW h \in 2 .. q - 1
       PROVE  D[h] # End
  <2>1. CASE h <= n
    <3>1. h \in 1 .. n /\ h \in 2 .. n
      BY <2>1
    <3> QED
      BY <1>3, <1>8, <3>1, Zenon DEF Headed
  <2>2. CASE ~ h <= n
    <3>1. h - n \in 1 .. k + 1 /\ h - n \in 1 .. k + 2 /\ n + (h - n) = h
      BY <1>9, <2>2
    <3>2. D[n + (h - n)] # End
      BY <1>5, <1>8, <3>1, Zenon
    <3> QED
      BY <3>1, <3>2, Zenon
  <2> QED
    BY <2>1, <2>2
<1>12. \A h \in q + 1 .. Len(D) : D[h] # Start
  BY <1>8, <1>9
<1>13. PICK X \in Seq(Byte) : /\ ~ Unescape(X).open /\ Len(X) = n
                              /\ \A h \in 1 .. n : X[h] = D[h + 1]
  <2>1. PICK x : x = SubSeq(d, 1 + 1, n)
    OBVIOUS
  <2>2. 1 \in Nat /\ 1 <= n /\ n <= n
    BY <1>3
  <2>3. Slice(Byte, d, 1, n, x)
    BY <1>3, <2>1, <2>2, SliceForm
  <2>4. x \in Seq(Byte) /\ Len(x) = n - 1 /\ \A h \in 1 .. n - 1 : x[h] = d[1 + h]
    BY <2>3, Zenon DEF Slice
  <2>5. PICK X : X = Append(x, Start)
    OBVIOUS
  <2>6. X \in Seq(Byte) /\ Len(X) = n /\ X[n] = Start /\ \A h \in 1 .. n - 1 : X[h] = x[h]
    BY <2>2, <2>4, <2>5, EscapeIsByte
  <2>7. ~ Unescape(X).open
    <3>1. Unescape(X) = OneByteMore(Unescape(x), Start)
      BY <2>4, <2>5, EscapeIsByte, UnescapeAppend, Zenon
    <3>2. Start # Escape
      BY DEF Start, Escape
    <3> QED
      BY <3>1, <3>2 DEF OneByteMore
  <2>8. ASSUME NEW h \in 1 .. n
        PROVE  X[h] = D[h + 1]
    <3>1. CASE h = n
      <4>1. 1 \in 1 .. k + 2
        OBVIOUS
      <4> QED
        BY <1>5, <1>8, <2>6, <3>1, <4>1, Zenon
    <3>2. CASE h # n
      <4>1. h \in 1 .. n - 1 /\ h + 1 \in 1 .. n /\ 1 + h = h + 1
        BY <3>2
      <4> QED
        BY <1>8, <2>4, <2>6, <4>1, ZenonT(40)
    <3> QED
      BY <3>1, <3>2
  <2> QED
    BY <2>6, <2>7, <2>8, Zenon
<1>14. SubSeq(D, 2, q - 1) = X \o m
  <2>1. PICK x : x = SubSeq(D, 1 + 1, q - 1)
    OBVIOUS
  <2>2. /\ 1 \in Nat /\ q - 1 \in Nat /\ 1 <= q - 1 /\ q - 1 <= Len(D)
        /\ (q - 1) - 1 = n + k /\ 1 + 1 = 2
    BY <1>8, <1>9
  <2>3. Slice(Byte, D, 1, q - 1, x)
    BY <1>8, <2>1, <2>2, SliceForm
  <2>4. x \in Seq(Byte) /\ Len(x) = n + k /\ \A h \in 1 .. n + k : x[h] = D[1 + h]
    BY <2>2, <2>3, Zenon DEF Slice
  <2>5. PICK y : y = X \o m /\ Glued(Byte, X, m, y)
    BY <1>2, ConcatGlues, Zenon
  <2>6. y \in Seq(Byte) /\ Len(y) = n + k
    BY <1>3, <1>13, <2>5, Zenon DEF Glued
  <2>7. ASSUME NEW h \in 1 .. n + k
        PROVE  x[h] = y[h]
    <3>1. CASE h <= n
      <4>1. h \in 1 .. n /\ 1 + h = h + 1
        BY <3>1
      <4> QED
        BY <1>13, <2>4, <2>5, <4>1, Zenon DEF Glued
    <3>2. CASE ~ h <= n
      <4>1. /\ h - n \in 1 .. k /\ n + (h - n) = h /\ (h - n) + 1 \in 1 .. k + 2
            /\ n + ((h - n) + 1) = 1 + h
        BY <3>2
      <4>2. y[n + (h - n)] = m[h - n]
        BY <1>3, <1>13, <2>5, <4>1, Zenon DEF Glued
      <4>3. D[n + ((h - n) + 1)] = m[h - n]
        BY <1>6, <1>8, <4>1, Zenon
      <4> QED
        BY <2>4, <4>1, <4>2, <4>3, Zenon
    <3> QED
      BY <3>1, <3>2
  <2>8. x = y
    BY <2>4, <2>6, <2>7, SeqEqual
  <2> QED
    BY <2>1, <2>2, <2>5, <2>8, Zenon
<1>15. Harmless(f, X \o m)
  <2>1. PICK o \in Seq(Byte) : o = Unescape(X).out
    BY UnescapeTyped DEF Halfway
  <2>2. Unescape(X \o m) = [out |-> o \o b, open |-> FALSE]
    BY <1>1, <1>2, <1>13, <2>1, BodyReadsOn, Zenon DEF ReadsOnTo
  <2>3. b[Len(b)] \in SumBytes(f) /\ Len(b) = Len(Body(f)) + 1 /\ Body(f) \in Seq(Byte)
    BY <1>1, WholeForm, Zenon
  <2>4. Len(b) # 0
    BY <2>3
  <2>5. Safe(f, o \o b)
    BY <1>2, <2>3, <2>4, SafeEnd, Zenon
  <2>6. Unescape(X \o m).out = o \o b
    BY <2>2
  <2> QED
    BY <2>5, <2>6, Zenon DEF Harmless
<1>16. ClosedAt(f, D, q)
  BY <1>10, <1>11, <1>12, <1>14, <1>15, Zenon DEF ClosedAt
<1> QED
  BY <1>4, <1>7, <1>10, <1>16, Zenon DEF Closed

----------------------------------------------------------------------------
(* What is left of the bytes, with one frame damaged *)

(* What is not decoded yet, with d for the i-th frame, which is damaged. *)
Awaiting(k, i, d) ==
    [j \in 1 .. Len(sent) - k |-> IF k + j = i THEN d ELSE Encode(sent[k + j])]

LEMMA AwaitingTyped ==
    ASSUME sent \in Seq(Frames), NEW i \in 1 .. Len(sent), NEW k \in 0 .. i - 1,
           NEW d \in Seq(Byte)
    PROVE  /\ Awaiting(k, i, d) \in Seq(Seq(Byte)) /\ Len(Awaiting(k, i, d)) = Len(sent) - k
           /\ FlattenSeq(Awaiting(k, i, d)) \in Seq(Byte)
<1>1. PICK n \in Nat : n = Len(sent) - k
  <2>1. PICK m \in Nat : m = Len(sent)
    OBVIOUS
  <2>2. m - k \in Nat
    BY <2>1
  <2> QED
    BY <2>1, <2>2, Zenon
<1>2. ASSUME NEW j \in 1 .. n
      PROVE  (IF k + j = i THEN d ELSE Encode(sent[k + j])) \in Seq(Byte)
  <2>1. k + j \in 1 .. Len(sent)
    BY <1>1
  <2>2. sent[k + j] \in Frames
    BY <2>1
  <2>3. Encode(sent[k + j]) \in Seq(Byte)
    BY <2>2, FramesAssumption, EncodeTyped, Zenon
  <2> QED
    BY <2>3, Zenon
<1>3. PICK u : u = Awaiting(k, i, d)
  OBVIOUS
<1>4. u = [j \in 1 .. n |-> IF k + j = i THEN d ELSE Encode(sent[k + j])]
  BY <1>1, <1>3, Zenon DEF Awaiting
<1>5. u \in [1 .. n -> Seq(Byte)]
  BY <1>2, <1>4, Zenon
<1>6. u \in Seq(Seq(Byte)) /\ Len(u) = n
  BY <1>5, SeqDef
<1>7. FlattenSeq(u) \in Seq(Byte)
  BY <1>6, FlattenTyped, Zenon
<1> QED
  BY <1>1, <1>3, <1>6, <1>7, Zenon

(* In front of the damaged frame are the whole ones ... *)
LEMMA WholeInFront ==
    ASSUME sent \in Seq(Frames), NEW i \in 1 .. Len(sent), NEW k \in 0 .. i - 1, k # i - 1,
           NEW d \in Seq(Byte)
    PROVE  /\ k + 1 \in 0 .. i - 1 /\ OnTheWire(sent[k + 1])
           /\ FlattenSeq(Awaiting(k, i, d)) =
                 Encode(sent[k + 1]) \o FlattenSeq(Awaiting(k + 1, i, d))
<1>1. k + 1 \in 0 .. i - 1 /\ k + 1 \in 1 .. Len(sent) /\ k + 1 # i
  OBVIOUS
<1>2. OnTheWire(sent[k + 1])
  BY <1>1, FramesAssumption
<1>3. PICK n \in Nat : n = Len(sent) - (k + 1) /\ Len(sent) - k = n + 1
  <2>1. PICK m \in Nat : m = Len(sent)
    OBVIOUS
  <2>2. m - (k + 1) \in Nat /\ m - k = (m - (k + 1)) + 1
    BY <2>1
  <2> QED
    BY <2>1, <2>2, Zenon
<1>4. PICK ss \in Seq(Seq(Byte)) : ss = Awaiting(k, i, d) /\ Len(ss) = n + 1
  BY <1>3, AwaitingTyped
<1>5. PICK tt \in Seq(Seq(Byte)) : tt = Awaiting(k + 1, i, d) /\ Len(tt) = n
  BY <1>1, <1>3, AwaitingTyped
<1>6. ss = [j \in 1 .. n + 1 |-> IF k + j = i THEN d ELSE Encode(sent[k + j])]
  BY <1>3, <1>4, Zenon DEF Awaiting
<1>7. tt = [j \in 1 .. n |-> IF (k + 1) + j = i THEN d ELSE Encode(sent[(k + 1) + j])]
  BY <1>3, <1>5, Zenon DEF Awaiting
<1>8. ss[1] = Encode(sent[k + 1])
  <2>1. 1 \in 1 .. n + 1
    OBVIOUS
  <2> QED
    BY <1>1, <1>6, <2>1, Zenon
<1>9. ASSUME NEW j \in 1 .. n
      PROVE  ss[j + 1] = tt[j]
  <2>1. j + 1 \in 1 .. n + 1 /\ k + (j + 1) = (k + 1) + j
    OBVIOUS
  <2> QED
    BY <1>6, <1>7, <2>1, Zenon
<1>10. Len(ss) = Len(tt) + 1 /\ \A j \in 1 .. Len(tt) : ss[j + 1] = tt[j]
  BY <1>4, <1>5, <1>9, Zenon
<1>11. FlattenSeq(ss) = ss[1] \o FlattenSeq(tt)
  BY <1>10, FlattenFirst, Zenon
<1> QED
  BY <1>1, <1>2, <1>4, <1>5, <1>8, <1>11, Zenon

(* ... and behind it too. *)
LEMMA WholeBehind ==
    ASSUME sent \in Seq(Frames), NEW i \in 1 .. Len(sent), NEW d \in Seq(Byte)
    PROVE  FlattenSeq(Awaiting(i - 1, i, d)) = d \o FlattenSeq(Undecoded(i))
<1>1. i - 1 \in 0 .. i - 1 /\ i \in 0 .. Len(sent) /\ (i - 1) + 1 = i
  OBVIOUS
<1>2. PICK n \in Nat : n = Len(sent) - i /\ Len(sent) - (i - 1) = n + 1
  <2>1. PICK m \in Nat : m = Len(sent)
    OBVIOUS
  <2>2. m - i \in Nat /\ m - (i - 1) = (m - i) + 1
    BY <2>1
  <2> QED
    BY <2>1, <2>2, Zenon
<1>3. PICK ss \in Seq(Seq(Byte)) : ss = Awaiting(i - 1, i, d) /\ Len(ss) = n + 1
  BY <1>1, <1>2, AwaitingTyped, ZenonT(40)
<1>4. PICK tt \in Seq(Seq(Byte)) : tt = Undecoded(i) /\ Len(tt) = n
  BY <1>1, <1>2, UndecodedTyped
<1>5. ss = [j \in 1 .. n + 1 |-> IF (i - 1) + j = i THEN d ELSE Encode(sent[(i - 1) + j])]
  BY <1>2, <1>3, Zenon DEF Awaiting
<1>6. tt = [j \in 1 .. n |-> Encode(sent[i + j])]
  BY <1>2, <1>4, Zenon DEF Undecoded
<1>7. ss[1] = d
  <2>1. 1 \in 1 .. n + 1
    OBVIOUS
  <2> QED
    BY <1>1, <1>5, <2>1, Zenon
<1>8. ASSUME NEW j \in 1 .. n
      PROVE  ss[j + 1] = tt[j]
  <2>1. j + 1 \in 1 .. n + 1 /\ (i - 1) + (j + 1) = i + j /\ i + j # i
    OBVIOUS
  <2> QED
    BY <1>5, <1>6, <2>1, Zenon
<1>9. Len(ss) = Len(tt) + 1 /\ \A j \in 1 .. Len(tt) : ss[j + 1] = tt[j]
  BY <1>3, <1>4, <1>8, Zenon
<1>10. FlattenSeq(ss) = ss[1] \o FlattenSeq(tt)
  BY <1>9, FlattenFirst, Zenon
<1> QED
  BY <1>3, <1>4, <1>7, <1>10, Zenon

----------------------------------------------------------------------------
(* What has come out, with one frame damaged *)

(* out has come out in the place of the frames i .. last, and before and   *)
(* behind it, up to the k-th, the frames that were sent.                   *)
Excused(i, last, out) ==
    \A f \in ToSet(out) : \E j \in {i, last} \cap DOMAIN sent :
        Checksum(Body(f)) \in SumBytes(sent[j])

Told(i, last, k, out, g) ==
    /\ out \in Seq(FrameSet) /\ Len(out) <= 1
    /\ g = (SubSeq(sent, 1, i - 1) \o out) \o SubSeq(sent, last + 1, k)
    /\ Excused(i, last, out)

(* t is s with e behind its l elements. *)
Longer(S, s, e, l, t) ==
    t \in Seq(S) /\ Len(t) = l + 1 /\ t[l + 1] = e /\ \A h \in 1 .. l : t[h] = s[h]

LEMMA OneMore ==
    ASSUME NEW S, NEW s \in Seq(S), NEW e \in S
    PROVE  Longer(S, s, e, Len(s), Append(s, e))
BY AppendProperties DEF Longer

LEMMA AtMostOne ==
    ASSUME NEW S, NEW s \in Seq(S), s # <<>>, Len(s) <= 1
    PROVE  Len(s) = 1 /\ 1 \in 1 .. Len(s)
<1>1. Len(s) \in Nat \ {0}
  BY EmptySeq
<1>2. PICK n \in Nat : n = Len(s)
  BY <1>1
<1> QED
  BY <1>1, <1>2

(* What is told begins with the damaged frame ... *)
LEMMA ToldFirst ==
    ASSUME sent \in Seq(Frames), NEW i \in 1 .. Len(sent), NEW last \in {i, i + 1},
           last \in 1 .. Len(sent), NEW fs, Excusable(sent[last], fs)
    PROVE  Told(i, last, last, fs, SubSeq(sent, 1, i - 1) \o fs)
<1>1. DOMAIN sent = 1 .. Len(sent)
  OBVIOUS
<1>2. fs \in Seq(FrameSet) /\ Len(fs) <= 1
  <2>1. <<>> \in Seq(FrameSet) /\ Len(<<>>) <= 1
    BY EmptySeq
  <2>2. ASSUME NEW g \in FrameSet
        PROVE  <<g>> \in Seq(FrameSet) /\ Len(<<g>>) <= 1
    OBVIOUS
  <2> QED
    BY <2>1, <2>2, Zenon DEF Excusable
<1>3. Excused(i, last, fs)
  <2>1. last \in {i, last} \cap DOMAIN sent
    BY <1>1
  <2>2. CASE fs = <<>>
    <3>1. ToSet(fs) = {}
      BY <2>2 DEF ToSet
    <3> QED
      BY <3>1, Zenon DEF Excused
  <2>3. CASE \E g \in FrameSet : fs = <<g>> /\ Checksum(Body(g)) \in SumBytes(sent[last])
    <3>1. PICK g \in FrameSet : fs = <<g>> /\ Checksum(Body(g)) \in SumBytes(sent[last])
      BY <2>3
    <3>2. ToSet(fs) = {g}
      BY <3>1 DEF ToSet
    <3> QED
      BY <2>1, <3>1, <3>2, Zenon DEF Excused
  <2> QED
    BY <2>2, <2>3, Zenon DEF Excusable
<1>4. SubSeq(sent, last + 1, last) = <<>>
  BY <1>1
<1>5. PICK h \in Seq(Frames) : h = SubSeq(sent, 1, i - 1)
  <2>1. SubSeq(sent, 1, i - 1) \in Seq(Frames)
    OBVIOUS
  <2> QED
    BY <2>1, Zenon
<1>6. h \o fs = (h \o fs) \o <<>>
  <2>1. Frames \subseteq FrameSet
    BY FramesAssumption DEF OnTheWire
  <2>2. h \in Seq(FrameSet)
    BY <2>1, SeqMonotonic
  <2>3. PICK u \in Seq(FrameSet) : u = h \o fs
    BY <1>2, <2>2, ConcatProperties
  <2> QED
    BY <2>3, ConcatEmptySeq
<1> QED
  BY <1>2, <1>3, <1>4, <1>5, <1>6, Zenon DEF Told

(* ... goes on frame by frame ... *)
LEMMA ToldMore ==
    ASSUME sent \in Seq(Frames), NEW i \in 1 .. Len(sent), NEW last \in {i, i + 1},
           NEW k \in last .. Len(sent), k # Len(sent), NEW out, NEW g,
           Told(i, last, k, out, g)
    PROVE  Told(i, last, k + 1, out, g \o <<sent[k + 1]>>)
<1>1. SubSeq(sent, last + 1, k) \o <<sent[k + 1]>> = SubSeq(sent, last + 1, k + 1)
  <2>1. PICK n \in Nat : n = Len(sent)
    OBVIOUS
  <2>2. PICK x : x = SubSeq(sent, last + 1, k)
    OBVIOUS
  <2>3. PICK y : y = SubSeq(sent, last + 1, k + 1)
    OBVIOUS
  <2>4. /\ last \in Nat /\ k \in Nat /\ k + 1 \in Nat /\ last <= k /\ last <= k + 1 /\ k <= n
        /\ k + 1 <= n /\ (k + 1) - last = (k - last) + 1 /\ k - last \in Nat
        /\ k + 1 \in 1 .. n /\ last + ((k - last) + 1) = k + 1
    BY <2>1
  <2>5. Slice(Frames, sent, last, k, x)
    BY <2>1, <2>2, <2>4, SliceForm, Zenon
  <2>6. Slice(Frames, sent, last, k + 1, y)
    BY <2>1, <2>3, <2>4, SliceForm, Zenon
  <2>7. PICK e \in Frames : e = sent[k + 1]
    BY <2>1, <2>4, ElementOfSeq, Zenon
  <2>8. x \in Seq(Frames) /\ Len(x) = k - last
    BY <2>5, Zenon DEF Slice
  <2>9. PICK z : z = Append(x, e)
    OBVIOUS
  <2>10. /\ z \in Seq(Frames) /\ Len(z) = (k - last) + 1 /\ z[(k - last) + 1] = e
         /\ \A h \in 1 .. k - last : z[h] = x[h]
    <3>1. Longer(Frames, x, e, Len(x), z)
      BY <2>7, <2>8, <2>9, OneMore, Zenon
    <3> QED
      BY <2>8, <3>1, Zenon DEF Longer
  <2>11. y \in Seq(Frames) /\ Len(y) = (k - last) + 1
    BY <2>4, <2>6, Zenon DEF Slice
  <2>12. ASSUME NEW h \in 1 .. (k - last) + 1
         PROVE  z[h] = y[h]
    <3>1. y[h] = sent[last + h]
      BY <2>4, <2>6, Zenon DEF Slice
    <3>2. CASE h = (k - last) + 1
      BY <2>4, <2>7, <2>10, <3>1, <3>2, Zenon
    <3>3. CASE h # (k - last) + 1
      <4>1. h \in 1 .. k - last
        BY <2>4, <3>3
      <4> QED
        BY <2>5, <2>10, <3>1, <4>1, Zenon DEF Slice
    <3> QED
      BY <3>2, <3>3
  <2>13. z = y
    BY <2>10, <2>11, <2>12, SeqEqual
  <2>14. x \o <<e>> = Append(x, e)
    BY <2>8, AppendIsConcat
  <2> QED
    BY <2>2, <2>3, <2>7, <2>9, <2>13, <2>14, Zenon
<1>2. PICK u \in Seq(FrameSet), v \in Seq(FrameSet), w \in Seq(FrameSet) :
         /\ u = SubSeq(sent, 1, i - 1) \o out /\ v = SubSeq(sent, last + 1, k)
         /\ w = <<sent[k + 1]>>
  <2>1. Frames \subseteq FrameSet
    BY FramesAssumption DEF OnTheWire
  <2>2. sent \in Seq(FrameSet)
    BY <2>1, SeqMonotonic
  <2>3. SubSeq(sent, 1, i - 1) \in Seq(FrameSet) /\ SubSeq(sent, last + 1, k) \in Seq(FrameSet)
    BY <2>2
  <2>4. <<sent[k + 1]>> \in Seq(FrameSet)
    <3>1. k + 1 \in 1 .. Len(sent)
      OBVIOUS
    <3>2. sent[k + 1] \in FrameSet
      BY <2>2, <3>1, ElementOfSeq, Zenon
    <3> QED
      BY <3>2
  <2>5. out \in Seq(FrameSet)
    BY Zenon DEF Told
  <2>6. SubSeq(sent, 1, i - 1) \o out \in Seq(FrameSet)
    BY <2>3, <2>5, ConcatProperties
  <2> QED
    BY <2>3, <2>4, <2>6, Zenon
<1>3. g = u \o v
  BY <1>2, Zenon DEF Told
<1>4. Groups(u, v, w)
  BY GroupsAny, Zenon
<1>5. g \o w = u \o (v \o w)
  BY <1>3, <1>4, Zenon DEF Groups
<1>6. v \o w = SubSeq(sent, last + 1, k + 1)
  BY <1>1, <1>2, Zenon
<1> QED
  BY <1>2, <1>5, <1>6, Zenon DEF Told

(* What DamageStaysLocal says of a frame. *)
Done(i, g) ==
    \E last \in {i, i + 1}, out \in {<<>>} \cup {<<f>> : f \in ToSet(g)} :
        /\ g = SubSeq(sent, 1, i - 1) \o out \o SubSeq(sent, last + 1, Len(sent))
        /\ \A f \in ToSet(out) : \E j \in {i, last} \cap DOMAIN sent :
              Checksum(Body(f)) \in SumBytes(sent[j])

(* ... and is all that DamageStaysLocal says in the end. *)
LEMMA ToldAll ==
    ASSUME sent \in Seq(Frames), NEW i \in 1 .. Len(sent), NEW last \in {i, i + 1},
           NEW out, NEW g, Told(i, last, Len(sent), out, g)
    PROVE  Done(i, g)
<1>1. out \in Seq(FrameSet) /\ Len(out) <= 1
  BY Zenon DEF Told
<1>2. CASE out = <<>>
  BY <1>2, Zenon DEF Told, Done, Excused
<1>3. CASE out # <<>>
  <2>1. Len(out) = 1 /\ 1 \in 1 .. Len(out)
    BY <1>1, <1>3, AtMostOne, Zenon
  <2>2. PICK f \in FrameSet : f = out[1]
    BY <1>1, <2>1, ElementOfSeq, Zenon
  <2>3. out = <<f>>
    <3>1. PICK o : o = <<f>>
      OBVIOUS
    <3>2. o \in Seq(FrameSet) /\ Len(o) = 1 /\ o[1] = f
      BY <3>1
    <3>3. \A h \in 1 .. Len(o) : o[h] = out[h]
      BY <2>2, <3>2
    <3>4. o = out
      BY <1>1, <2>1, <3>2, <3>3, SeqEqual
    <3> QED
      BY <3>1, <3>4, Zenon
  <2>4. PICK u \in Seq(FrameSet), v \in Seq(FrameSet) :
           u = SubSeq(sent, 1, i - 1) /\ v = SubSeq(sent, last + 1, Len(sent))
    <3>1. Frames \subseteq FrameSet
      BY FramesAssumption DEF OnTheWire
    <3>2. sent \in Seq(FrameSet)
      BY <3>1, SeqMonotonic
    <3>3. SubSeq(sent, 1, i - 1) \in Seq(FrameSet)
      BY <3>2
    <3>4. SubSeq(sent, last + 1, Len(sent)) \in Seq(FrameSet)
      BY <3>2
    <3> QED
      BY <3>3, <3>4, Zenon
  <2>5. g = (u \o out) \o v
    BY <2>4, Zenon DEF Told
  <2>6. InARow(FrameSet, u, out, v, g)
    BY <1>1, <2>5, ThreeInARow, Zenon
  <2>7. /\ g \in Seq(FrameSet) /\ Len(g) = Len(u) + Len(out) + Len(v)
        /\ g[Len(u) + 1] = out[1]
    BY <2>1, <2>6, Zenon DEF InARow
  <2>8. Len(u) + 1 \in DOMAIN g
    BY <2>1, <2>7
  <2>9. f \in ToSet(g)
    BY <2>2, <2>7, <2>8, Zenon DEF ToSet
  <2>10. out \in {<<>>} \cup {<<e>> : e \in ToSet(g)}
    BY <2>3, <2>9, Zenon
  <2> QED
    BY <2>10, Zenon DEF Told, Done, Excused
<1> QED
  BY <1>2, <1>3

----------------------------------------------------------------------------
(* What decode_frame comes to with the damage in front of it *)

(* The i-th frame, damaged, is not decoded yet: all is what is left. *)
NotYet(i, g, all) ==
    \E k \in 0 .. i - 1 : \E d \in Damaged(Encode(sent[i])) :
        g = SubSeq(sent, 1, k) /\ all = FlattenSeq(Awaiting(k, i, d))

(* It is, and what is left are the frames behind the k-th, behind noise. *)
Passed(i, g, all) ==
    \E k \in i .. Len(sent) : \E last \in {i, i + 1} : \E out \in Seq(FrameSet) :
        /\ last <= k /\ Told(i, last, k, out, g)
        /\ BehindNoise(all, FlattenSeq(Undecoded(k)))

Follows(i, g, all) == NotYet(i, g, all) \/ Passed(i, g, all)

(* What decode_frame may come to, with g decoded and lin under way. *)
Outcome(i, g, buf, lin) ==
    \/ DecodeFrame(buf) = Leaving(Verdict("invalid", <<>>), buf)
    \/ DecodeFrame(buf).verdict = "none" /\ (lin # <<>> \/ Done(i, g))
    \/ \E v, fs : \E rest \in Seq(Byte) :
          /\ v # "none" /\ DecodeFrame(buf) = Leaving(Verdict(v, fs), rest)
          /\ Follows(i, g \o fs, rest \o lin)

LEMMA NoNoise ==
    ASSUME NEW all \in Seq(Byte)
    PROVE  BehindNoise(all, all)
<1>1. 0 \in 0 .. Len(all) /\ SubSeq(all, 0 + 1, Len(all)) = all /\ \A h \in 1 .. 0 : FALSE
  OBVIOUS
<1> QED
  BY <1>1, Zenon DEF BehindNoise

LEMMA DamageTyped ==
    ASSUME sent \in Seq(Frames), NEW i \in 1 .. Len(sent),
           NEW d \in Damaged(Encode(sent[i]))
    PROVE  OnTheWire(sent[i]) /\ d \in Seq(Byte) /\ Fate(sent[i], d)
<1>1. sent[i] \in Frames
  OBVIOUS
<1>2. OnTheWire(sent[i])
  BY <1>1, FramesAssumption, Zenon
<1>3. Encode(sent[i]) \in Seq(Byte)
  BY <1>2, EncodeTyped, Zenon
<1> QED
  BY <1>2, <1>3, DamagedTyped, DamagedFate, Zenon

(* A frame behind the damaged one comes out, or more has to be read. *)
LEMMA FrontBehind ==
    ASSUME sent \in Seq(Frames), NEW i \in 1 .. Len(sent), NEW g,
           NEW buf \in Seq(Byte), NEW lin \in Seq(Byte), Passed(i, g, buf \o lin)
    PROVE  Outcome(i, g, buf, lin)
<1>1. PICK k \in i .. Len(sent), last \in {i, i + 1}, out \in Seq(FrameSet) :
         /\ last <= k /\ Told(i, last, k, out, g)
         /\ BehindNoise(buf \o lin, FlattenSeq(Undecoded(k)))
  BY Zenon DEF Passed
<1>2. k \in 0 .. Len(sent) /\ k \in last .. Len(sent)
  BY <1>1
<1>3. CASE k = Len(sent)
  <2>1. BehindNoise(buf \o lin, <<>>)
    BY <1>1, <1>3, NoneLeft, Zenon
  <2>2. DecodeFrame(buf).verdict = "none"
    BY <2>1, NothingStarts, Zenon
  <2>3. Done(i, g)
    BY <1>1, <1>3, ToldAll, Zenon
  <2> QED
    BY <2>2, <2>3, Zenon DEF Outcome
<1>4. CASE k # Len(sent)
  <2>1. /\ k + 1 \in 0 .. Len(sent) /\ OnTheWire(sent[k + 1])
        /\ FlattenSeq(Undecoded(k)) = Encode(sent[k + 1]) \o FlattenSeq(Undecoded(k + 1))
    BY <1>2, <1>4, NextFrame, Zenon
  <2>2. PICK more \in Seq(Byte) : more = FlattenSeq(Undecoded(k + 1))
    BY <2>1, UndecodedTyped, Zenon
  <2>3. ComesOut(sent[k + 1], more, buf, lin)
    BY <1>1, <2>1, <2>2, DecodeBehind, Zenon
  <2>4. ASSUME NEW rest \in Seq(Byte), rest \o lin = more,
               DecodeFrame(buf) = Leaving(Verdict("frame", <<sent[k + 1]>>), rest)
        PROVE  Outcome(i, g, buf, lin)
    <3>1. Told(i, last, k + 1, out, g \o <<sent[k + 1]>>)
      BY <1>1, <1>2, <1>4, ToldMore, Zenon
    <3>2. k + 1 \in i .. Len(sent) /\ last <= k + 1
      BY <1>1, <1>4, <2>1
    <3>3. BehindNoise(rest \o lin, FlattenSeq(Undecoded(k + 1)))
      BY <2>2, <2>4, NoNoise, Zenon
    <3>4. Passed(i, g \o <<sent[k + 1]>>, rest \o lin)
      BY <3>1, <3>2, <3>3, Zenon DEF Passed
    <3> QED
      BY <2>4, <3>4, Zenon DEF Outcome, Follows
  <2> QED
    BY <2>3, <2>4, Zenon DEF Outcome, ComesOut
<1> QED
  BY <1>3, <1>4

(* A frame in front of the damaged one comes out, or more has to be read. *)
LEMMA FrontBefore ==
    ASSUME sent \in Seq(Frames), NEW i \in 1 .. Len(sent), NEW k \in 0 .. i - 1,
           k # i - 1, NEW d \in Damaged(Encode(sent[i])),
           NEW g, g = SubSeq(sent, 1, k), NEW buf \in Seq(Byte), NEW lin \in Seq(Byte),
           buf \o lin = FlattenSeq(Awaiting(k, i, d))
    PROVE  Outcome(i, g, buf, lin)
<1>1. d \in Seq(Byte)
  BY DamageTyped, Zenon
<1>2. /\ k + 1 \in 0 .. i - 1 /\ OnTheWire(sent[k + 1])
      /\ FlattenSeq(Awaiting(k, i, d)) =
            Encode(sent[k + 1]) \o FlattenSeq(Awaiting(k + 1, i, d))
  BY <1>1, WholeInFront, Zenon
<1>3. PICK more \in Seq(Byte) : more = FlattenSeq(Awaiting(k + 1, i, d))
  BY <1>1, <1>2, AwaitingTyped, Zenon
<1>4. BehindNoise(buf \o lin, Encode(sent[k + 1]) \o more)
  <2>1. buf \o lin \in Seq(Byte)
    BY ConcatProperties
  <2> QED
    BY <1>2, <1>3, <2>1, NoNoise, Zenon
<1>5. ComesOut(sent[k + 1], more, buf, lin)
  BY <1>2, <1>3, <1>4, DecodeBehind, Zenon
<1>6. ASSUME NEW rest \in Seq(Byte), rest \o lin = more,
             DecodeFrame(buf) = Leaving(Verdict("frame", <<sent[k + 1]>>), rest)
      PROVE  Outcome(i, g, buf, lin)
  <2>1. g \o <<sent[k + 1]>> = SubSeq(sent, 1, k + 1)
    <3>1. k \in 0 .. Len(sent) /\ k + 1 \in 1 .. Len(sent)
      OBVIOUS
    <3>2. SubSeq(sent, 1, k) \o <<sent[k + 1]>> = SubSeq(sent, 1, k + 1)
      BY <3>1
    <3> QED
      BY <3>2, Zenon
  <2>2. NotYet(i, g \o <<sent[k + 1]>>, rest \o lin)
    BY <1>2, <1>3, <1>6, <2>1, Zenon DEF NotYet
  <2> QED
    BY <1>6, <2>2, Zenon DEF Outcome, Follows
<1> QED
  BY <1>5, <1>6, Zenon DEF Outcome, ComesOut

(* A damaged frame that reads to its end is what came out of frame last. *)
LEMMA FrontClosed ==
    ASSUME sent \in Seq(Frames), NEW i \in 1 .. Len(sent), NEW last \in {i, i + 1},
           last \in 1 .. Len(sent), NEW d \in Seq(Byte), Closed(sent[last], d),
           NEW g, g = SubSeq(sent, 1, i - 1), NEW buf \in Seq(Byte), NEW lin \in Seq(Byte),
           buf \o lin = d \o FlattenSeq(Undecoded(last))
    PROVE  Outcome(i, g, buf, lin)
<1>1. last \in 0 .. Len(sent) /\ last \in i .. Len(sent) /\ last <= last
  OBVIOUS
<1>2. PICK more \in Seq(Byte) : more = FlattenSeq(Undecoded(last))
  BY <1>1, UndecodedTyped, Zenon
<1>3. PICK f : f = sent[last]
  OBVIOUS
<1>4. Closes(f, more, buf, lin)
  BY <1>2, <1>3, DecodeClosed, Zenon
<1>5. ASSUME NEW v, NEW fs, NEW rest \in Seq(Byte), v # "none",
             DecodeFrame(buf) = Leaving(Verdict(v, fs), rest),
             Excusable(f, fs), BehindNoise(rest \o lin, more)
      PROVE  Outcome(i, g, buf, lin)
  <2>1. Told(i, last, last, fs, g \o fs)
    BY <1>3, <1>5, ToldFirst, Zenon
  <2>2. fs \in Seq(FrameSet)
    BY <2>1, Zenon DEF Told
  <2>3. Passed(i, g \o fs, rest \o lin)
    BY <1>1, <1>2, <1>5, <2>1, <2>2, Zenon DEF Passed
  <2> QED
    BY <1>5, <2>3, Zenon DEF Outcome, Follows
<1> QED
  BY <1>4, <1>5, Zenon DEF Outcome, Closes

(* The damaged frame is noise, or takes the next one along, or is closed. *)
LEMMA FrontDamaged ==
    ASSUME sent \in Seq(Frames), NEW i \in 1 .. Len(sent),
           NEW d \in Damaged(Encode(sent[i])), NEW g, g = SubSeq(sent, 1, i - 1),
           NEW buf \in Seq(Byte), NEW lin \in Seq(Byte),
           buf \o lin = FlattenSeq(Awaiting(i - 1, i, d))
    PROVE  Outcome(i, g, buf, lin)
<1>1. d \in Seq(Byte) /\ OnTheWire(sent[i]) /\ (NoStart(d) \/ Headed(d) \/ Closed(sent[i], d))
  BY DamageTyped, Zenon DEF Fate
<1>2. buf \o lin = d \o FlattenSeq(Undecoded(i))
  BY <1>1, WholeBehind, Zenon
<1>3. i \in 0 .. Len(sent) /\ i \in i .. Len(sent) /\ i <= i /\ i \in {i, i + 1}
  OBVIOUS
<1>4. PICK more \in Seq(Byte) : more = FlattenSeq(Undecoded(i))
  BY <1>3, UndecodedTyped, Zenon
<1>5. Told(i, i, i, <<>>, g)
  <2>1. Told(i, i, i, <<>>, g \o <<>>)
    BY <1>3, ToldFirst, Zenon DEF Excusable
  <2>2. g \o <<>> = g
    <3>1. g \in Seq(Frames)
      OBVIOUS
    <3> QED
      BY <3>1, ConcatEmptySeq
  <2> QED
    BY <2>1, <2>2, Zenon
<1>6. <<>> \in Seq(FrameSet)
  BY EmptySeq
<1>7. CASE NoStart(d)
  <2>1. BehindNoise(buf \o lin, FlattenSeq(Undecoded(i)))
    BY <1>1, <1>2, <1>4, <1>7, NoiseInFront, Zenon
  <2>2. Passed(i, g, buf \o lin)
    BY <1>3, <1>5, <1>6, <2>1, Zenon DEF Passed
  <2> QED
    BY <2>2, FrontBehind, Zenon
<1>8. CASE Closed(sent[i], d)
  BY <1>1, <1>2, <1>3, <1>8, FrontClosed, Zenon
<1>9. CASE Headed(d) /\ i = Len(sent)
  <2>1. buf \o lin = d
    <3>1. buf \o lin = d \o <<>>
      BY <1>2, <1>9, NoneLeft, Zenon
    <3>2. d \o <<>> = d
      BY <1>1, ConcatEmptySeq
    <3> QED
      BY <3>1, <3>2, Zenon
  <2>2. DecodeFrame(buf).verdict = "none"
    BY <1>9, <2>1, NothingEnds, Zenon
  <2>3. Done(i, g)
    BY <1>3, <1>5, <1>9, ToldAll, Zenon
  <2> QED
    BY <2>2, <2>3, Zenon DEF Outcome
<1>10. CASE Headed(d) /\ i # Len(sent)
  <2>1. /\ i + 1 \in 0 .. Len(sent) /\ OnTheWire(sent[i + 1])
        /\ FlattenSeq(Undecoded(i)) = Encode(sent[i + 1]) \o FlattenSeq(Undecoded(i + 1))
    BY <1>3, <1>10, NextFrame, Zenon
  <2>2. PICK e \in Seq(Byte) : e = Encode(sent[i + 1])
    BY <2>1, EncodeTyped, Zenon
  <2>3. PICK m \in Seq(Byte) : m = FlattenSeq(Undecoded(i + 1))
    BY <2>1, UndecodedTyped, Zenon
  <2>4. Groups(d, e, m)
    BY <1>1, GroupsAny, Zenon
  <2>5. buf \o lin = (d \o e) \o m
    BY <1>2, <2>1, <2>2, <2>3, <2>4, Zenon DEF Groups
  <2>6. PICK D \in Seq(Byte) : D = d \o e
    <3>1. d \o e \in Seq(Byte)
      BY <1>1, ConcatProperties
    <3> QED
      BY <3>1, Zenon
  <2>7. Closed(sent[i + 1], D)
    BY <1>1, <1>10, <2>1, <2>2, <2>6, HeadedCloses, Zenon
  <2>8. i + 1 \in 1 .. Len(sent) /\ i + 1 \in {i, i + 1}
    BY <1>10
  <2>9. buf \o lin = D \o FlattenSeq(Undecoded(i + 1))
    BY <2>3, <2>5, <2>6, Zenon
  <2> QED
    BY <2>7, <2>8, <2>9, FrontClosed, Zenon
<1> QED
  BY <1>1, <1>7, <1>8, <1>9, <1>10, Zenon

(* All of it: what decode_frame comes to while the damage is near. *)
LEMMA FrontOfBuffer ==
    ASSUME sent \in Seq(Frames), NEW i \in 1 .. Len(sent), NEW g,
           NEW buf \in Seq(Byte), NEW lin \in Seq(Byte), Follows(i, g, buf \o lin)
    PROVE  Outcome(i, g, buf, lin)
<1>1. ASSUME NotYet(i, g, buf \o lin)
      PROVE  Outcome(i, g, buf, lin)
  <2>1. PICK k \in 0 .. i - 1 : \E d \in Damaged(Encode(sent[i])) :
           g = SubSeq(sent, 1, k) /\ buf \o lin = FlattenSeq(Awaiting(k, i, d))
    BY <1>1, Zenon DEF NotYet
  <2>2. PICK d \in Damaged(Encode(sent[i])) :
           g = SubSeq(sent, 1, k) /\ buf \o lin = FlattenSeq(Awaiting(k, i, d))
    BY <2>1
  <2>3. CASE k = i - 1
    BY <2>2, <2>3, FrontDamaged, Zenon
  <2>4. CASE k # i - 1
    BY <2>2, <2>4, FrontBefore, Zenon
  <2> QED
    BY <2>3, <2>4
<1> QED
  BY <1>1, FrontBehind, Zenon DEF Follows

----------------------------------------------------------------------------
(* Damage stays local *)

(* Until a bare escape stops the reader, the frames in front of a damaged  *)
(* one have come out, or also it, or the one behind it too, as at most one *)
(* frame that their checksums excuse; what is left is all there, in order. *)
Local == \A i \in damaged : Stuck \/ Follows(i, got, buffer \o line)

(* Local holds from the start and in every step. *)
LEMMA LocalAtFirst ==
    ASSUME Init
    PROVE  Local
<1> DEFINE bytes == [i \in DOMAIN sent |-> Encode(sent[i])]
<1>1. TypeOK
  BY InitHolds DEF IInv
<1>2. sent \in Seq(Frames) /\ line \in Seq(Byte)
  BY <1>1 DEF TypeOK
<1>3. PICK n \in Nat : n = Len(sent)
  BY <1>2
<1>4. DOMAIN sent = 1 .. n
  BY <1>2, <1>3
<1>5. buffer = <<>> /\ got = <<>>
  BY DEF Init
<1>6. buffer \o line = line /\ got = SubSeq(sent, 1, 0)
  BY <1>2, <1>5, ConcatEmptySeq
<1>7. ASSUME NEW i \in 1 .. n, NEW d \in Damaged(bytes[i]),
             line = FlattenSeq([bytes EXCEPT ![i] = d])
      PROVE  Follows(i, got, buffer \o line)
  <2>1. bytes = [j \in 1 .. n |-> Encode(sent[j])]
    BY <1>4, Zenon
  <2>2. bytes[i] = Encode(sent[i])
    BY <2>1, Zenon
  <2>3. [bytes EXCEPT ![i] = d] = Awaiting(0, i, d)
    <3>1. n - 0 = n /\ \A j \in 1 .. n : 0 + j = j
      OBVIOUS
    <3>2. PICK u : u = [bytes EXCEPT ![i] = d]
      OBVIOUS
    <3>3. PICK v : v = Awaiting(0, i, d)
      OBVIOUS
    <3>4. v = [j \in 1 .. n |-> IF 0 + j = i THEN d ELSE Encode(sent[0 + j])]
      BY <1>3, <3>1, <3>3, Zenon DEF Awaiting
    <3>5. u = [j \in 1 .. n |-> IF j = i THEN d ELSE Encode(sent[j])]
      BY <2>1, <3>2, Zenon
    <3>6. ASSUME NEW j \in 1 .. n
          PROVE  u[j] = v[j]
      BY <3>1, <3>4, <3>5, Zenon
    <3>7. u = v
      BY <3>4, <3>5, <3>6, Zenon
    <3> QED
      BY <3>2, <3>3, <3>7, Zenon
  <2>4. 0 \in 0 .. i - 1
    OBVIOUS
  <2> HIDE DEF bytes
  <2>5. NotYet(i, got, line)
    BY <1>6, <1>7, <2>2, <2>3, <2>4, Zenon DEF NotYet
  <2> QED
    BY <1>6, <2>5, Zenon DEF Follows
<1>8. \/ damaged = {}
      \/ \E i \in 1 .. n : \E d \in Damaged(bytes[i]) :
            damaged = {i} /\ line = FlattenSeq([bytes EXCEPT ![i] = d])
  BY <1>4, Zenon DEF Init
<1> HIDE DEF bytes
<1>9. CASE damaged = {}
  BY <1>9, Zenon DEF Local
<1>10. CASE \E i \in 1 .. n : \E d \in Damaged(bytes[i]) :
               damaged = {i} /\ line = FlattenSeq([bytes EXCEPT ![i] = d])
  <2>1. PICK i \in 1 .. n : \E d \in Damaged(bytes[i]) :
               damaged = {i} /\ line = FlattenSeq([bytes EXCEPT ![i] = d])
    BY <1>10
  <2>2. damaged = {i} /\ Follows(i, got, buffer \o line)
    BY <1>7, <2>1, Zenon
  <2> QED
    BY <2>2, Zenon DEF Local
<1> QED
  BY <1>8, <1>9, <1>10, Zenon

(* The frames that were sent are the same, and so is what follows them. *)
LEMMA FollowsStays ==
    ASSUME sent' = sent, NEW i, Follows(i, got', buffer' \o line')
    PROVE  Follows(i, got, buffer \o line)'
<1>1. \A k : Undecoded(k)' = Undecoded(k)
  BY Zenon DEF Undecoded
<1>2. \A k, d : Awaiting(k, i, d)' = Awaiting(k, i, d)
  BY Zenon DEF Awaiting
<1>3. ASSUME NotYet(i, got', buffer' \o line')
      PROVE  NotYet(i, got, buffer \o line)'
  BY <1>2, <1>3, Zenon DEF NotYet
<1>4. ASSUME Passed(i, got', buffer' \o line')
      PROVE  Passed(i, got, buffer \o line)'
  BY <1>1, <1>4, Zenon DEF Passed, Told, Excused
<1> QED
  BY <1>3, <1>4, Zenon DEF Follows

LEMMA LocalRead ==
    ASSUME IInv, Local, Read
    PROVE  Local'
<1>1. sent' = sent /\ damaged' = damaged /\ got' = got
  BY DEF Read
<1>2. buffer' \o line' = buffer \o line
  BY ReadKeepsBytes
<1>3. ~ Stuck
  BY Zenon DEF Stuck, Read
<1>4. ASSUME NEW i \in damaged
      PROVE  Follows(i, got, buffer \o line)'
  <2>1. Follows(i, got, buffer \o line)
    BY <1>3, Zenon DEF Local
  <2>2. Follows(i, got', buffer' \o line')
    BY <1>1, <1>2, <2>1, Zenon
  <2> QED
    BY <1>1, <2>2, FollowsStays, Zenon
<1> QED
  BY <1>1, <1>4, Zenon DEF Local

LEMMA LocalDecode ==
    ASSUME IInv, Local, Decode
    PROVE  Local'
<1>1. /\ DecodeFrame(buffer).verdict # "none"
      /\ buffer' = DecodeFrame(buffer).rest /\ got' = got \o DecodeFrame(buffer).frame
      /\ sent' = sent /\ damaged' = damaged /\ line' = line
  BY Zenon DEF Decode
<1>2. /\ sent \in Seq(Frames) /\ line \in Seq(Byte) /\ buffer \in Seq(Byte)
      /\ damaged \subseteq 1 .. Len(sent)
  BY DEF IInv, TypeOK
<1>3. ASSUME NEW i \in damaged
      PROVE  Stuck' \/ Follows(i, got, buffer \o line)'
  <2>1. CASE DecodeFrame(buffer) = Leaving(Verdict("invalid", <<>>), buffer)
    <3>1. DecodeFrame(buffer).rest = buffer /\ DecodeFrame(buffer).verdict = "invalid"
      BY <2>1 DEF Leaving, Verdict
    <3>2. buffer' = buffer
      BY <1>1, <3>1, Zenon
    <3> QED
      BY <3>1, <3>2, Zenon DEF Stuck
  <2>2. CASE Stuck
    <3>1. buffer' = buffer
      BY <1>1, <2>2, Zenon DEF Stuck
    <3> QED
      BY <2>2, <3>1, Zenon DEF Stuck
  <2>3. CASE Follows(i, got, buffer \o line)
    <3>1. Outcome(i, got, buffer, line)
      BY <1>2, <2>3, FrontOfBuffer, Zenon
    <3>2. ASSUME NEW v, NEW fs, NEW rest \in Seq(Byte),
                 DecodeFrame(buffer) = Leaving(Verdict(v, fs), rest),
                 Follows(i, got \o fs, rest \o line)
          PROVE  Follows(i, got, buffer \o line)'
      <4>1. DecodeFrame(buffer).frame = fs /\ DecodeFrame(buffer).rest = rest
        BY <3>2 DEF Leaving, Verdict
      <4>2. got' = got \o fs /\ buffer' = rest /\ line' = line
        BY <1>1, <4>1, Zenon
      <4>3. Follows(i, got', buffer' \o line')
        BY <3>2, <4>2, Zenon
      <4> QED
        BY <1>1, <4>3, FollowsStays, Zenon
    <3> QED
      BY <1>1, <2>1, <3>1, <3>2, Zenon DEF Outcome
  <2> QED
    BY <2>2, <2>3, Zenon DEF Local
<1> QED
  BY <1>1, <1>3, Zenon DEF Local

(* Whatever the frames, and whatever one damaged byte, a lost one or a cut *)
(* makes of one of them, and however the bytes are split over the reads:   *)
(* the reader that has read them all has got all the others in order, but  *)
(* for the one behind it at most, and at most one frame in their place,    *)
(* which has come through with a checksum of theirs.                       *)
THEOREM DamageIsLocal == Spec => []DamageStaysLocal
<1>1. Init => Local
  BY LocalAtFirst
<1>2. IInv /\ Local /\ [Next]_vars => Local'
  <2>1. CASE UNCHANGED vars
    <3>1. /\ sent' = sent /\ damaged' = damaged /\ line' = line /\ buffer' = buffer
          /\ got' = got
      BY <2>1 DEF vars
    <3>2. \A i : Follows(i, got', buffer' \o line') => Follows(i, got, buffer \o line)'
      BY <3>1, FollowsStays, Zenon
    <3>3. ASSUME Local, NEW i \in damaged
          PROVE  Stuck' \/ Follows(i, got, buffer \o line)'
      <4>1. CASE Stuck
        BY <3>1, <4>1, Zenon DEF Stuck
      <4>2. CASE Follows(i, got, buffer \o line)
        BY <3>1, <3>2, <4>2, Zenon
      <4> QED
        BY <3>3, <4>1, <4>2, Zenon DEF Local
    <3> QED
      BY <3>1, <3>3, Zenon DEF Local
  <2> QED
    BY <2>1, LocalRead, LocalDecode DEF Next
<1>3. IInv /\ Local => DamageStaysLocal
  <2>1. SUFFICES ASSUME IInv, Local, NEW i \in damaged, Quiet
                 PROVE  Done(i, got)
    BY Zenon DEF DamageStaysLocal, Done
  <2>2. /\ sent \in Seq(Frames) /\ line \in Seq(Byte) /\ buffer \in Seq(Byte)
        /\ i \in 1 .. Len(sent)
    BY <2>1 DEF IInv, TypeOK
  <2>3. line = <<>> /\ DecodeFrame(buffer).verdict = "none"
    BY <2>1, Zenon DEF Quiet
  <2>4. Follows(i, got, buffer \o line)
    BY <2>1, <2>3, Zenon DEF Local, Stuck
  <2>5. Outcome(i, got, buffer, line)
    BY <2>2, <2>4, FrontOfBuffer, Zenon
  <2>6. ASSUME NEW v, NEW fs, NEW rest, v # "none"
        PROVE  DecodeFrame(buffer) # Leaving(Verdict(v, fs), rest)
    <3>1. Leaving(Verdict(v, fs), rest).verdict = v
      BY DEF Leaving, Verdict
    <3> QED
      BY <2>3, <2>6, <3>1
  <2>7. "invalid" # "none"
    OBVIOUS
  <2> QED
    BY <2>3, <2>5, <2>6, <2>7, Zenon DEF Outcome
<1> QED
  BY <1>1, <1>2, <1>3, Invariance, PTL DEF Spec

(* Every verdict of decode_frame takes the bytes it was given on out of    *)
(* the buffer, as its doc comment says, but for that of a bare escape in   *)
(* front of an END marker: nothing else can hold the reader up.            *)
THEOREM OnlyABareEscapeStays ==
    Spec => [][Decode => Stuck \/ Len(buffer') < Len(buffer)]_vars
<1>1. IInv /\ [Next]_vars => [Decode => Stuck \/ Len(buffer') < Len(buffer)]_vars
  <2>1. SUFFICES ASSUME IInv, Decode
                 PROVE  Stuck \/ Len(buffer') < Len(buffer)
    OBVIOUS
  <2>2. buffer \in Seq(Byte)
    BY <2>1 DEF IInv, TypeOK
  <2>3. DecodeFrame(buffer).verdict # "none" /\ buffer' = DecodeFrame(buffer).rest
    BY <2>1, Zenon DEF Decode
  <2> QED
    BY <2>2, <2>3, DecodeShrinks, Zenon DEF Stuck
<1> QED
  BY <1>1, Invariance, PTL DEF Spec
=============================================================================
