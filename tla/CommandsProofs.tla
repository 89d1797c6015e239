--------------------------- MODULE CommandsProofs ---------------------------
(* Proofs about module Commands, for a headset that reports any bytes and  *)
(* for any values that are written.                                        *)
EXTENDS Commands, DataInduction, SequenceTheorems, TLAPS

----------------------------------------------------------------------------
(* The inductive invariant *)

(* How the headset lays out what it holds of f.  The features that are     *)
(* never written stay as they were reported at first.                      *)
Laid(f, h) ==
    /\ f \in {"battery", "voice_guidance"} => Len(h) = 2
    /\ f = "noise" => Len(h) = 6
    /\ f = "eq" => Len(h) = 8 /\ h[2] = 6 /\ \E p \in Presets : h[1] = PresetByte[p]
    /\ f \in {"dsee", "volume"} => Len(h) = 1
    /\ f \in {"model_name", "device_info"} => h \in Raw(f)

(* A headset that holds h of f was told v: what it encodes v as. *)
Encodes(f, h, v) ==
    /\ f = "noise" =>
          /\ h[2] = Flag(v.mode # "off") /\ h[3] = Flag(v.mode = "ambient")
          /\ v.mode = "ambient" =>
                h[5] = Flag(v.voice) /\ h[6] = IF v.level = 0 THEN 1 ELSE v.level
    /\ f = "eq" =>
          /\ h[1] = PresetByte[v.preset]
          /\ v.bands # <<>> => \A i \in 1 .. 6 : /\ v.bands[i] \in -10 .. 10
                                                 /\ h[2 + i] = v.bands[i] + 10
    /\ f = "dsee" => h[1] = Flag(v)
    /\ f = "voice_guidance" => h[1] = Flag(~v)
    /\ f = "volume" => h[1] = v

HoldsWritten == \A v \in written : Encodes(feature, held, v)

(* The payload shows what is held now, up to where it breaks off. *)
ShowsHeld ==
    pushed # <<>> =>
        \E op \in Opcodes(feature) : \E n \in 1 .. Len(Whole(op)) :
            pushed = SubSeq(Whole(op), 1, n)

(* What was read is what the feature's own request makes of the payload.  *)
ReadByItsOwn ==
    \/ taken = {} /\ reading = {}
    \/ /\ taken = {feature} /\ pushed # <<>> /\ pushed[1] \in Accepts(feature)
       /\ reading = Parse(feature, pushed)

IInv ==
    /\ TypeOK
    /\ Laid(feature, held)
    /\ HoldsWritten
    /\ ShowsHeld
    /\ ReadByItsOwn

----------------------------------------------------------------------------
(* Opcodes and bytes *)

LEMMA OwnOpcodes ==
    ASSUME NEW f \in Features, NEW g \in Features, NEW op \in Accepts(g), op \in Opcodes(f)
    PROVE  g = f
BY DEF Features, Accepts, Opcodes, Request

LEMMA ByteNatural == Byte \subseteq Nat
BY DEF Byte

LEMMA RequestBytes ==
    ASSUME NEW f \in Features
    PROVE  Type(f) \in Byte /\ Opcodes(f) \subseteq Byte
<1>1. Request(f)[1] \in 0 .. 252 /\ Request(f)[2] \in 0 .. 252
  BY DEF Features, Request
<1> QED
  BY <1>1 DEF Opcodes, Type, Byte

LEMMA PresetBytes ==
    ASSUME NEW p \in Presets
    PROVE  PresetByte[p] \in Byte /\ PresetOf(PresetByte[p]) = {p}
BY DEF Presets, PresetByte, PresetOf, Byte

LEMMA FlagForms ==
    ASSUME NEW b \in BOOLEAN
    PROVE  Flag(b) \in {0, 1} /\ (Flag(b) = 0 <=> ~b)
BY DEF Flag

----------------------------------------------------------------------------
(* What is reported at first *)

(* u is s and then t. *)
Glued(S, s, t, u) ==
    /\ u \in Seq(S) /\ Len(u) = Len(s) + Len(t)
    /\ \A i \in 1 .. Len(s) : u[i] = s[i]
    /\ \A i \in 1 .. Len(t) : u[Len(s) + i] = t[i]

LEMMA ConcatGlues ==
    ASSUME NEW S, NEW s \in Seq(S), NEW t \in Seq(S)
    PROVE  Glued(S, s, t, s \o t)
<1>0. PICK m \in Nat, n \in Nat : m = Len(s) /\ n = Len(t)
  OBVIOUS
<1>1. /\ s \o t \in Seq(S) /\ Len(s \o t) = m + n
      /\ \A i \in 1 .. m + n : (s \o t)[i] = IF i <= m THEN s[i] ELSE t[i - m]
  BY <1>0, ConcatProperties
<1>2. ASSUME NEW i \in 1 .. m
      PROVE  (s \o t)[i] = s[i]
  BY <1>1
<1>3. ASSUME NEW i \in 1 .. n
      PROVE  (s \o t)[m + i] = t[i]
  <2>1. m + i \in 1 .. m + n /\ ~(m + i <= m) /\ (m + i) - m = i
    OBVIOUS
  <2> QED
    BY <1>1, <2>1
<1> QED
  BY <1>0, <1>1, <1>2, <1>3 DEF Glued

(* Where the lengths and the count are in what a headset says of itself.   *)
Ascii == 0 .. 127
Sized(s, n) == s \in Seq(Ascii) /\ Len(s) = n

InfoAt(h) ==
    /\ h[2] = 2 /\ h[5] = 1 /\ h[9] = 1
    /\ \/ Sized(h, 11) /\ h[11] = 0
       \/ Sized(h, 18) /\ h[11] = 2 /\ h[13] = 2 /\ h[17] = 1

(* u has s[i] at i, and t[i] behind s. *)
Joined(s, m, t, n, u) ==
    /\ Sized(u, m + n)
    /\ \A i \in 1 .. m : u[i] = s[i]
    /\ \A i \in 1 .. n : u[m + i] = t[i]

LEMMA GluesSized ==
    ASSUME NEW s, NEW t, NEW m \in Nat, NEW n \in Nat, Sized(s, m), Sized(t, n)
    PROVE  Joined(s, m, t, n, s \o t)
<1>1. Glued(Ascii, s, t, s \o t)
  BY ConcatGlues DEF Sized
<1>2. PICK u : u = s \o t
  OBVIOUS
<1> QED
  BY <1>1, <1>2 DEF Sized, Glued, Joined

LEMMA InfoBytes ==
    Raw("device_info") =
        {<<\h14>> \o Text(<<72, 80>>) \o Text(<<48>>) \o <<\h14, \h14>> \o Text(<<68>>)
             \o versions :
            versions \in {<<0>>, <<2, 0>> \o Text(<<86, 49>>) \o <<1>> \o Text(<<86>>)}}
BY SMT DEF Raw

LEMMA InfoForms ==
    ASSUME NEW h \in Raw("device_info")
    PROVE  InfoAt(h)
<1> DEFINE model == <<20>> \o Text(<<72, 80>>)
           serial == model \o Text(<<48>>)
           gap == serial \o <<20, 20>>
           id == gap \o Text(<<68>>)
           first == <<2, 0>> \o Text(<<86, 49>>)
           index == first \o <<1>>
           two == index \o Text(<<86>>)
<1>0. {0, 1, 2, 20, 48, 49, 68, 72, 80, 86} \subseteq Ascii
  BY DEF Ascii
<1>1. ASSUME NEW a \in Ascii
      PROVE  Sized(Text(<<a>>), 2) /\ Text(<<a>>)[1] = 1 /\ Sized(<<a>>, 1) /\ <<a>>[1] = a
  BY <1>0 DEF Text, Sized
<1>2. ASSUME NEW a \in Ascii, NEW b \in Ascii
      PROVE  /\ Sized(Text(<<a, b>>), 3) /\ Text(<<a, b>>)[1] = 2
             /\ Sized(<<a, b>>, 2) /\ <<a, b>>[1] = a
  BY <1>0 DEF Text, Sized
<1>3. Sized(model, 4) /\ model[2] = 2
  <2>1. Sized(<<20>>, 1) /\ Sized(Text(<<72, 80>>), 3) /\ Text(<<72, 80>>)[1] = 2
    BY <1>0, <1>1, <1>2
  <2>2. Joined(<<20>>, 1, Text(<<72, 80>>), 3, model)
    BY <2>1, GluesSized
  <2> HIDE DEF model
  <2> QED
    BY <2>1, <2>2 DEF Joined
<1> HIDE DEF model
<1>4. Sized(serial, 6) /\ serial[2] = 2 /\ serial[5] = 1
  <2>1. Sized(Text(<<48>>), 2) /\ Text(<<48>>)[1] = 1
    BY <1>0, <1>1
  <2>2. Joined(model, 4, Text(<<48>>), 2, serial)
    BY <1>3, <2>1, GluesSized
  <2> HIDE DEF serial
  <2> QED
    BY <1>3, <2>1, <2>2 DEF Joined
<1> HIDE DEF serial
<1>5. Sized(gap, 8) /\ gap[2] = 2 /\ gap[5] = 1
  <2>1. Sized(<<20, 20>>, 2)
    BY <1>0, <1>2
  <2>2. Joined(serial, 6, <<20, 20>>, 2, gap)
    BY <1>4, <2>1, GluesSized
  <2> HIDE DEF gap
  <2> QED
    BY <1>4, <2>1, <2>2 DEF Joined
<1> HIDE DEF gap
<1>6. Sized(id, 10) /\ id[2] = 2 /\ id[5] = 1 /\ id[9] = 1
  <2>1. Sized(Text(<<68>>), 2) /\ Text(<<68>>)[1] = 1
    BY <1>0, <1>1
  <2>2. Joined(gap, 8, Text(<<68>>), 2, id)
    BY <1>5, <2>1, GluesSized
  <2> HIDE DEF id
  <2> QED
    BY <1>5, <2>1, <2>2 DEF Joined
<1> HIDE DEF id
<1>7. Sized(first, 5) /\ first[1] = 2 /\ first[3] = 2
  <2>1. Sized(<<2, 0>>, 2) /\ <<2, 0>>[1] = 2
    BY <1>0, <1>2
  <2>2. Sized(Text(<<86, 49>>), 3) /\ Text(<<86, 49>>)[1] = 2
    BY <1>0, <1>2
  <2>3. Joined(<<2, 0>>, 2, Text(<<86, 49>>), 3, first)
    BY <2>1, <2>2, GluesSized
  <2> HIDE DEF first
  <2> QED
    BY <2>1, <2>2, <2>3 DEF Joined
<1> HIDE DEF first
<1>8. Sized(index, 6) /\ index[1] = 2 /\ index[3] = 2
  <2>1. Sized(<<1>>, 1)
    BY <1>0, <1>1
  <2>2. Joined(first, 5, <<1>>, 1, index)
    BY <1>7, <2>1, GluesSized
  <2> HIDE DEF index
  <2> QED
    BY <1>7, <2>1, <2>2 DEF Joined
<1> HIDE DEF index
<1>9. Sized(two, 8) /\ two[1] = 2 /\ two[3] = 2 /\ two[7] = 1
  <2>1. Sized(Text(<<86>>), 2) /\ Text(<<86>>)[1] = 1
    BY <1>0, <1>1
  <2>2. Joined(index, 6, Text(<<86>>), 2, two)
    BY <1>8, <2>1, GluesSized
  <2> HIDE DEF two
  <2> QED
    BY <1>8, <2>1, <2>2 DEF Joined
<1> HIDE DEF two
<1>10. h = id \o <<0>> \/ h = id \o two
  <2>2. h \in {id \o versions : versions \in {<<0>>, two}}
    BY InfoBytes, Zenon DEF model, serial, gap, id, first, index, two
  <2> QED
    BY <2>2
<1>11. CASE h = id \o <<0>>
  <2>1. Sized(<<0>>, 1) /\ <<0>>[1] = 0
    BY <1>0, <1>1
  <2>2. Joined(id, 10, <<0>>, 1, h)
    BY <1>6, <1>11, <2>1, GluesSized
  <2> QED
    BY <1>6, <2>1, <2>2 DEF InfoAt, Joined
<1>12. CASE h = id \o two
  <2>1. Joined(id, 10, two, 8, h)
    BY <1>6, <1>9, <1>12, GluesSized
  <2> QED
    BY <1>6, <1>9, <2>1 DEF InfoAt, Joined
<1> QED
  BY <1>10, <1>11, <1>12

(* A model's name: its length and its bytes. *)
UmlautAt(h) ==
    h \in Seq(Byte) /\ Len(h) = 4 /\ h[1] = 3 /\ h[2] = 87 /\ h[3] = \hC3 /\ h[4] = \hA4
NameAt(h) == (Sized(h, 1) /\ h[1] = 0) \/ (Sized(h, 3) /\ h[1] = 2) \/ UmlautAt(h)

LEMMA NameForms ==
    ASSUME NEW h \in Raw("model_name")
    PROVE  NameAt(h)
<1>1. Raw("model_name") = {Text(<<>>), Text(<<87, 72>>), Text(<<87, \hC3, \hA4>>)}
  BY SMT DEF Raw
<1>2. CASE h = Text(<<>>)
  <2>1. h = <<0>> \o <<>>
    BY <1>2 DEF Text
  <2>2. h \in Seq(Ascii) /\ Len(h) = 1 /\ h[1] = 0
    BY <2>1 DEF Ascii
  <2> QED
    BY <2>2 DEF NameAt, Sized
<1>3. CASE h = Text(<<87, 72>>)
  <2>1. <<2>> \in Seq(Ascii) /\ <<87, 72>> \in Seq(Ascii)
    BY DEF Ascii
  <2>2. Sized(<<2>>, 1) /\ Sized(<<87, 72>>, 2) /\ <<2>>[1] = 2
    BY <2>1 DEF Sized
  <2>3. h = <<2>> \o <<87, 72>>
    BY <1>3 DEF Text
  <2>4. Joined(<<2>>, 1, <<87, 72>>, 2, h)
    BY <2>2, <2>3, GluesSized
  <2> QED
    BY <2>2, <2>4 DEF NameAt, Joined
<1>4. CASE h = Text(<<87, \hC3, \hA4>>)
  <2>1. h = <<3>> \o <<87, \hC3, \hA4>>
    BY <1>4 DEF Text
  <2>2. <<3>> \in Seq(Byte) /\ <<87, \hC3, \hA4>> \in Seq(Byte)
    BY DEF Byte
  <2>3. UmlautAt(h)
    BY <2>1, <2>2 DEF UmlautAt
  <2> QED
    BY <2>3 DEF NameAt
<1> QED
  BY <1>1, <1>2, <1>3, <1>4

LEMMA FewBytes ==
    ASSUME NEW a \in Byte, NEW b \in Byte
    PROVE  /\ <<a>> \in Seq(Byte) /\ Len(<<a>>) = 1
           /\ <<a, b>> \in Seq(Byte) /\ Len(<<a, b>>) = 2
OBVIOUS

LEMMA Reported ==
    ASSUME NEW f \in Features, NEW h \in Raw(f)
    PROVE  h \in Seq(Byte) /\ Laid(f, h)
<1> USE RawAssumption
<1>1. CASE f = "battery"
  <2>1. h \in {<<b, c>> : b \in RawBytes, c \in {0, 1}}
    BY <1>1 DEF Raw
  <2>2. PICK b \in RawBytes, c \in {0, 1} : h = <<b, c>>
    BY <2>1
  <2>3. b \in Byte /\ c \in Byte
    BY DEF Byte
  <2> QED
    BY <1>1, <2>2, <2>3, FewBytes DEF Laid
<1>2. CASE f = "noise"
  <2>1. h \in {<<1, m[1], m[2], 2, v, b>> :
                 m \in {<<0, 0>>, <<1, 0>>, <<1, 1>>}, v \in {0, 1}, b \in RawBytes}
    BY <1>2 DEF Raw
  <2>2. PICK m \in {<<0, 0>>, <<1, 0>>, <<1, 1>>}, v \in {0, 1}, b \in RawBytes :
           h = <<1, m[1], m[2], 2, v, b>>
    BY <2>1
  <2>3. m[1] \in {0, 1} /\ m[2] \in {0, 1}
    OBVIOUS
  <2> QED
    BY <1>2, <2>2, <2>3 DEF Byte, Laid
<1>3. CASE f = "eq"
  <2>1. h \in {<<PresetByte[p], 6, b, 10, 11, 12, 13, c>> :
                 p \in Presets, b \in RawBytes, c \in RawBytes}
    BY <1>3 DEF Raw
  <2>2. PICK p \in Presets, b \in RawBytes, c \in RawBytes :
           h = <<PresetByte[p], 6, b, 10, 11, 12, 13, c>>
    BY <2>1
  <2>3. PresetByte[p] \in Byte
    BY PresetBytes
  <2> QED
    BY <1>3, <2>2, <2>3 DEF Byte, Laid
<1>4. CASE f = "dsee"
  <2>1. h \in {<<0>>, <<1>>}
    BY <1>4 DEF Raw
  <2>2. \E a \in Byte : h = <<a>>
    BY <2>1 DEF Byte
  <2> QED
    BY <1>4, <2>2, FewBytes DEF Laid
<1>5. CASE f = "voice_guidance"
  <2>1. h \in {<<0, 1>>, <<1, 1>>}
    BY <1>5 DEF Raw
  <2>2. 0 \in Byte /\ 1 \in Byte
    BY DEF Byte
  <2> QED
    BY <1>5, <2>1, <2>2, FewBytes DEF Laid
<1>6. CASE f = "volume"
  <2>1. h \in {<<b>> : b \in RawBytes}
    BY <1>6 DEF Raw
  <2>2. PICK b \in RawBytes : h = <<b>>
    BY <2>1
  <2> QED
    BY <1>6, <2>2, FewBytes DEF Laid
<1>7. CASE f = "model_name"
  <2>1. NameAt(h)
    BY <1>7, NameForms
  <2> QED
    BY <1>7, <2>1 DEF NameAt, UmlautAt, Sized, Ascii, Byte, Laid
<1>8. CASE f = "device_info"
  <2>1. h \in Seq(Ascii)
    BY <1>8, InfoForms DEF InfoAt, Sized
  <2>2. Ascii \subseteq Byte
    BY DEF Ascii, Byte
  <2> QED
    BY <1>8, <2>1, <2>2 DEF Laid
<1> QED
  BY <1>1, <1>2, <1>3, <1>4, <1>5, <1>6, <1>7, <1>8 DEF Features

----------------------------------------------------------------------------
(* What a write leaves *)

LEMMA OnlyIf ==
    ASSUME NEW condition, NEW payload, NEW p \in If(condition, payload)
    PROVE  condition /\ p = payload
BY DEF If

LEMMA StoresNoise ==
    ASSUME NEW h \in Seq(Byte), Laid("noise", h), NEW v \in Values("noise"),
           NEW p \in SetNoise(v)
    PROVE  /\ Stored(p, h) \in Seq(Byte) /\ Laid("noise", Stored(p, h))
           /\ Encodes("noise", Stored(p, h), v)
<1>1. /\ v \in [mode : {"off", "noise_cancelling", "ambient"}, voice : BOOLEAN, level : Byte]
      /\ Len(h) = 6
  BY DEF Values, Laid
<1>2. /\ v.level \in 0 .. 20
      /\ p = <<\h68, \h16, 1, Flag(v.mode # "off"), Flag(v.mode = "ambient"), 2,
               Flag(v.voice), v.level>>
  <2> DEFINE payload == <<\h68, \h16, 1, Flag(v.mode # "off"), Flag(v.mode = "ambient"), 2,
                          Flag(v.voice), v.level>>
  <2>1. p \in If(v.level <= 20, payload)
    BY DEF SetNoise
  <2> HIDE DEF payload
  <2>2. v.level <= 20 /\ p = payload
    BY <2>1, OnlyIf, Zenon
  <2>3. PICK level \in 0 .. 255 : level = v.level
    BY <1>1 DEF Byte
  <2>4. level <= 20
    BY <2>2, <2>3, Zenon
  <2>5. level \in 0 .. 20
    BY <2>4
  <2>6. v.level \in 0 .. 20
    BY <2>3, <2>5, Zenon
  <2> QED
    BY <2>2, <2>6 DEF payload
<1>3. PICK on \in {0, 1}, ambient \in {0, 1}, voice \in {0, 1}, level \in 0 .. 20 :
         /\ on = Flag(v.mode # "off") /\ ambient = Flag(v.mode = "ambient")
         /\ voice = Flag(v.voice) /\ level = v.level
         /\ ambient = 1 <=> v.mode = "ambient"
  BY <1>1, <1>2 DEF Flag
<1>4. PICK now5 \in Byte, now6 \in Byte : now5 = h[5] /\ now6 = h[6]
  BY <1>1
<1> DEFINE r5 == IF ambient = 1 THEN voice ELSE now5
           r6 == IF ambient = 1 THEN (IF level = 0 THEN 1 ELSE level) ELSE now6
<1>5. Stored(p, h) = <<1, on, ambient, 2, r5, r6>>
  BY <1>2, <1>3, <1>4 DEF Stored
<1>6. r5 \in Byte /\ r6 \in Byte /\ {0, 1, 2} \subseteq Byte
  BY DEF Byte
<1>7. v.mode = "ambient" => r5 = voice /\ r6 = IF level = 0 THEN 1 ELSE level
  BY <1>3
<1> HIDE DEF r5, r6
<1>8. Stored(p, h) \in Seq(Byte) /\ Len(Stored(p, h)) = 6
  BY <1>5, <1>6
<1>9. Encodes("noise", Stored(p, h), v)
  BY <1>3, <1>5, <1>7 DEF Encodes
<1> QED
  BY <1>8, <1>9 DEF Laid

LEMMA Slices ==
    ASSUME NEW S, NEW s \in Seq(S), NEW m \in Nat \ {0}, NEW n \in Nat, m <= n, n <= Len(s)
    PROVE  /\ SubSeq(s, m, n) \in Seq(S) /\ Len(SubSeq(s, m, n)) = n - m + 1
           /\ \A i \in 1 .. n - m + 1 : SubSeq(s, m, n)[i] = s[m + i - 1]
<1>1. \A i \in m .. n : s[i] \in S
  OBVIOUS
<1> QED
  BY <1>1, SubSeqProperties

LEMMA StoresPreset ==
    ASSUME NEW h \in Seq(Byte), Laid("eq", h), NEW v \in Values("eq"), v.bands = <<>>,
           NEW p \in SetEqPreset(v)
    PROVE  /\ Stored(p, h) \in Seq(Byte) /\ Laid("eq", Stored(p, h))
           /\ Encodes("eq", Stored(p, h), v)
<1>1. v.preset \in Presets /\ Len(h) = 8
  BY DEF Values, Laid
<1>2. PICK b \in Byte : b = PresetByte[v.preset]
  BY <1>1, PresetBytes
<1>3. p = <<\h58, 0, b, 0>>
  BY <1>2 DEF SetEqPreset
<1> DEFINE rest == SubSeq(h, 3, 8)
           s == <<b, 6>> \o rest
<1>4. Stored(p, h) = s
  BY <1>3 DEF Stored
<1>5. rest \in Seq(Byte) /\ Len(rest) = 6
  <2>1. 3 \in Nat \ {0} /\ 8 \in Nat /\ 3 <= 8 /\ 8 <= Len(h)
    BY <1>1
  <2>2. rest \in Seq(Byte) /\ Len(rest) = 8 - 3 + 1
    BY <2>1, Slices, SMT
  <2> QED
    BY <2>2
<1>6. <<b, 6>> \in Seq(Byte) /\ Len(<<b, 6>>) = 2 /\ <<b, 6>>[1] = b /\ <<b, 6>>[2] = 6
  BY DEF Byte
<1> HIDE DEF rest
<1>7. Glued(Byte, <<b, 6>>, rest, s)
  BY <1>5, <1>6, ConcatGlues
<1> HIDE DEF s
<1>8. s \in Seq(Byte) /\ Len(s) = 8 /\ s[1] = b /\ s[2] = 6
  BY <1>5, <1>6, <1>7 DEF Glued
<1>9. Laid("eq", s)
  BY <1>1, <1>2, <1>8 DEF Laid
<1>10. Encodes("eq", s, v)
  BY <1>2, <1>8 DEF Encodes
<1> QED
  BY <1>4, <1>8, <1>9, <1>10

LEMMA StoresBands ==
    ASSUME NEW h \in Seq(Byte), Laid("eq", h), NEW v \in Values("eq"), v.bands # <<>>,
           NEW p \in SetEqBands(v)
    PROVE  /\ Stored(p, h) \in Seq(Byte) /\ Laid("eq", Stored(p, h))
           /\ Encodes("eq", Stored(p, h), v)
<1>1. v.preset \in Presets /\ v.bands \in [1 .. 6 -> -128 .. 127]
  BY DEF Values
<1>2. PICK b \in Byte : b = PresetByte[v.preset]
  BY <1>1, PresetBytes
<1> DEFINE six == [i \in 1 .. 6 |-> v.bands[i] + 10]
<1>3. /\ v.preset \in Customizable /\ \A i \in DOMAIN v.bands : v.bands[i] \in -10 .. 10
      /\ p = <<\h58, 0, b, 6>> \o six
  <2> DEFINE inRange == \A i \in DOMAIN v.bands : v.bands[i] \in -10 .. 10
             payload == <<\h58, 0, b, 6>> \o six
  <2>1. p \in If(v.preset \in Customizable /\ inRange, payload)
    BY <1>2, Zenon DEF SetEqBands
  <2> HIDE DEF inRange, payload
  <2>2. (v.preset \in Customizable /\ inRange) /\ p = payload
    BY <2>1, OnlyIf, Zenon
  <2> QED
    BY <2>2, Zenon DEF inRange, payload
<1>4. \A i \in 1 .. 6 : v.bands[i] \in -10 .. 10
  BY <1>1, <1>3
<1>5. six \in [1 .. 6 -> Byte] /\ \A i \in 1 .. 6 : six[i] = v.bands[i] + 10
  <2>1. \A n \in -10 .. 10 : n + 10 \in Byte
    BY DEF Byte
  <2>2. \A i \in 1 .. 6 : v.bands[i] + 10 \in Byte
    BY <1>4, <2>1
  <2> QED
    BY <2>2
<1>6. six \in Seq(Byte) /\ Len(six) = 6
  BY <1>5, SeqDef, LenProperties
<1> HIDE DEF six
<1>7. /\ <<\h58, 0, b, 6>> \in Seq(Byte) /\ Len(<<\h58, 0, b, 6>>) = 4
      /\ <<\h58, 0, b, 6>>[1] = \h58 /\ <<\h58, 0, b, 6>>[3] = b /\ <<\h58, 0, b, 6>>[4] = 6
  BY DEF Byte
<1>8. Glued(Byte, <<\h58, 0, b, 6>>, six, p)
  BY <1>3, <1>6, <1>7, ConcatGlues
<1>9. /\ p \in Seq(Byte) /\ Len(p) = 10 /\ p[1] = \h58 /\ p[3] = b /\ p[4] = 6
      /\ \A i \in 1 .. 6 : p[4 + i] = v.bands[i] + 10
  <2>1. PICK s : s = <<\h58, 0, b, 6>>
    OBVIOUS
  <2>2. Len(s) = 4 /\ s[1] = \h58 /\ s[3] = b /\ s[4] = 6 /\ Glued(Byte, s, six, p)
    BY <1>7, <1>8, <2>1
  <2>3. /\ p \in Seq(Byte) /\ Len(p) = 4 + 6
        /\ \A i \in 1 .. 4 : p[i] = s[i]
        /\ \A i \in 1 .. 6 : p[4 + i] = six[i]
    BY <1>6, <2>2 DEF Glued
  <2>4. p[1] = \h58 /\ p[3] = b /\ p[4] = 6
    BY <2>2, <2>3
  <2> QED
    BY <1>5, <2>3, <2>4
<1> DEFINE s == SubSeq(p, 3, 10)
<1>10. Stored(p, h) = s
  BY <1>9 DEF Stored
<1>11. s \in Seq(Byte) /\ Len(s) = 8 /\ \A i \in 1 .. 8 : s[i] = p[3 + i - 1]
  <2>1. p \in Seq(Byte) /\ 3 \in Nat \ {0} /\ 10 \in Nat /\ 3 <= 10 /\ 10 <= Len(p)
    BY <1>9
  <2>2. /\ s \in Seq(Byte) /\ Len(s) = 10 - 3 + 1
        /\ \A i \in 1 .. 10 - 3 + 1 : s[i] = p[3 + i - 1]
    BY <2>1, Slices, SMT
  <2> HIDE DEF s
  <2> QED
    BY <2>2
<1> HIDE DEF s
<1>12. /\ s[1] = b /\ s[2] = 6 
       /\ \A i \in 1 .. 6 : s[2 + i] = v.bands[i] + 10
  BY <1>9, <1>11
<1>13. Laid("eq", s)
  BY <1>1, <1>2, <1>11, <1>12 DEF Laid
<1>14. Encodes("eq", s, v)
  BY <1>2, <1>4, <1>12 DEF Encodes
<1> QED
  BY <1>10, <1>11, <1>13, <1>14

LEMMA StoresToggle ==
    ASSUME NEW h, NEW v \in BOOLEAN
    PROVE  /\ \A p \in SetDsee(v) : Stored(p, h) = <<Flag(v)>>
           /\ \A p \in SetVoiceGuidance(v) : Stored(p, h) = <<Flag(~v), 1>>
BY DEF SetDsee, SetVoiceGuidance, Stored

LEMMA StoresVolume ==
    ASSUME NEW h, NEW v \in Byte, NEW p \in SetVolume(v)
    PROVE  Stored(p, h) = <<v>>
<1>1. v <= 30 /\ p = <<\hA8, \h20, v>>
  <2> DEFINE payload == <<\hA8, \h20, v>>
  <2>1. p \in If(v <= 30, payload)
    BY DEF SetVolume
  <2> HIDE DEF payload
  <2>2. v <= 30 /\ p = payload
    BY <2>1, OnlyIf, Zenon
  <2> QED
    BY <2>2 DEF payload
<1>2. ~ (v > 30)
  BY <1>1 DEF Byte
<1> QED
  BY <1>1, <1>2 DEF Stored

LEMMA Stores ==
    ASSUME NEW f \in Features, NEW h \in Seq(Byte), Laid(f, h), NEW v \in Values(f),
           NEW p \in Build(f, v)
    PROVE  /\ Stored(p, h) \in Seq(Byte) /\ Laid(f, Stored(p, h))
           /\ Encodes(f, Stored(p, h), v)
<1>1. CASE f = "noise"
  <2>1. p \in SetNoise(v)
    BY <1>1 DEF Build
  <2> QED
    BY <1>1, <2>1, StoresNoise
<1>2. CASE f = "eq" /\ v.bands = <<>>
  <2>1. p \in SetEqPreset(v)
    BY <1>2 DEF Build
  <2> QED
    BY <1>2, <2>1, StoresPreset
<1>3. CASE f = "eq" /\ v.bands # <<>>
  <2>1. p \in SetEqBands(v)
    BY <1>3 DEF Build
  <2> QED
    BY <1>3, <2>1, StoresBands
<1>4. CASE f = "dsee"
  <2>1. v \in BOOLEAN /\ p \in SetDsee(v)
    BY <1>4 DEF Values, Build
  <2>2. PICK b \in {0, 1} : b = Flag(v) /\ b \in Byte
    BY <2>1 DEF Flag, Byte
  <2>3. Stored(p, h) = <<b>>
    BY <2>1, <2>2, StoresToggle
  <2>4. Stored(p, h) \in Seq(Byte) /\ Len(Stored(p, h)) = 1 /\ Stored(p, h)[1] = b
    BY <2>2, <2>3
  <2> QED
    BY <1>4, <2>2, <2>4 DEF Laid, Encodes
<1>5. CASE f = "voice_guidance"
  <2>1. v \in BOOLEAN /\ p \in SetVoiceGuidance(v)
    BY <1>5 DEF Values, Build
  <2>2. PICK b \in {0, 1} : b = Flag(~v) /\ b \in Byte /\ 1 \in Byte
    BY <2>1 DEF Flag, Byte
  <2>3. Stored(p, h) = <<b, 1>>
    BY <2>1, <2>2, StoresToggle
  <2>4. Stored(p, h) \in Seq(Byte) /\ Len(Stored(p, h)) = 2 /\ Stored(p, h)[1] = b
    BY <2>2, <2>3
  <2> QED
    BY <1>5, <2>2, <2>4 DEF Laid, Encodes
<1>6. CASE f = "volume"
  <2>1. v \in Byte /\ p \in SetVolume(v)
    BY <1>6 DEF Values, Build
  <2>2. Stored(p, h) = <<v>>
    BY <2>1, StoresVolume
  <2>3. Stored(p, h) \in Seq(Byte) /\ Len(Stored(p, h)) = 1 /\ Stored(p, h)[1] = v
    BY <2>1, <2>2
  <2> QED
    BY <1>6, <2>3 DEF Laid, Encodes
<1>7. CASE f \in {"battery", "model_name", "device_info"}
  BY <1>7 DEF Values
<1> QED
  BY <1>1, <1>2, <1>3, <1>4, <1>5, <1>6, <1>7 DEF Features

----------------------------------------------------------------------------
(* What a payload shows *)

LEMMA WholeForm ==
    ASSUME feature \in Features, held \in Seq(Byte), NEW op \in Opcodes(feature),
           NEW l \in Nat, l = Len(held)
    PROVE  /\ Whole(op) \in Seq(Byte) /\ Len(Whole(op)) = l + 2
           /\ Whole(op)[1] = op /\ Whole(op)[2] = Type(feature)
           /\ \A i \in 1 .. l : Whole(op)[2 + i] = held[i]
<1>1. PICK t \in Byte : t = Type(feature)
  BY RequestBytes
<1>2. op \in Byte
  BY RequestBytes
<1>3. /\ <<op, t>> \in Seq(Byte) /\ Len(<<op, t>>) = 2
      /\ <<op, t>>[1] = op /\ <<op, t>>[2] = t
  BY <1>2
<1>4. Glued(Byte, <<op, t>>, held, Whole(op))
  BY <1>1, <1>3, ConcatGlues DEF Whole
<1> QED
  BY <1>1, <1>3, <1>4 DEF Glued

LEMMA PushedForm ==
    ASSUME feature \in Features, held \in Seq(Byte), NEW op \in Opcodes(feature),
           NEW n \in 1 .. Len(Whole(op))
    PROVE  /\ SubSeq(Whole(op), 1, n) \in Seq(Byte) /\ Len(SubSeq(Whole(op), 1, n)) = n
           /\ n <= Len(held) + 2
           /\ \A i \in 1 .. n : SubSeq(Whole(op), 1, n)[i] = Whole(op)[i]
           /\ SubSeq(Whole(op), 1, n)[1] = op
<1>1. PICK l \in Nat : l = Len(held)
  OBVIOUS
<1>2. Whole(op) \in Seq(Byte) /\ Len(Whole(op)) = l + 2 /\ Whole(op)[1] = op
  BY <1>1, WholeForm
<1>3. PICK w \in Seq(Byte) : w = Whole(op)
  BY <1>2
<1>4. n \in 1 .. l + 2 /\ n <= Len(w)
  BY <1>2, <1>3
<1>5. 1 \in Nat \ {0} /\ n \in Nat /\ 1 <= n
  BY <1>4
<1>6. /\ SubSeq(w, 1, n) \in Seq(Byte) /\ Len(SubSeq(w, 1, n)) = n - 1 + 1
      /\ \A i \in 1 .. n - 1 + 1 : SubSeq(w, 1, n)[i] = w[1 + i - 1]
  BY <1>4, <1>5, Slices, SMT
<1>7. PICK s : s = SubSeq(w, 1, n)
  OBVIOUS
<1>8. s \in Seq(Byte) /\ Len(s) = n /\ \A i \in 1 .. n : s[i] = w[i]
  BY <1>4, <1>6, <1>7
<1> QED
  BY <1>1, <1>2, <1>3, <1>4, <1>7, <1>8

----------------------------------------------------------------------------
(* The invariant *)

LEMMA BandFits ==
    ASSUME NEW b \in Byte
    PROVE  Band(b) \in -128 .. 127 /\ (b \in 0 .. 20 => Band(b) = b - 10)
BY DEF Band, Byte

LEMMA EqReading ==
    ASSUME NEW p \in Seq(Byte), NEW r \in ParseEq(p)
    PROVE  /\ Len(p) >= 10
           /\ r.preset \in PresetOf(p[3]) /\ r.preset \in Presets
           /\ r.bands = [i \in 1 .. 6 |-> Band(p[4 + i])]
           /\ r.bands \in [1 .. 6 -> -128 .. 127]
<1>1. Len(p) >= 10
  BY DEF ParseEq
<1>2. \A i : At(p, i) = p[i + 1]
  BY DEF At
<1>3. \E preset \in PresetOf(At(p, 2)) :
         r = [preset |-> preset, bands |-> [i \in 1 .. 6 |-> Band(At(p, 3 + i))]]
  BY DEF ParseEq
<1>4. /\ r.preset \in PresetOf(At(p, 2))
      /\ r.bands = [i \in 1 .. 6 |-> Band(At(p, 3 + i))]
  BY <1>3
<1>5. At(p, 2) = p[3] /\ \A i \in 1 .. 6 : At(p, 3 + i) = p[4 + i]
  BY <1>2
<1>6. \A i \in 1 .. 6 : Band(p[4 + i]) \in -128 .. 127
  <2>1. \A i \in 1 .. 6 : p[4 + i] \in Byte
    BY <1>1
  <2> QED
    BY <2>1, BandFits
<1>7. r.bands = [i \in 1 .. 6 |-> Band(p[4 + i])]
  BY <1>4, <1>5
<1>8. r.preset \in PresetOf(p[3]) /\ r.preset \in Presets
  BY <1>4, <1>5 DEF PresetOf
<1>9. r.bands \in [1 .. 6 -> -128 .. 127]
  BY <1>6, <1>7
<1> QED
  BY <1>1, <1>7, <1>8, <1>9

(* What is held and shown is what the model of the headset says, whichever *)
(* values are written and whichever bytes the headset reports by itself.   *)
THEOREM Invariance == Spec => []IInv
<1>1. Init => IInv
  <2> SUFFICES ASSUME Init PROVE IInv
    OBVIOUS
  <2>1. /\ feature \in Features /\ held \in Raw(feature) /\ written = {} /\ pushed = <<>>
        /\ taken = {} /\ reading = {}
    BY DEF Init
  <2>2. held \in Seq(Byte) /\ Laid(feature, held)
    BY <2>1, Reported
  <2>3. TypeOK
    BY <2>1, <2>2 DEF TypeOK
  <2>4. HoldsWritten /\ ShowsHeld /\ ReadByItsOwn
    BY <2>1 DEF HoldsWritten, ShowsHeld, ReadByItsOwn
  <2> QED
    BY <2>2, <2>3, <2>4 DEF IInv
<1>2. IInv /\ [Next]_vars => IInv'
  <2> SUFFICES ASSUME IInv, [Next]_vars PROVE IInv'
    OBVIOUS
  <2>1. /\ feature \in Features /\ held \in Seq(Byte) /\ pushed \in Seq(Byte)
        /\ written \subseteq Values(feature) /\ taken \subseteq Features
        /\ Laid(feature, held) /\ HoldsWritten /\ ShowsHeld /\ ReadByItsOwn
    BY DEF IInv, TypeOK
  <2>2. ASSUME NEW w \in Written, Write(w)
        PROVE  IInv'
    <3>1. w.value \in Values(feature)
      BY <2>2, WrittenAssumption DEF Write
    <3>2. PICK p \in Build(feature, w.value) : held' = Stored(p, held)
      BY <2>2 DEF Write
    <3>3. /\ feature' = feature /\ written' = {w.value} /\ pushed' = <<>> /\ taken' = {}
          /\ reading' = {}
      BY <2>2 DEF Write, Unread
    <3>4. /\ held' \in Seq(Byte) /\ Laid(feature, held')
          /\ Encodes(feature, held', w.value)
      BY <2>1, <3>1, <3>2, Stores
    <3>5. TypeOK'
      BY <2>1, <3>1, <3>3, <3>4 DEF TypeOK
    <3>6. HoldsWritten' /\ ShowsHeld' /\ ReadByItsOwn'
      BY <3>3, <3>4 DEF HoldsWritten, ShowsHeld, ReadByItsOwn
    <3> QED
      BY <3>3, <3>4, <3>5, <3>6 DEF IInv
  <2>3. ASSUME NEW op \in Opcodes(feature), NEW n \in 1 .. Len(Whole(op)), Push(op, n)
        PROVE  IInv'
    <3>1. /\ feature' = feature /\ held' = held /\ written' = written
          /\ pushed' = SubSeq(Whole(op), 1, n) /\ taken' = {} /\ reading' = {}
      BY <2>3 DEF Push
    <3>2. pushed' \in Seq(Byte)
      BY <2>1, <3>1, PushedForm
    <3>3. TypeOK'
      BY <2>1, <3>1, <3>2 DEF TypeOK
    <3>4. ShowsHeld'
      <4>1. \A o : Whole(o)' = Whole(o)
        BY <3>1 DEF Whole, Type
      <4>2. \E o \in Opcodes(feature) : \E k \in 1 .. Len(Whole(o)) :
               pushed' = SubSeq(Whole(o), 1, k)
        BY <3>1
      <4> QED
        BY <3>1, <4>1, <4>2 DEF ShowsHeld
    <3>5. HoldsWritten' /\ ReadByItsOwn'
      BY <2>1, <3>1 DEF HoldsWritten, ReadByItsOwn
    <3>6. Laid(feature, held)'
      BY <2>1, <3>1 
    <3> QED
      BY <3>3, <3>4, <3>5, <3>6 DEF IInv
  <2>4. ASSUME NEW g \in Features, Take(g)
        PROVE  IInv'
    <3>1. /\ feature' = feature /\ held' = held /\ written' = written /\ pushed' = pushed
          /\ pushed # <<>> /\ pushed[1] \in Accepts(g) /\ taken' = {g}
          /\ reading' = Parse(g, pushed)
      BY <2>4 DEF Take, At
    <3>2. pushed[1] \in Opcodes(feature)
      <4>1. PICK op \in Opcodes(feature) : \E n \in 1 .. Len(Whole(op)) :
               pushed = SubSeq(Whole(op), 1, n)
        BY <2>1, <3>1 DEF ShowsHeld
      <4>2. pushed[1] = op
        BY <2>1, <4>1, PushedForm
      <4> QED
        BY <4>2
    <3>3. g = feature
      BY <2>1, <3>1, <3>2, OwnOpcodes
    <3>4. ASSUME NEW r \in reading', taken' = {"eq"}
          PROVE  r.preset \in Presets /\ r.bands \in [1 .. 6 -> -128 .. 127]
      <4>1. r \in ParseEq(pushed)
        BY <3>1, <3>4 DEF Parse
      <4> QED
        BY <2>1, <4>1, EqReading
    <3>5. TypeOK'
      BY <2>1, <3>1, <3>4 DEF TypeOK
    <3>6. Laid(feature, held)' /\ HoldsWritten' /\ ReadByItsOwn'
      BY <2>1, <3>1, <3>3 DEF HoldsWritten, ReadByItsOwn
    <3>7. ShowsHeld'
      BY <2>1, <3>1 DEF ShowsHeld, Whole, Type
    <3> QED
      BY <3>5, <3>6, <3>7 DEF IInv
  <2>5. CASE UNCHANGED vars
    <3>1. /\ feature' = feature /\ held' = held /\ written' = written /\ pushed' = pushed
          /\ taken' = taken /\ reading' = reading
      BY <2>5 DEF vars
    <3>2. TypeOK'
      BY <3>1 DEF IInv, TypeOK
    <3>3. Laid(feature, held)' /\ HoldsWritten' /\ ReadByItsOwn'
      BY <2>1, <3>1 DEF HoldsWritten, ReadByItsOwn
    <3>4. ShowsHeld'
      BY <2>1, <3>1 DEF ShowsHeld, Whole, Type
    <3> QED
      BY <3>2, <3>3, <3>4 DEF IInv
  <2> QED
    BY <2>2, <2>3, <2>4, <2>5 DEF Next
<1> QED
  BY <1>1, <1>2, PTL DEF Spec

(* Every variable keeps its type: what is held and pushed are bytes, a     *)
(* feature holds only values of its own, and the bands that parse_eq reads *)
(* fit the i8 that the cast keeps them in, whatever bytes arrive.          *)
THEOREM TypeCorrect == Spec => []TypeOK
<1>1. IInv => TypeOK
  BY DEF IInv
<1> QED
  BY <1>1, Invariance, PTL

(* The opcodes that the requests wait for never let one take an answer or  *)
(* a notification of another feature.                                      *)
THEOREM OwnAnswers == Spec => []OwnAnswersOnly
<1>1. IInv => OwnAnswersOnly
  BY DEF IInv, ReadByItsOwn, OwnAnswersOnly
<1> QED
  BY <1>1, Invariance, PTL

----------------------------------------------------------------------------
(* What is read of a payload that breaks off *)

(* p is q, or where q breaks off. *)
Prefix(p, q) ==
    /\ p \in Seq(Byte) /\ q \in Seq(Byte) /\ Len(p) <= Len(q)
    /\ \A i \in 1 .. Len(p) : p[i] = q[i]

LEMMA PushedPrefix ==
    ASSUME IInv, taken = {feature}
    PROVE  /\ pushed[1] \in Opcodes(feature) /\ pushed[1] \in Accepts(feature)
           /\ pushed # <<>> /\ reading = Parse(feature, pushed)
           /\ Prefix(pushed, Whole(pushed[1]))
<1>1. /\ feature \in Features /\ held \in Seq(Byte) /\ pushed \in Seq(Byte)
      /\ ShowsHeld /\ ReadByItsOwn
  BY DEF IInv, TypeOK
<1>2. /\ pushed # <<>> /\ pushed[1] \in Accepts(feature)
      /\ reading = Parse(feature, pushed)
  BY <1>1 DEF ReadByItsOwn
<1>3. PICK op \in Opcodes(feature) : \E n \in 1 .. Len(Whole(op)) :
         pushed = SubSeq(Whole(op), 1, n)
  BY <1>1, <1>2 DEF ShowsHeld
<1>4. PICK n \in 1 .. Len(Whole(op)) : pushed = SubSeq(Whole(op), 1, n)
  BY <1>3
<1>5. PICK l \in Nat : l = Len(held)
  BY <1>1
<1>6. Whole(op) \in Seq(Byte) /\ Len(Whole(op)) = l + 2
  BY <1>1, <1>5, WholeForm
<1>7. /\ Len(pushed) = n /\ n <= l + 2 /\ pushed[1] = op
      /\ \A i \in 1 .. n : pushed[i] = Whole(op)[i]
  BY <1>1, <1>4, <1>5, PushedForm
<1>8. Prefix(pushed, Whole(op))
  BY <1>1, <1>6, <1>7 DEF Prefix
<1> QED
  BY <1>2, <1>7, <1>8

(* A length-prefixed string, when all of it is there. *)
LEMMA StringForm ==
    ASSUME NEW p \in Seq(Byte), NEW at, NEW s \in TakeString(p, at)
    PROVE  /\ at \in 0 .. Len(p) - 1 /\ s.next \in Nat
           /\ s.next = at + 1 + p[at + 1] /\ s.next <= Len(p)
           /\ s.text \in Seq(Byte)
           /\ s = [text |-> SubSeq(p, at + 2, s.next), next |-> s.next]
           /\ Utf8(s.text)
<1>1. PICK end \in {at + 1 + At(p, at) : x \in {at} \cap 0 .. Len(p) - 1} :
         /\ end <= Len(p) /\ Utf8(SubSeq(p, at + 2, end))
         /\ s = [text |-> SubSeq(p, at + 2, end), next |-> end]
  BY DEF TakeString
<1>2. at \in 0 .. Len(p) - 1 /\ end = at + 1 + p[at + 1]
  BY <1>1 DEF At
<1>3. PICK b \in Byte : b = p[at + 1]
  BY <1>2
<1>4. end \in Nat
  <2>1. at \in Nat
    BY <1>2
  <2>2. b \in Nat
    BY ByteNatural
  <2>3. end = at + 1 + b
    BY <1>2, <1>3, Zenon
  <2> QED
    BY <2>1, <2>2, <2>3
<1>5. \A i \in at + 2 .. end : p[i] \in Byte
  BY <1>1, <1>2, <1>4
<1>6. SubSeq(p, at + 2, end) \in Seq(Byte)
  BY <1>2, <1>4, <1>5, SubSeqProperties
<1>7. s.next = end /\ s.text = SubSeq(p, at + 2, end)
  BY <1>1
<1> QED
  BY <1>1, <1>2, <1>4, <1>6, <1>7

LEMMA StringTaken ==
    ASSUME NEW p \in Seq(Byte), NEW at \in 0 .. Len(p) - 1, NEW end \in Nat,
           end = at + 1 + p[at + 1], end <= Len(p),
           Utf8(SubSeq(p, at + 2, end))
    PROVE  [text |-> SubSeq(p, at + 2, end), next |-> end] \in TakeString(p, at)
<1>1. end \in {at + 1 + At(p, at) : x \in {at} \cap 0 .. Len(p) - 1}
  BY DEF At
<1> QED
  BY <1>1 DEF TakeString

LEMMA StringOfPrefix ==
    ASSUME NEW p, NEW q, Prefix(p, q), NEW at
    PROVE  TakeString(p, at) \subseteq TakeString(q, at)
<1> SUFFICES ASSUME NEW s \in TakeString(p, at)
             PROVE  s \in TakeString(q, at)
  OBVIOUS
<1>1. p \in Seq(Byte) /\ q \in Seq(Byte) /\ Len(p) <= Len(q)
  BY DEF Prefix
<1>2. PICK m \in Nat, n \in Nat : m = Len(p) /\ n = Len(q)
  BY <1>1
<1>3. m <= n /\ \A i \in 1 .. m : p[i] = q[i]
  BY <1>2 DEF Prefix
<1>4. PICK end \in Nat : end = s.next
  BY <1>1, StringForm
<1>5. /\ at \in 0 .. m - 1 /\ end = at + 1 + p[at + 1] /\ end <= m
      /\ s = [text |-> SubSeq(p, at + 2, end), next |-> end]
      /\ Utf8(SubSeq(p, at + 2, end))
  <2>1. /\ at \in 0 .. m - 1 /\ end = at + 1 + p[at + 1] /\ end <= m
        /\ s = [text |-> SubSeq(p, at + 2, end), next |-> end]
    BY <1>1, <1>2, <1>4, StringForm
  <2>2. Utf8(s.text)
    BY <1>1, StringForm
  <2>3. s.text = SubSeq(p, at + 2, end)
    BY <2>1
  <2> QED
    BY <2>1, <2>2, <2>3
<1>6. at \in 0 .. n - 1 /\ end <= n /\ at + 1 \in 1 .. m
  BY <1>3, <1>5
<1>7. \A i \in at + 2 .. end : i \in 1 .. m
  BY <1>5
<1>8. end = at + 1 + q[at + 1]
  BY <1>3, <1>5, <1>6
<1>9. \A i \in at + 2 .. end : q[i] = p[i]
  BY <1>3, <1>5, <1>7
<1>10. SubSeq(p, at + 2, end) = SubSeq(q, at + 2, end)
  <2> DEFINE u == SubSeq(p, at + 2, end)
             v == SubSeq(q, at + 2, end)
  <2>1. \A i \in at + 2 .. end : p[i] \in Byte /\ q[i] \in Byte
    BY <1>1, <1>2, <1>3, <1>7
  <2>2. PICK from \in Int : from = at + 2
    BY <1>5
  <2>3. /\ u \in Seq(Byte) /\ v \in Seq(Byte)
        /\ Len(u) = IF from <= end THEN end - from + 1 ELSE 0
        /\ Len(v) = IF from <= end THEN end - from + 1 ELSE 0
        /\ \A i \in 1 .. end - from + 1 : u[i] = p[from + i - 1] /\ v[i] = q[from + i - 1]
    BY <2>1, <2>2, SubSeqProperties
  <2> HIDE DEF u, v
  <2>4. ASSUME NEW i \in 1 .. Len(u)
        PROVE  u[i] = v[i]
    <3>1. i \in 1 .. end - from + 1 /\ from + i - 1 \in from .. end
      BY <2>3
    <3> QED
      BY <1>9, <2>2, <2>3, <3>1
  <2>5. u = v
    BY <2>3, <2>4, SeqEqual
  <2> QED
    BY <2>5 DEF u, v
<1>11. [text |-> SubSeq(q, at + 2, end), next |-> end] \in TakeString(q, at)
  <2>1. Utf8(SubSeq(q, at + 2, end))
    BY <1>5, <1>10, Zenon
  <2> QED
    BY <1>1, <1>2, <1>6, <1>8, <2>1, StringTaken
<1> QED
  BY <1>5, <1>10, <1>11

(* The versions of a firmware, one at a time. *)
NoneYet(at) == {[list |-> <<>>, next |-> at + 1]}
OneMore(p, sofar) ==
    UNION {{[list |-> Append(before.list, s.text), next |-> s.next] :
              s \in TakeString(p, before.next + 1)} : before \in sofar}

LEMMA OneMoreHas ==
    ASSUME NEW p, NEW sofar, NEW before \in sofar, NEW s \in TakeString(p, before.next + 1)
    PROVE  [list |-> Append(before.list, s.text), next |-> s.next] \in OneMore(p, sofar)
<1> DEFINE more(b) == {[list |-> Append(b.list, t.text), next |-> t.next] :
                         t \in TakeString(p, b.next + 1)}
<1>1. [list |-> Append(before.list, s.text), next |-> s.next] \in more(before)
  OBVIOUS
<1>2. OneMore(p, sofar) = UNION {more(b) : b \in sofar}
  BY DEF OneMore
<1> HIDE DEF more
<1> QED
  BY <1>1, <1>2

(* from[n] is what n versions make of p. *)
VersionsAre(p, at, from) ==
    /\ from[0] = NoneYet(at)
    /\ \A n \in Nat : from[n + 1] = OneMore(p, from[n])
    /\ Versions(p, at) = UNION {from[At(p, x)] : x \in {at} \cap 0 .. Len(p) - 1}

LEMMA VersionsForm ==
    ASSUME NEW p \in Seq(Byte), NEW at \in Nat
    PROVE  \E from : VersionsAre(p, at, from)
<1> DEFINE V == SUBSET [list : Seq(Seq(Byte)), next : Nat]
           step == [i \in Nat \ {0} |-> [sofar \in V |-> OneMore(p, sofar)]]
           Unfolds(f) == f = [i \in Nat |->
               IF i = 0 THEN {[list |-> <<>>, next |-> at + 1]}
               ELSE UNION {{[list |-> Append(before.list, s.text), next |-> s.next] :
                              s \in TakeString(p, before.next + 1)} : before \in f[i - 1]}]
           from == CHOOSE f : Unfolds(f)
<1>1. NoneYet(at) \in V
  BY DEF NoneYet
<1>2. ASSUME NEW sofar \in V
      PROVE  OneMore(p, sofar) \in V
  <2>1. ASSUME NEW before \in sofar, NEW s \in TakeString(p, before.next + 1)
        PROVE  [list |-> Append(before.list, s.text), next |-> s.next]
                  \in [list : Seq(Seq(Byte)), next : Nat]
    <3>1. s.text \in Seq(Byte) /\ s.next \in Nat /\ before.list \in Seq(Seq(Byte))
      BY <2>1, StringForm
    <3> QED
      BY <3>1
  <2>2. ASSUME NEW x \in OneMore(p, sofar)
        PROVE  x \in [list : Seq(Seq(Byte)), next : Nat]
    <3>1. PICK before \in sofar : \E s \in TakeString(p, before.next + 1) :
             x = [list |-> Append(before.list, s.text), next |-> s.next]
      BY DEF OneMore
    <3> QED
      BY <2>1, <3>1
  <2> QED
    BY <2>2
<1>3. step \in [Nat \ {0} -> [V -> V]]
  BY <1>2
<1> HIDE DEF V
<1>4. PICK f \in [Nat -> V] : \A n \in Nat : Recurs(f, n, NoneYet(at), step)
  BY <1>1, <1>3, RecursForEver
<1>5. ASSUME NEW i \in Nat
      PROVE  f[i] = IF i = 0 THEN NoneYet(at) ELSE OneMore(p, f[i - 1])
  <2>1. CASE i = 0
    BY <1>4, <2>1 DEF Recurs
  <2>2. CASE i # 0
    <3>1. i \in 1 .. i /\ i - 1 \in Nat /\ i \in Nat \ {0}
      BY <2>2
    <3>2. f[i] = step[i][f[i - 1]]
      BY <1>4, <3>1 DEF Recurs
    <3>3. f[i - 1] \in V
      BY <1>4, <3>1
    <3> QED
      BY <2>2, <3>1, <3>2, <3>3
  <2> QED
    BY <2>1, <2>2
<1>6. Unfolds(f)
  BY <1>4, <1>5, Zenon DEF NoneYet, OneMore
<1>7. Unfolds(from)
  BY <1>6, Zenon
<1>8. Versions(p, at) = UNION {from[At(p, x)] : x \in {at} \cap 0 .. Len(p) - 1}
  BY Zenon DEF Versions
<1> HIDE DEF from
<1>9. from[0] = NoneYet(at)
  BY <1>7 DEF NoneYet
<1>10. ASSUME NEW n \in Nat
       PROVE  from[n + 1] = OneMore(p, from[n])
  <2>1. n + 1 \in Nat /\ n + 1 # 0 /\ (n + 1) - 1 = n
    OBVIOUS
  <2> QED
    BY <1>7, <2>1 DEF OneMore
<1> QED
  BY <1>8, <1>9, <1>10 DEF VersionsAre

LEMMA VersionsOfPrefix ==
    ASSUME NEW p, NEW q, Prefix(p, q), NEW at \in Nat
    PROVE  Versions(p, at) \subseteq Versions(q, at)
<1>1. p \in Seq(Byte) /\ q \in Seq(Byte)
  BY DEF Prefix
<1>2. PICK f, g : VersionsAre(p, at, f) /\ VersionsAre(q, at, g)
  BY <1>1, VersionsForm
<1>3. /\ f[0] = NoneYet(at) /\ \A n \in Nat : f[n + 1] = OneMore(p, f[n])
      /\ g[0] = NoneYet(at) /\ \A n \in Nat : g[n + 1] = OneMore(q, g[n])
  BY <1>2 DEF VersionsAre
<1> DEFINE T == {n \in Nat : f[n] \subseteq g[n]}
<1>4. 0 \in T
  BY <1>3
<1>5. ASSUME NEW n \in Nat, n \in T
      PROVE  n + 1 \in T
  <2>1. OneMore(p, f[n]) \subseteq OneMore(q, g[n])
    <3> SUFFICES ASSUME NEW x \in OneMore(p, f[n])
                 PROVE  x \in OneMore(q, g[n])
      OBVIOUS
    <3>1. PICK before \in f[n] : \E s \in TakeString(p, before.next + 1) :
             x = [list |-> Append(before.list, s.text), next |-> s.next]
      BY DEF OneMore
    <3>2. PICK s \in TakeString(p, before.next + 1) :
             x = [list |-> Append(before.list, s.text), next |-> s.next]
      BY <3>1
    <3>3. before \in g[n] /\ s \in TakeString(q, before.next + 1)
      BY <1>5, StringOfPrefix
    <3> QED
      BY <3>2, <3>3, OneMoreHas
  <2>2. f[n + 1] \subseteq g[n + 1]
    BY <1>3, <2>1, Zenon
  <2> QED
    BY <2>2
<1> HIDE DEF T
<1>6. \A n \in Nat : f[n] \subseteq g[n]
  <2>1. Nat \subseteq T
    BY <1>4, <1>5, SetInduction
  <2> QED
    BY <2>1 DEF T
<1> SUFFICES ASSUME NEW v \in Versions(p, at)
             PROVE  v \in Versions(q, at)
  OBVIOUS
<1>7. at \in 0 .. Len(p) - 1 /\ v \in f[At(p, at)]
  BY <1>2, Zenon DEF VersionsAre
<1>8. at \in 0 .. Len(q) - 1 /\ At(p, at) = At(q, at) /\ At(p, at) \in Nat
  <2>1. PICK m \in Nat, n \in Nat : m = Len(p) /\ n = Len(q)
    BY <1>1
  <2>2. m <= n /\ \A i \in 1 .. m : p[i] = q[i]
    BY <2>1 DEF Prefix
  <2>3. at \in 0 .. n - 1 /\ at + 1 \in 1 .. m
    BY <1>7, <2>1, <2>2
  <2>4. p[at + 1] \in Byte
    BY <1>1, <2>1, <2>3
  <2> QED
    BY <2>1, <2>2, <2>3, <2>4, ByteNatural DEF At
<1>9. v \in g[At(q, at)]
  BY <1>6, <1>7, <1>8
<1> QED
  BY <1>2, <1>8, <1>9, Zenon DEF VersionsAre

LEMMA InfoForm ==
    ASSUME NEW p, NEW r
    PROVE  r \in ParseDeviceInfo(p) <=>
              /\ Answers(p, 4, {\h4B})
              /\ \E model \in TakeString(p, 3) : \E serial \in TakeString(p, model.next) :
                 \E id \in TakeString(p, serial.next + 2) :
                 \E versions \in Versions(p, id.next) :
                    r = [model_code |-> model.text, serial |-> serial.text,
                         device_id |-> id.text, firmware |-> versions.list]
<1>1. CASE Answers(p, 4, {\h4B})
  BY <1>1, SMT DEF ParseDeviceInfo
<1>2. CASE ~ Answers(p, 4, {\h4B})
  BY <1>2, Zenon DEF ParseDeviceInfo
<1> QED
  BY <1>1, <1>2

LEMMA InfoOfPrefix ==
    ASSUME NEW p, NEW q, Prefix(p, q), Answers(q, 4, {\h4B})
    PROVE  ParseDeviceInfo(p) \subseteq ParseDeviceInfo(q)
<1> SUFFICES ASSUME NEW r \in ParseDeviceInfo(p)
             PROVE  r \in ParseDeviceInfo(q)
  OBVIOUS
<1>1. PICK model \in TakeString(p, 3) : \E serial \in TakeString(p, model.next) :
         \E id \in TakeString(p, serial.next + 2) : \E versions \in Versions(p, id.next) :
            r = [model_code |-> model.text, serial |-> serial.text,
                 device_id |-> id.text, firmware |-> versions.list]
  BY InfoForm
<1>2. PICK serial \in TakeString(p, model.next) :
         \E id \in TakeString(p, serial.next + 2) : \E versions \in Versions(p, id.next) :
            r = [model_code |-> model.text, serial |-> serial.text,
                 device_id |-> id.text, firmware |-> versions.list]
  BY <1>1
<1>3. PICK id \in TakeString(p, serial.next + 2) : \E versions \in Versions(p, id.next) :
            r = [model_code |-> model.text, serial |-> serial.text,
                 device_id |-> id.text, firmware |-> versions.list]
  BY <1>2
<1>4. PICK versions \in Versions(p, id.next) :
            r = [model_code |-> model.text, serial |-> serial.text,
                 device_id |-> id.text, firmware |-> versions.list]
  BY <1>3
<1>5. /\ model \in TakeString(q, 3) /\ serial \in TakeString(q, model.next)
      /\ id \in TakeString(q, serial.next + 2)
  BY StringOfPrefix
<1>6. id.next \in Nat
  BY StringForm DEF Prefix
<1>7. versions \in Versions(q, id.next)
  BY <1>6, VersionsOfPrefix
<1> QED
  BY <1>4, <1>5, <1>7, InfoForm

LEMMA AnswersOfPrefix ==
    ASSUME NEW p, NEW q, Prefix(p, q), NEW n \in Nat \ {0}, NEW opcodes, Answers(p, n, opcodes)
    PROVE  Answers(q, n, opcodes) /\ \A i \in 0 .. n - 1 : At(p, i) = At(q, i)
<1>1. PICK k \in Nat, l \in Nat : k = Len(p) /\ l = Len(q)
  BY DEF Prefix
<1>2. k <= l /\ k >= n /\ \A i \in 1 .. k : p[i] = q[i]
  BY <1>1 DEF Prefix, Answers
<1>3. \A i \in 0 .. n - 1 : At(p, i) = At(q, i)
  BY <1>2 DEF At
<1>4. At(q, 0) \in opcodes
  <2>1. At(p, 0) = At(q, 0)
    BY <1>3
  <2> QED
    BY <2>1 DEF Answers
<1> QED
  BY <1>1, <1>2, <1>3, <1>4 DEF Answers

LEMMA EqOfPrefix ==
    ASSUME NEW p, NEW q, Prefix(p, q)
    PROVE  ParseEq(p) \subseteq ParseEq(q)
<1>1. CASE Answers(p, 4, {\h57, \h59}) /\ At(p, 3) = 6 /\ Len(p) >= 10
  <2>1. Answers(p, 10, {\h57, \h59})
    BY <1>1 DEF Answers
  <2>2. Answers(q, 10, {\h57, \h59}) /\ \A i \in 0 .. 9 : At(p, i) = At(q, i)
    BY <2>1, AnswersOfPrefix
  <2>3. Answers(q, 4, {\h57, \h59}) /\ Len(q) >= 10
    <3>1. Len(q) \in Nat
      BY DEF Prefix
    <3> QED
      BY <2>2, <3>1 DEF Answers
  <2>4. At(q, 2) = At(p, 2) /\ At(q, 3) = 6 /\ \A i \in 1 .. 6 : At(p, 3 + i) = At(q, 3 + i)
    BY <1>1, <2>2
  <2>5. [i \in 1 .. 6 |-> Band(At(p, 3 + i))] = [i \in 1 .. 6 |-> Band(At(q, 3 + i))]
    BY <2>4
  <2> QED
    BY <1>1, <2>3, <2>4, <2>5, Zenon DEF ParseEq
<1>2. CASE ~ (Answers(p, 4, {\h57, \h59}) /\ At(p, 3) = 6 /\ Len(p) >= 10)
  BY <1>2, Zenon DEF ParseEq
<1> QED
  BY <1>1, <1>2

LEMMA NameOfPrefix ==
    ASSUME NEW p, NEW q, Prefix(p, q)
    PROVE  ParseModelName(p) \subseteq ParseModelName(q)
<1>1. CASE Answers(p, 3, {\h05})
  <2>1. Answers(q, 3, {\h05})
    BY <1>1, AnswersOfPrefix
  <2>2. TakeString(p, 2) \subseteq TakeString(q, 2)
    BY StringOfPrefix
  <2> QED
    BY <1>1, <2>1, <2>2, Zenon DEF ParseModelName
<1>2. CASE ~ Answers(p, 3, {\h05})
  BY <1>2 DEF ParseModelName
<1> QED
  BY <1>1, <1>2

LEMMA ShortOfPrefix ==
    ASSUME NEW p, NEW q, Prefix(p, q)
    PROVE  /\ ParseBattery(p) \subseteq ParseBattery(q)
           /\ ParseNoise(p) \subseteq ParseNoise(q)
           /\ ParseDsee(p) \subseteq ParseDsee(q)
           /\ ParseVoiceGuidance(p) \subseteq ParseVoiceGuidance(q)
           /\ ParseVolume(p) \subseteq ParseVolume(q)
<1>1. ParseBattery(p) \subseteq ParseBattery(q)
  <2>1. CASE Answers(p, 4, {\h23})
    <3>1. Answers(q, 4, {\h23}) /\ \A i \in 0 .. 3 : At(p, i) = At(q, i)
      BY <2>1, AnswersOfPrefix
    <3>2. At(p, 2) = At(q, 2) /\ At(p, 3) = At(q, 3)
      BY <3>1
    <3> QED
      BY <2>1, <3>1, <3>2, Zenon DEF ParseBattery
  <2> QED
    BY <2>1 DEF ParseBattery
<1>2. ParseNoise(p) \subseteq ParseNoise(q)
  <2>1. CASE Answers(p, 8, {\h67, \h69}) /\ At(p, 1) = \h16
    <3>1. Answers(q, 8, {\h67, \h69}) /\ \A i \in 0 .. 7 : At(p, i) = At(q, i)
      BY <2>1, AnswersOfPrefix
    <3>2. /\ At(p, 1) = At(q, 1) /\ At(p, 3) = At(q, 3) /\ At(p, 4) = At(q, 4)
          /\ At(p, 6) = At(q, 6) /\ At(p, 7) = At(q, 7)
      BY <3>1
    <3> QED
      BY <2>1, <3>1, <3>2, Zenon DEF ParseNoise
  <2>2. CASE ~ (Answers(p, 8, {\h67, \h69}) /\ At(p, 1) = \h16)
    BY <2>2, Zenon DEF ParseNoise
  <2> QED
    BY <2>1, <2>2
<1>3. ParseDsee(p) \subseteq ParseDsee(q)
  <2>1. CASE Answers(p, 3, {\hE7, \hE9})
    <3>1. Answers(q, 3, {\hE7, \hE9}) /\ At(p, 2) = At(q, 2)
      BY <2>1, AnswersOfPrefix
    <3> QED
      BY <2>1, <3>1, Zenon DEF ParseDsee
  <2> QED
    BY <2>1 DEF ParseDsee
<1>4. ParseVoiceGuidance(p) \subseteq ParseVoiceGuidance(q)
  <2>1. CASE Answers(p, 3, {\h47, \h49})
    <3>1. Answers(q, 3, {\h47, \h49}) /\ At(p, 2) = At(q, 2)
      BY <2>1, AnswersOfPrefix
    <3> QED
      BY <2>1, <3>1, Zenon DEF ParseVoiceGuidance
  <2> QED
    BY <2>1 DEF ParseVoiceGuidance
<1>5. ParseVolume(p) \subseteq ParseVolume(q)
  <2>1. CASE Answers(p, 3, {\hA7, \hA9})
    <3>1. Answers(q, 3, {\hA7, \hA9}) /\ At(p, 2) = At(q, 2)
      BY <2>1, AnswersOfPrefix
    <3> QED
      BY <2>1, <3>1, Zenon DEF ParseVolume
  <2> QED
    BY <2>1 DEF ParseVolume
<1> QED
  BY <1>1, <1>2, <1>3, <1>4, <1>5

LEMMA ParseOfPrefix ==
    ASSUME NEW f \in Features, NEW p, NEW q, Prefix(p, q)
    PROVE  Parse(f, p) \subseteq Parse(f, q)
<1>1. CASE f = "battery"
  BY <1>1, ShortOfPrefix DEF Parse
<1>2. CASE f = "noise"
  BY <1>2, ShortOfPrefix DEF Parse
<1>3. CASE f = "eq"
  BY <1>3, EqOfPrefix DEF Parse
<1>4. CASE f = "dsee"
  BY <1>4, ShortOfPrefix DEF Parse
<1>5. CASE f = "voice_guidance"
  BY <1>5, ShortOfPrefix DEF Parse
<1>6. CASE f = "volume"
  BY <1>6, ShortOfPrefix DEF Parse
<1>7. CASE f = "model_name"
  BY <1>7, NameOfPrefix DEF Parse
<1>8. CASE f = "device_info"
  <2>1. CASE Answers(p, 4, {\h4B})
    <3>1. Answers(q, 4, {\h4B})
      BY <2>1, AnswersOfPrefix
    <3> QED
      BY <1>8, <3>1, InfoOfPrefix DEF Parse
  <2>2. CASE ~ Answers(p, 4, {\h4B})
    BY <1>8, <2>2, Zenon DEF Parse, ParseDeviceInfo
  <2> QED
    BY <2>1, <2>2
<1> QED
  BY <1>1, <1>2, <1>3, <1>4, <1>5, <1>6, <1>7, <1>8 DEF Features

(* A payload that breaks off anywhere is refused, or reads as the whole of *)
(* it does: no length and no count is trusted beyond the end of it.        *)
THEOREM BrokenOffIsRefused == Spec => []NoPartialReading
<1>1. IInv => NoPartialReading
  <2> SUFFICES ASSUME IInv, taken = {feature}
               PROVE  reading \subseteq Parse(feature, Whole(pushed[1]))
    BY DEF NoPartialReading, At
  <2>1. feature \in Features
    BY DEF IInv, TypeOK
  <2> QED
    BY <2>1, PushedPrefix, ParseOfPrefix
<1> QED
  BY <1>1, Invariance, PTL

----------------------------------------------------------------------------
(* What is read of the whole payload *)

(* p is all of what a headset that holds h says of f, by an opcode that a  *)
(* request for f takes.                                                    *)
Shown(f, p, h) ==
    /\ p \in Seq(Byte) /\ h \in Seq(Byte) /\ Len(p) = Len(h) + 2
    /\ p[1] \in Opcodes(f) /\ p[1] \in Accepts(f) /\ p[2] = Type(f)
    /\ \A i \in 1 .. Len(h) : p[2 + i] = h[i]

LEMMA CompleteShown ==
    ASSUME IInv, taken = {feature}, Complete
    PROVE  Shown(feature, pushed, held)
<1>1. feature \in Features /\ held \in Seq(Byte) /\ pushed \in Seq(Byte)
  BY DEF IInv, TypeOK
<1>2. PICK op \in Opcodes(feature) : op = pushed[1]
  BY PushedPrefix
<1>3. op \in Accepts(feature) /\ Prefix(pushed, Whole(op))
  BY <1>2, PushedPrefix
<1>4. PICK l \in Nat : l = Len(held)
  BY <1>1
<1>5. /\ Len(Whole(op)) = l + 2 /\ Whole(op)[2] = Type(feature)
      /\ \A i \in 1 .. l : Whole(op)[2 + i] = held[i]
  BY <1>1, <1>4, WholeForm
<1>6. Len(pushed) = l + 2
  BY <1>4 DEF Complete
<1>7. \A i \in 1 .. l + 2 : pushed[i] = Whole(op)[i]
  BY <1>3, <1>6 DEF Prefix
<1>8. pushed[2] = Type(feature) /\ \A i \in 1 .. l : pushed[2 + i] = held[i]
  <2>1. 2 \in 1 .. l + 2 /\ \A i \in 1 .. l : 2 + i \in 1 .. l + 2
    OBVIOUS
  <2> QED
    BY <1>5, <1>7, <2>1
<1> QED
  BY <1>1, <1>2, <1>3, <1>4, <1>6, <1>8 DEF Shown

(* The same by the places that a parser counts. *)
ShownAt(f, p, h, l) ==
    /\ p \in Seq(Byte) /\ h \in Seq(Byte) /\ Len(p) = l + 2
    /\ At(p, 0) \in Opcodes(f) /\ At(p, 0) \in Accepts(f) /\ At(p, 1) = Type(f)
    /\ \A i \in 1 .. l : At(p, i + 1) = h[i]

LEMMA ShownPlaces ==
    ASSUME NEW f, NEW p, NEW h, Shown(f, p, h), NEW l \in Nat, Len(h) = l
    PROVE  ShownAt(f, p, h, l)
<1>1. /\ p \in Seq(Byte) /\ h \in Seq(Byte) /\ Len(p) = l + 2
      /\ p[1] \in Opcodes(f) /\ p[1] \in Accepts(f)
      /\ p[2] = Type(f) /\ \A i \in 1 .. l : p[2 + i] = h[i]
  BY DEF Shown
<1>2. ASSUME NEW i \in 1 .. l
      PROVE  At(p, i + 1) = h[i]
  <2>1. (i + 1) + 1 = 2 + i
    OBVIOUS
  <2> QED
    BY <1>1, <2>1 DEF At
<1> QED
  BY <1>1, <1>2 DEF At, ShownAt

LEMMA NoiseBack ==
    ASSUME NEW p, NEW h, Shown("noise", p, h), Laid("noise", h)
    PROVE  /\ ParseNoise(p) # {}
           /\ \A v \in Values("noise"), r \in ParseNoise(p) : Encodes("noise", h, v) =>
                 /\ r.mode = v.mode
                 /\ r.mode = "ambient" =>
                       r.voice = v.voice /\ r.level = IF v.level = 0 THEN 1 ELSE v.level
<1>1. Len(h) = 6
  BY DEF Laid
<1>2. /\ Len(p) = 8 /\ At(p, 0) \in {\h67, \h69} /\ At(p, 1) = \h16
      /\ At(p, 3) = h[2] /\ At(p, 4) = h[3] /\ At(p, 6) = h[5] /\ At(p, 7) = h[6]
  <2>0. ShownAt("noise", p, h, 6)
    BY <1>1, ShownPlaces
  <2>1. /\ Len(p) = 6 + 2 /\ At(p, 0) \in Accepts("noise") /\ At(p, 1) = Type("noise")
        /\ \A i \in 1 .. 6 : At(p, i + 1) = h[i]
    BY <2>0 DEF ShownAt
  <2> QED
    BY <2>1 DEF Accepts, Type, Request
<1>3. ParseNoise(p) =
         {[mode |-> IF h[2] = 0 THEN "off"
                    ELSE IF h[3] = 0 THEN "noise_cancelling" ELSE "ambient",
           voice |-> h[5] # 0,
           level |-> h[6]]}
  <2>1. Answers(p, 8, {\h67, \h69}) /\ At(p, 1) = \h16
    BY <1>2 DEF Answers
  <2> QED
    BY <1>2, <2>1, Zenon DEF ParseNoise
<1>4. ASSUME NEW v \in Values("noise"), Encodes("noise", h, v), NEW r \in ParseNoise(p)
      PROVE  /\ r.mode = v.mode
             /\ r.mode = "ambient" =>
                   r.voice = v.voice /\ r.level = IF v.level = 0 THEN 1 ELSE v.level
  <2>1. v \in [mode : {"off", "noise_cancelling", "ambient"}, voice : BOOLEAN, level : Byte]
    BY DEF Values
  <2>2. /\ h[2] = Flag(v.mode # "off") /\ h[3] = Flag(v.mode = "ambient")
        /\ v.mode = "ambient" =>
              h[5] = Flag(v.voice) /\ h[6] = IF v.level = 0 THEN 1 ELSE v.level
    BY <1>4 DEF Encodes
  <2>3. /\ r.mode = IF h[2] = 0 THEN "off"
                    ELSE IF h[3] = 0 THEN "noise_cancelling" ELSE "ambient"
        /\ r.voice = (h[5] # 0) /\ r.level = h[6]
    BY <1>3
  <2>4. r.mode = v.mode
    BY <2>1, <2>2, <2>3 DEF Flag
  <2>5. CASE v.mode = "ambient"
    <3>1. h[5] = Flag(v.voice) /\ r.level = IF v.level = 0 THEN 1 ELSE v.level
      BY <2>2, <2>3, <2>5
    <3>2. v.voice \in BOOLEAN
      BY <2>1
    <3>3. r.voice = v.voice
      <4>1. Flag(v.voice) # 0 <=> v.voice
        BY <3>2, FlagForms
      <4> QED
        BY <2>3, <3>1, <3>2, <4>1, Zenon
    <3> QED
      BY <2>4, <3>1, <3>3
  <2> QED
    BY <2>4, <2>5
<1> QED
  BY <1>3, <1>4

LEMMA EqBack ==
    ASSUME NEW p, NEW h, Shown("eq", p, h), Laid("eq", h)
    PROVE  /\ ParseEq(p) # {}
           /\ \A v \in Values("eq"), r \in ParseEq(p) : Encodes("eq", h, v) =>
                 r.preset = v.preset /\ (v.bands # <<>> => r.bands = v.bands)
<1>1. Len(h) = 8 /\ h[2] = 6 /\ \E preset \in Presets : h[1] = PresetByte[preset]
  BY DEF Laid
<1>2. /\ Len(p) = 10 /\ At(p, 0) \in {\h57, \h59} /\ At(p, 2) = h[1] /\ At(p, 3) = 6
      /\ \A i \in 1 .. 6 : At(p, 3 + i) = h[2 + i]
  <2>0. ShownAt("eq", p, h, 8)
    BY <1>1, ShownPlaces
  <2>1. /\ Len(p) = 8 + 2 /\ At(p, 0) \in Accepts("eq")
        /\ \A i \in 1 .. 8 : At(p, i + 1) = h[i]
    BY <2>0 DEF ShownAt
  <2>2. ASSUME NEW i \in 1 .. 6
        PROVE  At(p, 3 + i) = h[2 + i]
    <3>1. 2 + i \in 1 .. 8 /\ (2 + i) + 1 = 3 + i
      OBVIOUS
    <3> QED
      BY <2>1, <3>1
  <2>3. At(p, 2) = h[1] /\ At(p, 3) = h[2]
    BY <2>1
  <2> QED
    BY <1>1, <2>1, <2>2, <2>3 DEF Accepts
<1>3. ParseEq(p) = {[preset |-> preset, bands |-> [i \in 1 .. 6 |-> Band(At(p, 3 + i))]] :
                      preset \in PresetOf(h[1])}
  <2>1. Answers(p, 4, {\h57, \h59}) /\ At(p, 3) = 6 /\ Len(p) >= 10
    BY <1>2 DEF Answers
  <2> QED
    BY <1>2, <2>1, Zenon DEF ParseEq
<1>4. ParseEq(p) # {}
  <2>1. PICK preset \in Presets : h[1] = PresetByte[preset]
    BY <1>1
  <2>2. preset \in PresetOf(h[1])
    BY <2>1 DEF PresetOf
  <2> QED
    BY <1>3, <2>2
<1>5. ASSUME NEW v \in Values("eq"), Encodes("eq", h, v), NEW r \in ParseEq(p)
      PROVE  r.preset = v.preset /\ (v.bands # <<>> => r.bands = v.bands)
  <2>1. /\ v.preset \in Presets /\ h[1] = PresetByte[v.preset]
        /\ v.bands # <<>> => /\ v.bands \in [1 .. 6 -> -128 .. 127]
                             /\ \A i \in 1 .. 6 : /\ v.bands[i] \in -10 .. 10
                                                  /\ h[2 + i] = v.bands[i] + 10
    BY <1>5 DEF Values, Encodes
  <2>2. r.preset \in PresetOf(h[1]) /\ r.bands = [i \in 1 .. 6 |-> Band(At(p, 3 + i))]
    BY <1>3
  <2>3. r.preset = v.preset
    BY <2>1, <2>2, PresetBytes
  <2>4. CASE v.bands # <<>>
    <3>1. ASSUME NEW i \in 1 .. 6
          PROVE  Band(At(p, 3 + i)) = v.bands[i]
      <4>1. PICK b \in -10 .. 10 : b = v.bands[i]
        BY <2>1, <2>4
      <4>2. At(p, 3 + i) = b + 10
        BY <1>2, <2>1, <2>4, <4>1
      <4>3. Band(b + 10) = b
        BY DEF Band
      <4> QED
        BY <4>1, <4>2, <4>3
    <3>2. r.bands = v.bands
      BY <2>1, <2>2, <2>4, <3>1
    <3> QED
      BY <2>3, <3>2
  <2> QED
    BY <2>3, <2>4
<1> QED
  BY <1>4, <1>5

LEMMA ShortBack ==
    ASSUME NEW p, NEW h
    PROVE  /\ Shown("battery", p, h) /\ Laid("battery", h) => ParseBattery(p) # {}
           /\ Shown("dsee", p, h) /\ Laid("dsee", h) => ParseDsee(p) = {h[1] # 0}
           /\ Shown("voice_guidance", p, h) /\ Laid("voice_guidance", h) =>
                 ParseVoiceGuidance(p) = {h[1] = 0}
           /\ Shown("volume", p, h) /\ Laid("volume", h) => ParseVolume(p) = {h[1]}
<1>1. ASSUME Shown("battery", p, h), Laid("battery", h)
      PROVE  ParseBattery(p) # {}
  <2>1. ShownAt("battery", p, h, 2)
    BY <1>1, ShownPlaces DEF Laid
  <2>2. Len(p) = 4 /\ At(p, 0) = \h23
    BY <2>1 DEF ShownAt, Accepts, Opcodes, Request
  <2>3. Answers(p, 4, {\h23})
    BY <2>2 DEF Answers
  <2>4. ParseBattery(p) = {[percent |-> At(p, 2), charging |-> At(p, 3) # 0]}
    BY <2>3, Zenon DEF ParseBattery
  <2> QED
    BY <2>4
<1>2. ASSUME Shown("dsee", p, h), Laid("dsee", h)
      PROVE  ParseDsee(p) = {h[1] # 0}
  <2>1. ShownAt("dsee", p, h, 1)
    BY <1>2, ShownPlaces DEF Laid
  <2>2. Len(p) = 3 /\ At(p, 0) \in {\hE7, \hE9} /\ At(p, 2) = h[1]
    BY <2>1 DEF ShownAt, Accepts
  <2>3. Answers(p, 3, {\hE7, \hE9})
    BY <2>2 DEF Answers
  <2> QED
    BY <2>2, <2>3, Zenon DEF ParseDsee
<1>3. ASSUME Shown("voice_guidance", p, h), Laid("voice_guidance", h)
      PROVE  ParseVoiceGuidance(p) = {h[1] = 0}
  <2>1. ShownAt("voice_guidance", p, h, 2)
    BY <1>3, ShownPlaces DEF Laid
  <2>2. Len(p) = 4 /\ At(p, 0) \in {\h47, \h49} /\ At(p, 2) = h[1]
    BY <2>1 DEF ShownAt, Accepts
  <2>3. Answers(p, 3, {\h47, \h49})
    BY <2>2 DEF Answers
  <2> QED
    BY <2>2, <2>3, Zenon DEF ParseVoiceGuidance
<1>4. ASSUME Shown("volume", p, h), Laid("volume", h)
      PROVE  ParseVolume(p) = {h[1]}
  <2>1. ShownAt("volume", p, h, 1)
    BY <1>4, ShownPlaces DEF Laid
  <2>2. Len(p) = 3 /\ At(p, 0) \in {\hA7, \hA9} /\ At(p, 2) = h[1]
    BY <2>1 DEF ShownAt, Accepts
  <2>3. Answers(p, 3, {\hA7, \hA9})
    BY <2>2 DEF Answers
  <2> QED
    BY <2>2, <2>3, Zenon DEF ParseVolume
<1> QED
  BY <1>1, <1>2, <1>3, <1>4

LEMMA AsciiIsOneByte ==
    ASSUME NEW b \in Nat, b <= 127
    PROVE  Width(b) = 1
BY DEF Width

LEMMA AsciiIsUtf8 ==
    ASSUME NEW s \in Seq(Ascii)
    PROVE  Utf8(s)
<1> SUFFICES ASSUME NEW i \in DOMAIN s
             PROVE  Width(s[i]) = 1
  BY DEF Utf8
<1>1. PICK b \in Ascii : b = s[i]
  OBVIOUS
<1>2. b \in Nat /\ b <= 127
  BY DEF Ascii
<1> QED
  BY <1>1, <1>2, AsciiIsOneByte

(* A string of n bytes below 128 is taken, whatever stands around it. *)
LEMMA StringThere ==
    ASSUME NEW f, NEW p, NEW h, NEW l \in Nat, ShownAt(f, p, h, l), Sized(h, l),
           NEW at \in Nat, at >= 2, NEW n \in Nat, at + n <= l + 1, h[at - 1] = n
    PROVE  \E s \in TakeString(p, at) : s.next = at + 1 + n
<1>1. /\ p \in Seq(Byte) /\ Len(p) = l + 2
      /\ \A i \in 1 .. l : At(p, i + 1) = h[i]
  BY DEF ShownAt
<1>2. \A i \in 1 .. l : h[i] \in Ascii
  BY DEF Sized
<1>3. \A i \in 1 .. l : p[i + 2] = h[i]
  <2> TAKE i \in 1 .. l
  <2>1. At(p, i + 1) = p[(i + 1) + 1] /\ (i + 1) + 1 = i + 2
    BY DEF At
  <2> QED
    BY <1>1, <2>1
<1>4. PICK end \in Nat : end = at + 1 + n
  OBVIOUS
<1>5. at - 1 \in 1 .. l /\ (at - 1) + 2 = at + 1 /\ at \in 0 .. (l + 2) - 1 /\ end <= l + 2
  BY <1>4
<1>6. p[at + 1] = n
  BY <1>3, <1>5
<1>7. ASSUME NEW i \in at + 2 .. end
      PROVE  p[i] \in Ascii
  <2>1. i - 2 \in 1 .. l /\ (i - 2) + 2 = i
    BY <1>4, <1>5
  <2> QED
    BY <1>2, <1>3, <2>1
<1>8. [text |-> SubSeq(p, at + 2, end), next |-> end] \in TakeString(p, at)
  <2>1. SubSeq(p, at + 2, end) \in Seq(Ascii)
    BY <1>4, <1>7, SubSeqProperties
  <2>2. Utf8(SubSeq(p, at + 2, end))
    BY <2>1, AsciiIsUtf8
  <2> QED
    BY <1>1, <1>4, <1>5, <1>6, <2>2, StringTaken
<1> QED
  BY <1>4, <1>8

LEMMA UmlautIsUtf8 ==
    ASSUME NEW t \in Seq(Byte), Len(t) = 3, t[1] = 87, t[2] = \hC3, t[3] = \hA4
    PROVE  Utf8(t)
<1>1. Width(87) = 1 /\ Width(\hC3) = 2 /\ \hA4 \in Later /\ Second(\hC3) = Later
  BY DEF Width, Later, Second
<1>2. DOMAIN t = 1 .. 3
  OBVIOUS
<1>3. ASSUME NEW i \in DOMAIN t
      PROVE  \/ /\ Width(t[i]) > 0
                /\ \A k \in 1 .. Width(t[i]) - 1 :
                      /\ i + k \in DOMAIN t
                      /\ t[i + k] \in IF k = 1 THEN Second(t[i]) ELSE Later
             \/ /\ t[i] \in Later
                /\ \E k \in 1 .. 3 : i - k \in DOMAIN t /\ Width(t[i - k]) > k
  <2>1. CASE i = 1
    <3>1. Width(t[1]) = 1 /\ 1 .. 1 - 1 = {}
      BY <1>1
    <3> QED
      BY <2>1, <3>1
  <2>2. CASE i = 2
    <3>1. Width(t[2]) = 2 /\ Second(t[2]) = Later /\ t[3] \in Later
      BY <1>1
    <3>2. ASSUME NEW k \in 1 .. 2 - 1
          PROVE  k = 1 /\ 2 + k = 3 /\ 3 \in DOMAIN t
      BY <1>2
    <3> QED
      BY <2>2, <3>1, <3>2
  <2>3. CASE i = 3
    <3>1. t[3] \in Later /\ Width(t[2]) = 2
      BY <1>1
    <3>2. 1 \in 1 .. 3 /\ 3 - 1 = 2 /\ 2 \in DOMAIN t /\ 2 > 1
      BY <1>2
    <3> QED
      BY <2>3, <3>1, <3>2
  <2> QED
    BY <1>2, <2>1, <2>2, <2>3
<1> QED
  BY <1>3 DEF Utf8

(* The name with a letter of two bytes is taken too. *)
LEMMA UmlautThere ==
    ASSUME NEW p, NEW h, ShownAt("model_name", p, h, 4), UmlautAt(h)
    PROVE  TakeString(p, 2) # {}
<1>1. /\ p \in Seq(Byte) /\ Len(p) = 6
      /\ \A i \in 1 .. 4 : At(p, i + 1) = h[i]
  BY DEF ShownAt
<1>2. h[1] = 3 /\ h[2] = 87 /\ h[3] = \hC3 /\ h[4] = \hA4
  BY DEF UmlautAt
<1>3. At(p, 2) = h[1] /\ At(p, 3) = h[2] /\ At(p, 4) = h[3] /\ At(p, 5) = h[4]
  <2>1. /\ At(p, 1 + 1) = h[1] /\ At(p, 2 + 1) = h[2]
        /\ At(p, 3 + 1) = h[3] /\ At(p, 4 + 1) = h[4]
    BY <1>1
  <2> QED
    BY <2>1
<1>4. p[3] = 3 /\ p[4] = 87 /\ p[5] = \hC3 /\ p[6] = \hA4
  BY <1>2, <1>3 DEF At
<1>5. PICK t : t = SubSeq(p, 4, 6)
  OBVIOUS
<1>6. t \in Seq(Byte) /\ Len(t) = 3 /\ t[1] = p[4] /\ t[2] = p[5] /\ t[3] = p[6]
  <2>1. \A i \in 4 .. 6 : p[i] \in Byte
    <3>1. p \in Seq(Byte) /\ Len(p) = 6
      BY <1>1
    <3> TAKE i \in 4 .. 6
    <3>2. i \in 1 .. Len(p)
      BY <3>1
    <3> QED
      BY <3>1, <3>2, ElementOfSeq, Zenon
  <2>2. /\ t \in Seq(Byte) /\ Len(t) = IF 4 <= 6 THEN 6 - 4 + 1 ELSE 0
        /\ \A i \in 1 .. 6 - 4 + 1 : t[i] = p[4 + i - 1]
    BY <1>5, <2>1, SubSeqProperties
  <2> QED
    BY <2>2
<1>7. Utf8(t)
  BY <1>4, <1>6, UmlautIsUtf8
<1>8. /\ 2 \in 0 .. Len(p) - 1 /\ 6 \in Nat /\ 6 = 2 + 1 + p[2 + 1] /\ 6 <= Len(p)
      /\ Utf8(SubSeq(p, 2 + 2, 6))
  BY <1>1, <1>4, <1>5, <1>7
<1>9. [text |-> SubSeq(p, 2 + 2, 6), next |-> 6] \in TakeString(p, 2)
  BY <1>1, <1>8, StringTaken
<1> QED
  BY <1>9

LEMMA NameBack ==
    ASSUME NEW p, NEW h, Shown("model_name", p, h), Laid("model_name", h)
    PROVE  ParseModelName(p) # {}
<1>1. ASSUME NEW l \in Nat, l >= 1, ShownAt("model_name", p, h, l), TakeString(p, 2) # {}
      PROVE  ParseModelName(p) # {}
  <2>1. Answers(p, 3, {\h05})
    BY <1>1 DEF ShownAt, Answers, Accepts
  <2> QED
    BY <1>1, <2>1, Zenon DEF ParseModelName
<1>2. ASSUME NEW n \in Nat, Sized(h, n + 1), h[1] = n
      PROVE  ParseModelName(p) # {}
  <2>1. n + 1 \in Nat /\ n + 1 >= 1 /\ Len(h) = n + 1
    BY <1>2 DEF Sized
  <2>2. ShownAt("model_name", p, h, n + 1)
    BY <2>1, ShownPlaces
  <2>3. 2 + n <= (n + 1) + 1 /\ h[2 - 1] = n /\ 2 \in Nat /\ 2 >= 2
    BY <1>2
  <2>4. TakeString(p, 2) # {}
    BY <1>2, <2>1, <2>2, <2>3, StringThere
  <2> QED
    BY <1>1, <2>1, <2>2, <2>4
<1>3. CASE UmlautAt(h)
  <2>1. Len(h) = 4
    BY <1>3 DEF UmlautAt
  <2>2. ShownAt("model_name", p, h, 4)
    BY <2>1, ShownPlaces
  <2>3. TakeString(p, 2) # {}
    BY <1>3, <2>2, UmlautThere
  <2> QED
    BY <1>1, <2>2, <2>3
<1>4. \/ Sized(h, 0 + 1) /\ h[1] = 0
      \/ Sized(h, 2 + 1) /\ h[1] = 2
      \/ UmlautAt(h)
  <2>1. NameAt(h)
    BY NameForms DEF Laid
  <2> QED
    BY <2>1 DEF NameAt
<1> QED
  BY <1>2, <1>3, <1>4

LEMMA InfoBack ==
    ASSUME NEW p, NEW h, Shown("device_info", p, h), Laid("device_info", h)
    PROVE  ParseDeviceInfo(p) # {}
<1>1. InfoAt(h)
  BY InfoForms DEF Laid
<1>2. PICK l \in {11, 18} :
         /\ Sized(h, l) /\ h[2] = 2 /\ h[5] = 1 /\ h[9] = 1
         /\ l = 11 => h[11] = 0
         /\ l = 18 => h[11] = 2 /\ h[13] = 2 /\ h[17] = 1
  BY <1>1 DEF InfoAt
<1>3. ShownAt("device_info", p, h, l) /\ l \in Nat
  BY <1>2, ShownPlaces DEF Sized
<1>4. p \in Seq(Byte) /\ Len(p) = l + 2 /\ At(p, 0) = \h4B /\ At(p, 12) = h[11]
  BY <1>2, <1>3, SMTT(40) DEF ShownAt, Accepts
<1>5. Answers(p, 4, {\h4B})
  BY <1>2, <1>4 DEF Answers
<1>6. PICK model \in TakeString(p, 3) : model.next = 6
  BY <1>2, <1>3, StringThere
<1>7. PICK serial \in TakeString(p, model.next) : serial.next = 8
  BY <1>2, <1>3, <1>6, StringThere
<1>8. PICK id \in TakeString(p, serial.next + 2) : id.next = 12
  BY <1>2, <1>3, <1>7, StringThere
<1>9. Versions(p, 12) # {}
  <2>1. PICK from : VersionsAre(p, 12, from)
    BY <1>4, VersionsForm
  <2>2. from[0] = NoneYet(12) /\ \A n \in Nat : from[n + 1] = OneMore(p, from[n])
    BY <2>1 DEF VersionsAre
  <2>3. CASE l = 11
    <3>1. 12 \in 0 .. Len(p) - 1 /\ At(p, 12) = 0
      BY <1>2, <1>4, <2>3
    <3>2. from[0] # {}
      BY <2>2 DEF NoneYet
    <3> QED
      BY <2>1, <3>1, <3>2 DEF VersionsAre
  <2>4. CASE l = 18
    <3>1. PICK none \in from[0] : none.next = 13
      BY <2>2 DEF NoneYet
    <3>2. PICK first \in TakeString(p, none.next + 1) : first.next = 17
      BY <1>2, <1>3, <2>4, <3>1, StringThere
    <3>3. PICK one \in OneMore(p, from[0]) : one.next = 17
      BY <3>2, OneMoreHas
    <3>4. PICK second \in TakeString(p, one.next + 1) : TRUE
      BY <1>2, <1>3, <2>4, <3>3, StringThere
    <3>5. one \in from[1] /\ from[2] = OneMore(p, from[1])
      <4>1. from[0 + 1] = OneMore(p, from[0]) /\ from[1 + 1] = OneMore(p, from[1])
        BY <2>2
      <4> QED
        BY <3>3, <4>1
    <3>6. from[2] # {}
      BY <3>4, <3>5, OneMoreHas
    <3>7. 12 \in 0 .. Len(p) - 1 /\ At(p, 12) = 2
      BY <1>2, <1>4, <2>4
    <3> QED
      BY <2>1, <3>6, <3>7, ZenonT(40) DEF VersionsAre
  <2> QED
    BY <1>2, <2>3, <2>4
<1> QED
  BY <1>5, <1>6, <1>7, <1>8, <1>9, InfoForm, ZenonT(40)

(* What is set is what is read back, for every value that is written and   *)
(* every byte that a headset reports; and what a headset holds is read.    *)
THEOREM SetIsReadBack == Spec => []ReadsBack
<1>1. IInv => ReadsBack
  <2> SUFFICES ASSUME IInv, taken = {feature}, Complete
               PROVE  /\ reading # {}
                      /\ \A v \in written, r \in reading :
                            CASE feature = "noise" ->
                                    /\ r.mode = v.mode
                                    /\ r.mode = "ambient" =>
                                          /\ r.voice = v.voice
                                          /\ r.level = IF v.level = 0 THEN 1 ELSE v.level
                              [] feature = "eq" ->
                                    /\ r.preset = v.preset
                                    /\ v.bands # <<>> => r.bands = v.bands
                              [] OTHER -> r = v
    BY Zenon DEF ReadsBack
  <2>1. /\ feature \in Features /\ written \subseteq Values(feature)
        /\ Laid(feature, held) /\ \A v \in written : Encodes(feature, held, v)
    BY DEF IInv, TypeOK, HoldsWritten
  <2>2. reading = Parse(feature, pushed) /\ Shown(feature, pushed, held)
    BY PushedPrefix, CompleteShown
  <2>3. CASE feature = "noise"
    <3>1. reading = ParseNoise(pushed)
      BY <2>2, <2>3 DEF Parse
    <3> QED
      BY <2>1, <2>2, <2>3, <3>1, NoiseBack
  <2>4. CASE feature = "eq"
    <3>1. reading = ParseEq(pushed)
      BY <2>2, <2>4 DEF Parse
    <3> QED
      BY <2>1, <2>2, <2>4, <3>1, EqBack
  <2>5. CASE feature = "dsee"
    <3>1. reading = {held[1] # 0}
      BY <2>1, <2>2, <2>5, ShortBack DEF Parse
    <3>2. \A v \in written : v \in BOOLEAN /\ held[1] = Flag(v)
      BY <2>1, <2>5 DEF Values, Encodes
    <3>3. \A v \in written : (held[1] # 0) = v
      BY <3>2, FlagForms, Zenon
    <3> QED
      BY <2>5, <3>1, <3>3
  <2>6. CASE feature = "voice_guidance"
    <3>1. reading = {held[1] = 0}
      BY <2>1, <2>2, <2>6, ShortBack DEF Parse
    <3>2. \A v \in written : v \in BOOLEAN /\ held[1] = Flag(~v)
      BY <2>1, <2>6 DEF Values, Encodes
    <3>3. \A v \in written : (held[1] = 0) = v
      BY <3>2, FlagForms, Zenon
    <3> QED
      BY <2>6, <3>1, <3>3
  <2>7. CASE feature = "volume"
    <3>1. reading = {held[1]}
      BY <2>1, <2>2, <2>7, ShortBack DEF Parse
    <3>2. \A v \in written : held[1] = v
      BY <2>1, <2>7 DEF Encodes
    <3> QED
      BY <2>7, <3>1, <3>2
  <2>8. CASE feature \in {"battery", "model_name", "device_info"}
    <3>1. written = {}
      BY <2>1, <2>8 DEF Values
    <3>2. CASE feature = "battery"
      BY <2>1, <2>2, <3>1, <3>2, ShortBack DEF Parse
    <3>3. CASE feature = "model_name"
      BY <2>1, <2>2, <3>1, <3>3, NameBack DEF Parse
    <3>4. CASE feature = "device_info"
      BY <2>1, <2>2, <3>1, <3>4, InfoBack DEF Parse
    <3> QED
      BY <2>8, <3>2, <3>3, <3>4
  <2> QED
    BY <2>1, <2>3, <2>4, <2>5, <2>6, <2>7, <2>8 DEF Features
<1> QED
  BY <1>1, Invariance, PTL
=============================================================================
