------------------------- MODULE FrameStreamProofs --------------------------
(***************************************************************************)
(* Frames on their way. First the codec: for every message, limit and name *)
(* of the raw serializer the decoder inverts the encoder; a frame is       *)
(* recognised as soon as it is complete, as the message it was made of and *)
(* as no message of the other type. Then the buffers: what is appended to  *)
(* one comes out of it. Then the stream: whatever the sockets and buffers  *)
(* hold between them is the frames not yet decoded, one behind the other.  *)
(***************************************************************************)
EXTENDS FrameStream, SequenceTheorems, TLAPS

(***************************************************************************)
(* Pieces of sequences.                                                    *)
(***************************************************************************)

\* A piece is what is there, element by element.
LEMMA SubSeqIs ==
    ASSUME NEW S, NEW s \in Seq(S), NEW t \in Seq(S), NEW m \in Nat \ {0}, NEW n \in Nat,
           n = m + Len(t) - 1, n <= Len(s), \A i \in 1 .. Len(t) : s[m + i - 1] = t[i]
    PROVE  SubSeq(s, m, n) = t
<1>1. \A i \in m .. n : s[i] \in S
      BY ElementOfSeq
<1>2. /\ SubSeq(s, m, n) \in Seq(S)
      /\ Len(SubSeq(s, m, n)) = IF m <= n THEN n - m + 1 ELSE 0
      /\ \A i \in 1 .. n - m + 1 : SubSeq(s, m, n)[i] = s[m + i - 1]
      BY <1>1, SubSeqProperties
<1>3. Len(t) \in Nat /\ n - m + 1 = Len(t)
      OBVIOUS
<1>4. Len(SubSeq(s, m, n)) = Len(t) /\ \A i \in 1 .. Len(t) : SubSeq(s, m, n)[i] = t[i]
      BY <1>2, <1>3
<1>. QED BY <1>2, <1>4, SeqEqual

\* One sequence behind another, of numbers.
LEMMA ConcatNat ==
    ASSUME NEW s \in Seq(Nat), NEW t \in Seq(Nat)
    PROVE  /\ s \o t \in Seq(Nat) /\ Len(s \o t) = Len(s) + Len(t)
           /\ \A i \in 1 .. Len(s) : (s \o t)[i] = s[i]
           /\ \A i \in 1 .. Len(t) : (s \o t)[Len(s) + i] = t[i]
BY ConcatProperties

\* What is in front of a sequence, and what is behind it.
LEMMA ConcatParts ==
    ASSUME NEW S, NEW s \in Seq(S), NEW t \in Seq(S)
    PROVE  /\ s \o t \in Seq(S) /\ Len(s \o t) = Len(s) + Len(t)
           /\ SubSeq(s \o t, 1, Len(s)) = s
           /\ SubSeq(s \o t, Len(s) + 1, Len(s) + Len(t)) = t
<1>1. s \o t \in Seq(S) /\ Len(s \o t) = Len(s) + Len(t)
      BY ConcatProperties
<1>2. SubSeq(s \o t, 1, Len(s)) = s
      BY <1>1, ConcatProperties, SubSeqProperties, SeqEqual
<1>3. SubSeq(s \o t, Len(s) + 1, Len(s) + Len(t)) = t
      BY <1>1, ConcatProperties, SubSeqProperties, SeqEqual
<1>. QED BY <1>1, <1>2, <1>3

-----------------------------------------------------------------------------
(***************************************************************************)
(* Reading fields.                                                         *)
(***************************************************************************)

\* A cursor in front of rest, behind the fields.
At(rest, fields) == {[rest |-> rest, fields |-> fields]}

\* A number is read back.
LEMMA ReadUintOf ==
    ASSUME NEW x \in Nat, NEW rest \in Seq(Nat), NEW fields
    PROVE  ReadUint(At(<<x>> \o rest, fields)) = At(rest, Append(fields, x))
<1>. DEFINE s == <<x>> \o rest  cursor == [rest |-> s, fields |-> fields]
<1>1. s # << >> /\ Head(s) = x /\ Tail(s) = rest
      OBVIOUS
<1>2. {d \in {cursor} : d.rest # << >>} = {cursor}
      BY <1>1
<1>3. ReadUint({cursor}) = {[rest |-> Tail(cursor.rest), fields |-> Append(cursor.fields, Head(cursor.rest))]}
      BY <1>2 DEF ReadUint
<1>. QED BY <1>1, <1>3 DEF At

\* Nothing is read where nothing is.
LEMMA ReadNothing ==
    ASSUME NEW fields
    PROVE  ReadUint(At(<< >>, fields)) = {} /\ ReadString({}) = {} /\ ReadUint({}) = {}
BY DEF ReadUint, ReadString, At

\* A string, with what follows it, element by element.
LEMMA StringParts ==
    ASSUME NEW s \in Seq(Nat), NEW rest \in Seq(Nat)
    PROVE  /\ String(s) \o rest \in Seq(Nat)
           /\ Len(String(s) \o rest) = 1 + Len(s) + Len(rest)
           /\ Head(String(s) \o rest) = Len(s)
           /\ \A i \in 1 .. Len(s) : (String(s) \o rest)[i + 1] = s[i]
           /\ \A i \in 1 .. Len(rest) : (String(s) \o rest)[i + 1 + Len(s)] = rest[i]
<1>1. Len(s) \in Nat /\ Len(rest) \in Nat
      OBVIOUS
<1>2. /\ String(s) \in Seq(Nat) /\ Len(String(s)) = 1 + Len(s)
      /\ String(s)[1] = Len(s) /\ \A i \in 1 .. Len(s) : String(s)[i + 1] = s[i]
      BY DEF String
<1>3. /\ String(s) \o rest \in Seq(Nat)
      /\ Len(String(s) \o rest) = Len(String(s)) + Len(rest)
      /\ \A i \in 1 .. Len(String(s)) : (String(s) \o rest)[i] = String(s)[i]
      /\ \A i \in 1 .. Len(rest) : (String(s) \o rest)[Len(String(s)) + i] = rest[i]
      BY <1>2, ConcatNat
<1>4. Head(String(s) \o rest) = (String(s) \o rest)[1] /\ 1 \in 1 .. Len(String(s))
      BY <1>1, <1>2, <1>3
<1>5. ASSUME NEW i \in 1 .. Len(s)
      PROVE  (String(s) \o rest)[i + 1] = s[i]
  <2>1. i + 1 \in 1 .. Len(String(s))
        BY <1>1, <1>2
  <2>. QED BY <1>2, <1>3, <2>1
<1>6. ASSUME NEW i \in 1 .. Len(rest)
      PROVE  (String(s) \o rest)[i + 1 + Len(s)] = rest[i]
  <2>1. i + 1 + Len(s) = Len(String(s)) + i
        BY <1>1, <1>2
  <2>. QED BY <1>3, <2>1
<1>. QED BY <1>1, <1>2, <1>3, <1>4, <1>5, <1>6

\* A string is read back.
LEMMA ReadStringOf ==
    ASSUME NEW s \in Seq(Nat), NEW rest \in Seq(Nat), NEW fields
    PROVE  ReadString(At(String(s) \o rest, fields)) = At(rest, Append(fields, s))
<1>1. Len(s) \in Nat /\ Len(rest) \in Nat
      OBVIOUS
<1>2. SUFFICES ASSUME NEW b \in Seq(Nat), Len(b) = 1 + Len(s) + Len(rest), Head(b) = Len(s),
                      \A i \in 1 .. Len(s) : b[i + 1] = s[i],
                      \A i \in 1 .. Len(rest) : b[i + 1 + Len(s)] = rest[i]
               PROVE  ReadString(At(b, fields)) = At(rest, Append(fields, s))
      BY StringParts
<1>3. SubSeq(b, 2, Head(b) + 1) = s
      BY <1>1, <1>2, SubSeqIs
<1>4. SubSeq(b, Head(b) + 2, Len(b)) = rest
  <2>1. ASSUME NEW i \in 1 .. Len(rest)
        PROVE  b[Len(s) + 2 + i - 1] = rest[i]
    <3>1. Len(s) + 2 + i - 1 = i + 1 + Len(s)
          BY <1>1
    <3>. QED BY <1>2, <3>1
  <2>2. Len(s) + 2 \in Nat \ {0} /\ Len(b) = Len(s) + 2 + Len(rest) - 1 /\ Len(b) \in Nat
        BY <1>1, <1>2
  <2>3. SubSeq(b, Len(s) + 2, Len(b)) = rest
        BY <2>1, <2>2, SubSeqIs
  <2>. QED BY <1>2, <2>3
<1>. DEFINE cursor == [rest |-> b, fields |-> fields]
<1>5. {d \in {cursor} : d.rest # << >> /\ Head(d.rest) < Len(d.rest)} = {cursor}
  <2>1. cursor.rest # << >> /\ Head(cursor.rest) < Len(cursor.rest)
        BY <1>1, <1>2
  <2>. QED BY <2>1
<1>6. ReadString({cursor}) = {[rest |-> SubSeq(cursor.rest, Head(cursor.rest) + 2, Len(cursor.rest)),
                               fields |-> Append(cursor.fields, SubSeq(cursor.rest, 2, Head(cursor.rest) + 1))]}
      BY <1>5 DEF ReadString
<1>. QED BY <1>3, <1>4, <1>6 DEF At

-----------------------------------------------------------------------------
(***************************************************************************)
(* Metadata.                                                               *)
(***************************************************************************)

\* A number, and a string, in front of the rest.
LEMMA StringIsSeq ==
    ASSUME NEW s \in Seq(Nat)
    PROVE  String(s) \in Seq(Nat) /\ String(s) # << >> /\ Len(String(s)) = 1 + Len(s)
BY DEF String

\* Where sequences are put together does not matter.
LEMMA ConcatAnyway ==
    ASSUME NEW a \in Seq(Nat), NEW b \in Seq(Nat), NEW c \in Seq(Nat)
    PROVE  (a \o b) \o c = a \o (b \o c)
BY ConcatAssociative, SMT

\* The first field.
LEMMA Field1 ==
    ASSUME NEW x1
    PROVE  Append(<< >>, x1) = <<x1>>
<1>1. << >> \in Seq({x1}) /\ Append(<< >>, x1) \in Seq({x1}) /\ <<x1>> \in Seq({x1})
      OBVIOUS
<1>2. Len(Append(<< >>, x1)) = 1 /\ Len(<<x1>>) = 1
      OBVIOUS
<1>3. \A i \in 1 .. 1 : Append(<< >>, x1)[i] = <<x1>>[i]
      OBVIOUS
<1>. QED BY <1>1, <1>2, <1>3, SeqEqual

\* The second field behind the others.
LEMMA Field2 ==
    ASSUME NEW x1, NEW x2
    PROVE  Append(<<x1>>, x2) = <<x1, x2>>
<1>. DEFINE T == {x1, x2}
<1>1. <<x1, x2>> \in Seq(T) /\ Append(<<x1>>, x2) \in Seq(T)
      OBVIOUS
<1>2. Len(Append(<<x1>>, x2)) = 2 /\ Len(<<x1, x2>>) = 2
      OBVIOUS
<1>3. \A i \in 1 .. 2 : Append(<<x1>>, x2)[i] = <<x1, x2>>[i]
      OBVIOUS
<1>. HIDE DEF T
<1>. QED BY <1>1, <1>2, <1>3, SeqEqual

\* The third field behind the others.
LEMMA Field3 ==
    ASSUME NEW x1, NEW x2, NEW x3
    PROVE  Append(<<x1, x2>>, x3) = <<x1, x2, x3>>
<1>. DEFINE T == {x1, x2, x3}
<1>1. <<x1, x2, x3>> \in Seq(T) /\ Append(<<x1, x2>>, x3) \in Seq(T)
      OBVIOUS
<1>2. Len(Append(<<x1, x2>>, x3)) = 3 /\ Len(<<x1, x2, x3>>) = 3
      OBVIOUS
<1>3. \A i \in 1 .. 3 : Append(<<x1, x2>>, x3)[i] = <<x1, x2, x3>>[i]
      OBVIOUS
<1>. HIDE DEF T
<1>. QED BY <1>1, <1>2, <1>3, SeqEqual

\* The fourth field behind the others.
LEMMA Field4 ==
    ASSUME NEW x1, NEW x2, NEW x3, NEW x4
    PROVE  Append(<<x1, x2, x3>>, x4) = <<x1, x2, x3, x4>>
<1>. DEFINE T == {x1, x2, x3, x4}
<1>1. <<x1, x2, x3, x4>> \in Seq(T) /\ Append(<<x1, x2, x3>>, x4) \in Seq(T)
      OBVIOUS
<1>2. Len(Append(<<x1, x2, x3>>, x4)) = 4 /\ Len(<<x1, x2, x3, x4>>) = 4
      OBVIOUS
<1>3. \A i \in 1 .. 4 : Append(<<x1, x2, x3>>, x4)[i] = <<x1, x2, x3, x4>>[i]
      OBVIOUS
<1>. HIDE DEF T
<1>. QED BY <1>1, <1>2, <1>3, SeqEqual

\* The fifth field behind the others.
LEMMA Field5 ==
    ASSUME NEW x1, NEW x2, NEW x3, NEW x4, NEW x5
    PROVE  Append(<<x1, x2, x3, x4>>, x5) = <<x1, x2, x3, x4, x5>>
<1>. DEFINE T == {x1, x2, x3, x4, x5}
<1>1. <<x1, x2, x3, x4, x5>> \in Seq(T) /\ Append(<<x1, x2, x3, x4>>, x5) \in Seq(T)
      OBVIOUS
<1>2. Len(Append(<<x1, x2, x3, x4>>, x5)) = 5 /\ Len(<<x1, x2, x3, x4, x5>>) = 5
      OBVIOUS
<1>3. \A i \in 1 .. 5 : Append(<<x1, x2, x3, x4>>, x5)[i] = <<x1, x2, x3, x4, x5>>[i]
      OBVIOUS
<1>. HIDE DEF T
<1>. QED BY <1>1, <1>2, <1>3, SeqEqual

\* The sixth field behind the others.
LEMMA Field6 ==
    ASSUME NEW x1, NEW x2, NEW x3, NEW x4, NEW x5, NEW x6
    PROVE  Append(<<x1, x2, x3, x4, x5>>, x6) = <<x1, x2, x3, x4, x5, x6>>
<1>. DEFINE T == {x1, x2, x3, x4, x5, x6}
<1>1. <<x1, x2, x3, x4, x5, x6>> \in Seq(T) /\ Append(<<x1, x2, x3, x4, x5>>, x6) \in Seq(T)
      OBVIOUS
<1>2. Len(Append(<<x1, x2, x3, x4, x5>>, x6)) = 6 /\ Len(<<x1, x2, x3, x4, x5, x6>>) = 6
      OBVIOUS
<1>3. \A i \in 1 .. 6 : Append(<<x1, x2, x3, x4, x5>>, x6)[i] = <<x1, x2, x3, x4, x5, x6>>[i]
      OBVIOUS
<1>. HIDE DEF T
<1>. QED BY <1>1, <1>2, <1>3, SeqEqual

\* The seventh field behind the others.
LEMMA Field7 ==
    ASSUME NEW x1, NEW x2, NEW x3, NEW x4, NEW x5, NEW x6, NEW x7
    PROVE  Append(<<x1, x2, x3, x4, x5, x6>>, x7) = <<x1, x2, x3, x4, x5, x6, x7>>
<1>. DEFINE T == {x1, x2, x3, x4, x5, x6, x7}
<1>1. <<x1, x2, x3, x4, x5, x6, x7>> \in Seq(T) /\ Append(<<x1, x2, x3, x4, x5, x6>>, x7) \in Seq(T)
      OBVIOUS
<1>2. Len(Append(<<x1, x2, x3, x4, x5, x6>>, x7)) = 7 /\ Len(<<x1, x2, x3, x4, x5, x6, x7>>) = 7
      OBVIOUS
<1>3. \A i \in 1 .. 7 : Append(<<x1, x2, x3, x4, x5, x6>>, x7)[i] = <<x1, x2, x3, x4, x5, x6, x7>>[i]
      OBVIOUS
<1>. HIDE DEF T
<1>. QED BY <1>1, <1>2, <1>3, SeqEqual

\* What is read of metadata without an extension is the message.
LEMMA DecodePlain ==
    ASSUME NEW ty \in {Request, Response}, NEW id, NEW metadata, NEW body, NEW f,
           ReadFields(ty, Start(metadata)) = At(<< >>, f)
    PROVE  DecodeFrame(ty, id, metadata, body) =
             [status |-> "Complete", message |-> Message(ty, id, f, body)]
<1>. DEFINE cursor == [rest |-> << >>, fields |-> f]
<1>1. ReadExtension(ty, {cursor}) = {}
      BY ReadNothing DEF ReadExtension, At
<1>2. ReadFields(ty, Start(metadata)) = {cursor}
      BY DEF At
<1>3. {c \in {cursor} \cup {c \in {} : c.fields[3] = MetaMagic} : c.rest = << >>} = {cursor}
      OBVIOUS
<1>4. (CHOOSE c \in {cursor} : TRUE) = cursor /\ cursor.fields = f
      OBVIOUS
<1>. HIDE DEF cursor
<1>. QED BY <1>1, <1>2, <1>3, <1>4 DEF DecodeFrame

\* What is read of metadata with an extension is the message.
LEMMA DecodeExtended ==
    ASSUME NEW ty \in {Request, Response}, NEW id, NEW metadata, NEW body, NEW f, NEW g,
           NEW e, e # << >>, g[3] = MetaMagic,
           ReadFields(ty, Start(metadata)) = At(e, f),
           ReadExtension(ty, At(e, f)) = At(<< >>, g)
    PROVE  DecodeFrame(ty, id, metadata, body) =
             [status |-> "Complete", message |-> Message(ty, id, g, body)]
<1>. DEFINE plain == [rest |-> e, fields |-> f]  cursor == [rest |-> << >>, fields |-> g]
<1>1. ReadFields(ty, Start(metadata)) = {plain} /\ ReadExtension(ty, {plain}) = {cursor}
      BY DEF At
<1>2. /\ cursor.fields = g /\ cursor.rest = << >> /\ plain.rest # << >>
      /\ (CHOOSE c \in {cursor} : TRUE) = cursor
      OBVIOUS
<1>. HIDE DEF cursor, plain
<1>3. {c \in {cursor} : c.fields[3] = MetaMagic} = {cursor}
      BY <1>2
<1>4. {c \in {plain} \cup {cursor} : c.rest = << >>} = {cursor}
      BY <1>2
<1>. QED BY <1>1, <1>2, <1>3, <1>4 DEF DecodeFrame

\* The metadata of a request, field after field.
LEMMA RequestFields ==
    ASSUME NEW m \in RequestRecords
    PROVE  LET e == IF HasExtension(m) THEN Extension(m) ELSE << >>
           IN  /\ Metadata(m) \in Seq(Nat)
               /\ ReadFields(Request, Start(Metadata(m))) = At(e, <<m.service, m.method>>)
               /\ HasExtension(m) =>
                    /\ e # << >>
                    /\ ReadExtension(Request, At(e, <<m.service, m.method>>)) =
                         At(<< >>, <<m.service, m.method, MetaMagic, m.timeout, m.attempt,
                                     m.trace, m.serializer>>)
<1>. DEFINE e == IF HasExtension(m) THEN Extension(m) ELSE << >>
            s4 == String(m.serializer) \o << >>
            s3 == String(m.trace) \o s4
            s2 == <<m.attempt>> \o s3
            s1 == <<m.timeout>> \o s2
            s0 == <<MetaMagic>> \o s1
<1>1. /\ m.type = Request /\ m.timeout \in Nat /\ m.attempt \in Nat /\ MetaMagic \in Nat
      /\ m.service \in Seq(Nat) /\ m.method \in Seq(Nat)
      /\ m.trace \in Seq(Nat) /\ m.serializer \in Seq(Nat)
      BY DEF RequestRecords, MetaMagic
<1>2. /\ String(m.service) \in Seq(Nat) /\ String(m.method) \in Seq(Nat)
      /\ String(m.trace) \in Seq(Nat) /\ String(m.serializer) \in Seq(Nat)
      BY <1>1, StringIsSeq
<1>3. s4 \in Seq(Nat) /\ s3 \in Seq(Nat) /\ s2 \in Seq(Nat) /\ s1 \in Seq(Nat) /\ s0 \in Seq(Nat)
      BY <1>1, <1>2, ConcatNat
<1>4. Extension(m) = s0
  <2>1. Extension(m) = ((<<MetaMagic>> \o <<m.timeout, m.attempt>>) \o String(m.trace)) \o String(m.serializer)
        BY <1>1 DEF Extension
  <2>2. /\ <<MetaMagic>> \in Seq(Nat) /\ <<m.timeout, m.attempt>> \in Seq(Nat)
        /\ <<m.timeout>> \in Seq(Nat) /\ <<m.attempt>> \in Seq(Nat)
        BY <1>1
  <2>3. Extension(m) = <<MetaMagic>> \o (<<m.timeout, m.attempt>> \o s3)
    <3>. DEFINE head == <<MetaMagic>>  numbers == <<m.timeout, m.attempt>>
                trace == String(m.trace)  name == String(m.serializer)
    <3>1. head \in Seq(Nat) /\ numbers \in Seq(Nat) /\ trace \in Seq(Nat) /\ name \in Seq(Nat)
          BY <1>2, <2>2
    <3>2. name \o << >> = name
          BY <3>1, ConcatEmptySeq
    <3>3. ((head \o numbers) \o trace) \o name = head \o (numbers \o (trace \o name))
      <4>. HIDE DEF head, numbers, trace, name
      <4>1. head \o numbers \in Seq(Nat) /\ trace \o name \in Seq(Nat)
            BY <3>1, ConcatNat
      <4>2. ASSUME NEW u \in Seq(Nat)
            PROVE  (u \o trace) \o name = u \o (trace \o name)
            BY <3>1, ConcatAnyway
      <4>3. ASSUME NEW u \in Seq(Nat)
            PROVE  (head \o numbers) \o u = head \o (numbers \o u)
            BY <3>1, ConcatAnyway
      <4>4. ((head \o numbers) \o trace) \o name = (head \o numbers) \o (trace \o name)
            BY <4>1, <4>2, Zenon
      <4>5. (head \o numbers) \o (trace \o name) = head \o (numbers \o (trace \o name))
            BY <4>1, <4>3, Zenon
      <4>. QED BY <4>4, <4>5, Zenon
    <3>. QED BY <2>1, <3>2, <3>3, Zenon
  <2>4. <<m.timeout, m.attempt>> = <<m.timeout>> \o <<m.attempt>>
        BY <1>1
  <2>5. (<<m.timeout>> \o <<m.attempt>>) \o s3 = <<m.timeout>> \o (<<m.attempt>> \o s3)
        BY <1>3, <2>2, ConcatAnyway
  <2>. QED BY <2>3, <2>4, <2>5
<1>5. e \in Seq(Nat)
      BY <1>3, <1>4
<1>6. Metadata(m) = String(m.service) \o (String(m.method) \o e)
  <2>1. Metadata(m) = (String(m.service) \o String(m.method)) \o e
        BY <1>1 DEF Metadata
  <2>. QED BY <1>2, <1>5, <2>1, ConcatAnyway
<1>7. Metadata(m) \in Seq(Nat)
      BY <1>2, <1>5, <1>6, ConcatNat
<1>8. ReadFields(Request, Start(Metadata(m))) = At(e, <<m.service, m.method>>)
  <2>1. Start(Metadata(m)) = At(String(m.service) \o (String(m.method) \o e), << >>)
        BY <1>6 DEF Start, At
  <2>2. String(m.method) \o e \in Seq(Nat)
        BY <1>2, <1>5, ConcatNat
  <2>3. ReadString(Start(Metadata(m))) = At(String(m.method) \o e, Append(<< >>, m.service))
        BY <1>1, <2>1, <2>2, ReadStringOf
  <2>4. ReadString(ReadString(Start(Metadata(m)))) = At(e, Append(Append(<< >>, m.service), m.method))
        BY <1>1, <1>5, <2>3, ReadStringOf
  <2>5. Append(<<m.service>>, m.method) = <<m.service, m.method>>
        BY Field2
  <2>6. Append(<< >>, m.service) = <<m.service>>
        BY Field1
  <2>7. ReadFields(Request, Start(Metadata(m))) = ReadString(ReadString(Start(Metadata(m))))
        BY DEF ReadFields
  <2>8. Append(Append(<< >>, m.service), m.method) = <<m.service, m.method>>
        BY <2>5, <2>6, Zenon
  <2>. QED BY <2>4, <2>7, <2>8, Zenon
<1>9. ASSUME HasExtension(m)
      PROVE  /\ e # << >>
             /\ ReadExtension(Request, At(e, <<m.service, m.method>>)) =
                  At(<< >>, <<m.service, m.method, MetaMagic, m.timeout, m.attempt,
                              m.trace, m.serializer>>)
  <2>. DEFINE f == <<m.service, m.method>>
  <2>1. e = s0
        BY <1>4, <1>9
  <2>2. ReadUint(At(s0, f)) = At(s1, Append(f, MetaMagic))
        BY <1>1, <1>3, ReadUintOf
  <2>3. ReadUint(At(s1, Append(f, MetaMagic))) = At(s2, Append(Append(f, MetaMagic), m.timeout))
        BY <1>1, <1>3, ReadUintOf
  <2>4. ReadUint(At(s2, Append(Append(f, MetaMagic), m.timeout))) =
          At(s3, Append(Append(Append(f, MetaMagic), m.timeout), m.attempt))
        BY <1>1, <1>3, ReadUintOf
  <2>. DEFINE h == <<m.service, m.method, MetaMagic, m.timeout, m.attempt>>
  <2>5. /\ Append(<<m.service, m.method>>, MetaMagic) = <<m.service, m.method, MetaMagic>>
        /\ Append(<<m.service, m.method, MetaMagic>>, m.timeout) =
             <<m.service, m.method, MetaMagic, m.timeout>>
    <3>1. Append(<<m.service, m.method>>, MetaMagic) = <<m.service, m.method, MetaMagic>>
          BY Field3
    <3>2. Append(<<m.service, m.method, MetaMagic>>, m.timeout) =
             <<m.service, m.method, MetaMagic, m.timeout>>
          BY Field4
    <3>. QED BY <3>1, <3>2, Zenon
  <2>6. /\ Append(<<m.service, m.method, MetaMagic, m.timeout>>, m.attempt) = h
        /\ Append(h, m.trace) = <<m.service, m.method, MetaMagic, m.timeout, m.attempt, m.trace>>
        /\ Append(<<m.service, m.method, MetaMagic, m.timeout, m.attempt, m.trace>>, m.serializer) =
             <<m.service, m.method, MetaMagic, m.timeout, m.attempt, m.trace, m.serializer>>
    <3>1. Append(<<m.service, m.method, MetaMagic, m.timeout>>, m.attempt) = h
          BY Field5
    <3>2. Append(h, m.trace) = <<m.service, m.method, MetaMagic, m.timeout, m.attempt, m.trace>>
          BY Field6
    <3>3. Append(<<m.service, m.method, MetaMagic, m.timeout, m.attempt, m.trace>>, m.serializer) =
             <<m.service, m.method, MetaMagic, m.timeout, m.attempt, m.trace, m.serializer>>
          BY Field7
    <3>. QED BY <3>1, <3>2, <3>3, Zenon
  <2>7. ReadString(At(s3, h)) = At(s4, Append(h, m.trace))
        BY <1>1, <1>3, ReadStringOf
  <2>8. ReadString(At(s4, Append(h, m.trace))) = At(<< >>, Append(Append(h, m.trace), m.serializer))
    <3>1. << >> \in Seq(Nat)
          OBVIOUS
    <3>. QED BY <1>1, <3>1, ReadStringOf
  <2>9. s0 # << >>
        BY <1>1, <1>3
  <2>. HIDE DEF s0, s1, s2, s3, s4, f, h
  <2>. QED BY <2>1, <2>2, <2>3, <2>4, <2>5, <2>6, <2>7, <2>8, <2>9 DEF ReadExtension, f, h
<1>. QED BY <1>7, <1>8, <1>9

\* The metadata of a response, field after field.
LEMMA ResponseFields ==
    ASSUME NEW m \in ResponseRecords
    PROVE  LET e == IF HasExtension(m) THEN Extension(m) ELSE << >>
           IN  /\ Metadata(m) \in Seq(Nat)
               /\ ReadFields(Response, Start(Metadata(m))) = At(e, <<m.code, m.error>>)
               /\ HasExtension(m) =>
                    /\ e # << >>
                    /\ ReadExtension(Response, At(e, <<m.code, m.error>>)) =
                         At(<< >>, <<m.code, m.error, MetaMagic, m.cost, m.trace, m.serializer>>)
<1>. DEFINE e == IF HasExtension(m) THEN Extension(m) ELSE << >>
            s4 == String(m.serializer) \o << >>
            s3 == String(m.trace) \o s4
            s2 == <<m.cost>> \o s3
            s0 == <<MetaMagic>> \o s2
<1>1. /\ m.type = Response /\ m.type # Request /\ m.cost \in Nat /\ m.code \in Nat
      /\ MetaMagic \in Nat /\ m.error \in Seq(Nat)
      /\ m.trace \in Seq(Nat) /\ m.serializer \in Seq(Nat)
      BY DEF ResponseRecords, MetaMagic, Request, Response
<1>2. /\ String(m.error) \in Seq(Nat) /\ <<m.code>> \in Seq(Nat)
      /\ String(m.trace) \in Seq(Nat) /\ String(m.serializer) \in Seq(Nat)
  <2>1. <<m.code>> \in Seq(Nat)
        BY <1>1
  <2>. QED BY <1>1, <2>1, StringIsSeq
<1>3. s4 \in Seq(Nat) /\ s3 \in Seq(Nat) /\ s2 \in Seq(Nat) /\ s0 \in Seq(Nat)
      BY <1>1, <1>2, ConcatNat
<1>4. Extension(m) = s0
  <2>1. Extension(m) = ((<<MetaMagic>> \o <<m.cost>>) \o String(m.trace)) \o String(m.serializer)
        BY <1>1, Zenon DEF Extension
  <2>2. <<MetaMagic>> \in Seq(Nat) /\ <<m.cost>> \in Seq(Nat)
        BY <1>1
  <2>. DEFINE head == <<MetaMagic>>  numbers == <<m.cost>>
              trace == String(m.trace)  name == String(m.serializer)
  <2>3. head \in Seq(Nat) /\ numbers \in Seq(Nat) /\ trace \in Seq(Nat) /\ name \in Seq(Nat)
        BY <1>2, <2>2
  <2>4. name \o << >> = name
        BY <2>3, ConcatEmptySeq
  <2>5. ((head \o numbers) \o trace) \o name = head \o (numbers \o (trace \o name))
    <3>. HIDE DEF head, numbers, trace, name
    <3>1. head \o numbers \in Seq(Nat) /\ trace \o name \in Seq(Nat)
          BY <2>3, ConcatNat
    <3>2. ASSUME NEW u \in Seq(Nat)
          PROVE  (u \o trace) \o name = u \o (trace \o name)
          BY <2>3, ConcatAnyway
    <3>3. ASSUME NEW u \in Seq(Nat)
          PROVE  (head \o numbers) \o u = head \o (numbers \o u)
          BY <2>3, ConcatAnyway
    <3>4. ((head \o numbers) \o trace) \o name = (head \o numbers) \o (trace \o name)
          BY <3>1, <3>2, Zenon
    <3>5. (head \o numbers) \o (trace \o name) = head \o (numbers \o (trace \o name))
          BY <3>1, <3>3, Zenon
    <3>. QED BY <3>4, <3>5, Zenon
  <2>. QED BY <2>1, <2>4, <2>5, Zenon
<1>5. e \in Seq(Nat)
      BY <1>3, <1>4
<1>6. Metadata(m) = <<m.code>> \o (String(m.error) \o e)
  <2>1. Metadata(m) = (<<m.code>> \o String(m.error)) \o e
        BY <1>1, Zenon DEF Metadata
  <2>2. ASSUME NEW u \in Seq(Nat), NEW v \in Seq(Nat), NEW w \in Seq(Nat)
        PROVE  (u \o v) \o w = u \o (v \o w)
        BY ConcatAnyway
  <2>. HIDE DEF e
  <2>. QED BY <1>2, <1>5, <2>1, <2>2, Zenon
<1>7. Metadata(m) \in Seq(Nat)
      BY <1>2, <1>5, <1>6, ConcatNat
<1>8. ReadFields(Response, Start(Metadata(m))) = At(e, <<m.code, m.error>>)
  <2>1. Start(Metadata(m)) = At(<<m.code>> \o (String(m.error) \o e), << >>)
        BY <1>6 DEF Start, At
  <2>2. String(m.error) \o e \in Seq(Nat)
        BY <1>2, <1>5, ConcatNat
  <2>3. ReadUint(Start(Metadata(m))) = At(String(m.error) \o e, Append(<< >>, m.code))
        BY <1>1, <2>1, <2>2, ReadUintOf
  <2>4. ReadString(ReadUint(Start(Metadata(m)))) = At(e, Append(Append(<< >>, m.code), m.error))
        BY <1>1, <1>5, <2>3, ReadStringOf
  <2>5. Append(<<m.code>>, m.error) = <<m.code, m.error>>
        BY Field2
  <2>6. Append(<< >>, m.code) = <<m.code>>
        BY Field1
  <2>7. ReadFields(Response, Start(Metadata(m))) = ReadString(ReadUint(Start(Metadata(m))))
        BY DEF ReadFields, Request, Response
  <2>8. Append(Append(<< >>, m.code), m.error) = <<m.code, m.error>>
        BY <2>5, <2>6, Zenon
  <2>. QED BY <2>4, <2>7, <2>8, Zenon
<1>9. ASSUME HasExtension(m)
      PROVE  /\ e # << >>
             /\ ReadExtension(Response, At(e, <<m.code, m.error>>)) =
                  At(<< >>, <<m.code, m.error, MetaMagic, m.cost, m.trace, m.serializer>>)
  <2>. DEFINE f == <<m.code, m.error>>  h == <<m.code, m.error, MetaMagic, m.cost>>
  <2>1. e = s0
        BY <1>4, <1>9
  <2>2. ReadUint(At(s0, f)) = At(s2, Append(f, MetaMagic))
        BY <1>1, <1>3, ReadUintOf
  <2>3. ReadUint(At(s2, Append(f, MetaMagic))) = At(s3, Append(Append(f, MetaMagic), m.cost))
        BY <1>1, <1>3, ReadUintOf
  <2>4. Append(<<m.code, m.error>>, MetaMagic) = <<m.code, m.error, MetaMagic>>
        BY Field3
  <2>5. Append(<<m.code, m.error, MetaMagic>>, m.cost) = h
        BY Field4
  <2>6. Append(h, m.trace) = <<m.code, m.error, MetaMagic, m.cost, m.trace>>
        BY Field5
  <2>7. Append(<<m.code, m.error, MetaMagic, m.cost, m.trace>>, m.serializer) =
          <<m.code, m.error, MetaMagic, m.cost, m.trace, m.serializer>>
        BY Field6
  <2>8. ReadString(At(s3, h)) = At(s4, Append(h, m.trace))
        BY <1>1, <1>3, ReadStringOf
  <2>9. ReadString(At(s4, Append(h, m.trace))) = At(<< >>, Append(Append(h, m.trace), m.serializer))
    <3>1. << >> \in Seq(Nat)
          OBVIOUS
    <3>. QED BY <1>1, <3>1, ReadStringOf
  <2>10. s0 # << >>
        BY <1>1, <1>3
  <2>11. \A cursors : ReadExtension(Response, cursors) =
                       ReadString(ReadString(ReadUint(ReadUint(cursors))))
        BY DEF ReadExtension, Request, Response
  <2>. HIDE DEF s0, s2, s3, s4, f, h
  <2>. QED BY <2>1, <2>2, <2>3, <2>4, <2>5, <2>6, <2>7, <2>8, <2>9, <2>10, <2>11 DEF f, h
<1>. QED BY <1>7, <1>8, <1>9

\* The metadata of a message is decoded to the message.
LEMMA DecodeRequest ==
    ASSUME NEW m \in RequestRecords
    PROVE  DecodeFrame(Request, m.id, Metadata(m), m.payload) =
             [status |-> "Complete", message |-> Normal(m)]
<1>. DEFINE e == IF HasExtension(m) THEN Extension(m) ELSE << >>
            f == <<m.service, m.method>>
            g == <<m.service, m.method, MetaMagic, m.timeout, m.attempt, m.trace, m.serializer>>
<1>1. Normal(m) = [type |-> Request, id |-> m.id, payload |-> m.payload, service |-> m.service,
                   method |-> m.method, timeout |-> m.timeout, attempt |-> m.attempt,
                   trace |-> m.trace, serializer |-> OrRaw(m.serializer)]
  <2>1. m = [type |-> Request, id |-> m.id, payload |-> m.payload, service |-> m.service,
             method |-> m.method, timeout |-> m.timeout, attempt |-> m.attempt,
             trace |-> m.trace, serializer |-> m.serializer]
        BY DEF RequestRecords
  <2>2. ASSUME NEW r, r = [type |-> Request, id |-> m.id, payload |-> m.payload,
             service |-> m.service, method |-> m.method, timeout |-> m.timeout,
             attempt |-> m.attempt, trace |-> m.trace, serializer |-> m.serializer]
        PROVE  [r EXCEPT !.serializer = OrRaw(m.serializer)] =
                 [type |-> Request, id |-> m.id, payload |-> m.payload, service |-> m.service,
                  method |-> m.method, timeout |-> m.timeout, attempt |-> m.attempt,
                  trace |-> m.trace, serializer |-> OrRaw(m.serializer)]
        BY <2>2
  <2>3. Normal(m) = [m EXCEPT !.serializer = OrRaw(m.serializer)]
        BY DEF Normal
  <2>. QED BY <2>1, <2>2, <2>3, Zenon
<1>2. ReadFields(Request, Start(Metadata(m))) = At(e, f)
      BY RequestFields
<1>3. CASE HasExtension(m)
  <2>1. e # << >> /\ ReadExtension(Request, At(e, f)) = At(<< >>, g)
        BY <1>3, RequestFields
  <2>2. g[3] = MetaMagic
        OBVIOUS
  <2>3. DecodeFrame(Request, m.id, Metadata(m), m.payload) =
          [status |-> "Complete", message |-> Message(Request, m.id, g, m.payload)]
    <3>. HIDE DEF e, f, g
    <3>. QED BY <1>2, <2>1, <2>2, DecodeExtended
  <2>4. Message(Request, m.id, g, m.payload) = Normal(m)
    <3>1. /\ Len(g) > 2 /\ g[1] = m.service /\ g[2] = m.method /\ g[4] = m.timeout
          /\ g[5] = m.attempt /\ g[6] = m.trace /\ g[7] = m.serializer
          OBVIOUS
    <3>. HIDE DEF g
    <3>. QED BY <1>1, <3>1 DEF Message
  <2>. QED BY <2>3, <2>4
<1>4. CASE ~HasExtension(m)
  <2>1. ReadFields(Request, Start(Metadata(m))) = At(<< >>, f)
        BY <1>2, <1>4
  <2>2. DecodeFrame(Request, m.id, Metadata(m), m.payload) =
          [status |-> "Complete", message |-> Message(Request, m.id, f, m.payload)]
    <3>. HIDE DEF f
    <3>. QED BY <2>1, DecodePlain
  <2>3. m.timeout = 0 /\ m.attempt = 0 /\ m.trace = << >> /\ m.serializer = Raw
        BY <1>4 DEF HasExtension, SaysMore, RequestRecords
  <2>4. OrRaw(m.serializer) = Raw
        BY <2>3, CodecAssumption DEF OrRaw
  <2>5. Message(Request, m.id, f, m.payload) = Normal(m)
    <3>1. ~(Len(f) > 2) /\ f[1] = m.service /\ f[2] = m.method
          OBVIOUS
    <3>. HIDE DEF f
    <3>. QED BY <1>1, <2>3, <2>4, <3>1 DEF Message
  <2>. QED BY <2>2, <2>5
<1>. QED BY <1>3, <1>4

\* So is that of a response.
LEMMA DecodeResponse ==
    ASSUME NEW m \in ResponseRecords
    PROVE  DecodeFrame(Response, m.id, Metadata(m), m.payload) =
             [status |-> "Complete", message |-> Normal(m)]
<1>. DEFINE e == IF HasExtension(m) THEN Extension(m) ELSE << >>
            f == <<m.code, m.error>>
            g == <<m.code, m.error, MetaMagic, m.cost, m.trace, m.serializer>>
<1>1. Normal(m) = [type |-> Response, id |-> m.id, payload |-> m.payload, code |-> m.code,
                   error |-> m.error, cost |-> m.cost, trace |-> m.trace,
                   serializer |-> OrRaw(m.serializer)]
  <2>1. m = [type |-> Response, id |-> m.id, payload |-> m.payload, code |-> m.code,
             error |-> m.error, cost |-> m.cost, trace |-> m.trace, serializer |-> m.serializer]
        BY DEF ResponseRecords
  <2>2. ASSUME NEW r, r = [type |-> Response, id |-> m.id, payload |-> m.payload,
             code |-> m.code, error |-> m.error, cost |-> m.cost, trace |-> m.trace,
             serializer |-> m.serializer]
        PROVE  [r EXCEPT !.serializer = OrRaw(m.serializer)] =
                 [type |-> Response, id |-> m.id, payload |-> m.payload, code |-> m.code,
                  error |-> m.error, cost |-> m.cost, trace |-> m.trace,
                  serializer |-> OrRaw(m.serializer)]
        BY <2>2
  <2>3. Normal(m) = [m EXCEPT !.serializer = OrRaw(m.serializer)]
        BY DEF Normal
  <2>. QED BY <2>1, <2>2, <2>3, Zenon
<1>2. ReadFields(Response, Start(Metadata(m))) = At(e, f)
      BY ResponseFields
<1>3. CASE HasExtension(m)
  <2>1. e # << >> /\ ReadExtension(Response, At(e, f)) = At(<< >>, g)
        BY <1>3, ResponseFields
  <2>2. g[3] = MetaMagic
        OBVIOUS
  <2>3. DecodeFrame(Response, m.id, Metadata(m), m.payload) =
          [status |-> "Complete", message |-> Message(Response, m.id, g, m.payload)]
    <3>. HIDE DEF e, f, g
    <3>. QED BY <1>2, <2>1, <2>2, DecodeExtended
  <2>4. Message(Response, m.id, g, m.payload) = Normal(m)
    <3>1. /\ Len(g) > 2 /\ g[1] = m.code /\ g[2] = m.error /\ g[4] = m.cost
          /\ g[5] = m.trace /\ g[6] = m.serializer
          OBVIOUS
    <3>. HIDE DEF g
    <3>. QED BY <1>1, <3>1 DEF Message, Request, Response
  <2>. QED BY <2>3, <2>4
<1>4. CASE ~HasExtension(m)
  <2>1. ReadFields(Response, Start(Metadata(m))) = At(<< >>, f)
        BY <1>2, <1>4
  <2>2. DecodeFrame(Response, m.id, Metadata(m), m.payload) =
          [status |-> "Complete", message |-> Message(Response, m.id, f, m.payload)]
    <3>. HIDE DEF f
    <3>. QED BY <2>1, DecodePlain
  <2>3. m.cost = 0 /\ m.trace = << >> /\ m.serializer = Raw
        BY <1>4 DEF HasExtension, SaysMore, ResponseRecords, Request, Response
  <2>4. OrRaw(m.serializer) = Raw
        BY <2>3, CodecAssumption DEF OrRaw
  <2>5. Message(Response, m.id, f, m.payload) = Normal(m)
    <3>1. ~(Len(f) > 2) /\ f[1] = m.code /\ f[2] = m.error
          OBVIOUS
    <3>. HIDE DEF f
    <3>. QED BY <1>1, <2>3, <2>4, <3>1 DEF Message, Request, Response
  <2>. QED BY <2>2, <2>5
<1>. QED BY <1>3, <1>4

-----------------------------------------------------------------------------
(***************************************************************************)
(* Frames.                                                                 *)
(***************************************************************************)

Records == RequestRecords \cup ResponseRecords

\* The parts of a message every frame has.
LEMMA RecordParts ==
    ASSUME NEW m \in Records
    PROVE  m.type \in {1, 2} /\ m.type \in Nat /\ m.id \in Nat /\ m.payload \in Seq(Nat)
BY DEF Records, RequestRecords, ResponseRecords, Request, Response

\* Metadata are units.
LEMMA MetadataIsSeq ==
    ASSUME NEW m \in Records
    PROVE  Metadata(m) \in Seq(Nat)
BY RequestFields, ResponseFields DEF Records

\* What is read of metadata is the message.
LEMMA DecodeEncoded ==
    ASSUME NEW m \in Records
    PROVE  DecodeFrame(m.type, m.id, Metadata(m), m.payload) =
             [status |-> "Complete", message |-> Normal(m)]
<1>1. CASE m \in RequestRecords
  <2>1. m.type = Request
        BY <1>1 DEF RequestRecords
  <2>. QED BY <1>1, <2>1, DecodeRequest
<1>2. CASE m \in ResponseRecords
  <2>1. m.type = Response
        BY <1>2 DEF ResponseRecords
  <2>. QED BY <1>2, <2>1, DecodeResponse
<1>. QED BY <1>1, <1>2 DEF Records

-----------------------------------------------------------------------------
(***************************************************************************)
(* Units, with names of their own for what is done with them: the proofs   *)
(* about streams need only the facts of this section.                      *)
(***************************************************************************)
Units          == Seq(Nat)
Count(s)       == Len(s)
Cat(s, t)      == s \o t
Piece(s, m, n) == SubSeq(s, m, n)

\* How many units there are.
LEMMA CountNat ==
    ASSUME NEW s \in Units
    PROVE  Count(s) \in Nat
BY DEF Units, Count

\* What a unit is.
LEMMA UnitNat ==
    ASSUME NEW s \in Units, NEW i \in 1 .. Count(s)
    PROVE  s[i] \in Nat
BY DEF Units, Count

\* Units behind others.
LEMMA CatUnits ==
    ASSUME NEW s \in Units, NEW t \in Units
    PROVE  /\ Cat(s, t) \in Units /\ Count(Cat(s, t)) = Count(s) + Count(t)
           /\ \A i \in 1 .. Count(s) : Cat(s, t)[i] = s[i]
           /\ \A i \in 1 .. Count(t) : Cat(s, t)[Count(s) + i] = t[i]
BY ConcatNat DEF Units, Cat, Count

\* A piece of the units.
LEMMA PieceUnits ==
    ASSUME NEW s \in Units, NEW m \in Nat \ {0}, NEW n \in Nat, m <= n + 1, n <= Count(s)
    PROVE  /\ Piece(s, m, n) \in Units /\ Count(Piece(s, m, n)) = n - m + 1
           /\ \A i \in 1 .. n - m + 1 : Piece(s, m, n)[i] = s[m + i - 1]
<1>1. \A i \in m .. n : s[i] \in Nat
      BY DEF Units, Count
<1>2. /\ SubSeq(s, m, n) \in Seq(Nat)
      /\ Len(SubSeq(s, m, n)) = IF m <= n THEN n - m + 1 ELSE 0
      /\ \A i \in 1 .. n - m + 1 : SubSeq(s, m, n)[i] = s[m + i - 1]
      BY <1>1, SubSeqProperties
<1>3. (IF m <= n THEN n - m + 1 ELSE 0) = n - m + 1
      OBVIOUS
<1>. QED BY <1>2, <1>3 DEF Units, Count, Piece

\* The same units, one by one, are the same.
LEMMA SameUnits ==
    ASSUME NEW s \in Units, NEW t \in Units, Count(s) = Count(t),
           \A i \in 1 .. Count(s) : s[i] = t[i]
    PROVE  s = t
BY SeqEqual DEF Units, Count

\* A piece is what is there, one by one.
LEMMA PieceIs ==
    ASSUME NEW s \in Units, NEW t \in Units, NEW m \in Nat \ {0}, NEW n \in Nat,
           n = m + Count(t) - 1, n <= Count(s), \A i \in 1 .. Count(t) : s[m + i - 1] = t[i]
    PROVE  Piece(s, m, n) = t
<1>1. Count(t) \in Nat /\ Count(s) \in Nat /\ n - m + 1 = Count(t) /\ m <= n + 1
      BY CountNat
<1>. QED BY <1>1, PieceUnits, SameUnits

-----------------------------------------------------------------------------
(***************************************************************************)
(* Frames.                                                                 *)
(***************************************************************************)

\* The header of a frame, before its metadata and its payload.
LEMMA HeaderUnits ==
    ASSUME NEW ty \in Nat, NEW id \in Nat, NEW k \in Nat, NEW l \in Nat
    PROVE  LET h == <<Magic, ty, id, k, l>>
           IN  /\ h \in Units /\ Count(h) = 5
               /\ h[1] = Magic /\ h[2] = ty /\ h[3] = id /\ h[4] = k /\ h[5] = l
<1>1. Magic \in Nat
      BY DEF Magic
<1>. QED BY <1>1 DEF Units, Count

\* The units of a frame.
LEMMA FrameUnits ==
    ASSUME NEW m \in Records
    PROVE  LET f == Encode(m)  k == Count(Metadata(m))  l == Count(m.payload)
           IN  /\ f \in Units /\ Count(f) = 5 + k + l
               /\ f[1] = Magic /\ f[2] = m.type /\ f[3] = m.id /\ f[4] = k /\ f[5] = l
               /\ \A i \in 1 .. k : f[5 + i] = Metadata(m)[i]
               /\ \A i \in 1 .. l : f[5 + k + i] = m.payload[i]
<1>. DEFINE d == Metadata(m)  p == m.payload  k == Count(d)  l == Count(p)
            h == <<Magic, m.type, m.id, k, l>>  hd == Cat(h, d)  f == Cat(hd, p)
<1>1. d \in Units /\ p \in Units
      BY RecordParts, MetadataIsSeq DEF Units
<1>2. k \in Nat /\ l \in Nat
      BY <1>1, CountNat
<1>3. /\ h \in Units /\ Count(h) = 5
      /\ h[1] = Magic /\ h[2] = m.type /\ h[3] = m.id /\ h[4] = k /\ h[5] = l
  <2>1. m.type \in Nat /\ m.id \in Nat
        BY RecordParts
  <2>. HIDE DEF k, l
  <2>. QED BY <1>2, <2>1, HeaderUnits
<1>4. Encode(m) = f
      BY DEF Encode, Cat, Count
<1>. HIDE DEF h, d, p
<1>5. /\ hd \in Units /\ Count(hd) = 5 + k
      /\ \A i \in 1 .. 5 : hd[i] = h[i]
      /\ \A i \in 1 .. k : hd[5 + i] = d[i]
      BY <1>1, <1>3, CatUnits
<1>. HIDE DEF hd, k, l
<1>6. /\ f \in Units /\ Count(f) = (5 + k) + l
      /\ \A i \in 1 .. 5 + k : f[i] = hd[i]
      /\ \A i \in 1 .. l : f[(5 + k) + i] = p[i]
      BY <1>1, <1>5, CatUnits DEF l
<1>. HIDE DEF f
<1>7. \A i \in 1 .. 5 : f[i] = h[i]
      BY <1>2, <1>5, <1>6
<1>8. \A i \in 1 .. k : f[5 + i] = d[i]
  <2>1. ASSUME NEW i \in 1 .. k
        PROVE  5 + i \in 1 .. 5 + k
        BY <1>2
  <2>. QED BY <1>5, <1>6, <2>1
<1>9. f[1] = Magic /\ f[2] = m.type /\ f[3] = m.id /\ f[4] = k /\ f[5] = l
      BY <1>3, <1>7
<1>10. /\ f \in Units /\ Count(f) = 5 + k + l
       /\ f[1] = Magic /\ f[2] = m.type /\ f[3] = m.id /\ f[4] = k /\ f[5] = l
       /\ \A i \in 1 .. k : f[5 + i] = d[i]
       /\ \A i \in 1 .. l : f[5 + k + i] = p[i]
       BY <1>6, <1>8, <1>9
<1>. QED BY <1>4, <1>10 DEF d, p, k, l

\* The decoder, in these terms.
LEMMA TryDecodeIs ==
    ASSUME NEW b \in Units, NEW ty
    PROVE  TryDecode(b, ty) =
             IF Count(b) < 5 THEN NeedMoreData
             ELSE IF b[1] # Magic \/ b[2] # ty THEN ProtocolError
             ELSE IF b[4] > MaxMessageSize \/ b[5] > MaxMessageSize - b[4] THEN ProtocolError
             ELSE IF Count(b) < 5 + b[4] + b[5] THEN NeedMoreData
             ELSE DecodeFrame(ty, b[3], Piece(b, 6, 5 + b[4]),
                              Piece(b, 5 + b[4] + 1, 5 + b[4] + b[5]))
BY DEF TryDecode, HeaderSize, Count, Piece

\* What begins with a frame is decoded to the message, or refused when no
\* encoder makes such a frame.
LEMMA DecodeBehind ==
    ASSUME NEW m \in Records, NEW b \in Units, Count(Encode(m)) <= Count(b),
           \A i \in 1 .. Count(Encode(m)) : b[i] = Encode(m)[i]
    PROVE  /\ TryDecode(b, m.type) = IF Encodable(m)
                THEN [status |-> "Complete", message |-> Normal(m)] ELSE ProtocolError
           /\ TotalLength(b) = Count(Encode(m))
<1>. DEFINE d == Metadata(m)  p == m.payload  f == Encode(m)
            k == Count(d)  l == Count(p)  n == Count(b)
<1>1. d \in Units /\ p \in Units
      BY RecordParts, MetadataIsSeq DEF Units
<1>2. k \in Nat /\ l \in Nat /\ n \in Nat /\ k = Count(d) /\ l = Count(p) /\ n = Count(b)
      BY <1>1, CountNat
<1>3. Encodable(m) <=> k + l <= MaxMessageSize
      BY DEF Encodable, Count
<1>4. Count(f) <= n /\ \A i \in 1 .. Count(f) : b[i] = f[i]
      OBVIOUS
<1>5. /\ Count(f) = 5 + k + l
      /\ f[1] = Magic /\ f[2] = m.type /\ f[3] = m.id /\ f[4] = k /\ f[5] = l
      /\ \A i \in 1 .. k : f[5 + i] = d[i]
      /\ \A i \in 1 .. l : f[5 + k + i] = p[i]
      BY FrameUnits
<1>6. DecodeFrame(m.type, m.id, d, p) = [status |-> "Complete", message |-> Normal(m)]
      BY DecodeEncoded
<1>7. MaxMessageSize \in Nat
      BY CodecAssumption
<1>. HIDE DEF d, p, f, k, l, n
<1>8. \A i \in 1 .. 5 + k + l : b[i] = f[i]
      BY <1>4, <1>5
<1>9. b[1] = Magic /\ b[2] = m.type /\ b[3] = m.id /\ b[4] = k /\ b[5] = l
      BY <1>2, <1>5, <1>8
<1>10. Piece(b, 6, 5 + k) = d
  <2>1. ASSUME NEW i \in 1 .. k
        PROVE  b[6 + i - 1] = d[i]
    <3>1. 6 + i - 1 = 5 + i /\ 5 + i \in 1 .. 5 + k + l
          BY <1>2
    <3>. QED BY <1>5, <1>8, <3>1
  <2>2. 5 + k = 6 + k - 1 /\ 5 + k <= n /\ 5 + k \in Nat /\ 6 \in Nat \ {0}
        BY <1>2, <1>4, <1>5
  <2>. QED BY <1>1, <1>2, <2>1, <2>2, PieceIs
<1>11. Piece(b, 5 + k + 1, 5 + k + l) = p
  <2>1. ASSUME NEW i \in 1 .. l
        PROVE  b[5 + k + 1 + i - 1] = p[i]
    <3>1. 5 + k + 1 + i - 1 = 5 + k + i /\ 5 + k + i \in 1 .. 5 + k + l
          BY <1>2
    <3>. QED BY <1>5, <1>8, <3>1
  <2>2. /\ 5 + k + l = 5 + k + 1 + l - 1 /\ 5 + k + l <= n /\ 5 + k + l \in Nat
        /\ 5 + k + 1 \in Nat \ {0}
        BY <1>2, <1>4, <1>5
  <2>. QED BY <1>1, <1>2, <2>1, <2>2, PieceIs
<1>12. ~(n < 5) /\ ~(n < 5 + k + l)
       BY <1>2, <1>4, <1>5
<1>13. TryDecode(b, m.type) = IF k > MaxMessageSize \/ l > MaxMessageSize - k
                                THEN ProtocolError ELSE DecodeFrame(m.type, m.id, d, p)
       BY <1>2, <1>9, <1>10, <1>11, <1>12, TryDecodeIs
<1>14. (k > MaxMessageSize \/ l > MaxMessageSize - k) <=> ~Encodable(m)
       BY <1>2, <1>3, <1>7
<1>15. TotalLength(b) = Count(f)
       BY <1>2, <1>5, <1>9 DEF TotalLength, HeaderSize
<1>. QED BY <1>6, <1>13, <1>14, <1>15 DEF f

\* Less than a frame needs more.
LEMMA DecodeBefore ==
    ASSUME NEW m \in Records, Encodable(m), NEW b \in Units, Count(b) < Count(Encode(m)),
           \A i \in 1 .. Count(b) : b[i] = Encode(m)[i]
    PROVE  TryDecode(b, m.type) = NeedMoreData
<1>. DEFINE d == Metadata(m)  p == m.payload  f == Encode(m)
            k == Count(d)  l == Count(p)  n == Count(b)
<1>1. d \in Units /\ p \in Units
      BY RecordParts, MetadataIsSeq DEF Units
<1>2. k \in Nat /\ l \in Nat /\ n \in Nat /\ MaxMessageSize \in Nat /\ n = Count(b)
      BY <1>1, CountNat, CodecAssumption
<1>3. k + l <= MaxMessageSize
      BY DEF Encodable, Count
<1>4. n < Count(f) /\ \A i \in 1 .. n : b[i] = f[i]
      OBVIOUS
<1>5. Count(f) = 5 + k + l /\ f[1] = Magic /\ f[2] = m.type /\ f[4] = k /\ f[5] = l
      BY FrameUnits
<1>. HIDE DEF d, p, f, k, l, n
<1>6. CASE n < 5
      BY <1>2, <1>6, TryDecodeIs
<1>7. CASE ~(n < 5)
  <2>1. b[1] = Magic /\ b[2] = m.type /\ b[4] = k /\ b[5] = l
        BY <1>2, <1>4, <1>5, <1>7
  <2>2. ~(k > MaxMessageSize \/ l > MaxMessageSize - k) /\ n < 5 + k + l
        BY <1>2, <1>3, <1>4, <1>5
  <2>. QED BY <1>2, <1>7, <2>1, <2>2, TryDecodeIs
<1>. QED BY <1>6, <1>7

\* A frame is no message of the other type.
LEMMA DecodeOther ==
    ASSUME NEW m \in Records
    PROVE  TryDecode(Encode(m), 3 - m.type) = ProtocolError
<1>. DEFINE f == Encode(m)  k == Count(Metadata(m))  l == Count(m.payload)
<1>1. k \in Nat /\ l \in Nat
      BY RecordParts, MetadataIsSeq, CountNat DEF Units
<1>2. f \in Units /\ Count(f) = 5 + k + l /\ f[2] = m.type
      BY FrameUnits
<1>3. m.type # 3 - m.type
      BY RecordParts
<1>. HIDE DEF f, k, l
<1>4. ~(Count(f) < 5)
      BY <1>1, <1>2
<1>5. TryDecode(f, 3 - m.type) = ProtocolError
      BY <1>2, <1>3, <1>4, TryDecodeIs
<1>. QED BY <1>5 DEF f

\* For every message and whatever follows its frame: the frame is decoded to
\* the message, or refused by decoder and encoder alike; less than the frame
\* is not enough; and it is no message of the other type (tryDecodeRequest,
\* tryDecodeResponse on what encodeRequest, encodeResponse made).
THEOREM CodecRoundTrip ==
    ASSUME NEW m \in Records, NEW t \in Seq(Nat)
    PROVE  LET f == Encode(m)
           IN  /\ TryDecode(f \o t, m.type) = IF Encodable(m)
                    THEN [status |-> "Complete", message |-> Normal(m)] ELSE ProtocolError
               /\ TotalLength(f) = Len(f)
               /\ Encodable(m) => \A i \in 0 .. Len(f) - 1 :
                                     TryDecode(SubSeq(f, 1, i), m.type) = NeedMoreData
               /\ TryDecode(f, 3 - m.type) = ProtocolError
<1>. DEFINE f == Encode(m)
<1>1. f \in Units /\ t \in Units
      BY FrameUnits DEF Units
<1>2. Count(f) \in Nat /\ Count(t) \in Nat
      BY <1>1, CountNat
<1>3. TryDecode(Cat(f, t), m.type) = IF Encodable(m)
        THEN [status |-> "Complete", message |-> Normal(m)] ELSE ProtocolError
  <2>1. /\ Cat(f, t) \in Units /\ Count(f) <= Count(Cat(f, t))
        /\ \A i \in 1 .. Count(f) : Cat(f, t)[i] = f[i]
        BY <1>1, <1>2, CatUnits
  <2>. QED BY <2>1, DecodeBehind
<1>4. TotalLength(f) = Count(f)
  <2>1. Count(f) <= Count(f)
        BY <1>2
  <2>2. /\ TryDecode(f, m.type) = IF Encodable(m)
             THEN [status |-> "Complete", message |-> Normal(m)] ELSE ProtocolError
        /\ TotalLength(f) = Count(f)
        BY <1>1, <2>1, DecodeBehind
  <2>. QED BY <2>2
<1>5. ASSUME Encodable(m), NEW i \in 0 .. Count(f) - 1
      PROVE  TryDecode(Piece(f, 1, i), m.type) = NeedMoreData
  <2>1. i \in Nat /\ i < Count(f) /\ 1 <= i + 1 /\ i - 1 + 1 = i /\ 1 \in Nat \ {0}
        BY <1>2
  <2>2. /\ Piece(f, 1, i) \in Units /\ Count(Piece(f, 1, i)) = i
        /\ \A j \in 1 .. i : Piece(f, 1, i)[j] = f[1 + j - 1]
        BY <1>1, <1>2, <2>1, PieceUnits
  <2>3. \A j \in 1 .. i : 1 + j - 1 = j
        BY <2>1
  <2>. QED BY <1>5, <2>1, <2>2, <2>3, DecodeBefore
<1>6. TryDecode(f, 3 - m.type) = ProtocolError
      BY DecodeOther
<1>. QED BY <1>3, <1>4, <1>5, <1>6 DEF Cat, Count, Piece

\* The messages the runs look at, in every state.
THEOREM SamplesAreSelfDelimiting == Spec => []FramesAreSelfDelimiting
<1>1. FramesAreSelfDelimiting
  <2>1. SUFFICES ASSUME NEW m \in Samples, m.type = type
                 PROVE  LET f == Encode(m)
                        IN  /\ \A t \in {<< >>, <<0>>, f} :
                                  TryDecode(f \o t, m.type) = IF Encodable(m)
                                    THEN [status |-> "Complete", message |-> Normal(m)]
                                    ELSE ProtocolError
                            /\ Encodable(m) => /\ TotalLength(f) = Len(f)
                                               /\ \A i \in 0 .. Len(f) - 1 :
                                                     TryDecode(SubSeq(f, 1, i), m.type) = NeedMoreData
                            /\ TryDecode(f, 3 - m.type) = ProtocolError
        BY DEF FramesAreSelfDelimiting
  <2>2. m \in Records
        BY MessagesAssumption DEF Records
  <2>3. {<< >>, <<0>>, Encode(m)} \subseteq Seq(Nat)
    <3>1. << >> \in Seq(Nat) /\ <<0>> \in Seq(Nat)
          OBVIOUS
    <3>2. Encode(m) \in Seq(Nat)
          BY <2>2, FrameUnits DEF Units
    <3>. QED BY <3>1, <3>2
  <2>4. \A t \in Seq(Nat) :
          /\ TryDecode(Encode(m) \o t, m.type) = IF Encodable(m)
                    THEN [status |-> "Complete", message |-> Normal(m)] ELSE ProtocolError
          /\ TotalLength(Encode(m)) = Len(Encode(m))
          /\ Encodable(m) => \A i \in 0 .. Len(Encode(m)) - 1 :
                                TryDecode(SubSeq(Encode(m), 1, i), m.type) = NeedMoreData
          /\ TryDecode(Encode(m), 3 - m.type) = ProtocolError
        BY <2>2, CodecRoundTrip
  <2>. QED BY <2>3, <2>4, Zenon
<1>. QED BY <1>1, PTL

-----------------------------------------------------------------------------
(***************************************************************************)
(* Buffers.                                                                *)
(***************************************************************************)

BufferRecords == [data : Units, readerIndex : Nat, writerIndex : Nat]

\* A buffer whose indices are where they may be.
Proper(b) == /\ b \in BufferRecords
             /\ CheapPrepend <= b.readerIndex /\ b.readerIndex <= b.writerIndex
             /\ b.writerIndex <= Count(b.data)

\* What can be read of a buffer, in units.
LEMMA ReadableIs ==
    ASSUME NEW b, Proper(b)
    PROVE  /\ b.data \in Units /\ b.readerIndex \in Nat /\ b.writerIndex \in Nat
           /\ Readable(b) = Piece(b.data, b.readerIndex + 1, b.writerIndex)
           /\ Readable(b) \in Units /\ Count(Readable(b)) = b.writerIndex - b.readerIndex
           /\ \A i \in 1 .. b.writerIndex - b.readerIndex :
                 Readable(b)[i] = b.data[b.readerIndex + i]
           /\ ReadableBytes(b) = b.writerIndex - b.readerIndex /\ ReadableBytes(b) \in Nat
           /\ IsBuffer(b)
<1>. DEFINE d == b.data  r == b.readerIndex  w == b.writerIndex
<1>1. d \in Units /\ r \in Nat /\ w \in Nat /\ CheapPrepend <= r /\ r <= w /\ w <= Count(d)
      BY DEF Proper, BufferRecords
<1>2. Readable(b) = Piece(d, r + 1, w)
      BY DEF Readable, Piece
<1>3. IsBuffer(b)
      BY <1>1 DEF IsBuffer, Size, Units, Count
<1>4. ReadableBytes(b) = w - r
      BY DEF ReadableBytes
<1>. HIDE DEF d, r, w
<1>5. Count(d) \in Nat
      BY <1>1, CountNat
<1>6. /\ r + 1 \in Nat \ {0} /\ r + 1 <= w + 1 /\ w - (r + 1) + 1 = w - r
      BY <1>1
<1>7. /\ Piece(d, r + 1, w) \in Units /\ Count(Piece(d, r + 1, w)) = w - r
      /\ \A i \in 1 .. w - r : Piece(d, r + 1, w)[i] = d[r + 1 + i - 1]
      BY <1>1, <1>6, PieceUnits
<1>8. \A i \in 1 .. w - r : r + 1 + i - 1 = r + i
      BY <1>1
<1>9. w - r \in Nat
      BY <1>1
<1>. QED BY <1>1, <1>2, <1>3, <1>4, <1>7, <1>8, <1>9 DEF d, r, w

\* Room nobody can read.
LEMMA ZerosUnits ==
    ASSUME NEW n \in Nat
    PROVE  Zeros(n) \in Units /\ Count(Zeros(n)) = n
BY DEF Zeros, Units, Count

\* A buffer that holds s from index r on.
LEMMA HoldingHolds ==
    ASSUME NEW s \in Units, NEW r \in Nat, NEW size \in Nat,
           CheapPrepend <= r, r + Count(s) <= size
    PROVE  LET b == Holding(s, r, size)
           IN  /\ Proper(b) /\ Readable(b) = s /\ Count(b.data) = size
               /\ b.readerIndex = r /\ b.writerIndex = r + Count(s)
<1>. DEFINE b == Holding(s, r, size)  n == Count(s)  k == size - r - n
            front == Cat(Zeros(r), s)  d == Cat(front, Zeros(k))
<1>1. n \in Nat /\ r + n <= size
      BY CountNat
<1>2. b = [data |-> d, readerIndex |-> r, writerIndex |-> r + n]
      BY DEF Holding, Cat, Count
<1>. HIDE DEF n
<1>3. k \in Nat /\ r + n + k = size /\ r + n \in Nat
      BY <1>1
<1>. HIDE DEF k
<1>4. /\ Zeros(r) \in Units /\ Count(Zeros(r)) = r
      /\ Zeros(k) \in Units /\ Count(Zeros(k)) = k
      BY <1>3, ZerosUnits
<1>5. /\ front \in Units /\ Count(front) = r + n
      /\ \A i \in 1 .. n : front[r + i] = s[i]
      BY <1>4, CatUnits DEF n
<1>. HIDE DEF front
<1>6. /\ d \in Units /\ Count(d) = r + n + k
      /\ \A i \in 1 .. r + n : d[i] = front[i]
      BY <1>4, <1>5, CatUnits
<1>. HIDE DEF d
<1>7. /\ b \in BufferRecords /\ b.data = d /\ b.readerIndex = r /\ b.writerIndex = r + n
      BY <1>1, <1>2, <1>3, <1>6 DEF BufferRecords
<1>. HIDE DEF b
<1>8. Count(d) = size /\ r <= r + n /\ r + n <= Count(d)
      BY <1>1, <1>3, <1>6
<1>9. Proper(b)
      BY <1>7, <1>8 DEF Proper
<1>10. Readable(b) = s
  <2>1. /\ Readable(b) \in Units /\ Count(Readable(b)) = (r + n) - r
        /\ \A i \in 1 .. (r + n) - r : Readable(b)[i] = d[r + i]
        BY <1>7, <1>9, ReadableIs
  <2>2. (r + n) - r = n
        BY <1>1
  <2>3. \A i \in 1 .. n : r + i \in 1 .. r + n
        BY <1>1
  <2>4. \A i \in 1 .. n : Readable(b)[i] = s[i]
        BY <1>5, <1>6, <2>1, <2>2, <2>3
  <2>. QED BY <2>1, <2>2, <2>4, SameUnits DEF n
<1>. QED BY <1>7, <1>8, <1>9, <1>10 DEF b, n

\* No units at all.
LEMMA NoUnits ==
    << >> \in Units /\ Count(<< >>) = 0
BY DEF Units, Count

\* A new buffer.
LEMMA EmptyHolds ==
    Proper(EmptyBuffer) /\ Readable(EmptyBuffer) = << >> /\ ReadableBytes(EmptyBuffer) = 0
<1>1. /\ CheapPrepend \in Nat /\ CheapPrepend + InitialSize \in Nat /\ CheapPrepend <= CheapPrepend
      /\ CheapPrepend + 0 <= CheapPrepend + InitialSize
      BY BufferAssumption
<1>. DEFINE b == Holding(<< >>, CheapPrepend, CheapPrepend + InitialSize)
<1>2. Proper(b) /\ Readable(b) = << >>
      BY <1>1, NoUnits, HoldingHolds
<1>. HIDE DEF b
<1>3. ReadableBytes(b) = 0
      BY <1>2, NoUnits, ReadableIs
<1>. QED BY <1>2, <1>3 DEF EmptyBuffer, b

\* Room is made without a change of what can be read.
LEMMA RoomIsMade ==
    ASSUME NEW b, Proper(b), NEW n \in Nat
    PROVE  LET room == EnsureWritableBytes(b, n)
           IN  /\ Proper(room) /\ Readable(room) = Readable(b)
               /\ room.writerIndex + n <= Count(room.data)
<1>. DEFINE d == b.data  r == b.readerIndex  w == b.writerIndex  size == Count(d)
<1>1. d \in Units /\ r \in Nat /\ w \in Nat /\ CheapPrepend <= r /\ r <= w /\ w <= size
      BY DEF Proper, BufferRecords
<1>2. size \in Nat /\ CheapPrepend \in Nat
      BY <1>1, CountNat, BufferAssumption
<1>3. /\ Readable(b) \in Units /\ Count(Readable(b)) = w - r
      /\ \A i \in 1 .. w - r : Readable(b)[i] = d[r + i]
      BY ReadableIs
<1>4. EnsureWritableBytes(b, n) =
        IF size - w < n
          THEN IF (size - w) + r < n + CheapPrepend
                 THEN [b EXCEPT !.data = Cat(d, Zeros(w + n - size))]
                 ELSE Holding(Readable(b), CheapPrepend, size)
          ELSE b
      BY DEF EnsureWritableBytes, MakeSpace, MakeSpaceBy, WritableBytes, Size, Count, Cat
<1>5. CASE ~(size - w < n)
  <2>1. EnsureWritableBytes(b, n) = b
        BY <1>4, <1>5
  <2>2. w + n <= size
    <3>. HIDE DEF w, size
    <3>. QED BY <1>1, <1>2, <1>5
  <2>. QED BY <2>1, <2>2
<1>6. CASE size - w < n /\ ~((size - w) + r < n + CheapPrepend)
  <2>. DEFINE room == Holding(Readable(b), CheapPrepend, size)
  <2>1. EnsureWritableBytes(b, n) = room
        BY <1>4, <1>6
  <2>2. CheapPrepend <= CheapPrepend /\ CheapPrepend + (w - r) <= size
    <3>. HIDE DEF w, r, size
    <3>. QED BY <1>1, <1>2
  <2>3. /\ Proper(room) /\ Readable(room) = Readable(b) /\ Count(room.data) = size
        /\ room.writerIndex = CheapPrepend + (w - r)
    <3>. HIDE DEF w, r, size
    <3>. QED BY <1>2, <1>3, <2>2, HoldingHolds
  <2>4. CheapPrepend + (w - r) + n <= size
    <3>. HIDE DEF w, r, size
    <3>. QED BY <1>1, <1>2, <1>6
  <2>. QED BY <2>1, <2>3, <2>4
<1>7. CASE size - w < n /\ (size - w) + r < n + CheapPrepend
  <2>. DEFINE k == w + n - size  longer == Cat(d, Zeros(k))  room == [b EXCEPT !.data = longer]
  <2>1. EnsureWritableBytes(b, n) = room
        BY <1>4, <1>7
  <2>2. k \in Nat /\ size + k = w + n
    <3>. HIDE DEF w, size
    <3>. QED BY <1>1, <1>2, <1>7
  <2>3. /\ longer \in Units /\ Count(longer) = size + k
        /\ \A i \in 1 .. size : longer[i] = d[i]
    <3>. HIDE DEF k
    <3>1. Zeros(k) \in Units /\ Count(Zeros(k)) = k
          BY <2>2, ZerosUnits
    <3>. QED BY <1>1, <3>1, CatUnits
  <2>. HIDE DEF longer, k
  <2>4. /\ room \in BufferRecords /\ room.data = longer /\ room.readerIndex = r
        /\ room.writerIndex = w
    <3>1. b \in BufferRecords
          BY DEF Proper
    <3>. QED BY <2>3, <3>1 DEF BufferRecords
  <2>5. w <= Count(longer) /\ w + n <= Count(longer)
    <3>. HIDE DEF w, size
    <3>. QED BY <1>1, <1>2, <2>2, <2>3
  <2>. HIDE DEF room
  <2>6. Proper(room)
        BY <1>1, <2>4, <2>5 DEF Proper
  <2>7. Readable(room) = Readable(b)
    <3>1. /\ Readable(room) \in Units /\ Count(Readable(room)) = w - r
          /\ \A i \in 1 .. w - r : Readable(room)[i] = longer[r + i]
          BY <2>4, <2>6, ReadableIs
    <3>. HIDE DEF w, r, size
    <3>2. \A i \in 1 .. w - r : r + i \in 1 .. size
          BY <1>1, <1>2
    <3>3. \A i \in 1 .. w - r : Readable(room)[i] = Readable(b)[i]
          BY <1>3, <2>3, <3>1, <3>2
    <3>. QED BY <1>3, <3>1, <3>3, SameUnits
  <2>. QED BY <2>1, <2>4, <2>5, <2>6, <2>7
<1>. QED BY <1>5, <1>6, <1>7

\* What is appended stands behind what could be read.
LEMMA AppendHolds ==
    ASSUME NEW b, Proper(b), NEW s \in Units
    PROVE  /\ Proper(AppendUnits(b, s))
           /\ Readable(AppendUnits(b, s)) = Cat(Readable(b), s)
           /\ ReadableBytes(AppendUnits(b, s)) = ReadableBytes(b) + Count(s)
<1>. DEFINE n == Count(s)  room == EnsureWritableBytes(b, n)
            d == room.data  r == room.readerIndex  w == room.writerIndex  size == Count(d)
            left == Piece(d, 1, w)  right == Piece(d, w + n + 1, size)
            front == Cat(left, s)  new == Cat(front, right)
            after == [room EXCEPT !.data = new, !.writerIndex = w + n]
<1>1. n \in Nat
      BY CountNat
<1>2. AppendUnits(b, s) = after
      BY DEF AppendUnits, Piece, Cat, Count
<1>3. Proper(room) /\ Readable(room) = Readable(b) /\ w + n <= size
  <2>. HIDE DEF n
  <2>. QED BY <1>1, RoomIsMade
<1>. HIDE DEF room, n
<1>4. /\ d \in Units /\ r \in Nat /\ w \in Nat /\ CheapPrepend <= r /\ r <= w /\ w <= size
      /\ room \in BufferRecords
      BY <1>3 DEF Proper, BufferRecords
<1>5. size \in Nat
      BY <1>4, CountNat
<1>6. /\ Readable(room) \in Units /\ Count(Readable(room)) = w - r
      /\ \A i \in 1 .. w - r : Readable(room)[i] = d[r + i]
      BY <1>3, ReadableIs
<1>7. /\ left \in Units /\ Count(left) = w /\ \A i \in 1 .. w : left[i] = d[i]
  <2>. HIDE DEF w, size, d
  <2>1. 1 \in Nat \ {0} /\ 1 <= w + 1 /\ w - 1 + 1 = w /\ \A i \in 1 .. w : 1 + i - 1 = i
        BY <1>4
  <2>2. w <= Count(d)
        BY <1>4 DEF size
  <2>. QED BY <1>4, <2>1, <2>2, PieceUnits
<1>8. right \in Units /\ Count(right) = size - (w + n)
  <2>. HIDE DEF w, size, d
  <2>1. /\ w + n + 1 \in Nat \ {0} /\ w + n + 1 <= size + 1 /\ size <= size
        /\ size - (w + n + 1) + 1 = size - (w + n)
        BY <1>1, <1>3, <1>4, <1>5
  <2>2. /\ Piece(d, w + n + 1, size) \in Units
        /\ Count(Piece(d, w + n + 1, size)) = size - (w + n + 1) + 1
        BY <1>4, <1>5, <2>1, PieceUnits DEF size
  <2>. QED BY <2>1, <2>2
<1>. HIDE DEF left, right
<1>9. /\ front \in Units /\ Count(front) = w + n
      /\ \A i \in 1 .. w : front[i] = left[i]
      /\ \A i \in 1 .. n : front[w + i] = s[i]
      BY <1>7, CatUnits DEF n
<1>. HIDE DEF front
<1>10. /\ new \in Units /\ Count(new) = (w + n) + (size - (w + n))
       /\ \A i \in 1 .. w + n : new[i] = front[i]
       BY <1>8, <1>9, CatUnits
<1>. HIDE DEF new
<1>11. /\ after \in BufferRecords /\ after.data = new /\ after.readerIndex = r
       /\ after.writerIndex = w + n
  <2>1. w + n \in Nat
        BY <1>1, <1>4
  <2>. QED BY <1>4, <1>10, <2>1 DEF BufferRecords
<1>12. Count(new) = size /\ r <= w + n
  <2>. HIDE DEF w, r, size
  <2>. QED BY <1>1, <1>4, <1>5, <1>10
<1>. HIDE DEF after
<1>13. Proper(after)
       BY <1>3, <1>4, <1>11, <1>12 DEF Proper
<1>14. /\ Readable(after) \in Units /\ Count(Readable(after)) = (w + n) - r
       /\ \A i \in 1 .. (w + n) - r : Readable(after)[i] = new[r + i]
       /\ ReadableBytes(after) = (w + n) - r
       BY <1>11, <1>13, ReadableIs
<1>. DEFINE old == Readable(room)  both == Cat(old, s)
<1>15. /\ both \in Units /\ Count(both) = (w - r) + n
       /\ \A i \in 1 .. w - r : both[i] = old[i]
       /\ \A i \in 1 .. n : both[(w - r) + i] = s[i]
       BY <1>6, CatUnits DEF n
<1>. HIDE DEF both, old
<1>16. ASSUME NEW i \in 1 .. (w + n) - r
       PROVE  Readable(after)[i] = both[i]
  <2>. HIDE DEF w, r, d, size
  <2>1. Readable(after)[i] = new[r + i] /\ r + i \in 1 .. w + n
        BY <1>1, <1>4, <1>14
  <2>2. Readable(after)[i] = front[r + i]
        BY <1>10, <2>1
  <2>3. CASE i <= w - r
    <3>1. r + i \in 1 .. w /\ i \in 1 .. w - r
          BY <1>4, <2>3
    <3>2. front[r + i] = d[r + i]
          BY <1>7, <1>9, <3>1
    <3>3. both[i] = d[r + i]
          BY <1>6, <1>15, <3>1 DEF old
    <3>. QED BY <2>2, <3>2, <3>3
  <2>4. CASE ~(i <= w - r)
    <3>. DEFINE j == i - (w - r)
    <3>1. j \in 1 .. n /\ r + i = w + j /\ i = (w - r) + j
          BY <1>1, <1>4, <2>4
    <3>. HIDE DEF j
    <3>2. front[w + j] = s[j] /\ both[(w - r) + j] = s[j]
          BY <1>9, <1>15, <3>1
    <3>. QED BY <2>2, <3>1, <3>2
  <2>. QED BY <2>3, <2>4
<1>17. (w + n) - r = (w - r) + n
  <2>. HIDE DEF w, r
  <2>. QED BY <1>1, <1>4
<1>18. Readable(after) = both
       BY <1>14, <1>15, <1>16, <1>17, SameUnits
<1>19. ReadableBytes(b) = w - r
  <2>1. ReadableBytes(b) = Count(Readable(b))
        BY ReadableIs
  <2>. QED BY <1>3, <1>6, <2>1
<1>. QED BY <1>2, <1>3, <1>13, <1>14, <1>17, <1>18, <1>19 DEF both, old, n

\* What is taken off a buffer was in front of what can still be read.
LEMMA RetrieveHolds ==
    ASSUME NEW b, Proper(b), NEW n \in 0 .. ReadableBytes(b)
    PROVE  /\ Proper(Retrieve(b, n))
           /\ Readable(Retrieve(b, n)) = Piece(Readable(b), n + 1, ReadableBytes(b))
           /\ ReadableBytes(Retrieve(b, n)) = ReadableBytes(b) - n
<1>. DEFINE d == b.data  r == b.readerIndex  w == b.writerIndex  size == Count(d)
            k == ReadableBytes(b)  rest == Piece(Readable(b), n + 1, k)
<1>1. d \in Units /\ r \in Nat /\ w \in Nat /\ CheapPrepend <= r /\ r <= w /\ w <= size
      BY DEF Proper, BufferRecords
<1>2. size \in Nat /\ CheapPrepend \in Nat
      BY <1>1, CountNat, BufferAssumption
<1>3. /\ k \in Nat /\ k = w - r /\ Readable(b) \in Units /\ Count(Readable(b)) = k
      BY ReadableIs
<1>4. n \in Nat /\ n <= k
      BY <1>3
<1>5. rest \in Units /\ Count(rest) = k - n
  <2>. HIDE DEF k
  <2>1. n + 1 \in Nat \ {0} /\ n + 1 <= k + 1 /\ k <= Count(Readable(b)) /\ k - (n + 1) + 1 = k - n
        BY <1>3, <1>4
  <2>2. /\ Piece(Readable(b), n + 1, k) \in Units
        /\ Count(Piece(Readable(b), n + 1, k)) = k - (n + 1) + 1
        BY <1>3, <2>1, PieceUnits
  <2>. QED BY <2>1, <2>2
<1>6. Retrieve(b, n) = IF n = k THEN Holding(<< >>, CheapPrepend, size)
                                ELSE Holding(rest, r + n, size)
      BY DEF Retrieve, Piece, Size, Count
<1>. HIDE DEF d, r, w, size, k, rest
<1>7. CASE n = k
  <2>. DEFINE new == Holding(<< >>, CheapPrepend, size)
  <2>1. CheapPrepend <= CheapPrepend /\ CheapPrepend + 0 <= size
        BY <1>1, <1>2
  <2>2. Proper(new) /\ Readable(new) = << >>
        BY <1>2, <2>1, NoUnits, HoldingHolds
  <2>3. rest = << >>
    <3>1. Count(rest) = 0
          BY <1>3, <1>5, <1>7
    <3>. QED BY <1>5, <3>1, NoUnits, SameUnits
  <2>. HIDE DEF new
  <2>4. ReadableBytes(new) = 0
        BY <2>2, NoUnits, ReadableIs
  <2>. QED BY <1>3, <1>6, <1>7, <2>2, <2>3, <2>4 DEF new, rest, k
<1>8. CASE n # k
  <2>. DEFINE new == Holding(rest, r + n, size)
  <2>1. r + n \in Nat /\ CheapPrepend <= r + n /\ r + n + Count(rest) <= size
        BY <1>1, <1>2, <1>3, <1>4, <1>5
  <2>2. Proper(new) /\ Readable(new) = rest
        BY <1>2, <1>5, <2>1, HoldingHolds
  <2>. HIDE DEF new
  <2>3. ReadableBytes(new) = k - n
        BY <1>5, <2>2, ReadableIs
  <2>. QED BY <1>6, <1>8, <2>2, <2>3 DEF new, rest, k
<1>. QED BY <1>7, <1>8

-----------------------------------------------------------------------------
(***************************************************************************)
(* Streams of frames.                                                      *)
(***************************************************************************)

\* Units put together in whatever order.
LEMMA CatAssociative ==
    ASSUME NEW a \in Units, NEW b \in Units, NEW c \in Units
    PROVE  Cat(Cat(a, b), c) = Cat(a, Cat(b, c))
BY ConcatAnyway DEF Units, Cat

\* Nothing in front, or nothing behind.
LEMMA CatNothing ==
    ASSUME NEW s \in Units
    PROVE  Cat(s, << >>) = s /\ Cat(<< >>, s) = s
BY ConcatEmptySeq DEF Units, Cat

\* A sequence with units has a first one.
LEMMA SomeUnits ==
    ASSUME NEW s \in Units
    PROVE  (s # << >>) <=> Count(s) > 0
<1>1. Count(s) \in Nat
      BY CountNat
<1>2. CASE Count(s) = 0
      BY <1>2, NoUnits, SameUnits
<1>3. CASE Count(s) > 0
      BY <1>3, NoUnits
<1>. QED BY <1>1, <1>2, <1>3

\* Both pieces of a sequence.
LEMMA CatPieces ==
    ASSUME NEW s \in Units, NEW n \in 0 .. Count(s)
    PROVE  /\ Piece(s, 1, n) \in Units /\ Count(Piece(s, 1, n)) = n
           /\ Piece(s, n + 1, Count(s)) \in Units
           /\ Count(Piece(s, n + 1, Count(s))) = Count(s) - n
           /\ \A i \in 1 .. Count(s) - n : Piece(s, n + 1, Count(s))[i] = s[n + i]
           /\ Cat(Piece(s, 1, n), Piece(s, n + 1, Count(s))) = s
<1>. DEFINE k == Count(s)  a == Piece(s, 1, n)  b == Piece(s, n + 1, k)
<1>1. k \in Nat /\ n \in Nat /\ n <= k /\ k <= Count(s)
      BY CountNat
<1>. HIDE DEF k
<1>2. /\ 1 \in Nat \ {0} /\ 1 <= n + 1 /\ n - 1 + 1 = n /\ n <= Count(s)
      /\ n + 1 \in Nat \ {0} /\ n + 1 <= k + 1 /\ k - (n + 1) + 1 = k - n
      BY <1>1 DEF k
<1>3. a \in Units /\ Count(a) = n /\ \A i \in 1 .. n : a[i] = s[1 + i - 1]
      BY <1>1, <1>2, PieceUnits
<1>4. b \in Units /\ Count(b) = k - n /\ \A i \in 1 .. k - n : b[i] = s[n + 1 + i - 1]
  <2>1. /\ Piece(s, n + 1, k) \in Units /\ Count(Piece(s, n + 1, k)) = k - (n + 1) + 1
        /\ \A i \in 1 .. k - (n + 1) + 1 : Piece(s, n + 1, k)[i] = s[n + 1 + i - 1]
        BY <1>1, <1>2, PieceUnits
  <2>. QED BY <1>2, <2>1
<1>. HIDE DEF a, b
<1>5. (\A i \in 1 .. n : 1 + i - 1 = i) /\ \A i \in 1 .. k - n : n + 1 + i - 1 = n + i
      BY <1>1
<1>6. (\A i \in 1 .. n : a[i] = s[i]) /\ \A i \in 1 .. k - n : b[i] = s[n + i]
      BY <1>3, <1>4, <1>5
<1>7. /\ Cat(a, b) \in Units /\ Count(Cat(a, b)) = n + (k - n)
      /\ \A i \in 1 .. n : Cat(a, b)[i] = a[i]
      /\ \A i \in 1 .. k - n : Cat(a, b)[n + i] = b[i]
      BY <1>3, <1>4, CatUnits
<1>8. ASSUME NEW i \in 1 .. k
      PROVE  Cat(a, b)[i] = s[i]
  <2>1. CASE i <= n
        BY <1>1, <1>6, <1>7, <2>1
  <2>2. CASE ~(i <= n)
    <3>. DEFINE j == i - n
    <3>1. j \in 1 .. k - n /\ i = n + j
          BY <1>1, <2>2
    <3>. HIDE DEF j
    <3>. QED BY <1>6, <1>7, <3>1
  <2>. QED BY <2>1, <2>2
<1>9. n + (k - n) = k
      BY <1>1
<1>10. Cat(a, b) = s
  <2>1. Count(Cat(a, b)) = Count(s)
        BY <1>7, <1>9 DEF k
  <2>2. \A i \in 1 .. Count(Cat(a, b)) : Cat(a, b)[i] = s[i]
        BY <1>7, <1>8, <1>9
  <2>. QED BY <1>7, <2>1, <2>2, SameUnits
<1>. QED BY <1>3, <1>4, <1>6, <1>10 DEF a, b, k

\* What is sent and delivered.
Items      == {Normal(m) : m \in Records}
Lists      == Seq(Items)
Total(s)   == Len(s)
With(s, x) == Append(s, x)

\* One more message.
LEMMA WithItem ==
    ASSUME NEW s \in Lists, NEW x \in Items
    PROVE  /\ With(s, x) \in Lists /\ Total(s) \in Nat /\ Total(With(s, x)) = Total(s) + 1
           /\ \A i \in 1 .. Total(s) : With(s, x)[i] = s[i]
           /\ With(s, x)[Total(s) + 1] = x
<1>1. /\ Append(s, x) \in Seq(Items) /\ Len(Append(s, x)) = Len(s) + 1
      /\ \A i \in 1 .. Len(s) : Append(s, x)[i] = s[i]
      /\ Append(s, x)[Len(s) + 1] = x
      BY AppendProperties DEF Lists
<1>2. Len(s) \in Nat
      BY DEF Lists
<1>. QED BY <1>1, <1>2 DEF Lists, Total, With

\* Between p and q the stream holds a frame of the message x.
FrameAt(stream, ty, p, q, x) ==
    \E m \in Records : /\ m.type = ty /\ Encodable(m) /\ x = Normal(m)
                       /\ q = p + Count(Encode(m)) /\ q <= Count(stream)
                       /\ \A j \in 1 .. Count(Encode(m)) : stream[p + j] = Encode(m)[j]

\* It ends at p, or with a garbage frame behind p.
EndsAt(stream, ty, p, bad) ==
    IF bad
      THEN \E g \in Garbage[ty] : /\ Count(stream) = p + Count(g)
                                  /\ \A j \in 1 .. Count(g) : stream[p + j] = g[j]
      ELSE Count(stream) = p

\* The stream is cut into the frames of the messages of s behind the first d
\* of them: frame i is between cut[i - 1] and cut[i].
CutInto(stream, ty, s, d, bad, cut) ==
    /\ cut \in [d .. Total(s) -> Nat] /\ cut[d] = 0
    /\ \A i, j \in d .. Total(s) : i <= j => cut[i] <= cut[j]
    /\ \A i \in d + 1 .. Total(s) : FrameAt(stream, ty, cut[i - 1], cut[i], s[i])
    /\ EndsAt(stream, ty, cut[Total(s)], bad)

Framed(stream, ty, s, d, bad) == d <= Total(s) /\ \E cut : CutInto(stream, ty, s, d, bad, cut)

\* A frame stays where it is when something follows.
LEMMA FrameStays ==
    ASSUME NEW stream \in Units, NEW f \in Units, NEW ty, NEW p \in Nat, NEW q \in Nat, NEW x,
           FrameAt(stream, ty, p, q, x)
    PROVE  FrameAt(Cat(stream, f), ty, p, q, x)
<1>1. PICK m \in Records : /\ m.type = ty /\ Encodable(m) /\ x = Normal(m)
                           /\ q = p + Count(Encode(m)) /\ q <= Count(stream)
                           /\ \A j \in 1 .. Count(Encode(m)) : stream[p + j] = Encode(m)[j]
      BY DEF FrameAt
<1>. DEFINE e == Encode(m)  k == Count(e)  n == Count(stream)
<1>2. e \in Units
      BY FrameUnits
<1>3. k \in Nat /\ n \in Nat /\ Count(f) \in Nat
      BY <1>2, CountNat
<1>4. /\ Count(Cat(stream, f)) = n + Count(f)
      /\ \A i \in 1 .. n : Cat(stream, f)[i] = stream[i]
      BY CatUnits
<1>5. q = p + k /\ q <= n /\ \A j \in 1 .. k : stream[p + j] = e[j]
      BY <1>1
<1>. HIDE DEF e, k, n
<1>6. q <= Count(Cat(stream, f))
      BY <1>3, <1>4, <1>5
<1>7. \A j \in 1 .. k : p + j \in 1 .. n
      BY <1>3, <1>5
<1>8. \A j \in 1 .. k : Cat(stream, f)[p + j] = e[j]
      BY <1>4, <1>5, <1>7
<1>. QED BY <1>1, <1>6, <1>8 DEF FrameAt, e, k

\* A frame moves to the front when what was before it is gone.
LEMMA FrameMoves ==
    ASSUME NEW stream \in Units, NEW later \in Units, NEW ty, NEW c \in Nat,
           NEW p \in Nat, NEW q \in Nat, NEW x, c <= p,
           Count(later) = Count(stream) - c,
           \A i \in 1 .. Count(later) : later[i] = stream[c + i],
           FrameAt(stream, ty, p, q, x)
    PROVE  FrameAt(later, ty, p - c, q - c, x)
<1>1. PICK m \in Records : /\ m.type = ty /\ Encodable(m) /\ x = Normal(m)
                           /\ q = p + Count(Encode(m)) /\ q <= Count(stream)
                           /\ \A j \in 1 .. Count(Encode(m)) : stream[p + j] = Encode(m)[j]
      BY DEF FrameAt
<1>. DEFINE e == Encode(m)  k == Count(e)  n == Count(stream)
<1>2. e \in Units
      BY FrameUnits
<1>3. k \in Nat /\ n \in Nat
      BY <1>2, CountNat
<1>4. /\ q = p + k /\ q <= n /\ \A j \in 1 .. k : stream[p + j] = e[j]
      /\ Count(later) = n - c
      BY <1>1
<1>. HIDE DEF e, k, n
<1>5. q - c = (p - c) + k /\ q - c <= Count(later)
      BY <1>3, <1>4
<1>6. ASSUME NEW j \in 1 .. k
      PROVE  later[(p - c) + j] = e[j]
  <2>1. (p - c) + j \in 1 .. Count(later) /\ c + ((p - c) + j) = p + j
        BY <1>3, <1>4
  <2>. QED BY <1>4, <2>1
<1>. QED BY <1>1, <1>5, <1>6 DEF FrameAt, e, k

\* Nothing was sent yet.
LEMMA FramedAtFirst ==
    ASSUME NEW ty, NEW s, Total(s) = 0
    PROVE  Framed(<< >>, ty, s, 0, FALSE)
<1>. DEFINE cut == [i \in 0 .. 0 |-> 0]
<1>1. cut \in [0 .. Total(s) -> Nat] /\ cut[0] = 0 /\ cut[Total(s)] = 0
      OBVIOUS
<1>2. \A i, j \in 0 .. Total(s) : i <= j => cut[i] <= cut[j]
      OBVIOUS
<1>3. 0 + 1 .. Total(s) = {}
      OBVIOUS
<1>4. EndsAt(<< >>, ty, cut[Total(s)], FALSE)
      BY <1>1, NoUnits DEF EndsAt
<1>. HIDE DEF cut
<1>5. CutInto(<< >>, ty, s, 0, FALSE, cut)
      BY <1>1, <1>2, <1>3, <1>4 DEF CutInto
<1>6. 0 <= Total(s)
      OBVIOUS
<1>. QED BY <1>5, <1>6 DEF Framed

\* One more frame is sent.
LEMMA FramedMore ==
    ASSUME NEW stream \in Units, NEW s \in Lists, NEW d \in Nat, NEW m \in Records,
           Encodable(m), Framed(stream, m.type, s, d, FALSE)
    PROVE  Framed(Cat(stream, Encode(m)), m.type, With(s, Normal(m)), d, FALSE)
<1>. DEFINE f == Encode(m)  n == Total(s)  x == Normal(m)  ty == m.type
            c == Count(stream)  k == Count(f)  new == Cat(stream, f)  t == With(s, x)
<1>1. PICK cut : CutInto(stream, ty, s, d, FALSE, cut)
      BY DEF Framed
<1>2. f \in Units /\ x \in Items
      BY FrameUnits DEF Items
<1>3. /\ Total(t) = n + 1 /\ n \in Nat /\ t[n + 1] = x /\ \A i \in 1 .. n : t[i] = s[i]
      BY <1>2, WithItem
<1>4. /\ d <= n /\ cut \in [d .. n -> Nat] /\ cut[d] = 0
      /\ \A i, j \in d .. n : i <= j => cut[i] <= cut[j]
      /\ \A i \in d + 1 .. n : FrameAt(stream, ty, cut[i - 1], cut[i], s[i])
      /\ c = cut[n]
      BY <1>1 DEF Framed, CutInto, EndsAt
<1>5. c \in Nat /\ k \in Nat
      BY <1>2, CountNat
<1>6. /\ new \in Units /\ Count(new) = c + k
      /\ \A i \in 1 .. c : new[i] = stream[i]
      /\ \A i \in 1 .. k : new[c + i] = f[i]
      BY <1>2, CatUnits
<1>7. \A y : \A p, q \in Nat : FrameAt(stream, ty, p, q, y) => FrameAt(new, ty, p, q, y)
      BY <1>2, FrameStays
<1>8. FrameAt(new, ty, c, c + k, x)
  <2>1. c + k <= Count(new)
        BY <1>5, <1>6
  <2>. QED BY <1>6, <2>1 DEF FrameAt
<1>. HIDE DEF f, x, ty, c, k, new, t, n
<1>. DEFINE more == [i \in d .. n + 1 |-> IF i <= n THEN cut[i] ELSE c + k]
<1>9. d .. n \subseteq d .. n + 1 /\ n + 1 \in d .. n + 1 /\ ~(n + 1 <= n) /\ d \in d .. n
      BY <1>3, <1>4
<1>10. \A i \in d .. n : more[i] = cut[i]
  <2>1. \A i \in d .. n : i <= n
        BY <1>3
  <2>. QED BY <1>9, <2>1
<1>11. more[n + 1] = c + k
       BY <1>9
<1>12. more \in [d .. n + 1 -> Nat]
  <2>1. ASSUME NEW i \in d .. n + 1
        PROVE  (IF i <= n THEN cut[i] ELSE c + k) \in Nat
    <3>1. i <= n => i \in d .. n
          BY <1>3
    <3>. QED BY <1>4, <1>5, <3>1
  <2>. QED BY <2>1
<1>. HIDE DEF more
<1>13. more[d] = 0
       BY <1>4, <1>9, <1>10
<1>14. ASSUME NEW i \in d .. n + 1, NEW j \in d .. n + 1, i <= j
       PROVE  more[i] <= more[j]
  <2>1. CASE j <= n
    <3>1. i \in d .. n /\ j \in d .. n
          BY <1>3, <1>14, <2>1
    <3>. QED BY <1>4, <1>10, <1>14, <3>1
  <2>2. CASE ~(j <= n)
    <3>1. j = n + 1 /\ more[j] = c + k
          BY <1>3, <1>11, <2>2
    <3>2. CASE i <= n
      <4>1. i \in d .. n /\ n \in d .. n /\ more[i] = cut[i]
            BY <1>3, <1>4, <1>10, <3>2
      <4>2. cut[i] <= c /\ cut[i] \in Nat
            BY <1>4, <3>2, <4>1
      <4>. QED BY <1>5, <3>1, <4>1, <4>2
    <3>3. CASE ~(i <= n)
      <4>1. i = n + 1
            BY <1>3, <3>3
      <4>. QED BY <1>5, <1>11, <3>1, <4>1
    <3>. QED BY <3>2, <3>3
  <2>. QED BY <2>1, <2>2
<1>15. ASSUME NEW i \in d + 1 .. n + 1
       PROVE  FrameAt(new, ty, more[i - 1], more[i], t[i])
  <2>1. CASE i <= n
    <3>1. i \in d .. n /\ i - 1 \in d .. n /\ i \in 1 .. n /\ i \in d + 1 .. n
          BY <1>3, <2>1
    <3>2. more[i - 1] = cut[i - 1] /\ more[i] = cut[i] /\ t[i] = s[i]
          BY <1>3, <1>10, <3>1
    <3>3. cut[i - 1] \in Nat /\ cut[i] \in Nat
          BY <1>4, <3>1
    <3>. QED BY <1>4, <1>7, <3>1, <3>2, <3>3
  <2>2. CASE ~(i <= n)
    <3>1. i = n + 1 /\ i - 1 = n /\ n \in d .. n
      <4>1. n \in Nat /\ d <= n
            BY <1>3, <1>4
      <4>2. i \in Int /\ d + 1 <= i /\ i <= n + 1
            BY <4>1
      <4>. QED BY <2>2, <4>1, <4>2
    <3>2. more[i - 1] = c /\ more[i] = c + k /\ t[i] = x
          BY <1>3, <1>4, <1>10, <1>11, <3>1
    <3>. QED BY <1>8, <3>2
  <2>. QED BY <2>1, <2>2
<1>16. EndsAt(new, ty, more[n + 1], FALSE)
       BY <1>6, <1>11 DEF EndsAt
<1>17. CutInto(new, ty, t, d, FALSE, more)
       BY <1>3, <1>12, <1>13, <1>14, <1>15, <1>16 DEF CutInto
<1>18. d <= Total(t)
       BY <1>3, <1>4
<1>19. Framed(new, ty, t, d, FALSE)
       BY <1>17, <1>18 DEF Framed
<1>. QED BY <1>19 DEF new, f, t, x, ty

\* A garbage frame ends the stream.
LEMMA FramedSpoiled ==
    ASSUME NEW stream \in Units, NEW s \in Lists, NEW d \in Nat, NEW ty \in {Request, Response},
           NEW g \in Garbage[ty], Framed(stream, ty, s, d, FALSE)
    PROVE  Framed(Cat(stream, g), ty, s, d, TRUE)
<1>. DEFINE n == Total(s)  c == Count(stream)  new == Cat(stream, g)
<1>1. PICK cut : CutInto(stream, ty, s, d, FALSE, cut)
      BY DEF Framed
<1>2. g \in Units
      BY GarbageAssumption DEF Units
<1>3. /\ d <= n /\ cut \in [d .. n -> Nat] /\ cut[d] = 0
      /\ \A i, j \in d .. n : i <= j => cut[i] <= cut[j]
      /\ \A i \in d + 1 .. n : FrameAt(stream, ty, cut[i - 1], cut[i], s[i])
      /\ c = cut[n]
      BY <1>1 DEF Framed, CutInto, EndsAt
<1>4. /\ new \in Units /\ Count(new) = c + Count(g)
      /\ \A i \in 1 .. Count(g) : new[c + i] = g[i]
      BY <1>2, CatUnits
<1>5. \A y : \A p, q \in Nat : FrameAt(stream, ty, p, q, y) => FrameAt(new, ty, p, q, y)
      BY <1>2, FrameStays
<1>6. n \in Nat
      BY DEF Total, Lists
<1>. HIDE DEF n, c, new
<1>7. ASSUME NEW i \in d + 1 .. n
      PROVE  FrameAt(new, ty, cut[i - 1], cut[i], s[i])
  <2>1. i - 1 \in d .. n /\ i \in d .. n
        BY <1>6
  <2>2. cut[i - 1] \in Nat /\ cut[i] \in Nat
        BY <1>3, <2>1
  <2>. QED BY <1>3, <1>5, <2>2
<1>8. EndsAt(new, ty, cut[n], TRUE)
      BY <1>3, <1>4 DEF EndsAt
<1>9. CutInto(new, ty, s, d, TRUE, cut)
      BY <1>3, <1>7, <1>8 DEF CutInto, n
<1>10. Framed(new, ty, s, d, TRUE)
       BY <1>3, <1>9 DEF Framed, n
<1>. QED BY <1>10 DEF new

\* When the units in front of a stream decode to a message, it is the next
\* one, and the rest of the stream is that of the messages behind it.
LEMMA FramedDecode ==
    ASSUME NEW a \in Units, NEW rest \in Units, NEW s \in Lists, NEW d \in Nat,
           NEW ty \in {Request, Response}, NEW bad \in BOOLEAN,
           Framed(Cat(a, rest), ty, s, d, bad), TryDecode(a, ty).status = "Complete"
    PROVE  /\ d + 1 <= Total(s) /\ TryDecode(a, ty).message = s[d + 1]
           /\ TotalLength(a) \in 0 .. Count(a)
           /\ Framed(Cat(Piece(a, TotalLength(a) + 1, Count(a)), rest), ty, s, d + 1, bad)
<1>. DEFINE stream == Cat(a, rest)  n == Total(s)  ca == Count(a)  cr == Count(rest)
<1>1. PICK cut : CutInto(stream, ty, s, d, bad, cut)
      BY DEF Framed
<1>2. /\ d <= n /\ cut \in [d .. n -> Nat] /\ cut[d] = 0
      /\ \A i, j \in d .. n : i <= j => cut[i] <= cut[j]
      /\ \A i \in d + 1 .. n : FrameAt(stream, ty, cut[i - 1], cut[i], s[i])
      /\ EndsAt(stream, ty, cut[n], bad)
      BY <1>1 DEF Framed, CutInto
<1>3. n \in Nat /\ ca \in Nat /\ cr \in Nat
      BY CountNat DEF Total, Lists
<1>4. /\ stream \in Units /\ Count(stream) = ca + cr
      /\ \A i \in 1 .. ca : stream[i] = a[i]
      /\ \A i \in 1 .. cr : stream[ca + i] = rest[i]
      BY CatUnits
<1>5. NeedMoreData.status # "Complete"
      BY DEF NeedMoreData
<1>. HIDE DEF stream, n, ca, cr
<1>6. d # n
  <2>. SUFFICES ASSUME d = n
                PROVE  FALSE
       OBVIOUS
  <2>1. EndsAt(stream, ty, 0, bad)
        BY <1>2
  <2>2. CASE bad
    <3>1. PICK g \in Garbage[ty] : /\ Count(stream) = 0 + Count(g)
                                   /\ \A j \in 1 .. Count(g) : stream[0 + j] = g[j]
          BY <2>1, <2>2 DEF EndsAt
    <3>2. g \in Units /\ \A k \in 0 .. Count(g) : TryDecode(Piece(g, 1, k), ty).status # "Complete"
          BY GarbageAssumption DEF Units, Count, Piece
    <3>3. Count(g) \in Nat /\ ca \in 0 .. Count(g)
          BY <1>3, <1>4, <3>1, <3>2, CountNat
    <3>4. \A j \in 1 .. ca : 1 + j - 1 = j /\ 0 + j = j /\ j \in 1 .. Count(g)
          BY <1>3, <3>3
    <3>5. \A j \in 1 .. ca : g[1 + j - 1] = a[j]
          BY <1>4, <3>1, <3>4
    <3>6. 1 \in Nat \ {0} /\ ca = 1 + ca - 1 /\ ca <= Count(g)
          BY <1>3, <3>3
    <3>7. Piece(g, 1, ca) = a
          BY <1>3, <3>2, <3>5, <3>6, PieceIs DEF ca
    <3>. QED BY <3>2, <3>3, <3>7
  <2>3. CASE ~bad
    <3>1. ca = 0
          BY <1>3, <1>4, <2>1, <2>3 DEF EndsAt
    <3>2. TryDecode(a, ty) = NeedMoreData
          BY <3>1, TryDecodeIs DEF ca
    <3>. QED BY <1>5, <3>2
  <2>. QED BY <2>2, <2>3
<1>7. d + 1 <= n /\ d + 1 \in d + 1 .. n /\ d + 1 \in d .. n /\ (d + 1) - 1 = d
      BY <1>2, <1>3, <1>6
<1>8. FrameAt(stream, ty, 0, cut[d + 1], s[d + 1])
      BY <1>2, <1>7
<1>9. PICK m \in Records : /\ m.type = ty /\ Encodable(m) /\ s[d + 1] = Normal(m)
                           /\ cut[d + 1] = 0 + Count(Encode(m)) /\ cut[d + 1] <= Count(stream)
                           /\ \A j \in 1 .. Count(Encode(m)) : stream[0 + j] = Encode(m)[j]
      BY <1>8 DEF FrameAt
<1>. DEFINE f == Encode(m)  c == Count(f)
<1>10. f \in Units
       BY FrameUnits
<1>11. c \in Nat /\ cut[d + 1] = c /\ \A j \in 1 .. c : stream[j] = f[j]
  <2>1. Count(f) \in Nat
        BY <1>10, CountNat
  <2>2. \A j \in 1 .. c : 0 + j = j
        BY <2>1
  <2>. QED BY <1>9, <2>1, <2>2
<1>. HIDE DEF f
<1>12. c <= ca
  <2>. SUFFICES ASSUME ca < c
                PROVE  FALSE
       BY <1>3, <1>11
  <2>1. \A j \in 1 .. Count(a) : a[j] = f[j]
        BY <1>3, <1>4, <1>11 DEF ca
  <2>2. Count(a) < Count(f)
        BY DEF ca
  <2>3. TryDecode(a, m.type) = NeedMoreData
        BY <1>9, <2>1, <2>2, DecodeBefore DEF f
  <2>. QED BY <1>5, <1>9, <2>3
<1>13. TryDecode(a, ty) = [status |-> "Complete", message |-> Normal(m)] /\ TotalLength(a) = c
  <2>1. \A j \in 1 .. Count(f) : a[j] = f[j]
        BY <1>3, <1>4, <1>11, <1>12
  <2>2. Count(f) <= Count(a)
        BY <1>12 DEF ca
  <2>. QED BY <1>9, <2>1, <2>2, DecodeBehind DEF f
<1>14. TryDecode(a, ty).message = s[d + 1]
       BY <1>9, <1>13
<1>. HIDE DEF c
<1>. DEFINE b == Piece(a, c + 1, ca)  later == Cat(b, rest)
<1>15. b \in Units /\ Count(b) = ca - c /\ \A i \in 1 .. ca - c : b[i] = a[c + i]
  <2>1. c \in 0 .. Count(a)
        BY <1>11, <1>12 DEF ca
  <2>. QED BY <2>1, CatPieces DEF ca
<1>. HIDE DEF b
<1>16. /\ later \in Units /\ Count(later) = (ca - c) + cr
       /\ \A i \in 1 .. ca - c : later[i] = b[i]
       /\ \A i \in 1 .. cr : later[(ca - c) + i] = rest[i]
       BY <1>15, CatUnits DEF cr
<1>. HIDE DEF later
<1>17. Count(later) = Count(stream) - c
       BY <1>3, <1>4, <1>11, <1>16
<1>18. ASSUME NEW i \in 1 .. Count(later)
       PROVE  later[i] = stream[c + i]
  <2>1. CASE i <= ca - c
    <3>1. i \in 1 .. ca - c /\ c + i \in 1 .. ca
          BY <1>3, <1>11, <1>12, <2>1
    <3>. QED BY <1>4, <1>15, <1>16, <3>1
  <2>2. CASE ~(i <= ca - c)
    <3>. DEFINE j == i - (ca - c)
    <3>1. j \in 1 .. cr /\ i = (ca - c) + j /\ c + i = ca + j
          BY <1>3, <1>11, <1>12, <1>16, <2>2
    <3>. HIDE DEF j
    <3>. QED BY <1>4, <1>16, <3>1
  <2>. QED BY <2>1, <2>2
<1>. DEFINE less == [i \in d + 1 .. n |-> cut[i] - c]
<1>19. \A i \in d + 1 .. n : cut[i] \in Nat /\ c <= cut[i]
       BY <1>2, <1>7, <1>11
<1>20. less \in [d + 1 .. n -> Nat] /\ \A i \in d + 1 .. n : less[i] = cut[i] - c
       BY <1>11, <1>19
<1>. HIDE DEF less
<1>21. less[d + 1] = 0
       BY <1>7, <1>11, <1>20
<1>22. ASSUME NEW i \in d + 1 .. n, NEW j \in d + 1 .. n, i <= j
       PROVE  less[i] <= less[j]
  <2>1. cut[i] <= cut[j]
    <3>1. i \in d .. n /\ j \in d .. n
          OBVIOUS
    <3>. QED BY <1>2, <1>22, <3>1
  <2>2. less[i] = cut[i] - c /\ less[j] = cut[j] - c
        BY <1>20
  <2>. QED BY <1>11, <1>19, <2>1, <2>2
<1>23. ASSUME NEW i \in (d + 1) + 1 .. n
       PROVE  FrameAt(later, ty, less[i - 1], less[i], s[i])
  <2>1. i \in d + 1 .. n /\ i - 1 \in d + 1 .. n
        BY <1>3
  <2>2. FrameAt(stream, ty, cut[i - 1], cut[i], s[i])
        BY <1>2, <2>1
  <2>3. FrameAt(later, ty, cut[i - 1] - c, cut[i] - c, s[i])
        BY <1>4, <1>11, <1>16, <1>17, <1>18, <1>19, <2>1, <2>2, FrameMoves
  <2>. QED BY <1>20, <2>1, <2>3
<1>24. EndsAt(later, ty, less[n], bad)
  <2>1. n \in d + 1 .. n /\ less[n] = cut[n] - c /\ cut[n] \in Nat /\ c <= cut[n]
        BY <1>3, <1>7, <1>19, <1>20
  <2>2. CASE ~bad
        BY <1>2, <1>17, <2>1, <2>2 DEF EndsAt
  <2>3. CASE bad
    <3>1. PICK g \in Garbage[ty] : /\ Count(stream) = cut[n] + Count(g)
                                   /\ \A j \in 1 .. Count(g) : stream[cut[n] + j] = g[j]
          BY <1>2, <2>3 DEF EndsAt
    <3>2. Count(g) \in Nat
          BY GarbageAssumption, CountNat DEF Units
    <3>3. Count(later) = less[n] + Count(g)
          BY <1>11, <1>17, <2>1, <3>1, <3>2
    <3>4. ASSUME NEW j \in 1 .. Count(g)
          PROVE  later[less[n] + j] = g[j]
      <4>1. less[n] + j \in 1 .. Count(later) /\ c + (less[n] + j) = cut[n] + j
            BY <1>11, <2>1, <3>2, <3>3
      <4>. QED BY <1>18, <3>1, <4>1
    <3>. QED BY <2>3, <3>3, <3>4 DEF EndsAt
  <2>. QED BY <2>2, <2>3
<1>25. CutInto(later, ty, s, d + 1, bad, less)
       BY <1>20, <1>21, <1>22, <1>23, <1>24 DEF CutInto, n
<1>26. Framed(later, ty, s, d + 1, bad)
       BY <1>7, <1>25 DEF Framed, n
<1>27. TotalLength(a) \in 0 .. ca /\ later = Cat(Piece(a, TotalLength(a) + 1, ca), rest)
       BY <1>3, <1>11, <1>12, <1>13 DEF later, b, c
<1>. QED BY <1>7, <1>14, <1>26, <1>27 DEF n, ca

-----------------------------------------------------------------------------
(***************************************************************************)
(* The invariant. While the receiver is connected, what it has not decoded *)
(* and what is still on its way make up the frames of the messages not yet *)
(* delivered, one behind the other, with a garbage frame behind them when  *)
(* one was sent; after a break the end of them is lost.                    *)
(***************************************************************************)

SenderInv ==
    /\ sender \in {"poll", "sending", "draining"}
    /\ senderState \in {"Connected", "Disconnecting", "Disconnected"}
    /\ writing \in BOOLEAN /\ sending \in Units /\ Proper(outBuffer)
    /\ (sender = "sending") <=> (sending # << >>)
    /\ sender = "sending" => ReadableBytes(outBuffer) = 0
    /\ ReadableBytes(outBuffer) > 0 => writing
    /\ writing => ReadableBytes(outBuffer) > 0 \/ sender = "draining"

ReceiverInv ==
    /\ receiver \in {"poll", "reading", "decoding"}
    /\ receiverState \in {"Connected", "Disconnected"}
    /\ received \in BOOLEAN /\ eof \in BOOLEAN /\ Proper(inBuffer)
    /\ receiver # "poll" => receiverState = "Connected"

NetworkInv ==
    /\ pipe \in Units /\ Count(pipe) <= PipeSize
    /\ fin \in BOOLEAN /\ broken \in BOOLEAN /\ readEdge \in BOOLEAN /\ writeEdge \in BOOLEAN
    /\ broken => pipe = << >>

CountInv ==
    /\ type \in {Request, Response} /\ spoiled \in BOOLEAN
    /\ frames \in 0 .. MaxMessages
    /\ sent \in Lists /\ Total(sent) <= frames
    /\ delivered \in Lists /\ Total(delivered) <= Total(sent)

InFlight == Cat(Cat(pipe, sending), Readable(outBuffer))

StreamInv == receiverState = "Connected" =>
    \E rest \in Units :
        /\ ~broken => rest = InFlight
        /\ Framed(Cat(Readable(inBuffer), rest), type, sent, Total(delivered), spoiled)

Inv == SenderInv /\ ReceiverInv /\ NetworkInv /\ CountInv /\ StreamInv

\* It holds at first.
LEMMA InvInit == Init => Inv
<1>. SUFFICES ASSUME Init
              PROVE  Inv
     OBVIOUS
<1>1. Proper(EmptyBuffer) /\ Readable(EmptyBuffer) = << >> /\ ReadableBytes(EmptyBuffer) = 0
      BY EmptyHolds
<1>. HIDE DEF EmptyBuffer
<1>2. << >> \in Units /\ Count(<< >>) = 0 /\ << >> \in Lists /\ Total(<< >>) = 0
      BY NoUnits DEF Lists, Total
<1>3. PipeSize \in Nat /\ MaxMessages \in Nat
      BY PipeAssumption, MessagesAssumption
<1>4. SenderInv
  <2>1. sender = "poll" /\ senderState = "Connected" /\ outBuffer = EmptyBuffer
        BY DEF Init
  <2>2. sending \in Units /\ sending = << >>
        BY <1>2, Zenon DEF Init
  <2>3. writing \in BOOLEAN /\ ~writing
        BY DEF Init
  <2>4. Proper(outBuffer) /\ ~(ReadableBytes(outBuffer) > 0)
    <3>1. ReadableBytes(outBuffer) = 0
          BY <1>1, <2>1
    <3>. QED BY <1>1, <2>1, <3>1
  <2>5. /\ sender \in {"poll", "sending", "draining"} /\ sender # "sending"
        /\ senderState \in {"Connected", "Disconnecting", "Disconnected"}
        BY <2>1
  <2>. QED BY <2>2, <2>3, <2>4, <2>5, Zenon DEF SenderInv
<1>5. ReceiverInv
      BY <1>1 DEF Init, ReceiverInv
<1>6. NetworkInv
  <2>1. fin \in BOOLEAN /\ broken \in BOOLEAN /\ readEdge \in BOOLEAN /\ writeEdge \in BOOLEAN
        BY DEF Init
  <2>2. pipe \in Units /\ pipe = << >> /\ Count(pipe) = 0
        BY <1>2, Zenon DEF Init
  <2>3. Count(pipe) <= PipeSize
        BY <1>3, <2>2
  <2>. QED BY <2>1, <2>2, <2>3, Zenon DEF NetworkInv
<1>7. CountInv
  <2>1. type \in {Request, Response} /\ spoiled \in BOOLEAN /\ frames = 0
        BY DEF Init
  <2>2. /\ sent \in Lists /\ Total(sent) = 0
        /\ delivered \in Lists /\ Total(delivered) = 0
        BY <1>2, Zenon DEF Init
  <2>3. frames \in 0 .. MaxMessages
        BY <1>3, <2>1
  <2>4. Total(sent) <= frames /\ Total(delivered) <= Total(sent)
        BY <2>1, <2>2
  <2>. QED BY <2>1, <2>2, <2>3, <2>4, Zenon DEF CountInv
<1>8. StreamInv
  <2>1. /\ pipe = << >> /\ sending = << >> /\ Readable(outBuffer) = << >>
        /\ Readable(inBuffer) = << >> /\ sent = << >> /\ delivered = << >> /\ spoiled = FALSE
        BY <1>1 DEF Init
  <2>2. Cat(<< >>, << >>) = << >>
        BY NoUnits, CatNothing
  <2>3. InFlight = << >>
        BY <2>1, <2>2 DEF InFlight
  <2>4. Framed(<< >>, type, << >>, 0, FALSE)
        BY <1>2, FramedAtFirst
  <2>. QED BY <1>2, <2>1, <2>2, <2>3, <2>4 DEF StreamInv
<1>. QED BY <1>4, <1>5, <1>6, <1>7, <1>8 DEF Inv

\* The stream stays when nothing is added to what is on its way or taken of
\* what was read.
LEMMA StreamStays ==
    ASSUME StreamInv, receiverState' = "Connected" => receiverState = "Connected",
           UNCHANGED <<type, inBuffer, sent, delivered, spoiled>>,
           ~broken' => ~broken /\ (receiverState = "Connected" => InFlight' = InFlight)
    PROVE  StreamInv'
<1>. SUFFICES ASSUME receiverState' = "Connected"
              PROVE  \E rest \in Units :
                        /\ ~broken' => rest = InFlight'
                        /\ Framed(Cat(Readable(inBuffer'), rest), type', sent', Total(delivered'), spoiled')
     BY DEF StreamInv
<1>1. PICK rest \in Units :
         /\ ~broken => rest = InFlight
         /\ Framed(Cat(Readable(inBuffer), rest), type, sent, Total(delivered), spoiled)
      BY DEF StreamInv
<1>2. ~broken' => rest = InFlight'
      BY <1>1
<1>3. Framed(Cat(Readable(inBuffer'), rest), type', sent', Total(delivered'), spoiled')
      BY <1>1
<1>. QED BY <1>2, <1>3

\* sendInLoop: the frame is behind all that waits to be written.
LEMMA SendInLoopKeeps ==
    ASSUME SenderInv, NEW f \in Units, f # << >>, sender = "poll", SendInLoop(f),
           UNCHANGED <<writing, senderState>>
    PROVE  /\ SenderInv'
           /\ \A p \in Units : Cat(Cat(p, sending'), Readable(outBuffer')) =
                                 Cat(Cat(Cat(p, sending), Readable(outBuffer)), f)
<1>1. /\ Proper(outBuffer) /\ sending = << >> /\ << >> \in Units
      /\ ReadableBytes(outBuffer) \in Nat /\ Readable(outBuffer) \in Units
      /\ Count(Readable(outBuffer)) = ReadableBytes(outBuffer) /\ Count(f) > 0 /\ Count(f) \in Nat
  <2>1. Proper(outBuffer) /\ sending = << >> /\ << >> \in Units
        BY NoUnits DEF SenderInv
  <2>2. Count(f) > 0 /\ Count(f) \in Nat
        BY SomeUnits, CountNat
  <2>3. /\ ReadableBytes(outBuffer) \in Nat /\ Readable(outBuffer) \in Units
        /\ Count(Readable(outBuffer)) = ReadableBytes(outBuffer)
        BY <2>1, ReadableIs
  <2>. QED BY <2>1, <2>2, <2>3
<1>2. CASE writing \/ ReadableBytes(outBuffer) > 0
  <2>1. outBuffer' = AppendUnits(outBuffer, f) /\ sender' = "poll" /\ sending' = << >>
        BY <1>1, <1>2 DEF SendInLoop
  <2>2. /\ Proper(outBuffer') /\ Readable(outBuffer') = Cat(Readable(outBuffer), f)
        /\ ReadableBytes(outBuffer') = ReadableBytes(outBuffer) + Count(f)
        BY <1>1, <2>1, AppendHolds
  <2>3. writing /\ ReadableBytes(outBuffer') > 0
        BY <1>1, <1>2, <2>2 DEF SenderInv
  <2>4. SenderInv'
        BY <1>1, <2>1, <2>2, <2>3 DEF SenderInv
  <2>5. ASSUME NEW p \in Units
        PROVE  Cat(Cat(p, sending'), Readable(outBuffer')) =
                 Cat(Cat(Cat(p, sending), Readable(outBuffer)), f)
    <3>1. Cat(p, << >>) \in Units
          BY <1>1, CatUnits
    <3>. QED BY <1>1, <2>1, <2>2, <3>1, CatAssociative
  <2>. QED BY <2>4, <2>5
<1>3. CASE ~(writing \/ ReadableBytes(outBuffer) > 0)
  <2>1. sender' = "sending" /\ sending' = f /\ outBuffer' = outBuffer
        BY <1>3 DEF SendInLoop, SendAtOnce
  <2>2. ReadableBytes(outBuffer) = 0 /\ Readable(outBuffer) = << >>
    <3>1. ReadableBytes(outBuffer) = 0
          BY <1>1, <1>3
    <3>. QED BY <1>1, <3>1, SomeUnits
  <2>3. SenderInv'
        BY <1>3, <2>1, <2>2 DEF SenderInv
  <2>4. ASSUME NEW p \in Units
        PROVE  Cat(Cat(p, sending'), Readable(outBuffer')) =
                 Cat(Cat(Cat(p, sending), Readable(outBuffer)), f)
    <3>1. Cat(p, f) \in Units
          BY CatUnits
    <3>. QED BY <1>1, <2>1, <2>2, <3>1, CatNothing
  <2>. QED BY <2>3, <2>4
<1>. QED BY <1>2, <1>3

\* send(2): what it takes goes from the front of s into the pipe.
LEMMA TakeKeeps ==
    ASSUME NetworkInv, NEW s \in Units, NEW n \in Nat, Take(s, n)
    PROVE  /\ n \in 1 .. Count(s) /\ ~Unwritable
           /\ pipe' = Cat(pipe, Piece(s, 1, n)) /\ pipe' \in Units /\ Count(pipe') <= PipeSize
           /\ readEdge' = TRUE /\ UNCHANGED <<fin, broken>>
<1>1. /\ ~Unwritable /\ n > 0 /\ n = Smaller(PipeSize - Count(pipe), Count(s))
      /\ pipe' = Cat(pipe, Piece(s, 1, n)) /\ readEdge' = TRUE /\ UNCHANGED <<fin, broken>>
      BY DEF Take, Space, Count, Cat, Piece
<1>2. pipe \in Units /\ Count(pipe) \in Nat /\ Count(s) \in Nat /\ PipeSize \in Nat
      BY CountNat, PipeAssumption DEF NetworkInv
<1>3. n \in 0 .. Count(s) /\ n \in 1 .. Count(s) /\ Count(pipe) + n <= PipeSize
      BY <1>1, <1>2 DEF Smaller
<1>4. Piece(s, 1, n) \in Units /\ Count(Piece(s, 1, n)) = n
      BY <1>3, CatPieces
<1>5. Cat(pipe, Piece(s, 1, n)) \in Units /\ Count(Cat(pipe, Piece(s, 1, n))) = Count(pipe) + n
      BY <1>2, <1>4, CatUnits
<1>. QED BY <1>1, <1>3, <1>5

\* A message is sent.
LEMMA SendKeeps ==
    ASSUME Inv, NEW m \in Messages, Send(m)
    PROVE  Inv'
<1>. DEFINE f == Encode(m)
<1>1. /\ MaySend /\ m.type = type /\ Encodable(m) /\ SendInLoop(f)
      /\ sent' = With(sent, Normal(m)) /\ frames' = frames + 1
      /\ UNCHANGED <<type, writing, senderState, spoiled, receiverVars, networkVars, readEdge, writeEdge>>
      BY DEF Send, With
<1>2. SenderInv /\ ReceiverInv /\ NetworkInv /\ CountInv /\ StreamInv
      BY DEF Inv
<1>3. m \in Records /\ Normal(m) \in Items /\ MaxMessages \in Nat
      BY MessagesAssumption DEF Records, Items
<1>4. f \in Units /\ f # << >>
  <2>1. f \in Units /\ f[1] = Magic /\ Count(f) = 5 + Count(Metadata(m)) + Count(m.payload)
        BY <1>3, FrameUnits
  <2>2. Count(Metadata(m)) \in Nat /\ Count(m.payload) \in Nat
        BY <1>3, RecordParts, MetadataIsSeq, CountNat DEF Units
  <2>. HIDE DEF f
  <2>3. Count(f) > 0
        BY <2>1, <2>2
  <2>. QED BY <2>1, <2>3, SomeUnits
<1>. HIDE DEF f
<1>5. sender = "poll" /\ spoiled = FALSE /\ frames < MaxMessages
      BY <1>1, <1>2 DEF MaySend, CountInv
<1>6. /\ SenderInv'
      /\ \A p \in Units : Cat(Cat(p, sending'), Readable(outBuffer')) =
                            Cat(Cat(Cat(p, sending), Readable(outBuffer)), f)
      BY <1>1, <1>2, <1>4, <1>5, SendInLoopKeeps
<1>7. ReceiverInv'
      BY <1>1, <1>2 DEF ReceiverInv, receiverVars
<1>8. NetworkInv'
      BY <1>1, <1>2 DEF NetworkInv, networkVars
<1>9. CountInv'
  <2>1. With(sent, Normal(m)) \in Lists /\ Total(sent) \in Nat /\ Total(With(sent, Normal(m))) = Total(sent) + 1
        BY <1>2, <1>3, WithItem DEF CountInv
  <2>2. delivered' = delivered
        BY <1>1 DEF receiverVars
  <2>3. Total(delivered) \in Nat
        BY <1>2 DEF CountInv, Lists, Total
  <2>4. Total(With(sent, Normal(m))) <= frames + 1 /\ Total(delivered) <= Total(With(sent, Normal(m)))
        BY <1>2, <2>1, <2>3 DEF CountInv
  <2>5. frames + 1 \in 0 .. MaxMessages
        BY <1>2, <1>3, <1>5 DEF CountInv
  <2>. QED BY <1>1, <1>2, <2>1, <2>2, <2>4, <2>5 DEF CountInv
<1>10. StreamInv'
  <2>. SUFFICES ASSUME receiverState = "Connected"
                PROVE  StreamInv'
       BY <1>1 DEF StreamInv, receiverVars
  <2>. DEFINE d == Total(delivered)
  <2>1. PICK rest \in Units :
           /\ ~broken => rest = InFlight
           /\ Framed(Cat(Readable(inBuffer), rest), type, sent, d, spoiled)
        BY <1>2 DEF StreamInv
  <2>. DEFINE stream == Cat(Readable(inBuffer), rest)
  <2>2. Readable(inBuffer) \in Units
        BY <1>2, ReadableIs DEF ReceiverInv
  <2>3. stream \in Units /\ Cat(rest, f) \in Units
        BY <1>4, <2>2, CatUnits
  <2>4. d \in Nat /\ sent \in Lists
        BY <1>2 DEF CountInv, Lists, Total
  <2>5. Framed(Cat(stream, f), type, With(sent, Normal(m)), d, FALSE)
    <3>1. Framed(stream, m.type, sent, d, FALSE)
          BY <1>1, <1>5, <2>1
    <3>. HIDE DEF stream, d
    <3>. QED BY <1>1, <1>3, <2>3, <2>4, <3>1, FramedMore DEF f
  <2>6. Cat(stream, f) = Cat(Readable(inBuffer), Cat(rest, f))
        BY <1>4, <2>2, CatAssociative
  <2>7. ~broken' => Cat(rest, f) = InFlight'
    <3>1. broken' = broken /\ pipe' = pipe /\ pipe \in Units
          BY <1>1, <1>2 DEF networkVars, NetworkInv
    <3>. QED BY <1>6, <2>1, <3>1 DEF InFlight
  <2>8. inBuffer' = inBuffer /\ delivered' = delivered
        BY <1>1 DEF receiverVars
  <2>9. Framed(Cat(Readable(inBuffer'), Cat(rest, f)), type', sent', Total(delivered'), spoiled')
        BY <1>1, <1>5, <2>5, <2>6, <2>8
  <2>. HIDE DEF stream, d
  <2>. QED BY <2>3, <2>7, <2>9 DEF StreamInv
<1>. QED BY <1>6, <1>7, <1>8, <1>9, <1>10 DEF Inv

\* A garbage frame is sent.
LEMMA SendGarbageKeeps ==
    ASSUME Inv, SendGarbage
    PROVE  Inv'
<1>1. PICK f \in Garbage[type] : SendInLoop(f)
      BY DEF SendGarbage
<1>2. /\ MaySend /\ spoiled' = TRUE /\ frames' = frames + 1
      /\ UNCHANGED <<type, writing, senderState, sent, receiverVars, networkVars, readEdge, writeEdge>>
      BY DEF SendGarbage
<1>3. SenderInv /\ ReceiverInv /\ NetworkInv /\ CountInv /\ StreamInv
      BY DEF Inv
<1>4. type \in {Request, Response} /\ MaxMessages \in Nat
      BY <1>3, MessagesAssumption DEF CountInv
<1>5. f \in Units /\ f # << >>
      BY <1>4, GarbageAssumption DEF Units
<1>6. sender = "poll" /\ spoiled = FALSE /\ frames < MaxMessages
      BY <1>2, <1>3 DEF MaySend, CountInv
<1>7. /\ SenderInv'
      /\ \A p \in Units : Cat(Cat(p, sending'), Readable(outBuffer')) =
                            Cat(Cat(Cat(p, sending), Readable(outBuffer)), f)
      BY <1>1, <1>2, <1>3, <1>5, <1>6, SendInLoopKeeps
<1>8. ReceiverInv'
      BY <1>2, <1>3 DEF ReceiverInv, receiverVars
<1>9. NetworkInv'
      BY <1>2, <1>3 DEF NetworkInv, networkVars
<1>10. CountInv'
  <2>1. Total(sent) \in Nat /\ delivered' = delivered
        BY <1>2, <1>3 DEF CountInv, Lists, Total, receiverVars
  <2>2. frames + 1 \in 0 .. MaxMessages /\ Total(sent) <= frames + 1
        BY <1>3, <1>4, <1>6, <2>1 DEF CountInv
  <2>. QED BY <1>2, <1>3, <2>1, <2>2 DEF CountInv
<1>11. StreamInv'
  <2>. SUFFICES ASSUME receiverState = "Connected"
                PROVE  StreamInv'
       BY <1>2 DEF StreamInv, receiverVars
  <2>. DEFINE d == Total(delivered)
  <2>1. PICK rest \in Units :
           /\ ~broken => rest = InFlight
           /\ Framed(Cat(Readable(inBuffer), rest), type, sent, d, spoiled)
        BY <1>3 DEF StreamInv
  <2>. DEFINE stream == Cat(Readable(inBuffer), rest)
  <2>2. Readable(inBuffer) \in Units
        BY <1>3, ReadableIs DEF ReceiverInv
  <2>3. stream \in Units /\ Cat(rest, f) \in Units
        BY <1>5, <2>2, CatUnits
  <2>4. d \in Nat /\ sent \in Lists
        BY <1>3 DEF CountInv, Lists, Total
  <2>5. Framed(Cat(stream, f), type, sent, d, TRUE)
    <3>1. Framed(stream, type, sent, d, FALSE)
          BY <1>6, <2>1
    <3>. HIDE DEF stream, d
    <3>. QED BY <1>4, <2>3, <2>4, <3>1, FramedSpoiled
  <2>6. Cat(stream, f) = Cat(Readable(inBuffer), Cat(rest, f))
        BY <1>5, <2>2, CatAssociative
  <2>7. ~broken' => Cat(rest, f) = InFlight'
    <3>1. broken' = broken /\ pipe' = pipe /\ pipe \in Units
          BY <1>2, <1>3 DEF networkVars, NetworkInv
    <3>. QED BY <1>7, <2>1, <3>1 DEF InFlight
  <2>8. inBuffer' = inBuffer /\ delivered' = delivered
        BY <1>2 DEF receiverVars
  <2>9. Framed(Cat(Readable(inBuffer'), Cat(rest, f)), type', sent', Total(delivered'), spoiled')
        BY <1>2, <2>5, <2>6, <2>8
  <2>. HIDE DEF stream, d
  <2>. QED BY <2>3, <2>7, <2>9 DEF StreamInv
<1>. QED BY <1>7, <1>8, <1>9, <1>10, <1>11 DEF Inv

\* A write takes the front of the frame that is being sent.
LEMMA WriteSomeKeeps ==
    ASSUME Inv, WriteSome
    PROVE  Inv'
<1>1. PICK n \in 1 .. Len(sending) :
         /\ Take(sending, n)
         /\ sending' = SubSeq(sending, n + 1, Len(sending))
         /\ sender' = IF n = Len(sending) THEN "poll" ELSE "sending"
      BY DEF WriteSome
<1>2. /\ sender = "sending"
      /\ UNCHANGED <<type, outBuffer, writing, senderState, sent, spoiled, frames, receiverVars, writeEdge>>
      BY DEF WriteSome
<1>3. SenderInv /\ ReceiverInv /\ NetworkInv /\ CountInv /\ StreamInv
      BY DEF Inv
<1>. DEFINE k == Count(sending)  a == Piece(sending, 1, n)  b == Piece(sending, n + 1, k)
<1>4. sending \in Units /\ k \in Nat /\ pipe \in Units /\ n \in Nat /\ n \in 1 .. k
      BY <1>1, <1>3, CountNat DEF SenderInv, NetworkInv, Count
<1>5. sending' = b /\ sender' = IF n = k THEN "poll" ELSE "sending"
      BY <1>1 DEF Count, Piece
<1>6. /\ ~Unwritable /\ pipe' = Cat(pipe, a) /\ pipe' \in Units /\ Count(pipe') <= PipeSize
      /\ readEdge' = TRUE /\ UNCHANGED <<fin, broken>>
      BY <1>1, <1>3, <1>4, TakeKeeps
<1>7. a \in Units /\ b \in Units /\ Count(b) = k - n /\ Cat(a, b) = sending
  <2>1. n \in 0 .. Count(sending)
        BY <1>4
  <2>. QED BY <1>4, <2>1, CatPieces
<1>. HIDE DEF a, b, k
<1>8. b # << >> <=> n # k
  <2>1. b # << >> <=> Count(b) > 0
        BY <1>7, SomeUnits
  <2>. QED BY <1>4, <1>7, <2>1
<1>9. SenderInv'
  <2>1. sender' \in {"poll", "sending", "draining"} /\ (sender' = "sending" <=> n # k)
        BY <1>5
  <2>2. ReadableBytes(outBuffer) = 0
        BY <1>2, <1>3 DEF SenderInv
  <2>3. ~writing
        BY <1>2, <1>3, <2>2 DEF SenderInv
  <2>. QED BY <1>2, <1>3, <1>5, <1>7, <1>8, <2>1, <2>2, <2>3 DEF SenderInv
<1>10. ReceiverInv'
       BY <1>2, <1>3 DEF ReceiverInv, receiverVars
<1>11. NetworkInv'
  <2>1. broken' = FALSE
        BY <1>3, <1>6 DEF Unwritable, NetworkInv
  <2>. QED BY <1>2, <1>3, <1>6, <2>1 DEF NetworkInv
<1>12. CountInv'
       BY <1>2, <1>3 DEF CountInv, receiverVars
<1>13. StreamInv'
  <2>1. InFlight' = InFlight
    <3>1. Cat(pipe', sending') = Cat(pipe, sending)
      <4>1. Cat(Cat(pipe, a), b) = Cat(pipe, Cat(a, b))
            BY <1>4, <1>7, CatAssociative
      <4>. QED BY <1>5, <1>6, <1>7, <4>1
    <3>. QED BY <1>2, <3>1 DEF InFlight
  <2>2. broken' = broken /\ receiverState' = receiverState
        BY <1>2, <1>6 DEF receiverVars
  <2>3. UNCHANGED <<type, inBuffer, sent, delivered, spoiled>>
        BY <1>2 DEF receiverVars
  <2>. QED BY <1>3, <2>1, <2>2, <2>3, StreamStays
<1>. QED BY <1>9, <1>10, <1>11, <1>12, <1>13 DEF Inv

\* The rest of a frame is put into outputBuffer_.
LEMMA WriteBlocksKeeps ==
    ASSUME Inv, WriteBlocks
    PROVE  Inv'
<1>1. /\ sender = "sending" /\ outBuffer' = AppendUnits(outBuffer, sending) /\ sending' = << >>
      /\ writing' = TRUE /\ sender' = "poll"
      /\ UNCHANGED <<type, senderState, sent, spoiled, frames, receiverVars, networkVars, readEdge, writeEdge>>
      BY DEF WriteBlocks, WriteBlocksThen
<1>2. SenderInv /\ ReceiverInv /\ NetworkInv /\ CountInv /\ StreamInv
      BY DEF Inv
<1>3. /\ sending \in Units /\ sending # << >> /\ Proper(outBuffer) /\ ReadableBytes(outBuffer) = 0
      /\ pipe \in Units /\ << >> \in Units
      BY <1>1, <1>2, NoUnits DEF SenderInv, NetworkInv
<1>4. Count(sending) > 0 /\ Count(sending) \in Nat
      BY <1>3, SomeUnits, CountNat
<1>5. /\ Proper(outBuffer') /\ Readable(outBuffer') = Cat(Readable(outBuffer), sending)
      /\ ReadableBytes(outBuffer') = ReadableBytes(outBuffer) + Count(sending)
      BY <1>1, <1>3, AppendHolds
<1>6. Readable(outBuffer) = << >>
  <2>1. Readable(outBuffer) \in Units /\ Count(Readable(outBuffer)) = ReadableBytes(outBuffer)
        BY <1>3, ReadableIs
  <2>. QED BY <1>3, <2>1, SomeUnits
<1>7. SenderInv'
  <2>1. ReadableBytes(outBuffer') > 0
        BY <1>3, <1>4, <1>5
  <2>2. sending' \in Units /\ sending' = << >>
        BY <1>1, <1>3, Zenon
  <2>3. writing' \in BOOLEAN /\ writing' /\ sender' = "poll" /\ senderState' = senderState
        BY <1>1
  <2>. QED BY <1>2, <1>5, <2>1, <2>2, <2>3 DEF SenderInv
<1>8. ReceiverInv'
      BY <1>1, <1>2 DEF ReceiverInv, receiverVars
<1>9. NetworkInv'
      BY <1>1, <1>2 DEF NetworkInv, networkVars
<1>10. CountInv'
       BY <1>1, <1>2 DEF CountInv, receiverVars
<1>11. StreamInv'
  <2>1. InFlight' = InFlight
    <3>1. Readable(outBuffer') = sending
          BY <1>3, <1>5, <1>6, CatNothing
    <3>2. Cat(pipe, << >>) = pipe
          BY <1>3, CatNothing
    <3>3. Cat(Cat(pipe, sending), << >>) = Cat(pipe, sending)
      <4>1. Cat(pipe, sending) \in Units
            BY <1>3, CatUnits
      <4>. QED BY <4>1, CatNothing
    <3>4. pipe' = pipe
          BY <1>1 DEF networkVars
    <3>5. InFlight' = Cat(Cat(pipe, << >>), sending)
          BY <1>1, <3>1, <3>4 DEF InFlight
    <3>6. InFlight = Cat(Cat(pipe, sending), << >>)
          BY <1>6 DEF InFlight
    <3>. QED BY <3>2, <3>3, <3>5, <3>6
  <2>2. broken' = broken /\ receiverState' = receiverState
        BY <1>1 DEF receiverVars, networkVars
  <2>3. UNCHANGED <<type, inBuffer, sent, delivered, spoiled>>
        BY <1>1 DEF receiverVars
  <2>. QED BY <1>2, <2>1, <2>2, <2>3, StreamStays
<1>. QED BY <1>7, <1>8, <1>9, <1>10, <1>11 DEF Inv

\* A write takes the front of what waits in outputBuffer_.
LEMMA DrainSomeKeeps ==
    ASSUME Inv, DrainSome
    PROVE  Inv'
<1>1. PICK n \in 1 .. ReadableBytes(outBuffer) :
         Take(Readable(outBuffer), n) /\ outBuffer' = Retrieve(outBuffer, n)
      BY DEF DrainSome
<1>2. /\ sender = "draining"
      /\ UNCHANGED <<type, sender, sending, writing, senderState, sent, spoiled, frames, receiverVars, writeEdge>>
      BY DEF DrainSome
<1>3. SenderInv /\ ReceiverInv /\ NetworkInv /\ CountInv /\ StreamInv
      BY DEF Inv
<1>. DEFINE s == Readable(outBuffer)  k == ReadableBytes(outBuffer)
            a == Piece(s, 1, n)  b == Piece(s, n + 1, k)
<1>4. Proper(outBuffer) /\ sending \in Units /\ pipe \in Units /\ sending = << >> /\ << >> \in Units
      BY <1>2, <1>3, NoUnits DEF SenderInv, NetworkInv
<1>5. s \in Units /\ k \in Nat /\ Count(s) = k
      BY <1>4, ReadableIs
<1>6. n \in Nat /\ n \in 0 .. k /\ n \in 0 .. Count(s) /\ n > 0
      BY <1>1, <1>5
<1>7. /\ ~Unwritable /\ pipe' = Cat(pipe, a) /\ pipe' \in Units /\ Count(pipe') <= PipeSize
      /\ readEdge' = TRUE /\ UNCHANGED <<fin, broken>>
  <2>. HIDE DEF s
  <2>. QED BY <1>1, <1>3, <1>5, <1>6, TakeKeeps DEF s
<1>8. Proper(outBuffer') /\ Readable(outBuffer') = b /\ ReadableBytes(outBuffer') = k - n
      BY <1>1, <1>4, <1>6, RetrieveHolds
<1>9. a \in Units /\ b \in Units /\ Cat(a, b) = s
  <2>. HIDE DEF s, k
  <2>. QED BY <1>5, <1>6, CatPieces
<1>10. SenderInv'
  <2>1. k > 0 /\ writing
        BY <1>3, <1>5, <1>6 DEF SenderInv
  <2>. QED BY <1>2, <1>3, <1>8, <2>1 DEF SenderInv
<1>11. ReceiverInv'
       BY <1>2, <1>3 DEF ReceiverInv, receiverVars
<1>12. NetworkInv'
  <2>1. broken' = FALSE
        BY <1>3, <1>7 DEF Unwritable, NetworkInv
  <2>. QED BY <1>2, <1>3, <1>7, <2>1 DEF NetworkInv
<1>13. CountInv'
       BY <1>2, <1>3 DEF CountInv, receiverVars
<1>14. StreamInv'
  <2>1. InFlight' = InFlight
    <3>. HIDE DEF a, b, s, k
    <3>1. Cat(pipe, << >>) = pipe /\ Cat(pipe', << >>) = pipe'
          BY <1>4, <1>7, CatNothing
    <3>2. Cat(Cat(pipe, a), b) = Cat(pipe, Cat(a, b))
          BY <1>4, <1>9, CatAssociative
    <3>3. InFlight' = Cat(Cat(pipe', << >>), b)
          BY <1>2, <1>4, <1>8 DEF InFlight
    <3>4. InFlight = Cat(Cat(pipe, << >>), s)
          BY <1>4 DEF InFlight, s
    <3>. QED BY <1>7, <1>9, <3>1, <3>2, <3>3, <3>4
  <2>2. broken' = broken /\ receiverState' = receiverState
        BY <1>2, <1>7 DEF receiverVars
  <2>3. UNCHANGED <<type, inBuffer, sent, delivered, spoiled>>
        BY <1>2 DEF receiverVars
  <2>. QED BY <1>3, <2>1, <2>2, <2>3, StreamStays
<1>. QED BY <1>10, <1>11, <1>12, <1>13, <1>14 DEF Inv

\* The loop of the sender turns, the end of the stream is announced, the
\* sender closes or the network breaks: nothing moves.
LEMMA SenderTurnsKeep ==
    ASSUME Inv, OnWritable \/ DrainBlocks \/ DrainEnds \/ Shutdown \/ SenderCloses \/ Break
    PROVE  Inv'
<1>1. SenderInv /\ ReceiverInv /\ NetworkInv /\ CountInv /\ StreamInv
      BY DEF Inv
<1>2. UNCHANGED <<type, sent, spoiled, frames, receiverVars>>
      BY DEF OnWritable, DrainBlocks, DrainEnds, Shutdown, SenderCloses, Break, senderVars
<1>3. ReceiverInv'
      BY <1>1, <1>2 DEF ReceiverInv, receiverVars
<1>4. CountInv'
      BY <1>1, <1>2 DEF CountInv, receiverVars
<1>5. UNCHANGED <<type, inBuffer, sent, delivered, spoiled, receiverState>>
      BY <1>2 DEF receiverVars
<1>6. CASE OnWritable \/ DrainBlocks \/ DrainEnds \/ Shutdown
  <2>1. UNCHANGED <<sending, outBuffer, pipe, broken>>
        BY <1>6 DEF OnWritable, DrainBlocks, DrainEnds, Shutdown, ShutdownWrite, networkVars
  <2>2. InFlight' = InFlight
        BY <2>1 DEF InFlight
  <2>3. StreamInv'
        BY <1>1, <1>5, <2>1, <2>2, StreamStays
  <2>4. NetworkInv'
    <3>1. fin' \in BOOLEAN /\ readEdge' \in BOOLEAN
          BY <1>1, <1>6 DEF OnWritable, DrainBlocks, DrainEnds, Shutdown, ShutdownWrite, networkVars, NetworkInv
    <3>2. writeEdge' \in BOOLEAN
          BY <1>1, <1>6 DEF OnWritable, DrainBlocks, DrainEnds, Shutdown, NetworkInv
    <3>. QED BY <1>1, <2>1, <3>1, <3>2 DEF NetworkInv
  <2>5. SenderInv'
    <3>1. sending' = sending /\ outBuffer' = outBuffer
          BY <2>1
    <3>2. ReadableBytes(outBuffer) \in Nat
          BY <1>1, ReadableIs DEF SenderInv
    <3>3. CASE OnWritable
          BY <1>1, <3>1, <3>3 DEF OnWritable, SenderInv
    <3>4. CASE DrainBlocks
          BY <1>1, <3>1, <3>4 DEF DrainBlocks, SenderInv
    <3>5. CASE DrainEnds
      <4>1. sender' = "poll" /\ senderState' = senderState /\ writing' \in BOOLEAN /\ ~writing'
            BY <3>5, Zenon DEF DrainEnds
      <4>2. sender = "draining" /\ ReadableBytes(outBuffer) = 0
            BY <3>5, Zenon DEF DrainEnds
      <4>3. ~(ReadableBytes(outBuffer') > 0)
            BY <3>1, <4>2
      <4>4. sending' \in Units /\ Proper(outBuffer') /\ sending' = << >>
            /\ senderState' \in {"Connected", "Disconnecting", "Disconnected"}
            BY <1>1, <3>1, <4>1, <4>2 DEF SenderInv
      <4>5. sender' \in {"poll", "sending", "draining"} /\ sender' # "sending"
            BY <4>1
      <4>6. (sender' = "sending") <=> (sending' # << >>)
            BY <4>4, <4>5, Zenon
      <4>7. /\ sender' = "sending" => ReadableBytes(outBuffer') = 0
            /\ ReadableBytes(outBuffer') > 0 => writing'
            /\ writing' => ReadableBytes(outBuffer') > 0 \/ sender' = "draining"
            BY <4>1, <4>3, <4>5, Zenon
      <4>. QED BY <4>1, <4>4, <4>5, <4>6, <4>7, Zenon DEF SenderInv
    <3>6. CASE Shutdown
          BY <1>1, <3>1, <3>6 DEF Shutdown, SenderInv
    <3>. QED BY <1>6, <3>3, <3>4, <3>5, <3>6
  <2>. QED BY <1>3, <1>4, <2>3, <2>4, <2>5 DEF Inv
<1>7. CASE SenderCloses
  <2>1. /\ Unwritable /\ senderState' = "Disconnected" /\ sender' = "poll"
        /\ sending' = << >> /\ outBuffer' = EmptyBuffer /\ writing' = FALSE /\ writeEdge' = FALSE
        /\ UNCHANGED networkVars /\ readEdge' = readEdge
        BY <1>7 DEF SenderCloses
  <2>2. SenderInv'
    <3>1. sending' \in Units /\ sending' = << >>
          BY <2>1, NoUnits, Zenon
    <3>2. Proper(outBuffer') /\ ReadableBytes(outBuffer') = 0
          BY <2>1, EmptyHolds
    <3>3. writing' \in BOOLEAN /\ ~writing'
          BY <2>1, Zenon
    <3>4. ~(ReadableBytes(outBuffer') > 0)
          BY <3>2
    <3>5. sender' = "poll" /\ senderState' = "Disconnected"
          BY <2>1, Zenon
    <3>6. /\ sender' \in {"poll", "sending", "draining"} /\ sender' # "sending"
          /\ senderState' \in {"Connected", "Disconnecting", "Disconnected"}
          BY <3>5
    <3>7. (sender' = "sending") <=> (sending' # << >>)
          BY <3>1, <3>6, Zenon
    <3>8. /\ sender' = "sending" => ReadableBytes(outBuffer') = 0
          /\ ReadableBytes(outBuffer') > 0 => writing'
          /\ writing' => ReadableBytes(outBuffer') > 0 \/ sender' = "draining"
          BY <3>3, <3>4, <3>6, Zenon
    <3>9. writing' \in BOOLEAN /\ sending' \in Units /\ Proper(outBuffer')
          BY <3>1, <3>2, <3>3, Zenon
    <3>. QED BY <3>6, <3>7, <3>8, <3>9, Zenon DEF SenderInv
  <2>3. NetworkInv'
        BY <1>1, <2>1 DEF NetworkInv, networkVars
  <2>4. StreamInv'
    <3>1. broken' = broken
          BY <2>1 DEF networkVars
    <3>2. broken \/ receiverState # "Connected"
          BY <2>1 DEF Unwritable
    <3>. QED BY <1>1, <1>5, <3>1, <3>2, StreamStays
  <2>. QED BY <1>3, <1>4, <2>2, <2>3, <2>4 DEF Inv
<1>8. CASE Break
  <2>1. broken' = TRUE /\ pipe' = << >> /\ UNCHANGED <<senderVars, fin, readEdge, writeEdge>>
        BY <1>8 DEF Break
  <2>2. SenderInv'
        BY <1>1, <2>1 DEF SenderInv, senderVars
  <2>3. NetworkInv'
    <3>1. pipe' \in Units /\ Count(pipe') = 0 /\ PipeSize \in Nat /\ pipe' = << >>
          BY <2>1, NoUnits, PipeAssumption
    <3>2. broken' \in BOOLEAN /\ Count(pipe') <= PipeSize
          BY <2>1, <3>1
    <3>. QED BY <1>1, <2>1, <3>1, <3>2 DEF NetworkInv
  <2>4. StreamInv'
        BY <1>1, <1>5, <2>1, StreamStays
  <2>. QED BY <1>3, <1>4, <2>2, <2>3, <2>4 DEF Inv
<1>. QED BY <1>6, <1>7, <1>8

\* A read takes the front of what the sockets hold.
LEMMA ReadKeeps ==
    ASSUME Inv, Read
    PROVE  Inv'
<1>. DEFINE k == Count(pipe)  n == Smaller(ReadSize, k)
            a == Piece(pipe, 1, n)  b == Piece(pipe, n + 1, k)
<1>1. /\ receiver = "reading" /\ pipe # << >>
      /\ inBuffer' = AppendUnits(inBuffer, a) /\ pipe' = b
      /\ received' = TRUE /\ writeEdge' = writing
      /\ UNCHANGED <<type, senderVars, receiver, eof, receiverState, delivered, fin, broken, readEdge>>
      BY DEF Read, Count, Piece
<1>2. SenderInv /\ ReceiverInv /\ NetworkInv /\ CountInv /\ StreamInv
      BY DEF Inv
<1>3. pipe \in Units /\ Proper(inBuffer) /\ sending \in Units /\ Proper(outBuffer)
      BY <1>2 DEF NetworkInv, ReceiverInv, SenderInv
<1>4. k \in Nat /\ n \in 0 .. k /\ PipeSize \in Nat
      BY <1>3, CountNat, PipeAssumption DEF Smaller
<1>5. a \in Units /\ b \in Units /\ Count(b) = k - n /\ Cat(a, b) = pipe
      BY <1>3, <1>4, CatPieces
<1>. HIDE DEF a, b, n, k
<1>6. Proper(inBuffer') /\ Readable(inBuffer') = Cat(Readable(inBuffer), a)
      BY <1>1, <1>3, <1>5, AppendHolds
<1>7. SenderInv'
      BY <1>1, <1>2 DEF SenderInv, senderVars
<1>8. ReceiverInv'
      BY <1>1, <1>2, <1>6 DEF ReceiverInv
<1>9. ~broken
      BY <1>1, <1>2 DEF NetworkInv
<1>10. NetworkInv'
  <2>1. Count(pipe') <= PipeSize
    <3>1. k <= PipeSize
          BY <1>2 DEF NetworkInv, k
    <3>. QED BY <1>1, <1>4, <1>5, <3>1
  <2>2. writeEdge' \in BOOLEAN
        BY <1>1, <1>2 DEF SenderInv
  <2>3. ~broken' /\ broken' \in BOOLEAN /\ fin' \in BOOLEAN /\ readEdge' \in BOOLEAN
        BY <1>1, <1>2, <1>9 DEF NetworkInv
  <2>. QED BY <1>1, <1>5, <2>1, <2>2, <2>3 DEF NetworkInv
<1>11. CountInv'
       BY <1>1, <1>2 DEF CountInv, senderVars
<1>12. StreamInv'
  <2>. DEFINE s == Readable(inBuffer)  w == Readable(outBuffer)
  <2>1. s \in Units /\ w \in Units
        BY <1>3, ReadableIs
  <2>2. receiverState = "Connected"
        BY <1>1, <1>2 DEF ReceiverInv
  <2>3. Framed(Cat(s, InFlight), type, sent, Total(delivered), spoiled)
        BY <1>2, <1>9, <2>2 DEF StreamInv
  <2>. HIDE DEF s, w
  <2>. DEFINE behind == Cat(sending, w)
  <2>4. behind \in Units
        BY <1>3, <2>1, CatUnits
  <2>5. InFlight = Cat(pipe, behind)
        BY <1>3, <2>1, CatAssociative DEF InFlight, w
  <2>6. InFlight' = Cat(b, behind)
    <3>1. Cat(Cat(b, sending), w) = Cat(b, Cat(sending, w))
          BY <1>3, <1>5, <2>1, CatAssociative
    <3>2. sending' = sending /\ outBuffer' = outBuffer
          BY <1>1 DEF senderVars
    <3>. QED BY <1>1, <3>1, <3>2 DEF InFlight, w
  <2>. HIDE DEF behind
  <2>7. Cat(s, Cat(pipe, behind)) = Cat(Cat(s, a), Cat(b, behind))
    <3>1. Cat(pipe, behind) = Cat(a, Cat(b, behind))
          BY <1>5, <2>4, CatAssociative
    <3>2. Cat(b, behind) \in Units
          BY <1>5, <2>4, CatUnits
    <3>3. Cat(Cat(s, a), Cat(b, behind)) = Cat(s, Cat(a, Cat(b, behind)))
          BY <1>5, <2>1, <3>2, CatAssociative
    <3>. QED BY <3>1, <3>3
  <2>8. Framed(Cat(Readable(inBuffer'), InFlight'), type', sent', Total(delivered'), spoiled')
    <3>1. UNCHANGED <<type, sent, spoiled, delivered>>
          BY <1>1 DEF senderVars
    <3>2. Readable(inBuffer') = Cat(s, a)
          BY <1>6 DEF s
    <3>. QED BY <2>3, <2>5, <2>6, <2>7, <3>1, <3>2
  <2>9. InFlight' \in Units
        BY <1>5, <2>4, <2>6, CatUnits
  <2>. QED BY <2>8, <2>9 DEF StreamInv
<1>. QED BY <1>7, <1>8, <1>10, <1>11, <1>12 DEF Inv

\* A frame is decoded: the message is the next one.
LEMMA DecodeCompleteKeeps ==
    ASSUME Inv, DecodeComplete
    PROVE  /\ Inv' /\ sent' = sent
           /\ Len(delivered) < Len(sent)
           /\ delivered' = Append(delivered, sent[Len(delivered) + 1])
<1>. DEFINE a == Readable(inBuffer)  d == Total(delivered)  n == TotalLength(a)
<1>1. /\ receiver = "decoding" /\ TryDecode(a, type).status = "Complete"
      /\ delivered' = With(delivered, TryDecode(a, type).message)
      /\ inBuffer' = Retrieve(inBuffer, n)
      /\ UNCHANGED <<type, senderVars, receiver, received, eof, receiverState, networkVars, readEdge, writeEdge>>
      BY DEF DecodeComplete, Decoded, With
<1>2. SenderInv /\ ReceiverInv /\ NetworkInv /\ CountInv /\ StreamInv
      BY DEF Inv
<1>3. receiverState = "Connected" /\ Proper(inBuffer)
      BY <1>1, <1>2 DEF ReceiverInv
<1>4. PICK rest \in Units :
         /\ ~broken => rest = InFlight
         /\ Framed(Cat(a, rest), type, sent, d, spoiled)
      BY <1>2, <1>3 DEF StreamInv
<1>5. a \in Units /\ Count(a) = ReadableBytes(inBuffer)
      BY <1>3, ReadableIs
<1>6. d \in Nat /\ sent \in Lists /\ delivered \in Lists /\ type \in {Request, Response} /\ spoiled \in BOOLEAN
      BY <1>2 DEF CountInv, Lists, Total
<1>. DEFINE x == TryDecode(a, type).message
<1>7. /\ d + 1 <= Total(sent) /\ x = sent[d + 1] /\ n \in 0 .. Count(a)
      /\ Framed(Cat(Piece(a, n + 1, Count(a)), rest), type, sent, d + 1, spoiled)
  <2>. HIDE DEF a, d
  <2>. QED BY <1>1, <1>4, <1>5, <1>6, FramedDecode
<1>8. Total(sent) \in Nat /\ x \in Items
  <2>. HIDE DEF d, a, x, n
  <2>1. Total(sent) \in Nat /\ \A i \in 1 .. Total(sent) : sent[i] \in Items
        BY <1>6 DEF Lists, Total
  <2>2. d + 1 \in 1 .. Total(sent)
        BY <1>6, <1>7, <2>1
  <2>. QED BY <1>7, <2>1, <2>2
<1>. HIDE DEF x, n, a
<1>9. Proper(inBuffer') /\ Readable(inBuffer') = Piece(a, n + 1, Count(a))
  <2>1. n \in 0 .. ReadableBytes(inBuffer)
        BY <1>5, <1>7
  <2>. QED BY <1>1, <1>3, <1>5, <2>1, RetrieveHolds DEF a
<1>10. delivered' \in Lists /\ Total(delivered') = d + 1
       BY <1>1, <1>6, <1>8, WithItem DEF x
<1>11. SenderInv'
       BY <1>1, <1>2 DEF SenderInv, senderVars
<1>12. ReceiverInv'
       BY <1>1, <1>2, <1>9 DEF ReceiverInv
<1>13. NetworkInv'
       BY <1>1, <1>2 DEF NetworkInv, networkVars
<1>14. CountInv'
       BY <1>1, <1>2, <1>7, <1>10 DEF CountInv, senderVars
<1>15. StreamInv'
  <2>1. UNCHANGED <<type, sent, spoiled, broken>>
        BY <1>1 DEF senderVars, networkVars
  <2>2. InFlight' = InFlight
        BY <1>1 DEF InFlight, senderVars, networkVars
  <2>3. ~broken' => rest = InFlight'
        BY <1>4, <2>1, <2>2
  <2>4. Framed(Cat(Readable(inBuffer'), rest), type', sent', Total(delivered'), spoiled')
        BY <1>7, <1>9, <1>10, <2>1
  <2>. QED BY <2>3, <2>4 DEF StreamInv
<1>16. Inv'
       BY <1>11, <1>12, <1>13, <1>14, <1>15 DEF Inv
<1>17. sent' = sent /\ delivered' = Append(delivered, sent[Len(delivered) + 1])
       BY <1>1, <1>7 DEF senderVars, With, Total, x
<1>18. Len(delivered) < Len(sent)
  <2>1. d < Total(sent)
        BY <1>6, <1>7, <1>8
  <2>. QED BY <2>1 DEF Total
<1>. QED BY <1>16, <1>17, <1>18

\* The loop of the receiver turns, or the connection is closed: nothing is
\* decoded.
LEMMA ReceiverTurnsKeep ==
    ASSUME Inv, OnReadable \/ ReadEof \/ ReadBlocks \/ ReadFails \/ DecodeNeedsMore \/ DecodeFails
    PROVE  Inv' /\ UNCHANGED <<sent, delivered>>
<1>1. SenderInv /\ ReceiverInv /\ NetworkInv /\ CountInv /\ StreamInv
      BY DEF Inv
<1>2. UNCHANGED <<type, senderVars, delivered, networkVars, writeEdge>>
      BY DEF OnReadable, ReadEof, ReadBlocks, ReadFails, DecodeNeedsMore, DecodeFails, Close
<1>3. SenderInv'
      BY <1>1, <1>2 DEF SenderInv, senderVars
<1>4. CountInv'
      BY <1>1, <1>2 DEF CountInv, senderVars
<1>5. NetworkInv'
  <2>1. readEdge' \in BOOLEAN
        BY <1>1 DEF OnReadable, ReadEof, ReadBlocks, ReadFails, DecodeNeedsMore, DecodeFails, Close,
                    NetworkInv
  <2>. QED BY <1>1, <1>2, <2>1 DEF NetworkInv, networkVars
<1>6. UNCHANGED <<sent, delivered, spoiled, type, broken>> /\ InFlight' = InFlight
      BY <1>2 DEF senderVars, networkVars, InFlight
<1>7. CASE Close
  <2>1. /\ receiverState' = "Disconnected" /\ receiver' = "poll" /\ eof' = FALSE
        /\ inBuffer' = EmptyBuffer /\ received' = received
        BY <1>7 DEF Close
  <2>2. Proper(inBuffer')
        BY <2>1, EmptyHolds
  <2>3. eof' \in BOOLEAN /\ received' \in BOOLEAN
        BY <1>1, <2>1 DEF ReceiverInv
  <2>4. ReceiverInv'
        BY <2>1, <2>2, <2>3 DEF ReceiverInv
  <2>5. StreamInv'
        BY <2>1 DEF StreamInv
  <2>. QED BY <1>3, <1>4, <1>5, <1>6, <2>4, <2>5 DEF Inv
<1>8. CASE /\ UNCHANGED <<inBuffer, receiverState>>
           /\ receiver' \in {"poll", "reading", "decoding"}
           /\ receiverState = "Connected" \/ receiver' = "poll"
           /\ received' \in BOOLEAN /\ eof' \in BOOLEAN
  <2>1. ReceiverInv'
        BY <1>1, <1>8 DEF ReceiverInv
  <2>2. StreamInv'
        BY <1>1, <1>6, <1>8, StreamStays
  <2>. QED BY <1>3, <1>4, <1>5, <1>6, <2>1, <2>2 DEF Inv
<1>9. \/ Close
      \/ /\ UNCHANGED <<inBuffer, receiverState>>
         /\ receiver' \in {"poll", "reading", "decoding"}
         /\ receiverState = "Connected" \/ receiver' = "poll"
         /\ received' \in BOOLEAN /\ eof' \in BOOLEAN
  <2>1. CASE OnReadable
        BY <1>1, <2>1 DEF OnReadable, ReceiverInv
  <2>2. CASE ReadEof
        BY <1>1, <2>2 DEF ReadEof, ReceiverInv
  <2>3. CASE ReadBlocks
        BY <1>1, <2>3 DEF ReadBlocks, ReceiverInv
  <2>4. CASE ReadFails
        BY <2>4 DEF ReadFails
  <2>5. CASE DecodeNeedsMore
        BY <1>1, <2>5 DEF DecodeNeedsMore, ReceiverInv
  <2>6. CASE DecodeFails
        BY <2>6 DEF DecodeFails
  <2>. QED BY <2>1, <2>2, <2>3, <2>4, <2>5, <2>6
<1>. QED BY <1>7, <1>8, <1>9

\* Every step keeps it, and what it does to the messages sent and delivered
\* is a step of the channel or none.
LEMMA InvNext ==
    ASSUME Inv, [Next]_vars
    PROVE  Inv' /\ [Channel!ChannelNext]_<<sent, delivered>>
<1>1. ASSUME NEW m \in Messages, Send(m)
      PROVE  Inv' /\ Channel!ChannelNext
  <2>1. Inv'
        BY <1>1, SendKeeps
  <2>2. Channel!Put(Normal(m))
        BY <1>1 DEF Send, receiverVars, Channel!Put
  <2>. QED BY <2>1, <2>2 DEF Channel!ChannelNext
<1>2. CASE SendGarbage
  <2>1. UNCHANGED <<sent, delivered>>
        BY <1>2 DEF SendGarbage, receiverVars
  <2>. QED BY <1>2, <2>1, SendGarbageKeeps
<1>3. CASE WriteSome
  <2>1. UNCHANGED <<sent, delivered>>
        BY <1>3 DEF WriteSome, receiverVars
  <2>. QED BY <1>3, <2>1, WriteSomeKeeps
<1>4. CASE WriteBlocks
  <2>1. UNCHANGED <<sent, delivered>>
        BY <1>4 DEF WriteBlocks, WriteBlocksThen, receiverVars
  <2>. QED BY <1>4, <2>1, WriteBlocksKeeps
<1>5. CASE DrainSome
  <2>1. UNCHANGED <<sent, delivered>>
        BY <1>5 DEF DrainSome, receiverVars
  <2>. QED BY <1>5, <2>1, DrainSomeKeeps
<1>6. CASE OnWritable \/ DrainBlocks \/ DrainEnds \/ Shutdown \/ SenderCloses \/ Break
  <2>1. UNCHANGED <<sent, delivered>>
        BY <1>6 DEF OnWritable, DrainBlocks, DrainEnds, Shutdown, SenderCloses, Break,
                    senderVars, receiverVars
  <2>. QED BY <1>6, <2>1, SenderTurnsKeep
<1>7. CASE Read
  <2>1. UNCHANGED <<sent, delivered>>
        BY <1>7 DEF Read, senderVars
  <2>. QED BY <1>7, <2>1, ReadKeeps
<1>8. CASE DecodeComplete
  <2>1. Channel!Deliver
        BY <1>8, DecodeCompleteKeeps DEF Channel!Deliver
  <2>2. Inv'
        BY <1>8, DecodeCompleteKeeps
  <2>. QED BY <2>1, <2>2 DEF Channel!ChannelNext
<1>9. CASE OnReadable \/ ReadEof \/ ReadBlocks \/ ReadFails \/ DecodeNeedsMore \/ DecodeFails
      BY <1>9, ReceiverTurnsKeep
<1>10. CASE UNCHANGED vars
  <2>1. UNCHANGED <<type, senderVars, receiverVars, networkVars, readEdge, writeEdge>>
        BY <1>10 DEF vars
  <2>2. UNCHANGED <<sent, delivered>>
        BY <2>1 DEF senderVars, receiverVars
  <2>3. SenderInv' <=> SenderInv
        BY <2>1 DEF SenderInv, senderVars
  <2>4. ReceiverInv' <=> ReceiverInv
        BY <2>1 DEF ReceiverInv, receiverVars
  <2>5. NetworkInv' <=> NetworkInv
        BY <2>1 DEF NetworkInv, networkVars
  <2>6. CountInv' <=> CountInv
        BY <2>1 DEF CountInv, senderVars, receiverVars
  <2>7. StreamInv'
    <3>1. InFlight' = InFlight
          BY <2>1 DEF InFlight, senderVars, networkVars
    <3>2. UNCHANGED <<type, inBuffer, sent, delivered, spoiled, broken, receiverState>>
          BY <2>1 DEF senderVars, receiverVars, networkVars
    <3>. QED BY <3>1, <3>2, StreamStays DEF Inv
  <2>. QED BY <2>2, <2>3, <2>4, <2>5, <2>6, <2>7 DEF Inv
<1>11. [Channel!ChannelNext]_<<sent, delivered>> <=> (Channel!ChannelNext \/ UNCHANGED <<sent, delivered>>)
       OBVIOUS
<1>. QED BY <1>1, <1>2, <1>3, <1>4, <1>5, <1>6, <1>7, <1>8, <1>9, <1>10 DEF Next, SenderStep, ReceiverStep

\* The invariant is one of the specification.
THEOREM StreamInvariant == Spec => []Inv
<1>1. Inv /\ [Next]_vars => Inv'
      BY InvNext
<1>. QED BY <1>1, InvInit, PTL DEF Spec

\* Frames that wait are waited for, indices of buffers stay in their arrays,
\* and nothing is delivered that was not sent (sendInLoop, handleWrite,
\* handleRead and onMessage).
THEOREM NothingIsLeftBehind == Spec => []NothingLeftBehind
<1>1. Inv => NothingLeftBehind
  <2>. SUFFICES ASSUME Inv
                PROVE  NothingLeftBehind
       OBVIOUS
  <2>1. SenderInv /\ ReceiverInv /\ NetworkInv /\ CountInv
        BY DEF Inv
  <2>2. IsBuffer(outBuffer) /\ IsBuffer(inBuffer)
        BY <2>1, ReadableIs DEF SenderInv, ReceiverInv
  <2>3. /\ type \in {Request, Response}
        /\ sender \in {"poll", "sending", "draining"}
        /\ receiver \in {"poll", "reading", "decoding"}
        BY <2>1 DEF SenderInv, ReceiverInv, CountInv
  <2>4. {senderState, receiverState} \subseteq {"Connected", "Disconnecting", "Disconnected"}
        BY <2>1 DEF SenderInv, ReceiverInv
  <2>5. {writing, received, eof, fin, broken, readEdge, writeEdge, spoiled} \subseteq BOOLEAN
        BY <2>1 DEF SenderInv, ReceiverInv, NetworkInv, CountInv
  <2>6. sending \in Seq(Nat) /\ pipe \in Seq(Nat) /\ Len(pipe) <= PipeSize
        BY <2>1 DEF SenderInv, NetworkInv, Units, Count
  <2>7. frames \in 0 .. MaxMessages /\ Len(sent) <= frames /\ Len(delivered) <= frames
    <3>1. Total(sent) \in Nat /\ Total(delivered) \in Nat /\ MaxMessages \in Nat
          BY <2>1, MessagesAssumption DEF CountInv, Lists, Total
    <3>2. /\ frames \in 0 .. MaxMessages /\ Total(sent) <= frames
          /\ Total(delivered) <= Total(sent)
          BY <2>1 DEF CountInv
    <3>3. Total(delivered) <= frames
          BY <3>1, <3>2
    <3>. QED BY <3>2, <3>3 DEF Total
  <2>8. TypeOK
        BY <2>2, <2>3, <2>4, <2>5, <2>6, <2>7, Zenon DEF TypeOK
  <2>. QED BY <2>1, <2>8, Zenon DEF NothingLeftBehind, SenderInv
<1>. QED BY <1>1, StreamInvariant, PTL

\* The messages handed to the user are those that were sent, in their order:
\* whatever way writes, reads and both buffers cut the stream into pieces.
THEOREM StreamImplementsChannel == Spec => ImplementsChannel
<1>1. Init => Channel!ChannelInit
      BY DEF Init, Channel!ChannelInit
<1>2. Inv /\ [Next]_vars => [Channel!ChannelNext]_<<sent, delivered>>
      BY InvNext
<1>. QED BY <1>1, <1>2, StreamInvariant, PTL DEF Spec, ImplementsChannel, Channel!ChannelSpec
=============================================================================
