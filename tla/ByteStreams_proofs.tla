------------------------- MODULE ByteStreams_proofs -------------------------
(***************************************************************************)
(* What a writer frames, a reader finds: for every size that fits the four *)
(* bytes, at every position of a stream and whatever follows.              *)
(***************************************************************************)
EXTENDS ByteStreams, TLAPS

\* A reader of `written` and of the bytes `rest` behind it, which has read
\* what was in the stream when `written` began.
At(before, written, rest) ==
    [bytes |-> written \o rest, location |-> Len(before)]

\* The writers only append.
LEMMA WriterTypes ==
    ASSUME NEW out \in Seq(Byte), NEW b \in Byte, NEW bytes \in Seq(Byte)
    PROVE  /\ WriteByte(out, b) \in Seq(Byte)
           /\ Len(WriteByte(out, b)) = Len(out) + 1
           /\ WriteBytes(out, bytes) \in Seq(Byte)
           /\ Len(WriteBytes(out, bytes)) = Len(out) + Len(bytes)
  BY DEF WriteByte, WriteBytes

\* The two bytes of a number below 2^16 are bytes and give it back.
LEMMA TwoBytes ==
    ASSUME NEW n \in Nat, n < Two16
    PROVE  /\ LittleEndian2(n) \in Seq(Byte)
           /\ Len(LittleEndian2(n)) = 2
           /\ Number2(LittleEndian2(n)) = n
  <1>1. n % 256 \in Byte /\ n \div 256 \in Byte /\ n = (n % 256) + 256 * (n \div 256)
    BY DEF Byte, Two16
  <1> QED BY <1>1 DEF LittleEndian2, Number2

\* The powers of two of the casts to 16 and to 32 bits.
LEMMA Powers == Two16 = 65536 /\ Two32 = 4294967296
  BY SMT DEF Two16, Two32

\* The two halves of a number below 2^32.
LEMMA Halves ==
    ASSUME NEW n \in Nat, n < Two32
    PROVE  /\ n % Two16 \in Nat /\ n % Two16 < Two16
           /\ n \div Two16 \in Nat /\ n \div Two16 < Two16
           /\ n = (n % Two16) + Two16 * (n \div Two16)
  <1>1. n = (n % Two16) + Two16 * (n \div Two16) /\ n \div Two16 \in Nat
    BY SMTT(60) DEF Two16
  <1>2. n \div Two16 < Two16
    BY SMTT(60) DEF Two16, Two32
  <1>3. n % Two16 \in Nat /\ n % Two16 < Two16
    BY SMTT(60) DEF Two16
  <1> QED BY <1>1, <1>2, <1>3, Zenon

\* The two bytes of a number below 2^16.
LEMMA TwoHalves ==
    ASSUME NEW n \in Nat, n < Two16
    PROVE  /\ n % 256 \in Byte /\ n \div 256 \in Byte
           /\ Number2(<<n % 256, n \div 256>>) = n
  <1>1. n < 256 * 256
    BY SMTT(60) DEF Two16
  <1>2. n % 256 \in 0 .. 255 /\ n \div 256 \in Nat /\ n = (n % 256) + 256 * (n \div 256)
    <2>1. n % 256 \in 0 .. 255
      BY <1>1, SMTT(60)
    <2>2. n \div 256 \in Nat
      BY <1>1, SMTT(60)
    <2>3. n = (n % 256) + 256 * (n \div 256)
      BY <1>1, SMTT(60)
    <2> QED BY <2>1, <2>2, <2>3, Zenon
  <1>3. n \div 256 < 256
    BY <1>1, <1>2, SMTT(60)
  <1> QED BY <1>2, <1>3 DEF Number2, Byte

\* The four bytes of a number below 2^32 are bytes and give it back.
LEMMA FourBytes ==
    ASSUME NEW n \in Nat, n < Two32
    PROVE  /\ LittleEndian4(n) \in Seq(Byte)
           /\ Len(LittleEndian4(n)) = 4
           /\ Number4(LittleEndian4(n)) = n
  <1>1. PICK low \in Nat, high \in Nat :
          /\ low = n % Two16 /\ low < Two16
          /\ high = n \div Two16 /\ high < Two16
          /\ n = low + Two16 * high
    BY Halves
  <1>2. LittleEndian4(n) = <<low % 256, low \div 256, high % 256, high \div 256>>
    BY <1>1 DEF LittleEndian4
  <1>3. /\ Number2(<<low % 256, low \div 256>>) = low
        /\ low % 256 \in Byte /\ low \div 256 \in Byte
    BY <1>1, TwoHalves
  <1>4. /\ Number2(<<high % 256, high \div 256>>) = high
        /\ high % 256 \in Byte /\ high \div 256 \in Byte
    BY <1>1, TwoHalves
  <1>5. Number4(LittleEndian4(n)) = low + Two16 * high
    BY <1>2, <1>3, <1>4 DEF Number4, Number2
  <1>6. LittleEndian4(n) \in Seq(Byte) /\ Len(LittleEndian4(n)) = 4
    BY <1>2, <1>3, <1>4
  <1> QED BY <1>1, <1>5, <1>6

----------------------------------------------------------------------------
\* Concatenation is closed on byte sequences and associative.
LEMMA Concatenated ==
    ASSUME NEW a \in Seq(Byte), NEW b \in Seq(Byte)
    PROVE  a \o b \in Seq(Byte) /\ Len(a) \in Nat
  OBVIOUS

LEMMA Associated ==
    ASSUME NEW a \in Seq(Byte), NEW b \in Seq(Byte), NEW c \in Seq(Byte)
    PROVE  (a \o b) \o c = a \o (b \o c)
  OBVIOUS

\* Advancing a reader moves its location and nothing else.
LEMMA Advanced ==
    ASSUME NEW bytes, NEW l \in Nat, NEW n \in Nat
    PROVE  Advance([bytes |-> bytes, location |-> l], n)
             = [bytes |-> bytes, location |-> l + n]
  BY DEF Advance

\* A byte that was written is read, and the reader stands behind it.
LEMMA ByteBack ==
    ASSUME NEW out \in Seq(Byte), NEW b \in Byte, NEW rest \in Seq(Byte)
    PROVE  ReadByte(At(out, WriteByte(out, b), rest))
             = [val |-> b, in |-> At(WriteByte(out, b), WriteByte(out, b), rest)]
  <1>1. PICK w \in Seq(Byte) :
          /\ w = WriteByte(out, b)
          /\ Len(w) = Len(out) + 1 /\ w[Len(out) + 1] = b
    <2>1. /\ Append(out, b) \in Seq(Byte)
          /\ Len(Append(out, b)) = Len(out) + 1
          /\ Append(out, b)[Len(out) + 1] = b
      OBVIOUS
    <2> QED BY <2>1 DEF WriteByte
  <1>2. PICK all \in Seq(Byte) : all = w \o rest
    <2>1. w \o rest \in Seq(Byte)
      OBVIOUS
    <2> QED BY <2>1
  <1>3. Len(out) \in Nat /\ Len(all) >= Len(out) + 1 /\ all[Len(out) + 1] = b
    BY <1>1, <1>2
  <1>4. /\ At(out, w, rest) = [bytes |-> all, location |-> Len(out)]
        /\ At(w, w, rest) = [bytes |-> all, location |-> Len(out) + 1]
    BY <1>1, <1>2 DEF At
  <1>5. ReadByte([bytes |-> all, location |-> Len(out)])
          = [val |-> b, in |-> Advance([bytes |-> all, location |-> Len(out)], 1)]
    BY <1>3 DEF ReadByte
  <1>6. Advance([bytes |-> all, location |-> Len(out)], 1)
          = [bytes |-> all, location |-> Len(out) + 1]
    BY <1>3, Advanced
  <1> QED BY <1>1, <1>4, <1>5, <1>6

\* Bytes that were written are read, and the reader stands behind them.
LEMMA BytesBack ==
    ASSUME NEW out \in Seq(Byte), NEW bytes \in Seq(Byte), NEW rest \in Seq(Byte)
    PROVE  ReadBytes(At(out, WriteBytes(out, bytes), rest), Len(bytes))
             = [val |-> bytes,
                in  |-> At(WriteBytes(out, bytes), WriteBytes(out, bytes), rest)]
  <1>1. PICK w \in Seq(Byte) :
          /\ w = WriteBytes(out, bytes) /\ w = out \o bytes
          /\ Len(w) = Len(out) + Len(bytes)
    <2>1. /\ out \o bytes \in Seq(Byte)
          /\ Len(out \o bytes) = Len(out) + Len(bytes)
      OBVIOUS
    <2> QED BY <2>1 DEF WriteBytes
  <1>2. PICK all \in Seq(Byte) : all = w \o rest
    <2>1. w \o rest \in Seq(Byte)
      OBVIOUS
    <2> QED BY <2>1
  <1>3. /\ Len(out) \in Nat /\ Len(bytes) \in Nat
        /\ Len(all) >= Len(out) + Len(bytes)
    BY <1>1, <1>2
  <1>4. \A i \in 1 .. Len(bytes) : all[Len(out) + i] = bytes[i]
    BY <1>1, <1>2
  <1>5. PICK val : val = SubSeq(all, Len(out) + 1, Len(out) + Len(bytes))
    OBVIOUS
  <1>6. /\ val \in Seq(Byte) /\ Len(val) = Len(bytes)
        /\ \A i \in 1 .. Len(bytes) : val[i] = bytes[i]
    BY <1>3, <1>4, <1>5
  <1>7. val = bytes
    BY <1>6, SMTT(60)
  <1>8. /\ At(out, w, rest) = [bytes |-> all, location |-> Len(out)]
        /\ At(w, w, rest) = [bytes |-> all, location |-> Len(out) + Len(bytes)]
    BY <1>1, <1>2 DEF At
  <1>9. ReadBytes([bytes |-> all, location |-> Len(out)], Len(bytes))
          = [val |-> val,
             in  |-> Advance([bytes |-> all, location |-> Len(out)], Len(bytes))]
    BY <1>3, <1>5 DEF ReadBytes
  <1>10. Advance([bytes |-> all, location |-> Len(out)], Len(bytes))
           = [bytes |-> all, location |-> Len(out) + Len(bytes)]
    BY <1>3, Advanced
  <1> QED BY <1>1, <1>7, <1>8, <1>9, <1>10

\* A tag and the bytes behind it are read back one after the other.
LEMMA TaggedBack ==
    ASSUME NEW out \in Seq(Byte), NEW tag \in Byte, NEW bytes \in Seq(Byte),
           NEW rest \in Seq(Byte)
    PROVE  LET mid == WriteByte(out, tag)
               w   == WriteBytes(mid, bytes)
           IN  /\ w \in Seq(Byte)
               /\ ReadByte(At(out, w, rest)) = [val |-> tag, in |-> At(mid, w, rest)]
               /\ ReadBytes(At(mid, w, rest), Len(bytes))
                    = [val |-> bytes, in |-> At(w, w, rest)]
  <1>1. PICK mid \in Seq(Byte) : mid = WriteByte(out, tag)
    BY WriterTypes
  <1>2. PICK w \in Seq(Byte) : w = WriteBytes(mid, bytes)
    BY WriterTypes
  <1>3. bytes \o rest \in Seq(Byte)
    OBVIOUS
  <1>4. w \o rest = mid \o (bytes \o rest)
    BY <1>2, Associated, ZenonT(90) DEF WriteBytes
  <1>5. ReadByte(At(out, mid, bytes \o rest))
          = [val |-> tag, in |-> At(mid, mid, bytes \o rest)]
    BY <1>1, <1>3, ByteBack
  <1>6. ReadByte(At(out, w, rest)) = [val |-> tag, in |-> At(mid, w, rest)]
    BY <1>4, <1>5 DEF At
  <1>7. ReadBytes(At(mid, w, rest), Len(bytes)) = [val |-> bytes, in |-> At(w, w, rest)]
    BY <1>2, BytesBack
  <1> QED BY <1>1, <1>2, <1>6, <1>7

\* A size below 2^32 is read as it was written, whatever is before it and
\* behind it in the stream: WriteSize and ReadSize agree on the three forms.
THEOREM SizeIsReadBack ==
    ASSUME NEW out \in Seq(Byte), NEW size \in Nat, size < Two32,
           NEW rest \in Seq(Byte)
    PROVE  /\ WriteSize(out, size) \in Seq(Byte)
           /\ ReadSize(At(out, WriteSize(out, size), rest))
                = [val |-> size,
                   in  |-> At(WriteSize(out, size), WriteSize(out, size), rest)]
  <1>0. 254 \in Byte /\ 255 \in Byte
    BY DEF Byte
  <1>1. CASE size < 254
    <2>1. size \in Byte /\ WriteSize(out, size) = WriteByte(out, size)
      BY <1>1 DEF WriteSize, Byte
    <2>2. /\ WriteByte(out, size) \in Seq(Byte)
          /\ ReadByte(At(out, WriteByte(out, size), rest))
               = [val |-> size,
                  in  |-> At(WriteByte(out, size), WriteByte(out, size), rest)]
      BY <2>1, ByteBack, WriterTypes
    <2> QED BY <1>1, <2>1, <2>2 DEF ReadSize
  <1>2. CASE ~(size < 254) /\ size < Two16
    <2>1. PICK bytes \in Seq(Byte) :
            bytes = LittleEndian2(size) /\ Len(bytes) = 2 /\ Number2(bytes) = size
      BY <1>2, TwoBytes
    <2>2. PICK mid : mid = WriteByte(out, 254)
      OBVIOUS
    <2>3. PICK w : w = WriteBytes(mid, bytes)
      OBVIOUS
    <2>4. WriteSize(out, size) = w
      BY <1>2, <2>1, <2>2, <2>3 DEF WriteSize
    <2>5. /\ w \in Seq(Byte)
          /\ ReadByte(At(out, w, rest)) = [val |-> 254, in |-> At(mid, w, rest)]
          /\ ReadBytes(At(mid, w, rest), Len(bytes)) = [val |-> bytes, in |-> At(w, w, rest)]
      BY <1>0, <2>2, <2>3, TaggedBack
    <2> QED BY <2>1, <2>4, <2>5 DEF ReadSize
  <1>3. CASE ~(size < 254) /\ ~(size < Two16)
    <2>1. PICK bytes \in Seq(Byte) :
            bytes = LittleEndian4(size) /\ Len(bytes) = 4 /\ Number4(bytes) = size
      BY FourBytes
    <2>2. PICK mid : mid = WriteByte(out, 255)
      OBVIOUS
    <2>3. PICK w : w = WriteBytes(mid, bytes)
      OBVIOUS
    <2>4. WriteSize(out, size) = w
      <3>1. size % Two32 = size
        BY Powers, SMT
      <3> QED BY <1>3, <2>1, <2>2, <2>3, <3>1 DEF WriteSize
    <2>5. /\ w \in Seq(Byte)
          /\ ReadByte(At(out, w, rest)) = [val |-> 255, in |-> At(mid, w, rest)]
          /\ ReadBytes(At(mid, w, rest), Len(bytes)) = [val |-> bytes, in |-> At(w, w, rest)]
      BY <1>0, <2>2, <2>3, TaggedBack
    <2> QED BY <2>1, <2>4, <2>5 DEF ReadSize
  <1> QED BY <1>1, <1>2, <1>3

\* The zeros before an aligned vector are as many as the reader skips.
LEMMA AlignmentBack ==
    ASSUME NEW out \in Seq(Byte), NEW rest \in Seq(Byte), NEW width \in {1, 4, 8}
    PROVE  /\ WriteAlignment(out, width) \in Seq(Byte)
           /\ ReadAlignment(At(out, WriteAlignment(out, width), rest), width)
                = At(WriteAlignment(out, width), WriteAlignment(out, width), rest)
  <1>1. PICK n \in Nat : n = Padding(Len(out), width)
    <2>1. Padding(Len(out), width) \in Nat
      <3>1. CASE width = 1
        BY <3>1 DEF Padding
      <3>2. CASE width = 4
        BY <3>2 DEF Padding
      <3>3. CASE width = 8
        BY <3>3 DEF Padding
      <3> QED BY <3>1, <3>2, <3>3
    <2> QED BY <2>1
  <1>2. PICK zeros \in Seq(Byte) : zeros = Zeros(n) /\ Len(zeros) = n
    <2>1. Zeros(n) \in Seq(Byte) /\ Len(Zeros(n)) = n
      BY DEF Zeros, Byte
    <2> QED BY <2>1
  <1>3. PICK w \in Seq(Byte) :
          w = WriteAlignment(out, width) /\ Len(w) = Len(out) + n
    <2>1. out \o zeros \in Seq(Byte) /\ Len(out \o zeros) = Len(out) + n
      BY <1>2
    <2> QED BY <1>1, <1>2, <2>1 DEF WriteAlignment
  <1>4. /\ At(out, w, rest) = [bytes |-> w \o rest, location |-> Len(out)]
        /\ At(w, w, rest) = [bytes |-> w \o rest, location |-> Len(out) + n]
    BY <1>3 DEF At
  <1>5. Advance([bytes |-> w \o rest, location |-> Len(out)], n)
          = [bytes |-> w \o rest, location |-> Len(out) + n]
    <2>1. Len(out) \in Nat
      BY Concatenated
    <2> QED BY <2>1, Advanced
  <1>6. ReadAlignment([bytes |-> w \o rest, location |-> Len(out)], width)
          = Advance([bytes |-> w \o rest, location |-> Len(out)], n)
    BY <1>1 DEF ReadAlignment
  <1> QED BY <1>3, <1>4, <1>5, <1>6

\* A vector is read as it was written, at every position of a stream, if it has
\* an element or its elements are bytes.  For an empty vector of wider elements
\* this is false: the writer leaves out the alignment that the reader skips.
THEOREM VectorIsReadBack ==
    ASSUME NEW out \in Seq(Byte), NEW rest \in Seq(Byte),
           NEW bytes \in Seq(Byte), NEW width \in {1, 4, 8},
           NEW count \in Nat, count > 0 \/ width = 1, count < Two32,
           Len(bytes) = count * width
    PROVE  LET w == WriteVector(out, width, bytes)
           IN  /\ w \in Seq(Byte)
               /\ ReadVector(At(out, w, rest), width)
                    = [val |-> bytes, in |-> At(w, w, rest)]
  <1>1. Len(bytes) \div width = count /\ (Len(bytes) = 0 => width = 1)
    <2>1. CASE width = 1
      BY <2>1
    <2>2. CASE width = 4
      BY <2>2
    <2>3. CASE width = 8
      BY <2>3
    <2> QED BY <2>1, <2>2, <2>3
  <1>2. PICK sized \in Seq(Byte) : sized = WriteSize(out, count)
    BY SizeIsReadBack
  <1>3. PICK start \in Seq(Byte) :
          start = IF width > 1 THEN WriteAlignment(sized, width) ELSE sized
    BY AlignmentBack
  <1>4. PICK w \in Seq(Byte) : w = start \o bytes /\ w = WriteVector(out, width, bytes)
    <2>1. start \o bytes \in Seq(Byte)
      OBVIOUS
    <2>2. CASE Len(bytes) = 0
      <3>0. bytes = << >> /\ width = 1
        BY <1>1, <2>2, SMTT(60)
      <3>1. start \o bytes = sized
        <4>1. start = sized
          BY <1>3, <3>0
        <4>2. sized \o << >> = sized
          OBVIOUS
        <4> QED BY <3>0, <4>1, <4>2, Zenon
      <3> QED BY <1>1, <1>2, <2>1, <2>2, <3>1 DEF WriteVector
    <2>3. CASE Len(bytes) # 0
      BY <1>1, <1>2, <1>3, <2>1, <2>3 DEF WriteVector, WriteBytes
    <2> QED BY <2>2, <2>3
  <1>5. PICK zeros \in Seq(Byte) : start = sized \o zeros
    <2>1. CASE width > 1
      <3>1. Zeros(Padding(Len(sized), width)) \in Seq(Byte)
        <4>1. Padding(Len(sized), width) \in Nat
          <5>1. CASE width = 4
            BY <5>1 DEF Padding
          <5>2. CASE width = 8
            BY <5>2 DEF Padding
          <5> QED BY <2>1, <5>1, <5>2
        <4> QED BY <4>1 DEF Zeros, Byte
      <3> QED BY <1>3, <2>1, <3>1 DEF WriteAlignment
    <2>2. CASE ~(width > 1)
      <3>1. sized = sized \o << >> /\ << >> \in Seq(Byte)
        OBVIOUS
      <3> QED BY <1>3, <2>2, <3>1
    <2> QED BY <2>1, <2>2
  <1>6. bytes \o rest \in Seq(Byte) /\ zeros \o (bytes \o rest) \in Seq(Byte)
    OBVIOUS
  <1>7. w \o rest = start \o (bytes \o rest)
    <2>1. (start \o bytes) \o rest = start \o (bytes \o rest)
      BY Associated, ZenonT(90)
    <2> QED BY <1>4, <2>1, Zenon
  <1>8. start \o (bytes \o rest) = sized \o (zeros \o (bytes \o rest))
    <2>1. \A tail \in Seq(Byte) : (sized \o zeros) \o tail = sized \o (zeros \o tail)
      BY Associated, ZenonT(90)
    <2>2. start \o (bytes \o rest) = (sized \o zeros) \o (bytes \o rest)
      BY <1>5, Zenon
    <2> QED BY <1>6, <2>1, <2>2, Zenon
  <1>9. ReadSize(At(out, w, rest)) = [val |-> count, in |-> At(sized, w, rest)]
    <2>1. zeros \o (bytes \o rest) \in Seq(Byte)
      BY <1>6
    <2>2. w \o rest = sized \o (zeros \o (bytes \o rest))
      BY <1>7, <1>8
    <2>3. ReadSize(At(out, sized, zeros \o (bytes \o rest)))
            = [val |-> count, in |-> At(sized, sized, zeros \o (bytes \o rest))]
      BY <1>2, <2>1, SizeIsReadBack, ZenonT(90)
    <2> QED BY <2>2, <2>3 DEF At
  <1>10. (IF width > 1 THEN ReadAlignment(At(sized, w, rest), width)
                      ELSE At(sized, w, rest)) = At(start, w, rest)
    <2>1. CASE width > 1
      <3>1. bytes \o rest \in Seq(Byte) /\ w \o rest = start \o (bytes \o rest)
        BY <1>6, <1>7
      <3>2. ReadAlignment(At(sized, start, bytes \o rest), width)
              = At(start, start, bytes \o rest)
        <4>1. start = WriteAlignment(sized, width)
          BY <1>3, <2>1
        <4>2. \A tail \in Seq(Byte) :
                ReadAlignment(At(sized, start, tail), width) = At(start, start, tail)
          BY <4>1, AlignmentBack
        <4> QED BY <3>1, <4>2
      <3> QED BY <2>1, <3>1, <3>2 DEF At
    <2>2. CASE ~(width > 1)
      BY <1>3, <2>2
    <2> QED BY <2>1, <2>2
  <1>11. ReadBytes(At(start, w, rest), count * width)
          = [val |-> bytes, in |-> At(w, w, rest)]
    <2>1. w = WriteBytes(start, bytes)
      BY <1>4 DEF WriteBytes
    <2>2. ReadBytes(At(start, w, rest), Len(bytes)) = [val |-> bytes, in |-> At(w, w, rest)]
      BY <2>1, BytesBack, ZenonT(90)
    <2> QED BY <2>2
  <1>12. ReadVector(At(out, w, rest), width)
          = ReadBytes(At(start, w, rest), count * width)
    BY <1>9, <1>10 DEF ReadVector
  <1> QED BY <1>4, <1>11, <1>12
=============================================================================
