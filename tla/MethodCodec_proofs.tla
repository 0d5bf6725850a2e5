------------------------- MODULE MethodCodec_proofs -------------------------
(***************************************************************************)
(* What one end of a channel sends is what the other end is given, for all *)
(* sets of values that can be read back, however deep they are nested.     *)
(*                                                                         *)
(* The writer only appends, and the head of a value is read back wherever  *)
(* it stands and whatever follows it (HeadBack).  So one step of the       *)
(* reader undoes one step of the writer (ReadFollows): where the writer    *)
(* has i of n items written at each level of its stack, the reader has     *)
(* read i and n - i are left, its Mirror.  The invariant keeps the way of  *)
(* the writer from its start (IsTrace), and the reader is always at the    *)
(* mirror of a point of it.                                                *)
(***************************************************************************)
EXTENDS MethodCodec, ByteStreams_proofs

----------------------------------------------------------------------------
(* Heads of values: what is written before the items.                      *)

\* `w` is `out` with bytes behind it.
Extends(w, out) == \E z \in Seq(Byte) : w = out \o z

\* Extending is transitive, and every writer extends the stream.
LEMMA ExtendsTransitive ==
    ASSUME NEW a \in Seq(Byte), NEW b \in Seq(Byte), NEW c \in Seq(Byte),
           Extends(b, a), Extends(c, b)
    PROVE  Extends(c, a)
  <1>1. PICK y \in Seq(Byte) : b = a \o y
    BY DEF Extends
  <1>2. PICK z \in Seq(Byte) : c = b \o z
    BY DEF Extends
  <1>3. (a \o y) \o z = a \o (y \o z)
    BY Associated, ZenonT(90)
  <1>4. y \o z \in Seq(Byte)
    BY Concatenated
  <1>5. c = a \o (y \o z)
    BY <1>1, <1>2, <1>3, Zenon
  <1> QED BY <1>4, <1>5, Zenon DEF Extends

LEMMA ExtendsItself ==
    ASSUME NEW a \in Seq(Byte)
    PROVE  Extends(a, a)
  <1>1. a = a \o << >> /\ << >> \in Seq(Byte)
    OBVIOUS
  <1> QED BY <1>1, Zenon DEF Extends

LEMMA ByteExtends ==
    ASSUME NEW out \in Seq(Byte), NEW b \in Byte
    PROVE  Extends(WriteByte(out, b), out)
  <1>1. Append(out, b) = out \o <<b>> /\ <<b>> \in Seq(Byte)
    OBVIOUS
  <1> QED BY <1>1, Zenon DEF Extends, WriteByte

LEMMA BytesExtend ==
    ASSUME NEW out \in Seq(Byte), NEW bytes \in Seq(Byte)
    PROVE  Extends(WriteBytes(out, bytes), out)
  BY Zenon DEF Extends, WriteBytes

LEMMA AlignmentExtends ==
    ASSUME NEW out \in Seq(Byte), NEW width \in {1, 4, 8}
    PROVE  Extends(WriteAlignment(out, width), out)
  <1>1. Padding(Len(out), width) \in Nat
    <2>1. CASE width = 1
      BY <2>1 DEF Padding
    <2>2. CASE width = 4
      BY <2>2 DEF Padding
    <2>3. CASE width = 8
      BY <2>3 DEF Padding
    <2> QED BY <2>1, <2>2, <2>3
  <1>2. Zeros(Padding(Len(out), width)) \in Seq(Byte)
    BY <1>1 DEF Zeros, Byte
  <1> QED BY <1>2, Zenon DEF Extends, WriteAlignment

LEMMA SizeExtends ==
    ASSUME NEW out \in Seq(Byte), NEW size \in Nat, size < Two32
    PROVE  Extends(WriteSize(out, size), out)
  <1>0. 254 \in Byte /\ 255 \in Byte
    BY DEF Byte
  <1>1. CASE size < 254
    <2>1. size \in Byte /\ WriteSize(out, size) = WriteByte(out, size)
      BY <1>1 DEF WriteSize, Byte
    <2> QED BY <2>1, ByteExtends
  <1>2. ASSUME NEW tag \in Byte, NEW bytes \in Seq(Byte)
        PROVE  Extends(WriteBytes(WriteByte(out, tag), bytes), out)
    <2>1. PICK mid \in Seq(Byte) : mid = WriteByte(out, tag) /\ Extends(mid, out)
      BY WriterTypes, ByteExtends
    <2>2. WriteBytes(mid, bytes) \in Seq(Byte) /\ Extends(WriteBytes(mid, bytes), mid)
      BY WriterTypes, BytesExtend
    <2> QED BY <2>1, <2>2, ExtendsTransitive
  <1>3. CASE ~(size < 254) /\ size < Two16
    <2>1. LittleEndian2(size) \in Seq(Byte)
      BY <1>3, TwoBytes
    <2>2. WriteSize(out, size) = WriteBytes(WriteByte(out, 254), LittleEndian2(size))
      BY <1>3 DEF WriteSize
    <2> QED BY <1>0, <1>2, <2>1, <2>2
  <1>4. CASE ~(size < 254) /\ ~(size < Two16)
    <2>1. LittleEndian4(size) \in Seq(Byte)
      BY FourBytes
    <2>2. size % Two32 = size
      BY Powers, SMT
    <2>3. WriteSize(out, size) = WriteBytes(WriteByte(out, 255), LittleEndian4(size))
      BY <1>4, <2>2 DEF WriteSize
    <2> QED BY <1>0, <1>2, <2>1, <2>3
  <1> QED BY <1>1, <1>3, <1>4

LEMMA VectorExtends ==
    ASSUME NEW out \in Seq(Byte), NEW bytes \in Seq(Byte), NEW width \in {1, 4, 8},
           NEW count \in Nat, count > 0 \/ width = 1, count < Two32,
           Len(bytes) = count * width
    PROVE  Extends(WriteVector(out, width, bytes), out)
  <1>1. Len(bytes) \div width = count /\ (Len(bytes) = 0 => width = 1)
    <2>1. CASE width = 1
      BY <2>1
    <2>2. CASE width = 4
      BY <2>2
    <2>3. CASE width = 8
      BY <2>3
    <2> QED BY <2>1, <2>2, <2>3
  <1>2. PICK sized \in Seq(Byte) : sized = WriteSize(out, count) /\ Extends(sized, out)
    <2>1. << >> \in Seq(Byte)
      OBVIOUS
    <2> QED BY <2>1, SizeIsReadBack, SizeExtends
  <1>3. PICK start \in Seq(Byte) :
          /\ start = IF width > 1 THEN WriteAlignment(sized, width) ELSE sized
          /\ Extends(start, sized)
    <2>1. << >> \in Seq(Byte)
      OBVIOUS
    <2> QED BY <2>1, AlignmentBack, AlignmentExtends, ExtendsItself
  <1>4. WriteVector(out, width, bytes) = WriteBytes(start, bytes)
    <2>1. CASE Len(bytes) = 0
      <3>1. start = sized /\ WriteBytes(start, bytes) = sized
        BY <1>1, <1>3, <2>1 DEF WriteBytes
      <3> QED BY <1>1, <1>2, <2>1, <3>1 DEF WriteVector
    <2>2. CASE Len(bytes) # 0
      BY <1>1, <1>2, <1>3, <2>2 DEF WriteVector
    <2> QED BY <2>1, <2>2
  <1>5. WriteBytes(start, bytes) \in Seq(Byte) /\ Extends(WriteBytes(start, bytes), start)
    BY Concatenated, BytesExtend DEF WriteBytes
  <1>6. Extends(WriteBytes(start, bytes), sized)
    BY <1>3, <1>5, ExtendsTransitive
  <1> QED BY <1>2, <1>4, <1>5, <1>6, ExtendsTransitive

\* What is read at the beginning of a stream is read there whatever follows.
LEMMA Rebased ==
    ASSUME NEW out \in Seq(Byte), NEW mid \in Seq(Byte), NEW w \in Seq(Byte),
           NEW rest \in Seq(Byte), Extends(w, mid)
    PROVE  \E more \in Seq(Byte) :
             \A any : At(any, w, rest) = At(any, mid, more)
  <1>1. PICK z \in Seq(Byte) : w = mid \o z
    BY DEF Extends
  <1>2. (mid \o z) \o rest = mid \o (z \o rest)
    BY Associated, ZenonT(90)
  <1>3. z \o rest \in Seq(Byte)
    BY Concatenated
  <1>4. w \o rest = mid \o (z \o rest)
    BY <1>1, <1>2, Zenon
  <1>5. \A any : At(any, w, rest) = At(any, mid, z \o rest)
    BY <1>4, Zenon DEF At
  <1> QED BY <1>3, <1>5, Zenon

LEMMA TagBack ==
    ASSUME NEW out \in Seq(Byte), NEW b \in Byte, NEW w \in Seq(Byte),
           NEW rest \in Seq(Byte), Extends(w, WriteByte(out, b))
    PROVE  ReadByte(At(out, w, rest)) = [val |-> b, in |-> At(WriteByte(out, b), w, rest)]
  <1>1. PICK mid \in Seq(Byte) : mid = WriteByte(out, b)
    BY WriterTypes
  <1>2. PICK more \in Seq(Byte) : \A any : At(any, w, rest) = At(any, mid, more)
    BY <1>1, Rebased
  <1>3. ReadByte(At(out, mid, more)) = [val |-> b, in |-> At(mid, mid, more)]
    BY <1>1, ByteBack
  <1> QED BY <1>1, <1>2, <1>3, Zenon

\* A size is read back whatever follows it.
LEMMA SizeBackWithin ==
    ASSUME NEW out \in Seq(Byte), NEW size \in Nat, size < Two32, NEW w \in Seq(Byte),
           NEW rest \in Seq(Byte), Extends(w, WriteSize(out, size))
    PROVE  ReadSize(At(out, w, rest)) = [val |-> size, in |-> At(WriteSize(out, size), w, rest)]
  <1>1. PICK mid \in Seq(Byte) : mid = WriteSize(out, size)
    BY SizeIsReadBack
  <1>2. PICK more \in Seq(Byte) : \A any : At(any, w, rest) = At(any, mid, more)
    BY <1>1, Rebased
  <1>3. ReadSize(At(out, mid, more)) = [val |-> size, in |-> At(mid, mid, more)]
    BY <1>1, SizeIsReadBack
  <1> QED BY <1>1, <1>2, <1>3, Zenon

----------------------------------------------------------------------------
(* Each type of value is found again by the reader.                        *)

\* What can be read back: no custom value, no size beyond four bytes, and at
\* least one element of a typed list, unless they are single bytes (see
\* VectorIsReadBack).
Readable(v) ==
    /\ v.t # "custom"
    /\ v.t = "string" => Len(v.bytes) < Two32
    /\ v.t \in DOMAIN Widths =>
         /\ Len(v.bytes) > 0 \/ v.t = "uint8list"
         /\ Len(v.bytes) < Two32 * Widths[v.t]
    /\ v.t = "list" => Len(v.items) < Two32
    /\ v.t = "map" => Len(v.items) \div 2 < Two32

\* The value as ReadHead leaves it, and how many items are to follow.
Opening(v) == IF v.t \in {"list", "map"} THEN [t |-> v.t, items |-> << >>] ELSE v
Left(v)    == IF v.t \in {"list", "map"} THEN Len(v.items) ELSE 0

\* A reader at the beginning of what was written for v reads its head and
\* stands behind it.
HeadIsRead(v, out, w, rest) ==
    ReadHead(At(out, w, rest)) = [v |-> Opening(v), left |-> Left(v), in |-> At(w, w, rest)]

\* The stream with the type byte of v.
Tagged(v, out) == WriteByte(out, EncodedTypeForValue(v))

\* The type byte of a value that is not custom.
LEMMA TagOf ==
    ASSUME NEW v, v \in ValueTypes, v.t # "custom"
    PROVE  EncodedTypeForValue(v) \in Byte
  <1>1. CASE v.t = "bool"
    <2>1. \/ EncodedTypeForValue(v) = EncodedType.true
          \/ EncodedTypeForValue(v) = EncodedType.false
      BY <1>1 DEF EncodedTypeForValue
    <2> QED BY <2>1 DEF EncodedType, Byte
  <1>2. CASE v.t # "bool"
    <2>1. EncodedTypeForValue(v) = EncodedType[v.t]
      BY <1>2 DEF EncodedTypeForValue
    <2>2. v.t \in DOMAIN EncodedType \ {"true", "false"}
      BY <1>2 DEF ValueTypes, Scalars, Widths, EncodedType
    <2>3. \A n \in DOMAIN EncodedType : EncodedType[n] \in Byte
      BY DEF EncodedType, Byte
    <2> QED BY <2>1, <2>2, <2>3
  <1> QED BY <1>1, <1>2

\* Null and the two booleans are their type byte.
LEMMA PlainHead ==
    ASSUME NEW v \in ValueTypes, v.t \in {"null", "bool"},
           NEW out \in Seq(Byte), NEW rest \in Seq(Byte)
    PROVE  LET w == WriteHead(v, out)
           IN  w \in Seq(Byte) /\ Extends(w, Tagged(v, out)) /\ HeadIsRead(v, out, w, rest)
  <1>1. PICK tag \in Byte : tag = EncodedTypeForValue(v)
    BY TagOf
  <1>2. PICK w \in Seq(Byte) : w = WriteByte(out, tag)
    BY WriterTypes
  <1>3. WriteHead(v, out) = w
    BY <1>1, <1>2 DEF WriteHead, Widths
  <1>4. ReadByte(At(out, w, rest)) = [val |-> tag, in |-> At(w, w, rest)]
    BY <1>2, ByteBack
  <1>5. HeadIsRead(v, out, w, rest)
    <2>1. CASE v.t = "null"
      <3>1. v = Null
        BY <2>1 DEF ValueTypes, Null, Scalars, Widths
      <3> QED BY <1>1, <1>4, <2>1, <3>1
              DEF HeadIsRead, ReadHead, Opening, Left, EncodedTypeForValue, EncodedType, Null, Widths
    <2>2. CASE v.t = "bool"
      <3>1. v.b \in BOOLEAN /\ v = [t |-> "bool", b |-> v.b]
        BY <2>2 DEF ValueTypes, Scalars, Widths
      <3>2. CASE v.b = TRUE
        <4>1. tag = 1
          BY <1>1, <2>2, <3>2 DEF EncodedTypeForValue, EncodedType
        <4>2. v = [t |-> "bool", b |-> TRUE]
          BY <3>1, <3>2
        <4>3. ReadHead(At(out, w, rest)) = [v |-> [t |-> "bool", b |-> TRUE], left |-> 0, in |-> At(w, w, rest)]
          BY <1>4, <4>1 DEF ReadHead, EncodedType, Widths, Scalars
        <4> QED BY <2>2, <4>2, <4>3 DEF HeadIsRead, Opening, Left
      <3>3. CASE v.b = FALSE
        <4>1. tag = 2
          BY <1>1, <2>2, <3>3 DEF EncodedTypeForValue, EncodedType
        <4>2. v = [t |-> "bool", b |-> FALSE]
          BY <3>1, <3>3
        <4>3. ReadHead(At(out, w, rest)) = [v |-> [t |-> "bool", b |-> FALSE], left |-> 0, in |-> At(w, w, rest)]
          BY <1>4, <4>1 DEF ReadHead, EncodedType, Widths, Scalars
        <4> QED BY <2>2, <4>2, <4>3 DEF HeadIsRead, Opening, Left
      <3> QED BY <3>1, <3>2, <3>3
    <2> QED BY <2>1, <2>2
  <1> QED BY <1>1, <1>2, <1>3, <1>5, ExtendsItself DEF Tagged

\* A value that is its bytes.
LEMMA BytesValue ==
    ASSUME NEW v \in ValueTypes, v.t \in DOMAIN Scalars \cup {"string"} \cup DOMAIN Widths
    PROVE  v.bytes \in Seq(Byte) /\ v = [t |-> v.t, bytes |-> v.bytes]
  BY DEF ValueTypes, Scalars, Widths

\* A number of four or eight bytes; a double is aligned.
LEMMA ScalarHead ==
    ASSUME NEW v \in ValueTypes, WellFormed(v), v.t \in DOMAIN Scalars,
           NEW out \in Seq(Byte), NEW rest \in Seq(Byte)
    PROVE  LET w == WriteHead(v, out)
           IN  w \in Seq(Byte) /\ Extends(w, Tagged(v, out)) /\ HeadIsRead(v, out, w, rest)
  <1>1. PICK tag \in Byte : tag = EncodedTypeForValue(v)
    BY TagOf DEF Scalars
  <1>2. PICK mid \in Seq(Byte) : mid = WriteByte(out, tag) /\ Extends(mid, out)
    BY WriterTypes, ByteExtends
  <1>3. v.bytes \in Seq(Byte) /\ v = [t |-> v.t, bytes |-> v.bytes] /\ Len(v.bytes) = Scalars[v.t]
    BY BytesValue DEF WellFormed
  <1>4. CASE v.t \in {"int32", "int64"}
    <2>1. PICK w \in Seq(Byte) : w = WriteBytes(mid, v.bytes) /\ Extends(w, mid)
      BY <1>3, WriterTypes, BytesExtend
    <2>2. WriteHead(v, out) = w
      BY <1>1, <1>2, <1>4, <2>1 DEF WriteHead, Widths
    <2>3. ReadByte(At(out, w, rest)) = [val |-> tag, in |-> At(mid, w, rest)]
      BY <1>2, <2>1, TagBack
    <2>4. ReadBytes(At(mid, w, rest), Scalars[v.t]) = [val |-> v.bytes, in |-> At(w, w, rest)]
      BY <1>3, <2>1, BytesBack
    <2>5. tag = EncodedType[v.t]
      BY <1>1, <1>4 DEF EncodedTypeForValue
    <2>6. HeadIsRead(v, out, w, rest)
      <3>1. CASE v.t = "int32"
        BY <1>3, <2>3, <2>4, <2>5, <3>1 DEF HeadIsRead, ReadHead, Opening, Left, EncodedType, Scalars, Widths
      <3>2. CASE v.t = "int64"
        BY <1>3, <2>3, <2>4, <2>5, <3>2 DEF HeadIsRead, ReadHead, Opening, Left, EncodedType, Scalars, Widths
      <3> QED BY <1>4, <3>1, <3>2
    <2> QED BY <1>1, <1>2, <2>1, <2>2, <2>6 DEF Tagged
  <1>5. CASE v.t = "double"
    <2>1. PICK start \in Seq(Byte) : start = WriteAlignment(mid, 8) /\ Extends(start, mid)
      BY AlignmentBack, AlignmentExtends
    <2>2. PICK w \in Seq(Byte) : w = WriteBytes(start, v.bytes) /\ Extends(w, start)
      BY <1>3, WriterTypes, BytesExtend
    <2>3. WriteHead(v, out) = w
      BY <1>1, <1>2, <1>5, <2>1, <2>2 DEF WriteHead, Widths
    <2>4. Extends(w, mid)
      BY <2>1, <2>2, ExtendsTransitive
    <2>5. ReadByte(At(out, w, rest)) = [val |-> tag, in |-> At(mid, w, rest)]
      BY <1>2, <2>4, TagBack
    <2>6. ReadAlignment(At(mid, w, rest), 8) = At(start, w, rest)
      <3>1. PICK more \in Seq(Byte) : \A any : At(any, w, rest) = At(any, start, more)
        BY <2>2, Rebased
      <3>2. ReadAlignment(At(mid, start, more), 8) = At(start, start, more)
        BY <2>1, AlignmentBack
      <3> QED BY <3>1, <3>2, Zenon
    <2>7. ReadBytes(At(start, w, rest), 8) = [val |-> v.bytes, in |-> At(w, w, rest)]
      <3>1. Len(v.bytes) = 8
        BY <1>3, <1>5 DEF Scalars
      <3>2. ReadBytes(At(start, WriteBytes(start, v.bytes), rest), Len(v.bytes))
              = [val |-> v.bytes,
                 in  |-> At(WriteBytes(start, v.bytes), WriteBytes(start, v.bytes), rest)]
        BY <1>3, BytesBack
      <3> QED BY <2>2, <3>1, <3>2
    <2>8. tag = 6
      BY <1>1, <1>5 DEF EncodedTypeForValue, EncodedType
    <2>9. HeadIsRead(v, out, w, rest)
      BY <1>3, <1>5, <2>5, <2>6, <2>7, <2>8
      DEF HeadIsRead, ReadHead, Opening, Left, EncodedType, Scalars, Widths
    <2> QED BY <1>1, <1>2, <2>2, <2>3, <2>4, <2>9 DEF Tagged
  <1> QED BY <1>4, <1>5 DEF Scalars

\* Behind the type byte of a string the reader takes a size and as many bytes.
LEMMA StringIsRead ==
    ASSUME NEW in, NEW next, NEW size, NEW bytes, ReadByte(in) = [val |-> 7, in |-> next],
           size = ReadSize(next), bytes = ReadBytes(size.in, size.val)
    PROVE  ReadHead(in) = [v    |-> [t |-> "string", bytes |-> bytes.val],
                           left |-> 0,
                           in   |-> bytes.in]
  <1>1. PICK first : first = ReadByte(in) /\ first.val = 7 /\ first.in = next
    OBVIOUS
  <1> QED BY <1>1, SMTT(60) DEF ReadHead, EncodedType, Widths

\* A string is its size and its bytes.
LEMMA StringHead ==
    ASSUME NEW v \in ValueTypes, Readable(v), v.t = "string",
           NEW out \in Seq(Byte), NEW rest \in Seq(Byte)
    PROVE  LET w == WriteHead(v, out)
           IN  w \in Seq(Byte) /\ Extends(w, Tagged(v, out)) /\ HeadIsRead(v, out, w, rest)
  <1>1. PICK tag \in Byte : tag = EncodedTypeForValue(v) /\ tag = 7
    BY DEF EncodedTypeForValue, EncodedType, Byte
  <1>2. PICK mid \in Seq(Byte) : mid = WriteByte(out, tag) /\ Extends(mid, out)
    BY WriterTypes, ByteExtends
  <1>3. /\ v.bytes \in Seq(Byte) /\ v = [t |-> "string", bytes |-> v.bytes]
        /\ Len(v.bytes) \in Nat /\ Len(v.bytes) < Two32
    BY BytesValue DEF Readable
  <1>4. PICK sized \in Seq(Byte) : sized = WriteSize(mid, Len(v.bytes)) /\ Extends(sized, mid)
    BY <1>3, SizeIsReadBack, SizeExtends
  <1>5. PICK w \in Seq(Byte) : w = WriteBytes(sized, v.bytes) /\ Extends(w, sized)
    BY <1>3, WriterTypes, BytesExtend
  <1>6. WriteHead(v, out) = w
    BY <1>1, <1>2, <1>4, <1>5 DEF WriteHead, Widths
  <1>7. Extends(w, mid)
    BY <1>4, <1>5, ExtendsTransitive
  <1>8. ReadByte(At(out, w, rest)) = [val |-> tag, in |-> At(mid, w, rest)]
    BY <1>2, <1>7, TagBack
  <1>9. ReadSize(At(mid, w, rest)) = [val |-> Len(v.bytes), in |-> At(sized, w, rest)]
    <2>1. PICK size \in Nat : size = Len(v.bytes) /\ size < Two32
      BY <1>3, Zenon
    <2>2. Extends(w, WriteSize(mid, size))
      BY <1>4, <1>5, <2>1, Zenon
    <2>3. ReadSize(At(mid, w, rest)) = [val |-> size, in |-> At(WriteSize(mid, size), w, rest)]
      BY <2>1, <2>2, SizeBackWithin, SMTT(60)
    <2> QED BY <1>4, <2>1, <2>3, Zenon
  <1>10. ReadBytes(At(sized, w, rest), Len(v.bytes)) = [val |-> v.bytes, in |-> At(w, w, rest)]
    BY <1>3, <1>5, BytesBack
  <1>11. HeadIsRead(v, out, w, rest)
    <2>1. PICK size : size = ReadSize(At(mid, w, rest))
      OBVIOUS
    <2>2. PICK bytes : bytes = ReadBytes(size.in, size.val)
      OBVIOUS
    <2>3. size.val = Len(v.bytes) /\ size.in = At(sized, w, rest)
      BY <1>9, <2>1
    <2>4. bytes = [val |-> v.bytes, in |-> At(w, w, rest)]
      BY <1>10, <2>2, <2>3, Zenon
    <2>5. ReadHead(At(out, w, rest))
            = [v |-> [t |-> "string", bytes |-> bytes.val], left |-> 0, in |-> bytes.in]
      BY <1>1, <1>8, <2>1, <2>2, StringIsRead
    <2>6. bytes.val = v.bytes /\ bytes.in = At(w, w, rest)
      BY <2>4
    <2>7. Opening(v) = v /\ Left(v) = 0
      BY DEF Opening, Left
    <2> QED BY <1>3, <2>5, <2>6, <2>7, Zenon DEF HeadIsRead
  <1> QED BY <1>1, <1>2, <1>5, <1>6, <1>7, <1>11 DEF Tagged

\* A typed list is a vector.
LEMMA VectorHead ==
    ASSUME NEW v \in ValueTypes, WellFormed(v), Readable(v), v.t \in DOMAIN Widths,
           NEW out \in Seq(Byte), NEW rest \in Seq(Byte)
    PROVE  LET w == WriteHead(v, out)
           IN  w \in Seq(Byte) /\ Extends(w, Tagged(v, out)) /\ HeadIsRead(v, out, w, rest)
  <1>1. PICK tag \in Byte : tag = EncodedTypeForValue(v) /\ tag = EncodedType[v.t]
    <2>1. EncodedTypeForValue(v) = EncodedType[v.t]
      BY DEF EncodedTypeForValue, Widths
    <2> QED BY <2>1, TagOf DEF Readable
  <1>2. PICK mid \in Seq(Byte) : mid = WriteByte(out, tag) /\ Extends(mid, out)
    BY WriterTypes, ByteExtends
  <1>3. PICK width \in {1, 4, 8} : width = Widths[v.t]
    BY DEF Widths
  <1>4. v.bytes \in Seq(Byte) /\ v = [t |-> v.t, bytes |-> v.bytes]
    BY BytesValue
  <1>5. PICK count \in Nat : Len(v.bytes) = count * width /\ (count > 0 \/ width = 1) /\ count < Two32
    <2>1. PICK count \in Nat : Len(v.bytes) = count * width
      BY <1>3, <1>4 DEF WellFormed
    <2>2. (Len(v.bytes) > 0 \/ width = 1) /\ Len(v.bytes) < 4294967296 * width
      BY <1>3, Powers, SMT DEF Readable, Widths
    <2>3. (count > 0 \/ width = 1) /\ count < 4294967296
      <3>1. CASE width = 1
        BY <2>1, <2>2, <3>1, SMT
      <3>2. CASE width = 4
        BY <2>1, <2>2, <3>2, SMT
      <3>3. CASE width = 8
        BY <2>1, <2>2, <3>3, SMT
      <3> QED BY <3>1, <3>2, <3>3, SMT
    <2> QED BY <2>1, <2>3, Powers, SMT
  <1>6. PICK w \in Seq(Byte) :
          /\ w = WriteVector(mid, width, v.bytes) /\ Extends(w, mid)
          /\ ReadVector(At(mid, w, rest), width) = [val |-> v.bytes, in |-> At(w, w, rest)]
    BY <1>4, <1>5, VectorIsReadBack, VectorExtends
  <1>7. WriteHead(v, out) = w
    <2>1. WriteHead(v, out) = WriteVector(WriteByte(out, EncodedTypeForValue(v)), Widths[v.t], v.bytes)
      BY DEF WriteHead, Widths
    <2> QED BY <1>1, <1>2, <1>3, <1>6, <2>1
  <1>8. ReadByte(At(out, w, rest)) = [val |-> tag, in |-> At(mid, w, rest)]
    BY <1>2, <1>6, TagBack
  <1>9. /\ \A n \in DOMAIN Widths : EncodedType[n] = tag => n = v.t
        /\ EncodedType[v.t] \notin {EncodedType.null, EncodedType.true, EncodedType.false,
             EncodedType.int32, EncodedType.int64, EncodedType.double, EncodedType.string,
             EncodedType.largeint, EncodedType.list, EncodedType.map}
    BY <1>1 DEF Widths, EncodedType
  <1>10. ReadHead(At(out, w, rest))
           = LET read == ReadVector(At(mid, w, rest), width)
             IN  [v |-> [t |-> v.t, bytes |-> read.val], left |-> 0, in |-> read.in]
    <2>1. TypedList(tag) = v.t
      BY <1>1, <1>9 DEF TypedList
    <2>2. \E n \in DOMAIN Widths : tag = EncodedType[n]
      BY <1>1
    <2> QED BY <1>1, <1>3, <1>8, <1>9, <2>1, <2>2 DEF ReadHead, EncodedType
  <1>11. HeadIsRead(v, out, w, rest)
    BY <1>4, <1>6, <1>10 DEF HeadIsRead, Opening, Left, Widths
  <1> QED BY <1>1, <1>2, <1>6, <1>7, <1>11 DEF Tagged

LEMMA Halved ==
    ASSUME NEW n \in Nat, n % 2 = 0
    PROVE  n \div 2 \in Nat /\ n = 2 * (n \div 2)
  OBVIOUS

\* A list or a map is opened with the number of its items.
LEMMA OpenHead ==
    ASSUME NEW v \in ValueTypes, WellFormed(v), Readable(v), v.t \in {"list", "map"},
           NEW out \in Seq(Byte), NEW rest \in Seq(Byte)
    PROVE  LET w == WriteHead(v, out)
           IN  w \in Seq(Byte) /\ Extends(w, Tagged(v, out)) /\ HeadIsRead(v, out, w, rest)
  <1>1. PICK tag \in Byte : tag = EncodedTypeForValue(v) /\ tag = EncodedType[v.t]
    <2>1. EncodedTypeForValue(v) = EncodedType[v.t]
      BY DEF EncodedTypeForValue
    <2> QED BY <2>1, TagOf DEF Readable
  <1>2. PICK mid \in Seq(Byte) : mid = WriteByte(out, tag) /\ Extends(mid, out)
    BY WriterTypes, ByteExtends
  <1>3. Len(v.items) \in Nat
    BY DEF ValueTypes, Scalars, Widths
  <1>4. PICK size \in Nat :
          /\ size < Two32
          /\ size = IF v.t = "list" THEN Len(v.items) ELSE Len(v.items) \div 2
          /\ Len(v.items) = IF v.t = "list" THEN size ELSE 2 * size
    <2>1. CASE v.t = "list"
      BY <1>3, <2>1 DEF Readable
    <2>2. CASE v.t = "map"
      <3>1. Len(v.items) % 2 = 0 /\ Len(v.items) \div 2 < Two32
        BY <2>2 DEF Readable, WellFormed
      <3>2. Len(v.items) \div 2 \in Nat /\ Len(v.items) = 2 * (Len(v.items) \div 2)
        BY <1>3, <3>1, Halved
      <3> QED BY <2>2, <3>1, <3>2
    <2> QED BY <2>1, <2>2
  <1>5. PICK w \in Seq(Byte) : w = WriteSize(mid, size) /\ Extends(w, mid)
    BY <1>4, SizeIsReadBack, SizeExtends
  <1>6. WriteHead(v, out) = w
    <2>1. CASE v.t = "list"
      BY <1>1, <1>2, <1>4, <1>5, <2>1 DEF WriteHead, Widths
    <2>2. CASE v.t = "map"
      BY <1>1, <1>2, <1>4, <1>5, <2>2 DEF WriteHead, Widths
    <2> QED BY <2>1, <2>2
  <1>7. ReadByte(At(out, w, rest)) = [val |-> tag, in |-> At(mid, w, rest)]
    BY <1>2, <1>5, TagBack
  <1>8. ReadSize(At(mid, w, rest)) = [val |-> size, in |-> At(w, w, rest)]
    <2>1. ReadSize(At(mid, WriteSize(mid, size), rest))
            = [val |-> size, in |-> At(WriteSize(mid, size), WriteSize(mid, size), rest)]
      BY <1>4, SizeIsReadBack
    <2> QED BY <1>5, <2>1
  <1>9. HeadIsRead(v, out, w, rest)
    <2>1. CASE v.t = "list"
      BY <1>1, <1>4, <1>7, <1>8, <2>1 DEF HeadIsRead, ReadHead, Opening, Left, EncodedType, Widths
    <2>2. CASE v.t = "map"
      <3>1. ReadHead(At(out, w, rest))
              = [v |-> [t |-> "map", items |-> << >>], left |-> 2 * size, in |-> At(w, w, rest)]
        BY <1>1, <1>7, <1>8, <2>2 DEF ReadHead, EncodedType, Widths, Scalars
      <3>2. Left(v) = 2 * size /\ Opening(v) = [t |-> "map", items |-> << >>]
        BY <1>4, <2>2 DEF Left, Opening
      <3> QED BY <3>1, <3>2, Zenon DEF HeadIsRead
    <2> QED BY <2>1, <2>2
  <1> QED BY <1>1, <1>2, <1>5, <1>6, <1>9 DEF Tagged

\* The head of every value is read back, wherever it is written.
LEMMA HeadBack ==
    ASSUME NEW v \in ValueTypes, WellFormed(v), Readable(v),
           NEW out \in Seq(Byte), NEW rest \in Seq(Byte)
    PROVE  LET w == WriteHead(v, out)
           IN  /\ w \in Seq(Byte) /\ Len(w) > Len(out) /\ Extends(w, out)
               /\ HeadIsRead(v, out, w, rest)
  <1>1. \/ v.t \in {"null", "bool"} \/ v.t \in DOMAIN Scalars \/ v.t = "string"
        \/ v.t \in DOMAIN Widths \/ v.t \in {"list", "map"}
    BY DEF ValueTypes, Readable
  <1>2. PICK w \in Seq(Byte) :
          /\ w = WriteHead(v, out) /\ Extends(w, Tagged(v, out))
          /\ HeadIsRead(v, out, w, rest)
    BY <1>1, PlainHead, ScalarHead, StringHead, VectorHead, OpenHead
  <1>3. PICK mid \in Seq(Byte) :
          mid = Tagged(v, out) /\ Extends(mid, out) /\ Len(mid) = Len(out) + 1
    <2>1. PICK tag \in Byte : tag = EncodedTypeForValue(v)
      BY TagOf DEF Readable
    <2>2. Append(out, tag) \in Seq(Byte) /\ Len(Append(out, tag)) = Len(out) + 1
      OBVIOUS
    <2> QED BY <2>1, <2>2, ByteExtends DEF Tagged, WriteByte
  <1>4. Extends(w, out)
    BY <1>2, <1>3, ExtendsTransitive
  <1>5. PICK z \in Seq(Byte) : w = mid \o z
    BY <1>2, <1>3 DEF Extends
  <1>6. Len(w) > Len(out)
    BY <1>3, <1>5
  <1> QED BY <1>2, <1>4, <1>6

----------------------------------------------------------------------------
(* One step of the reader undoes one step of the writer.                   *)

\* What can be written at any level.
Sendable == Values \cup {Null} \cup {Text(name) : name \in Names}

\* Everything the two ends send can be read back.
AllReadable ==
    /\ \A v \in Values : Readable(v)
    /\ \A name \in Names : Len(name) < Two32

LEMMA SendableIsReadable ==
    ASSUME AllReadable, NEW v \in Sendable
    PROVE  /\ v \in ValueTypes /\ WellFormed(v) /\ Readable(v)
           /\ v.t \in {"list", "map"} => v.items \in Seq(Values)
  <1>1. CASE v \in Values
    BY <1>1, ValuesAssumption DEF AllReadable, ValueTypes, Scalars, Widths
  <1>2. CASE v = Null
    BY <1>2 DEF Null, ValueTypes, WellFormed, Readable, Scalars, Widths
  <1>3. ASSUME NEW name \in Names, v = Text(name)
        PROVE  /\ v \in ValueTypes /\ WellFormed(v) /\ Readable(v)
               /\ v.t \notin {"list", "map"}
    <2>1. name \in Seq(Byte) /\ Len(name) < Two32
      BY NamesAssumption DEF AllReadable
    <2>2. v.t = "string" /\ v.bytes = name
      BY <1>3 DEF Text
    <2>3. v \in ValueTypes
      BY <1>3, <2>1 DEF Text, ValueTypes
    <2> QED BY <2>1, <2>2, <2>3 DEF WellFormed, Readable, Scalars, Widths
  <1> QED BY <1>1, <1>2, <1>3 DEF Sendable

\* The frames of the writer.
Nodes  == {v \in [t : {"sequence", "list", "map"}, items : Seq(Sendable)] : WellFormed(v)}
Frames == {f \in [v : Nodes, i : Nat] : f.i <= Len(f.v.items)}

\* Each call was made for the item its caller is at; `root` is written.
StackInv(stack, root) ==
    /\ stack \in Seq(Frames) /\ Len(stack) > 0
    /\ stack[1].v = root
    /\ \A j \in 1 .. Len(stack) - 1 :
         /\ stack[j].i < Len(stack[j].v.items)
         /\ stack[j].v.items[stack[j].i + 1] = stack[j + 1].v

WriterInv(w, root) ==
    /\ w = [out |-> w.out, stack |-> w.stack]
    /\ w.out \in Seq(Byte)
    /\ StackInv(w.stack, root)

\* The reader's call where the writer had this one.
Mirrored(frame) ==
    [v    |-> [t |-> frame.v.t, items |-> SubSeq(frame.v.items, 1, frame.i)],
     left |-> Len(frame.v.items) - frame.i]

MirrorStack(stack) == [j \in 1 .. Len(stack) |-> Mirrored(stack[j])]

\* The reader of `wire` that has read what w has written.
Mirror(w, wire) ==
    [in    |-> [bytes |-> wire, location |-> Len(w.out)],
     stack |-> MirrorStack(w.stack)]

\* One more item of a sequence.
LEMMA OneMoreItem ==
    ASSUME NEW S, NEW s \in Seq(S), NEW i \in Nat, i < Len(s)
    PROVE  /\ SubSeq(s, 1, i) \in Seq(S) /\ Len(SubSeq(s, 1, i)) = i
           /\ \A k \in 1 .. i : SubSeq(s, 1, i)[k] = s[k]
           /\ Append(SubSeq(s, 1, i), s[i + 1]) = SubSeq(s, 1, i + 1)
  OBVIOUS

LEMMA WholeSequence ==
    ASSUME NEW S, NEW s \in Seq(S), NEW i, i = Len(s)
    PROVE  SubSeq(s, 1, i) = s
  OBVIOUS

LEMMA OddRest ==
    ASSUME NEW n \in Nat, NEW i \in Nat, i < n, n % 2 = 0, (n - i) % 2 = 1
    PROVE  i % 2 = 1
  OBVIOUS

\* An item the reader adds is the writer's next; a key of a map is new.
LEMMA AddMirrors ==
    ASSUME NEW frame \in Frames, frame.i < Len(frame.v.items)
    PROVE  /\ [frame EXCEPT !.i = @ + 1] \in Frames
           /\ AddItem(Mirrored(frame), frame.v.items[frame.i + 1])
                = Mirrored([frame EXCEPT !.i = @ + 1])
  <1>1. PICK items \in Seq(Sendable), i \in Nat :
          items = frame.v.items /\ i = frame.i /\ i < Len(items)
    BY DEF Frames, Nodes
  <1>2. frame.v = [t |-> frame.v.t, items |-> items] /\ frame = [v |-> frame.v, i |-> i]
    BY <1>1 DEF Frames, Nodes
  <1>3. [frame EXCEPT !.i = @ + 1] = [v |-> frame.v, i |-> i + 1]
    BY <1>2
  <1>4. [frame EXCEPT !.i = @ + 1] \in Frames
    <2>1. [v |-> frame.v, i |-> i + 1] \in [v : Nodes, i : Nat] /\ i + 1 <= Len(items)
      BY <1>1 DEF Frames
    <2> QED BY <1>1, <1>3, <2>1 DEF Frames
  <1>5. PICK got \in Seq(Sendable) :
          /\ got = SubSeq(items, 1, i) /\ Len(got) = i
          /\ \A k \in 1 .. i : got[k] = items[k]
          /\ Append(got, items[i + 1]) = SubSeq(items, 1, i + 1)
    BY <1>1, OneMoreItem
  <1>6. Mirrored(frame) = [v |-> [t |-> frame.v.t, items |-> got], left |-> Len(items) - i]
    BY <1>1, <1>5 DEF Mirrored
  <1>7. Mirrored([v |-> frame.v, i |-> i + 1])
          = [v    |-> [t |-> frame.v.t, items |-> Append(got, items[i + 1])],
             left |-> Len(items) - (i + 1)]
    BY <1>1, <1>5 DEF Mirrored
  <1>8. (Len(items) - i) - 1 = Len(items) - (i + 1)
    BY <1>1
  <1>9. ASSUME frame.v.t = "map", (Len(items) - i) % 2 = 1
        PROVE  Emplace(got, items[i + 1]) = Append(got, items[i + 1])
    <2>1. /\ Len(items) % 2 = 0
          /\ \A j, k \in DOMAIN items :
               j % 2 = 1 /\ k % 2 = 1 /\ items[j] = items[k] => j = k
      BY <1>1, <1>9 DEF Frames, Nodes, WellFormed
    <2>2. Len(items) \in Nat /\ DOMAIN items = 1 .. Len(items)
      BY <1>1
    <2>3. i % 2 = 1
      BY <1>1, <1>9, <2>1, <2>2, OddRest
    <2>4. ASSUME NEW k \in 1 .. i - 1, k % 2 = 1, got[k] = got[i]
          PROVE  FALSE
      <3>1. i \in 1 .. Len(items) /\ k \in 1 .. Len(items) /\ k # i /\ i \in 1 .. i /\ k \in 1 .. i
        BY <1>1, <2>2, <2>3, <2>4, SMTT(60)
      <3>2. items[k] = items[i]
        BY <1>5, <2>4, <3>1
      <3> QED BY <2>1, <2>2, <2>3, <2>4, <3>1, <3>2
    <2> QED BY <1>5, <2>4 DEF Emplace
  <1>10. AddItem(Mirrored(frame), items[i + 1])
          = [v    |-> [t |-> frame.v.t, items |-> Append(got, items[i + 1])],
             left |-> (Len(items) - i) - 1]
    <2>1. PICK f : f = Mirrored(frame)
      OBVIOUS
    <2>2. PICK item : item = items[i + 1]
      OBVIOUS
    <2>3. f.v = [t |-> frame.v.t, items |-> got] /\ f.left = Len(items) - i
      BY <1>6, <2>1
    <2>4. (IF f.v.t = "map" /\ f.left % 2 = 1 THEN Emplace(got, item) ELSE Append(got, item))
            = Append(got, item)
      BY <1>9, <2>2, <2>3
    <2>5. f.v.t = frame.v.t /\ f.v.items = got
      BY <2>3
    <2>6. AddItem(f, item)
            = [v    |-> [t |-> f.v.t, items |-> Append(got, item)],
               left |-> f.left - 1]
      <3>1. (f.v.t = "map" /\ f.left % 2 = 1) => Emplace(f.v.items, item) = Append(got, item)
        BY <2>4, <2>5
      <3>2. CASE f.v.t = "map" /\ f.left % 2 = 1
        BY <2>5, <3>1, <3>2 DEF AddItem
      <3>3. CASE ~(f.v.t = "map" /\ f.left % 2 = 1)
        BY <2>5, <3>3 DEF AddItem
      <3> QED BY <3>2, <3>3
    <2> QED BY <2>1, <2>2, <2>3, <2>5, <2>6
  <1> QED BY <1>1, <1>3, <1>4, <1>7, <1>8, <1>10

\* The stack with one frame more, less or changed.
LEMMA Appended ==
    ASSUME NEW S, NEW s \in Seq(S), NEW e \in S
    PROVE  /\ Append(s, e) \in Seq(S) /\ Len(Append(s, e)) = Len(s) + 1
           /\ Append(s, e)[Len(s) + 1] = e
           /\ \A j \in 1 .. Len(s) : Append(s, e)[j] = s[j]
  OBVIOUS

LEMMA Popped ==
    ASSUME NEW S, NEW s \in Seq(S), Len(s) > 1
    PROVE  /\ Pop(s) \in Seq(S) /\ Len(Pop(s)) = Len(s) - 1
           /\ \A j \in 1 .. Len(s) - 1 : Pop(s)[j] = s[j]
  BY DEF Pop

LEMMA Replaced ==
    ASSUME NEW n \in Nat, NEW m, m = [j \in 1 .. n |-> m[j]], NEW e, n > 0
    PROVE  /\ Len(m) = n
           /\ [m EXCEPT ![n] = e] = [j \in 1 .. n |-> IF j = n THEN e ELSE m[j]]
  OBVIOUS

\* A call is made for the item its caller is at.
LEMMA Push ==
    ASSUME NEW root, NEW stack, StackInv(stack, root), NEW f \in Frames,
           Top(stack).i < Len(Top(stack).v.items),
           Top(stack).v.items[Top(stack).i + 1] = f.v
    PROVE  /\ StackInv(Append(stack, f), root)
           /\ MirrorStack(Append(stack, f)) = Append(MirrorStack(stack), Mirrored(f))
  <1>1. PICK n \in Nat : n = Len(stack) /\ n > 0
    BY DEF StackInv
  <1>2. PICK more \in Seq(Frames) :
          /\ more = Append(stack, f)
          /\ Len(more) = n + 1 /\ more[n + 1] = f
          /\ \A j \in 1 .. n : more[j] = stack[j]
    <2>1. stack \in Seq(Frames)
      BY DEF StackInv
    <2>2. /\ Append(stack, f) \in Seq(Frames)
          /\ Len(Append(stack, f)) = n + 1 /\ Append(stack, f)[n + 1] = f
          /\ \A j \in 1 .. n : Append(stack, f)[j] = stack[j]
      <3>1. /\ Append(stack, f) \in Seq(Frames) /\ Len(Append(stack, f)) = Len(stack) + 1
            /\ Append(stack, f)[Len(stack) + 1] = f
            /\ \A j \in 1 .. Len(stack) : Append(stack, f)[j] = stack[j]
        BY <2>1, Appended, ZenonT(60)
      <3> QED BY <1>1, <3>1, ZenonT(60)
    <2> QED BY <2>2
  <1>3. StackInv(more, root)
    <2>1. more[1].v = root
      BY <1>1, <1>2 DEF StackInv
    <2>2. ASSUME NEW j \in 1 .. n
          PROVE  more[j].i < Len(more[j].v.items) /\ more[j].v.items[more[j].i + 1] = more[j + 1].v
      <3>1. CASE j = n
        BY <1>1, <1>2, <3>1 DEF Top
      <3>2. CASE j # n
        <4>1. j \in 1 .. n - 1 /\ j + 1 \in 1 .. n
          BY <1>1, <3>2
        <4> QED BY <1>1, <1>2, <4>1 DEF StackInv
      <3> QED BY <3>1, <3>2
    <2> QED BY <1>1, <1>2, <2>1, <2>2 DEF StackInv
  <1>4. MirrorStack(more) = Append(MirrorStack(stack), Mirrored(f))
    <2>1. PICK m : m = MirrorStack(stack) /\ m = [j \in 1 .. n |-> Mirrored(stack[j])]
      BY <1>1 DEF MirrorStack
    <2>2. Append(m, Mirrored(f)) = [j \in 1 .. n + 1 |-> IF j = n + 1 THEN Mirrored(f) ELSE m[j]]
      BY <1>1, <2>1
    <2>3. \A j \in 1 .. n + 1 :
            Mirrored(more[j]) = IF j = n + 1 THEN Mirrored(f) ELSE m[j]
      BY <1>1, <1>2, <2>1
    <2> QED BY <1>2, <2>1, <2>2, <2>3 DEF MirrorStack
  <1> QED BY <1>2, <1>3, <1>4

\* The last call is done with the item it is at.
LEMMA Step ==
    ASSUME NEW root, NEW stack, StackInv(stack, root),
           Top(stack).i < Len(Top(stack).v.items)
    PROVE  /\ StackInv(OneMore(stack), root)
           /\ MirrorStack(OneMore(stack))
                = Receive(MirrorStack(stack), Top(stack).v.items[Top(stack).i + 1])
  <1>1. PICK n \in Nat : n = Len(stack) /\ n > 0
    BY DEF StackInv
  <1>2. PICK f \in Frames : f = stack[n] /\ f = Top(stack)
    BY <1>1 DEF StackInv, Top
  <1>3. PICK g : g = [f EXCEPT !.i = @ + 1]
    OBVIOUS
  <1>4. g \in Frames /\ AddItem(Mirrored(f), f.v.items[f.i + 1]) = Mirrored(g)
    BY <1>2, <1>3, AddMirrors
  <1>5. g.v = f.v
    BY <1>2, <1>3 DEF Frames
  <1>6. PICK more \in Seq(Frames) :
          /\ more = OneMore(stack)
          /\ Len(more) = n /\ more[n] = g
          /\ \A j \in 1 .. n - 1 : more[j] = stack[j]
    <2>1. OneMore(stack) = [stack EXCEPT ![n] = g]
      BY <1>1, <1>2, <1>3 DEF OneMore
    <2>2. stack \in Seq(Frames)
      BY DEF StackInv
    <2> QED BY <1>1, <1>4, <2>1, <2>2, SMTT(60)
  <1>7. StackInv(more, root)
    <2>1. more[1].v = root
      <3>1. CASE n = 1
        BY <1>1, <1>2, <1>5, <1>6, <3>1 DEF StackInv
      <3>2. CASE n # 1
        BY <1>1, <1>6, <3>2 DEF StackInv
      <3> QED BY <3>1, <3>2
    <2>2. ASSUME NEW j \in 1 .. n - 1
          PROVE  more[j].i < Len(more[j].v.items) /\ more[j].v.items[more[j].i + 1] = more[j + 1].v
      <3>1. stack[j].i < Len(stack[j].v.items) /\ stack[j].v.items[stack[j].i + 1] = stack[j + 1].v
        BY <1>1 DEF StackInv
      <3>2. more[j] = stack[j] /\ more[j + 1].v = stack[j + 1].v
        <4>1. CASE j + 1 = n
          BY <1>1, <1>2, <1>5, <1>6, <4>1
        <4>2. CASE j + 1 # n
          BY <1>1, <1>6, <4>2
        <4> QED BY <4>1, <4>2
      <3> QED BY <3>1, <3>2
    <2> QED BY <1>1, <1>6, <2>1, <2>2 DEF StackInv
  <1>8. MirrorStack(more) = Receive(MirrorStack(stack), f.v.items[f.i + 1])
    <2>1. PICK m : m = MirrorStack(stack) /\ m = [j \in 1 .. n |-> Mirrored(stack[j])]
      BY <1>1 DEF MirrorStack
    <2>2. Len(m) = n /\ m[n] = Mirrored(f)
      <3>1. m = [j \in 1 .. n |-> m[j]] /\ n \in 1 .. n
        BY <1>1, <2>1
      <3> QED BY <1>1, <1>2, <2>1, <3>1, Replaced
    <2>3. Receive(m, f.v.items[f.i + 1]) = [m EXCEPT ![n] = Mirrored(g)]
      BY <1>4, <2>2 DEF Receive
    <2>4. [m EXCEPT ![n] = Mirrored(g)] = [j \in 1 .. n |-> Mirrored(more[j])]
      <3>1. m = [j \in 1 .. n |-> m[j]]
        BY <2>1
      <3>2. [m EXCEPT ![n] = Mirrored(g)] = [j \in 1 .. n |-> IF j = n THEN Mirrored(g) ELSE m[j]]
        BY <1>1, <3>1, Replaced
      <3>3. \A j \in 1 .. n : Mirrored(more[j]) = IF j = n THEN Mirrored(g) ELSE m[j]
        BY <1>1, <1>6, <2>1
      <3> QED BY <3>2, <3>3
    <2> QED BY <1>6, <2>1, <2>3, <2>4 DEF MirrorStack
  <1> QED BY <1>2, <1>6, <1>7, <1>8

\* The last call returns to its caller, which was made for its value.
LEMMA Return ==
    ASSUME NEW root, NEW stack, StackInv(stack, root), Len(stack) > 1
    PROVE  /\ StackInv(Pop(stack), root)
           /\ MirrorStack(Pop(stack)) = Pop(MirrorStack(stack))
           /\ Top(Pop(stack)).i < Len(Top(Pop(stack)).v.items)
           /\ Top(Pop(stack)).v.items[Top(Pop(stack)).i + 1] = Top(stack).v
  <1>1. PICK n \in Nat : n = Len(stack) /\ n > 1
    BY DEF StackInv
  <1>2. PICK less \in Seq(Frames) :
          /\ less = Pop(stack)
          /\ Len(less) = n - 1
          /\ \A j \in 1 .. n - 1 : less[j] = stack[j]
    BY <1>1, Popped DEF StackInv
  <1>3. \A j \in 1 .. n - 1 :
          stack[j].i < Len(stack[j].v.items) /\ stack[j].v.items[stack[j].i + 1] = stack[j + 1].v
    BY <1>1 DEF StackInv
  <1>4. StackInv(less, root)
    <2>1. less[1].v = root
      BY <1>1, <1>2 DEF StackInv
    <2>2. ASSUME NEW j \in 1 .. (n - 1) - 1
          PROVE  less[j].i < Len(less[j].v.items) /\ less[j].v.items[less[j].i + 1] = less[j + 1].v
      <3>1. j \in 1 .. n - 1 /\ j + 1 \in 1 .. n - 1
        BY <1>1
      <3> QED BY <1>2, <1>3, <3>1
    <2> QED BY <1>1, <1>2, <2>1, <2>2 DEF StackInv
  <1>5. Top(less) = stack[n - 1] /\ Top(stack) = stack[n]
    BY <1>1, <1>2 DEF Top
  <1>6. MirrorStack(less) = Pop(MirrorStack(stack))
    <2>1. PICK m : m = MirrorStack(stack) /\ m = [j \in 1 .. n |-> Mirrored(stack[j])]
      BY <1>1 DEF MirrorStack
    <2>2. Pop(m) = [j \in 1 .. n - 1 |-> m[j]]
      BY <1>1, <2>1 DEF Pop
    <2>3. \A j \in 1 .. n - 1 : m[j] = Mirrored(less[j])
      BY <1>1, <1>2, <2>1
    <2> QED BY <1>2, <2>1, <2>2, <2>3 DEF MirrorStack
  <1>7. n - 1 \in 1 .. n - 1 /\ (n - 1) + 1 = n
    BY <1>1
  <1> QED BY <1>2, <1>3, <1>4, <1>5, <1>6, <1>7

\* The item a call is at: it can be sent, and its frame is one of Frames.
LEMMA ItemAt ==
    ASSUME AllReadable, NEW root, NEW stack, StackInv(stack, root),
           NEW item, item = Top(stack).v.items[Top(stack).i + 1],
           Top(stack).i # Len(Top(stack).v.items)
    PROVE  /\ Top(stack).i < Len(Top(stack).v.items)
           /\ item \in ValueTypes /\ WellFormed(item) /\ Readable(item)
           /\ item.t \in {"list", "map"} =>
                /\ item = [t |-> item.t, items |-> item.items]
                /\ item.items \in Seq(Sendable)
                /\ [v |-> item, i |-> 0] \in Frames
  <1>1. PICK f \in Frames : f = Top(stack)
    BY DEF StackInv, Top
  <1>2. f.i \in Nat /\ f.i <= Len(f.v.items) /\ f.v.items \in Seq(Sendable)
    BY DEF Frames, Nodes
  <1>3. f.i < Len(f.v.items) /\ item \in Sendable
    BY <1>1, <1>2
  <1>4. item \in ValueTypes /\ WellFormed(item) /\ Readable(item)
    BY <1>3, SendableIsReadable
  <1>5. ASSUME item.t \in {"list", "map"}
        PROVE  /\ item = [t |-> item.t, items |-> item.items]
               /\ item.items \in Seq(Sendable)
               /\ [v |-> item, i |-> 0] \in Frames
    <2>1. item = [t |-> item.t, items |-> item.items] /\ item.items \in Seq(Values)
      BY <1>4, <1>5 DEF ValueTypes, Scalars, Widths
    <2>2. item.items \in Seq(Sendable)
      BY <2>1 DEF Sendable
    <2>3. item \in Nodes
      BY <1>4, <1>5, <2>1, <2>2 DEF Nodes
    <2>4. [v |-> item, i |-> 0] \in Frames
      <3>1. PICK s \in Seq(Values) : s = item.items
        BY <2>1
      <3>2. 0 \in Nat /\ 0 <= Len(s)
        OBVIOUS
      <3> QED BY <2>3, <3>1, <3>2 DEF Frames
    <2> QED BY <2>1, <2>2, <2>4
  <1> QED BY <1>1, <1>3, <1>4, <1>5

\* A step of the writer keeps its calls in order and only appends; the step
\* of the reader that stands where the writer stood gets it there, too.
LEMMA ReadFollows ==
    ASSUME AllReadable, NEW root, NEW w, WriterInv(w, root), ~Written(w)
    PROVE  /\ WriterInv(WriteValue(w), root)
           /\ Extends(WriteValue(w).out, w.out)
           /\ \A wire \in Seq(Byte) : Extends(wire, WriteValue(w).out) =>
                ReadValue(Mirror(w, wire)) = Mirror(WriteValue(w), wire)
  <1>1. PICK out \in Seq(Byte), stack \in Seq(Frames) :
          w = [out |-> out, stack |-> stack] /\ StackInv(stack, root)
    BY DEF WriterInv, StackInv
  <1>2. PICK n \in Nat : n = Len(stack) /\ n > 0 /\ stack \in Seq(Frames)
    BY <1>1 DEF StackInv
  <1>3. PICK frame \in Frames : frame = Top(stack) /\ frame = stack[n]
    BY <1>2 DEF Top
  <1>4. /\ frame.v.items \in Seq(Sendable) /\ frame.i \in Nat
        /\ frame.v = [t |-> frame.v.t, items |-> frame.v.items]
    BY DEF Frames, Nodes
  <1>5. ASSUME NEW wire
        PROVE  /\ Mirror(w, wire)
                    = [in |-> [bytes |-> wire, location |-> Len(out)], stack |-> MirrorStack(stack)]
               /\ Top(MirrorStack(stack)) = Mirrored(frame)
               /\ Mirrored(frame).left = Len(frame.v.items) - frame.i
    <2>1. MirrorStack(stack) = [j \in 1 .. n |-> Mirrored(stack[j])]
      BY <1>2 DEF MirrorStack
    <2>2. Len(MirrorStack(stack)) = n /\ MirrorStack(stack)[n] = Mirrored(frame)
      <3>1. PICK m : m = MirrorStack(stack)
        OBVIOUS
      <3>2. m = [j \in 1 .. n |-> m[j]] /\ m[n] = Mirrored(stack[n])
        BY <1>2, <2>1, <3>1
      <3> QED BY <1>2, <1>3, <3>1, <3>2, Replaced
    <2> QED BY <1>1, <2>2 DEF Mirror, Top, Mirrored
  <1>6. CASE frame.i = Len(frame.v.items)
    <2>1. Len(stack) > 1
      BY <1>1, <1>2, <1>3, <1>6 DEF Written, Top
    <2>2. PICK w2 : w2 = WriteValue(w) /\ w2 = [out |-> out, stack |-> OneMore(Pop(stack))]
      BY <1>1, <1>3, <1>6 DEF WriteValue
    <2>3. PICK less : less = Pop(stack)
      OBVIOUS
    <2>4. /\ StackInv(less, root) /\ MirrorStack(less) = Pop(MirrorStack(stack))
          /\ Top(less).i < Len(Top(less).v.items)
          /\ Top(less).v.items[Top(less).i + 1] = frame.v
      BY <1>1, <1>3, <2>1, <2>3, Return
    <2>5. /\ StackInv(OneMore(less), root)
          /\ MirrorStack(OneMore(less)) = Receive(MirrorStack(less), frame.v)
      BY <2>4, Step
    <2>6. WriterInv(w2, root)
      BY <2>2, <2>3, <2>5 DEF WriterInv
    <2>7. Extends(w2.out, w.out)
      BY <1>1, <2>2, ExtendsItself
    <2>8. ASSUME NEW wire \in Seq(Byte)
          PROVE  ReadValue(Mirror(w, wire)) = Mirror(w2, wire)
      <3>1. Mirrored(frame).left = 0 /\ Mirrored(frame).v = frame.v
        <4>1. SubSeq(frame.v.items, 1, frame.i) = frame.v.items
          BY <1>4, <1>6, WholeSequence
        <4>2. Mirrored(frame) = [v |-> [t |-> frame.v.t, items |-> frame.v.items], left |-> 0]
          <5>1. Len(frame.v.items) - frame.i = 0
            BY <1>4, <1>6
          <5> QED BY <4>1, <5>1, Zenon DEF Mirrored
        <4>3. Mirrored(frame) = [v |-> frame.v, left |-> 0]
          BY <1>4, <4>2, Zenon
        <4> QED BY <4>3
      <3>2. PICK r : r = Mirror(w, wire)
        OBVIOUS
      <3>3. PICK stack2 : stack2 = MirrorStack(OneMore(less))
        OBVIOUS
      <3>4. r = [in |-> [bytes |-> wire, location |-> Len(out)], stack |-> MirrorStack(stack)]
        BY <1>5, <3>2
      <3>5. Receive(Pop(r.stack), Top(r.stack).v) = stack2 /\ Top(r.stack).left = 0
        BY <1>5, <2>4, <2>5, <3>1, <3>3, <3>4
      <3>6. ReadValue(r) = [in |-> r.in, stack |-> stack2]
        BY <3>4, <3>5 DEF ReadValue
      <3>7. Mirror(w2, wire) = [in |-> [bytes |-> wire, location |-> Len(out)], stack |-> stack2]
        BY <2>2, <2>3, <3>3 DEF Mirror
      <3> QED BY <3>2, <3>4, <3>6, <3>7
    <2> QED BY <2>2, <2>6, <2>7, <2>8
  <1>7. CASE frame.i # Len(frame.v.items)
    <2>1. PICK item : item = frame.v.items[frame.i + 1]
      OBVIOUS
    <2>2. /\ frame.i < Len(frame.v.items)
          /\ item \in ValueTypes /\ WellFormed(item) /\ Readable(item)
          /\ item.t \in {"list", "map"} =>
               /\ item = [t |-> item.t, items |-> item.items]
               /\ item.items \in Seq(Sendable)
               /\ [v |-> item, i |-> 0] \in Frames
      BY <1>1, <1>3, <1>7, <2>1, ItemAt
    <2>3. PICK out2 \in Seq(Byte) :
            /\ out2 = WriteHead(item, out) /\ Extends(out2, out)
            /\ \A rest \in Seq(Byte) : HeadIsRead(item, out, out2, rest)
      <3>1. << >> \in Seq(Byte)
        OBVIOUS
      <3> QED BY <2>2, <3>1, HeadBack
    <2>4. ASSUME NEW wire \in Seq(Byte), Extends(wire, out2)
          PROVE  ReadHead([bytes |-> wire, location |-> Len(out)])
                   = [v |-> Opening(item), left |-> Left(item),
                      in |-> [bytes |-> wire, location |-> Len(out2)]]
      <3>1. PICK rest \in Seq(Byte) : wire = out2 \o rest
        BY <2>4 DEF Extends
      <3>2. HeadIsRead(item, out, out2, rest)
        BY <2>3
      <3> QED BY <3>1, <3>2 DEF HeadIsRead, At
    <2>5. CASE HasItems(item)
      <3>1. PICK f : f = [v |-> item, i |-> 0]
        OBVIOUS
      <3>2. f \in Frames /\ f.v = item
        BY <2>2, <2>5, <3>1 DEF HasItems
      <3>3. PICK w2 : w2 = WriteValue(w) /\ w2 = [out |-> out2, stack |-> Append(stack, f)]
        BY <1>1, <1>3, <1>7, <2>1, <2>3, <2>5, <3>1 DEF WriteValue
      <3>4. /\ StackInv(Append(stack, f), root)
            /\ MirrorStack(Append(stack, f)) = Append(MirrorStack(stack), Mirrored(f))
        BY <1>1, <1>3, <2>1, <2>2, <3>2, Push
      <3>5. WriterInv(w2, root)
        BY <3>3, <3>4 DEF WriterInv
      <3>6. ASSUME NEW wire \in Seq(Byte), Extends(wire, w2.out)
            PROVE  ReadValue(Mirror(w, wire)) = Mirror(w2, wire)
        <4>1. PICK r : r = Mirror(w, wire)
          OBVIOUS
        <4>2. /\ Left(item) > 0 /\ Left(item) = Len(item.items)
              /\ Opening(item) = [t |-> item.t, items |-> << >>]
          BY <2>2, <2>5 DEF HasItems, Left, Opening
        <4>3. Top(r.stack).left # 0
          BY <1>4, <1>5, <1>7, <2>2, <4>1
        <4>4. ReadHead(r.in)
                = [v |-> Opening(item), left |-> Left(item),
                   in |-> [bytes |-> wire, location |-> Len(out2)]]
          BY <1>5, <2>4, <3>3, <3>6, <4>1
        <4>5. Mirrored(f) = [v |-> Opening(item), left |-> Left(item)]
          <5>1. SubSeq(item.items, 1, 0) = << >> /\ Len(item.items) - 0 = Len(item.items)
            BY <2>2, <2>5 DEF HasItems
          <5> QED BY <3>1, <4>2, <5>1 DEF Mirrored
        <4>6. ReadHead(r.in).left # 0
          BY <4>2, <4>4
        <4>7. PICK m : m = Mirrored(f)
          OBVIOUS
        <4>8. [v |-> ReadHead(r.in).v, left |-> ReadHead(r.in).left] = m
          BY <4>4, <4>5, <4>7
        <4>9. ReadValue(r) = [in |-> ReadHead(r.in).in, stack |-> Append(r.stack, m)]
          BY <4>3, <4>6, <4>8 DEF ReadValue
        <4>10. r.stack = MirrorStack(stack)
          BY <1>5, <4>1
        <4>11. PICK more : more = Append(stack, f) /\ MirrorStack(more) = Append(r.stack, m)
          BY <3>4, <4>7, <4>10
        <4>12. Mirror(w2, wire)
                 = [in |-> [bytes |-> wire, location |-> Len(out2)], stack |-> MirrorStack(more)]
          <5>1. w2.out = out2 /\ w2.stack = more
            BY <3>3, <4>11
          <5> QED BY <5>1, Zenon DEF Mirror
        <4>13. ReadHead(r.in).in = [bytes |-> wire, location |-> Len(out2)]
          BY <4>4
        <4> QED BY <4>1, <4>9, <4>11, <4>12, <4>13
      <3> QED BY <1>1, <2>3, <3>3, <3>5, <3>6
    <2>6. CASE ~HasItems(item)
      <3>1. PICK w2 : w2 = WriteValue(w) /\ w2 = [out |-> out2, stack |-> OneMore(stack)]
        BY <1>1, <1>3, <1>7, <2>1, <2>3, <2>6 DEF WriteValue
      <3>2. /\ StackInv(OneMore(stack), root)
            /\ MirrorStack(OneMore(stack)) = Receive(MirrorStack(stack), item)
        BY <1>1, <1>3, <2>1, <2>2, Step
      <3>3. WriterInv(w2, root)
        BY <3>1, <3>2 DEF WriterInv
      <3>4. ASSUME NEW wire \in Seq(Byte), Extends(wire, w2.out)
            PROVE  ReadValue(Mirror(w, wire)) = Mirror(w2, wire)
        <4>1. PICK r : r = Mirror(w, wire)
          OBVIOUS
        <4>2. Left(item) = 0 /\ Opening(item) = item
          <5>1. CASE item.t \in {"list", "map"}
            <6>1. item.items = << >>
              BY <2>6, <5>1 DEF HasItems
            <6> QED BY <2>2, <5>1, <6>1 DEF Left, Opening
          <5>2. CASE item.t \notin {"list", "map"}
            BY <5>2 DEF Left, Opening
          <5> QED BY <5>1, <5>2
        <4>3. Top(r.stack).left # 0
          BY <1>4, <1>5, <1>7, <2>2, <4>1
        <4>4. ReadHead(r.in)
                = [v |-> item, left |-> 0, in |-> [bytes |-> wire, location |-> Len(out2)]]
          BY <1>5, <2>4, <3>1, <3>4, <4>1, <4>2
        <4>5. /\ ReadHead(r.in).left = 0 /\ ReadHead(r.in).v = item
              /\ ReadHead(r.in).in = [bytes |-> wire, location |-> Len(out2)]
          BY <4>4
        <4>6. r.stack = MirrorStack(stack)
          BY <1>5, <4>1
        <4>7. PICK stack2 : stack2 = MirrorStack(OneMore(stack)) /\ stack2 = Receive(r.stack, item)
          BY <3>2, <4>6
        <4>8. ReadValue(r) = [in |-> ReadHead(r.in).in, stack |-> stack2]
          BY <4>3, <4>5, <4>7 DEF ReadValue
        <4>9. Mirror(w2, wire)
                = [in |-> [bytes |-> wire, location |-> Len(out2)], stack |-> stack2]
          <5>1. w2.out = out2 /\ w2.stack = OneMore(stack)
            BY <3>1
          <5> QED BY <4>7, <5>1, Zenon DEF Mirror
        <4> QED BY <4>1, <4>5, <4>8, <4>9
      <3> QED BY <1>1, <2>3, <3>1, <3>3, <3>4
    <2> QED BY <2>5, <2>6
  <1> QED BY <1>6, <1>7

----------------------------------------------------------------------------
(* What the writer did is the way the reader goes.                         *)

\* The root of what is written.
RootOf(w) == w.stack[1].v

\* The writer's states from its start, n steps of it.  None of them had
\* written everything but perhaps the last, which holds what they wrote.
IsTrace(tr, n, start) ==
    /\ n \in Nat
    /\ tr[0] = start
    /\ \A k \in 0 .. n - 1 : ~Written(tr[k]) /\ tr[k + 1] = WriteValue(tr[k])
    /\ \A k \in 0 .. n : WriterInv(tr[k], RootOf(start)) /\ Extends(tr[n].out, tr[k].out)

LEMMA TraceBegins ==
    ASSUME NEW start, WriterInv(start, RootOf(start))
    PROVE  \E tr : IsTrace(tr, 0, start) /\ tr[0] = start
  <1>1. PICK tr : tr = [k \in 0 .. 0 |-> start]
    OBVIOUS
  <1>2. tr[0] = start
    BY <1>1
  <1>3. Extends(start.out, start.out)
    BY ExtendsItself DEF WriterInv
  <1> QED BY <1>2, <1>3 DEF IsTrace

LEMMA TraceGrows ==
    ASSUME AllReadable, NEW tr, NEW n, NEW start, IsTrace(tr, n, start), ~Written(tr[n])
    PROVE  \E longer :
             IsTrace(longer, n + 1, start) /\ longer[n + 1] = WriteValue(tr[n])
  <1>1. n \in Nat /\ n + 1 \in Nat
    BY DEF IsTrace
  <1>2. PICK last : last = WriteValue(tr[n])
    OBVIOUS
  <1>3. PICK longer : longer = [k \in 0 .. n + 1 |-> IF k = n + 1 THEN last ELSE tr[k]]
    OBVIOUS
  <1>4. longer[n + 1] = last /\ \A k \in 0 .. n : longer[k] = tr[k]
    BY <1>1, <1>3
  <1>5. WriterInv(tr[n], RootOf(start))
    BY <1>1 DEF IsTrace
  <1>6. WriterInv(last, RootOf(start)) /\ Extends(last.out, tr[n].out)
    BY <1>2, <1>5, ReadFollows
  <1>7. longer[0] = start
    BY <1>1, <1>4 DEF IsTrace
  <1>8. ASSUME NEW k \in 0 .. (n + 1) - 1
        PROVE  ~Written(longer[k]) /\ longer[k + 1] = WriteValue(longer[k])
    <2>1. CASE k = n
      BY <1>1, <1>2, <1>4, <2>1
    <2>2. CASE k # n
      <3>1. k \in 0 .. n - 1 /\ k \in 0 .. n /\ k + 1 \in 0 .. n
        BY <1>1, <2>2
      <3> QED BY <1>4, <3>1 DEF IsTrace
    <2> QED BY <2>1, <2>2
  <1>9. ASSUME NEW k \in 0 .. n + 1
        PROVE  WriterInv(longer[k], RootOf(start)) /\ Extends(longer[n + 1].out, longer[k].out)
    <2>1. CASE k = n + 1
      <3>1. Extends(last.out, last.out)
        BY <1>6, ExtendsItself DEF WriterInv
      <3> QED BY <1>4, <1>6, <2>1, <3>1
    <2>2. CASE k # n + 1
      <3>1. k \in 0 .. n
        BY <1>1, <2>2
      <3>2. WriterInv(tr[k], RootOf(start)) /\ Extends(tr[n].out, tr[k].out)
        BY <3>1 DEF IsTrace
      <3>3. last.out \in Seq(Byte) /\ tr[n].out \in Seq(Byte) /\ tr[k].out \in Seq(Byte)
        BY <1>5, <1>6, <3>2 DEF WriterInv
      <3>4. Extends(last.out, tr[k].out)
        BY <1>6, <3>2, <3>3, ExtendsTransitive
      <3> QED BY <1>4, <3>1, <3>2, <3>4
    <2> QED BY <2>1, <2>2
  <1> QED BY <1>1, <1>2, <1>4, <1>7, <1>8, <1>9 DEF IsTrace

\* The reader that mirrors w has read everything when w has written it.
LEMMA AllReadIsWritten ==
    ASSUME NEW root, NEW w, WriterInv(w, root), NEW wire
    PROVE  /\ AllRead(Mirror(w, wire)) <=> Written(w)
           /\ Written(w) => ValuesRead(Mirror(w, wire)) = root.items
           /\ Mirror(w, wire).in.location = Len(w.out)
           /\ Len(Mirror(w, wire).stack) = Len(w.stack)
           /\ w.stack[1].i \in Nat /\ w.stack[1].i <= Len(root.items)
           /\ ValuesRead(Mirror(w, wire)) = SubSeq(root.items, 1, w.stack[1].i)
  <1>1. PICK stack : stack = w.stack /\ StackInv(stack, root)
    BY DEF WriterInv
  <1>2. PICK n \in Nat : n = Len(stack) /\ n > 0 /\ stack \in Seq(Frames)
    BY <1>1 DEF StackInv
  <1>3. PICK f \in Frames : f = stack[1] /\ f.v = root
    BY <1>1, <1>2 DEF StackInv
  <1>4. PICK items \in Seq(Sendable), i \in Nat : items = root.items /\ i = f.i /\ i <= Len(items)
    BY <1>3 DEF Frames, Nodes
  <1>5. PICK m : m = MirrorStack(stack)
    OBVIOUS
  <1>6. m = [j \in 1 .. n |-> Mirrored(stack[j])]
    BY <1>2, <1>5 DEF MirrorStack
  <1>7. Len(m) = n /\ m[1] = Mirrored(f)
    <2>1. m = [j \in 1 .. n |-> m[j]]
      BY <1>6
    <2> QED BY <1>2, <1>3, <1>6, <2>1, Replaced
  <1>8. Mirrored(f) = [v |-> [t |-> root.t, items |-> SubSeq(items, 1, i)], left |-> Len(items) - i]
    BY <1>3, <1>4 DEF Mirrored
  <1>9. m[1].left = Len(items) - i /\ m[1].v.items = SubSeq(items, 1, i)
    BY <1>7, <1>8
  <1>10. Mirror(w, wire).stack = m /\ Mirror(w, wire).in.location = Len(w.out)
    BY <1>1, <1>5 DEF Mirror
  <1>11. AllRead(Mirror(w, wire)) <=> n = 1 /\ i = Len(items)
    <2>1. PICK r : r = Mirror(w, wire)
      OBVIOUS
    <2>2. AllRead(r) <=> Len(m) = 1 /\ m[1].left = 0
      BY <1>10, <2>1 DEF AllRead
    <2>3. Len(items) - i = 0 <=> i = Len(items)
      BY <1>4
    <2> QED BY <1>7, <1>9, <2>1, <2>2, <2>3
  <1>12. Written(w) <=> n = 1 /\ i = Len(items)
    BY <1>1, <1>2, <1>3, <1>4 DEF Written, Top
  <1>13. SubSeq(items, 1, Len(items)) = items
    BY <1>4
  <1>14. ValuesRead(Mirror(w, wire)) = SubSeq(items, 1, i)
    BY <1>9, <1>10 DEF ValuesRead
  <1> QED BY <1>1, <1>2, <1>3, <1>4, <1>7, <1>10, <1>11, <1>12, <1>13, <1>14

\* A reader on the way of a writer that is done gets one step further, or
\* is done, too.
LEMMA ReadsOn ==
    ASSUME AllReadable, NEW tr, NEW n, NEW start, IsTrace(tr, n, start), Written(tr[n]),
           NEW k \in 0 .. n, NEW r, r = Mirror(tr[k], tr[n].out)
    PROVE  /\ ~AllRead(r) => k + 1 \in 0 .. n /\ ReadValue(r) = Mirror(tr[k + 1], tr[n].out)
           /\ AllRead(r) => /\ ValuesRead(r) = RootOf(start).items
                            /\ r.in.location = Len(tr[n].out)
  <1>1. n \in Nat
    BY DEF IsTrace
  <1>2. WriterInv(tr[k], RootOf(start)) /\ WriterInv(tr[n], RootOf(start))
    BY <1>1 DEF IsTrace
  <1>3. AllRead(r) <=> Written(tr[k])
    BY <1>2, AllReadIsWritten
  <1>4. ASSUME ~AllRead(r)
        PROVE  k + 1 \in 0 .. n /\ ReadValue(r) = Mirror(tr[k + 1], tr[n].out)
    <2>1. k # n
      BY <1>3, <1>4
    <2>2. k \in 0 .. n - 1 /\ k + 1 \in 0 .. n
      BY <1>1, <2>1
    <2>3. tr[k + 1] = WriteValue(tr[k]) /\ Extends(tr[n].out, tr[k + 1].out)
      BY <2>2 DEF IsTrace
    <2>4. tr[n].out \in Seq(Byte)
      BY <1>2 DEF WriterInv
    <2> QED BY <1>2, <1>3, <1>4, <2>2, <2>3, <2>4, ReadFollows
  <1>5. ASSUME AllRead(r)
        PROVE  ValuesRead(r) = RootOf(start).items /\ r.in.location = Len(tr[n].out)
    <2>1. k = n
      <3>1. CASE k \in 0 .. n - 1
        BY <1>3, <1>5, <3>1 DEF IsTrace
      <3> QED BY <1>1, <3>1
    <2> QED BY <1>2, <1>3, <1>5, <2>1, AllReadIsWritten
  <1> QED BY <1>4, <1>5

----------------------------------------------------------------------------
(* Calls, replies and messages.                                            *)

Calls    == [method : Names, arguments : Arguments]
Successes == {Success(value) : value \in Arguments}
Errors   == {Error(code, text, details) : code \in Names, text \in Names, details \in Arguments}
Results  == {NotImplemented} \cup Successes \cup Errors

\* Whatever is absent is written as null.
LEMMA OrNullIsSendable ==
    ASSUME NEW v \in Arguments
    PROVE  OrNull(v) \in Sendable
  BY DEF Arguments, OrNull, Sendable

\* Short sequences.
LEMMA FewItems ==
    ASSUME NEW S, NEW a \in S, NEW b \in S, NEW c \in S
    PROVE  /\ <<a>> \in Seq(S) /\ Len(<<a>>) = 1 /\ <<a>>[1] = a
           /\ <<a, b>> \in Seq(S) /\ Len(<<a, b>>) = 2 /\ <<a, b>>[1] = a
           /\ <<a, b, c>> \in Seq(S) /\ Len(<<a, b, c>>) = 3
  OBVIOUS

ReaderAt(wire, location) == [bytes |-> wire, location |-> location]

\* What a loop over values starts with, on both sides.
LEMMA WritingStarts ==
    ASSUME NEW bytes \in Seq(Byte), NEW values \in Seq(Sendable)
    PROVE  /\ WriterInv(Writing(bytes, values), Sequence(values))
           /\ RootOf(Writing(bytes, values)) = Sequence(values)
           /\ Sequence(values).items = values
           /\ Writing(bytes, values).out = bytes
           /\ Written(Writing(bytes, values)) <=> values = << >>
           /\ \A wire : Mirror(Writing(bytes, values), wire)
                          = Reading(ReaderAt(wire, Len(bytes)), Len(values))
  <1>1. PICK root : root = Sequence(values)
    OBVIOUS
  <1>2. root = [t |-> "sequence", items |-> values]
    BY <1>1 DEF Sequence
  <1>3. root \in Nodes
    <2>1. WellFormed(root)
      BY <1>2 DEF WellFormed, Scalars, Widths
    <2> QED BY <1>2, <2>1 DEF Nodes
  <1>4. PICK f \in Frames : f = [v |-> root, i |-> 0]
    <2>1. root.items = values /\ 0 \in Nat /\ 0 <= Len(values)
      BY <1>2
    <2> QED BY <1>3, <2>1 DEF Frames
  <1>5. PICK stack \in Seq(Frames) : stack = <<f>> /\ Len(stack) = 1 /\ stack[1] = f
    BY FewItems, Zenon
  <1>6. PICK start : start = Writing(bytes, values)
    OBVIOUS
  <1>7. start = [out |-> bytes, stack |-> stack]
    BY <1>1, <1>4, <1>5, <1>6 DEF Writing
  <1>8. RootOf(start) = root
    BY <1>4, <1>5, <1>7 DEF RootOf
  <1>9. StackInv(stack, root)
    BY <1>4, <1>5 DEF StackInv
  <1>10. WriterInv(start, root)
    BY <1>7, <1>9 DEF WriterInv
  <1>11. Written(start) <=> values = << >>
    <2>1. Written(start) <=> 0 = Len(values)
      BY <1>2, <1>4, <1>5, <1>7 DEF Written, Top
    <2> QED BY <2>1
  <1>12. ASSUME NEW wire
         PROVE  Mirror(start, wire) = Reading(ReaderAt(wire, Len(bytes)), Len(values))
    <2>1. SubSeq(values, 1, 0) = << >> /\ Len(values) - 0 = Len(values)
      OBVIOUS
    <2>2. Mirrored(f) = [v |-> Sequence(<< >>), left |-> Len(values)]
      BY <1>2, <1>4, <2>1 DEF Mirrored, Sequence
    <2>3. MirrorStack(stack) = <<Mirrored(f)>>
      BY <1>5 DEF MirrorStack
    <2> QED BY <1>7, <2>2, <2>3 DEF Mirror, Reading, ReaderAt
  <1>13. start.out = bytes /\ root.items = values
    BY <1>2, <1>7
  <1> QED BY <1>1, <1>6, <1>8, <1>10, <1>11, <1>12, <1>13, Zenon

\* The bytes of a call begin to be read where they began to be written.
LEMMA CallStarts ==
    ASSUME NEW call \in Calls
    PROVE  LET start == EncodeMethodCall(call)
           IN  /\ WriterInv(start, RootOf(start))
               /\ RootOf(start).items = <<Text(call.method), OrNull(call.arguments)>>
               /\ \A wire : DecodeMethodCall(wire) = Mirror(start, wire)
  <1>1. PICK values \in Seq(Sendable) :
          values = <<Text(call.method), OrNull(call.arguments)>> /\ Len(values) = 2
    <2>1. call.method \in Names /\ call.arguments \in Arguments
      BY DEF Calls
    <2>2. Text(call.method) \in Sendable /\ OrNull(call.arguments) \in Sendable
      BY <2>1, OrNullIsSendable DEF Sendable
    <2>3. <<Text(call.method), OrNull(call.arguments)>> \in Seq(Sendable)
          /\ Len(<<Text(call.method), OrNull(call.arguments)>>) = 2
      BY <2>2, FewItems, Zenon
    <2> QED BY <2>3
  <1>2. EncodeMethodCall(call) = Writing(<< >>, values) /\ << >> \in Seq(Byte)
    BY <1>1 DEF EncodeMethodCall
  <1>3. ASSUME NEW wire
        PROVE  DecodeMethodCall(wire)
                 = Reading(ReaderAt(wire, 0), 2)
    BY <1>1 DEF DecodeMethodCall, Reader, ReaderAt
  <1>4. WriterInv(Writing(<< >>, values), Sequence(values))
    BY <1>2, WritingStarts
  <1>5. RootOf(Writing(<< >>, values)) = Sequence(values) /\ Sequence(values).items = values
    BY <1>2, WritingStarts
  <1>6. ASSUME NEW wire
        PROVE  Mirror(Writing(<< >>, values), wire) = DecodeMethodCall(wire)
    <2>1. Mirror(Writing(<< >>, values), wire)
            = Reading(ReaderAt(wire, Len(<< >>)), Len(values))
      BY <1>2, WritingStarts
    <2>2. Len(<< >>) = 0 /\ Len(values) = 2
      BY <1>1
    <2> QED BY <1>3, <2>1, <2>2
  <1> QED BY <1>1, <1>2, <1>4, <1>5, <1>6

\* The name of a call is never taken for something else.
LEMMA CallHasName ==
    ASSUME NEW call \in Calls, NEW w, NEW wire,
           WriterInv(w, RootOf(EncodeMethodCall(call)))
    PROVE  ~NoName(Mirror(w, wire))
  <1>1. PICK values \in Seq(Sendable) :
          values = RootOf(EncodeMethodCall(call)).items /\ Len(values) = 2
          /\ values[1].t = "string"
    <2>1. call.method \in Names /\ call.arguments \in Arguments
      BY DEF Calls
    <2>2. Text(call.method) \in Sendable /\ OrNull(call.arguments) \in Sendable
      BY <2>1, OrNullIsSendable DEF Sendable
    <2>3. Text(call.method).t = "string"
      BY DEF Text
    <2>4. <<Text(call.method), OrNull(call.arguments)>> \in Seq(Sendable)
          /\ Len(<<Text(call.method), OrNull(call.arguments)>>) = 2
          /\ <<Text(call.method), OrNull(call.arguments)>>[1] = Text(call.method)
      BY <2>2, FewItems, Zenon
    <2> QED BY <2>3, <2>4, CallStarts
  <1>2. PICK i \in Nat : i <= 2 /\ ValuesRead(Mirror(w, wire)) = SubSeq(values, 1, i)
    BY <1>1, AllReadIsWritten
  <1>3. ASSUME Len(SubSeq(values, 1, i)) > 0
        PROVE  SubSeq(values, 1, i)[1] = values[1]
    BY <1>1, <1>2, <1>3
  <1> QED BY <1>1, <1>2, <1>3 DEF NoName

\* A result is written behind its flag, by which the number of values is known.
LEMMA ResultStarts ==
    ASSUME NEW r \in Results
    PROVE  LET start == EncodeResult(r)
           IN  /\ WriterInv(start, RootOf(start))
               /\ \A wire \in Seq(Byte) :
                    /\ Extends(wire, start.out)
                    /\ Written(start) => wire = start.out
                    => DecodeResult(wire) = Mirror(start, wire)
  <1>0. << >> \in Seq(Byte) /\ <<0>> \in Seq(Byte) /\ <<1>> \in Seq(Byte)
    <2>1. 0 \in Byte /\ 1 \in Byte
      BY DEF Byte
    <2> QED BY <2>1
  <1>1. CASE r = NotImplemented
    <2>1. EncodeResult(r) = Writing(<< >>, << >>)
      BY <1>1 DEF EncodeResult, NotImplemented
    <2>2. << >> \in Seq(Sendable)
      OBVIOUS
    <2>3. DecodeResult(<< >>)
            = Reading(ReaderAt(<< >>, 0), 0)
      BY DEF DecodeResult, Reader, ReadByte, ReaderAt
    <2>4. PICK start : start = Writing(<< >>, << >>)
      OBVIOUS
    <2>5. WriterInv(start, RootOf(start)) /\ start.out = << >> /\ Written(start)
      <3>1. /\ WriterInv(Writing(<< >>, << >>), Sequence(<< >>))
            /\ RootOf(Writing(<< >>, << >>)) = Sequence(<< >>)
            /\ Writing(<< >>, << >>).out = << >>
            /\ Written(Writing(<< >>, << >>))
        BY <1>0, <2>2, WritingStarts
      <3> QED BY <2>4, <3>1, Zenon
    <2>6. Mirror(start, << >>) = Reading(ReaderAt(<< >>, Len(<< >>)), Len(<< >>))
      BY <1>0, <2>2, <2>4, WritingStarts
    <2>7. Mirror(start, << >>) = DecodeResult(<< >>)
      BY <2>3, <2>6
    <2> QED BY <2>1, <2>4, <2>5, <2>7
  <1>2. ASSUME NEW flag \in {0, 1}, NEW values \in Seq(Sendable),
               Len(values) = IF flag = 0 THEN 1 ELSE 3,
               NEW wire \in Seq(Byte), Extends(wire, <<flag>>)
        PROVE  DecodeResult(wire)
                 = Reading(ReaderAt(wire, 1), Len(values))
    <2>1. PICK z \in Seq(Byte) : wire = <<flag>> \o z
      BY <1>2 DEF Extends
    <2>2. Len(wire) > 0 /\ wire[1] = flag /\ wire # << >>
      <3>1. <<flag>> \in Seq(Byte) /\ Len(<<flag>>) = 1 /\ <<flag>>[1] = flag
        BY <1>0
      <3> QED BY <2>1, <3>1
    <2>3. ReadByte(Reader(wire)) = [val |-> flag, in |-> [bytes |-> wire, location |-> 1]]
      BY <2>2 DEF ReadByte, Reader, Advance
    <2> QED BY <1>2, <2>2, <2>3 DEF DecodeResult, FlagOf, ReaderAt
  <1>3. ASSUME NEW value \in Arguments, r = Success(value)
        PROVE  \E values \in Seq(Sendable) :
                 EncodeResult(r) = Writing(<<0>>, values) /\ Len(values) = 1
    <2>1. EncodeResult(r) = Writing(<<0>>, <<OrNull(value)>>)
      BY <1>3 DEF EncodeResult, Success
    <2>2. OrNull(value) \in Sendable
      BY OrNullIsSendable
    <2> QED BY <2>1, <2>2
  <1>4. ASSUME NEW code \in Names, NEW text \in Names, NEW details \in Arguments,
               r = Error(code, text, details)
        PROVE  \E values \in Seq(Sendable) :
                 EncodeResult(r) = Writing(<<1>>, values) /\ Len(values) = 3
    <2>1. PICK a \in Sendable, b \in Sendable, c \in Sendable :
            /\ a = Text(code) /\ c = OrNull(details)
            /\ b = IF text = << >> THEN Null ELSE Text(text)
      BY OrNullIsSendable DEF Sendable
    <2>2. EncodeResult(r) = Writing(<<1>>, <<a, b, c>>)
      BY <1>4, <2>1 DEF EncodeResult, Error
    <2>3. <<a, b, c>> \in Seq(Sendable) /\ Len(<<a, b, c>>) = 3
      BY FewItems, Zenon
    <2> QED BY <2>2, <2>3
  <1>5. ASSUME NEW flag \in {0, 1}, NEW values \in Seq(Sendable),
               Len(values) = IF flag = 0 THEN 1 ELSE 3,
               EncodeResult(r) = Writing(<<flag>>, values)
        PROVE  LET start == EncodeResult(r)
               IN  /\ WriterInv(start, RootOf(start))
                   /\ \A wire \in Seq(Byte) :
                        Extends(wire, start.out) => DecodeResult(wire) = Mirror(start, wire)
    <2>1. <<flag>> \in Seq(Byte)
      BY <1>0
    <2>2. PICK start : start = Writing(<<flag>>, values)
      OBVIOUS
    <2>3. WriterInv(start, RootOf(start)) /\ start.out = <<flag>>
      <3>1. /\ WriterInv(Writing(<<flag>>, values), Sequence(values))
            /\ RootOf(Writing(<<flag>>, values)) = Sequence(values)
            /\ Writing(<<flag>>, values).out = <<flag>>
        BY <2>1, WritingStarts
      <3> QED BY <2>2, <3>1, Zenon
    <2>4. ASSUME NEW wire \in Seq(Byte), Extends(wire, <<flag>>)
          PROVE  DecodeResult(wire) = Mirror(start, wire)
      <3>1. Mirror(start, wire) = Reading(ReaderAt(wire, Len(<<flag>>)), Len(values))
        BY <2>1, <2>2, WritingStarts
      <3>2. Len(<<flag>>) = 1
        OBVIOUS
      <3> QED BY <1>2, <1>5, <2>4, <3>1, <3>2
    <2> QED BY <1>5, <2>2, <2>3, <2>4
  <1>6. CASE r \in Successes
    BY <1>3, <1>5, <1>6 DEF Successes
  <1>7. CASE r \in Errors
    BY <1>4, <1>5, <1>7 DEF Errors
  <1> QED BY <1>1, <1>6, <1>7 DEF Results

\* A value is written behind no flag; the message is not empty.
LEMMA MessageStarts ==
    ASSUME AllReadable, NEW v \in Values
    PROVE  LET start == EncodeMessage(v)
           IN  /\ WriterInv(start, RootOf(start))
               /\ RootOf(start).items = <<v>>
               /\ ~Written(start)
               /\ Len(WriteValue(start).out) > 0
               /\ \A wire \in Seq(Byte) : Len(wire) > 0 => DecodeMessage(wire) = Mirror(start, wire)
  <1>1. PICK values \in Seq(Sendable) : values = <<v>> /\ Len(values) = 1 /\ values[1] = v
    <2>1. v \in Sendable
      BY DEF Sendable
    <2>2. <<v>> \in Seq(Sendable) /\ Len(<<v>>) = 1 /\ <<v>>[1] = v
      BY <2>1, FewItems, Zenon
    <2> QED BY <2>2
  <1>2. PICK none \in Seq(Byte) : none = << >> /\ Len(none) = 0
    <2>1. << >> \in Seq(Byte) /\ Len(<< >>) = 0
      OBVIOUS
    <2> QED BY <2>1
  <1>3. PICK start : start = Writing(none, values)
    OBVIOUS
  <1>4. EncodeMessage(v) = start
    BY <1>1, <1>2, <1>3 DEF EncodeMessage
  <1>5. /\ WriterInv(start, Sequence(values)) /\ RootOf(start) = Sequence(values)
        /\ Sequence(values).items = values /\ (Written(start) <=> values = << >>)
    BY <1>3, WritingStarts
  <1>6. values # << >>
    BY <1>1
  <1>7. Len(WriteValue(start).out) > 0
    <2>1. start = [out |-> none, stack |-> <<[v |-> Sequence(values), i |-> 0]>>]
      BY <1>3 DEF Writing
    <2>2. Top(start.stack) = [v |-> Sequence(values), i |-> 0]
      BY <2>1 DEF Top
    <2>3. Top(start.stack).v.items[Top(start.stack).i + 1] = v
      <3>1. Top(start.stack).v.items = values /\ Top(start.stack).i + 1 = 1
        BY <1>5, <2>2
      <3> QED BY <1>1, <3>1
    <2>4. Top(start.stack).i # Len(Top(start.stack).v.items)
      <3>1. Top(start.stack).v.items = values /\ Top(start.stack).i = 0
        BY <1>5, <2>2
      <3> QED BY <1>1, <3>1
    <2>5. WriteValue(start).out = WriteHead(v, none)
      BY <2>1, <2>3, <2>4 DEF WriteValue
    <2>6. v \in ValueTypes /\ WellFormed(v) /\ Readable(v)
      BY SendableIsReadable DEF Sendable
    <2>7. WriteHead(v, none) \in Seq(Byte) /\ Len(WriteHead(v, none)) > Len(none)
      BY <1>2, <2>6, HeadBack
    <2> QED BY <1>2, <2>5, <2>7
  <1>8. ASSUME NEW wire \in Seq(Byte), Len(wire) > 0
        PROVE  DecodeMessage(wire) = Mirror(start, wire)
    <2>1. Mirror(start, wire) = Reading(ReaderAt(wire, Len(none)), Len(values))
      BY <1>3, WritingStarts
    <2>2. wire # << >>
      BY <1>8
    <2> QED BY <1>1, <1>2, <2>1, <2>2 DEF DecodeMessage, Reader, ReaderAt
  <1> QED BY <1>1, <1>4, <1>5, <1>6, <1>7, <1>8

\* What is made of the values once they are read.
LEMMA CallIsHeard ==
    ASSUME NEW call \in Calls, NEW r, ~NoName(r),
           ValuesRead(r) = <<Text(call.method), OrNull(call.arguments)>>
    PROVE  CallOf(r) = [method |-> call.method, arguments |-> OrNull(call.arguments)]
  <1>1. ValuesRead(r)[1] = Text(call.method) /\ ValuesRead(r)[2] = OrNull(call.arguments)
    OBVIOUS
  <1> QED BY <1>1 DEF CallOf, Text

LEMMA AbsentIsNull ==
    ASSUME NEW v \in Arguments
    PROVE  OrAbsent(OrNull(v)) = IF v = Null THEN Absent ELSE v
  <1>1. CASE v = Absent
    BY <1>1 DEF Absent, Null, IsNull, OrNull, OrAbsent
  <1>2. CASE v # Absent
    <2>1. v \in ValueTypes
      BY <1>2, ValuesAssumption DEF Arguments
    <2>2. v.t = "null" <=> v = Null
      BY <2>1 DEF ValueTypes, Null, Scalars, Widths
    <2>3. OrNull(v) = v
      BY <1>2 DEF OrNull
    <2> QED BY <2>2, <2>3 DEF OrAbsent, IsNull
  <1> QED BY <1>1, <1>2

LEMMA ResultIsGiven ==
    ASSUME NEW given \in Results, NEW r,
           ValuesRead(r) = RootOf(EncodeResult(given)).items
    PROVE  ResultOf(r) = AsRead(given)
  <1>1. CASE given = NotImplemented
    <2>1. << >> \in Seq(Byte) /\ << >> \in Seq(Sendable)
      OBVIOUS
    <2>2. EncodeResult(given) = Writing(<< >>, << >>)
      BY <1>1 DEF EncodeResult, NotImplemented
    <2>3. ValuesRead(r) = << >>
      BY <2>1, <2>2, WritingStarts
    <2> QED BY <1>1, <2>3 DEF ResultOf, AsRead, NotImplemented
  <1>2. ASSUME NEW value \in Arguments, given = Success(value)
        PROVE  ResultOf(r) = AsRead(given)
    <2>1. <<0>> \in Seq(Byte) /\ <<OrNull(value)>> \in Seq(Sendable)
      BY OrNullIsSendable DEF Byte
    <2>2. EncodeResult(given) = Writing(<<0>>, <<OrNull(value)>>)
      BY <1>2 DEF EncodeResult, Success
    <2>3. ValuesRead(r) = <<OrNull(value)>>
      BY <2>1, <2>2, WritingStarts
    <2>4. ResultOf(r) = Success(OrAbsent(OrNull(value)))
      BY <2>3 DEF ResultOf
    <2>5. AsRead(given) = Success(IF value = Null THEN Absent ELSE value)
      BY <1>2 DEF AsRead, Success
    <2> QED BY <2>4, <2>5, AbsentIsNull
  <1>3. ASSUME NEW code \in Names, NEW text \in Names, NEW details \in Arguments,
               given = Error(code, text, details)
        PROVE  ResultOf(r) = AsRead(given)
    <2>1. PICK a \in Sendable, b \in Sendable, c \in Sendable :
            /\ a = Text(code) /\ c = OrNull(details)
            /\ b = IF text = << >> THEN Null ELSE Text(text)
      BY OrNullIsSendable DEF Sendable
    <2>2. EncodeResult(given) = Writing(<<1>>, <<a, b, c>>)
      BY <1>3, <2>1 DEF EncodeResult, Error
    <2>3. <<1>> \in Seq(Byte) /\ <<a, b, c>> \in Seq(Sendable)
      BY DEF Byte
    <2>4. ValuesRead(r) = <<a, b, c>>
      BY <2>2, <2>3, WritingStarts
    <2>5. a.t = "string" /\ a.bytes = code
      BY <2>1 DEF Text
    <2>6. /\ b.t \in {"null", "string"}
          /\ (IF IsNull(b) THEN << >> ELSE b.bytes) = text
      BY <2>1 DEF Text, Null, IsNull
    <2>7. ResultOf(r) = Error(code, text, OrAbsent(c))
      BY <2>4, <2>5, <2>6 DEF ResultOf
    <2>8. AsRead(given) = Error(code, text, IF details = Null THEN Absent ELSE details)
      BY <1>3 DEF AsRead, Error
    <2> QED BY <2>1, <2>7, <2>8, AbsentIsNull
  <1> QED BY <1>1, <1>2, <1>3 DEF Results, Successes, Errors

----------------------------------------------------------------------------
(* The invariant.                                                          *)

\* What is under way, and what is still to come.
ControlInv ==
    /\ phase \in {"idle", "writing", "reading", "handling", "done"}
    /\ kind \in {"nothing", "call", "reply", "message"}
    /\ phase = "idle" =>
         /\ sent = Nothing /\ heard = Nothing /\ answer = Nothing
         /\ result = Nothing /\ message = Nothing /\ received = Nothing
    /\ phase \in {"writing", "reading"} =>
         /\ kind # "nothing"
         /\ kind = "call" => heard = Nothing /\ answer = Nothing
         /\ kind # "message" => message = Nothing
         /\ kind = "message" => answer = Nothing /\ sent = Nothing
         /\ result = Nothing /\ received = Nothing
    /\ phase = "handling" =>
         answer = Nothing /\ result = Nothing /\ message = Nothing /\ received = Nothing
    /\ sent \in Calls \cup {Nothing}
    /\ answer \in Results \cup {Nothing}
    /\ message \in Values \cup {Nothing}

\* The bytes under way are those of a call, a result or a message of this
\* codec, and what they were made from.
GivenBy(what, call, reply, value) ==
    /\ what = "call" => call \in Calls
    /\ what = "reply" => reply \in Results
    /\ what = "message" => value \in Values
    /\ what \in {"call", "reply", "message"}

StartOf(what, call, reply, value) ==
    IF what = "call" THEN EncodeMethodCall(call)
    ELSE IF what = "reply" THEN EncodeResult(reply) ELSE EncodeMessage(value)

Given == GivenBy(kind, sent, answer, message)
Start == StartOf(kind, sent, answer, message)

OnTheWay(tr, n) ==
    /\ IsTrace(tr, n, Start)
    /\ tr[n] = writer
    /\ phase = "reading" =>
         Written(writer) /\ \E k \in 0 .. n : reader = Mirror(tr[k], writer.out)

TraceInv ==
    phase \in {"writing", "reading"} /\ Given => \E n, tr : OnTheWay(tr, n)

IInv == ControlInv /\ TraceInv /\ CallArrives /\ ReplyArrives /\ MessageArrives

\* The bytes under way, whatever they are made from, have begun as they should.
LEMMA Starts ==
    ASSUME AllReadable, NEW what, NEW call, NEW reply, NEW value,
           GivenBy(what, call, reply, value)
    PROVE  LET start == StartOf(what, call, reply, value)
           IN  WriterInv(start, RootOf(start))
  <1>1. CASE what = "call"
    BY <1>1, CallStarts DEF GivenBy, StartOf
  <1>2. CASE what = "reply"
    BY <1>2, ResultStarts DEF GivenBy, StartOf
  <1>3. CASE what = "message"
    BY <1>3, MessageStarts DEF GivenBy, StartOf
  <1> QED BY <1>1, <1>2, <1>3 DEF GivenBy

\* The reader begins where the writer began.
LEMMA DeliverStarts ==
    ASSUME AllReadable, Given, NEW n, NEW tr, IsTrace(tr, n, Start),
           tr[n] = writer, Written(writer)
    PROVE  (CASE kind = "call"    -> DecodeMethodCall(writer.out)
              [] kind = "reply"   -> DecodeResult(writer.out)
              [] kind = "message" -> DecodeMessage(writer.out)) = Mirror(tr[0], writer.out)
  <1>1. n \in Nat /\ tr[0] = Start
    BY DEF IsTrace
  <1>2. WriterInv(writer, RootOf(Start)) /\ Extends(writer.out, Start.out)
    BY <1>1 DEF IsTrace
  <1>3. writer.out \in Seq(Byte)
    BY <1>2 DEF WriterInv
  <1>4. CASE kind = "call"
    BY <1>1, <1>4, CallStarts DEF Given, GivenBy, Start, StartOf
  <1>5. CASE kind = "reply"
    <2>1. answer \in Results /\ Start = EncodeResult(answer)
      BY <1>5 DEF Given, GivenBy, Start, StartOf
    <2>2. ASSUME Written(Start)
          PROVE  writer.out = Start.out
      <3>1. CASE n = 0
        BY <1>1, <3>1
      <3>2. CASE n # 0
        <4>1. 0 \in 0 .. n - 1
          BY <1>1, <3>2
        <4> QED BY <1>1, <2>2, <4>1 DEF IsTrace
      <3> QED BY <3>1, <3>2
    <2>3. DecodeResult(writer.out) = Mirror(Start, writer.out)
      BY <1>2, <1>3, <2>1, <2>2, ResultStarts
    <2> QED BY <1>1, <1>5, <2>3
  <1>6. CASE kind = "message"
    <2>1. message \in Values /\ Start = EncodeMessage(message)
      BY <1>6 DEF Given, GivenBy, Start, StartOf
    <2>2. ~Written(Start) /\ Len(WriteValue(Start).out) > 0
      BY <2>1, MessageStarts
    <2>3. n # 0
      BY <1>1, <2>2
    <2>4. 0 \in 0 .. n - 1 /\ 1 \in 0 .. n /\ 0 + 1 = 1
      BY <1>1, <2>3
    <2>5. tr[1] = WriteValue(Start)
      BY <1>1, <2>4 DEF IsTrace
    <2>6. PICK first \in Seq(Byte) : first = tr[1].out /\ Extends(writer.out, first)
      BY <2>4 DEF IsTrace, WriterInv
    <2>7. PICK z \in Seq(Byte) : writer.out = first \o z
      BY <2>6 DEF Extends
    <2>8. Len(writer.out) > 0
      BY <2>2, <2>5, <2>6, <2>7
    <2>9. DecodeMessage(writer.out) = Mirror(Start, writer.out)
      BY <1>3, <2>1, <2>8, MessageStarts
    <2> QED BY <1>1, <1>6, <2>9
  <1> QED BY <1>4, <1>5, <1>6 DEF Given, GivenBy

----------------------------------------------------------------------------
(* The invariant holds initially and every step preserves it.              *)

LEMMA NothingIsNothing ==
    /\ Nothing \notin Calls
    /\ Nothing \notin Results
    /\ Nothing \notin Values
  <1>1. ASSUME Nothing \in Values
        PROVE  FALSE
    BY <1>1, ValuesAssumption DEF ValueTypes, Nothing
  <1>2. Nothing \notin Calls
    BY DEF Nothing, Calls
  <1>3. Nothing \notin Results
    <2>1. Nothing.kind = "nothing" /\ NotImplemented.kind = "notImplemented"
      BY DEF Nothing, NotImplemented
    <2>2. \A r \in Successes : r.kind = "success"
      BY DEF Successes, Success
    <2>3. \A r \in Errors : r.kind = "error"
      BY DEF Errors, Error
    <2> QED BY <2>1, <2>2, <2>3 DEF Results
  <1> QED BY <1>1, <1>2, <1>3

\* A writer that is at its start is on its way.
LEMMA Begun ==
    ASSUME AllReadable, phase' = "writing", Given' => writer' = Start'
    PROVE  TraceInv'
  <1>1. ASSUME Given'
        PROVE  \E n, tr : OnTheWay(tr, n)'
    <2>1. WriterInv(writer', RootOf(writer'))
      BY <1>1, Starts DEF Given, Start
    <2>2. PICK tr : IsTrace(tr, 0, writer') /\ tr[0] = writer'
      BY <2>1, TraceBegins
    <2>3. phase' # "reading"
      OBVIOUS
    <2>4. OnTheWay(tr, 0)'
      BY <1>1, <2>2, <2>3 DEF OnTheWay
    <2> QED BY <2>4
  <1> QED BY <1>1 DEF TraceInv

\* Nothing that was read yet is wrong.
LEMMA NothingHeard ==
    ASSUME heard' = Nothing \/ (sent' = sent /\ heard' = heard /\ CallArrives),
           result' = Nothing, received' = Nothing
    PROVE  CallArrives' /\ ReplyArrives' /\ MessageArrives'
  BY DEF CallArrives, ReplyArrives, MessageArrives

LEMMA InitIInv ==
    ASSUME Init
    PROVE  IInv
  BY DEF Init, IInv, ControlInv, TraceInv, CallArrives, ReplyArrives, MessageArrives

\* What there is to read is read on the way of the writer.
LEMMA WriteItemStep ==
    ASSUME AllReadable, IInv, WriteItem
    PROVE  IInv'
  <1>1. ControlInv'
    BY DEF IInv, ControlInv, WriteItem
  <1>2. CallArrives' /\ ReplyArrives' /\ MessageArrives'
    BY DEF IInv, ControlInv, WriteItem, CallArrives, ReplyArrives, MessageArrives
  <1>3. ASSUME Given'
        PROVE  \E n, tr : OnTheWay(tr, n)'
    <2>1. Given /\ Start' = Start
      BY <1>3 DEF WriteItem, Given, Start
    <2>2. PICK n, tr : OnTheWay(tr, n)
      BY <2>1 DEF IInv, TraceInv, WriteItem
    <2>3. PICK longer :
            IsTrace(longer, n + 1, Start) /\ longer[n + 1] = WriteValue(tr[n])
      BY <2>2, TraceGrows DEF OnTheWay, WriteItem
    <2>4. phase' = "writing" /\ writer' = WriteValue(writer)
      BY DEF WriteItem
    <2>5. OnTheWay(longer, n + 1)'
      BY <2>1, <2>2, <2>3, <2>4 DEF OnTheWay
    <2> QED BY <2>5
  <1> QED BY <1>1, <1>2, <1>3 DEF IInv, TraceInv

LEMMA DeliverStep ==
    ASSUME AllReadable, IInv, Deliver
    PROVE  IInv'
  <1>1. ControlInv'
    BY DEF IInv, ControlInv, Deliver, Ready
  <1>2. CallArrives' /\ ReplyArrives' /\ MessageArrives'
    BY DEF IInv, ControlInv, Deliver, Ready, CallArrives, ReplyArrives, MessageArrives
  <1>3. ASSUME Given'
        PROVE  \E n, tr : OnTheWay(tr, n)'
    <2>1. Given /\ Start' = Start
      BY <1>3 DEF Deliver, Given, Start
    <2>2. PICK n, tr : OnTheWay(tr, n)
      BY <2>1 DEF IInv, TraceInv, Deliver, Ready
    <2>3. IsTrace(tr, n, Start) /\ tr[n] = writer /\ Written(writer) /\ 0 \in 0 .. n
      BY <2>2 DEF OnTheWay, Deliver, Ready, IsTrace
    <2>4. reader' = Mirror(tr[0], writer.out)
      BY <2>1, <2>3, DeliverStarts, Zenon DEF Deliver
    <2>5. writer' = writer
      BY DEF Deliver
    <2>6. OnTheWay(tr, n)'
      BY <2>1, <2>3, <2>4, <2>5 DEF OnTheWay
    <2> QED BY <2>6
  <1> QED BY <1>1, <1>2, <1>3 DEF IInv, TraceInv

LEMMA ReadItemStep ==
    ASSUME AllReadable, IInv, ReadItem
    PROVE  IInv'
  <1>1. ControlInv'
    BY DEF IInv, ControlInv, ReadItem
  <1>2. CallArrives' /\ ReplyArrives' /\ MessageArrives'
    BY DEF IInv, ControlInv, ReadItem, CallArrives, ReplyArrives, MessageArrives
  <1>3. ASSUME Given'
        PROVE  \E n, tr : OnTheWay(tr, n)'
    <2>1. Given /\ Start' = Start
      BY <1>3 DEF ReadItem, Given, Start
    <2>2. PICK n, tr : OnTheWay(tr, n)
      BY <2>1 DEF IInv, TraceInv, ReadItem
    <2>3. PICK k \in 0 .. n : reader = Mirror(tr[k], writer.out)
      BY <2>2 DEF OnTheWay, ReadItem
    <2>4. IsTrace(tr, n, Start) /\ tr[n] = writer /\ Written(writer)
      BY <2>2 DEF OnTheWay, ReadItem
    <2>5. k + 1 \in 0 .. n /\ ReadValue(reader) = Mirror(tr[k + 1], writer.out)
      BY <2>3, <2>4, ReadsOn DEF ReadItem, Decoded
    <2>6. writer' = writer /\ reader' = ReadValue(reader) /\ phase' = phase
      BY DEF ReadItem
    <2>7. OnTheWay(tr, n)'
      BY <2>1, <2>4, <2>5, <2>6 DEF OnTheWay
    <2> QED BY <2>7
  <1> QED BY <1>1, <1>2, <1>3 DEF IInv, TraceInv

\* What is read in the end is what was written.
LEMMA ReadInTheEnd ==
    ASSUME AllReadable, IInv, phase = "reading", Decoded, Given
    PROVE  /\ kind = "call" => ~NoName(reader)
           /\ ValuesRead(reader) = RootOf(Start).items
           /\ reader.in.location = Len(writer.out)
  <1>1. PICK n, tr : OnTheWay(tr, n)
    BY DEF IInv, TraceInv
  <1>2. PICK k \in 0 .. n : reader = Mirror(tr[k], writer.out)
    BY <1>1 DEF OnTheWay
  <1>3. IsTrace(tr, n, Start) /\ tr[n] = writer /\ Written(writer)
    BY <1>1 DEF OnTheWay
  <1>4. WriterInv(tr[k], RootOf(Start))
    BY <1>3 DEF IsTrace
  <1>5. ASSUME kind = "call"
        PROVE  ~NoName(reader)
    BY <1>2, <1>4, <1>5, CallHasName DEF Given, GivenBy, Start, StartOf
  <1>6. AllRead(reader)
    BY <1>5 DEF Decoded
  <1> QED BY <1>2, <1>3, <1>5, <1>6, ReadsOn

LEMMA HandleCallStep ==
    ASSUME AllReadable, IInv, HandleCall
    PROVE  IInv'
  <1>1. ControlInv'
    BY DEF IInv, ControlInv, HandleCall, Begin, Results
  <1>2. CallArrives'
    <2>1. ASSUME sent # Nothing
          PROVE  CallOf(reader) = [method |-> sent.method, arguments |-> OrNull(sent.arguments)]
      <3>1. sent \in Calls /\ kind = "call"
        BY <2>1 DEF IInv, ControlInv, HandleCall
      <3>2. Given
        BY <3>1 DEF Given, GivenBy
      <3>3. ~NoName(reader) /\ ValuesRead(reader) = RootOf(Start).items
        BY <3>1, <3>2, ReadInTheEnd DEF HandleCall
      <3>4. RootOf(Start).items = <<Text(sent.method), OrNull(sent.arguments)>>
        BY <3>1, CallStarts DEF Start, StartOf
      <3> QED BY <3>1, <3>3, <3>4, CallIsHeard
    <2>2. sent' = sent /\ heard' = CallOf(reader)
      BY DEF HandleCall
    <2> QED BY <2>1, <2>2 DEF CallArrives
  <1>3. ReplyArrives' /\ MessageArrives'
    BY DEF IInv, ControlInv, HandleCall, ReplyArrives, MessageArrives
  <1>4. TraceInv'
    <2>1. CASE heard' = NoCall
      BY <2>1, Begun DEF HandleCall, Begin, Start, StartOf
    <2>2. CASE heard' # NoCall
      BY <2>2 DEF HandleCall, TraceInv
    <2> QED BY <2>1, <2>2
  <1> QED BY <1>1, <1>2, <1>3, <1>4 DEF IInv

LEMMA HandleReplyStep ==
    ASSUME AllReadable, IInv, HandleReply
    PROVE  IInv'
  <1>1. ControlInv' /\ TraceInv'
    BY DEF IInv, ControlInv, TraceInv, HandleReply
  <1>2. CallArrives' /\ MessageArrives'
    BY DEF IInv, ControlInv, HandleReply, CallArrives, MessageArrives
  <1>3. ASSUME answer # Nothing
        PROVE  ResultOf(reader) = AsRead(answer)
    <2>1. answer \in Results /\ kind = "reply"
      BY <1>3 DEF IInv, ControlInv, HandleReply
    <2>2. Given /\ Start = EncodeResult(answer)
      BY <2>1 DEF Given, GivenBy, Start, StartOf
    <2>3. ValuesRead(reader) = RootOf(Start).items
      BY <2>2, ReadInTheEnd DEF HandleReply
    <2> QED BY <2>1, <2>2, <2>3, ResultIsGiven
  <1>4. answer' = answer /\ result' = ResultOf(reader)
    BY DEF HandleReply
  <1> QED BY <1>1, <1>2, <1>3, <1>4 DEF IInv, ReplyArrives

LEMMA HandleMessageStep ==
    ASSUME AllReadable, IInv, HandleMessage
    PROVE  IInv'
  <1>1. ControlInv' /\ TraceInv'
    BY DEF IInv, ControlInv, TraceInv, HandleMessage
  <1>2. CallArrives' /\ ReplyArrives'
    BY DEF IInv, ControlInv, HandleMessage, CallArrives, ReplyArrives
  <1>3. ASSUME message # Nothing
        PROVE  MessageOf(reader) = message /\ reader.in.location >= Len(writer.out)
    <2>1. message \in Values /\ kind = "message"
      BY <1>3 DEF IInv, ControlInv, HandleMessage
    <2>2. Given /\ Start = EncodeMessage(message)
      BY <2>1 DEF Given, GivenBy, Start, StartOf
    <2>3. ValuesRead(reader) = RootOf(Start).items /\ reader.in.location = Len(writer.out)
      BY <2>2, ReadInTheEnd DEF HandleMessage
    <2>4. RootOf(Start).items = <<message>>
      BY <2>1, <2>2, MessageStarts
    <2>5. MessageOf(reader) = message
      BY <2>3, <2>4 DEF MessageOf
    <2>6. Len(writer.out) \in Nat
      <3>1. PICK n, tr : OnTheWay(tr, n)
        BY <2>2 DEF IInv, TraceInv, HandleMessage
      <3>2. WriterInv(writer, RootOf(Start))
        BY <3>1 DEF OnTheWay, IsTrace
      <3>3. writer.out \in Seq(Byte)
        BY <3>2 DEF WriterInv
      <3> QED BY <3>3
    <2> QED BY <2>3, <2>5, <2>6
  <1>4. message' = message /\ received' = MessageOf(reader) /\ reader' = reader /\ writer' = writer
    BY DEF HandleMessage
  <1> QED BY <1>1, <1>2, <1>3, <1>4 DEF IInv, MessageArrives

\* A call, a result or a message is begun.
LEMMA BeginStep ==
    ASSUME AllReadable, IInv,
           InvokeMethod \/ AnswerSuccess \/ AnswerError \/ AnswerNotImplemented
             \/ SendSuccessEvent \/ SendErrorEvent \/ EndOfStream \/ Send
    PROVE  IInv'
  <1>1. CASE InvokeMethod
    <2>1. PICK name \in Names, arguments \in Arguments :
            sent' = [method |-> name, arguments |-> arguments]
      BY <1>1 DEF InvokeMethod
    <2>2. sent' \in Calls
      BY <2>1 DEF Calls
    <2>3. ControlInv'
      BY <1>1, <2>2 DEF IInv, ControlInv, InvokeMethod, Begin
    <2>4. TraceInv'
      BY <1>1, Begun DEF InvokeMethod, Begin, Start, StartOf
    <2>5. CallArrives' /\ ReplyArrives' /\ MessageArrives'
      BY <1>1, NothingHeard DEF IInv, ControlInv, InvokeMethod
    <2> QED BY <2>3, <2>4, <2>5 DEF IInv
  <1>2. ASSUME NEW r \in Results, Answer(r) \/ SendEvent(r)
        PROVE  IInv'
    <2>1. ControlInv'
      BY <1>2 DEF IInv, ControlInv, Answer, Handled, SendEvent, Begin
    <2>2. TraceInv'
      BY <1>2, Begun DEF Answer, SendEvent, Begin, Start, StartOf
    <2>3. CallArrives' /\ ReplyArrives' /\ MessageArrives'
      BY <1>2, NothingHeard DEF IInv, ControlInv, Answer, Handled, SendEvent
    <2> QED BY <2>1, <2>2, <2>3 DEF IInv
  <1>3. CASE Send
    <2>1. ControlInv'
      BY <1>3 DEF IInv, ControlInv, Send, Begin
    <2>2. TraceInv'
      BY <1>3, Begun DEF Send, Begin, Start, StartOf
    <2>3. CallArrives' /\ ReplyArrives' /\ MessageArrives'
      BY <1>3, NothingHeard DEF IInv, ControlInv, Send
    <2> QED BY <2>1, <2>2, <2>3 DEF IInv
  <1>4. CASE AnswerSuccess \/ SendSuccessEvent
    BY <1>2, <1>4 DEF AnswerSuccess, SendSuccessEvent, Results, Successes
  <1>5. CASE AnswerError \/ SendErrorEvent
    BY <1>2, <1>5 DEF AnswerError, SendErrorEvent, Results, Errors
  <1>6. CASE AnswerNotImplemented \/ EndOfStream
    BY <1>2, <1>6 DEF AnswerNotImplemented, EndOfStream, Results
  <1> QED BY <1>1, <1>3, <1>4, <1>5, <1>6

\* The bytes of another codec are nothing this one has made.
LEMMA ForeignStep ==
    ASSUME AllReadable, IInv, ForeignCall \/ ForeignReply
    PROVE  IInv'
  <1>1. ControlInv'
    BY DEF IInv, ControlInv, ForeignCall, ForeignReply, Handled, Begin
  <1>2. ~Given'
    BY NothingIsNothing
    DEF IInv, ControlInv, ForeignCall, ForeignReply, Handled, Begin, Given, GivenBy
  <1>3. CallArrives' /\ ReplyArrives' /\ MessageArrives'
    BY NothingHeard DEF IInv, ControlInv, ForeignCall, ForeignReply, Handled
  <1> QED BY <1>1, <1>2, <1>3 DEF IInv, TraceInv

LEMMA EndStep ==
    ASSUME AllReadable, IInv, SendFails \/ Forget
    PROVE  IInv'
  <1>1. ControlInv'
    BY DEF IInv, ControlInv, SendFails, Ready, Forget
  <1>2. TraceInv'
    BY DEF TraceInv, SendFails, Forget
  <1>3. CallArrives' /\ ReplyArrives' /\ MessageArrives'
    <2>1. CASE SendFails
      BY <2>1, NothingHeard DEF IInv, ControlInv, SendFails, Ready
    <2>2. CASE Forget
      BY <2>2 DEF Forget, CallArrives, ReplyArrives, MessageArrives
    <2> QED BY <2>1, <2>2
  <1> QED BY <1>1, <1>2, <1>3 DEF IInv

LEMMA StutterStep ==
    ASSUME AllReadable, IInv, UNCHANGED vars
    PROVE  IInv'
  BY DEF vars, IInv, ControlInv, TraceInv, OnTheWay, Given, Start,
         CallArrives, ReplyArrives, MessageArrives

LEMMA NextIInv ==
    ASSUME AllReadable, IInv, [Next]_vars
    PROVE  IInv'
  BY WriteItemStep, DeliverStep, ReadItemStep, HandleCallStep, HandleReplyStep,
     HandleMessageStep, BeginStep, ForeignStep, EndStep, StutterStep
  DEF Next

\* The handler is given the call that was invoked, whatever the values are and
\* however they are nested, unless one of them cannot be read back.
THEOREM CallsArrive ==
    ASSUME AllReadable
    PROVE  Spec => []CallArrives
  <1>1. IInv => CallArrives
    BY DEF IInv
  <1> QED BY InitIInv, NextIInv, <1>1, PTL DEF Spec

\* The caller is given the result that was answered, and a listener the event
\* that was sent.
THEOREM RepliesArrive ==
    ASSUME AllReadable
    PROVE  Spec => []ReplyArrives
  <1>1. IInv => ReplyArrives
    BY DEF IInv
  <1> QED BY InitIInv, NextIInv, <1>1, PTL DEF Spec

\* A message is read as it was sent, and to its last byte.
THEOREM MessagesArrive ==
    ASSUME AllReadable
    PROVE  Spec => []MessageArrives
  <1>1. IInv => MessageArrives
    BY DEF IInv
  <1> QED BY InitIInv, NextIInv, <1>1, PTL DEF Spec
=============================================================================
