---------------------------- MODULE ByteStreams ----------------------------
(***************************************************************************)
(* The byte streams of the client wrapper and the framing the standard     *)
(* codec writes on them: sizes, alignment and fixed-width vectors.         *)
(*                                                                         *)
(* A writer is the sequence of the bytes written so far.  A reader is a    *)
(* buffer and a location in it, the number of bytes already read.  A read  *)
(* returns its value and the reader it leaves behind, [val, in].  Integers *)
(* and floating point numbers are their bytes in memory (little endian):   *)
(* the code copies them with memcpy and never looks inside.                *)
(***************************************************************************)
EXTENDS Integers, Sequences

Byte == 0 .. 255

Two16 == 256 * 256
Two32 == Two16 * Two16

Zeros(n) == [i \in 1 .. n |-> 0]

----------------------------------------------------------------------------
(* The writer.                                                             *)

WriteByte(out, byte) == Append(out, byte)

WriteBytes(out, bytes) == out \o bytes

\* Bytes missing to the next multiple of `alignment`.
Padding(location, alignment) ==
    IF location % alignment = 0 THEN 0 ELSE alignment - (location % alignment)

WriteAlignment(out, alignment) == out \o Zeros(Padding(Len(out), alignment))

----------------------------------------------------------------------------
(* The reader.  A read past the end reports an error and leaves the        *)
(* destination as it was: zero, in every caller.                           *)

Reader(bytes) == [bytes |-> bytes, location |-> 0]

Advance(in, n) == [in EXCEPT !.location = @ + n]

ReadByte(in) ==
    IF in.location >= Len(in.bytes)
    THEN [val |-> 0, in |-> in]
    ELSE [val |-> in.bytes[in.location + 1], in |-> Advance(in, 1)]

ReadBytes(in, n) ==
    IF in.location + n > Len(in.bytes)
    THEN [val |-> Zeros(n), in |-> in]
    ELSE [val |-> SubSeq(in.bytes, in.location + 1, in.location + n),
          in  |-> Advance(in, n)]

\* May move the location past the end: the next read then fails.
ReadAlignment(in, alignment) == Advance(in, Padding(in.location, alignment))

----------------------------------------------------------------------------
(* Sizes: one byte below 254, two bytes after a 254, four after a 255.     *)

LittleEndian2(n) == <<n % 256, n \div 256>>
LittleEndian4(n) ==
    LET low  == n % Two16
        high == n \div Two16
    IN  <<low % 256, low \div 256, high % 256, high \div 256>>

Number2(bytes) == bytes[1] + 256 * bytes[2]
Number4(bytes) == Number2(bytes) + Two16 * (bytes[3] + 256 * bytes[4])

\* mutant: 254 itself is written as one byte
WriteSizeOffByOne(out, size) ==
    IF size <= 254 THEN WriteByte(out, size)
    ELSE IF size < Two16
         THEN WriteBytes(WriteByte(out, 254), LittleEndian2(size))
         ELSE WriteBytes(WriteByte(out, 255), LittleEndian4(size % Two32))

WriteSize(out, size) ==
    IF size < 254 THEN WriteByte(out, size)
    ELSE IF size < Two16
         THEN WriteBytes(WriteByte(out, 254), LittleEndian2(size))
         ELSE WriteBytes(WriteByte(out, 255), LittleEndian4(size % Two32))

ReadSize(in) ==
    LET first == ReadByte(in)
        two   == ReadBytes(first.in, 2)
        four  == ReadBytes(first.in, 4)
    IN  IF first.val < 254 THEN first
        ELSE IF first.val = 254 THEN [two EXCEPT !.val = Number2(@)]
             ELSE [four EXCEPT !.val = Number4(@)]

----------------------------------------------------------------------------
(* Vectors of fixed-width elements.  `bytes` are the elements' bytes; an   *)
(* empty vector is written without the alignment that the reader skips.    *)

\* mutant: the elements follow their number at once
WriteVectorUnaligned(out, width, bytes) ==
    WriteBytes(WriteSize(out, Len(bytes) \div width), bytes)

WriteVector(out, width, bytes) ==
    LET sized == WriteSize(out, Len(bytes) \div width)
    IN  IF Len(bytes) = 0 THEN sized
        ELSE WriteBytes(IF width > 1 THEN WriteAlignment(sized, width)
                                     ELSE sized, bytes)

ReadVector(in, width) ==
    LET size  == ReadSize(in)
        start == IF width > 1 THEN ReadAlignment(size.in, width) ELSE size.in
    IN  ReadBytes(start, size.val * width)
============================================================================
