--------------------------- MODULE MCMethodCodec ---------------------------
(***************************************************************************)
(* Values for model checking the codec: every type, sizes on both sides of *)
(* the one-byte form, and nestings that put an aligned value behind every  *)
(* kind of other.  Whatever is in a list or a map is sent on its own, too. *)
(***************************************************************************)
EXTENDS MethodCodec

Bytes(n, b) == [i \in 1 .. n |-> b]

Scalar(name, b) == [t |-> name, bytes |-> Bytes(Scalars[name], b)]
Vector(name, n) == [t |-> name, bytes |-> Bytes(n * Widths[name], 9)]
List(items)     == [t |-> "list", items |-> items]
Map(items)      == [t |-> "map", items |-> items]
Bool(b)         == [t |-> "bool", b |-> b]

One     == Scalar("int32", 1)
Double  == Scalar("double", 5)
Short   == Text(<<97>>)
Long    == Text(<<97, 98>>)
Longest == Text(Bytes(253, 98))
Pair    == List(<<One, Double>>)
Inner   == Map(<<Long, Vector("int32list", 1)>>)

MCNames == {<< >>, <<99>>, Bytes(254, 100)}

Items ==
    {Null, Bool(TRUE), Bool(FALSE), One, Scalar("int64", 7), Double, Short, Long, Longest,
     Vector("uint8list", 0), Vector("uint8list", 254), Vector("int32list", 1),
     Vector("int32list", 3), Vector("int64list", 2), Vector("float32list", 1),
     Vector("float64list", 1), List(<< >>), Pair, Inner}

MCValues ==
    Items \cup
    {Vector("int64list", 0),
     List(<<Short, Vector("int32list", 3), Bool(TRUE), Vector("float32list", 1)>>),
     List(<<Pair, Vector("uint8list", 0), Double>>),
     Map(<<One, Vector("int64list", 2), Short, Inner, Longest, List(<< >>)>>)}

MCForeignCalls   == {<<91, 34, 34, 93>>, << >>}
MCForeignReplies == {<<91, 49, 93>>, <<1, 3, 1, 0, 0, 0>>}
============================================================================
