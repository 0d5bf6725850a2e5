--------------------------- MODULE StandardCodec ---------------------------
(***************************************************************************)
(* The standard codec of the platform channels: values, their encoding,    *)
(* and the messages, method calls and envelopes built from it.             *)
(*                                                                         *)
(* An encodable value is a record with the field t, its alternative in the *)
(* variant, and                                                            *)
(*   b      of a bool                                                      *)
(*   bytes  of a number, a string or a list of numbers: its memory         *)
(*   items  of a list; of a map its keys and values in turn, in the order  *)
(*          of the keys.                                                   *)
(*                                                                         *)
(* WriteValue and ReadValue call themselves for the items.  Their calls    *)
(* are a stack of frames here, and a step writes or reads one item.        *)
(***************************************************************************)
EXTENDS ByteStreams

Null     == [t |-> "null"]
Text(s)  == [t |-> "string", bytes |-> s]

\* A pointer that is null: no arguments, no result, no details.
Absent   == [t |-> "absent"]
IsNull(v) == v.t = "null"
OrNull(v) == IF v = Absent THEN Null ELSE v

EncodedType ==
    [null |-> 0, true |-> 1, false |-> 2, int32 |-> 3, int64 |-> 4,
     largeint |-> 5, double |-> 6, string |-> 7, uint8list |-> 8,
     int32list |-> 9, int64list |-> 10, float64list |-> 11, list |-> 12,
     map |-> 13, float32list |-> 14]

\* Bytes of a number, and of one element of a typed list.
Scalars == [int32 |-> 4, int64 |-> 8, double |-> 8]
Widths  == [uint8list |-> 1, int32list |-> 4, int64list |-> 8,
            float64list |-> 8, float32list |-> 4]

\* A custom value has no type of its own: outside debug builds it is null.
EncodedTypeForValue(v) ==
    IF v.t = "bool" THEN IF v.b THEN EncodedType.true ELSE EncodedType.false
    ELSE IF v.t = "custom" THEN EncodedType.null ELSE EncodedType[v.t]

----------------------------------------------------------------------------
(* Stacks of calls.                                                        *)

Top(stack) == stack[Len(stack)]
Pop(stack) == SubSeq(stack, 1, Len(stack) - 1)

\* What a sequence of values is to its loop: it has no type byte and no size.
Sequence(values) == [t |-> "sequence", items |-> values]

----------------------------------------------------------------------------
(* Writing.  A frame is a call of WriteValue for a list or a map v, i of   *)
(* whose items are written.                                                *)

\* What WriteValue writes of a value before it calls itself.
WriteHead(v, out) ==
    LET tagged == WriteByte(out, EncodedTypeForValue(v))
    IN  CASE v.t \in {"null", "bool", "custom"} -> tagged
          [] v.t \in {"int32", "int64"} -> WriteBytes(tagged, v.bytes)
          [] v.t = "double" -> WriteBytes(WriteAlignment(tagged, 8), v.bytes)
          [] v.t = "string" ->
               WriteBytes(WriteSize(tagged, Len(v.bytes)), v.bytes)
          [] v.t \in DOMAIN Widths -> WriteVector(tagged, Widths[v.t], v.bytes)
          [] v.t = "list" -> WriteSize(tagged, Len(v.items))
          [] v.t = "map" -> WriteSize(tagged, Len(v.items) \div 2)

Writing(bytes, values) ==
    [out |-> bytes, stack |-> <<[v |-> Sequence(values), i |-> 0]>>]

HasItems(v) == v.t \in {"list", "map"} /\ v.items # << >>

OneMore(stack) == [stack EXCEPT ![Len(stack)].i = @ + 1]

\* The loop of the last call writes its next item, or that call returns.
WriteValue(w) ==
    LET frame == Top(w.stack)
        item  == frame.v.items[frame.i + 1]
    IN  IF frame.i = Len(frame.v.items)
        THEN [w EXCEPT !.stack = OneMore(Pop(@))]
        ELSE [out   |-> WriteHead(item, w.out),
              stack |-> IF HasItems(item)
                        THEN Append(w.stack, [v |-> item, i |-> 0])
                        ELSE OneMore(w.stack)]

Written(w) == Len(w.stack) = 1 /\ Top(w.stack).i = Len(Top(w.stack).v.items)

----------------------------------------------------------------------------
(* Reading.  A frame is a call of ReadValue for a list or a map, v with    *)
(* the items read so far, `left` of which are still to be read.            *)

TypedList(type) == CHOOSE name \in DOMAIN Widths : EncodedType[name] = type

\* What ReadValue reads before it calls itself.
ReadHead(in) ==
    LET first == ReadByte(in)
        size  == ReadSize(first.in)
        Typed(name) == first.val = EncodedType[name]
        Whole(value, rest) == [v |-> value, left |-> 0, in |-> rest]
        Number(name, read) ==
            Whole([t |-> name, bytes |-> read.val], read.in)
    IN  CASE Typed("true")  -> Whole([t |-> "bool", b |-> TRUE], first.in)
          [] Typed("false") -> Whole([t |-> "bool", b |-> FALSE], first.in)
          [] Typed("int32") -> Number("int32", ReadBytes(first.in, Scalars.int32))
          [] Typed("int64") -> Number("int64", ReadBytes(first.in, Scalars.int64))
          [] Typed("double") ->
               Number("double", ReadBytes(ReadAlignment(first.in, 8), Scalars.double))
          [] Typed("string") \/ Typed("largeint") ->
               Number("string", ReadBytes(size.in, size.val))
          [] \E name \in DOMAIN Widths : Typed(name) ->
               LET name == TypedList(first.val)
               IN  Number(name, ReadVector(first.in, Widths[name]))
          [] Typed("list") ->
               [v |-> [t |-> "list", items |-> << >>], left |-> size.val, in |-> size.in]
          [] Typed("map") ->
               [v |-> [t |-> "map", items |-> << >>], left |-> 2 * size.val, in |-> size.in]
          [] OTHER -> Whole(Null, first.in)

Reading(in, count) ==
    [in |-> in, stack |-> <<[v |-> Sequence(<< >>), left |-> count]>>]

\* The last item is the key of the value, and the entry is added unless its
\* key is there: std::map::emplace.
Emplace(items, value) ==
    LET n == Len(items)
    IN  IF \E i \in 1 .. n - 1 : i % 2 = 1 /\ items[i] = items[n]
        THEN SubSeq(items, 1, n - 1)
        ELSE Append(items, value)

AddItem(frame, item) ==
    LET node == frame.v
    IN  [v    |-> [t     |-> node.t,
                   items |-> IF node.t = "map" /\ frame.left % 2 = 1
                             THEN Emplace(node.items, item)
                             ELSE Append(node.items, item)],
         left |-> frame.left - 1]

Receive(stack, item) == [stack EXCEPT ![Len(stack)] = AddItem(@, item)]

\* The loop of the last call reads its next item, or that call returns.
ReadValue(r) ==
    LET frame == Top(r.stack)
        read  == ReadHead(r.in)
    IN  IF frame.left = 0
        THEN [r EXCEPT !.stack = Receive(Pop(@), frame.v)]
        ELSE [in    |-> read.in,
              stack |-> IF read.left = 0 THEN Receive(r.stack, read.v)
                        ELSE Append(r.stack, [v |-> read.v, left |-> read.left])]

\* The values read at the outermost level so far, and whether all are.
ValuesRead(r) == r.stack[1].v.items
AllRead(r)    == Len(r.stack) = 1 /\ r.stack[1].left = 0

----------------------------------------------------------------------------
(* Messages of a basic message channel.                                    *)

EncodeMessage(v) == Writing(<< >>, <<v>>)

\* No bytes are a null value.
DecodeMessage(wire) == Reading(Reader(wire), IF wire = << >> THEN 0 ELSE 1)

MessageOf(r) == IF ValuesRead(r) = << >> THEN Null ELSE ValuesRead(r)[1]

----------------------------------------------------------------------------
(* Method calls and the envelopes of their results.                        *)

EncodeMethodCall(call) ==
    Writing(<< >>, <<Text(call.method), OrNull(call.arguments)>>)

NoCall == [method |-> "none"]

DecodeMethodCall(wire) == Reading(Reader(wire), 2)

\* A message that does not begin with a string is no method call.
NoName(r) ==
    Len(r.stack) = 1 /\ Len(ValuesRead(r)) > 0 /\ ValuesRead(r)[1].t # "string"

CallOf(r) ==
    IF NoName(r) THEN NoCall
    ELSE [method |-> ValuesRead(r)[1].bytes, arguments |-> ValuesRead(r)[2]]

NotImplemented == [kind |-> "notImplemented"]
Success(value) == [kind |-> "success", value |-> value]
Error(code, message, details) ==
    [kind |-> "error", code |-> code, message |-> message, details |-> details]

\* mutant: the details are written before the message
EncodeResultSwapped(result) ==
    CASE result.kind = "notImplemented" -> Writing(<< >>, << >>)
      [] result.kind = "success" -> Writing(<<0>>, <<OrNull(result.value)>>)
      [] result.kind = "error" ->
           Writing(<<1>>, <<Text(result.code), OrNull(result.details),
                            IF result.message = << >> THEN Null ELSE Text(result.message)>>)

\* A method that is not implemented is answered by an empty reply; an empty
\* message of an error is written as null.
EncodeResult(result) ==
    CASE result.kind = "notImplemented" -> Writing(<< >>, << >>)
      [] result.kind = "success" -> Writing(<<0>>, <<OrNull(result.value)>>)
      [] result.kind = "error" ->
           Writing(<<1>>, <<Text(result.code),
                            IF result.message = << >> THEN Null ELSE Text(result.message),
                            OrNull(result.details)>>)

\* The flag of an envelope: one value is read of a success, three of an error.
FlagOf(reply) == ReadByte(Reader(reply)).val

DecodeResult(reply) ==
    Reading(ReadByte(Reader(reply)).in,
            IF reply = << >> THEN 0
            ELSE IF FlagOf(reply) = 0 THEN 1
            ELSE IF FlagOf(reply) = 1 THEN 3 ELSE 0)

OrAbsent(v) == IF IsNull(v) THEN Absent ELSE v

\* std::get on a code or on a message of another type throws.
Thrown == [kind |-> "thrown"]

ResultOf(r) ==
    LET read == ValuesRead(r)
    IN  CASE Len(read) = 0 -> NotImplemented
          [] Len(read) = 1 -> Success(OrAbsent(read[1]))
          [] Len(read) = 3 ->
               IF read[1].t # "string" \/ read[2].t \notin {"null", "string"}
               THEN Thrown
               ELSE Error(read[1].bytes,
                          IF IsNull(read[2]) THEN << >> ELSE read[2].bytes,
                          OrAbsent(read[3]))
============================================================================
