---------------------------- MODULE MethodCodec ----------------------------
(***************************************************************************)
(* The two ends of a channel and the bytes between them.  A caller invokes *)
(* a method, the bytes of the call are decoded by the other end, whose     *)
(* handler answers, and the bytes of the answer are decoded by the caller. *)
(* A basic message channel sends a message and gets a message back.  An    *)
(* end that uses another codec sends bytes this one was not made for.      *)
(***************************************************************************)
EXTENDS StandardCodec

CONSTANTS
    Names,          \* names of methods, codes and messages of errors
    Values,         \* the values sent, and those they contain
    ForeignCalls,   \* calls in the bytes of another codec
    ForeignReplies  \* replies in the bytes of another codec

\* The alternatives of the variant; an item of a value is a value.
ValueTypes ==
    [t : {"null", "custom"}] \cup [t : {"bool"}, b : BOOLEAN]
        \cup [t : DOMAIN Scalars \cup {"string"} \cup DOMAIN Widths, bytes : Seq(Byte)]
        \cup [t : {"list", "map"}, items : Seq(Values)]

\* A number has its width, a typed list whole elements, a map different keys.
WellFormed(v) ==
    /\ v.t \in DOMAIN Scalars => Len(v.bytes) = Scalars[v.t]
    /\ v.t \in DOMAIN Widths =>
         \E count \in 0 .. Len(v.bytes) : Len(v.bytes) = count * Widths[v.t]
    /\ v.t = "map" =>
         /\ Len(v.items) % 2 = 0
         /\ \A i, j \in DOMAIN v.items :
              i % 2 = 1 /\ j % 2 = 1 /\ v.items[i] = v.items[j] => i = j

ASSUME ValuesAssumption == \A v \in Values : v \in ValueTypes /\ WellFormed(v)
ASSUME NamesAssumption  == Names \subseteq Seq(Byte)
ASSUME ForeignAssumption == ForeignCalls \cup ForeignReplies \subseteq Seq(Byte)

VARIABLES
    phase,      \* "idle", "writing", "reading", "handling" or "done"
    kind,       \* what is under way: a "call", a "reply" or a "message"
    writer,     \* the bytes written and the calls of WriteValue
    reader,     \* the reader of these bytes and the calls of ReadValue
    sent,       \* the call that was invoked
    heard,      \* the call that was decoded
    answer,     \* the result the handler chose
    result,     \* the result the caller was given
    message,    \* the message that was sent
    received    \* the message that was read

vars == <<phase, kind, writer, reader, sent, heard, answer, result, message, received>>

Nothing == [kind |-> "nothing"]

Arguments == Values \cup {Absent}

Init ==
    /\ phase = "idle" /\ kind = "nothing"
    /\ writer = Writing(<< >>, << >>)
    /\ reader = Reading(Reader(<< >>), 0)
    /\ sent = Nothing /\ heard = Nothing
    /\ answer = Nothing /\ result = Nothing
    /\ message = Nothing /\ received = Nothing

----------------------------------------------------------------------------
(* Bytes are written item by item, handed over, and read item by item.     *)

Begin(what, start) ==
    /\ phase' = "writing"
    /\ kind' = what
    /\ writer' = start

Ready == phase = "writing" /\ Written(writer)

WriteItem ==
    /\ phase = "writing" /\ ~Written(writer)
    /\ writer' = WriteValue(writer)
    /\ UNCHANGED <<phase, kind, reader, sent, heard, answer, result, message, received>>

\* The messenger does not take the message: the result is never called.
SendFails ==
    /\ Ready /\ kind = "call"
    /\ phase' = "done"
    /\ UNCHANGED <<kind, writer, reader, sent, heard, answer, result, message, received>>

Deliver ==
    /\ Ready
    /\ phase' = "reading"
    /\ reader' = CASE kind = "call"    -> DecodeMethodCall(writer.out)
                   [] kind = "reply"   -> DecodeResult(writer.out)
                   [] kind = "message" -> DecodeMessage(writer.out)
    /\ UNCHANGED <<kind, writer, sent, heard, answer, result, message, received>>

Decoded == AllRead(reader) \/ (kind = "call" /\ NoName(reader))

ReadItem ==
    /\ phase = "reading" /\ ~Decoded
    /\ reader' = ReadValue(reader)
    /\ UNCHANGED <<phase, kind, writer, sent, heard, answer, result, message, received>>

----------------------------------------------------------------------------
InvokeMethod ==
    /\ phase = "idle"
    /\ \E name \in Names, arguments \in Arguments :
         sent' = [method |-> name, arguments |-> arguments]
    /\ Begin("call", EncodeMethodCall(sent'))
    /\ UNCHANGED <<reader, heard, answer, result, message, received>>

ForeignCall ==
    /\ phase = "idle"
    /\ \E bytes \in ForeignCalls : Begin("call", Writing(bytes, << >>))
    /\ UNCHANGED <<reader, sent, heard, answer, result, message, received>>

\* A call that cannot be decoded is answered without its handler.
HandleCall ==
    /\ phase = "reading" /\ kind = "call" /\ Decoded
    /\ heard' = CallOf(reader)
    /\ IF heard' = NoCall
       THEN /\ answer' = NotImplemented
            /\ Begin("reply", EncodeResult(NotImplemented))
       ELSE /\ phase' = "handling"
            /\ UNCHANGED <<kind, writer, answer>>
    /\ UNCHANGED <<reader, sent, result, message, received>>

\* The call is over when its handler has answered.
Handled ==
    /\ phase = "handling"
    /\ sent' = Nothing /\ heard' = Nothing
    /\ UNCHANGED <<reader, result, message, received>>

Answer(r) ==
    /\ Handled
    /\ answer' = r
    /\ Begin("reply", EncodeResult(r))

AnswerSuccess == \E value \in Arguments : Answer(Success(value))

AnswerError ==
    \E code \in Names, text \in Names, details \in Arguments :
        Answer(Error(code, text, details))

AnswerNotImplemented == Answer(NotImplemented)

ForeignReply ==
    /\ Handled
    /\ \E bytes \in ForeignReplies : Begin("reply", Writing(bytes, << >>))
    /\ UNCHANGED answer

\* An event of a stream is a reply nobody asked for; its end is an empty one.
SendEvent(event) ==
    /\ phase = "idle"
    /\ answer' = event
    /\ Begin("reply", EncodeResult(event))
    /\ UNCHANGED <<reader, sent, heard, result, message, received>>

SendSuccessEvent == \E value \in Arguments : SendEvent(Success(value))

SendErrorEvent ==
    \E code \in Names, text \in Names, details \in Arguments :
        SendEvent(Error(code, text, details))

EndOfStream == SendEvent(NotImplemented)

HandleReply ==
    /\ phase = "reading" /\ kind = "reply" /\ Decoded
    /\ result' = ResultOf(reader)
    /\ phase' = "done"
    /\ UNCHANGED <<kind, writer, reader, sent, heard, answer, message, received>>

Send ==
    /\ phase = "idle"
    /\ message' \in Values
    /\ Begin("message", EncodeMessage(message'))
    /\ UNCHANGED <<reader, sent, heard, answer, result, received>>

HandleMessage ==
    /\ phase = "reading" /\ kind = "message" /\ Decoded
    /\ received' = MessageOf(reader)
    /\ phase' = "done"
    /\ UNCHANGED <<kind, writer, reader, sent, heard, answer, result, message>>

\* The exchange is over; the next one starts from nothing.
Forget ==
    /\ phase = "done"
    /\ phase' = "idle" /\ kind' = "nothing"
    /\ writer' = Writing(<< >>, << >>)
    /\ reader' = Reading(Reader(<< >>), 0)
    /\ sent' = Nothing /\ heard' = Nothing
    /\ answer' = Nothing /\ result' = Nothing
    /\ message' = Nothing /\ received' = Nothing

Next ==
    \/ WriteItem \/ SendFails \/ Deliver \/ ReadItem
    \/ InvokeMethod \/ ForeignCall \/ HandleCall
    \/ AnswerSuccess \/ AnswerError \/ AnswerNotImplemented \/ ForeignReply
    \/ SendSuccessEvent \/ SendErrorEvent \/ EndOfStream
    \/ HandleReply \/ Send \/ HandleMessage \/ Forget

Spec == Init /\ [][Next]_vars

----------------------------------------------------------------------------
(* What the two ends may rely on.                                          *)

\* The handler is given the call that was invoked, with null for arguments
\* that were absent: nothing a value contains, wherever it lies in the
\* message, moves what is read behind it.
CallArrives ==
    sent # Nothing /\ heard # Nothing =>
        heard = [method |-> sent.method, arguments |-> OrNull(sent.arguments)]

\* A null result and an absent one are the same to the caller, and so are the
\* details of an error.
AsRead(r) ==
    CASE r.kind = "success" -> Success(IF r.value = Null THEN Absent ELSE r.value)
      [] r.kind = "error" ->
           Error(r.code, r.message, IF r.details = Null THEN Absent ELSE r.details)
      [] OTHER -> r

\* The result of the caller is called as the handler answered, and the
\* listener of a stream gets the event that was sent.
ReplyArrives ==
    answer # Nothing /\ result # Nothing => result = AsRead(answer)

\* A message is read as it was sent, and to its last byte.
MessageArrives ==
    message # Nothing /\ received # Nothing =>
        /\ received = message
        /\ reader.in.location >= Len(writer.out)
============================================================================
