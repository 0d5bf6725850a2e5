------------------------------ MODULE Channels ------------------------------
(***************************************************************************)
(* Messages from the engine to the channels of the application, and their  *)
(* answers.                                                                *)
(*                                                                         *)
(* The engine delivers a message on the platform thread with a response    *)
(* handle.  ForwardToHandler takes a reference to the messenger and wraps  *)
(* both in a reply function, which may be called on any thread, at any     *)
(* time: also after the engine was shut down.  A method channel puts it    *)
(* into a result that answers once; a basic message channel hands it on    *)
(* as it is, and it may be copied; an event channel answers at once.       *)
(*                                                                         *)
(* Every step of a thread between the lock of the messenger and its unlock *)
(* is an action of its own.  The lock, the references and the response     *)
(* handles belong to the engine, which is not in the repository: they are  *)
(* modelled by what flutter_messenger.h says of them.                      *)
(***************************************************************************)
EXTENDS Naturals, Sequences, FiniteSets

CONSTANTS
    Calls,          \* messages the engine sends
    Workers,        \* threads of the application's plugins
    Platform,       \* the platform thread
    Engine,         \* the engine, as a holder of a reference
    Nobody,         \* no thread, no call
    MaxStreams,     \* bound: stream handlers set one after the other
    MaxResponses    \* bound: responses to a message before the last begins

Threads == Workers \cup {Platform}

ASSUME PlatformAssumption == Platform \notin Workers
ASSUME NobodyAssumption == Nobody \notin Threads \cup Calls /\ Engine \notin Calls
ASSUME BoundsAssumption == MaxStreams \in Nat /\ MaxResponses \in Nat

VARIABLES
    available,      \* the messenger references a running engine
    refs,           \* who holds a reference to the messenger
    lock,           \* the thread that has locked the messenger
    kind,           \* of a call: "unsent", "method", "message", "atOnce"
    reply,          \* of a call and a thread: its reply function is not there,
                    \*   "set", or "used": its response handle is null
    responses,      \* of a call: responses sent on its handle
    at,             \* where a thread is in a reply function
    job,            \* the call it answers
    stream,         \* stream handlers set so far; the last is in use
    streamSet,      \* there is a stream handler
    isListening,    \* is_listening of its closure
    streamCalls     \* OnListen and OnCancel, as the handler got them

messengerVars == <<available, refs, lock>>
replyVars     == <<kind, reply, responses>>
threadVars    == <<at, job>>
streamVars    == <<stream, streamSet, isListening, streamCalls>>
vars == <<messengerVars, replyVars, threadVars, streamVars>>

\* The messenger is freed with the last reference to it.
Freed == refs = {}

Init ==
    /\ available = TRUE /\ refs = {Engine} /\ lock = Nobody
    /\ kind = [c \in Calls |-> "unsent"]
    /\ reply = [c \in Calls |-> [t \in Threads |-> "none"]]
    /\ responses = [c \in Calls |-> 0]
    /\ at = [t \in Threads |-> "idle"]
    /\ job = [t \in Threads |-> Nobody]
    /\ stream = 0 /\ streamSet = FALSE
    /\ isListening = FALSE /\ streamCalls = << >>

Idle(t) == at[t] = "idle"

----------------------------------------------------------------------------
(* Delivery on the platform thread.                                        *)

\* ForwardToHandler: a reference, and a reply function with the handle.
Forward(c, k) ==
    /\ available /\ Idle(Platform) /\ kind[c] = "unsent"
    /\ kind' = [kind EXCEPT ![c] = k]
    /\ refs' = refs \cup {c}
    /\ reply' = [reply EXCEPT ![c][Platform] = "set"]
    /\ UNCHANGED <<available, lock, responses>>

\* A reply function is called, or a result.
StartReply(t, c) ==
    /\ at' = [at EXCEPT ![t] = "locking"]
    /\ job' = [job EXCEPT ![t] = c]

\* The handler has the result or the reply: it answers, keeps it, passes it
\* on or drops it, in the actions below.
ReceiveCall ==
    \E c \in Calls, k \in {"method", "message"} :
        Forward(c, k) /\ UNCHANGED <<threadVars, streamVars>>

\* A message that is no method call, or neither "listen" nor "cancel", is
\* answered by the channel itself.
ReceiveUndecodable ==
    \E c \in Calls :
        Forward(c, "atOnce") /\ StartReply(Platform, c) /\ UNCHANGED streamVars

\* mutant: the stream of an earlier listen is not cancelled
ReceiveListenAgain ==
    \E c \in Calls :
        /\ streamSet
        /\ Forward(c, "atOnce") /\ StartReply(Platform, c)
        /\ isListening' = TRUE
        /\ streamCalls' = Append(streamCalls, "OnListen")
        /\ UNCHANGED <<stream, streamSet>>

\* A second listen cancels the stream of the first.  Whether OnListen and
\* OnCancel fail changes the answer and nothing else.
ReceiveListen ==
    \E c \in Calls :
        /\ streamSet
        /\ Forward(c, "atOnce") /\ StartReply(Platform, c)
        /\ isListening' = TRUE
        /\ streamCalls' =
             streamCalls \o (IF isListening THEN <<"OnCancel">> ELSE << >>)
                         \o <<"OnListen">>
        /\ UNCHANGED <<stream, streamSet>>

\* Without a stream the answer is an error and the handler is not called.
ReceiveCancel ==
    \E c \in Calls :
        /\ streamSet
        /\ Forward(c, "atOnce") /\ StartReply(Platform, c)
        /\ isListening' = FALSE
        /\ streamCalls' =
             IF isListening THEN Append(streamCalls, "OnCancel") ELSE streamCalls
        /\ UNCHANGED <<stream, streamSet>>

\* The closure of the previous handler goes with its flag and its handler.
SetStreamHandler ==
    /\ Idle(Platform) /\ stream < MaxStreams
    /\ stream' = stream + 1
    /\ streamSet' \in BOOLEAN
    /\ isListening' = FALSE
    /\ streamCalls' = << >>
    /\ UNCHANGED <<messengerVars, replyVars, threadVars>>

\* The engine is destroyed on the platform thread and waits for the lock.
Shutdown ==
    /\ available /\ Idle(Platform) /\ lock = Nobody
    /\ available' = FALSE
    /\ refs' = refs \ {Engine}
    /\ UNCHANGED <<lock, replyVars, threadVars, streamVars>>

----------------------------------------------------------------------------
(* Reply functions and results in the hands of the application.            *)

\* A copy of the reply function is somewhere.  A result lets go of its own
\* when it has answered.
HasFunction(c, t) ==
    reply[c][t] = "set" \/ (reply[c][t] = "used" /\ kind[c] = "message")

\* mutant: every copy that goes releases the messenger
ReleaseWithEveryCopy(c, t) == refs' = refs \ {c}

\* The messenger is released with the last copy.
ReleaseUnlessCopied(c, t) ==
    refs' = IF \E u \in Threads \ {t} : HasFunction(c, u) THEN refs
            ELSE refs \ {c}

\* A result that has answered ignores a second answer.
Respond(t) ==
    \E c \in Calls :
        /\ Idle(t) /\ HasFunction(c, t) /\ responses[c] < MaxResponses
        /\ StartReply(t, c)
        /\ UNCHANGED <<messengerVars, replyVars, streamVars>>

\* mutant: both threads have the result
PassOnAsCopy(t) ==
    \E c \in Calls, u \in Threads \ {t} :
        /\ Idle(t) /\ kind[c] = "method" /\ reply[c][t] # "none"
        /\ reply' = [reply EXCEPT ![c][u] = reply[c][t]]
        /\ UNCHANGED <<messengerVars, kind, responses, threadVars, streamVars>>

\* A result has one owner; it is passed on to another thread.
PassOn(t) ==
    \E c \in Calls, u \in Threads \ {t} :
        /\ Idle(t) /\ kind[c] = "method" /\ reply[c][t] # "none"
        /\ reply' = [reply EXCEPT ![c][u] = reply[c][t], ![c][t] = "none"]
        /\ UNCHANGED <<messengerVars, kind, responses, threadVars, streamVars>>

\* A reply of a message is a std::function: a copy has its own handle.
Copy(t) ==
    \E c \in Calls, u \in Threads \ {t} :
        /\ Idle(t) /\ kind[c] = "message" /\ reply[c][t] # "none"
        /\ reply[c][u] = "none"
        /\ reply' = [reply EXCEPT ![c][u] = reply[c][t]]
        /\ UNCHANGED <<messengerVars, kind, responses, threadVars, streamVars>>

\* Also without having answered, which only prints a warning.
Drop(t) ==
    \E c \in Calls :
        /\ Idle(t) /\ reply[c][t] # "none"
        /\ reply' = [reply EXCEPT ![c][t] = "none"]
        /\ ReleaseUnlessCopied(c, t)
        /\ UNCHANGED <<available, lock, kind, responses, threadVars, streamVars>>

----------------------------------------------------------------------------
(* The reply function, step by step.                                       *)

Step(t, from, to) == at[t] = from /\ at' = [at EXCEPT ![t] = to]

\* mutant: the answer is given without the lock
LockSkipped(t) ==
    /\ Step(t, "locking", "checking")
    /\ UNCHANGED <<messengerVars, replyVars, job, streamVars>>

Lock(t) ==
    /\ Step(t, "locking", "checking")
    /\ lock = Nobody /\ lock' = t
    /\ UNCHANGED <<available, refs, replyVars, job, streamVars>>

\* An answer after the engine was destroyed is dropped, and so is one
\* without a handle.
Check(t) ==
    /\ Step(t, "checking",
            IF available /\ reply[job[t]][t] = "set" THEN "sending" ELSE "unlocking")
    /\ UNCHANGED <<messengerVars, replyVars, job, streamVars>>

\* The engine frees the handle, which the function forgets.
SendResponse(t) ==
    /\ Step(t, "sending", "unlocking")
    /\ responses' = [responses EXCEPT ![job[t]] = @ + 1]
    /\ reply' = [reply EXCEPT ![job[t]][t] = "used"]
    /\ UNCHANGED <<messengerVars, kind, job, streamVars>>

\* mutant: the lock is not given back
UnlockForgotten(t) ==
    /\ Step(t, "unlocking", "leaving")
    /\ UNCHANGED <<messengerVars, replyVars, job, streamVars>>

Unlock(t) ==
    /\ Step(t, "unlocking", "leaving")
    /\ lock' = IF lock = t THEN Nobody ELSE lock
    /\ UNCHANGED <<available, refs, replyVars, job, streamVars>>

\* A result forgets its function, answered or not; the function of a call
\* that was answered at once ends with the call.
Leave(t) ==
    LET c == job[t]
    IN  /\ Step(t, "leaving", "idle")
        /\ job' = [job EXCEPT ![t] = Nobody]
        /\ CASE kind[c] = "method" ->
                  /\ reply' = [reply EXCEPT ![c][t] = "used"]
                  /\ ReleaseUnlessCopied(c, t)
             [] kind[c] = "atOnce" ->
                  /\ reply' = [reply EXCEPT ![c][t] = "none"]
                  /\ ReleaseUnlessCopied(c, t)
             [] OTHER -> UNCHANGED <<reply, refs>>
        /\ UNCHANGED <<available, lock, kind, responses, streamVars>>

ReplyStep(t) ==
    Lock(t) \/ Check(t) \/ SendResponse(t) \/ Unlock(t) \/ Leave(t)

Next ==
    \/ ReceiveCall \/ ReceiveUndecodable \/ ReceiveListen \/ ReceiveCancel
    \/ SetStreamHandler \/ Shutdown
    \/ \E t \in Threads : Respond(t) \/ PassOn(t) \/ Copy(t) \/ Drop(t) \/ ReplyStep(t)

\* A thread inside a reply function goes on, and gets the lock when it is
\* free again and again.
Fairness ==
    \A t \in Threads :
        /\ WF_vars(Check(t)) /\ WF_vars(SendResponse(t))
        /\ WF_vars(Unlock(t)) /\ WF_vars(Leave(t))
        /\ SF_vars(Lock(t))

Spec == Init /\ [][Next]_vars /\ Fairness

----------------------------------------------------------------------------
TypeOK ==
    /\ available \in BOOLEAN
    /\ refs \subseteq Calls \cup {Engine}
    /\ lock \in Threads \cup {Nobody}
    /\ kind \in [Calls -> {"unsent", "method", "message", "atOnce"}]
    /\ reply \in [Calls -> [Threads -> {"none", "set", "used"}]]
    /\ responses \in [Calls -> Nat]
    /\ at \in [Threads -> {"idle", "locking", "checking", "sending", "unlocking", "leaving"}]
    /\ job \in [Threads -> Calls \cup {Nobody}]
    /\ \A t \in Threads : job[t] = Nobody <=> Idle(t)
    /\ stream \in 0 .. MaxStreams
    /\ streamSet \in BOOLEAN /\ isListening \in BOOLEAN
    /\ streamCalls \in Seq({"OnListen", "OnCancel"})

\* A response is only sent to a running engine, whatever thread answers and
\* whenever the engine is destroyed: nobody can be between the check and
\* the response while it goes.
NoResponseAfterShutdown ==
    \A t \in Threads : at[t] = "sending" => available

\* What became of a call, as the engine sees it.
Life(c) ==
    LET held == \E t \in Threads : HasFunction(c, t)
    IN  CASE kind[c] = "unsent" -> "unsent"
          [] kind[c] = "message" -> IF held THEN "often" ELSE "dropped"
          [] OTHER -> IF responses[c] > 0 THEN "answered"
                      ELSE IF held THEN "once" ELSE "dropped"

\* Answers are given as Replies promises: the handle of a call is used at
\* most once, on whatever thread its result ends up and how often it is
\* answered, and only while the engine runs and somebody has the result.
\* A message can be answered with each copy of its reply.
Promise == INSTANCE Replies WITH
    running <- available, life <- [c \in Calls |-> Life(c)], answers <- responses
AnswersAsPromised == Promise!Spec

\* A thread that locks, asks or unlocks the messenger has a reference to it,
\* and so has everybody who may still answer.
MessengerOutlivesReplies ==
    \A t \in Threads :
        /\ at[t] \in {"locking", "checking", "sending", "unlocking"} => ~Freed
        /\ \A c \in Calls : HasFunction(c, t) => c \in refs

\* A stream handler gets OnListen and OnCancel in turns, beginning with
\* OnListen, whatever requests come from the other side and whatever fails.
StreamCallsAlternate ==
    \A i \in DOMAIN streamCalls :
        streamCalls[i] = IF i % 2 = 1 THEN "OnListen" ELSE "OnCancel"

\* What the channel answers itself is answered: the engine cannot be
\* destroyed meanwhile and the lock is always given back.
ChannelAnswers ==
    \A c \in Calls : kind[c] = "atOnce" ~> responses[c] = 1
============================================================================
