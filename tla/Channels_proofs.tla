--------------------------- MODULE Channels_proofs --------------------------
(***************************************************************************)
(* The safety properties of Channels for any number of messages, threads,  *)
(* stream handlers and answers.                                            *)
(***************************************************************************)
EXTENDS Channels, TLAPS

\* Who is between the lock and the unlock holds the lock, and while somebody
\* answers the engine runs.
LockInv ==
    /\ \A t \in Threads : at[t] \in {"checking", "sending", "unlocking"} => lock = t
    /\ NoResponseAfterShutdown

\* Only the reply of a message is ever in two places, and a handle that is
\* still set has not been used.
RepliesInv ==
    \A c \in Calls :
        /\ kind[c] = "unsent" =>
             /\ responses[c] = 0
             /\ \A t \in Threads : reply[c][t] = "none"
        /\ kind[c] # "message" =>
             /\ responses[c] <= 1
             /\ \A t \in Threads : reply[c][t] = "set" => responses[c] = 0
             /\ \A t, u \in Threads : reply[c][t] # "none" /\ reply[c][u] # "none" => t = u

\* A thread that answers has the reply function and a reference.
BusyInv ==
    \A t \in Threads : ~Idle(t) =>
        /\ reply[job[t]][t] # "none"
        /\ job[t] \in refs
        /\ at[t] = "sending" => reply[job[t]][t] = "set"

HoldersInv == \A c \in Calls, t \in Threads : HasFunction(c, t) => c \in refs

\* The handler listens when its last call was OnListen.
StreamInv ==
    /\ isListening <=> Len(streamCalls) % 2 = 1
    /\ StreamCallsAlternate

----------------------------------------------------------------------------
(* The steps that several proofs look into.                                *)

\* A message goes to a reply function in the hands of the platform thread.
LEMMA ForwardFacts ==
    ASSUME TypeOK, NEW c \in Calls, NEW k \in {"method", "message", "atOnce"}, Forward(c, k)
    PROVE  /\ kind' \in [Calls -> {"unsent", "method", "message", "atOnce"}]
           /\ reply' \in [Calls -> [Threads -> {"none", "set", "used"}]]
           /\ refs' = refs \cup {c}
           /\ kind'[c] = k /\ kind[c] = "unsent"
           /\ reply'[c][Platform] = "set"
           /\ \A t \in Threads \ {Platform} : reply'[c][t] = reply[c][t]
           /\ \A d \in Calls \ {c} : kind'[d] = kind[d] /\ reply'[d] = reply[d]
           /\ available /\ Idle(Platform)
           /\ UNCHANGED <<available, lock, responses>>
<1>1. Platform \in Threads
  BY DEF Threads
<1> QED BY <1>1 DEF Forward, TypeOK

\* Every received message is forwarded; all but those for a handler are
\* answered by the platform thread at once.
LEMMA ReceiveFacts ==
    ASSUME ReceiveCall \/ ReceiveUndecodable \/ ReceiveListen \/ ReceiveCancel
    PROVE  \E c \in Calls, k \in {"method", "message", "atOnce"} :
             Forward(c, k) /\ (StartReply(Platform, c) \/ UNCHANGED threadVars)
BY DEF ReceiveCall, ReceiveUndecodable, ReceiveListen, ReceiveCancel

LEMMA ReleaseFacts ==
    ASSUME NEW c, NEW t \in Threads, ReleaseUnlessCopied(c, t)
    PROVE  /\ refs \ {c} \subseteq refs' /\ refs' \subseteq refs
           /\ (\E u \in Threads \ {t} : HasFunction(c, u)) => refs' = refs
BY DEF ReleaseUnlessCopied

----------------------------------------------------------------------------
LEMMA StreamTypes ==
    /\ << >> \in Seq({"OnListen", "OnCancel"})
    /\ <<"OnListen">> \in Seq({"OnListen", "OnCancel"})
    /\ <<"OnCancel">> \in Seq({"OnListen", "OnCancel"})
    /\ \A s \in Seq({"OnListen", "OnCancel"}) :
         /\ Append(s, "OnCancel") \in Seq({"OnListen", "OnCancel"})
         /\ s \o << >> \o <<"OnListen">> \in Seq({"OnListen", "OnCancel"})
         /\ s \o <<"OnCancel">> \o <<"OnListen">> \in Seq({"OnListen", "OnCancel"})
OBVIOUS

LEMMA TypeInit == Init => TypeOK
<1> SUFFICES ASSUME Init PROVE TypeOK
  OBVIOUS
<1>1. stream \in 0 .. MaxStreams /\ streamCalls \in Seq({"OnListen", "OnCancel"})
  BY BoundsAssumption, StreamTypes DEF Init
<1>2. /\ kind \in [Calls -> {"unsent", "method", "message", "atOnce"}]
      /\ reply \in [Calls -> [Threads -> {"none", "set", "used"}]]
      /\ responses \in [Calls -> Nat]
  BY DEF Init
<1>3. /\ at \in [Threads -> {"idle", "locking", "checking", "sending", "unlocking", "leaving"}]
      /\ job \in [Threads -> Calls \cup {Nobody}]
      /\ \A t \in Threads : job[t] = Nobody <=> Idle(t)
  BY DEF Init, Idle
<1> QED BY <1>1, <1>2, <1>3 DEF Init, TypeOK

LEMMA TypeStep == TypeOK /\ [Next]_vars => TypeOK'
<1> SUFFICES ASSUME TypeOK, [Next]_vars PROVE TypeOK'
  OBVIOUS
<1> USE DEF TypeOK, Idle
<1>0. Platform \in Threads
  BY DEF Threads
<1>1. ASSUME ReceiveCall \/ ReceiveUndecodable \/ ReceiveListen \/ ReceiveCancel
      PROVE  TypeOK'
  <2>1. PICK c \in Calls, k \in {"method", "message", "atOnce"} :
            Forward(c, k) /\ (StartReply(Platform, c) \/ UNCHANGED threadVars)
    BY <1>1, ReceiveFacts
  <2>2. /\ kind' \in [Calls -> {"unsent", "method", "message", "atOnce"}]
        /\ reply' \in [Calls -> [Threads -> {"none", "set", "used"}]]
        /\ refs' = refs \cup {c}
        /\ UNCHANGED <<available, lock, responses>>
    BY <2>1, ForwardFacts
  <2>3. /\ at' \in [Threads -> {"idle", "locking", "checking", "sending", "unlocking", "leaving"}]
        /\ job' \in [Threads -> Calls \cup {Nobody}]
        /\ \A t \in Threads : job'[t] = Nobody <=> at'[t] = "idle"
    BY <2>1, <1>0, NobodyAssumption, ZenonT(90) DEF StartReply, threadVars
  <2>4. /\ stream' \in 0 .. MaxStreams
        /\ streamSet' \in BOOLEAN /\ isListening' \in BOOLEAN
        /\ streamCalls' \in Seq({"OnListen", "OnCancel"})
    <3>1. CASE ReceiveCall \/ ReceiveUndecodable
      BY <3>1 DEF ReceiveCall, ReceiveUndecodable, streamVars
    <3>2. CASE ReceiveListen
      <4>1. \/ streamCalls' = streamCalls \o << >> \o <<"OnListen">>
            \/ streamCalls' = streamCalls \o <<"OnCancel">> \o <<"OnListen">>
        BY <3>2 DEF ReceiveListen
      <4>2. streamCalls' \in Seq({"OnListen", "OnCancel"})
        BY <4>1, StreamTypes
      <4> QED BY <3>2, <4>2 DEF ReceiveListen
    <3>3. CASE ReceiveCancel
      <4>1. streamCalls' = IF isListening THEN Append(streamCalls, "OnCancel") ELSE streamCalls
        BY <3>3 DEF ReceiveCancel
      <4>2. streamCalls' \in Seq({"OnListen", "OnCancel"})
        BY <4>1, StreamTypes
      <4> QED BY <3>3, <4>2 DEF ReceiveCancel
    <3> QED BY <1>1, <3>1, <3>2, <3>3
  <2> QED BY <2>2, <2>3, <2>4
<1>2. CASE SetStreamHandler
  <2>1. stream' \in 0 .. MaxStreams /\ streamCalls' \in Seq({"OnListen", "OnCancel"})
    BY <1>2, BoundsAssumption, StreamTypes DEF SetStreamHandler
  <2>2. streamSet' \in BOOLEAN /\ isListening' \in BOOLEAN
    BY <1>2 DEF SetStreamHandler
  <2>3. UNCHANGED <<messengerVars, replyVars, threadVars>>
    BY <1>2 DEF SetStreamHandler
  <2> QED BY <2>1, <2>2, <2>3 DEF messengerVars, replyVars, threadVars
<1>3. CASE Shutdown
  BY <1>3 DEF Shutdown, replyVars, threadVars, streamVars
<1>4. ASSUME NEW t \in Threads, Respond(t) PROVE TypeOK'
  BY <1>4, NobodyAssumption DEF Respond, StartReply, messengerVars, replyVars, streamVars
<1>5. ASSUME NEW t \in Threads, PassOn(t) PROVE TypeOK'
  BY <1>5 DEF PassOn, messengerVars, threadVars, streamVars
<1>6. ASSUME NEW t \in Threads, Copy(t) PROVE TypeOK'
  BY <1>6 DEF Copy, messengerVars, threadVars, streamVars
<1>7. ASSUME NEW t \in Threads, Drop(t) PROVE TypeOK'
  BY <1>7 DEF Drop, ReleaseUnlessCopied, threadVars, streamVars
<1>8. ASSUME NEW t \in Threads, Lock(t) PROVE TypeOK'
  BY <1>8 DEF Lock, Step, replyVars, streamVars
<1>9. ASSUME NEW t \in Threads, Check(t) PROVE TypeOK'
  BY <1>9 DEF Check, Step, messengerVars, replyVars, streamVars
<1>10. ASSUME NEW t \in Threads, SendResponse(t) PROVE TypeOK'
  <2>1. job[t] \in Calls
    BY <1>10 DEF SendResponse, Step
  <2> QED BY <1>10, <2>1 DEF SendResponse, Step, messengerVars, streamVars
<1>11. ASSUME NEW t \in Threads, Unlock(t) PROVE TypeOK'
  BY <1>11 DEF Unlock, Step, replyVars, streamVars
<1>12. ASSUME NEW t \in Threads, Leave(t) PROVE TypeOK'
  <2>1. job[t] \in Calls
    BY <1>12 DEF Leave, Step
  <2>2. reply' \in [Calls -> [Threads -> {"none", "set", "used"}]] /\ refs' \subseteq refs
    <3>1. CASE ReleaseUnlessCopied(job[t], t)
               /\ \E end \in {"used", "none"} : reply' = [reply EXCEPT ![job[t]][t] = end]
      <4>1. refs' \subseteq refs
        BY <3>1, ReleaseFacts
      <4> QED BY <3>1, <4>1, <2>1
    <3>2. CASE UNCHANGED <<reply, refs>>
      BY <3>2
    <3> QED BY <1>12, <3>1, <3>2 DEF Leave
  <2>3. /\ at' \in [Threads -> {"idle", "locking", "checking", "sending", "unlocking", "leaving"}]
        /\ job' \in [Threads -> Calls \cup {Nobody}]
        /\ \A u \in Threads : job'[u] = Nobody <=> at'[u] = "idle"
    BY <1>12 DEF Leave, Step
  <2> QED BY <1>12, <2>2, <2>3 DEF Leave, streamVars
<1>13. CASE UNCHANGED vars
  BY <1>13 DEF vars, messengerVars, replyVars, threadVars, streamVars
<1> QED
  BY <1>1, <1>2, <1>3, <1>4, <1>5, <1>6, <1>7, <1>8, <1>9, <1>10, <1>11, <1>12, <1>13
     DEF Next, ReplyStep

----------------------------------------------------------------------------
\* Outside a reply function nobody touches the lock, and only a thread that
\* holds it is in front of the response.
LEMMA LockStep == TypeOK /\ LockInv /\ [Next]_vars => LockInv'
<1> SUFFICES ASSUME TypeOK, LockInv, [Next]_vars PROVE LockInv'
  OBVIOUS
<1> USE DEF LockInv, NoResponseAfterShutdown, TypeOK, Idle
<1>0. Platform \in Threads /\ Nobody \notin Threads
  BY NobodyAssumption DEF Threads
<1>1. ASSUME ReceiveCall \/ ReceiveUndecodable \/ ReceiveListen \/ ReceiveCancel
      PROVE  LockInv'
  <2>1. PICK c \in Calls, k \in {"method", "message", "atOnce"} :
            Forward(c, k) /\ (StartReply(Platform, c) \/ UNCHANGED threadVars)
    BY <1>1, ReceiveFacts
  <2> QED BY <2>1, <1>0 DEF Forward, StartReply, threadVars
<1>2. CASE SetStreamHandler
  BY <1>2 DEF SetStreamHandler, messengerVars, threadVars
<1>3. CASE Shutdown
  BY <1>3, <1>0 DEF Shutdown, threadVars
<1>4. ASSUME NEW t \in Threads, Respond(t) PROVE LockInv'
  BY <1>4 DEF Respond, StartReply, messengerVars
<1>5. ASSUME NEW t \in Threads, PassOn(t) \/ Copy(t) \/ Drop(t) PROVE LockInv'
  BY <1>5 DEF PassOn, Copy, Drop, messengerVars, threadVars
<1>6. ASSUME NEW t \in Threads, Lock(t) PROVE LockInv'
  BY <1>6, <1>0 DEF Lock, Step
<1>7. ASSUME NEW t \in Threads, Check(t) PROVE LockInv'
  BY <1>7 DEF Check, Step, messengerVars
<1>8. ASSUME NEW t \in Threads, SendResponse(t) PROVE LockInv'
  BY <1>8 DEF SendResponse, Step, messengerVars
<1>9. ASSUME NEW t \in Threads, Unlock(t) PROVE LockInv'
  BY <1>9 DEF Unlock, Step
<1>10. ASSUME NEW t \in Threads, Leave(t) PROVE LockInv'
  BY <1>10 DEF Leave, Step
<1>11. CASE UNCHANGED vars
  BY <1>11 DEF vars, messengerVars, threadVars
<1> QED
  BY <1>1, <1>2, <1>3, <1>4, <1>5, <1>6, <1>7, <1>8, <1>9, <1>10, <1>11
     DEF Next, ReplyStep

----------------------------------------------------------------------------
\* The handle of a reply that is in one place only is used once.
LEMMA RepliesStep == TypeOK /\ RepliesInv /\ BusyInv /\ [Next]_vars => RepliesInv'
<1> SUFFICES ASSUME TypeOK, RepliesInv, BusyInv, [Next]_vars PROVE RepliesInv'
  OBVIOUS
<1> USE DEF RepliesInv, TypeOK, Idle
<1>0. Platform \in Threads
  BY DEF Threads
<1>1. ASSUME ReceiveCall \/ ReceiveUndecodable \/ ReceiveListen \/ ReceiveCancel
      PROVE  RepliesInv'
  <2>1. PICK c \in Calls, k \in {"method", "message", "atOnce"} :
            Forward(c, k) /\ (StartReply(Platform, c) \/ UNCHANGED threadVars)
    BY <1>1, ReceiveFacts
  <2>2. /\ kind'[c] = k /\ kind[c] = "unsent" /\ responses'[c] = 0
        /\ reply'[c][Platform] = "set"
        /\ \A t \in Threads \ {Platform} : reply'[c][t] = "none"
        /\ \A d \in Calls \ {c} :
             kind'[d] = kind[d] /\ reply'[d] = reply[d] /\ responses'[d] = responses[d]
    BY <2>1, ForwardFacts
  <2> QED BY <2>2
<1>2. CASE SetStreamHandler \/ Shutdown
  BY <1>2 DEF SetStreamHandler, Shutdown, replyVars
<1>3. ASSUME NEW t \in Threads, Respond(t) \/ Lock(t) \/ Check(t) \/ Unlock(t)
      PROVE  RepliesInv'
  BY <1>3 DEF Respond, Lock, Check, Unlock, replyVars
<1>4. ASSUME NEW t \in Threads, PassOn(t) PROVE RepliesInv'
  BY <1>4 DEF PassOn
<1>5. ASSUME NEW t \in Threads, Copy(t) PROVE RepliesInv'
  BY <1>5 DEF Copy
<1>6. ASSUME NEW t \in Threads, Drop(t) PROVE RepliesInv'
  BY <1>6 DEF Drop
<1>7. ASSUME NEW t \in Threads, SendResponse(t) PROVE RepliesInv'
  <2>1. job[t] \in Calls /\ reply[job[t]][t] = "set"
    BY <1>7 DEF SendResponse, Step, BusyInv
  <2> QED BY <1>7, <2>1 DEF SendResponse, Step
<1>8. ASSUME NEW t \in Threads, Leave(t) PROVE RepliesInv'
  <2>1. job[t] \in Calls /\ reply[job[t]][t] # "none"
    BY <1>8 DEF Leave, Step, BusyInv
  <2>2. /\ UNCHANGED <<kind, responses>>
        /\ \/ UNCHANGED reply
           \/ \E end \in {"used", "none"} : reply' = [reply EXCEPT ![job[t]][t] = end]
    BY <1>8 DEF Leave
  <2>3. CASE UNCHANGED reply
    BY <2>2, <2>3
  <2>4. ASSUME NEW end \in {"used", "none"}, reply' = [reply EXCEPT ![job[t]][t] = end]
        PROVE  RepliesInv'
    <3>1. \A c \in Calls, u \in Threads :
            \/ reply'[c][u] = reply[c][u]
            \/ c = job[t] /\ u = t /\ reply'[c][u] # "set"
      BY <2>1, <2>4
    <3>2. \A c \in Calls, u \in Threads :
            /\ reply'[c][u] # "none" => reply[c][u] # "none"
            /\ reply'[c][u] = "set" => reply[c][u] = "set"
      BY <2>1, <3>1
    <3> QED BY <2>2, <3>2
  <2> QED BY <2>2, <2>3, <2>4
<1>9. CASE UNCHANGED vars
  BY <1>9 DEF vars, replyVars
<1> QED
  BY <1>1, <1>2, <1>3, <1>4, <1>5, <1>6, <1>7, <1>8, <1>9 DEF Next, ReplyStep

----------------------------------------------------------------------------
\* Whoever lets go of the last copy is not the one who still answers.
LEMMA HoldersStep ==
    TypeOK /\ RepliesInv /\ BusyInv /\ HoldersInv /\ [Next]_vars
        => BusyInv' /\ HoldersInv'
<1> SUFFICES ASSUME TypeOK, RepliesInv, BusyInv, HoldersInv, [Next]_vars
             PROVE  BusyInv' /\ HoldersInv'
  OBVIOUS
<1> USE DEF TypeOK, Idle, HasFunction
<1>0. Platform \in Threads
  BY DEF Threads
<1>1. ASSUME ReceiveCall \/ ReceiveUndecodable \/ ReceiveListen \/ ReceiveCancel
      PROVE  BusyInv' /\ HoldersInv'
  <2>1. PICK c \in Calls, k \in {"method", "message", "atOnce"} :
            Forward(c, k) /\ (StartReply(Platform, c) \/ UNCHANGED threadVars)
    BY <1>1, ReceiveFacts
  <2>2. /\ refs' = refs \cup {c}
        /\ reply'[c][Platform] = "set"
        /\ \A t \in Threads \ {Platform} : reply'[c][t] = reply[c][t]
        /\ \A d \in Calls \ {c} : kind'[d] = kind[d] /\ reply'[d] = reply[d]
        /\ at[Platform] = "idle"
    BY <2>1, ForwardFacts
  <2>3. /\ \A t \in Threads \ {Platform} : at'[t] = at[t] /\ job'[t] = job[t]
        /\ at'[Platform] # "idle" => at'[Platform] = "locking" /\ job'[Platform] = c
    BY <2>1, <2>2, <1>0 DEF StartReply, threadVars
  <2>4. BusyInv'
    <3>1. \A t \in Threads \ {Platform}, d \in Calls : reply'[d][t] = reply[d][t]
      BY <2>2
    <3>2. ASSUME NEW t \in Threads \ {Platform}, at'[t] # "idle"
          PROVE  /\ reply'[job'[t]][t] # "none" /\ job'[t] \in refs'
                 /\ at'[t] = "sending" => reply'[job'[t]][t] = "set"
      <4>1. at[t] # "idle" /\ job[t] \in Calls
        BY <2>3, <3>2
      <4> QED BY <4>1, <2>2, <2>3, <3>1 DEF BusyInv
    <3> QED BY <3>2, <2>2, <2>3 DEF BusyInv
  <2>5. HoldersInv'
    BY <2>2 DEF HoldersInv
  <2> QED BY <2>4, <2>5
<1>2. CASE SetStreamHandler
  BY <1>2 DEF SetStreamHandler, messengerVars, replyVars, threadVars, BusyInv, HoldersInv
<1>3. CASE Shutdown
  BY <1>3, NobodyAssumption DEF Shutdown, replyVars, threadVars, BusyInv, HoldersInv
<1>4. ASSUME NEW t \in Threads, Respond(t) PROVE BusyInv' /\ HoldersInv'
  BY <1>4 DEF Respond, StartReply, messengerVars, replyVars, BusyInv, HoldersInv
<1>5. ASSUME NEW t \in Threads, PassOn(t) PROVE BusyInv' /\ HoldersInv'
  <2>1. BusyInv'
    <3>1. PICK c \in Calls, u \in Threads \ {t} :
            /\ at[t] = "idle" /\ kind[c] = "method" /\ reply[c][t] # "none"
            /\ reply' = [reply EXCEPT ![c][u] = reply[c][t], ![c][t] = "none"]
            /\ UNCHANGED <<messengerVars, kind, threadVars>>
      BY <1>5 DEF PassOn
    <3>2. \A v \in Threads : reply[c][v] # "none" => v = t
      BY <3>1 DEF RepliesInv
    <3> QED BY <3>1, <3>2 DEF BusyInv, messengerVars, threadVars
  <2>2. HoldersInv'
    BY <1>5 DEF PassOn, HoldersInv, messengerVars
  <2> QED BY <2>1, <2>2
<1>6. ASSUME NEW t \in Threads, Copy(t) PROVE BusyInv' /\ HoldersInv'
  BY <1>6 DEF Copy, BusyInv, HoldersInv, messengerVars, threadVars
<1>7. ASSUME NEW t \in Threads, NEW c \in Calls,
             reply[c][t] # "none",
             \E end \in {"used", "none"} :
                reply' = [reply EXCEPT ![c][t] = end]
                /\ (end = "used" => kind[c] # "message"),
             ReleaseUnlessCopied(c, t), UNCHANGED kind,
             at'[t] = "idle",
             \A u \in Threads \ {t} : at'[u] = at[u] /\ job'[u] = job[u]
      PROVE  BusyInv' /\ HoldersInv'
  <2>1. ASSUME NEW u \in Threads \ {t}, reply[c][u] # "none" PROVE refs' = refs
    <3>1. kind[c] = "message"
      BY <1>7, <2>1 DEF RepliesInv
    <3>2. HasFunction(c, u)
      BY <2>1, <3>1
    <3> QED BY <1>7, <2>1, <3>2, ReleaseFacts
  <2>2. refs \ {c} \subseteq refs'
    BY <1>7, ReleaseFacts
  <2>3. \A d \in Calls, u \in Threads : d # c \/ u # t => reply'[d][u] = reply[d][u]
    BY <1>7
  <2>4. BusyInv'
    BY <1>7, <2>1, <2>2, <2>3 DEF BusyInv
  <2>5. ~HasFunction(c, t)'
    BY <1>7
  <2>6. HoldersInv'
    <3>1. ASSUME NEW d \in Calls, NEW u \in Threads, HasFunction(d, u)'
          PROVE  HasFunction(d, u) /\ (d # c \/ u # t)
      <4>1. d # c \/ u # t
        BY <2>5, <3>1
      <4> QED BY <4>1, <3>1, <1>7, <2>3
    <3>2. ASSUME NEW d \in Calls, NEW u \in Threads, HasFunction(d, u)'
          PROVE  d \in refs'
      <4>1. d \in refs /\ reply[d][u] # "none" /\ (d # c \/ u # t)
        BY <3>1, <3>2 DEF HoldersInv
      <4> QED BY <4>1, <2>1, <2>2
    <3> HIDE DEF HasFunction
    <3> QED BY <3>2 DEF HoldersInv
  <2> QED BY <2>4, <2>6
<1>8. ASSUME NEW t \in Threads, Drop(t) PROVE BusyInv' /\ HoldersInv'
  <2>1. PICK c \in Calls :
          /\ at[t] = "idle" /\ reply[c][t] # "none"
          /\ reply' = [reply EXCEPT ![c][t] = "none"]
          /\ ReleaseUnlessCopied(c, t)
          /\ UNCHANGED <<kind, threadVars>>
    BY <1>8 DEF Drop
  <2>2. \E end \in {"used", "none"} :
            reply' = [reply EXCEPT ![c][t] = end] /\ (end = "used" => kind[c] # "message")
    BY <2>1
  <2> QED BY <2>1, <2>2, <1>7 DEF threadVars
<1>9. ASSUME NEW t \in Threads, Lock(t) \/ Check(t) \/ Unlock(t)
      PROVE  BusyInv' /\ HoldersInv'
  <2>1. /\ UNCHANGED <<refs, reply, kind, job>>
        /\ \A u \in Threads : at'[u] # "idle" => at[u] # "idle"
        /\ \A u \in Threads : at'[u] = "sending" /\ at[u] # "sending"
              => reply[job[u]][u] = "set"
    BY <1>9 DEF Lock, Check, Unlock, Step, messengerVars, replyVars
  <2> QED BY <2>1 DEF BusyInv, HoldersInv
<1>10. ASSUME NEW t \in Threads, SendResponse(t) PROVE BusyInv' /\ HoldersInv'
  <2>1. job[t] \in Calls /\ at[t] = "sending" /\ job[t] \in refs
    BY <1>10 DEF SendResponse, Step, BusyInv
  <2> QED BY <1>10, <2>1 DEF SendResponse, Step, BusyInv, HoldersInv, messengerVars
<1>11. ASSUME NEW t \in Threads, Leave(t) PROVE BusyInv' /\ HoldersInv'
  <2>1. /\ job[t] \in Calls /\ reply[job[t]][t] # "none"
        /\ at'[t] = "idle" /\ UNCHANGED kind
        /\ \A u \in Threads \ {t} : at'[u] = at[u] /\ job'[u] = job[u]
    BY <1>11 DEF Leave, Step, BusyInv
  <2>2. CASE kind[job[t]] \in {"method", "atOnce"}
    <3>1. /\ ReleaseUnlessCopied(job[t], t)
          /\ \E end \in {"used", "none"} : reply' = [reply EXCEPT ![job[t]][t] = end]
      BY <1>11, <2>2 DEF Leave
    <3> QED BY <3>1, <2>1, <2>2, <1>7
  <2>3. CASE kind[job[t]] \notin {"method", "atOnce"}
    <3>1. UNCHANGED <<reply, refs>>
      BY <1>11, <2>3 DEF Leave
    <3> QED BY <3>1, <2>1 DEF BusyInv, HoldersInv
  <2> QED BY <2>2, <2>3
<1>12. CASE UNCHANGED vars
  BY <1>12 DEF vars, messengerVars, replyVars, threadVars, BusyInv, HoldersInv
<1> QED
  BY <1>1, <1>2, <1>3, <1>4, <1>5, <1>6, <1>8, <1>9, <1>10, <1>11, <1>12
     DEF Next, ReplyStep

----------------------------------------------------------------------------
\* A call of the handler is appended where the turn fits.
LEMMA StreamAppend ==
    ASSUME NEW s \in Seq({"OnListen", "OnCancel"}), NEW x \in {"OnListen", "OnCancel"},
           x = IF Len(s) % 2 = 0 THEN "OnListen" ELSE "OnCancel",
           \A i \in DOMAIN s : s[i] = IF i % 2 = 1 THEN "OnListen" ELSE "OnCancel"
    PROVE  /\ Append(s, x) \in Seq({"OnListen", "OnCancel"})
           /\ \A i \in DOMAIN Append(s, x) :
                Append(s, x)[i] = IF i % 2 = 1 THEN "OnListen" ELSE "OnCancel"
           /\ Len(Append(s, x)) % 2 = 1 <=> Len(s) % 2 = 0
<1>1. Len(s) \in Nat /\ Len(Append(s, x)) = Len(s) + 1
  OBVIOUS
<1>2. (Len(s) + 1) % 2 = 1 <=> Len(s) % 2 = 0
  BY <1>1
<1>3. ASSUME NEW i \in DOMAIN Append(s, x)
      PROVE  Append(s, x)[i] = IF i % 2 = 1 THEN "OnListen" ELSE "OnCancel"
  <2>1. CASE i = Len(s) + 1
    <3>1. Append(s, x)[i] = x
      BY <2>1
    <3>2. i % 2 = 1 <=> Len(s) % 2 = 0
      BY <2>1, <1>2
    <3> QED BY <3>1, <3>2
  <2>2. CASE i # Len(s) + 1
    <3>1. i \in DOMAIN s /\ Append(s, x)[i] = s[i]
      BY <2>2, <1>1
    <3> QED BY <3>1
  <2> QED BY <2>1, <2>2
<1>4. Append(s, x) \in Seq({"OnListen", "OnCancel"})
  OBVIOUS
<1> QED BY <1>1, <1>2, <1>3, <1>4

LEMMA StreamStep == TypeOK /\ StreamInv /\ [Next]_vars => StreamInv'
<1> SUFFICES ASSUME TypeOK, StreamInv, [Next]_vars PROVE StreamInv'
  OBVIOUS
<1> USE DEF StreamInv, StreamCallsAlternate
<1>0. /\ streamCalls \in Seq({"OnListen", "OnCancel"}) /\ isListening \in BOOLEAN
      /\ Len(streamCalls) % 2 = 0 \/ Len(streamCalls) % 2 = 1
      /\ isListening <=> Len(streamCalls) % 2 = 1
      /\ \A i \in DOMAIN streamCalls :
           streamCalls[i] = IF i % 2 = 1 THEN "OnListen" ELSE "OnCancel"
  BY DEF TypeOK
<1>1. CASE ReceiveListen
  <2>1. CASE isListening
    <3>1. streamCalls' = Append(Append(streamCalls, "OnCancel"), "OnListen") /\ isListening'
      BY <1>1, <2>1, <1>0 DEF ReceiveListen
    <3> DEFINE cancelled == Append(streamCalls, "OnCancel")
    <3>2. /\ cancelled \in Seq({"OnListen", "OnCancel"})
          /\ \A i \in DOMAIN cancelled :
               cancelled[i] = IF i % 2 = 1 THEN "OnListen" ELSE "OnCancel"
          /\ ~(Len(cancelled) % 2 = 1)
      BY <2>1, <1>0, StreamAppend
    <3>3. Len(cancelled) % 2 = 0
      BY <3>2
    <3> HIDE DEF cancelled
    <3>4. /\ \A i \in DOMAIN Append(cancelled, "OnListen") :
               Append(cancelled, "OnListen")[i] = IF i % 2 = 1 THEN "OnListen" ELSE "OnCancel"
          /\ Len(Append(cancelled, "OnListen")) % 2 = 1
      BY <3>2, <3>3, StreamAppend
    <3> QED BY <3>1, <3>4 DEF cancelled
  <2>2. CASE ~isListening
    <3>1. streamCalls' = Append(streamCalls, "OnListen") /\ isListening'
      BY <1>1, <2>2, <1>0 DEF ReceiveListen
    <3> QED BY <3>1, <2>2, <1>0, StreamAppend
  <2> QED BY <2>1, <2>2
<1>2. CASE ReceiveCancel
  <2>1. CASE isListening
    <3>1. streamCalls' = Append(streamCalls, "OnCancel") /\ ~isListening'
      BY <1>2, <2>1 DEF ReceiveCancel
    <3> QED BY <3>1, <2>1, <1>0, StreamAppend
  <2>2. CASE ~isListening
    <3>1. streamCalls' = streamCalls /\ ~isListening'
      BY <1>2, <2>2 DEF ReceiveCancel
    <3> QED BY <3>1, <2>2, <1>0
  <2> QED BY <2>1, <2>2
<1>3. CASE SetStreamHandler
  <2>1. streamCalls' = << >> /\ ~isListening'
    BY <1>3 DEF SetStreamHandler
  <2> QED BY <2>1
<1>4. CASE UNCHANGED streamVars
  BY <1>4 DEF streamVars
<1>5. ReceiveCall \/ ReceiveUndecodable => UNCHANGED streamVars
  BY DEF ReceiveCall, ReceiveUndecodable
<1>6. Shutdown \/ UNCHANGED vars => UNCHANGED streamVars
  BY DEF Shutdown, vars
<1>7. ASSUME NEW t \in Threads,
             Respond(t) \/ PassOn(t) \/ Copy(t) \/ Drop(t) \/ ReplyStep(t)
      PROVE  UNCHANGED streamVars
  BY <1>7 DEF Respond, PassOn, Copy, Drop, ReplyStep, Lock, Check, SendResponse,
              Unlock, Leave
<1> QED BY <1>1, <1>2, <1>3, <1>4, <1>5, <1>6, <1>7 DEF Next

----------------------------------------------------------------------------
IInv == TypeOK /\ LockInv /\ RepliesInv /\ BusyInv /\ HoldersInv /\ StreamInv

LEMMA InitIInv == Init => IInv
<1> SUFFICES ASSUME Init PROVE IInv
  OBVIOUS
<1>1. LockInv /\ RepliesInv /\ BusyInv /\ HoldersInv
  BY DEF Init, LockInv, NoResponseAfterShutdown, RepliesInv, BusyInv, HoldersInv,
         HasFunction, Idle
<1>2. StreamInv
  BY DEF Init, StreamInv, StreamCallsAlternate
<1> QED BY <1>1, <1>2, TypeInit DEF IInv

LEMMA StepIInv == IInv /\ [Next]_vars => IInv'
BY TypeStep, LockStep, RepliesStep, HoldersStep, StreamStep DEF IInv

LEMMA IInvHolds == Spec => []IInv
BY InitIInv, StepIInv, PTL DEF Spec

\* Channels keeps its types.
THEOREM TypesHold == Spec => []TypeOK
<1>1. IInv => TypeOK
  BY DEF IInv
<1> QED BY <1>1, IInvHolds, PTL

\* No thread responds to an engine that was destroyed.
THEOREM ShutdownIsRespected == Spec => []NoResponseAfterShutdown
<1>1. IInv => NoResponseAfterShutdown
  BY DEF IInv, LockInv
<1> QED BY <1>1, IInvHolds, PTL

\* The handle of a call is used at most once, on whatever thread its result
\* ends up.  For a message this is only true of each copy of its reply.
CallIsAnsweredOnce ==
    \A c \in Calls : kind[c] # "message" => responses[c] <= 1

\* A method call, and a call the channel answers itself, is answered at most
\* once, however its result wanders between the threads.
THEOREM CallsAreAnsweredOnce == Spec => []CallIsAnsweredOnce
<1>1. IInv => CallIsAnsweredOnce
  BY DEF IInv, RepliesInv, CallIsAnsweredOnce
<1> QED BY <1>1, IInvHolds, PTL

\* The messenger is there for every thread that uses it or may still do so.
THEOREM MessengerIsThere == Spec => []MessengerOutlivesReplies
<1>1. IInv => MessengerOutlivesReplies
  BY DEF IInv, BusyInv, HoldersInv, MessengerOutlivesReplies, Freed, Idle
<1> QED BY <1>1, IInvHolds, PTL

\* OnListen and OnCancel are called in turns.
THEOREM StreamCallsTakeTurns == Spec => []StreamCallsAlternate
<1>1. IInv => StreamCallsAlternate
  BY DEF IInv, StreamInv
<1> QED BY <1>1, IInvHolds, PTL

----------------------------------------------------------------------------
(* Channels implements Replies.                                            *)

Held(c) == \E t \in Threads : HasFunction(c, t)

\* A call that keeps its kind, its responses and whether anybody holds its
\* reply function keeps its life.
LEMMA LifeIsKept ==
    ASSUME NEW c \in Calls, kind'[c] = kind[c], responses'[c] = responses[c],
           Held(c)' <=> Held(c)
    PROVE  Life(c)' = Life(c)
BY DEF Life, Held

\* What becomes of every call when the reply functions of one are touched.
LEMMA LivesAreKept ==
    ASSUME NEW c \in Calls, UNCHANGED <<kind, responses>>,
           \A d \in Calls \ {c} : reply'[d] = reply[d],
           Held(c)' <=> Held(c)
    PROVE  \A d \in Calls : Life(d)' = Life(d)
<1>1. ASSUME NEW d \in Calls \ {c} PROVE Held(d)' <=> Held(d)
  BY <1>1 DEF Held, HasFunction
<1> QED BY <1>1, LifeIsKept

\* A thread lets go of a reply function: it may have been the last.
LEMMA FunctionGoes ==
    ASSUME TypeOK, TypeOK', RepliesInv, available' = available,
           NEW c \in Calls, NEW t \in Threads, NEW end \in {"used", "none"},
           reply[c][t] # "none", reply' = [reply EXCEPT ![c][t] = end],
           end = "used" => kind[c] # "message",
           UNCHANGED <<kind, responses>>
    PROVE  Promise!Abandon(c) \/ UNCHANGED Promise!vars
<1> DEFINE L == [d \in Calls |-> Life(d)]
<1>1. \A d \in Calls \ {c} : reply'[d] = reply[d]
  BY DEF TypeOK
<1>2. CASE Held(c)' <=> Held(c)
  <2>1. \A d \in Calls : Life(d)' = Life(d)
    BY <1>1, <1>2, LivesAreKept
  <2> QED BY <2>1 DEF Promise!vars
<1>3. CASE ~(Held(c)' <=> Held(c))
  <2>1. Held(c) /\ ~Held(c)'
    <3>1. ASSUME NEW u \in Threads, HasFunction(c, u)' PROVE HasFunction(c, u)
      <4>1. u # t
        BY <3>1 DEF HasFunction, TypeOK
      <4> QED BY <3>1, <4>1 DEF HasFunction, TypeOK
    <3> QED BY <1>3, <3>1 DEF Held
  <2>2. kind[c] # "unsent"
    BY DEF RepliesInv
  <2>3. ASSUME NEW d \in Calls \ {c} PROVE Life(d)' = Life(d)
    <3>1. Held(d)' <=> Held(d)
      BY <1>1 DEF Held, HasFunction
    <3> QED BY <3>1, LifeIsKept
  <2>4. \/ Life(c) \in {"once", "often"} /\ Life(c)' = "dropped"
        \/ Life(c)' = Life(c)
    <3>1. kind'[c] = kind[c] /\ responses'[c] = responses[c]
      OBVIOUS
    <3> QED BY <2>1, <2>2, <3>1 DEF Life, Held, TypeOK
  <2>5. CASE Life(c)' = Life(c)
    <3>1. \A d \in Calls : Life(d)' = Life(d)
      BY <2>3, <2>5
    <3> QED BY <3>1 DEF Promise!vars
  <2>6. CASE Life(c) \in {"once", "often"} /\ Life(c)' = "dropped"
    <3>1. L' = [L EXCEPT ![c] = "dropped"] /\ L[c] \in {"once", "often"}
      BY <2>3, <2>6
    <3> QED BY <3>1 DEF Promise!Abandon, Promise!Open
  <2> QED BY <2>4, <2>5, <2>6
<1> QED BY <1>2, <1>3

LEMMA ReceiveIsSend ==
    ASSUME TypeOK, TypeOK', RepliesInv, NEW c \in Calls,
           NEW k \in {"method", "message", "atOnce"}, Forward(c, k)
    PROVE  Promise!Send(c)
<1> DEFINE L == [d \in Calls |-> Life(d)]
<1>1. /\ kind'[c] = k /\ kind[c] = "unsent" /\ responses'[c] = 0
      /\ reply'[c][Platform] = "set"
      /\ \A d \in Calls \ {c} :
           kind'[d] = kind[d] /\ reply'[d] = reply[d] /\ responses'[d] = responses[d]
      /\ available /\ UNCHANGED <<available, responses>>
  BY ForwardFacts DEF RepliesInv
<1>2. Held(c)'
  BY <1>1 DEF Held, HasFunction, Threads
<1>3. Life(c) = "unsent" /\ Life(c)' \in {"once", "often"}
  BY <1>1, <1>2 DEF Life, Held
<1>4. ASSUME NEW d \in Calls \ {c} PROVE Life(d)' = Life(d)
  <2>1. Held(d)' <=> Held(d)
    BY <1>1 DEF Held, HasFunction
  <2> QED BY <1>1, <2>1, LifeIsKept
<1>5. L' = [L EXCEPT ![c] = Life(c)'] /\ L[c] = "unsent"
  BY <1>3, <1>4
<1> QED BY <1>1, <1>3, <1>5 DEF Promise!Send, Promise!Open

LEMMA ResponseIsAnswer ==
    ASSUME TypeOK, TypeOK', LockInv, RepliesInv, BusyInv,
           NEW t \in Threads, SendResponse(t)
    PROVE  job[t] \in Calls /\ Promise!Answer(job[t])
<1> DEFINE L == [d \in Calls |-> Life(d)]
<1>1. /\ at[t] = "sending" /\ available
      /\ responses' = [responses EXCEPT ![job[t]] = @ + 1]
      /\ reply' = [reply EXCEPT ![job[t]][t] = "used"]
      /\ UNCHANGED <<available, kind>>
  BY DEF SendResponse, Step, LockInv, NoResponseAfterShutdown, messengerVars
<1>2. PICK c \in Calls : c = job[t] /\ reply[c][t] = "set"
  BY <1>1 DEF TypeOK, BusyInv, Idle
<1>3. /\ \A d \in Calls \ {c} : reply'[d] = reply[d] /\ responses'[d] = responses[d]
      /\ responses'[c] = responses[c] + 1 /\ responses[c] \in Nat
      /\ reply'[c][t] = "used"
  BY <1>1, <1>2 DEF TypeOK
<1>4. ASSUME NEW d \in Calls \ {c} PROVE Life(d)' = Life(d)
  <2>1. Held(d)' <=> Held(d)
    BY <1>1, <1>3 DEF Held, HasFunction
  <2> QED BY <1>1, <1>3, <2>1, LifeIsKept
<1>5. \/ Life(c) = "once" /\ Life(c)' = "answered"
      \/ Life(c) = "often" /\ Life(c)' = "often"
  <2>1. Held(c)
    BY <1>2 DEF Held, HasFunction
  <2>2. CASE kind[c] = "message"
    <3>1. Held(c)'
      BY <1>1, <1>3, <2>2 DEF Held, HasFunction
    <3> QED BY <1>1, <2>1, <2>2, <3>1 DEF Life, Held
  <2>3. CASE kind[c] # "message"
    <3>1. kind[c] # "unsent" /\ responses[c] = 0
      BY <1>2, <2>3 DEF RepliesInv
    <3> QED BY <1>1, <1>3, <2>1, <2>3, <3>1 DEF Life, Held
  <2> QED BY <2>2, <2>3
<1>6. /\ L' = [L EXCEPT ![c] = IF @ = "once" THEN "answered" ELSE @]
      /\ L[c] \in {"once", "often"}
  BY <1>2, <1>4, <1>5
<1> QED BY <1>1, <1>2, <1>6 DEF Promise!Answer, Promise!Open

LEMMA PromiseStep == IInv /\ IInv' /\ [Next]_vars => [Promise!Next]_Promise!vars
<1> SUFFICES ASSUME IInv, IInv', [Next]_vars
             PROVE  Promise!Next \/ UNCHANGED Promise!vars
  BY DEF Promise!vars
<1>0. /\ TypeOK /\ TypeOK' /\ LockInv /\ RepliesInv /\ BusyInv
      /\ Platform \in Threads
  BY DEF IInv, Threads
<1>1. ASSUME ReceiveCall \/ ReceiveUndecodable \/ ReceiveListen \/ ReceiveCancel
      PROVE  Promise!Next
  <2>1. PICK c \in Calls, k \in {"method", "message", "atOnce"} : Forward(c, k)
    BY <1>1, ReceiveFacts
  <2>2. Promise!Send(c)
    BY <1>0, <2>1, ReceiveIsSend
  <2> QED BY <2>2 DEF Promise!Next
<1>2. ASSUME UNCHANGED replyVars PROVE \A d \in Calls : Life(d)' = Life(d)
  BY <1>2 DEF replyVars, Life, HasFunction
<1>3. ASSUME UNCHANGED replyVars, available' = available
      PROVE  UNCHANGED Promise!vars
  <2>1. responses' = responses
    BY <1>3 DEF replyVars
  <2> QED BY <1>2, <1>3, <2>1 DEF Promise!vars
<1>4. CASE SetStreamHandler
  BY <1>3, <1>4 DEF SetStreamHandler, messengerVars
<1>5. CASE Shutdown
  <2>1. /\ UNCHANGED replyVars /\ responses' = responses
        /\ available = TRUE /\ available' = FALSE
    BY <1>0, <1>5 DEF Shutdown, replyVars, TypeOK
  <2>2. Promise!Stop
    BY <1>2, <2>1 DEF Promise!Stop
  <2> QED BY <2>2 DEF Promise!Next
<1>6. ASSUME NEW t \in Threads, Respond(t) \/ Lock(t) \/ Check(t) \/ Unlock(t)
      PROVE  UNCHANGED Promise!vars
  <2>1. UNCHANGED replyVars /\ available' = available
    BY <1>6 DEF Respond, Lock, Check, Unlock, messengerVars
  <2> QED BY <1>3, <2>1
<1>7. ASSUME NEW t \in Threads, PassOn(t) \/ Copy(t) PROVE UNCHANGED Promise!vars
  <2>1. PICK c \in Calls, u \in Threads \ {t} :
          /\ kind[c] \in {"method", "message"} /\ reply[c][t] # "none"
          /\ \/ kind[c] = "method"
                /\ reply' = [reply EXCEPT ![c][u] = reply[c][t], ![c][t] = "none"]
             \/ kind[c] = "message"
                /\ reply' = [reply EXCEPT ![c][u] = reply[c][t]]
          /\ UNCHANGED <<messengerVars, kind, responses>>
    BY <1>7 DEF PassOn, Copy
  <2>2. \A d \in Calls \ {c} : reply'[d] = reply[d]
    BY <1>0, <2>1 DEF TypeOK
  <2>3. Held(c)' <=> Held(c)
    <3>1. CASE kind[c] = "method"
      <4>1. \A v \in Threads \ {t} : reply[c][v] = "none"
        BY <1>0, <2>1, <3>1 DEF RepliesInv
      <4>2. /\ reply'[c][u] = reply[c][t]
            /\ \A v \in Threads \ {u} : reply'[c][v] = "none"
        BY <1>0, <2>1, <3>1, <4>1 DEF TypeOK
      <4> QED BY <2>1, <3>1, <4>1, <4>2 DEF Held, HasFunction
    <3>2. CASE kind[c] = "message"
      <4>1. reply'[c][t] = reply[c][t] /\ reply[c][t] \in {"set", "used"}
        BY <1>0, <2>1, <3>2 DEF TypeOK
      <4> QED BY <2>1, <3>2, <4>1 DEF Held, HasFunction
    <3> QED BY <2>1, <3>1, <3>2
  <2>4. \A d \in Calls : Life(d)' = Life(d)
    BY <2>1, <2>2, <2>3, LivesAreKept
  <2> QED BY <2>1, <2>4 DEF Promise!vars, messengerVars
<1>8. ASSUME NEW t \in Threads, Drop(t)
      PROVE  Promise!Next \/ UNCHANGED Promise!vars
  <2>1. PICK c \in Calls :
          /\ reply[c][t] # "none" /\ reply' = [reply EXCEPT ![c][t] = "none"]
          /\ UNCHANGED <<available, kind, responses>>
    BY <1>8 DEF Drop
  <2>2. Promise!Abandon(c) \/ UNCHANGED Promise!vars
    BY <1>0, <2>1, FunctionGoes
  <2> QED BY <2>2 DEF Promise!Next
<1>9. ASSUME NEW t \in Threads, SendResponse(t) PROVE Promise!Next
  <2>1. job[t] \in Calls /\ Promise!Answer(job[t])
    BY <1>0, <1>9, ResponseIsAnswer
  <2> QED BY <2>1 DEF Promise!Next
<1>10. ASSUME NEW t \in Threads, Leave(t)
       PROVE  Promise!Next \/ UNCHANGED Promise!vars
  <2>1. /\ job[t] \in Calls /\ reply[job[t]][t] # "none"
        /\ UNCHANGED <<available, kind, responses>>
    BY <1>0, <1>10 DEF Leave, Step, BusyInv, TypeOK, Idle
  <2>2. CASE kind[job[t]] \in {"method", "atOnce"}
    <3>1. PICK end \in {"used", "none"} : reply' = [reply EXCEPT ![job[t]][t] = end]
      BY <1>10, <2>2 DEF Leave
    <3>2. Promise!Abandon(job[t]) \/ UNCHANGED Promise!vars
      BY <1>0, <2>1, <2>2, <3>1, FunctionGoes
    <3> QED BY <2>1, <3>2 DEF Promise!Next
  <2>3. CASE kind[job[t]] \notin {"method", "atOnce"}
    <3>1. UNCHANGED replyVars
      BY <1>10, <2>1, <2>3 DEF Leave, replyVars
    <3> QED BY <1>3, <2>1, <3>1
  <2> QED BY <2>2, <2>3
<1>11. CASE UNCHANGED vars
  BY <1>3, <1>11 DEF vars, messengerVars, replyVars
<1> QED
  BY <1>1, <1>4, <1>5, <1>6, <1>7, <1>8, <1>9, <1>10, <1>11 DEF Next, ReplyStep

\* Channels implements Replies: asking whether the engine runs and responding,
\* two steps of a thread with others in between, are one step of the promise;
\* a result that was passed on, answered twice or dropped gives one answer at
\* most, and none once nobody has it.
THEOREM PromiseIsKept == Spec => AnswersAsPromised
<1>1. Init => Promise!Init
  BY DEF Init, Promise!Init, Life
<1> QED BY <1>1, PromiseStep, IInvHolds, PTL DEF Spec, AnswersAsPromised, Promise!Spec
=============================================================================
