# Verification of Bomban Futbol

TLA+ models of Bomban Futbol - the match engine (Flutter/Dart, `lib/src`) and the C++ client wrapper
between its Windows application and the Flutter engine (`windows/flutter/ephemeral`) - checked with TLC, and
theorems about them checked with TLAPS.  The modules are translated from the source; where a
definition stands for a piece of code, `PROJECT.json` ("map") names its lines.

## 1. The system

| Component | State | Operations | Interacts with |
|---|---|---|---|
| Match flow, `match_engine.dart` | `period`, `finished`, `winner`; `_pauseTimer`, `_afterPause`, `varReviewActive`, `_varDecisionResolver`; `restartKind`, `restartTeamId`, `wallSelectionPending`; `activePenalty`, `shootout`; goals and scores; `_forcedSubs`; `replayMode`, `substitutionPaused` | `tick`, `_startPause`, `_startVarDecision`, `resolveVarDecision`, `_scoreGoal`, `_checkPeriodEnd`, `startPenalty`, `takeInteractivePenalty`, `toggleGoalReview`, ... | everything; the screen calls it between ticks |
| Shoot-out, `penalty_logic.dart` | `results` | `nextTeam`, `complete`, `winner` | driven by the engine |
| Squad, `team_game.dart` | slots, bench, `substitutedOut`, `substitutionLog`, limit | `substitute`, `swapPlayerPositions`, `undoLastSubstitution` | engine wraps each call in a pause; cards and injuries take players off |
| Match screen, `game_screen.dart` | which panel is open, pressed keys | `_onTick`, `_onKey`, panels | calls the engine; handles forced substitutions after each tick |
| Cards and suspensions | `disciplinaryEvents`, `isSentOff`, `suspendedMatchesRemaining` | `_issueCard`, `toggleTimelineDecision` | reviews, replay |
| Replay and timeline | `replayFrames`, `timelineEvents` | `_recordReplay`, `openReplay`, edits | goals, cards, penalties |
| Offside | `_offsideCandidate` | `evaluatePass`, `_checkOffsideTouch` | reviews |
| Possession | `BallGame.owner`, `lastPasser`, `potentialAssister` | kicks, receptions | statistics, goals |
| Control | manual player, auto switch, action keys | `_startActionKey`, `switchControlledPlayer` | kicks |
| Tactics, player AI, goalkeeper AI, physics, shots | positions, timers, targets | one update per tick | produce what happens in play |
| Selection | `TeamSetup`, formations | `TeamGame.fromSetup` | start of a match |
| Profiles | injuries, bans, records | `recoverInjuryDays`, `commitMatchStats` | before and after a match |
| Accounts, roster, transfers, storage | `SavedGameData` | transfer requests, ownership, JSON | menu screens |
| Kits, rendering | - | - | - |
| Standard codec, `standard_codec.cc`, `byte_buffer_streams.h` | a stream and a location in it | `WriteValue`, `ReadValue`, sizes, vectors, method calls, envelopes | used by every channel |
| Platform channels, `core_implementations.cc`, `*_channel.h` | handlers per channel, `response_handle`, `reply_handler_`, `is_listening` | `ForwardToHandler`, `SendResponseData`, `SetMessageHandler`, `SetStreamHandler`, `InvokeMethod` | handlers and replies of plugins on any thread; the engine behind its C API |
| Engine, view controller, registrars, `flutter_engine.cc`, `flutter_view_controller.cc`, `plugin_registrar.cc` | `engine_`, `owns_engine_`, `next_frame_callback_`, `plugins_`, delegates | constructors, `Run`, `ShutDown`, `RelinquishEngine`, destructors | the C engine holds plain pointers to all of them |
| Textures, `texture_registrar.h` | registered textures | register, unregister | the raster thread reads them |
| Runner build files, `dart_project.h` | - | - | options only |

The Dart program runs on one thread.  The concurrency of the system is that of an event loop: the ticker
calls `tick`, a person's keys and buttons call the engine between two ticks, closures stored in
`_afterPause` and `_varDecisionResolver` run later, and nothing locks.  Hard are therefore the orders
of events: what may replace a pause that was to do something, which stored closure is stale, what
happens in the rest of a tick after its whistle, and long sequences of legal calls on the squad.

The wrapper is different: replies may be given on any thread while the platform thread shuts the engine
down, the raster thread reads textures that a plugin may want to free, and everything the C engine holds is a
plain pointer, so that the order of the destructors is part of its correctness.  Its codec is a format in which
one byte too few moves everything behind it.

What makes the components correct:

* match flow: a review is decided exactly once and never dropped; the score is the number of goals
  that stand; the ball leaves the goal; the restart fits the decision; the periods follow the rules;
  no pause and no penalty lasts for ever;
* shoot-out: alternation; it stops neither too early nor too late; the result is final;
* squad: everybody is in exactly one place; substitutions are counted and limited; goalkeepers stay
  in goal; dismissed and injured players do not play;
* cards: a dismissal that stands keeps the player off and suspended, whatever else is cancelled;
* codec: the other end reads what was sent, wherever it lies in the message;
* channels: no response to a destroyed engine, one response per handle, the messenger alive as long as a reply
  function may use it, streams opened and cancelled in turns, the lock always given back;
* embedding: what the engine may call exists; plugins can use what they were given until they are gone; the
  engine is destroyed once;
* replay: an index stored with an event denotes its frame;
* roster: a player belongs to one team, a reserved player is not transferred twice.

## 2. Modules

| Module | What it is |
|---|---|
| `MatchPhases` | abstract specification: the order of the periods and one final result, in a league and a knockout match |
| `MatchFlow` | the control flow of a match; implements `MatchPhases` and `Shootout` |
| `Shootout` | the shoot-out on its own, with the five kicks of the code |
| `Shootout_proofs` | theorems about `Shootout` |
| `MatchFlow_proofs` | theorems about `MatchFlow`, whatever people do; it implements `MatchPhases` and `Shootout` |
| `MatchPlay_proofs` | theorems about `MatchFlow` that need some keys left alone |
| `Squad` | the squad of one team during the match |
| `Squad_proofs` | theorems about `Squad` |
| `MCSquad` | small squads for TLC |
| `ByteStreams` | byte streams, sizes, alignment and vectors: pure operators |
| `ByteStreams_proofs` | what is written is read back: theorems about `ByteStreams` |
| `StandardCodec` | values, messages, method calls and envelopes in bytes; extends `ByteStreams` |
| `MethodCodec` | the two ends of a channel that exchange them; extends `StandardCodec` |
| `MethodCodec_proofs` | what is sent arrives: theorems about `MethodCodec` |
| `MCMethodCodec` | names, values and foreign bytes for TLC |
| `Replies` | abstract specification: one answer to a call at most, none once it was dropped or the engine is gone |
| `Channels` | delivery, replies from any thread, streams, shutdown; implements `Replies` |
| `Channels_proofs` | theorems about `Channels`; it implements `Replies` |
| `Embedding` | who owns what around the engine, and the destructors step by step |
| `Embedding_proofs` | theorems about `Embedding` |

**`Shootout`.**  `PenaltyShootout.results` is only ever counted, so `taken` and `scored` stand for it.
`StartKick` is `_tickShootout` without an active penalty, `TakeKick` `takeInteractivePenalty`, `EndKick`
the end of `_tickPenalty`.  Whether a kick is a goal is free.

**`MatchFlow`.**  A pause is `pausing` with `after`, a record that says what the stored closure will do;
a review is `review`, what `_varDecisionResolver` decides about, with the flag `varReview`.  The engine's
helpers are operators (`StartPause`, `StartReview`, `PlaceBall`, `FreeKick`, `AwardPenalty`), the bodies of the
`resolve` closures are `Decide`.  `tick` is split by the point at which it returns: `PauseEnds` (the pause
runs out), `PlayTick` with the incidents of play, `BreakTick` and `FinalWhistleTick` (a whistle, and the rest of
the same tick), `NextShootoutKick`, `PenaltyEnds`.  What one tick of play brings is
an `Incident`: a review that a contact (`FoulOn`), pushing around a corner (`JostleOn`), an offside or a goal starts, or the ball
out of play, or nothing of the kind; and with any of these a `Tackle` may injure, since `_checkInjury` stops neither play nor the
tick.  The model is wider than the code where the code depends on time or place: pushing is possible for
5.2 seconds after a corner, in the model always unless a kickoff or a goal kick waits.  A penalty awarded for it leaves the corner
or free kick waiting (`_placePenalty` does not touch `restartKind`) until `PenaltyEnds` replaces it.  What a person does - `ResolveVar`, `TakeRestart`, `TakePenalty`, `ChooseWall`, `CycleFormation`, the panel,
the replay and its edits - may happen between any two ticks under the guards of `game_screen.dart`.
Time is abstracted: a pause or a period may end at any tick.  Of the ball only `net` and `restart` are kept.
The constant `Interventions` chooses which of the optional events a run allows.

**`Squad`.**  A player stands for his profile; `substitute` makes a new `PlayerGame`, hence `FreshFlags`.
Panel actions are `DropFromBench`, `KeySubstitution`, `Swap` and `Undo`; `SendOff`, `Injure` and `OpponentInjured` come
from the engine; `RemoveInjured` and `ForcedSubstitution` are `_processForcedInjurySubstitution`.  The constant
`Paths` chooses which ways of changing the squad a run allows.

**`ByteStreams`, `StandardCodec`, `MethodCodec`.**  A writer is the sequence of its bytes, a reader a buffer and a
location; a read returns a value and the reader it leaves.  Integers and doubles are their bytes in memory, as
the code copies them with `memcpy`.  `WriteHead` and `ReadHead` are the two switches of `StandardCodecSerializer`; where these
call themselves for the items of a list or a map, the model has a stack of frames, one for each call under way: the
value, and how many of its items are written (`WriteValue`), or the items read so far and how many are left (`ReadValue`).  A
step writes or reads one item or returns from a finished call.  The stack is explicit because it is what the
proofs argue about: an induction over values is beyond the prover, an invariant of the stack is not.  A message, a call
and an envelope are sequences of values in the outermost frame, behind the flag of an envelope.  A read past the end leaves zeros, as
in every caller of the code.  `MethodCodec` lets one end invoke a method, send a message or an event, and the other
decode and answer it; `ForeignCall` and `ForeignReply` are bytes of a JSON codec, or damaged ones.  `SendFails` is the branch of
`BinaryMessengerImpl::Send` in which the reply function is deleted uncalled.

**`Channels`.**  `Forward` is `ForwardToHandler`, with the handler's own first step in the same action.  The reply function is
split where another thread can come between: `Lock`, `Check`, `SendResponse`, `Unlock`, and `Leave`, which is what its caller does
next.  `reply[c][t]` is the copy thread `t` holds, `responses[c]` counts what was sent on the handle.  A `MethodResult` has one
owner (`PassOn`) and answers once; the reply of a basic message is a `std::function` and may be copied (`Copy`).
The stream handler's closure is `isListening` with the calls its handler got.  The lock, references and handles are the
engine's, which is not in the repository; `flutter_messenger.h` says what they do.
`Replies` is what an application and the engine see of it, with answers in one step: the life of a call is "unsent", then to be
answered "once" or (a basic message) "often", at last "answered" or "dropped".  `Life` reads it off `kind`, `responses` and
whether any thread has the reply function.

**`Embedding`.**  The actions are the constructors, the operations of application and plugins, callbacks and the raster
thread; a destructor is a sequence of steps that `teardown` orders: plugins one by one, the members of `PluginRegistrarWindows`,
those of `PluginRegistrar`, the C engine, the `FlutterEngine`.  In between plugins may act, as their destructors do, and the raster
thread goes on.  A plugin uses the wrapper as its headers ask: it has its texture unregistered before it goes.  What the C
engine does is taken from the wrapper's comments and the C headers: it destroys its registrar first and joins the raster thread.

## 3. Runs

| Run | Bounds | Shows |
|---|---|---|
| `Shootout` | 5 kicks, at most 8 per team | seven properties of the shoot-out |
| `ShootoutSuddenDeath` | same | violated: finding 4 |
| `MatchFlowPlay` | Blue a person, 2 goals, 2 kicks (3 at most) | reviews, score, ball, restart and penalties fit together when nobody overwrites a pause; liveness |
| `MatchFlowAll` | Blue a person, 2 goals, 1 kick (2 at most), every intervention | what holds all the same; both refinements |
| `MatchFlowInjury` | two AI teams | violated: finding 1 |
| `MatchFlowReplay` | one person | violated: finding 2 |
| `SquadPanel` | 3 slots, bench of 3, 2 substitutions and a bonus; person or AI | goalkeepers, dismissals, injuries |
| `SquadUndo` | same, 1 substitution and a bonus | nobody is lost, substitutions are counted |
| `SquadUndoSwap` | same | violated: finding 3 |
| `Codec` | 23 values with every type and nesting, 3 names, 4 foreign messages | calls, replies, events and messages arrive as sent |
| `Channels` | 2 messages, 2 threads, 2 stream handlers, 2 responses to a message | no response after shutdown, refinement of `Replies`, lifetime of the messenger, streams; channels answer (liveness) |
| `Embedding` | 2 plugins, 2 delegates, one next frame callback at a time | pointers, order of destruction, textures, ownership |

`CHECK_DEADLOCK FALSE`: a match ends, and a bounded model stops when its goals or kicks are used up.

**Why the bounds are enough.**  `MaxGoals = 2` has a goal cancelled while another stands, for one or for
different teams, and a goal after a cancelled one.  The shoot-out inside `MatchFlow` only needs to reach a
decision in regulation and in sudden death, which one or two kicks do; the arithmetic is checked with
the five kicks of the code in `Shootout`, and with eight kicks at most sudden death has three rounds: its
state depends on the difference of the scores only.  In `Squad` three slots are a goalkeeper and two players who can
swap; the bench holds a goalkeeper and two players, so that one can come on for the other.  The limit is two with one
bonus in `SquadPanel`, and one with one bonus in `SquadUndo`, where it is reached while the bench is not empty.
The values of `Codec` have sizes on both sides of 254, aligned elements of four and of eight bytes at every distance
from the next boundary that names of length 0, 1 and 254 produce, and lists and maps within each other; sizes of
more than two bytes are too long for TLC and are proved.  They leave out a list without elements of more
than one byte that is followed by another value: the writer returns before its padding, the reader skips it, and what follows
is misread (hazard at `standard_codec.cc:279`).  In `Channels` two messages can be of different kinds and two threads can
stand on either side of every step of a reply; a second stream handler replaces the first.  In `Embedding` one plugin
can take back what the other set.  `MaxResponses` bounds only how often the application tries to answer again.

**Fairness.**  The ticker of Flutter keeps calling `_onTick`, so the engine's own steps are weakly
fair: a pause that can end ends, a penalty that was taken is cleared away, a forced substitution is handled, the next
kick of the shoot-out is set up.  `_tickAiPenalty` shoots after a timer, so a penalty of an AI team is fair
too.  Nothing is assumed of people, and nothing of play: no goal, foul or whistle has to happen
(`_attackHasFinished` may delay a whistle for ever).  `PausesEnd` and `PenaltiesAreTaken` accept a substitution panel
that a person leaves open.

In `Channels` a thread inside a reply function goes on (weak fairness of `Check`, `SendResponse`, `Unlock`, `Leave`): there is no
wait in it.  `Lock` is strongly fair: the mutex is free again and again while others reply, and an operating system's
mutex does not starve one thread for ever.  Nothing is assumed of the application: it need not answer.
`ChannelAnswers` is about the messages the event channel answers itself.

## 4. Findings

1. **A review is dropped by a forced substitution** (`MatchFlowInjury`).  A collision of severity 1.30 or more
   injures and stops nothing, so that the same tick may bring a foul, an offside or a goal; the substitution after the tick
   calls `_startPause` without a callback, and the review is gone.  If it was the review of a goal, the ball stays in the goal
   and is counted again in the next tick of play.  The same happens when a person presses V or K or uses the panel during a
   review or after a goal (`MatchFlowPlay.cfg` with `Interventions = {"injury"}`, `{"formation"}` or `{"panel"}` violates
   `BallInNetIsResolved`).
2. **A cancelled goal is followed by a kickoff** (`MatchFlowReplay`).  `toggleGoalReview` does not touch the pause that is
   pending while the replay is open.
3. **Undo after a swap loses a player** (`SquadUndoSwap`).
4. **Sudden death ends after an odd kick** (`ShootoutSuddenDeath`).  `complete` compares the goals with no kick
   remaining before it asks for equal numbers of kicks.

Of the wrapper nothing in the repository is contradicted by a run.  Three places in which it does less than a reader may
expect are in the list of hazards: an empty typed list before another value, a `MethodResult` that is never called
when the engine does not take the message, and a next frame callback that is set again before it has returned.

`undo` also brings an injured player back (`SquadPanel.cfg` with `Paths = {"drag", "undo"}` violates `InjuredLeaves`), and
Enter in the panel replaces a dismissed one, which dragging refuses.  No run has these two, nor key repeat of the formation key, a
handler that replaces itself while it runs, or a next frame callback set again: their hazards are listed without a property.

## 5. Proofs

Every theorem holds for all values of the constants that the named assumptions of the component's module
allow: two different teams, any set of teams played by a person, any bounds, squads of any size.
What is counted by a bounded model (goals, kicks, bonus substitutions) is proved for every bound.

**`Shootout_proofs`.**  `IInv` joins the properties with two facts they need: goals never outnumber
kicks, and a kick that is being prepared fits under the bound.  `NextIInv` has one step per action; the hard
one is a kick beyond regulation, which by `Complete` is only taken while the teams are level or while the second
team answers.  `CompleteIsDecided` is a fact about the arithmetic of `complete`, not about the steps.
`WinnerIsAhead` is where "the winner has more goals" comes from.

**`MatchFlow_proofs`.**  `IInv` is made of six parts by what they are about, so that a step only has to be
argued for the parts it touches: `Course` (periods and result), `Stoppage` (pause, callback, review), `Field`
(ball, restart, wall, penalty), `Tally`, `KickCount` (the shoot-out), `Panels`.  Three strengthenings carry the weight.  A
callback that waits has its pause running, hence none waits when play goes on and a final whistle is blown.
`BreakFollows`: the break in the callback is the one the period ends with, although the pause may be replaced, the score
edited or the match left in the replay before it runs; the refinement of `MatchPhases` and the emptiness of
the shoot-out's period rest on it.  And a forced panel has its victim in the queue.  Lemmas say once for each helper of
the engine (`StartPause`, `PlaceBall`, `AwardPenalty`, `CountGoal`, ...) what it keeps; `DecideKeeps` goes through the six
branches of a decision, `QuietStep` and `InterruptingStep` cover what people do between ticks.
`PhaseStep` shows that each step is a step of `MatchPhases` or leaves it alone.

The refinement of `Shootout` (`RegularShootout`) comes last.  Two facts join `IInv`: there are kicks only in the shoot-out and after it
(`KicksOnlyThere`), so its beginning is no step of `Shootout`, although the code resets the counts there; and Blue is never
behind in kicks (`BlueFirst`), so a match decided by kicks can be told from one that was decided before.  The three
steps of a kick map to those of `Shootout` (`StartIsStart`, `TakeIsTake`, `EndIsEnd`); every other step is `Outside`.

**`MatchPlay_proofs`.**  Each theorem excludes the interventions that break its property and no other:

| Theorems | hold as long as `Interventions` | because of |
| --- | --- | --- |
| `ScoreIsRight`, `RightRestart`, `PenaltyIsFirst`, `ExtraTimeIsDeserved` | has no `"replay"` | `PlayInv` |
| `NetIsEmptied` | has nothing but `"replay"` | `BallInv` |
| `ReviewsAreDecided` | has nothing but `"replay"` | `DecisionInv` |

The premises are exact: with the bounds of `MatchFlowAll`, TLC finds each property violated with any excluded intervention,
also if it is the only one.  So people may change the formation or the squad in the middle of a review, which drops it (finding 1), and the
score is still the number of goals that stand.  `PlayInv` joins the four properties with the facts that make them inductive:
nothing is pending while a penalty is active, so that its goal falls between no whistle and its break; a goal under review is
the last one and still stands (`ReviewIsTimely`); the score of the whistle lasts until its break (`BreakIsLevel`).  `Calm` is the lemma behind most steps, which leave nothing pending, and
`Interruption` the one behind what replaces a pause; `CountGoalCounts` and `CancelCounts` relate the score to the cardinality of
the goals that stand.  `BallInv` and `DecisionInv` each add what is known when somebody waits to be replaced: he was injured by a foul that has been
decided, and its decision has placed the ball.  With tackles that injure on their own neither is true, and neither property holds.

**`Squad_proofs`.**  `IInv` adds `LogKeepsRoles`, that every record restores a goalkeeper to a goalkeeper's slot, without
which undo could not keep `KeeperKeepsGoal`.  `PlacesInv` adds `LogIsStack`, an invariant of the whole log: the
outgoing players are different and among the substituted, the latest record of a slot names who fills it, an
earlier one who left it next.  A swap breaks it, since it is not logged; therefore `EverybodyHasAPlace` has the premise that
swap and undo are not both in `Paths`, and finding 3 shows that it cannot be dropped.  `InjuredPlayersLeave` and
`RedCardsLast` have the premises under which the code keeps them (the notes below the findings show why); both
need `EverybodyHasAPlace`, since a substitute who was on the pitch already would be whitewashed.

**`ByteStreams_proofs`.**  `SizeIsReadBack` and `VectorIsReadBack` are about any prefix, any rest and any alignment: the reader that stands
where the writer stood finds the size or the elements and ends where the writer ended.  The cases are the forms of a size
(`TwoBytes`, `FourBytes`: a number below 2^16 or 2^32 is its bytes) and the padding, which depends on the location only
(`AlignmentBack`).  A vector of elements wider than a byte has to have some; without them the theorem is false, see above.

**`MethodCodec_proofs`.**  That calls, results, events and messages arrive, for every set of values.  The head of a value is read
back wherever it stands and whatever follows (`HeadBack`, one lemma for each kind of type).  A step of the writer keeps
its frames in order (`StackInv`: each was made for the item its caller is at), and the same step of the reader leads from the
`Mirror` of the writer's state before it to the one after it (`ReadFollows`, the lemma everything rests on; `AddMirrors` is
where the keys of a map must be different).  The writer is done before the reader begins, so the invariant has to remember its way:
`TraceInv` says that there is a sequence of states from the start to the present writer, each the step after the one before
and each a prefix of its bytes (`IsTrace`), and that the reader is at the mirror of one of them.  A reader that is done is at the last
one, the values it has read are those the writer started with (`ReadInTheEnd`), and a call is never taken for something else on the way
(`CallHasName`).  What remains is what the codec makes of absent arguments, results, messages and details (`CallIsHeard`, `ResultIsGiven`).

The three theorems assume `AllReadable`: no value is a custom one, which the serializer of the wrapper writes as null; sizes are below
2^32, as `WriteSize` writes four bytes; and no typed list of elements wider than a byte is empty.  `Codec` has such lists where the theorems
do not: at the end of a message, where nothing is left to be misread.

**`Channels_proofs`.**  `IInv`: the thread past `Lock` holds the lock (`LockInv`), hence `Shutdown`, which needs it free, cannot come between
check and response; at most one thread has the function of a call that is no basic message, with its handle only
while no response was sent (`RepliesInv`, `BusyInv`); whoever has a function or is in one is counted among the holders of the
messenger (`HoldersInv`); the number of stream calls is odd exactly while listening (`StreamInv`).

The refinement of `Replies` (`PromiseIsKept`) follows from `IInv`.  A received message is `Send`, as nobody had its function and nothing was
sent (`ReceiveIsSend`); `SendResponse` is `Answer`: the thread holds the lock, so the engine runs, and its handle is set, so
the call is open (`ResponseIsAnswer`).  Where a function goes, by `Drop` or `Leave`, the call is abandoned if it was the last and nothing was sent
(`FunctionGoes`); passing a result on or copying a reply leaves somebody with it.  Every other step changes nothing that `Replies` sees.
`CallsAreAnsweredOnce` says the same of the number of responses alone.

**`Embedding_proofs`.**  `IInv` says what each stage of a teardown has already taken away and what it has not: `OwnerInv` (the engine and
its owners), `RegistrarInv` (registrar, members, plugins), `CalledInv` (handlers, callbacks, delegates), `RenderingInv`; `FrameInv` (the next
frame callback) needs `Rearm = FALSE`, therefore `CallbacksAreThere` assumes it.

Only model-checked: liveness (`PausesEnd`, `PenaltiesAreTaken`, `RegulationIsPlayed`, `ChannelAnswers`), which is beyond the
prover.

## 6. Not modelled

* Movement, physics, shots, tactics and the decisions of players and goalkeepers: arithmetic on real coordinates with
  random draws.  To the models they are the choice of what happens next.
* What hangs on such coordinates alone: possession, passes and assists, the offside candidate, the choice of the
  controlled player.
* Yellow cards, suspensions, and the edits of the replay that add a foul, an offside, a card or an injury; the frame
  buffer and the sorted timeline.  Their hazards are listed; they change what is shown and recorded, not the course of
  the match that `MatchFlow` models, apart from the dismissal, which `Squad` has.
* Before and after a match: `fromSetup`, injuries and bans of profiles, accounts, transfers and storage.  Sequential
  functions and dialogs, called from one place at a time; the storage is written whole and never recovered.
* The exit dialog, which stops the ticker while it is open.
* Of the wrapper: functions that only pass their arguments to the C API, start-up options, message handlers that replace
  themselves while they run, window procedure delegates that unregister themselves while they are asked, a custom value
  type of a subclass of the serializer.
* The engine behind the C API: modelled as external, by what the headers and the wrapper's comments say of it.
* Kits and rendering have no control state; build files do not run.

## 7. What is left

In the order of what it would add: cards and their cancellation in the replay as a module of their own, with the relation
of `isSentOff` to the dismissals that stand; the frame buffer as an implementation of an unbounded log; `Roster`, where
a player must belong to one team.
