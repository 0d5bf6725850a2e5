\* Two messages, a worker, and the engine shut down at any moment.
SPECIFICATION Spec
CONSTANTS
    Calls = {c1, c2}
    Workers = {w1}
    Platform = Platform
    Engine = Engine
    Nobody = Nobody
    MaxStreams = 2
    MaxResponses = 2
INVARIANTS
    NoResponseAfterShutdown
    MessengerOutlivesReplies
    StreamCallsAlternate
PROPERTIES
    AnswersAsPromised
    ChannelAnswers
CHECK_DEADLOCK FALSE
