\* Every type of value, in messages, calls and results.
SPECIFICATION Spec
CONSTANTS
    Names <- MCNames
    Values <- MCValues
    ForeignCalls <- MCForeignCalls
    ForeignReplies <- MCForeignReplies
INVARIANTS
    CallArrives
    ReplyArrives
    MessageArrives
