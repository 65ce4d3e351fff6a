SPECIFICATION LedgerSpec
CONSTANTS
    Callers = {c1, c2, c3}
    Intents = {i1, i2, i3}
    Prints = {p, q}
    Responses = {ok, refused}
    Recordable = {ok}
    Capacity = 2
    NoCaller = NoCaller
INVARIANTS
    OneRunPerIntent
PROPERTIES
    EveryCallerIsAnswered
    ImplementsContract
