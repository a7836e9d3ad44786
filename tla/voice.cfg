CONSTANTS
    Tasks = {t1}
    MaxNews = 2
    ChainCap = 2
    MaxFlight = 2
    MaxTools = 1
    Turns = {u1, u2}
    NoTurn = NoTurn
    RoundCap = 2
    MaxMoves = 5
SPECIFICATION Spec
CHECK_DEADLOCK FALSE
INVARIANTS
    SlotIsTheProviders
    SomethingAsksAgain
    StoreIsTheQueue
    OneTurnSpeaks
PROPERTIES
    RetiredEngineOpensNothing
    ResponseSlotIsReleased
