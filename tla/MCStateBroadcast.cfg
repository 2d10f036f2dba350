SPECIFICATION LiveSpec
CONSTANTS
    c1 = c1
    c2 = c2
    Writers = {w1}
    Sampler = sampler
    Monitor = monitor
    Clients <- MCClients
    Prompt <- MCPrompt
INVARIANTS
    NothingOwedIsLost
PROPERTIES
    SetNeverStalls
    EventuallyFresh
