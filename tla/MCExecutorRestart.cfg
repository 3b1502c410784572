SPECIFICATION Spec
CONSTANTS
    c1 = c1
    c2 = c2
    c3 = c3
    Clients <- MCClients
    num_threads = 2
    WaitOutcomes = {"reload"}
    MaxStarts = 2
    MayVanish = FALSE
INVARIANT RestartResets
