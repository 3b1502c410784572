\* The executor is started twice, the server as often as the main thread likes.
SPECIFICATION FairSpec
CONSTANTS
    c1 = c1
    c2 = c2
    c3 = c3
    Clients <- MCClients
    num_threads = 2
    WaitOutcomes = {"reload"}
    MaxStarts = 2
    MayVanish = TRUE
INVARIANTS
    TypeOK
    CreatedBeforeServing
    StoppedIsQuiet
    KeepsServing
    LateAcceptOnce
    AcceptsWhenStarted
PROPERTIES
    StopReturns
    ClientIsServed
