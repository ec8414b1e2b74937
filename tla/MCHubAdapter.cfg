CONSTANTS
    UseDps = TRUE
    Polls = 1
    MaxClients = 2
    MaxMessages = 1
SPECIFICATION FairSpec
INVARIANTS
    HandleTruthful
    DanglingOnlyAfterRenewal
    ConnectedMeansTwinQueued
    MessagesCounted
PROPERTY
    SendReturns
