SPECIFICATION PubFairSpec
CONSTANTS
 h1 = h1
 h2 = h2
 l1 = l1
 Hosts = {h1, h2}
 Links = {l1}
 Offer <- MCOffer
 ProbeEnd = 4
 AnnounceEnd = 2
 MaxStarts = 2
 MaxFlaps = 1
 MaxLoss = 1
CHECK_DEADLOCK FALSE
INVARIANTS
 PublishingSafe OneOwner
PROPERTIES
 ConflictsResolve RegistrationEnds
