CONSTANTS
    Kinds = {1, 2}
    MaxTries = 2
    NoCmd = NoCmd
SPECIFICATION ProviderFairSpec
INVARIANTS SingleProcess StagesInOrder
PROPERTIES GivenUpIsKilled ErrorMeansDead
