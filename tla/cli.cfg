\* Every command, with files rewritten and processes killed at any moment.
SPECIFICATION FairSpec
CONSTANTS
    U32Max = 5
    Commands <- MCCommands
    Contents <- MCContents
    Missing = Missing
    Torn = Torn
    Nil = Nil
INVARIANTS
    CliInv
    OutputIsHonest
    CountersAreUsed
PROPERTIES
    AnswersOneVersion
    HostIsAnswered
