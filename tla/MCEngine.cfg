SPECIFICATION FairSpec
CONSTANTS
    P = P
    Mated = Mated
    None = None
    MaxThreads = 3
    MaxPly = 3
    Start = P
    Positions = {P, Mated}
    Terminal = {Mated}
    Limits <- AllLimits
INVARIANTS NoTeardownUnderSearch CommandsHeeded NoDanglingReference ChosenAtRest
PROPERTIES ImplementsDialogue QuitEnds
