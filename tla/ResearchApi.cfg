\* Two sessions, five plans, one fault.
SPECIFICATION FairSpec
CONSTANTS
    Sessions = {w1, w2}
    Calls = {"seed1", "seed2", "hedge", "other", "fund", "fund2", "book", "index", "world", "mapA", "mapB", "prof", "from", "fromP", "hand", "hand2", "run1", "run2", "asIs", "twice"}
    Ask <- Bodies
    None = None
    MaxFaults = 1
    DefaultSlugs <- Slugs
    DefaultConstraints <- Limits
    BaseShock <- Severities
    Plans <- AllPlans
INVARIANTS TypeOK AnswersHold SeedIsComplete RunsCoverPortfolio NeutralAgrees DerivedIsCurrent
PROPERTIES EventuallyAnswered ImplementsAtomicApi
