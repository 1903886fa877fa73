SPECIFICATION FairSpec
CONSTANTS
    story = story
    other = other
    nvda = nvda
    amd = amd
    Stories <- MCStories
    Events <- MCEvents
    StoryOf <- MCStoryOf
    Published <- MCPublished
    Horizons = {1}
    WindowStart = 1
    OpenTime = 2
    LastTime = 3
    Cooldown = 2
    MaxAge = 1
    MaxPerCycle = 1
    MaxCrashes = 1
CHECK_DEADLOCK FALSE
INVARIANT IdempotentLedger
INVARIANT LossBoundedByKills
PROPERTY DueLabelResolved
PROPERTY PremarketSignalRechecked
