SPECIFICATION FairSpec
CONSTANTS
    Threads = {t1, t2}
    Lengths = {0, 1, 2}
    MinSampleBytes = 1
    TargetBytes = 4
    MaxSamples = 2
    DefaultMin = 2
    MinChoices = {0, 1, 4}
INVARIANTS TypeOK SingleTrainer EntryMatchesGeneration SamplesBounded
PROPERTIES PublishedIsFinal EventuallyTrained EveryThreadInstalls
