SPECIFICATION FairSpec
CONSTANTS
    Threads = {t1, t2}
    Lengths = {0, 4}
    MinSampleBytes = 1
    TargetBytes = 4
    MaxSamples = 3
    DefaultMin = 2
    MinChoices = {2}
PROPERTIES EventuallyTrained
