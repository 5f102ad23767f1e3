SPECIFICATION Spec
CONSTANTS
    Gates = {"m1", "m3", "m4", "m5", "m6", "m7", "m8", "m9", "m10", "m11", "repo"}
    MaySkip = {"m5", "m6", "m7", "m8", "m9", "m10", "m11"}
    Timed = {"m3", "m4", "m7", "m8", "m9", "m10", "m11", "m1", "repo"}
    Script <- MCScript
    Suites <- MCSuites
    RunSuite <- MCRunSuite
INVARIANT GreenMeansTested
