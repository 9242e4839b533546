SPECIFICATION Spec
CONSTANTS
    Calls = 2
    MaxCrashes = 3
    MaxChanges = 1
    None = None
INVARIANT EffectsAreWarranted
PROPERTIES SettledForGood ResumesFinish
