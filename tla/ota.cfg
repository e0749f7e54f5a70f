SPECIFICATION FairSpec
CONSTANT Configs <- MCConfigs
INVARIANT AlwaysBootable
INVARIANT SetBootTakesEffect
INVARIANT AtomicSwitch
INVARIANT RollsBack
INVARIANT ValidMeansConfirmed
INVARIANT VersionsHold
PROPERTY NoSecondTrial
PROPERTY ComesUp
