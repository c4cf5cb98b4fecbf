CONSTANTS
    BitsPerLong = 2
    LevelCount = 4
    Granularity = 2
    Items = 13
SPECIFICATION Spec
INVARIANT LevelsAgree
PROPERTY ImplementsBitSet
