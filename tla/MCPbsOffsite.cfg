\* One group, one survivor, under the fairness of the daily timer.
CONSTANTS
    a = a
    Groups = {a}
    MaxTime = 3
    Keep = 1
SPECIFICATION FairSpec
INVARIANT TypeOK
PROPERTY PruneSparesArchived LeftoverLeftAlone KeepsContract FlagsConverge
