SPECIFICATION Spec
CONSTANTS
    Jobs <- MCJobs
    Known <- MCKnown
    PageSize = 2
    MaxPages = 2
    MaxRounds = 2
    ClientLimit = 2
    MaxTargets = 2
    Objects <- MCObjects
    ShareAces <- MCShareAces
    MaxObjects = 2
    MaxDamage = 1
INVARIANT TypeOK
INVARIANT UnmarkedIsTrue
INVARIANT NeverOverclaims
INVARIANT FindingsAreSound
CHECK_DEADLOCK FALSE
