SPECIFICATION Spec
CONSTANTS
    Holds <- MCHolds
    HoldsFold <- MCHoldsFold
    BadRegex <- MCBadRegex
    Now = 1000000
    Midnight = 950400
    LinkFuel = 4
    NameCount = 3
    FollowDepth = 5
    Families <- MCFamilies
INVARIANTS NoProblemHidden PrecheckSound MissingIsReported RangesAgree WalkIsComplete SpecificThresholdWins MatchingEventsFound MultiIsHonest MultiIsBounded
CHECK_DEADLOCK FALSE
