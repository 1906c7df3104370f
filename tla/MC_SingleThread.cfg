CONSTANTS
    Unlimited = Unlimited
    Arbitrary = Arbitrary
    Limit = {0, 1, Unlimited, Arbitrary}
    Inner = {0, 1, 3}
    MaxActors = 2
    MaxSeeds = 2
    MaxRecords = 2
    MaxHandled = 3
    MaxSends = 2
SPECIFICATION GSpec
INVARIANTS TypeOK NoOvertaking BouncesAddUp NoPhantomEvents ReportExact
PROPERTIES LossOnlyWhenDry CallsReturn
CHECK_DEADLOCK FALSE
