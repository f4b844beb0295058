SPECIFICATION MCSpec
CONSTANTS
    Request = {r1, r2}
    MaxCancels = 2
    s1 = s1
    s2 = s2
    s3 = s3
    Subsystem <- MCSubsystem
    Late <- MCLate
    Descriptors <- MCDescriptors
    MaxPasses = 3
INVARIANTS
    RequestsSound
    DependencyOrder
    SortedIffAcyclic
PROPERTIES
    EveryRequestAnswered
    HooksInSequence
    PassEnds
CHECK_DEADLOCK FALSE
