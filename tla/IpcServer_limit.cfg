\* Three session objects on a port of two: connections wait for a place.
\* The program may end and every client leave: it does stop.
SPECIFICATION FairSpec
CONSTANTS
    Session = {s1, s2, s3}
    MaxSessions = 2
INVARIANTS HandlesMatch NoneRefused
PROPERTIES ClosedForCause RequestsAnswered ClosedAreFreed ServiceEnds
CHECK_DEADLOCK FALSE
