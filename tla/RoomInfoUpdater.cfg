\* Three updates racing the updater, two failed DB connections, and the
\* room closing at any point.
CONSTANTS
    MaxUpdates = 3
    MaxConnFailures = 2
SPECIFICATION Spec
INVARIANTS
    NoLostUpdate
PROPERTIES
    EventuallyPersisted
CHECK_DEADLOCK FALSE
