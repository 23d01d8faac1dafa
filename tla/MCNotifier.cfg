CONSTANTS
    e1 = e1
    e2 = e2
    e3 = e3
    Events <- ThreeEvents
    batch_limit = 2
    max_delay = 2
SPECIFICATION FairSpec
PROPERTIES
    OutboxIsTrue
    AtLeastOnce
