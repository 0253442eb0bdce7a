SPECIFICATION Spec
CONSTANTS
    m1 = m1
    m2 = m2
    Messages <- TwoMessages
    MaxResults = 1
    Prefetch = 2
    MaxConcurrent = 1
    MaxRetries = 1
    MaxDeliveries = 2
    MaxFailures = 1
    MaxDrops = 1
    MaxTimeouts = 1
    MaxStarts = 2
\* The bounded starts and deliveries run out.
CHECK_DEADLOCK FALSE
INVARIANT UnackedIsOwned
PROPERTIES Handled ShutdownCompletes ProcessedAtLeastOnce
