---------------------------- MODULE FeedConstants ----------------------------
\* The constants that FinlightListener, DataQueues and Feed, which composes
\* them, have in common.
EXTENDS Naturals

CONSTANTS
    Callers,       \* coroutines that call a listener's start(), stop(), restart(), setters
    MaxReconnects, \* max_reconnects, where 0 is None
    Queues,        \* queues
    Messages,      \* messages that may come, numbered as they do, in any number of frames
    Bad,           \* what stands for the queue of a message that cannot be encoded
    MaxStarts,     \* bound: calls of start() that make a task
    MaxDrops,      \* bound: connections to the provider that end
    MaxFailures,   \* bound: requests that RabbitMQ refuses
    MaxCalls       \* bound: calls by Callers and by the owner of the queues

ASSUME CallersAssumption == Callers \cap Nat = {}
ASSUME QueuesAssumption == Bad \notin Queues
ASSUME BoundsAssumption ==
    /\ MaxReconnects \in Nat /\ MaxStarts \in Nat /\ MaxDrops \in Nat
    /\ MaxFailures \in Nat /\ MaxCalls \in Nat
=============================================================================
