----------------------------- MODULE DataQueues -----------------------------
\* The publishers to RabbitMQ: massive_data_queues.py, whose handler takes a
\* frame of messages for five queues, and finlight_data_queues.py, whose handler
\* takes one article for one queue. A frame of one message on one queue is the
\* latter.
\*
\* The owner calls connect(), setup_queues() and shutdown() one after the other;
\* handlers run whenever a frame has come. An action is what a coroutine does
\* between two awaits. The n-th connect_robust() gives connection n; 0 stands
\* for None, and for the connection of a queue that has no channel.
EXTENDS FeedConstants

Connections == 1..MaxCalls

VARIABLES
    targets,    \* queues: those of this publisher
    owner,      \* where the owner is suspended
    todo,       \* queues that the call under way has still to treat
    connection, \* connection
    open,       \* connections that are open
    channel,    \* channels and exchanges: the connection a queue's channel is on
    closed,     \* queues whose channel is closed and not forgotten
    up,         \* connection_status["connected"]
    dialled,    \* connections made so far
    calls,      \* calls made so far
    failures,   \* requests refused so far
    fate,       \* where a message is
    frame,      \* the frame that a message came in, named by one of its messages
    queue,      \* the queue of a message
    refused,    \* history: messages whose own publish RabbitMQ refused
    unserved,   \* history: messages in flight while the queues were not set up,
                \* or whose handler was cancelled
    forsaken,   \* history: a connection was made while another was open
    ended       \* history: shutdown() was the last call and has succeeded

call     == <<owner, todo>>
rabbit   == <<connection, open, channel, closed, up, dialled>>
message  == <<targets, fate, frame, queue>>
history  == <<unserved, forsaken, ended>>
queues   == <<call, rabbit, failures, message, refused, history>>
vars     == <<queues, calls>>

Still == UNCHANGED queues

HasChannels == \E q \in targets : channel[q] # 0
\* Every queue has a channel that is open, on a connection that is.
Serving     == \A q \in targets : channel[q] \in open /\ q \notin closed
InFlight    == {m \in Messages : fate[m] \in {"waiting", "publishing"}}

Init ==
    /\ targets \in SUBSET Queues \ {{}}
    /\ owner = "idle" /\ todo = {} /\ connection = 0 /\ open = {}
    /\ channel = [q \in Queues |-> 0] /\ closed = {} /\ up = FALSE
    /\ dialled = 0 /\ calls = 0 /\ failures = 0
    /\ fate = [m \in Messages |-> "none"] /\ frame = [m \in Messages |-> m]
    /\ queue = [m \in Messages |-> Bad]
    /\ refused = {} /\ unserved = {} /\ forsaken = FALSE /\ ended = FALSE

---------------------------------------------------------------------------
\* The owner.

Call == owner = "idle" /\ calls < MaxCalls /\ calls' = calls + 1

\* connect() and setup_queues() replace a connection without closing it. (One
\* that cannot be made changes nothing.)
Dial(kind) ==
    /\ Call
    /\ dialled' = dialled + 1
    /\ connection' = dialled + 1 /\ open' = open \cup {dialled + 1}
    /\ forsaken' = (forsaken \/ open # {}) /\ ended' = FALSE
    /\ owner' = kind /\ todo' = targets
    /\ UNCHANGED <<channel, closed, up, failures, message, refused, unserved>>

\* An await of the owner raises: the call ends, and leaves what it did.
Fail ==
    /\ failures < MaxFailures /\ failures' = failures + 1
    /\ owner' = "idle" /\ todo' = {}

Refused ==
    /\ owner # "idle"
    /\ Fail
    /\ UNCHANGED <<rabbit, calls, message, refused, history>>

\* The channel of a queue, which setup_queues() also declares the queue on.
OpenChannel(q) ==
    /\ owner \in {"connect", "setup"} /\ q \in todo
    /\ todo' = todo \ {q}
    /\ channel' = [channel EXCEPT ![q] = connection]
    /\ closed' = closed \ {q}
    /\ UNCHANGED <<owner, connection, open, up, dialled, calls, failures, message,
                   refused, history>>

\* connect() has looked for every queue, setup_queues() has declared it.
Ready ==
    /\ owner \in {"connect", "setup"} /\ todo = {}
    /\ up' = TRUE
    /\ owner' = "idle"
    /\ UNCHANGED <<todo, connection, open, channel, closed, dialled, calls, failures,
                   message, refused, history>>

\* Mutant: shutdown() believes the flag.
Shutdown_ByFlag ==
    /\ Call /\ connection # 0
    /\ up' = FALSE
    /\ unserved' = unserved \cup InFlight
    /\ \/ /\ up /\ owner' = "shutdown" /\ todo' = {q \in targets : channel[q] # 0}
          /\ ended' = FALSE
       \/ ~up /\ ended' = TRUE /\ UNCHANGED <<owner, todo>>
    /\ UNCHANGED <<connection, open, channel, closed, dialled, failures, message,
                   refused, forsaken>>

\* shutdown() goes by the channels it finds, not by the flag. (Before any call
\* of the others it raises.)
Shutdown ==
    /\ Call /\ connection # 0
    /\ up' = FALSE
    /\ unserved' = unserved \cup InFlight
    /\ owner' = "shutdown" /\ todo' = {q \in targets : channel[q] # 0}
    /\ ended' = FALSE
    /\ UNCHANGED <<connection, open, channel, closed, dialled, failures, message,
                   refused, forsaken>>

CloseChannel(q) ==
    /\ owner = "shutdown" /\ q \in todo
    /\ todo' = todo \ {q}
    /\ closed' = closed \cup {q}
    /\ UNCHANGED <<owner, connection, open, channel, up, dialled, calls, failures,
                   message, refused, history>>

\* All are forgotten at once, before the connection is closed.
Forget ==
    /\ owner = "shutdown" /\ todo = {}
    /\ channel' = [q \in Queues |-> 0] /\ closed' = {}
    /\ owner' = "hangup"
    /\ UNCHANGED <<todo, connection, open, up, dialled, calls, failures, message,
                   refused, history>>

HangUp ==
    /\ owner = "hangup"
    /\ open' = open \ {connection}
    /\ owner' = "idle" /\ ended' = TRUE
    /\ UNCHANGED <<todo, connection, channel, closed, up, dialled, calls, failures,
                   message, refused, unserved, forsaken>>

---------------------------------------------------------------------------
\* The handlers.

\* A frame comes, for these queues; its handler is called or made a task.
Receive(ms, to) ==
    /\ ms # {} /\ \A m \in ms : fate[m] = "none"
    /\ \A m \in ms, n \in Messages : n < m /\ fate[n] = "none" => n \in ms
    /\ fate' = [m \in Messages |-> IF m \in ms THEN "waiting" ELSE fate[m]]
    /\ frame' = [m \in Messages |-> IF m \in ms THEN CHOOSE n \in ms : TRUE ELSE frame[m]]
    /\ queue' = [m \in Messages |-> IF m \in ms THEN to[m] ELSE queue[m]]
    /\ unserved' = IF Serving /\ owner \notin {"shutdown", "hangup"}
                   THEN unserved ELSE unserved \cup ms
    /\ UNCHANGED <<targets, call, rabbit, calls, failures, refused, forsaken, ended>>

Frame(f)   == {m \in Messages : fate[m] # "none" /\ frame[m] = f}
Become(ms, what) == fate' = [m \in Messages |-> IF m \in ms THEN what ELSE fate[m]]
Encoded(f) == \A m \in Frame(f) : queue[m] # Bad

\* The whole frame is encoded before any of it is published. Without channels,
\* or with a message that cannot be encoded, the handler raises.
Handle(f) ==
    /\ \E m \in Frame(f) : fate[m] = "waiting"
    /\ Become(Frame(f), IF HasChannels /\ Encoded(f) THEN "publishing" ELSE "lost")
    /\ UNCHANGED <<call, rabbit, calls, failures, targets, frame, queue, refused, history>>

\* Mutant: an exception of one publish ends the handler.
Lose_Frame(m) == Become({n \in Frame(frame[m]) : fate[n] = "publishing"}, "lost")

\* A publish that fails is logged, and that is all.
Lose(m) == Become({m}, "lost")

Usable(q) == channel[q] \in open /\ q \notin closed

\* The publishes of a frame are gathered: each has its own way.
Publish(m) ==
    /\ fate[m] = "publishing"
    /\ \/ Usable(queue[m]) /\ Become({m}, "sent") /\ UNCHANGED <<failures, refused>>
       \/ ~Usable(queue[m]) /\ Lose(m) /\ UNCHANGED <<failures, refused>>
       \/ /\ failures < MaxFailures /\ failures' = failures + 1
          /\ refused' = refused \cup {m}
          /\ Lose(m)
    /\ UNCHANGED <<call, rabbit, calls, targets, frame, queue, history>>

\* The Massive listener awaits its handler, which is cancelled with its task.
Interrupt(f) ==
    /\ \E m \in Frame(f) : fate[m] = "publishing"
    /\ unserved' = unserved \cup (Frame(f) \cap InFlight)
    /\ Become(Frame(f) \cap InFlight, "lost")
    /\ UNCHANGED <<call, rabbit, calls, failures, targets, frame, queue, refused, forsaken, ended>>

---------------------------------------------------------------------------
OwnerStep ==
    Ready \/ Forget \/ HangUp \/ \E q \in Queues : OpenChannel(q) \/ CloseChannel(q)

HandlerStep == \E m \in Messages : Handle(m) \/ Publish(m)

\* All but the frames, which the listeners bring.
Next == Dial("connect") \/ Dial("setup") \/ Shutdown \/ Refused \/ OwnerStep \/ HandlerStep

---------------------------------------------------------------------------
\* What should hold.

TypeOK ==
    /\ owner \in {"idle", "connect", "setup", "shutdown", "hangup"}
    /\ targets \subseteq Queues /\ todo \subseteq targets /\ closed \subseteq targets /\ up \in BOOLEAN
    /\ connection \in 0..dialled /\ open \subseteq 1..dialled
    /\ channel \in [Queues -> 0..dialled] /\ dialled \in 0..calls
    /\ calls \in 0..MaxCalls /\ failures \in 0..MaxFailures
    /\ fate \in [Messages -> {"none", "waiting", "publishing", "sent", "lost"}]
    /\ frame \in [Messages -> Messages] /\ queue \in [Messages -> Queues \cup {Bad}]
    /\ refused \subseteq Messages /\ unserved \subseteq Messages
    /\ forsaken \in BOOLEAN /\ ended \in BOOLEAN

\* A message that came in is lost for a cause of its own: its publish failed,
\* the queues were not set up all the while, or its frame could not be encoded.
\* What happens to the other messages of a frame does not matter.
LostForCause ==
    \A m \in Messages :
        fate[m] = "lost" => m \in refused \cup unserved \/ ~Encoded(frame[m])

\* shutdown() leaves no connection open, whichever calls failed before, unless
\* a connection was made while another was open.
ShutdownCloses == ended /\ ~forsaken => open = {}
=============================================================================
