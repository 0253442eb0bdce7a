---------------------------- MODULE WidgetDelivery --------------------------
(***************************************************************************)
(* WidgetDataService with the history of its stream: which channel each    *)
(* message was published on, since when each client is promised a          *)
(* channel's messages, and when it left.  A subscriber is promised them    *)
(* once Redis has carried out every command sent for the channel, which    *)
(* may be well after subscribe() returned.  The history only watches:      *)
(* every step of Next is a step here, and changes what Next lets it.       *)
(***************************************************************************)
EXTENDS WidgetDataService

VARIABLES
    log,            \* log[k] is the channel of message k
    promised,       \* the clients promised the messages of each channel
    since,          \* published, when that promise began
    until           \* published, when a client last left a channel

deliveryVars == <<vars, log, promised, since, until>>

\* Redis delivers the channel and has nothing left to do about it.
Served(ch) == ch \in live /\ \A i \in 1..Len(commands) : commands[i][2] # ch

Departed(c, ch) == c \in subscriptions[ch] \ subscriptions'[ch]

Record ==
    /\ \/ published' = published /\ log' = log
       \/ \E ch \in Channels : Publish(ch) /\ log' = Append(log, ch)
    /\ promised' = [ch \in Channels |->
                   {c \in subscriptions'[ch] : c \in promised[ch] \/ Served(ch)'}]
    /\ since' = [c \in Clients |-> [ch \in Channels |->
                   IF c \notin promised'[ch] THEN 0
                   ELSE IF c \in promised[ch] THEN since[c][ch] ELSE published]]
    /\ until' = [c \in Clients |-> [ch \in Channels |->
                   IF Departed(c, ch) THEN published ELSE until[c][ch]]]

DeliveryInit ==
    /\ Init
    /\ log = <<>>
    /\ promised = [ch \in Channels |-> {}]
    /\ since = [c \in Clients |-> [ch \in Channels |-> 0]]
    /\ until = [c \in Clients |-> [ch \in Channels |-> 0]]

DeliverySpec == DeliveryInit /\ [][Next /\ Record]_deliveryVars

(***************************************************************************)
(* Properties                                                              *)
(***************************************************************************)
\* No message of an undisturbed service is lost: one published on a channel
\* after Redis took the subscription of a client that is still there has been
\* received by that client, waits in the stream, or is in the hands of a task
\* that still has to send it to that client, across the feeds that come and go
\* and the background tasks that end and start with them (lines 119-135,
\* 144-167, 268-281).  A message published between the return of subscribe()
\* and that moment is promised to nobody.
NothingMissed ==
    Undisturbed =>
        \A ch \in Channels : \A c \in promised[ch] :
            \A k \in (since[c][ch] + 1)..published : log[k] = ch =>
                LET m == [n |-> k, channel |-> ch] IN
                \/ \E i \in 1..Len(received[c]) : received[c][i] = m
                \/ \E i \in 1..Len(inbox) : inbox[i] = m
                \/ \E t \in Tasks : pc[t] = "send" /\ msg[t] = m /\ c \in batch[t]

Numbers(s) == [i \in 1..Len(s) |-> s[i].n]

B == INSTANCE Broadcast WITH
        members  <- [ch \in Channels |-> subscriptions[ch]],
        received <- [c \in Clients |-> Numbers(received[c])],
        excused  <- ~Undisturbed

\* The service implements the broadcast: its clients receive only what was
\* published on channels while they were subscribed or before, and until
\* something is disturbed each receives everything published since Redis took
\* the subscription, once, in the order of publication (lines 119-135, 144-167,
\* 268-281).
InOrderBroadcast == B!Spec
=============================================================================
