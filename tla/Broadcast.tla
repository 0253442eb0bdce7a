------------------------------ MODULE Broadcast -----------------------------
(***************************************************************************)
(* What WidgetDataService promises its clients, without its tasks, locks,  *)
(* buffers and Redis: a log of messages, each on one channel, the clients  *)
(* that are members of a channel, and what each client has received.       *)
(***************************************************************************)
EXTENDS Naturals, Sequences

CONSTANTS Clients, Channels

VARIABLES
    log,        \* the channel of every message, in the order of publication
    members,    \* the clients subscribed to each channel
    promised,   \* those of them that are promised what is published on it
    since,      \* the length of the log when that promise began
    until,      \* and when a client last left a channel
    received,   \* the messages each client has received, by their number
    excused     \* something failed: order and completeness are off

vars == <<log, members, promised, since, until, received, excused>>

Init ==
    /\ log = <<>>
    /\ members = [ch \in Channels |-> {}]
    /\ promised = [ch \in Channels |-> {}]
    /\ since = [c \in Clients |-> [ch \in Channels |-> 0]]
    /\ until = [c \in Clients |-> [ch \in Channels |-> 0]]
    /\ received = [c \in Clients |-> <<>>]
    /\ excused = FALSE

Publish(ch) ==
    /\ log' = Append(log, ch)
    /\ UNCHANGED <<members, promised, since, until, received, excused>>

\* The new ones are promised what is published from now on.
Serve(ch, new) ==
    /\ promised' = [promised EXCEPT ![ch] = @ \cup new]
    /\ since' = [c \in Clients |-> IF c \in new THEN [since[c] EXCEPT ![ch] = Len(log)]
                                              ELSE since[c]]

\* A client joins, and is promised the channel's messages at once or later.
Join(c, ch) ==
    /\ c \notin members[ch]
    /\ members' = [members EXCEPT ![ch] = @ \cup {c}]
    /\ Serve(ch, {c}) \/ UNCHANGED <<promised, since>>
    /\ UNCHANGED <<log, until, received, excused>>

Confirm(ch) ==
    /\ \E new \in SUBSET (members[ch] \ promised[ch]) : new # {} /\ Serve(ch, new)
    /\ UNCHANGED <<log, members, until, received, excused>>

Leave(c, ch) ==
    /\ c \in members[ch]
    /\ members' = [members EXCEPT ![ch] = @ \ {c}]
    /\ promised' = [promised EXCEPT ![ch] = @ \ {c}]
    /\ since' = [since EXCEPT ![c][ch] = 0]
    /\ until' = [until EXCEPT ![c][ch] = Len(log)]
    /\ UNCHANGED <<log, received, excused>>

Has(c, k) == \E i \in 1..Len(received[c]) : received[c][i] = k

\* A message a client has a right to: published since the promise.
Due(c, k) == c \in promised[log[k]] /\ since[c][log[k]] < k

\* The next message of a client is later than all it has, and no message it
\* has a right to is passed over.
InTurn(c, k) ==
    /\ \A i \in 1..Len(received[c]) : received[c][i] < k
    /\ \A j \in 1..(k - 1) : Due(c, j) => Has(c, j)

\* Nobody receives what was published on a channel after leaving it, or on one
\* it never joined.  What was published before it joined may still arrive.
Deliver(c, k) ==
    /\ k \in 1..Len(log)
    /\ c \in members[log[k]] \/ k <= until[c][log[k]]
    /\ excused \/ InTurn(c, k)
    /\ received' = [received EXCEPT ![c] = Append(@, k)]
    /\ UNCHANGED <<log, members, promised, since, until, excused>>

Excuse ==
    /\ ~excused /\ excused' = TRUE
    /\ UNCHANGED <<log, members, promised, since, until, received>>

Next ==
    \/ \E ch \in Channels : Publish(ch)
    \/ \E ch \in Channels : Confirm(ch)
    \/ \E c \in Clients, ch \in Channels : Join(c, ch) \/ Leave(c, ch)
    \/ \E c \in Clients, k \in 1..Len(log) : Deliver(c, k)
    \/ Excuse

Spec == Init /\ [][Next]_vars
=============================================================================
