----------------------------- MODULE AtLeastOnce ----------------------------
(***************************************************************************)
(* What a processor promises for its queue, without its connections, tasks *)
(* and restarts: a message is handed out, again and again if need be, until *)
(* it is settled once and for all.  It is acknowledged only when its        *)
(* results have been written, and dropped only when processing it failed or *)
(* was cut off.                                                             *)
(***************************************************************************)
EXTENDS Naturals, FiniteSets

CONSTANTS Messages, Prefetch

VARIABLES
    status,     \* per message: ready, out, acked or dropped
    delivered,  \* the messages that have been handed out at least once
    written,    \* the messages whose results have all been written
    failed,     \* the messages that processing has failed on
    cut         \* the messages that were cut off while they were processed

vars == <<status, delivered, written, failed, cut>>

Init ==
    /\ status = [m \in Messages |-> "ready"]
    /\ delivered = {} /\ written = {} /\ failed = {} /\ cut = {}

Out == {m \in Messages : status[m] = "out"}

Take(m) ==
    /\ status[m] = "ready" /\ Cardinality(Out) < Prefetch
    /\ status' = [status EXCEPT ![m] = "out"]
    /\ delivered' = delivered \cup {m}
    /\ UNCHANGED <<written, failed, cut>>

\* A delivery that was taken back may still be at work on its message, so
\* results and failures are not limited to the messages that are out.
Complete(m) ==
    /\ m \in delivered
    /\ written' = written \cup {m}
    /\ UNCHANGED <<status, delivered, failed, cut>>

Fail(m) ==
    /\ m \in delivered
    /\ failed' = failed \cup {m}
    /\ UNCHANGED <<status, delivered, written, cut>>

Ack(m) ==
    /\ m \in Out \cap written
    /\ status' = [status EXCEPT ![m] = "acked"]
    /\ UNCHANGED <<delivered, written, failed, cut>>

Drop(m) ==
    /\ m \in Out /\ m \in failed \cup cut
    /\ status' = [status EXCEPT ![m] = "dropped"]
    /\ UNCHANGED <<delivered, written, failed, cut>>

\* The channel goes away with all that was handed out on it.
Return ==
    /\ status' = [m \in Messages |-> IF m \in Out THEN "ready" ELSE status[m]]
    /\ UNCHANGED <<delivered, written, failed, cut>>

\* Tasks are cut off: those that were settling have settled or have not, and
\* messages in the middle of their processing may be dropped from now on.
CutOff(acks, drops, ms) ==
    /\ acks \subseteq Out \cap written
    /\ drops \subseteq (Out \cap (failed \cup cut)) \ acks
    /\ ms \subseteq Out \ (acks \cup drops)
    /\ cut' = cut \cup ms
    /\ status' = [m \in Messages |-> IF m \in acks THEN "acked"
                                     ELSE IF m \in drops THEN "dropped" ELSE status[m]]
    /\ UNCHANGED <<delivered, written, failed>>

Next ==
    \/ \E m \in Messages : Take(m) \/ Complete(m) \/ Fail(m) \/ Ack(m) \/ Drop(m)
    \/ Return
    \/ \E acks, drops, ms \in SUBSET Messages : CutOff(acks, drops, ms)

Spec == Init /\ [][Next]_vars
=============================================================================
