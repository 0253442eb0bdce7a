-------------------------- MODULE MCWidgetDelivery --------------------------
\* Small instances of WidgetDelivery for TLC.
EXTENDS MCWidgetDataService, WidgetDelivery

\* States that differ only in what a finished call or fan-out has left in its
\* local variables are one state: no step and no property reads these before they
\* are set again.
LocalsInUse ==
    <<keys, subscriptions, pubsubTask, lock, linkVars, streamVars, clientVars,
      pc, todo, awaiting, cancelReq, batch, failures, log, promised, since, until,
      [a \in Actors |-> IF pc[a] \in {"sub_lock", "sub_redis", "unsub_redis"}
                        THEN call[a] ELSE <<>>],
      [t \in Tasks |-> IF pc[t] = "send" THEN msg[t] ELSE <<>>]>>
=============================================================================
