------------------------------- MODULE MCFeed -------------------------------
\* A small instance of Feed for TLC.
EXTENDS Feed, TLC

CONSTANTS k1, k2, trades, quotes, news, bad

MCCallers  == {k1, k2}
MCQueues   == {trades, quotes, news}
MCMessages == 1..2
=============================================================================
