------------------------ MODULE MCMarketDataScanner ------------------------
\* A small instance of MarketDataScanner for TLC.
EXTENDS MarketDataScanner

CONSTANT owner
=============================================================================
