---------------------------- MODULE MCUrlChecks ----------------------------
EXTENDS UrlChecks, TLC

\* Each URL on a host of its own; fields may hold the same URL.
OwnHosts == [u \in Urls |-> u]
=============================================================================
