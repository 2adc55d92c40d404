-------------------------- MODULE MCClientManager ---------------------------
\* Two client slots and four sockets: the listener, both clients and one more
\* that finds no free slot.
EXTENDS ClientManager
=============================================================================
