--------------------------- MODULE MCProcessGroups ---------------------------
(* A small instance of ProcessGroups: a server, a trainer, and two servers *)
(* and a trainer more, over at most one kill and one interrupt.            *)
EXTENDS ProcessGroups
=============================================================================
