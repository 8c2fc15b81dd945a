--------------------------- MODULE MCAsyncWaiter ---------------------------
(* Instances of AsyncWaiterClients for TLC.                                *)
EXTENDS AsyncWaiterClients

\* Each caller waits on the handle with its name.
Own == [g \in Goroutines |-> {g}]
=============================================================================
