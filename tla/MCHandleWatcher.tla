---------------------------- MODULE MCHandleWatcher ----------------------------
(* Instances of HandleWatcher for TLC. *)
EXTENDS HandleWatcher

CONSTANTS h1, h2, p1, p2

Watch(h, p) == FromDart("Add", h, p, {"READABLE"})
TimerAt(d, p) == FromDart("Timer", d, p, {})

\* Two watched handles, one of which is taken back or closed, and a timer.
WatchCommands ==
  {Watch(h1, p1), Watch(h2, p2), FromDart("Remove", h1, p1, {}),
   FromDart("Close", h1, p1, {}), TimerAt(1, p1), TimerAt(-1, p1)}
================================================================================
