------------------------------ MODULE MCDispatcher -----------------------------
(* The dispatcher with two drivers' offers to one rider, two workers and a *)
(* channel of two: every worker can be busy while the channel is full.     *)
EXTENDS Dispatcher
=============================================================================
