---------------------------- MODULE MCEventQueue ----------------------------
(* EventQueue with the capture and the timer thread as its producers.      *)
EXTENDS EventQueue

CONSTANTS capture, timer, e1, e2

MCProducers == {capture, timer}
MCEvents    == {e1, e2}
=============================================================================
