---------------------------- MODULE BoundedFifo ----------------------------
(***************************************************************************)
(* What EventQueue<N> (src/src/events/event_queue.hpp) promises to its two *)
(* sides: a first-in first-out queue of at most Capacity events, from      *)
(* which every stored event is eventually taken, once.                     *)
(***************************************************************************)
EXTENDS Naturals, Sequences

CONSTANTS Events,    \* the values that can be queued
          NoEvent,   \* std::nullopt
          Capacity   \* one slot of the ring always stays free: N - 1

VARIABLES q,         \* the events stored and not yet taken, oldest first
          taken      \* what the consumer's latest call returned

fifoVars == <<q, taken>>

FifoInit == q = <<>> /\ taken = NoEvent

\* push() returned true.
Store(e) == /\ Len(q) < Capacity
            /\ q' = Append(q, e)
            /\ UNCHANGED taken

\* pop()/pop_wait() returned an event.
Take == /\ q # <<>>
        /\ taken' = Head(q)
        /\ q' = Tail(q)

\* pop_wait() returned nullopt: nothing arrived within the timeout, or what
\* arrived is not visible to the consumer yet.
TakeNothing == taken' = NoEvent /\ UNCHANGED q

FifoNext == (\E e \in Events : Store(e)) \/ Take \/ TakeNothing

FifoSafety == FifoInit /\ [][FifoNext]_fifoVars

FifoSpec == FifoSafety /\ WF_fifoVars(Take)
=============================================================================
