----------------------------- MODULE EventQueue -----------------------------
(***************************************************************************)
(* EventQueue<N> of src/src/events/event_queue.hpp: a ring buffer with two *)
(* atomic indices and a condition variable, filled by the threads that     *)
(* hold FlowTable::mutex_ and emptied by the sink thread's pop_wait().     *)
(*                                                                         *)
(* Memory model.  head_ and tail_ are written with release and read, by    *)
(* the other side, with acquire.  An acquire load may return a value older *)
(* than the latest store, but never one older than a value already read;   *)
(* headVis and tailVis are the values that the other side's next load      *)
(* returns, and HeadVisible/TailVisible let them catch up one store at a   *)
(* time.  A slot is a plain object: what was written to it before a        *)
(* release store is there for whoever acquired that store.  The producers  *)
(* share one view because the mutex hands it from one to the next.         *)
(***************************************************************************)
EXTENDS Naturals, Sequences

CONSTANTS N,           \* size of the ring, a power of two in the code
          Producers,   \* threads that call push(): capture and timer
          Events,      \* FlowEvent values
          NoEvent,     \* std::nullopt
          Nobody       \* FlowTable::mutex_ is free

ASSUME QueueAssumption == /\ N \in Nat \ {0}
                          /\ NoEvent \notin Events
                          /\ Nobody \notin Producers

VARIABLES buffer,      \* buffer_
          head, tail,  \* head_ and tail_, as last stored
          headVis,     \* head_ as the producers load it
          tailVis,     \* tail_ as the consumer loads it
          mutex,       \* holder of FlowTable::mutex_, around every push()
          ppc,         \* where each producer is in push()
          ptail, pevt, \* push()'s locals: tail and evt
          cpc,         \* where the consumer is in pop_wait()
          attempt,     \* first or second call of pop() in pop_wait()
          cevt,        \* pop()'s local evt
          result       \* what the latest pop_wait() returned

vars == <<buffer, head, tail, headVis, tailVis, mutex, ppc, ptail, pevt,
          cpc, attempt, cevt, result>>

producerVars == <<mutex, ppc, ptail, pevt>>
consumerVars == <<cpc, attempt, cevt, result>>

Slots == 0 .. N - 1

\* (x + 1) & (N - 1) and (t - h + N) & (N - 1), for indices and N a power of 2.
Wrap(x)    == IF x >= N THEN x - N ELSE x

\* The index is not masked.
Next1Unmasked(i) == i + 1

Next1(i)   == Wrap(i + 1)
Dist(h, t) == IF t >= h THEN t - h ELSE t - h + N

Init ==
  /\ buffer = [i \in Slots |-> NoEvent]
  /\ head = 0 /\ tail = 0 /\ headVis = 0 /\ tailVis = 0
  /\ mutex = Nobody
  /\ ppc = [p \in Producers |-> "out"]
  /\ ptail = [p \in Producers |-> 0]
  /\ pevt = [p \in Producers |-> NoEvent]
  /\ cpc = "idle" /\ attempt = 1 /\ cevt = NoEvent /\ result = NoEvent

(***************************************************************************)
(* Producer side.  "out": not in FlowTable; "in": holds the mutex, between *)
(* two calls of emit(); then the steps of push().                          *)
(***************************************************************************)
Goto(p, l) == ppc' = [ppc EXCEPT ![p] = l]

LockWithoutMutex(p) == /\ ppc[p] = "out"
                       /\ Goto(p, "in")
                       /\ UNCHANGED <<buffer, head, tail, headVis, tailVis, mutex, ptail, pevt, consumerVars>>

Lock(p) == /\ ppc[p] = "out" /\ mutex = Nobody
           /\ mutex' = p
           /\ Goto(p, "in")
           /\ UNCHANGED <<buffer, head, tail, headVis, tailVis, ptail, pevt, consumerVars>>

Unlock(p) == /\ ppc[p] = "in"
             /\ mutex' = Nobody
             /\ Goto(p, "out")
             /\ UNCHANGED <<buffer, head, tail, headVis, tailVis, ptail, pevt, consumerVars>>

\* The test for full is missing, so a full ring is written over.
PushCheckNoSpare(p, e) ==
  /\ ppc[p] = "in"
  /\ ptail' = [ptail EXCEPT ![p] = tail]
  /\ pevt' = [pevt EXCEPT ![p] = e]
  /\ Goto(p, "write")
  /\ UNCHANGED <<buffer, head, tail, headVis, tailVis, mutex, consumerVars>>

\* push(): load tail_, load head_; full (or full as far as this thread can
\* see) makes it return false.
PushCheck(p, e) ==
  /\ ppc[p] = "in"
  /\ \/ /\ Next1(tail) = headVis
        /\ UNCHANGED <<ppc, ptail, pevt>>
     \/ /\ Next1(tail) # headVis
        /\ ptail' = [ptail EXCEPT ![p] = tail]
        /\ pevt' = [pevt EXCEPT ![p] = e]
        /\ Goto(p, "write")
  /\ UNCHANGED <<buffer, head, tail, headVis, tailVis, mutex, consumerVars>>

PushWrite(p) == /\ ppc[p] = "write"
                /\ buffer' = [buffer EXCEPT ![ptail[p]] = pevt[p]]
                /\ Goto(p, "store")
                /\ UNCHANGED <<head, tail, headVis, tailVis, mutex, ptail, pevt, consumerVars>>

PushStore(p) == /\ ppc[p] = "store"
                /\ tail' = Next1(ptail[p])
                /\ Goto(p, "notify")
                /\ UNCHANGED <<buffer, head, headVis, tailVis, mutex, ptail, pevt, consumerVars>>

\* cv_.notify_one(), without cv_mutex_: wakes the consumer only if it is
\* already blocked.  push() returns, and its locals are gone.
PushNotify(p) == /\ ppc[p] = "notify"
                 /\ cpc' = IF cpc = "blocked" THEN "pred" ELSE cpc
                 /\ Goto(p, "in")
                 /\ ptail' = [ptail EXCEPT ![p] = 0] /\ pevt' = [pevt EXCEPT ![p] = NoEvent]
                 /\ UNCHANGED <<buffer, head, tail, headVis, tailVis, mutex, attempt, cevt, result>>

(***************************************************************************)
(* Consumer side: the steps of pop_wait(), called over and over by the     *)
(* sink thread.                                                            *)
(***************************************************************************)
PopWait == /\ cpc = "idle"
           /\ cpc' = "pop" /\ attempt' = 1
           /\ UNCHANGED <<buffer, head, tail, headVis, tailVis, producerVars, cevt, result>>

\* pop(): load tail_.  Empty sends the first attempt to wait_for and makes
\* the second one return nullopt.
PopCheck ==
  /\ cpc = "pop"
  /\ \/ /\ head # tailVis
        /\ cpc' = "read" /\ UNCHANGED result
     \/ /\ head = tailVis /\ attempt = 1
        /\ cpc' = "pred" /\ UNCHANGED result
     \/ /\ head = tailVis /\ attempt = 2
        /\ cpc' = "idle" /\ result' = NoEvent
  /\ UNCHANGED <<buffer, head, tail, headVis, tailVis, producerVars, attempt, cevt>>

PopRead == /\ cpc = "read"
           /\ cevt' = buffer[head]
           /\ cpc' = "advance"
           /\ UNCHANGED <<buffer, head, tail, headVis, tailVis, producerVars, attempt, result>>

PopAdvance == /\ cpc = "advance"
              /\ head' = Next1(head)
              /\ result' = cevt /\ cevt' = NoEvent
              /\ cpc' = "idle"
              /\ UNCHANGED <<buffer, tail, headVis, tailVis, producerVars, attempt>>

\* wait_for's predicate, under cv_mutex_.  "block" is the gap between the
\* test and the moment the thread is on the condition variable's list, which
\* a producer does not respect.
WaitPredicate ==
  /\ cpc = "pred"
  /\ IF head # tailVis THEN cpc' = "pop" /\ attempt' = 2
                       ELSE cpc' = "block" /\ UNCHANGED attempt
  /\ UNCHANGED <<buffer, head, tail, headVis, tailVis, producerVars, cevt, result>>

WaitBlock == /\ cpc = "block"
             /\ cpc' = "blocked"
             /\ UNCHANGED <<buffer, head, tail, headVis, tailVis, producerVars, attempt, cevt, result>>

\* cv_.wait(lk, pred): the same wait without a deadline.
WaitTimeoutNever == FALSE /\ UNCHANGED vars

\* The 10 ms deadline passes; the predicate's value is not used after it.
WaitTimeout == /\ cpc = "blocked"
               /\ cpc' = "pop" /\ attempt' = 2
               /\ UNCHANGED <<buffer, head, tail, headVis, tailVis, producerVars, cevt, result>>

WaitSpuriousWakeup == /\ cpc = "blocked"
                      /\ cpc' = "pred"
                      /\ UNCHANGED <<buffer, head, tail, headVis, tailVis, producerVars, attempt, cevt, result>>

(***************************************************************************)
(* A store becomes visible to the other side.                              *)
(***************************************************************************)
HeadVisible == /\ headVis # head
               /\ headVis' = Next1(headVis)
               /\ UNCHANGED <<buffer, head, tail, tailVis, producerVars, consumerVars>>

TailVisible == /\ tailVis # tail
               /\ tailVis' = Next1(tailVis)
               /\ UNCHANGED <<buffer, head, tail, headVis, producerVars, consumerVars>>

ProducerNext(p) == \/ Lock(p) \/ Unlock(p)
                   \/ \E e \in Events : PushCheck(p, e)
                   \/ PushWrite(p) \/ PushStore(p) \/ PushNotify(p)

ConsumerNext == \/ PopWait \/ PopCheck \/ PopRead \/ PopAdvance
                \/ WaitPredicate \/ WaitBlock \/ WaitTimeout

Next == \/ \E p \in Producers : ProducerNext(p)
        \/ ConsumerNext \/ WaitSpuriousWakeup
        \/ HeadVisible \/ TailVisible

Spec == Init /\ [][Next]_vars

\* The sink thread runs and its deadlines pass; a store is visible to the
\* other side after a finite time ([atomics.order]).  Producers owe nothing.
Fairness == WF_vars(ConsumerNext) /\ WF_vars(TailVisible)

FairSpec == Spec /\ Fairness

-----------------------------------------------------------------------------
\* Types of the variables: the indices, and the stale views of them, stay
\* inside the ring.
TypeOK ==
  /\ buffer \in [Slots -> Events \cup {NoEvent}]
  /\ head \in Slots /\ tail \in Slots /\ headVis \in Slots /\ tailVis \in Slots
  /\ mutex \in Producers \cup {Nobody}
  /\ ppc \in [Producers -> {"out", "in", "write", "store", "notify"}]
  /\ ptail \in [Producers -> Slots]
  /\ pevt \in [Producers -> Events \cup {NoEvent}]
  /\ cpc \in {"idle", "pop", "read", "advance", "pred", "block", "blocked"}
  /\ attempt \in {1, 2}
  /\ cevt \in Events \cup {NoEvent}
  /\ result \in Events \cup {NoEvent}

\* Two threads never touch the same slot at once, one of them writing: not
\* the consumer and a producer, nor capture and timer thread.  This is what
\* makes the plain (non-atomic) slots of buffer_ safe.
NoSlotRace ==
  \A p \in Producers : ppc[p] = "write" =>
    /\ cpc = "read" => ptail[p] # head
    /\ \A r \in Producers \ {p} : ppc[r] = "write" => ptail[r] # ptail[p]

\* The events between head_ and tail_, oldest first.
Contents == [i \in 1 .. Dist(head, tail) |-> buffer[Wrap(head + i - 1)]]

Fifo == INSTANCE BoundedFifo WITH Capacity <- N - 1, q <- Contents, taken <- result

\* push() and pop_wait() together are a bounded FIFO queue: nothing stored is
\* lost, duplicated, reordered or torn, whatever the interleaving and however
\* stale the indices the two sides see.
ImplementsFifo == Fifo!FifoSafety

\* ... and every event stored is eventually taken: the notification that a
\* producer can lose (it does not hold cv_mutex_) is made up for by the
\* deadline of wait_for.
TakesEverything == Fifo!FifoSpec
=============================================================================
