---------------------------- MODULE PacketSource ----------------------------
(***************************************************************************)
(* PcapFileSource and LiveCaptureSource (src/src/packets): run() on the    *)
(* capture thread, the destructor, and stop() called by the signal handler *)
(* of src/src/main.cpp.  A signal of the process is handled by whichever   *)
(* thread is free to take it, so stop() interleaves with run(), and with   *)
(* itself when a second signal comes; handle_ is a plain pointer, and      *)
(* stop() reads it twice.                                                  *)
(*                                                                         *)
(* The packets that the loop delivers change nothing here (Datapath).  To  *)
(* give libpcap a handle that is gone is undefined: nothing may happen, or *)
(* the process crashes.  Packetpipe composes this module with main().      *)
(***************************************************************************)
EXTENDS Naturals

CONSTANT MaxSignals     \* SIGINT and SIGTERM received at most

ASSUME SignalAssumption == MaxSignals \in Nat

VARIABLES live,         \* LiveCaptureSource, or PcapFileSource
          rpc,          \* capture thread
          after,        \* how run() ends: "returned" or "thrown"
          handle,       \* handle_: "null", "open", "closed" (dangling), or
                        \* "destroyed" with the source object
          breakLoop,    \* libpcap's flag in the open handle
          opens, closes,    \* history: calls that opened, closed a handle
          hpc,          \* signal handler, for each signal
          signals       \* signals received so far

runVars  == <<rpc, after, handle, opens, closes>>
stopVars == <<hpc, signals>>
sourceVars == <<live, runVars, breakLoop, stopVars>>

SourceInit == /\ live \in BOOLEAN
              /\ rpc = "start" /\ after = "returned"
              /\ handle = "null" /\ breakLoop = FALSE
              /\ opens = 0 /\ closes = 0
              /\ hpc = [s \in 1 .. MaxSignals |-> "idle"] /\ signals = 0

\* A step of run() that touches no handle.
Goto(next) == rpc' = next /\ UNCHANGED <<live, handle, breakLoop, opens, closes, stopVars>>

(***************************************************************************)
(* run().                                                                  *)
(***************************************************************************)
Open == /\ rpc = "start"
        /\ handle' = "open" /\ opens' = opens + 1 /\ breakLoop' = FALSE
        /\ rpc' = "filter"
        /\ UNCHANGED <<after, closes, stopVars, live>>

OpenFails == rpc = "start" /\ after' = "thrown" /\ Goto("over")

SetFilter == rpc = "filter" /\ Goto(IF live THEN "nonblock" ELSE "loop") /\ UNCHANGED after

\* pcap_compile() or pcap_setfilter() fails: close, then throw.
SetFilterFails == rpc = "filter" /\ after' = "thrown" /\ Goto("close")

SetNonblock == rpc = "nonblock" /\ Goto("loop") /\ UNCHANGED after

\* pcap_setnonblock() or pcap_dispatch() fails: throws with the handle open.
\* The read may fail after the flag has been tested, hence whatever it is now.
LiveFails == live /\ rpc \in {"nonblock", "loop"} /\ after' = "thrown" /\ Goto("over")

\* PCAP_ERROR_BREAK is not tested: the loop goes on.
LoopBrokenIgnored == /\ rpc = "loop" /\ breakLoop
                     /\ breakLoop' = FALSE
                     /\ UNCHANGED <<runVars, stopVars, live>>

\* pcap_loop()/pcap_dispatch() sees the flag, clears it and returns.
LoopBroken == /\ rpc = "loop" /\ breakLoop
              /\ breakLoop' = FALSE
              /\ rpc' = "close"
              /\ UNCHANGED <<after, handle, opens, closes, stopVars, live>>

\* End of the file, or an error in it, which pcap_loop()'s caller ignores.
EndOfFile == rpc = "loop" /\ ~ live /\ Goto("close") /\ UNCHANGED after

Close == /\ rpc = "close"
         /\ handle' = "closed" /\ closes' = closes + 1 /\ breakLoop' = FALSE
         /\ rpc' = "reset"
         /\ UNCHANGED <<after, opens, stopVars, live>>

\* handle_ = nullptr is forgotten.
ResetForgotten == rpc = "reset" /\ Goto("over") /\ UNCHANGED after

Reset == /\ rpc = "reset"
         /\ handle' = "null"
         /\ rpc' = "over"
         /\ UNCHANGED <<after, breakLoop, opens, closes, stopVars, live>>

\* The destructor, after run() or without it; g_source_ptr is not reset.
Destroy == /\ rpc \in {"start", "over"}
           /\ handle' = "destroyed"
           /\ closes' = IF handle # "null" THEN closes + 1 ELSE closes
           /\ breakLoop' = FALSE
           /\ rpc' = "destroyed"
           /\ UNCHANGED <<after, opens, stopVars, live>>

(***************************************************************************)
(* The signal handler: g_source_ptr->stop().                               *)
(***************************************************************************)
\* SIGINT or SIGTERM, whether or not the handler of an earlier one has returned.
Signal == /\ signals < MaxSignals
          /\ signals' = signals + 1
          /\ hpc' = [hpc EXCEPT ![signals'] = "test"]
          /\ UNCHANGED <<live, runVars, breakLoop>>

\* if (handle_) is missing.
StopUntested(s) == /\ hpc[s] = "test"
                   /\ hpc' = [hpc EXCEPT ![s] = "break"]
                   /\ UNCHANGED <<live, runVars, breakLoop, signals>>

\* if (handle_), which is garbage once the source is destroyed.
StopTest(s) == /\ hpc[s] = "test"
               /\ \/ handle \in {"null", "destroyed"} /\ hpc' = [hpc EXCEPT ![s] = "idle"]
                  \/ handle # "null" /\ hpc' = [hpc EXCEPT ![s] = "break"]
               /\ UNCHANGED <<live, runVars, breakLoop, signals>>

\* pcap_breakloop(handle_): the second read of an unsynchronised handle_.
StopBreak(s) == /\ hpc[s] = "break"
                /\ breakLoop' = (breakLoop \/ handle = "open")
                /\ \/ hpc' = [hpc EXCEPT ![s] = "idle"]
                   \/ handle # "open" /\ hpc' = [hpc EXCEPT ![s] = "crashed"]
                /\ UNCHANGED <<live, runVars, signals>>

RunNext == \/ Open \/ OpenFails \/ SetFilter \/ SetFilterFails \/ SetNonblock \/ LiveFails
           \/ LoopBroken \/ EndOfFile \/ Close \/ Reset
Stop(s) == StopTest(s) \/ StopBreak(s)

Crashed == \E s \in 1 .. MaxSignals : hpc[s] = "crashed"

SourceNext == ~ Crashed /\ (RunNext \/ Destroy \/ Signal \/ \E s \in 1 .. MaxSignals : Stop(s))

SourceSpec == SourceInit /\ [][SourceNext]_sourceVars

-----------------------------------------------------------------------------
\* Types of the variables.
SourceTypeOK ==
  /\ live \in BOOLEAN
  /\ rpc \in {"start", "filter", "nonblock", "loop", "close", "reset", "over", "destroyed"}
  /\ after \in {"returned", "thrown"}
  /\ handle \in {"null", "open", "closed", "destroyed"}
  /\ breakLoop \in BOOLEAN
  /\ opens \in 0..1 /\ closes \in 0..1
  /\ hpc \in [1 .. MaxSignals -> {"idle", "test", "break", "crashed"}]
  /\ signals \in 0..MaxSignals

\* Every handle opened is closed, once, on each of the ways out of run():
\* return, failure before the loop, and failure in it.
ClosedOnce == /\ closes <= opens
              /\ rpc = "destroyed" => closes = opens

\* A signal is harmless for as long as run() has not closed its handle,
\* although stop() reads handle_ twice and run() opens it in between: only
\* after the close can pcap_breakloop() get a handle that is gone.
CrashOnlyAfterClose == Crashed => rpc \in {"reset", "over", "destroyed"}
=============================================================================
