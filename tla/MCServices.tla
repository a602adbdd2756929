------------------------------ MODULE MCServices ------------------------------
(* The services around the engine for TLC.  part says which of them a      *)
(* behaviour is about: they share no state, and the variables of the       *)
(* others stay as they are.                                                *)
EXTENDS Sessions, ParallelWriter, MemoryLimits, IndexCaches, LogFiles

VARIABLE part

SomeIndexTerms == [s \in 1 .. 2 |-> IF s = 1 THEN {1, 2, 3} ELSE {2}]

Parts == {"sessions", "parallel", "tracker", "buffers", "swap", "caches", "log"}

Init ==
    /\ part \in Parts
    /\ SessionInit /\ ParallelInit /\ MemoryInit /\ CacheInit /\ LogInit

OfSessions == part = "sessions" /\ SessionNext
              /\ UNCHANGED <<part, parallelVars, memoryVars, cacheVars, logVars>>
OfParallel == part = "parallel" /\ ParallelNext
              /\ UNCHANGED <<part, sessionVars, memoryVars, cacheVars, logVars>>
OfTracker == part = "tracker" /\ Tracking
             /\ UNCHANGED <<part, sessionVars, parallelVars, bufferVars, swapVars, cacheVars, logVars>>
OfBuffers == part = "buffers" /\ Buffering
             /\ UNCHANGED <<part, sessionVars, parallelVars, trackerVars, swapVars, cacheVars, logVars>>
OfSwap == part = "swap" /\ Swapping
          /\ UNCHANGED <<part, sessionVars, parallelVars, trackerVars, bufferVars, cacheVars, logVars>>
OfCaches == part = "caches" /\ CacheNext
            /\ UNCHANGED <<part, sessionVars, parallelVars, memoryVars, logVars>>
OfLog == part = "log" /\ LogNext
         /\ UNCHANGED <<part, sessionVars, parallelVars, memoryVars, cacheVars>>

Next == OfSessions \/ OfParallel \/ OfTracker \/ OfBuffers \/ OfSwap \/ OfCaches \/ OfLog

vars == <<part, sessionVars, parallelVars, memoryVars, cacheVars, logVars>>

\* Outside its part the parallel writer stays where none of the fair actions is enabled.
Spec == Init /\ [][Next]_vars /\ ParallelFairness
=============================================================================
