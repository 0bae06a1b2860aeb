--------------------------- MODULE PipelineFixed ---------------------------
(***************************************************************************)
(* PipelineInterestsFixed: the Interest pipeline with a window that never  *)
(* changes.  Its definitions are prefixed where those of PipelineAimd have *)
(* the same name, since the proofs are about both.                         *)
(***************************************************************************)
EXTENDS PipelineInterests

CONSTANT WindowSize   \* the pipeline-size option

\* The option is a size_t that is nowhere checked; 0 is a legal value.  The
\* room in the window is cast to int, so larger values are left out.
ASSUME WindowAssumption == WindowSize \in 0..IntMax

fixedVars == <<baseVars, windowSize>>

fixedOnData(e) == OnData(e) /\ UNCHANGED windowSize

fixedOnNack(e) == OnNack(e) /\ UNCHANGED windowSize

fixedOnTimeout(e) == Expire(e) /\ UNCHANGED windowSize

FixedInit == BaseInit /\ windowSize = WindowSize

FixedNext ==
    \/ (ClientStep \/ WorkerStep) /\ UNCHANGED windowSize
    \/ \E e \in pit : fixedOnData(e) \/ fixedOnNack(e) \/ fixedOnTimeout(e)

FixedSpec == FixedInit /\ [][FixedNext]_fixedVars

\* The worker thread keeps running.  An entry that is looked at again and
\* again is found expired some time, since the clock advances; and the face
\* takes part of a burst some time, since the peer drains its ring.
FixedFairness ==
    /\ WF_fixedVars((LoopTop \/ RxDone \/ SkipSatisfied \/ TimeoutDone
                     \/ NothingToSend \/ SendBurst) /\ UNCHANGED windowSize)
    /\ SF_fixedVars(\E e \in pit : fixedOnTimeout(e))
    /\ SF_fixedVars(\E B \in {batch} \cup SUBSET requestQueue :
                       \E S \in SUBSET B \ {{}} : Send(B, S) /\ UNCHANGED windowSize)

FixedLiveSpec == FixedSpec /\ FixedFairness

-----------------------------------------------------------------------------
\* The Interests on the network, with the rest of the burst that waits for
\* the face, never exceed the window: what is popped is what there is room
\* for, however Data and timeouts interleave with partial sends.
InFlightWithinWindow == Cardinality(pit) + Cardinality(batch) <= WindowSize

=============================================================================
