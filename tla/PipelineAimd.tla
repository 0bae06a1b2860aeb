---------------------------- MODULE PipelineAimd ----------------------------
(***************************************************************************)
(* PipelineInterestsAimd: the Interest pipeline with a window that grows   *)
(* with the Data that arrive and is halved, at most once per MAX_RTT, on   *)
(* congestion marks and timeouts.                                          *)
(***************************************************************************)
EXTENDS PipelineInterests

CONSTANTS
    InitialSsthresh,  \* the pipeline-size option
    MinWindow,        \* MIN_WINDOW, and the initial window: 64 in the code
    MaxWindow         \* MAX_WINDOW, 65536 in the code

ASSUME AimdAssumption ==
    /\ InitialSsthresh \in 0..IntMax
    /\ MinWindow \in Nat \ {0}
    /\ MaxWindow \in Nat
    /\ MinWindow <= MaxWindow

VARIABLES
    ssthresh,           \* m_ssthresh
    windowIncCounter,   \* m_windowIncCounter
    recentDecrease      \* now - m_lastDecrease < MAX_RTT

windowVars == <<windowSize, ssthresh, windowIncCounter, recentDecrease>>
vars == <<baseVars, windowVars>>

-----------------------------------------------------------------------------
MaxOf(a, b) == IF a < b THEN b ELSE a

\* The members of the class that describe the window, as one record.
Window == [size |-> windowSize, ssthresh |-> ssthresh,
           inc |-> windowIncCounter, recent |-> recentDecrease]

SetWindow(w) ==
    /\ windowSize' = w.size
    /\ ssthresh' = w.ssthresh
    /\ windowIncCounter' = w.inc
    /\ recentDecrease' = w.recent

\* Mutant: the window may fall below MIN_WINDOW.
decreaseWithoutFloor(w) ==
    LET half == w.size \div 2 IN
    IF w.recent THEN w
    ELSE [size |-> half, ssthresh |-> half, inc |-> 0, recent |-> TRUE]

decreaseWindow(w) ==
    LET half == MaxOf(w.size \div 2, MinWindow) IN
    IF w.recent THEN w
    ELSE [size |-> half, ssthresh |-> half, inc |-> 0, recent |-> TRUE]

\* Slow start below ssthresh; above it, one more for every window of Data.
increaseWindow(w) ==
    IF w.size < w.ssthresh THEN [w EXCEPT !.size = @ + 1]
    ELSE IF w.inc + 1 >= w.size
         THEN [w EXCEPT !.size = MinOf(@ + 1, MaxWindow), !.inc = 0]
         ELSE [w EXCEPT !.inc = @ + 1]

-----------------------------------------------------------------------------
\* A congestion mark decreases the window before the Data is pushed, whatever
\* becomes of it; the window grows when the push succeeded.
onData(e, marked) ==
    /\ OnData(e)
    /\ LET w == IF marked THEN decreaseWindow(Window) ELSE Window IN
       SetWindow(IF ~isClosed /\ Registered(e.consumerId) THEN increaseWindow(w) ELSE w)

onNack(e) == OnNack(e) /\ UNCHANGED windowVars

\* Every retransmission may halve the window; giving up leaves it alone.
onTimeout(e) ==
    \/ GiveUp(e) /\ UNCHANGED windowVars
    \/ Retransmit(e) /\ SetWindow(decreaseWindow(Window))

\* MAX_RTT has passed since the last decrease.
RttElapsed ==
    /\ pc \notin {"new", "aborted"}
    /\ recentDecrease
    /\ recentDecrease' = FALSE
    /\ UNCHANGED <<baseVars, windowSize, ssthresh, windowIncCounter>>

Init ==
    /\ BaseInit
    /\ windowSize = MinWindow
    /\ ssthresh = InitialSsthresh
    /\ windowIncCounter = 0
    /\ recentDecrease = TRUE

Next ==
    \/ (ClientStep \/ WorkerStep) /\ UNCHANGED windowVars
    \/ \E e \in pit : onNack(e) \/ onTimeout(e) \/ \E marked \in BOOLEAN : onData(e, marked)
    \/ RttElapsed

Spec == Init /\ [][Next]_vars

\* As for PipelineFixed: the worker runs, the clock advances, the ring drains.
Fairness ==
    /\ WF_vars((LoopTop \/ RxDone \/ SkipSatisfied \/ TimeoutDone
                \/ NothingToSend \/ SendBurst) /\ UNCHANGED windowVars)
    /\ SF_vars(\E e \in pit : onTimeout(e))
    /\ SF_vars(\E B \in {batch} \cup SUBSET requestQueue :
                  \E S \in SUBSET B \ {{}} : Send(B, S) /\ UNCHANGED windowVars)

LiveSpec == Spec /\ Fairness

-----------------------------------------------------------------------------
\* The largest window there can be.  Slow start does not look at MAX_WINDOW,
\* so a larger initial ssthresh is the limit instead.
WindowLimit == MaxOf(MaxWindow, InitialSsthresh)

\* Whatever the order of Data, marks and timeouts, the window stays between
\* MIN_WINDOW and WindowLimit, and the counter of congestion avoidance stays
\* below the window, also right after the window was halved.
WindowInBounds ==
    /\ MinWindow <= windowSize
    /\ windowSize <= WindowLimit
    /\ windowIncCounter < windowSize

\* Slow start happens at the beginning only: after a decrease the window is
\* never below ssthresh again, so the pipeline stays in congestion avoidance.
\* An initial ssthresh above MAX_WINDOW breaks this: the first increase after
\* slow start then cuts the window to MAX_WINDOW, far below ssthresh.
SlowStartOnlyAtStart ==
    InitialSsthresh <= MaxWindow /\ windowSize < ssthresh => ssthresh = InitialSsthresh

\* What is on the network and in the unsent rest of a burst never exceeds the
\* largest window, even though a decrease leaves more pending Interests than
\* the new window allows.
InFlightWithinLimit == Cardinality(pit) + Cardinality(batch) <= WindowLimit

\* A send may overshoot the window, since the rest of a burst popped for a
\* larger window goes out unchecked, but by less than one burst.
OvershootBelowBurst ==
    [][Cardinality(pit') > Cardinality(pit)
          => Cardinality(pit') < windowSize + MaxBurst]_vars

=============================================================================
