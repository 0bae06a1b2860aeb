-------------------------- MODULE GoPipelineProofs --------------------------
(***************************************************************************)
(* The theorems of module GoPipeline: a read of the Go consumer that       *)
(* returns no error has all its segments, and the process panics only as   *)
(* explained, unless an Interest was sent twice or a signal closed the     *)
(* pipeline meanwhile.  For files, batches, windows and channels of any    *)
(* size, and any number of retries and faults.                             *)
(*                                                                         *)
(* ReadAt only counts the Data it takes.  That this is enough rests on     *)
(* where the names of its call are: each of them is in one place at most   *)
(* on its way through the goroutines, and none of another call is around.  *)
(***************************************************************************)
EXTENDS GoPipeline, FiniteSetTheorems, SequenceTheorems, TLAPS

Retried == [nack: Nat, timeout: Nat]

TypeInv ==
    /\ app \in {"start", "info", "read", "closing", "failed", "ok", "error"}
    /\ off \in Nat /\ asked \in Nat /\ counted \in Nat /\ n \in Nat
    /\ app = "read" => off < Size
    /\ interestChannel \in Seq(Names) /\ dataChannel \in Seq(Names)
    /\ sending \in {Nothing} \cup {<<i>> : i \in Names}
    /\ receiving \in {Idle, Ended} \cup [do: {"slide", "pass"}, data: Names]
    /\ network \in [Names -> Nat]
    /\ entries \in [Names -> Retried \cup {NoEntry}]

\* What is to be sent again is marked as such, and the entry of an Interest
\* that a Nack gave back to the receiver stays while the receiver has it.
FetcherInv ==
    /\ rx \in {Idle, Ended, [do |-> "error"]} \cup [do: {"timeout", "deliver"}, data: Names]
                \cup [do: {"resend"}, name: Names, entry: Retried]
    /\ rx.do = "resend" => entries[rx.name] # NoEntry
    /\ timer.do = "resend" => timer.name \in Names /\ timer.entry \in Retried /\ timer.entry.timeout > 0
    /\ \A b \in backoffs : b.name \in Names /\ b.entry \in Retried /\ b.entry.nack > 0

\* Nothing happens before the App is there, and the loops end after a close.
EndsInv ==
    /\ app = "start" /\ Running => Init
    /\ rx = Ended \/ receiving = Ended => txClosed

\* The pipeline is closed under a call by the signal handler only.
CloseInv ==
    /\ app = "start" => signal = "none" /\ ~txClosed
    /\ app \in {"info", "read"} /\ txClosed => signal # "none"

-----------------------------------------------------------------------------
(* Where the names of a call are, T being the ones whose Data was counted.  *)

Call == IF app = "info" THEN {Info} ELSE off .. off + Batch - 1

Unasked ==
    IF app = "info" THEN IF asked = 0 THEN {Info} ELSE {}
    ELSE off + asked .. off + Batch - 1

Elements(q) == {q[k] : k \in 1..Len(q)}
Distinct(q) == \A k, l \in 1..Len(q) : q[k] = q[l] => k = l

Stages == {"unasked", "interest", "sending", "network", "rx", "receiving", "data", "taken"}

OnNetwork == {i \in Names : network[i] > 0}
AtRx == IF rx.do \in {"timeout", "deliver"} THEN {rx.data} ELSE {}
AtReceiving == IF receiving.do \in {"slide", "pass"} THEN {receiving.data} ELSE {}

Held(T) ==
    [s \in Stages |->
        CASE s = "unasked" -> Unasked
          [] s = "interest" -> Elements(interestChannel)
          [] s = "sending" -> Elements(sending)
          [] s = "network" -> OnNetwork
          [] s = "rx" -> AtRx
          [] s = "receiving" -> AtReceiving
          [] s = "data" -> Elements(dataChannel)
          [] s = "taken" -> T]

Apart(H) == \A a, b \in Stages : a # b => H[a] \cap H[b] = {}
Within(H, S) == \A a \in Stages : H[a] \subseteq S

OnePlace(T) == Apart(Held(T)) /\ Within(Held(T), Call)

Taken(T) ==
    /\ IsFiniteSet(T) /\ Cardinality(T) = counted
    /\ app = "read" => T \cap 0 .. Size - 1 \subseteq buffer

Once ==
    /\ Distinct(interestChannel) /\ Distinct(dataChannel)
    /\ \A i \in Names : network[i] <= 1

FlowInv ==
    ~resent /\ app \in {"info", "read"} =>
        Once /\ \E T \in SUBSET Names : OnePlace(T) /\ Taken(T)

GoInv == TypeInv /\ FetcherInv /\ EndsInv /\ FlowInv /\ ReadsComplete /\ PanicsExplained

-----------------------------------------------------------------------------
(* Lemmas on channels and on names that move from one stage to another.     *)

\* What a send adds to a channel.
LEMMA AppendElements ==
    ASSUME NEW S, NEW q \in Seq(S), NEW x \in S
    PROVE  /\ Elements(Append(q, x)) = Elements(q) \cup {x}
           /\ Distinct(q) /\ x \notin Elements(q) => Distinct(Append(q, x))
<1>1. /\ Append(q, x) \in Seq(S) /\ Len(q) \in Nat /\ Len(Append(q, x)) = Len(q) + 1
      /\ \A k \in 1..Len(q) : Append(q, x)[k] = q[k]
      /\ Append(q, x)[Len(q) + 1] = x
  OBVIOUS
<1> HIDE DEF Elements
<1>2. Elements(Append(q, x)) = Elements(q) \cup {x}
  <2>1. \A k \in 1..Len(q) + 1 : k \in 1..Len(q) \/ k = Len(q) + 1
    BY <1>1
  <2> QED  BY <1>1, <2>1 DEF Elements
<1>3. ASSUME Distinct(q), x \notin Elements(q) PROVE Distinct(Append(q, x))
  <2>1. \A k \in 1..Len(q) + 1 : k \in 1..Len(q) \/ k = Len(q) + 1
    BY <1>1
  <2>2. \A k \in 1..Len(q) : q[k] # x
    BY <1>3 DEF Elements
  <2> QED  BY <1>1, <1>3, <2>1, <2>2 DEF Distinct
<1> QED  BY <1>2, <1>3

\* What a receive takes from a channel.
LEMMA TailElements ==
    ASSUME NEW S, NEW q \in Seq(S), q # <<>>, Distinct(q)
    PROVE  /\ Head(q) \in Elements(q) /\ Head(q) \in S
           /\ Elements(Tail(q)) \subseteq Elements(q) \ {Head(q)}
           /\ Tail(q) \in Seq(S) /\ Distinct(Tail(q))
<1>1. /\ Len(q) \in Nat \ {0} /\ Tail(q) \in Seq(S) /\ Len(Tail(q)) = Len(q) - 1
      /\ \A k \in 1..Len(q) - 1 : Tail(q)[k] = q[k + 1]
      /\ Head(q) = q[1] /\ q[1] \in S
  OBVIOUS
<1>2. \A k \in 1..Len(q) - 1 : k + 1 \in 1..Len(q) /\ k + 1 # 1
  BY <1>1
<1>3. 1 \in 1..Len(q)
  BY <1>1
<1>4. Elements(Tail(q)) \subseteq Elements(q) \ {Head(q)}
  BY <1>1, <1>2, <1>3 DEF Elements, Distinct
<1>5. Distinct(Tail(q))
  <2> SUFFICES ASSUME NEW k \in 1..Len(q) - 1, NEW l \in 1..Len(q) - 1, Tail(q)[k] = Tail(q)[l]
               PROVE  k = l
    BY <1>1 DEF Distinct
  <2>1. q[k + 1] = q[l + 1]
    BY <1>1
  <2>2. k + 1 = l + 1
    BY <1>2, <2>1 DEF Distinct
  <2> QED  BY <2>2
<1> QED  BY <1>1, <1>3, <1>4, <1>5 DEF Elements

\* The head of a channel has its type.
LEMMA HeadInType ==
    ASSUME NEW S, NEW q \in Seq(S), q # <<>>
    PROVE  Head(q) \in S /\ Tail(q) \in Seq(S)
OBVIOUS

\* Stages that only lose names stay apart.
LEMMA Shrink ==
    ASSUME NEW H, NEW G, NEW S, Apart(H), Within(H, S), \A s \in Stages : G[s] \subseteq H[s]
    PROVE  Apart(G) /\ Within(G, S)
BY DEF Apart, Within

\* A name that moves from one stage to another leaves the stages apart.
LEMMA Move ==
    ASSUME NEW H, NEW G, NEW S, NEW a \in Stages, NEW b \in Stages, NEW i,
           Apart(H), Within(H, S), a # b, i \in H[a],
           G[a] \subseteq H[a] \ {i}, G[b] \subseteq H[b] \cup {i},
           \A s \in Stages \ {a, b} : G[s] \subseteq H[s]
    PROVE  Apart(G) /\ Within(G, S)
<1>1. \A s \in Stages \ {a} : i \notin H[s]
  BY DEF Apart
<1>2. Within(G, S)
  BY DEF Within
<1>3. ASSUME NEW s \in Stages, NEW t \in Stages, s # t PROVE G[s] \cap G[t] = {}
  <2>1. H[s] \cap H[t] = {}
    BY <1>3 DEF Apart
  <2>2. CASE s = b
    BY <1>1, <1>3, <2>1, <2>2
  <2>3. CASE t = b
    BY <1>1, <1>3, <2>1, <2>3
  <2>4. CASE s # b /\ t # b
    BY <2>1, <2>4
  <2> QED  BY <2>2, <2>3, <2>4
<1> QED  BY <1>2, <1>3 DEF Apart

\* The stages of the pipeline, now and after the step.
LEMMA HeldOf ==
    ASSUME NEW T
    PROVE  /\ Held(T)["unasked"] = Unasked /\ Held(T)'["unasked"] = Unasked'
           /\ Held(T)["interest"] = Elements(interestChannel)
           /\ Held(T)'["interest"] = Elements(interestChannel')
           /\ Held(T)["sending"] = Elements(sending) /\ Held(T)'["sending"] = Elements(sending')
           /\ Held(T)["network"] = OnNetwork /\ Held(T)'["network"] = OnNetwork'
           /\ Held(T)["rx"] = AtRx /\ Held(T)'["rx"] = AtRx'
           /\ Held(T)["receiving"] = AtReceiving /\ Held(T)'["receiving"] = AtReceiving'
           /\ Held(T)["data"] = Elements(dataChannel) /\ Held(T)'["data"] = Elements(dataChannel')
           /\ Held(T)["taken"] = T /\ Held(T)'["taken"] = T
BY DEF Held, Stages

\* A step that takes nothing and puts nothing anywhere.
LEMMA NothingMoves ==
    ASSUME FlowInv, resent => resent', app' \in {"info", "read"} => app' = app,
           UNCHANGED <<off, asked, counted, buffer, interestChannel, dataChannel>>,
           Elements(sending') \subseteq Elements(sending),
           network' \in [Names -> Nat], network \in [Names -> Nat],
           ~resent' => \A i \in Names : network'[i] <= network[i],
           AtRx' \subseteq AtRx, AtReceiving' \subseteq AtReceiving
    PROVE  FlowInv'
<1> SUFFICES ASSUME ~resent', app' \in {"info", "read"}
             PROVE  Once' /\ \E T \in SUBSET Names : OnePlace(T)' /\ Taken(T)'
  BY DEF FlowInv
<1>1. PICK T \in SUBSET Names : OnePlace(T) /\ Taken(T)
  BY DEF FlowInv
<1>2. Call' = Call /\ Unasked' = Unasked /\ app' = app
  BY DEF Call, Unasked
<1>3. Once
  BY DEF FlowInv
<1>4. Once'
  BY <1>3 DEF Once
<1>5. OnNetwork' \subseteq OnNetwork
  BY DEF OnNetwork
<1>6. \A s \in Stages : Held(T)'[s] \subseteq Held(T)[s]
  BY <1>2, <1>5, HeldOf DEF Stages
<1>7. OnePlace(T)'
  BY <1>1, <1>2, <1>6, Shrink DEF OnePlace
<1>8. Taken(T)'
  BY <1>1, <1>2 DEF Taken
<1> QED  BY <1>4, <1>7, <1>8

\* The step takes the name i from stage a on to stage b.
Carries(T, a, b, i) ==
    /\ i \in Held(T)[a]
    /\ Held(T)'[a] \subseteq Held(T)[a] \ {i}
    /\ Held(T)'[b] \subseteq Held(T)[b] \cup {i}
    /\ \A s \in Stages \ {a, b} : Held(T)'[s] \subseteq Held(T)[s]

\* A step that moves one name to the next stage.
LEMMA OneMoves ==
    ASSUME FlowInv, resent => resent', UNCHANGED <<app, off, counted, buffer>>,
           NEW a \in Stages, NEW b \in Stages, NEW i, a # b,
           ~resent' /\ Once => Once' /\ \A T : Carries(T, a, b, i)
    PROVE  FlowInv'
<1> SUFFICES ASSUME ~resent', app' \in {"info", "read"}
             PROVE  Once' /\ \E T \in SUBSET Names : OnePlace(T)' /\ Taken(T)'
  BY DEF FlowInv
<1>1. PICK T \in SUBSET Names : OnePlace(T) /\ Taken(T)
  BY DEF FlowInv
<1>2. Call' = Call
  BY DEF Call
<1>3. Once
  BY DEF FlowInv
<1>4. OnePlace(T)'
  <2>1. /\ i \in Held(T)[a]
        /\ Held(T)'[a] \subseteq Held(T)[a] \ {i}
        /\ Held(T)'[b] \subseteq Held(T)[b] \cup {i}
        /\ \A s \in Stages \ {a, b} : Held(T)'[s] \subseteq Held(T)[s]
    BY <1>3 DEF Carries
  <2> QED  BY <1>1, <1>2, <2>1, Move DEF OnePlace
<1>5. Taken(T)'
  BY <1>1 DEF Taken
<1> QED  BY <1>3, <1>4, <1>5

-----------------------------------------------------------------------------
(* The steps.  Before the App is there only Start is possible.              *)

\* What the assumptions say of the constants.
LEMMA Constants ==
    /\ Size \in Nat \ {0} /\ Batch \in Nat \ {0} /\ Info \in Names
    /\ \A k \in Nat : k < Size + Batch => k \in Names
    /\ \A i \in Names : i \in Int /\ (i = Info \/ i \in Nat)
BY GoPipelineAssumption DEF Info, Names

\* The invariant holds before the program starts.
LEMMA GoInit == Init => GoInv
<1> SUFFICES ASSUME Init PROVE GoInv
  OBVIOUS
<1>1. TypeInv
  BY DEF Init, TypeInv
<1>2. FetcherInv
  BY DEF Init, FetcherInv, Idle
<1>3. EndsInv
  BY DEF Init, EndsInv, Idle, Ended
<1> QED  BY <1>1, <1>2, <1>3 DEF Init, GoInv, FlowInv, ReadsComplete, PanicsExplained

\* Before the start nothing else can happen.
LEMMA OnlyStart ==
    ASSUME GoInv, Next, app = "start"
    PROVE  Start
<1>1. Init
  BY DEF GoInv, EndsInv, Next
<1>2. \A i \in Names : ~Answer(i) /\ ~Lose(i) /\ ~handleTimeout(i)
  BY <1>1 DEF Init, Answer, Lose, handleTimeout, handleData, handleNackCongestion,
              handleNackDuplicate, handleNackOther, Answered, Idle
<1>3. ~Receiver /\ ~RxEnds /\ ~receiveLoop
  BY <1>1 DEF Init, Receiver, RxEnds, DataReset, DataDeliver, RxResend, RxError, receiveLoop,
              SlideWindow, PassData, ReceiveLoopEnds, Idle, Ended
<1>4. ~TimerFires /\ ~Timer
  BY <1>1, <1>2 DEF Init, TimerFires, Timer, TimerResend, TimerError, RangeEnds, TimerEnds, Idle
<1>5. ~sendLoop /\ ~Signal /\ ~SignalCloses
  BY <1>1 DEF Init, sendLoop, Signal, SignalCloses, Nothing
<1>6. \A b \in backoffs : ~BackoffOver(b)
  BY <1>1 DEF Init
<1>7. ~(SendInterest \/ GetData \/ GetClosed \/ AppCloses \/ Exit)
  BY <1>1 DEF Init, SendInterest, GetData, GetClosed, AppCloses, Exit
<1> QED  BY <1>2, <1>3, <1>4, <1>5, <1>6, <1>7 DEF Next, Consumer

\* The start, with or without a connection.
LEMMA StartInv ==
    ASSUME GoInv, Running, Start
    PROVE  GoInv'
<1> USE DEF Start, pipelineVars, fetcherVars, networkVars
<1>1. Init
  BY DEF GoInv, EndsInv
<1>2. TypeInv' /\ FetcherInv'
  BY DEF GoInv, TypeInv, FetcherInv
<1>3. EndsInv'
  BY <1>1 DEF GoInv, EndsInv, Running, Init, Idle, Ended
<1>4. FlowInv'
  <2> SUFFICES ASSUME ~resent', app' = "info"
               PROVE  Once' /\ \E T \in SUBSET Names : OnePlace(T)' /\ Taken(T)'
    BY <1>1 DEF FlowInv, Init
  <2>1. /\ Elements(interestChannel') = {} /\ Elements(dataChannel') = {} /\ Elements(sending') = {}
        /\ OnNetwork' = {} /\ AtRx' = {} /\ AtReceiving' = {}
    BY <1>1 DEF Init, Elements, OnNetwork, AtRx, AtReceiving, Idle, Nothing
  <2>2. Unasked' = {Info} /\ Call' = {Info}
    BY <1>1 DEF Init, Unasked, Call
  <2>3. Once'
    BY <1>1 DEF Init, Once, Distinct
  <2>4. PICK T : T = {}
    OBVIOUS
  <2> HIDE DEF Start, pipelineVars, fetcherVars, networkVars
  <2>5. Held(T)'["unasked"] = {Info} /\ \A s \in Stages \ {"unasked"} : Held(T)'[s] = {}
    BY <2>1, <2>2, <2>4, HeldOf DEF Stages
  <2>6. OnePlace(T)'
    BY <2>2, <2>5 DEF OnePlace, Apart, Within
  <2>7. Taken(T)'
    BY <1>1, <2>4, FS_EmptySet DEF Init, Taken, Start
  <2> QED  BY <2>3, <2>4, <2>6, <2>7
<1>5. ReadsComplete' /\ PanicsExplained'
  BY <1>1 DEF Init, GoInv, ReadsComplete, PanicsExplained
<1> QED  BY <1>2, <1>3, <1>4, <1>5 DEF GoInv

\* Steps that are not the consumer's: what is left to show.
LEMMA Elsewhere ==
    ASSUME GoInv, Running, app # "start", UNCHANGED appVars, resent => resent',
           TypeInv', FetcherInv', FlowInv', txClosed => txClosed',
           rx' = Ended \/ receiving' = Ended => txClosed',
           over' = "panic" => over = "panic" \/ txClosed'
    PROVE  GoInv'
<1>1. EndsInv'
  BY DEF EndsInv, appVars
<1>2. ReadsComplete'
  BY DEF GoInv, ReadsComplete, appVars
<1>3. PanicsExplained'
  BY DEF PanicsExplained, Running
<1> QED  BY <1>1, <1>2, <1>3 DEF GoInv

\* The names of a call, one by one.
LEMMA WantedIs ==
    ASSUME TypeInv, app \in {"info", "read"}
    PROVE  /\ Len(Wanted) = IF app = "info" THEN 1 ELSE Batch
           /\ asked < Len(Wanted) =>
                /\ Wanted[asked + 1] \in Unasked /\ Wanted[asked + 1] \in Names
                /\ Wanted[asked + 1] = IF app = "info" THEN Info ELSE off + asked
<1>1. CASE app = "info"
  <2>1. Wanted = <<Info>>
    BY <1>1 DEF Wanted
  <2> QED  BY <1>1, <2>1, Constants DEF TypeInv, Unasked
<1>2. CASE app = "read"
  <2>1. Wanted = [k \in 1..Batch |-> off + k - 1] /\ Batch \in Nat
    BY <1>2, Constants DEF Wanted
  <2>2. Len(Wanted) = Batch
    BY <2>1
  <2>3. ASSUME asked < Batch PROVE Wanted[asked + 1] = off + asked
    BY <2>1, <2>3 DEF TypeInv
  <2>4. ASSUME asked < Batch PROVE off + asked \in Names /\ off + asked \in Unasked
    BY <1>2, <2>4, Constants DEF TypeInv, Unasked
  <2> QED  BY <1>2, <2>2, <2>3, <2>4
<1> QED  BY <1>1, <1>2

\* The app sends the next name of its call on interestChannel.
LEMMA SendInterestInv ==
    ASSUME GoInv, Running, app # "start", SendInterest
    PROVE  GoInv'
<1> USE DEF SendInterest, fetcherVars, networkVars, endVars
<1> DEFINE i == Wanted[asked + 1]
<1>1. TypeInv /\ FetcherInv /\ EndsInv /\ FlowInv /\ app \in {"info", "read"}
  BY DEF GoInv
<1>2. /\ i \in Unasked /\ i \in Names /\ asked < Len(Wanted)
      /\ i = IF app = "info" THEN Info ELSE off + asked
  BY <1>1, WantedIs
<1> HIDE DEF i
<1>3. interestChannel' = Append(interestChannel, i) /\ asked' = asked + 1
  BY DEF i
<1>4. TypeInv'
  BY <1>1, <1>2, <1>3 DEF TypeInv
<1>5. FetcherInv' /\ EndsInv' /\ ReadsComplete' /\ PanicsExplained'
  BY <1>1 DEF GoInv, FetcherInv, EndsInv, ReadsComplete, PanicsExplained
<1>6. Unasked' \subseteq Unasked \ {i}
  <2>1. asked \in Nat /\ off \in Nat /\ Batch \in Nat /\ app' = app /\ off' = off
    BY <1>1, Constants DEF TypeInv
  <2>2. CASE app = "info"
    BY <1>2, <1>3, <2>1, <2>2 DEF Unasked
  <2>3. CASE app # "info"
    BY <1>2, <1>3, <2>1, <2>3 DEF Unasked
  <2> QED  BY <2>2, <2>3
<1>7. Elements(interestChannel') = Elements(interestChannel) \cup {i}
  BY <1>1, <1>2, <1>3, AppendElements DEF TypeInv
<1>8. /\ UNCHANGED <<OnNetwork, AtRx, AtReceiving, sending, dataChannel, resent>>
  BY DEF OnNetwork, AtRx, AtReceiving
<1>9. FlowInv'
  <2> SUFFICES ASSUME ~resent' PROVE FlowInv'
    BY DEF FlowInv
  <2>1. PICK T \in SUBSET Names : OnePlace(T) /\ Taken(T)
    BY <1>1, <1>8 DEF FlowInv
  <2>2. i \notin Elements(interestChannel)
    BY <1>2, <2>1, HeldOf DEF OnePlace, Apart, Stages
  <2>3. Once => Once'
    BY <1>1, <1>2, <1>3, <2>2, AppendElements DEF Once, TypeInv
  <2>4. ASSUME NEW S
        PROVE  Carries(S, "unasked", "interest", i)
    BY <1>2, <1>6, <1>7, <1>8, HeldOf DEF Carries, Stages
  <2>5. "unasked" \in Stages /\ "interest" \in Stages /\ "unasked" # "interest"
    BY DEF Stages
  <2>6. UNCHANGED <<app, off, counted, buffer>>
    OBVIOUS
  <2> HIDE DEF SendInterest
  <2>7. ~resent' /\ Once => Once' /\ \A S : Carries(S, "unasked", "interest", i)
    BY <2>3, <2>4
  <2> QED  BY <1>1, <1>8, <2>5, <2>6, <2>7, OneMoves
<1> QED  BY <1>4, <1>5, <1>9 DEF GoInv

\* The names in a variable that holds at most one.
LEMMA OneElement == \A i : Elements(<<>>) = {} /\ Elements(<<i>>) = {i}
<1>1. Elements(<<>>) = {}
  BY DEF Elements
<1>2. ASSUME NEW i PROVE Elements(<<i>>) = {i}
  <2>1. Len(<<i>>) = 1 /\ <<i>>[1] = i /\ 1..1 = {1}
    OBVIOUS
  <2> QED  BY <2>1 DEF Elements
<1> QED  BY <1>1, <1>2

\* sendLoop takes an Interest from its channel.
LEMMA TakeInterestInv ==
    ASSUME GoInv, Running, app # "start",
           sending = Nothing, interestChannel # <<>>,
           sending' = <<Head(interestChannel)>>,
           interestChannel' = Tail(interestChannel),
           UNCHANGED <<appVars, window, dataChannel, receiving, fetcherVars, networkVars, endVars>>
    PROVE  GoInv'
<1> DEFINE i == Head(interestChannel)
<1>1. TypeInv /\ FetcherInv /\ EndsInv /\ FlowInv
  BY DEF GoInv
<1>2. i \in Names /\ interestChannel' \in Seq(Names)
  BY <1>1, HeadInType DEF TypeInv
<1>3. UNCHANGED <<app, off, asked, counted, n, buffer, dataChannel, receiving, rx, timer, backoffs,
                  entries, network, resent, txClosed, over>>
  BY DEF appVars, fetcherVars, networkVars, endVars
<1>4. TypeInv'
  BY <1>1, <1>2, <1>3 DEF TypeInv
<1>5. FetcherInv' /\ (rx' = Ended \/ receiving' = Ended => txClosed')
  BY <1>1, <1>3 DEF FetcherInv, EndsInv
<1>6. FlowInv'
  <2>1. UNCHANGED <<Unasked, OnNetwork, AtRx, AtReceiving>>
    BY <1>3 DEF Unasked, OnNetwork, AtRx, AtReceiving
  <2>2. ASSUME Once PROVE /\ i \in Elements(interestChannel)
                          /\ Elements(interestChannel') \subseteq Elements(interestChannel) \ {i}
                          /\ Distinct(interestChannel')
    BY <1>1, <2>2, TailElements DEF Once, TypeInv
  <2>3. Elements(sending') = {i}
    BY OneElement
  <2> HIDE DEF i
  <2>4. ASSUME Once PROVE Once' /\ \A T : Carries(T, "interest", "sending", i)
    <3>1. Once'
      BY <1>3, <2>2, <2>4 DEF Once
    <3>2. ASSUME NEW T PROVE Carries(T, "interest", "sending", i)
      BY <1>3, <2>1, <2>2, <2>3, <2>4, HeldOf DEF Carries, Stages
    <3> QED  BY <3>1, <3>2
  <2>5. "interest" \in Stages /\ "sending" \in Stages /\ "interest" # "sending"
    BY DEF Stages
  <2> QED  BY <1>1, <1>3, <2>4, <2>5, OneMoves
<1> QED  BY <1>3, <1>4, <1>5, <1>6, Elsewhere

\* Interest i goes out; it is in the network once more, unless Tx is closed.
LEMMA Transmits ==
    ASSUME TypeInv, NEW i \in Names, NEW e \in Retried, Transmit(i, e)
    PROVE  /\ network' \in [Names -> Nat] /\ entries' \in [Names -> Retried \cup {NoEntry}]
           /\ entries'[i] # NoEntry /\ \A k \in Names \ {i} : entries'[k] = entries[k]
           /\ resent => resent'
           /\ over' = "panic" => over = "panic" \/ txClosed
           /\ IF txClosed THEN network' = network
              ELSE /\ network' = [network EXCEPT ![i] = @ + 1]
                   /\ e # NewEntry \/ entries[i] # NoEntry => resent'
<1>1. e # NoEntry
  BY DEF Retried, NoEntry
<1>2. entries' = [entries EXCEPT ![i] = e]
  BY DEF Transmit
<1>3. network \in [Names -> Nat] /\ entries \in [Names -> Retried \cup {NoEntry}]
  BY DEF TypeInv
<1>4. CASE txClosed
  BY <1>1, <1>2, <1>3, <1>4 DEF Transmit
<1>5. CASE ~txClosed
  <2>1. network' = [network EXCEPT ![i] = @ + 1] /\ over' = over
    BY <1>5 DEF Transmit
  <2>2. network' \in [Names -> Nat]
    BY <1>3, <2>1
  <2>3. (resent => resent') /\ (e # NewEntry \/ entries[i] # NoEntry => resent')
    BY <1>5, Zenon DEF Transmit
  <2>4. /\ entries' \in [Names -> Retried \cup {NoEntry}]
        /\ entries'[i] # NoEntry /\ \A k \in Names \ {i} : entries'[k] = entries[k]
    BY <1>1, <1>2, <1>3
  <2> QED  BY <1>5, <2>1, <2>2, <2>3, <2>4
<1> QED  BY <1>4, <1>5

\* A step that leaves the goroutines of the fetcher alone.
LEMMA FetcherKept ==
    ASSUME FetcherInv, UNCHANGED <<rx, timer, backoffs>>,
           \A k \in Names : entries[k] # NoEntry => entries'[k] # NoEntry
    PROVE  FetcherInv'
<1>1. rx.do = "resend" => rx.name \in Names
  BY DEF FetcherInv, Idle, Ended
<1> QED  BY <1>1 DEF FetcherInv

\* sendLoop sends its Interest.
LEMMA ExpressInv ==
    ASSUME GoInv, Running, app # "start", sending # Nothing, sending' = Nothing,
           Transmit(sending[1], NewEntry),
           UNCHANGED <<appVars, interestChannel, dataChannel, receiving, rx, timer, backoffs, txClosed>>
    PROVE  GoInv'
<1>1. TypeInv /\ FetcherInv /\ EndsInv /\ FlowInv
  BY DEF GoInv
<1>2. PICK i \in Names : sending = <<i>>
  BY <1>1 DEF TypeInv, Nothing
<1>3. Transmit(i, NewEntry) /\ NewEntry \in Retried
  BY <1>2 DEF NewEntry, Retried
<1>4. UNCHANGED <<app, off, asked, counted, n, buffer, interestChannel, dataChannel, receiving, rx,
                  timer, backoffs, txClosed>>
  BY DEF appVars
<1>5. TypeInv'
  BY <1>1, <1>3, <1>4, Transmits DEF TypeInv
<1>6. FetcherInv' /\ (rx' = Ended \/ receiving' = Ended => txClosed')
  <2>1. \A k \in Names : entries[k] # NoEntry => entries'[k] # NoEntry
    BY <1>1, <1>3, Transmits
  <2> QED  BY <1>1, <1>4, <2>1, FetcherKept DEF EndsInv
<1>7. Elements(sending) = {i} /\ Elements(sending') = {}
  BY <1>2, OneElement DEF Nothing
<1>8. FlowInv'
  <2>1. UNCHANGED <<Unasked, AtRx, AtReceiving>>
    BY <1>4 DEF Unasked, AtRx, AtReceiving
  <2>2. CASE txClosed
    <3>1. network' = network /\ network \in [Names -> Nat] /\ (resent => resent')
      BY <1>1, <1>3, <2>2, Transmits DEF TypeInv
    <3> QED  BY <1>1, <1>4, <1>7, <2>1, <3>1, NothingMoves
  <2>3. CASE ~txClosed
    <3>1. /\ network' = [network EXCEPT ![i] = @ + 1] /\ network \in [Names -> Nat]
          /\ resent => resent'
      BY <1>1, <1>3, <2>3, Transmits DEF TypeInv
    <3>2. OnNetwork' \subseteq OnNetwork \cup {i}
      BY <3>1 DEF OnNetwork
    <3>3. ASSUME NEW T PROVE Carries(T, "sending", "network", i)
      BY <1>4, <1>7, <2>1, <3>2, HeldOf DEF Carries, Stages
    <3>4. "sending" \in Stages /\ "network" \in Stages /\ "sending" # "network"
      BY DEF Stages
    <3>5. ASSUME ~resent', app' \in {"info", "read"}, Once PROVE Once'
      <4>1. PICK T \in SUBSET Names : OnePlace(T)
        BY <1>1, <1>4, <3>1, <3>5 DEF FlowInv
      <4>2. i \notin OnNetwork
        BY <1>7, <3>4, <4>1, HeldOf DEF OnePlace, Apart
      <4>3. network[i] = 0
        BY <3>1, <4>2 DEF OnNetwork
      <4>4. \A k \in Names : network'[k] <= 1
        BY <3>1, <3>5, <4>3 DEF Once
      <4> QED  BY <1>4, <3>5, <4>4 DEF Once
    <3>6. CASE app' \in {"info", "read"}
      BY <1>1, <1>4, <3>1, <3>3, <3>4, <3>5, <3>6, OneMoves
    <3>7. CASE app' \notin {"info", "read"}
      BY <3>7 DEF FlowInv
    <3> QED  BY <3>6, <3>7
  <2> QED  BY <2>2, <2>3
<1>9. (resent => resent') /\ (over' = "panic" => over = "panic" \/ txClosed)
  BY <1>1, <1>3, Transmits
<1> QED  BY <1>4, <1>5, <1>6, <1>8, <1>9, Elsewhere

\* sendLoop takes a name, or hands it to the fetcher.
LEMMA sendLoopInv ==
    ASSUME GoInv, Running, app # "start", sendLoop
    PROVE  GoInv'
<1>1. CASE sending = Nothing
  BY <1>1, TakeInterestInv DEF sendLoop
<1>2. CASE sending # Nothing
  BY <1>2, ExpressInv DEF sendLoop
<1> QED  BY <1>1, <1>2

-----------------------------------------------------------------------------
(* receiveLoop.                                                             *)

\* receiveLoop goes on with the packet it has.
LEMMA SlideWindowInv ==
    ASSUME GoInv, Running, app # "start", SlideWindow
    PROVE  GoInv'
<1> USE DEF SlideWindow, fetcherVars, networkVars, endVars
<1>1. TypeInv /\ FetcherInv /\ EndsInv /\ FlowInv
  BY DEF GoInv
<1>2. receiving \in [do: {"slide", "pass"}, data: Names]
  BY <1>1 DEF TypeInv, Idle, Ended
<1>3. /\ receiving' \in [do: {"slide", "pass"}, data: Names]
      /\ receiving'.data = receiving.data /\ receiving'.do = "pass"
  BY <1>2
<1>4. TypeInv'
  BY <1>1, <1>3 DEF TypeInv, appVars
<1>5. FetcherInv' /\ (rx' = Ended \/ receiving' = Ended => txClosed')
  BY <1>1, <1>3 DEF FetcherInv, EndsInv, Ended
<1>6. AtReceiving' = AtReceiving
  BY <1>3 DEF AtReceiving
<1>7. AtRx' = AtRx
  BY DEF AtRx
<1>8. FlowInv'
  BY <1>1, <1>6, <1>7, NothingMoves DEF appVars, TypeInv
<1> QED  BY <1>4, <1>5, <1>8, Elsewhere

\* receiveLoop passes Data on.
LEMMA PassDataInv ==
    ASSUME GoInv, Running, app # "start", PassData
    PROVE  GoInv'
<1> USE DEF PassData, fetcherVars, networkVars, endVars
<1> DEFINE i == receiving.data
<1>1. TypeInv /\ FetcherInv /\ EndsInv /\ FlowInv
  BY DEF GoInv
<1>2. i \in Names
  BY <1>1 DEF TypeInv, Idle, Ended
<1>3. AtReceiving = {i} /\ AtReceiving' = {}
  BY DEF AtReceiving, Idle
<1>4. dataChannel' \in Seq(Names) /\ Elements(dataChannel') = Elements(dataChannel) \cup {i}
  BY <1>1, <1>2, AppendElements DEF TypeInv
<1>5. TypeInv'
  BY <1>1, <1>4 DEF TypeInv, appVars
<1>6. FetcherInv' /\ (rx' = Ended \/ receiving' = Ended => txClosed')
  BY <1>1 DEF FetcherInv, EndsInv, Ended, Idle
<1>7. FlowInv'
  <2>1. UNCHANGED <<app, off, counted, buffer, interestChannel, sending, resent>>
    BY DEF appVars
  <2>2. UNCHANGED <<Unasked, OnNetwork, AtRx>>
    BY DEF Unasked, OnNetwork, AtRx, appVars
  <2>3. ASSUME NEW T PROVE Carries(T, "receiving", "data", i)
    BY <1>3, <1>4, <2>1, <2>2, HeldOf DEF Carries, Stages
  <2>4. "receiving" \in Stages /\ "data" \in Stages /\ "receiving" # "data"
    BY DEF Stages
  <2>5. ASSUME ~resent', app' \in {"info", "read"}, Once PROVE Once'
    <3>1. PICK T \in SUBSET Names : OnePlace(T)
      BY <1>1, <2>1, <2>5 DEF FlowInv
    <3>2. i \notin Elements(dataChannel)
      BY <1>3, <2>4, <3>1, HeldOf DEF OnePlace, Apart
    <3>3. Distinct(dataChannel')
      BY <1>1, <1>2, <2>5, <3>2, AppendElements DEF TypeInv, Once
    <3> QED  BY <2>5, <3>3 DEF Once
  <2> HIDE DEF i, PassData, fetcherVars, networkVars, endVars
  <2>6. CASE app' \in {"info", "read"}
    BY <1>1, <2>1, <2>3, <2>4, <2>5, <2>6, OneMoves
  <2>7. CASE app' \notin {"info", "read"}
    BY <2>7 DEF FlowInv
  <2> QED  BY <2>6, <2>7
<1> QED  BY <1>5, <1>6, <1>7, Elsewhere

\* receiveLoop ends.
LEMMA ReceiveLoopEndsInv ==
    ASSUME GoInv, Running, app # "start", ReceiveLoopEnds
    PROVE  GoInv'
<1> USE DEF ReceiveLoopEnds, fetcherVars, networkVars, endVars
<1>1. TypeInv /\ FetcherInv /\ EndsInv /\ FlowInv
  BY DEF GoInv
<1>2. TypeInv'
  BY <1>1 DEF TypeInv, appVars
<1>3. FetcherInv' /\ (rx' = Ended \/ receiving' = Ended => txClosed')
  BY <1>1 DEF FetcherInv, EndsInv
<1>4. AtReceiving' = {} /\ AtRx' = AtRx
  BY DEF AtReceiving, AtRx, Ended
<1>5. FlowInv'
  BY <1>1, <1>4, NothingMoves DEF appVars, TypeInv
<1> QED  BY <1>2, <1>3, <1>5, Elsewhere

-----------------------------------------------------------------------------
(* The fetcher.                                                             *)

\* A copy of Interest i leaves the network.
LEMMA OneLess ==
    ASSUME TypeInv, NEW i \in Names, network[i] > 0, network' = [network EXCEPT ![i] = @ - 1]
    PROVE  network' \in [Names -> Nat] /\ \A k \in Names : network'[k] <= network[k]
<1>1. network \in [Names -> Nat]
  BY DEF TypeInv
<1> QED  BY <1>1

\* The fetcher gets an answer from the network.
LEMMA handleDataInv ==
    ASSUME GoInv, Running, app # "start", NEW i \in Names, handleData(i)
    PROVE  GoInv'
<1> USE DEF handleData, Answered, appVars, pipelineVars, endVars
<1>1. TypeInv /\ FetcherInv /\ EndsInv /\ FlowInv
  BY DEF GoInv
<1>2. /\ network' \in [Names -> Nat] /\ network \in [Names -> Nat]
      /\ \A k \in Names : network'[k] <= network[k]
  BY <1>1, OneLess DEF TypeInv
<1>3. entries' \in [Names -> Retried \cup {NoEntry}]
  BY <1>1 DEF TypeInv
<1>4. TypeInv'
  BY <1>1, <1>2, <1>3 DEF TypeInv
<1>5. FetcherInv' /\ (rx' = Ended \/ receiving' = Ended => txClosed')
  BY <1>1 DEF FetcherInv, EndsInv, Ended
<1>6. AtRx' = {i} /\ AtRx = {}
  BY DEF AtRx, Idle
<1>7. FlowInv'
  <2>1. UNCHANGED <<app, off, counted, buffer, interestChannel, sending, dataChannel, resent>>
    OBVIOUS
  <2>2. UNCHANGED <<Unasked, AtReceiving>>
    BY DEF Unasked, AtReceiving
  <2>3. i \in OnNetwork /\ OnNetwork' \subseteq OnNetwork
    BY <1>2 DEF OnNetwork
  <2>4. Once => Once' /\ OnNetwork' \subseteq OnNetwork \ {i}
    BY <1>2, <2>3 DEF Once, OnNetwork
  <2> HIDE DEF handleData, Answered, appVars, pipelineVars, endVars
  <2>5. ASSUME Once, NEW T PROVE Carries(T, "network", "rx", i)
    BY <1>6, <2>1, <2>2, <2>3, <2>4, <2>5, HeldOf DEF Carries, Stages
  <2>6. "network" \in Stages /\ "rx" \in Stages /\ "network" # "rx"
    BY DEF Stages
  <2>7. Once => Once' /\ \A T : Carries(T, "network", "rx", i)
    BY <2>4, <2>5
  <2> QED  BY <1>1, <2>1, <2>6, <2>7, OneMoves
<1> QED  BY <1>4, <1>5, <1>7, Elsewhere

\* The timer of the fetcher is told that Data came.
LEMMA DataResetInv ==
    ASSUME GoInv, Running, app # "start", DataReset
    PROVE  GoInv'
<1> USE DEF DataReset, pipelineVars, networkVars, endVars
<1>1. TypeInv /\ FetcherInv /\ EndsInv /\ FlowInv
  BY DEF GoInv
<1>2. rx.data \in Names
  BY <1>1 DEF FetcherInv, Idle, Ended
<1>3. TypeInv'
  BY <1>1 DEF TypeInv, appVars
<1>4. FetcherInv' /\ (rx' = Ended \/ receiving' = Ended => txClosed')
  BY <1>1, <1>2 DEF FetcherInv, EndsInv, Ended
<1>5. AtRx' = AtRx /\ AtReceiving' = AtReceiving
  BY DEF AtRx, AtReceiving
<1>6. FlowInv'
  BY <1>1, <1>5, NothingMoves DEF appVars, TypeInv
<1> QED  BY <1>3, <1>4, <1>6, Elsewhere

\* The Data is delivered to receiveLoop.
LEMMA DataDeliverInv ==
    ASSUME GoInv, Running, app # "start", DataDeliver
    PROVE  GoInv'
<1> USE DEF DataDeliver, networkVars, endVars
<1> DEFINE i == rx.data
<1>1. TypeInv /\ FetcherInv /\ EndsInv /\ FlowInv
  BY DEF GoInv
<1>2. i \in Names
  BY <1>1 DEF FetcherInv, Idle, Ended
<1>3. TypeInv'
  BY <1>1, <1>2 DEF TypeInv, appVars
<1>4. FetcherInv' /\ (rx' = Ended \/ receiving' = Ended => txClosed')
  BY <1>1 DEF FetcherInv, EndsInv, Ended, Idle
<1>5. AtRx = {i} /\ AtRx' = {} /\ AtReceiving' = {i}
  BY DEF AtRx, AtReceiving, Idle
<1>6. FlowInv'
  <2>1. UNCHANGED <<app, off, counted, buffer, interestChannel, sending, dataChannel, resent>>
    BY DEF appVars
  <2>2. UNCHANGED <<Unasked, OnNetwork>> /\ (Once => Once')
    BY DEF Unasked, OnNetwork, Once, appVars
  <2> HIDE DEF i, DataDeliver
  <2>3. ASSUME NEW T PROVE Carries(T, "rx", "receiving", i)
    BY <1>5, <2>1, <2>2, HeldOf DEF Carries, Stages
  <2>4. "rx" \in Stages /\ "receiving" \in Stages /\ "rx" # "receiving"
    BY DEF Stages
  <2> QED  BY <1>1, <2>1, <2>2, <2>3, <2>4, OneMoves
<1> QED  BY <1>3, <1>4, <1>6, Elsewhere

\* A Nack is answered: the receiver has no Data then.
LEMMA NackInv ==
    ASSUME GoInv, Running, app # "start", NEW i \in Names,
           handleNackCongestion(i) \/ handleNackDuplicate(i) \/ handleNackOther(i)
    PROVE  GoInv'
<1> USE DEF handleNackCongestion, handleNackDuplicate, handleNackOther, Answered, pipelineVars, endVars
<1>1. TypeInv /\ FetcherInv /\ EndsInv /\ FlowInv
  BY DEF GoInv
<1>2. /\ network' \in [Names -> Nat] /\ network \in [Names -> Nat]
      /\ \A k \in Names : network'[k] <= network[k]
  BY <1>1, OneLess DEF TypeInv
<1>3. TypeInv'
  BY <1>1, <1>2 DEF TypeInv, appVars
<1>4. entries[i] \in Retried \cup {NoEntry}
  BY <1>1 DEF TypeInv
<1>5. /\ rx' \in {Idle, [do |-> "error"]} \/
         (entries[i] # NoEntry /\ rx' = [do |-> "resend", name |-> i, entry |-> entries[i]])
      /\ UNCHANGED <<timer, entries, receiving, txClosed>>
  BY DEF fetcherVars
<1>6. \A b \in backoffs' : b.name \in Names /\ b.entry \in Retried /\ b.entry.nack > 0
  <2> SUFFICES ASSUME NEW b \in backoffs', b \notin backoffs
               PROVE  b.name \in Names /\ b.entry \in Retried /\ b.entry.nack > 0
    BY <1>1 DEF FetcherInv
  <2>1. /\ entries[i] # NoEntry
        /\ b = [name |-> i, entry |-> [entries[i] EXCEPT !.nack = @ + 1], nr |-> faults]
    OBVIOUS
  <2>2. entries[i] \in Retried
    BY <1>4, <2>1
  <2>3. [entries[i] EXCEPT !.nack = @ + 1] \in Retried /\ [entries[i] EXCEPT !.nack = @ + 1].nack > 0
    BY <2>2 DEF Retried
  <2> QED  BY <2>1, <2>3
<1>7. FetcherInv' /\ (rx' = Ended \/ receiving' = Ended => txClosed')
  <2>1. CASE rx' \in {Idle, [do |-> "error"]}
    BY <1>1, <1>5, <1>6, <2>1 DEF FetcherInv, EndsInv, Idle, Ended
  <2>2. CASE entries[i] # NoEntry /\ rx' = [do |-> "resend", name |-> i, entry |-> entries[i]]
    <3>1. rx' \in [do: {"resend"}, name: Names, entry: Retried] /\ rx'.name = i /\ rx' # Ended
      BY <1>4, <2>2 DEF Ended
    <3> QED  BY <1>1, <1>5, <1>6, <2>2, <3>1 DEF FetcherInv, EndsInv
  <2> QED  BY <1>5, <2>1, <2>2
<1>8. AtRx' = {} /\ AtReceiving' = AtReceiving
  BY <1>5 DEF AtRx, AtReceiving, Idle
<1>9. FlowInv'
  BY <1>1, <1>2, <1>8, NothingMoves DEF appVars
<1> QED  BY <1>3, <1>7, <1>9, Elsewhere

\* An Interest is sent again: by the receiver, after a backoff, by the timer.
LEMMA ResendInv ==
    ASSUME GoInv, Running, app # "start", NEW i \in Names, NEW e \in Retried, Transmit(i, e),
           e # NewEntry \/ entries[i] # NoEntry,
           UNCHANGED <<appVars, pipelineVars, txClosed>>,
           FetcherInv', AtRx' \subseteq AtRx, rx' = Ended => rx = Ended
    PROVE  GoInv'
<1>1. TypeInv /\ EndsInv /\ FlowInv
  BY DEF GoInv
<1>2. UNCHANGED <<app, off, asked, counted, n, buffer, interestChannel, dataChannel, sending, receiving>>
  BY DEF appVars, pipelineVars
<1>3. TypeInv'
  BY <1>1, <1>2, Transmits DEF TypeInv
<1>4. rx' = Ended \/ receiving' = Ended => txClosed'
  BY <1>1, <1>2 DEF EndsInv
<1>5. FlowInv'
  <2>1. CASE txClosed
    <3>1. /\ network' = network /\ network \in [Names -> Nat] /\ network' \in [Names -> Nat]
          /\ (resent => resent') /\ AtReceiving' = AtReceiving
      BY <1>1, <1>2, <2>1, Transmits DEF TypeInv, AtReceiving
    <3> QED  BY <1>1, <1>2, <3>1, NothingMoves
  <2>2. CASE ~txClosed
    BY <1>1, <2>2, Transmits DEF FlowInv
  <2> QED  BY <2>1, <2>2
<1>6. (resent => resent') /\ (over' = "panic" => over = "panic" \/ txClosed')
  BY <1>1, Transmits
<1> QED  BY <1>3, <1>4, <1>5, <1>6, Elsewhere

\* A Nack makes the fetcher send again.
LEMMA RxResendInv ==
    ASSUME GoInv, Running, app # "start", RxResend
    PROVE  GoInv'
<1> USE DEF RxResend
<1>1. TypeInv /\ FetcherInv
  BY DEF GoInv
<1>2. rx.name \in Names /\ rx.entry \in Retried /\ entries[rx.name] # NoEntry
  BY <1>1 DEF FetcherInv, Idle, Ended
<1>3. FetcherInv'
  BY <1>1 DEF FetcherInv, Idle
<1>4. AtRx' = {} /\ rx' # Ended
  BY DEF AtRx, Idle, Ended
<1> QED  BY <1>2, <1>3, <1>4, ResendInv

\* A backoff is over.
LEMMA BackoffOverInv ==
    ASSUME GoInv, Running, app # "start", NEW b \in backoffs, BackoffOver(b)
    PROVE  GoInv'
<1> USE DEF BackoffOver
<1>1. TypeInv /\ FetcherInv /\ EndsInv /\ FlowInv
  BY DEF GoInv
<1>2. b.name \in Names /\ b.entry \in Retried /\ b.entry # NewEntry
  BY <1>1 DEF FetcherInv, NewEntry
<1>3. AtRx' = AtRx /\ AtReceiving' = AtReceiving
  BY DEF AtRx, AtReceiving, pipelineVars
<1>4. CASE UNCHANGED <<entries, networkVars, over>>
  <2>1. TypeInv'
    BY <1>1, <1>4 DEF TypeInv, appVars, pipelineVars, networkVars
  <2>2. FetcherInv' /\ (rx' = Ended \/ receiving' = Ended => txClosed')
    BY <1>1, <1>4 DEF FetcherInv, EndsInv, pipelineVars
  <2>3. FlowInv'
    BY <1>1, <1>3, <1>4, NothingMoves DEF appVars, pipelineVars, networkVars, TypeInv
  <2>4. (resent => resent') /\ over' = over
    BY <1>4 DEF networkVars
  <2> QED  BY <2>1, <2>2, <2>3, <2>4, Elsewhere
<1>5. CASE Transmit(b.name, b.entry)
  <2>1. \A k \in Names : entries[k] # NoEntry => entries'[k] # NoEntry
    BY <1>1, <1>2, <1>5, Transmits
  <2>2. rx.do = "resend" => rx.name \in Names
    BY <1>1 DEF FetcherInv, Idle, Ended
  <2>3. FetcherInv'
    BY <1>1, <2>1, <2>2 DEF FetcherInv
  <2> QED  BY <1>2, <1>3, <1>5, <2>3, ResendInv
<1> QED  BY <1>4, <1>5

\* A timeout makes the fetcher send again.
LEMMA TimerResendInv ==
    ASSUME GoInv, Running, app # "start", TimerResend
    PROVE  GoInv'
<1> USE DEF TimerResend
<1>1. TypeInv /\ FetcherInv
  BY DEF GoInv
<1>2. timer.name \in Names /\ timer.entry \in Retried /\ timer.entry # NewEntry
  BY <1>1 DEF FetcherInv, NewEntry
<1>3. FetcherInv'
  <2>1. \A k \in Names : entries[k] # NoEntry => entries'[k] # NoEntry
    BY <1>1, <1>2, Transmits
  <2>2. rx.do = "resend" => rx.name \in Names
    BY <1>1 DEF FetcherInv, Idle, Ended
  <2> QED  BY <1>1, <2>1, <2>2 DEF FetcherInv
<1>4. AtRx' = AtRx
  BY DEF AtRx
<1> QED  BY <1>2, <1>3, <1>4, ResendInv

\* Steps that only the fetcher's own variables see, or a packet less.
LEMMA FetcherOnlyInv ==
    ASSUME GoInv, Running, app # "start", FetcherInv',
           UNCHANGED <<appVars, pipelineVars, entries, resent, endVars>>,
           network' \in [Names -> Nat], \A k \in Names : network'[k] <= network[k],
           AtRx' \subseteq AtRx, rx' = Ended => rx = Ended \/ txClosed
    PROVE  GoInv'
<1>1. TypeInv /\ EndsInv /\ FlowInv
  BY DEF GoInv
<1>2. TypeInv'
  BY <1>1 DEF TypeInv, appVars, pipelineVars
<1>3. rx' = Ended \/ receiving' = Ended => txClosed'
  BY <1>1 DEF EndsInv, pipelineVars, endVars
<1>4. AtReceiving' = AtReceiving
  BY DEF AtReceiving, pipelineVars
<1>5. FlowInv'
  BY <1>1, <1>4, NothingMoves DEF TypeInv, appVars, pipelineVars
<1> QED  BY <1>2, <1>3, <1>5, Elsewhere DEF endVars

\* A timer fires for an Interest that may have been answered.
LEMMA handleTimeoutInv ==
    ASSUME GoInv, Running, app # "start", NEW i \in Names, handleTimeout(i)
    PROVE  GoInv'
<1> USE DEF handleTimeout
<1>1. TypeInv /\ FetcherInv
  BY DEF GoInv
<1>2. entries[i] \in Retried \cup {NoEntry} /\ network \in [Names -> Nat]
  BY <1>1 DEF TypeInv
<1>3. timer'.do = "resend" => timer'.name \in Names /\ timer'.entry \in Retried /\ timer'.entry.timeout > 0
  <2>1. CASE timer' = [timer EXCEPT !.todo = @ \ {i}]
    BY <2>1
  <2>2. CASE timer' = [do |-> "error"]
    BY <2>2
  <2>3. CASE /\ entries[i] # NoEntry
             /\ timer' = [do |-> "resend", todo |-> timer.todo \ {i}, name |-> i,
                          entry |-> [entries[i] EXCEPT !.timeout = @ + 1]]
    <3>1. /\ [entries[i] EXCEPT !.timeout = @ + 1] \in Retried
          /\ [entries[i] EXCEPT !.timeout = @ + 1].timeout > 0
      BY <1>2, <2>3 DEF Retried
    <3> QED  BY <2>3, <3>1
  <2> QED  BY <2>1, <2>2, <2>3
<1>4. FetcherInv'
  BY <1>1, <1>3 DEF FetcherInv
<1> QED  BY <1>2, <1>4, FetcherOnlyInv DEF AtRx

\* The steps of the fetcher that move no name.
LEMMA FetcherStepInv ==
    ASSUME GoInv, Running, app # "start",
           TimerFires \/ RangeEnds \/ TimerEnds \/ RxEnds \/ \E i \in Names : Lose(i)
    PROVE  GoInv'
<1>1. TypeInv /\ FetcherInv /\ network \in [Names -> Nat]
  BY DEF GoInv, TypeInv
<1>2. CASE TimerFires \/ RangeEnds \/ TimerEnds
  <2>1. UNCHANGED <<appVars, pipelineVars, rx, backoffs, entries, networkVars, endVars>>
    BY <1>2 DEF TimerFires, RangeEnds, TimerEnds
  <2>2. timer'.do # "resend"
    BY <1>2 DEF TimerFires, RangeEnds, TimerEnds, Idle, Ended
  <2>3. FetcherInv'
    BY <1>1, <2>1, <2>2 DEF FetcherInv
  <2> QED  BY <1>1, <2>1, <2>3, FetcherOnlyInv DEF networkVars, AtRx
<1>3. CASE RxEnds
  <2>1. FetcherInv' /\ AtRx' = {}
    BY <1>1, <1>3 DEF RxEnds, FetcherInv, AtRx, Ended
  <2> QED  BY <1>1, <1>3, <2>1, FetcherOnlyInv DEF RxEnds, networkVars
<1>4. ASSUME NEW i \in Names, Lose(i) PROVE GoInv'
  <2>1. network' \in [Names -> Nat] /\ \A k \in Names : network'[k] <= network[k]
    BY <1>1, <1>4, OneLess DEF Lose
  <2>2. FetcherInv' /\ AtRx' = AtRx
    BY <1>1, <1>4 DEF Lose, fetcherVars, FetcherInv, AtRx
  <2> QED  BY <1>4, <2>1, <2>2, FetcherOnlyInv DEF Lose, fetcherVars
<1> QED  BY <1>2, <1>3, <1>4

-----------------------------------------------------------------------------
(* The consumer ends, or takes Data.                                        *)

\* Steps that end the app, a goroutine or the process.
LEMMA LeavesInv ==
    ASSUME GoInv, Running, app # "start", app' \in {"closing", "failed", "ok", "error"} \cup {app},
           UNCHANGED <<off, asked, counted, n, buffer, holes, pipelineVars, entries, networkVars>>,
           FetcherInv', rx' = Ended => rx = Ended, AtRx' \subseteq AtRx,
           txClosed => txClosed', over' = "panic" => txClosed'
    PROVE  GoInv'
<1>1. TypeInv /\ EndsInv /\ FlowInv
  BY DEF GoInv
<1>2. TypeInv'
  BY <1>1 DEF TypeInv, pipelineVars, networkVars
<1>3. EndsInv'
  BY <1>1 DEF EndsInv, pipelineVars, TypeInv
<1>4. AtReceiving' = AtReceiving
  BY DEF AtReceiving, pipelineVars
<1>5. FlowInv'
  BY <1>1, <1>4, NothingMoves DEF TypeInv, pipelineVars, networkVars
<1>6. ReadsComplete' /\ PanicsExplained'
  BY DEF GoInv, ReadsComplete, PanicsExplained, networkVars
<1> QED  BY <1>2, <1>3, <1>5, <1>6 DEF GoInv

\* The fetcher gives up.
LEMMA ErrorInv ==
    ASSUME GoInv, Running, app # "start", RxError \/ TimerError
    PROVE  GoInv'
<1>1. FetcherInv /\ EndsInv
  BY DEF GoInv
<1>2. CASE RxError
  <2>1. FetcherInv' /\ AtRx' = {} /\ rx' # Ended
    BY <1>1, <1>2 DEF RxError, FetcherInv, AtRx, Idle, Ended
  <2> QED  BY <1>2, <2>1, LeavesInv DEF RxError, TakeError, Fail, endVars, Running
<1>3. CASE TimerError
  <2>1. FetcherInv' /\ AtRx' = AtRx
    BY <1>1, <1>3 DEF TimerError, FetcherInv, AtRx, Idle
  <2>2. CASE receiving = Ended
    BY <1>1, <1>3, <2>1, <2>2, LeavesInv DEF TimerError, EndsInv, appVars
  <2>3. CASE receiving # Ended
    BY <1>3, <2>1, <2>3, LeavesInv DEF TimerError, TakeError, Fail, Running
  <2> QED  BY <2>2, <2>3
<1> QED  BY <1>2, <1>3

\* The app closes or exits.
LEMMA EndInv ==
    ASSUME GoInv, Running, app # "start", AppCloses \/ Exit \/ Signal \/ SignalCloses
    PROVE  GoInv'
<1>1. FetcherInv /\ EndsInv
  BY DEF GoInv
<1>2. UNCHANGED <<off, asked, counted, n, buffer, holes, pipelineVars, fetcherVars, networkVars>>
  BY DEF AppCloses, Exit, Signal, SignalCloses, appVars
<1>3. FetcherInv' /\ AtRx' = AtRx /\ rx' = rx /\ entries' = entries
  BY <1>1, <1>2 DEF FetcherInv, AtRx, fetcherVars
<1>4. app' \in {"closing", "failed", "ok", "error"} \cup {app}
  BY DEF AppCloses, Exit, Signal, SignalCloses, appVars
<1>5. txClosed => txClosed'
  BY DEF AppCloses, Exit, Signal, SignalCloses, Close
<1>6. over' = "panic" => txClosed'
  BY <1>1 DEF AppCloses, Exit, Signal, SignalCloses, Close, EndsInv, Running
<1> QED  BY <1>2, <1>3, <1>4, <1>5, <1>6, LeavesInv

\* The app reads from channels that are closed: whatever its call returns,
\* the signal that closed them ends it.
LEMMA GetClosedInv ==
    ASSUME GoInv, CloseInv, Running, app # "start", GetClosed
    PROVE  GoInv'
<1>1. TypeInv /\ FetcherInv /\ EndsInv /\ txClosed /\ txClosed'
  BY DEF GoInv, GetClosed, EndsInv
<1>2. UNCHANGED <<pipelineVars, fetcherVars, networkVars>> /\ app \in {"info", "read"}
  BY DEF GetClosed
<1>3. FetcherInv' /\ AtRx' = AtRx /\ rx' = rx /\ entries' = entries
  BY <1>1, <1>2 DEF FetcherInv, AtRx, fetcherVars
<1>4. CASE UNCHANGED <<off, asked, counted, n, buffer, holes>> /\ app' \in {"closing", app}
  BY <1>1, <1>2, <1>3, <1>4, LeavesInv
<1>5. CASE app = "read" /\ Return(n, buffer) /\ UNCHANGED over
  <2>1. /\ app' = "closing" /\ off' = off + n
        /\ asked' = 0 /\ counted' = 0 /\ n' = 0
    BY <1>1, <1>5 DEF CloseInv, Return
  <2>2. TypeInv'
    BY <1>1, <1>2, <1>3, <2>1 DEF TypeInv, pipelineVars, networkVars
  <2>3. FlowInv' /\ EndsInv' /\ ReadsComplete' /\ PanicsExplained'
    BY <1>1, <2>1 DEF FlowInv, EndsInv, ReadsComplete, PanicsExplained
  <2> QED  BY <1>3, <2>2, <2>3 DEF GoInv
<1> QED  BY <1>4, <1>5 DEF GetClosed, appVars

\* Data that is not the last one of the call is counted; s is its name.
LEMMA CountInv ==
    ASSUME FlowInv, TypeInv, NEW s, NEW new, ~resent,
           app \in {"info", "read"}, UNCHANGED <<app, off, asked, resent>>,
           UNCHANGED <<interestChannel, sending, receiving, fetcherVars, networkVars>>,
           dataChannel # <<>>, s = Head(dataChannel), dataChannel' = Tail(dataChannel),
           counted' = counted + 1, buffer' = new, app = "read" => buffer \subseteq new,
           app = "read" /\ s \in 0 .. Size - 1 => s \in new
    PROVE  FlowInv'
<1>1. Once /\ s \in Names
  BY HeadInType DEF FlowInv, TypeInv
<1>2. PICK T \in SUBSET Names : OnePlace(T) /\ Taken(T)
  BY DEF FlowInv
<1>3. /\ s \in Elements(dataChannel)
      /\ Elements(dataChannel') \subseteq Elements(dataChannel) \ {s}
      /\ Distinct(dataChannel')
  BY <1>1, TailElements DEF TypeInv, Once
<1>4. s \notin T
  BY <1>2, <1>3, HeldOf DEF OnePlace, Apart, Stages
<1>5. PICK U \in SUBSET Names : U = T \cup {s}
  BY <1>1
<1>6. UNCHANGED <<Unasked, OnNetwork, AtRx, AtReceiving, Call>>
  BY DEF Unasked, OnNetwork, AtRx, AtReceiving, Call, fetcherVars, networkVars
<1>7. /\ s \in Held(T)["data"]
      /\ Held(U)'["data"] \subseteq Held(T)["data"] \ {s}
      /\ Held(U)'["taken"] \subseteq Held(T)["taken"] \cup {s}
      /\ \A a \in Stages \ {"data", "taken"} : Held(U)'[a] \subseteq Held(T)[a]
  BY <1>3, <1>5, <1>6, HeldOf DEF Stages
<1>8. OnePlace(U)'
  <2>1. "data" \in Stages /\ "taken" \in Stages /\ "data" # "taken"
    BY DEF Stages
  <2> QED  BY <1>2, <1>6, <1>7, <2>1, Move DEF OnePlace
<1>9. Taken(U)'
  <2>1. IsFiniteSet(U) /\ Cardinality(U) = counted + 1
    BY <1>2, <1>4, <1>5, FS_AddElement DEF Taken
  <2> QED  BY <1>2, <1>5, <2>1 DEF Taken
<1>10. Once'
  BY <1>1, <1>3 DEF Once, networkVars
<1> QED  BY <1>8, <1>9, <1>10 DEF FlowInv

\* A call has as many names as it counts answers.
LEMMA CallSize ==
    ASSUME TypeInv, app \in {"info", "read"}
    PROVE  IsFiniteSet(Call) /\ Cardinality(Call) = Len(Wanted)
<1>1. CASE app = "info"
  BY <1>1, WantedIs, FS_Singleton DEF Call
<1>2. CASE app = "read"
  <2>1. off \in Int /\ off + Batch - 1 \in Int /\ ~(off > off + Batch - 1)
        /\ (off + Batch - 1) - off + 1 = Batch
    BY Constants DEF TypeInv
  <2>2. IsFiniteSet(off .. off + Batch - 1) /\ Cardinality(off .. off + Batch - 1) = Batch
    BY <2>1, FS_Interval
  <2> QED  BY <1>2, <2>2, WantedIs DEF Call
<1> QED  BY <1>1, <1>2

\* The last Data of the call: all its names have been taken then, and nothing
\* is on its way.
LEMMA LastData ==
    ASSUME FlowInv, TypeInv, NEW s, ~resent, app \in {"info", "read"},
           UNCHANGED <<interestChannel, sending, receiving, fetcherVars, networkVars>>,
           dataChannel # <<>>, s = Head(dataChannel), dataChannel' = Tail(dataChannel),
           counted + 1 = Len(Wanted)
    PROVE  /\ s \in Call
           /\ app = "read" => (off .. off + Batch - 1 \cap 0 .. Size - 1) \ {s} \subseteq buffer
           /\ Elements(interestChannel') = {} /\ Elements(sending') = {} /\ OnNetwork' = {}
           /\ AtRx' = {} /\ AtReceiving' = {} /\ Elements(dataChannel') = {}
           /\ Distinct(interestChannel') /\ Distinct(dataChannel')
           /\ \A i \in Names : network'[i] <= 1
<1>1. Once /\ s \in Names
  BY HeadInType DEF FlowInv, TypeInv
<1>2. PICK T \in SUBSET Names : OnePlace(T) /\ Taken(T)
  BY DEF FlowInv
<1>3. /\ s \in Elements(dataChannel)
      /\ Elements(dataChannel') \subseteq Elements(dataChannel) \ {s}
      /\ Distinct(dataChannel')
  BY <1>1, TailElements DEF TypeInv, Once
<1>4. UNCHANGED <<OnNetwork, AtRx, AtReceiving>>
  BY DEF OnNetwork, AtRx, AtReceiving, fetcherVars, networkVars
<1>5. /\ T \subseteq Call /\ s \in Call
      /\ \A a \in Stages : Held(T)[a] \subseteq Call
      /\ \A a \in Stages \ {"taken"} : Held(T)[a] \cap T = {}
      /\ \A a \in Stages \ {"data"} : s \notin Held(T)[a]
  BY <1>2, <1>3, HeldOf DEF OnePlace, Apart, Within, Stages
<1>6. s \notin T
  BY <1>3, <1>5, HeldOf DEF Stages
<1>7. T \cup {s} = Call
  <2>1. IsFiniteSet(T \cup {s}) /\ Cardinality(T \cup {s}) = counted + 1
    BY <1>2, <1>6, FS_AddElement DEF Taken
  <2>2. IsFiniteSet(Call) /\ Cardinality(Call) = counted + 1
    BY CallSize
  <2>3. T \cup {s} \subseteq Call
    BY <1>5
  <2> QED  BY <2>1, <2>2, <2>3, FS_Subset
<1>8. /\ \A a \in Stages \ {"taken", "data"} : Held(T)[a] = {}
      /\ Held(T)["data"] \subseteq {s}
  BY <1>5, <1>7 DEF Stages
<1>9. /\ Elements(interestChannel) = {} /\ Elements(sending) = {} /\ OnNetwork = {}
      /\ AtRx = {} /\ AtReceiving = {} /\ Elements(dataChannel) \subseteq {s}
  BY <1>8, HeldOf DEF Stages
<1>10. app = "read" => (off .. off + Batch - 1 \cap 0 .. Size - 1) \ {s} \subseteq buffer
  BY <1>2, <1>7 DEF Call, Taken
<1> QED  BY <1>1, <1>3, <1>4, <1>5, <1>9, <1>10 DEF Once, networkVars

\* A call that has counted as many as it has names took all of them.
LEMMA ReturnFlow ==
    ASSUME FlowInv, TypeInv, NEW s, NEW counts \in Nat, NEW new, ~resent, ~resent',
           app \in {"info", "read"}, Return(counts, new),
           UNCHANGED <<interestChannel, sending, receiving, fetcherVars, networkVars>>,
           dataChannel # <<>>, s = Head(dataChannel), dataChannel' = Tail(dataChannel),
           counted + 1 = Len(Wanted)
    PROVE  FlowInv'
<1> SUFFICES ASSUME app' = "read"
             PROVE  Once' /\ \E T \in SUBSET Names : OnePlace(T)' /\ Taken(T)'
  BY DEF FlowInv, Return
<1>1. PICK T : T = {}
  OBVIOUS
<1>2. off' \in Nat /\ asked' = 0 /\ counted' = 0 /\ buffer' = {}
  BY DEF Return, TypeInv
<1>3. Unasked' = Call'
  BY <1>2 DEF Unasked, Call
<1>4. /\ Elements(interestChannel') = {} /\ Elements(sending') = {} /\ OnNetwork' = {}
      /\ AtRx' = {} /\ AtReceiving' = {} /\ Elements(dataChannel') = {}
      /\ Once'
  BY LastData DEF Once
<1>5. Held(T)'["unasked"] = Call' /\ \A a \in Stages \ {"unasked"} : Held(T)'[a] = {}
  BY <1>1, <1>3, <1>4, HeldOf DEF Stages
<1>6. OnePlace(T)'
  BY <1>5 DEF OnePlace, Apart, Within
<1>7. Taken(T)'
  BY <1>1, <1>2, FS_EmptySet DEF Taken
<1> QED  BY <1>1, <1>4, <1>6, <1>7

\* One Data is counted, for copied segments: new is the buffer with it, if it
\* is for one of the file's segments.
LEMMA CountedInv ==
    ASSUME GoInv, Running, app \in {"info", "read"}, NEW s, NEW copied \in {0, 1}, NEW new,
           UNCHANGED <<interestChannel, sending, receiving, fetcherVars, networkVars, txClosed, over>>,
           dataChannel # <<>>, s = Head(dataChannel), dataChannel' = Tail(dataChannel),
           Counted(copied, new), app = "read" => buffer \subseteq new,
           ~resent /\ app = "read" /\ s \in 0 .. Size - 1 /\ s >= off => s \in new
    PROVE  GoInv'
<1>1. TypeInv /\ FetcherInv /\ EndsInv /\ FlowInv /\ ReadsComplete
  BY DEF GoInv
<1>2. UNCHANGED <<resent, network, entries, rx, timer, backoffs>>
  BY DEF networkVars, fetcherVars
<1>3. dataChannel' \in Seq(Names) /\ s \in Names /\ n + copied \in Nat
  BY <1>1, HeadInType DEF TypeInv
<1>4. FetcherInv'
  BY <1>1, <1>2 DEF FetcherInv
<1>5. PanicsExplained' /\ (rx' = Ended \/ receiving' = Ended => txClosed')
  BY <1>1, <1>2 DEF PanicsExplained, EndsInv, Running
<1>6. CASE counted + 1 = Len(Wanted)
  <2>1. Return(n + copied, new)
    BY <1>6 DEF Counted
  <2>2. TypeInv' /\ app' # "start"
    <3>1. /\ off \in Nat /\ off' = IF app = "info" THEN 0 ELSE off + (n + copied)
          /\ app' \in {"closing", "read"} /\ (app' = "read" => ~(off' >= Size))
          /\ asked' = 0 /\ counted' = 0 /\ n' = 0
      BY <1>1, <2>1 DEF TypeInv, Return
    <3>2. off' \in Nat /\ (app' = "read" => off' < Size)
      BY <1>3, <3>1, Constants
    <3> QED  BY <1>1, <1>2, <1>3, <3>1, <3>2 DEF TypeInv
  <2>3. FlowInv'
    <3>1. CASE resent
      BY <1>2, <3>1 DEF FlowInv
    <3>2. CASE ~resent
      BY <1>1, <1>2, <1>3, <1>6, <2>1, <3>2, ReturnFlow
    <3> QED  BY <3>1, <3>2
  <2>4. ReadsComplete'
    <3> SUFFICES ASSUME ~resent, app = "read" PROVE holes' = holes
      BY <1>1, <1>2, <2>1 DEF ReadsComplete, Return
    <3>1. (off .. off + Batch - 1 \cap 0 .. Size - 1) \ {s} \subseteq buffer /\ s \in off .. off + Batch - 1
      BY <1>1, <1>2, <1>6, LastData DEF Call
    <3>2. s \in 0 .. Size - 1 => s \in new
      <4>1. s >= off
        BY <3>1
      <4> QED  BY <4>1
    <3>3. (off .. (off + Batch - 1) \cap 0 .. (Size - 1)) \ new = {}
      BY <3>1, <3>2
    <3> QED  BY <2>1, <3>3 DEF Return
  <2> QED  BY <1>4, <1>5, <2>2, <2>3, <2>4 DEF GoInv, EndsInv
<1>7. CASE counted + 1 # Len(Wanted)
  <2>1. counted' = counted + 1 /\ n' = n + copied /\ buffer' = new /\ UNCHANGED <<app, off, asked, holes>>
    BY <1>7 DEF Counted
  <2>2. TypeInv' /\ app' # "start"
    BY <1>1, <1>2, <1>3, <2>1 DEF TypeInv
  <2>3. ReadsComplete'
    BY <1>1, <1>2, <2>1 DEF ReadsComplete
  <2>4. FlowInv'
    <3>1. CASE resent
      BY <1>2, <3>1 DEF FlowInv
    <3>2. CASE ~resent /\ app = "read"
      <4>1. s \in 0 .. Size - 1 => s \in new
        <5>1. PICK T \in SUBSET Names : OnePlace(T)
          BY <1>1, <3>2 DEF FlowInv
        <5>2. s \in Elements(dataChannel)
          BY <1>1, <3>2, TailElements DEF TypeInv, FlowInv, Once
        <5>3. s \in off .. off + Batch - 1
          BY <3>2, <5>1, <5>2, HeldOf DEF OnePlace, Within, Stages, Call
        <5> QED  BY <1>1, <3>2, <5>3, Constants DEF TypeInv
      <4> QED  BY <1>1, <1>2, <2>1, <3>2, <4>1, CountInv
    <3>3. CASE ~resent /\ app = "info"
      BY <1>1, <1>2, <1>3, <1>7, <2>1, <3>3, CountInv
    <3> QED  BY <3>1, <3>2, <3>3
  <2> QED  BY <1>4, <1>5, <2>2, <2>3, <2>4 DEF GoInv, EndsInv
<1> QED  BY <1>6, <1>7

\* The app takes Data.
LEMMA GetDataInv ==
    ASSUME GoInv, Running, app # "start", GetData
    PROVE  GoInv'
<1> DEFINE s == Head(dataChannel)
<1>1. TypeInv /\ FetcherInv /\ EndsInv /\ FlowInv /\ ReadsComplete /\ app \in {"info", "read"}
  BY DEF GoInv, GetData
<1>2. /\ UNCHANGED <<interestChannel, window, sending, receiving, fetcherVars, networkVars, done,
                     txClosed, signal>>
      /\ dataChannel # <<>> /\ dataChannel' = Tail(dataChannel)
  BY DEF GetData
<1>3. s \in Names /\ dataChannel' \in Seq(Names)
  BY <1>1, <1>2, HeadInType DEF TypeInv
<1>4. UNCHANGED <<resent, network, entries, rx, timer, backoffs>>
  BY <1>2 DEF networkVars, fetcherVars
<1>5. FetcherInv' /\ (rx' = Ended \/ receiving' = Ended => txClosed')
  BY <1>1, <1>2, <1>4 DEF FetcherInv, EndsInv
<1>6. \/ Fail /\ UNCHANGED over
      \/ app = "info" /\ Counted(0, {}) /\ UNCHANGED over
      \/ app = "read" /\ s >= off /\ Counted(1, buffer \cup {s}) /\ UNCHANGED over
      \/ app = "read" /\ (s >= Size \/ s = off - 1) /\ Counted(0, buffer) /\ UNCHANGED over
      \/ app = "read" /\ s \in 0..(off - 2) /\ over' = "panic" /\ UNCHANGED appVars
  BY DEF GetData
<1> HIDE DEF s
<1>7. s = Head(dataChannel)
  BY DEF s
<1>8. CASE Fail /\ UNCHANGED over
  <2>1. TypeInv' /\ app' = "failed" /\ holes' = holes
    BY <1>1, <1>2, <1>3, <1>4, <1>8 DEF TypeInv, Fail
  <2>2. FlowInv' /\ EndsInv' /\ ReadsComplete' /\ PanicsExplained'
    BY <1>1, <1>2, <1>4, <1>5, <1>8, <2>1 DEF FlowInv, EndsInv, ReadsComplete, PanicsExplained, Running
  <2> QED  BY <1>5, <2>1, <2>2 DEF GoInv
<1>9. CASE app = "info" /\ Counted(0, {}) /\ UNCHANGED over
  BY <1>2, <1>7, <1>9, CountedInv
<1>10. CASE app = "read" /\ s >= off /\ Counted(1, buffer \cup {s}) /\ UNCHANGED over
  BY <1>2, <1>7, <1>10, CountedInv
<1>11. CASE app = "read" /\ (s >= Size \/ s = off - 1) /\ Counted(0, buffer) /\ UNCHANGED over
  <2>1. ~(s \in 0 .. Size - 1 /\ s >= off)
    BY <1>1, <1>3, <1>11, Constants DEF TypeInv
  <2> QED  BY <1>2, <1>7, <1>11, <2>1, CountedInv
<1>12. CASE app = "read" /\ s \in 0..(off - 2) /\ over' = "panic" /\ UNCHANGED appVars
  <2>1. resent
    <3> SUFFICES ASSUME ~resent PROVE FALSE
      OBVIOUS
    <3>1. Once /\ \E T \in SUBSET Names : OnePlace(T)
      BY <1>1 DEF FlowInv
    <3>2. PICK T \in SUBSET Names : OnePlace(T)
      BY <3>1
    <3>3. s \in Elements(dataChannel)
      BY <1>1, <1>2, <1>7, <3>1, TailElements DEF TypeInv, Once
    <3>4. s \in off .. off + Batch - 1
      BY <1>12, <3>2, <3>3, HeldOf DEF OnePlace, Within, Stages, Call
    <3>5. off \in Nat
      BY <1>1 DEF TypeInv
    <3> QED  BY <1>12, <3>4, <3>5
  <2>2. TypeInv' /\ app' = app /\ holes' = holes
    BY <1>1, <1>2, <1>3, <1>4, <1>12 DEF TypeInv, appVars
  <2>3. FlowInv' /\ EndsInv' /\ ReadsComplete' /\ PanicsExplained'
    BY <1>1, <1>4, <1>5, <2>1, <2>2 DEF FlowInv, EndsInv, ReadsComplete, PanicsExplained
  <2> QED  BY <1>5, <2>2, <2>3 DEF GoInv
<1> QED  BY <1>6, <1>8, <1>9, <1>10, <1>11, <1>12

\* A step of nothing.
LEMMA GoStutter ==
    ASSUME GoInv, UNCHANGED vars
    PROVE  GoInv'
<1> USE DEF vars, appVars, pipelineVars, fetcherVars, networkVars, endVars
<1>1. TypeInv' /\ FetcherInv' /\ ReadsComplete' /\ PanicsExplained'
  BY DEF GoInv, TypeInv, FetcherInv, ReadsComplete, PanicsExplained
<1>2. EndsInv'
  BY DEF GoInv, EndsInv, Running, Init
<1>3. UNCHANGED <<AtRx, AtReceiving>>
  BY DEF AtRx, AtReceiving
<1>4. FlowInv'
  BY <1>3, NothingMoves DEF GoInv, TypeInv
<1> QED  BY <1>1, <1>2, <1>4 DEF GoInv

\* Every step preserves the invariant.
LEMMA GoStep == GoInv /\ CloseInv /\ [Next]_vars => GoInv'
<1> SUFFICES ASSUME GoInv, CloseInv, Next, app # "start" PROVE GoInv'
  BY GoStutter, OnlyStart, StartInv DEF Next
<1>1. Running
  BY DEF Next
<1>2. CASE Consumer
  BY <1>1, <1>2, StartInv, SendInterestInv, GetDataInv, GetClosedInv, EndInv DEF Consumer
<1>3. CASE sendLoop \/ receiveLoop
  BY <1>1, <1>3, sendLoopInv, SlideWindowInv, PassDataInv, ReceiveLoopEndsInv DEF receiveLoop
<1>4. CASE Receiver \/ RxEnds
  BY <1>1, <1>4, DataResetInv, DataDeliverInv, RxResendInv, ErrorInv, FetcherStepInv DEF Receiver
<1>5. CASE TimerFires \/ Timer
  BY <1>1, <1>5, TimerResendInv, ErrorInv, handleTimeoutInv, FetcherStepInv DEF Timer
<1>6. CASE \E b \in backoffs : BackoffOver(b)
  BY <1>1, <1>6, BackoffOverInv
<1>7. CASE \E i \in Names : Answer(i) \/ Lose(i)
  BY <1>1, <1>7, handleDataInv, NackInv, FetcherStepInv DEF Answer
<1>8. CASE Signal \/ SignalCloses
  BY <1>1, <1>8, EndInv
<1> QED  BY <1>2, <1>3, <1>4, <1>5, <1>6, <1>7, <1>8 DEF Next

\* A call that goes on after another one, or after a Data, does so before any
\* signal or leaves things as they were.
LEMMA CloseStep == CloseInv /\ [Next]_vars => CloseInv'
<1> SUFFICES ASSUME CloseInv, [Next]_vars PROVE CloseInv'
  OBVIOUS
<1> USE DEF CloseInv
<1>1. ASSUME UNCHANGED <<txClosed, signal>>, app' \in {"closing", "failed", "ok", "error"} \cup {app}
      PROVE  CloseInv'
  BY <1>1
<1>2. CASE Start
  BY <1>2 DEF Start
<1>3. CASE GetData \/ GetClosed
  <2>1. /\ UNCHANGED <<txClosed, signal>> /\ app \in {"info", "read"}
        /\ app' \in {"closing", "failed", app} \/ (app' = "read" /\ signal = "none")
    BY <1>3 DEF GetData, GetClosed, Counted, Return, Fail, appVars
  <2> QED  BY <2>1
<1>4. CASE SendInterest \/ AppCloses \/ Exit
  BY <1>4 DEF SendInterest, AppCloses, Exit, Close, appVars, endVars
<1>5. CASE sendLoop \/ receiveLoop
  BY <1>5 DEF sendLoop, receiveLoop, SlideWindow, PassData, ReceiveLoopEnds, appVars, endVars
<1>6. CASE Receiver \/ RxEnds
  BY <1>6 DEF Receiver, RxEnds, DataReset, DataDeliver, RxResend, RxError, TakeError, Fail,
              appVars, endVars
<1>7. CASE TimerFires \/ Timer
  BY <1>7 DEF TimerFires, Timer, TimerResend, TimerError, RangeEnds, TimerEnds, handleTimeout,
              TakeError, Fail, appVars, endVars
<1>8. CASE \E b \in backoffs : BackoffOver(b)
  BY <1>8 DEF BackoffOver, appVars
<1>9. CASE \E i \in Names : Answer(i) \/ Lose(i)
  BY <1>9 DEF Answer, Lose, handleData, handleNackCongestion, handleNackDuplicate,
              handleNackOther, appVars, endVars
<1>10. CASE Signal \/ SignalCloses
  BY <1>10 DEF Signal, SignalCloses, appVars
<1>11. CASE UNCHANGED vars
  BY <1>11 DEF vars, appVars, endVars
<1> QED  BY <1>2, <1>3, <1>4, <1>5, <1>6, <1>7, <1>8, <1>9, <1>10, <1>11 DEF Next, Consumer

\* Both invariants hold from the start.
LEMMA GoAlways == Spec => []GoInv
<1>1. Init => CloseInv
  BY DEF Init, CloseInv
<1> QED  BY <1>1, CloseStep, GoInit, GoStep, PTL DEF Spec

-----------------------------------------------------------------------------
\* For a file, batches, a window and channels of any size: ReadAt, which only
\* counts the Data it takes, returns no error only with every segment it asked
\* for, unless an Interest was sent twice or a signal closed the pipeline
\* before it returned.
THEOREM GoReadsComplete == Spec => []ReadsComplete
<1>1. GoInv => ReadsComplete
  BY DEF GoInv
<1> QED  BY <1>1, GoAlways, PTL

\* Whatever the network does and whenever the user interrupts, the process
\* panics only when it could not start or is closing, or after an Interest was
\* sent twice: no Data of an earlier ReadAt is left for a later one to cut.
THEOREM GoPanicsExplained == Spec => []PanicsExplained
<1>1. GoInv => PanicsExplained
  BY DEF GoInv
<1> QED  BY <1>1, GoAlways, PTL

=============================================================================
