--------------------------- MODULE DiscoveryProofs ---------------------------
(***************************************************************************)
(* Theorems about Discovery, for every timeout, interval, wait and burst   *)
(* and any number of drops of the network.                                 *)
(***************************************************************************)
EXTENDS Discovery, Integers, TLAPS

\* What the steps need to know of the constants.
LEMMA Constants ==
  /\ Second \in Nat /\ Second >= 1 /\ Retry \in Nat /\ Burst \in Nat /\ MaxDrops \in Nat
  /\ Interval \in Nat /\ Interval >= Second
  /\ Long \in Nat /\ Long = Interval + Second
  /\ Longest \in Nat /\ Longest >= Long /\ Longest >= Retry
BY TimeAssumption, DropAssumption DEF Long, Longest

\* A counter that stops at its bound.
LEMMA Bounded ==
  ASSUME NEW n \in Nat, NEW b \in Nat
  PROVE  AtMost(n, b) \in 0..b /\ AtMost(n, b) <= n
BY DEF AtMost

\* A wait that gets shorter while something else grows no faster.
LEMMA Shift ==
  ASSUME NEW q \in Nat, NEW l \in Nat, NEW p \in Nat, NEW b \in Nat, q + l <= b, p <= q + 1
  PROVE  p + (l - 1) <= b
OBVIOUS

USE Constants

LEMMA TypeInit == Init => TypeOK
<1> SUFFICES ASSUME Init PROVE TypeOK
  OBVIOUS
<1> USE DEF Init
<1>1. left \in 0..(Retry + Second) /\ since \in 0..Long /\ burst \in 0..Burst
  OBVIOUS
<1>2. drops \in 0..MaxDrops
  OBVIOUS
<1>3. quiet \in 0..(Longest + 1) /\ age \in Nat /\ late \in 0..Longest
  OBVIOUS
<1> QED
  BY <1>1, <1>2, <1>3 DEF TypeOK

\* Every step of the responder but Packet.
LEMMA TypeResponder == TypeOK /\ Responder => TypeOK'
<1> SUFFICES ASSUME TypeOK, Responder PROVE TypeOK'
  OBVIOUS
<1> USE DEF TypeOK, lifecycle, timers, network, history
<1>1. CASE Check
  BY <1>1 DEF Check
<1>2. CASE SetupFails
  BY <1>2 DEF SetupFails
<1>3. CASE Waited
  BY <1>3 DEF Waited
<1>4. CASE SetupOk
  BY <1>4 DEF SetupOk
<1>5. CASE Publish
  BY <1>5 DEF Publish
<1>6. CASE LoopEnds
  BY <1>6 DEF LoopEnds
<1>7. CASE Announce
  BY <1>7 DEF Announce
<1>8. CASE Listen
  BY <1>8 DEF Listen
<1>9. CASE Timeout
  BY <1>9 DEF Timeout
<1>10. CASE RecvError
  BY <1>10 DEF RecvError
<1>11. CASE Close
  BY <1>11 DEF Close
<1> QED
  BY <1>1, <1>2, <1>3, <1>4, <1>5, <1>6, <1>7, <1>8, <1>9, <1>10, <1>11 DEF Responder

LEMMA TypeMain == TypeOK /\ Main => TypeOK'
BY DEF TypeOK, Main, StartDiscovery, Bind, Arm, Serve, ServeEnds, StopSet, StopClose,
       timers, network, history

\* Time passes only while a wait lasts, or a packet is decoded for ever.
LEMMA TypeTick == TypeOK /\ Tick => TypeOK'
<1> SUFFICES ASSUME TypeOK, Tick PROVE TypeOK'
  OBVIOUS
<1>1. left' \in 0..(Retry + Second)
  BY DEF TypeOK, Tick
<1>2. since' \in 0..Long
  BY Bounded DEF TypeOK, Tick
<1>3. quiet' \in 0..(Longest + 1)
  <2>1. AtMost(quiet + 1, Longest + 1) \in 0..(Longest + 1)
    BY quiet + 1 \in Nat, Longest + 1 \in Nat, Bounded DEF TypeOK
  <2> QED
    BY <2>1 DEF Tick
<1>4. late' \in 0..Longest
  BY late + 1 \in Nat, Bounded DEF TypeOK, Tick
<1>5. age' \in Nat
  <2> DEFINE b == 2 * Second * (Burst + 1)
  <2>1. b \in Nat /\ age + 1 \in Nat /\ age' = AtMost(age + 1, b)
    BY DEF TypeOK, Tick
  <2> HIDE DEF b
  <2> QED
    BY <2>1, Bounded
<1>6. busy' \in BOOLEAN
  BY Zenon DEF Tick
<1>7. UNCHANGED <<main, signalled, request, stop, pc, burst, sock, shared, up, drops>>
  BY DEF Tick, lifecycle
<1>8. /\ main' \in {"start", "bind", "arm", "armed", "serve", "finally", "close", "exit"}
      /\ pc' \in {"off", "check", "setup", "wait", "publish", "top", "recv", "close", "done",
                  "decoding"}
      /\ burst' \in 0..Burst /\ drops' \in 0..MaxDrops
      /\ sock' \in {"none", "open", "dead", "closed"} /\ shared' \in {"none", "mine", "old"}
  BY <1>7 DEF TypeOK
<1>9. signalled' \in BOOLEAN /\ request' \in BOOLEAN /\ stop' \in BOOLEAN /\ up' \in BOOLEAN
  BY <1>7, Zenon DEF TypeOK
<1> QED
  BY <1>1, <1>2, <1>3, <1>4, <1>5, <1>6, <1>8, <1>9, Zenon DEF TypeOK

LEMMA TypeStep == TypeOK /\ [Next]_vars => TypeOK'
<1> SUFFICES ASSUME TypeOK, [Next]_vars PROVE TypeOK'
  OBVIOUS
<1>1. CASE Signal \/ Shutdown \/ Packet
  BY <1>1 DEF TypeOK, Signal, Shutdown, Packet, lifecycle, timers, network, history
<1>5. CASE Undecodable
  <2>1. left' \in 0..(Retry + Second)
    BY <1>5 DEF Undecodable
  <2> QED
    BY <1>5, <2>1 DEF TypeOK, Undecodable, lifecycle, network, history
<1>2. CASE Drop
  <2>1. sock' \in {"none", "open", "dead", "closed"} /\ drops' \in 0..MaxDrops /\ quiet' = 0
    BY <1>2 DEF TypeOK, Drop
  <2>2. quiet' \in 0..(Longest + 1)
    BY <2>1
  <2>3. up' \in BOOLEAN
    BY <1>2, Zenon DEF Drop
  <2>4. UNCHANGED <<main, signalled, request, stop, pc, left, since, burst, shared, busy, age, late>>
    BY <1>2, Zenon DEF Drop, lifecycle, timers
  <2> QED
    BY <2>1, <2>2, <2>3, <2>4 DEF TypeOK
<1>3. CASE Return
  BY <1>3 DEF TypeOK, Return, lifecycle, timers, history
<1>4. CASE UNCHANGED vars
  BY <1>4 DEF TypeOK, vars, lifecycle, timers, network, history
<1> QED
  BY <1>1, <1>2, <1>3, <1>4, <1>5, TypeMain, TypeResponder, TypeTick DEF Next

\* Every variable of the responder, the main thread and the network keeps its
\* kind; the burst is never counted below nothing.
THEOREM TypeCorrect == Spec => []TypeOK
BY TypeInit, TypeStep, PTL DEF Spec

-----------------------------------------------------------------------------
\* What a tick does to the times.
LEMMA TickFacts ==
  ASSUME TypeOK, Tick
  PROVE  /\ pc # "decoding" => left > 0 /\ left' = left - 1
         /\ left = 0 => left' = 0
         /\ pc = "recv" \/ (pc = "wait" /\ ~stop) \/ pc = "decoding"
         /\ sock = "dead" => pc \in {"wait", "decoding"}
         /\ since' \in Nat /\ (since < Long => since' = since + 1)
         /\ quiet' \in Nat /\ quiet' <= quiet + 1 /\ (~up => quiet' = 0)
         /\ age' \in Nat /\ age' <= age + 1
         /\ late' \in Nat /\ late' <= late + 1 /\ (~stop => late' = late)
         /\ UNCHANGED <<main, stop, pc, burst, sock, shared, up>>
<1>1. /\ pc # "decoding" => left > 0 /\ left' = left - 1
      /\ left = 0 => left' = 0
      /\ pc = "recv" \/ (pc = "wait" /\ ~stop) \/ pc = "decoding"
      /\ sock = "dead" => pc \in {"wait", "decoding"}
  <2>1. left \in Nat /\ left' = IF left > 0 THEN left - 1 ELSE 0
    BY DEF TypeOK, Tick
  <2>2. CASE pc = "wait" /\ ~Woken
    BY <2>1, <2>2 DEF Woken
  <2>3. CASE pc = "recv" /\ left > 0 /\ sock # "dead"
    BY <2>1, <2>3
  <2>4. CASE pc = "decoding"
    BY <2>1, <2>4
  <2> QED
    BY <2>2, <2>3, <2>4 DEF Tick, Waiting
<1>2. since' \in Nat /\ (since < Long => since' = since + 1)
  BY DEF TypeOK, Tick, AtMost
<1>3. quiet' \in Nat /\ quiet' <= quiet + 1 /\ (~up => quiet' = 0)
  <2>1. /\ quiet \in Nat
        /\ AtMost(quiet + 1, Longest + 1) \in Nat /\ AtMost(quiet + 1, Longest + 1) <= quiet + 1
    BY quiet + 1 \in Nat, Longest + 1 \in Nat, Bounded DEF TypeOK
  <2>2. CASE up
    BY <2>1, <2>2 DEF Tick
  <2>3. CASE ~up
    BY <2>1, <2>3 DEF Tick
  <2> QED
    BY <2>2, <2>3
<1>4. age' \in Nat /\ age' <= age + 1
  <2> DEFINE b == 2 * Second * (Burst + 1)
  <2>1. b \in Nat /\ age + 1 \in Nat /\ age' = AtMost(age + 1, b)
    BY DEF TypeOK, Tick
  <2> HIDE DEF b
  <2> QED
    BY <2>1, Bounded
<1>5. late' \in Nat /\ late' <= late + 1 /\ (~stop => late' = late)
  <2>1. late \in Nat /\ AtMost(late + 1, Longest) \in Nat /\ AtMost(late + 1, Longest) <= late + 1
    BY late + 1 \in Nat, Bounded DEF TypeOK
  <2>2. CASE stop
    BY <2>1, <2>2 DEF Tick
  <2>3. CASE ~stop
    BY <2>1, <2>3 DEF Tick
  <2> QED
    BY <2>2, <2>3
<1> QED
  BY <1>1, <1>2, <1>3, <1>4, <1>5 DEF Tick, lifecycle

-----------------------------------------------------------------------------
(* The end of the responder.                                                *)

\* A responder without a socket of its own has closed the one it had; and once
\* stop is set, what it has outlived it and what its recvfrom still lasts are
\* not more than a timeout together; what decodes a packet for ever waits for
\* nothing.
Ending ==
  /\ main = "start" => pc = "off"
  /\ main \notin {"close", "exit"} => ~stop
  /\ pc \in {"off", "check", "setup", "wait", "done"} => sock \in {"none", "closed"}
  /\ ~stop => late = 0
  /\ pc # "decoding" => late <= Second
  /\ pc = "recv" => late + left <= Second
  /\ pc = "decoding" => left = 0

LEMMA EndingInit == Init => Ending
BY DEF Init, Ending

LEMMA EndingStep == TypeOK /\ Ending /\ [Next]_vars => Ending'
<1> SUFFICES ASSUME TypeOK, Ending, [Next]_vars PROVE Ending'
  OBVIOUS
<1> USE DEF TypeOK, Ending, lifecycle, timers, network, history
<1>1. CASE Check
  BY <1>1 DEF Check
<1>2. CASE SetupFails
  BY <1>2 DEF SetupFails
<1>3. CASE Waited
  BY <1>3 DEF Waited
<1>4. CASE SetupOk
  BY <1>4 DEF SetupOk
<1>5. CASE Publish
  BY <1>5 DEF Publish
<1>6. CASE LoopEnds
  BY <1>6 DEF LoopEnds
<1>7. CASE Announce
  BY <1>7 DEF Announce
<1>8. CASE Listen
  BY <1>8 DEF Listen
<1>9. CASE Timeout
  BY <1>9 DEF Timeout
<1>10. CASE RecvError
  BY <1>10 DEF RecvError
<1>11. CASE Close
  BY <1>11 DEF Close
<1>12. CASE Main
  <2>1. CASE StartDiscovery
    BY <2>1 DEF StartDiscovery
  <2>2. CASE Bind
    BY <2>2 DEF Bind
  <2>3. CASE Arm
    BY <2>3 DEF Arm
  <2>4. CASE Serve
    BY <2>4 DEF Serve
  <2>5. CASE ServeEnds
    BY <2>5 DEF ServeEnds
  <2>6. CASE StopSet
    BY <2>6 DEF StopSet
  <2>7. CASE StopClose
    BY <2>7 DEF StopClose
  <2> QED
    BY <1>12, <2>1, <2>2, <2>3, <2>4, <2>5, <2>6, <2>7 DEF Main
<1>13. CASE Signal
  BY <1>13 DEF Signal
<1>14. CASE Shutdown
  BY <1>14 DEF Shutdown
<1>15. CASE Packet \/ Undecodable
  BY <1>15 DEF Packet, Undecodable
<1>16. CASE Drop
  BY <1>16 DEF Drop
<1>17. CASE Return
  BY <1>17 DEF Return
<1>18. CASE Tick
  BY <1>18, TickFacts
<1>19. CASE UNCHANGED vars
  BY <1>19 DEF vars
<1> HIDE DEF TypeOK, Ending
<1> QED
  BY <1>1, <1>2, <1>3, <1>4, <1>5, <1>6, <1>7, <1>8, <1>9, <1>10,
     <1>11, <1>12, <1>13, <1>14, <1>15, <1>16, <1>17, <1>18, <1>19
     DEF Next, Responder

\* The responder ends within a timeout of stop() and leaves no socket, for
\* every timeout and wherever stop() and the network meet it, if it is not in a
\* packet that is never decoded.
THEOREM EndsCleanlyCorrect == Spec => []EndsCleanly
<1>1. Ending => EndsCleanly
  BY DEF Ending, EndsCleanly
<1> QED
  BY <1>1, TypeCorrect, EndingInit, EndingStep, PTL DEF Spec

-----------------------------------------------------------------------------
(* The announcements.                                                       *)

\* But for a packet decoded for ever: no silence is counted without a network or
\* with a socket that is dead; in a wait for the next attempt it fits into the wait; in the loop it is no longer
\* than the time since the last announcement, which is due before Long is over.
Silence ==
  /\ main = "close" => stop
  /\ pc \notin {"decoding", "done"} /\ (~up \/ sock = "dead") => quiet = 0
  /\ pc = "wait" => quiet + left <= Retry
  /\ pc \in {"publish", "top", "recv"} /\ ~stop => sock \in {"open", "dead"}
  /\ pc \in {"top", "recv"} => shared = "mine"
  /\ pc = "recv" => since + left < Long
  /\ pc = "recv" /\ ~stop => quiet <= since
  /\ pc = "top" /\ ~stop => quiet <= since \/ since = Long

LEMMA SilenceInit == Init => Silence
BY DEF Init, Silence

LEMMA SilenceStep == TypeOK /\ Ending /\ Silence /\ [Next]_vars => Silence'
<1> SUFFICES ASSUME TypeOK, Ending, Silence, [Next]_vars PROVE Silence'
  OBVIOUS
<1> USE DEF TypeOK, Silence, lifecycle, timers, network, history
<1>1. CASE Check
  BY <1>1 DEF Check
<1>2. CASE SetupFails
  BY <1>2 DEF SetupFails
<1>3. CASE Waited
  BY <1>3 DEF Waited
<1>4. CASE SetupOk
  BY <1>4 DEF SetupOk
<1>5. CASE Publish
  BY <1>5 DEF Publish
<1>6. CASE LoopEnds
  BY <1>6 DEF LoopEnds
<1>7. CASE Announce
  BY <1>7 DEF Announce
<1>8. CASE Listen
  <2>1. since < Interval /\ left' = Second /\ since' = since /\ pc' = "recv"
    BY <1>8 DEF Listen, Due
  <2> QED
    BY <1>8, <2>1 DEF Listen
<1>9. CASE Timeout
  BY <1>9 DEF Timeout
<1>10. CASE RecvError
  BY <1>10 DEF RecvError
<1>11. CASE Close
  BY <1>11 DEF Close
<1>12. CASE Main
  <2>1. CASE StartDiscovery
    BY <2>1 DEF StartDiscovery, Ending
  <2>2. CASE Bind
    BY <2>2 DEF Bind
  <2>3. CASE Arm
    BY <2>3 DEF Arm
  <2>4. CASE Serve
    BY <2>4 DEF Serve
  <2>5. CASE ServeEnds
    BY <2>5 DEF ServeEnds
  <2>6. CASE StopSet
    BY <2>6 DEF StopSet
  <2>7. CASE StopClose
    BY <2>7 DEF StopClose
  <2> QED
    BY <1>12, <2>1, <2>2, <2>3, <2>4, <2>5, <2>6, <2>7 DEF Main
<1>13. CASE Signal
  BY <1>13 DEF Signal
<1>14. CASE Shutdown
  BY <1>14 DEF Shutdown
<1>15. CASE Packet \/ Undecodable
  BY <1>15 DEF Packet, Undecodable
<1>16. CASE Drop
  BY <1>16 DEF Drop
<1>17. CASE Return
  BY <1>17 DEF Return
<1>18. CASE Tick
  <2>1. CASE pc = "wait"
    <3>1. quiet + left <= Retry /\ quiet \in Nat /\ left \in Nat /\ sock # "dead"
      BY <2>1 DEF Ending
    <3>2. quiet' \in Nat /\ quiet' <= quiet + 1 /\ left' = left - 1 /\ pc' = pc /\ sock' = sock
      BY <1>18, <2>1, TickFacts
    <3>3. (~up' => quiet' = 0) /\ (main' = "close" => stop')
      BY <1>18, TickFacts
    <3> HIDE DEF TypeOK, Silence
    <3>4. quiet' + left' <= Retry /\ pc' = "wait" /\ sock' # "dead"
      BY <2>1, <3>1, <3>2, Shift
    <3> QED
      BY <3>3, <3>4 DEF Silence
  <2>2. CASE pc = "recv"
    <3>1. sock # "dead" /\ since' = since + 1
      BY <1>18, <2>2, TickFacts
    <3>2. ~stop => quiet' <= since'
      BY <1>18, <2>2, <3>1, TickFacts
    <3> QED
      BY <1>18, <2>2, <3>1, <3>2, TickFacts
  <2>3. CASE pc = "decoding"
    BY <1>18, <2>3, TickFacts
  <2> QED
    BY <1>18, <2>1, <2>2, <2>3, TickFacts
<1>19. CASE UNCHANGED vars
  BY <1>19 DEF vars
<1> HIDE DEF TypeOK, Silence
<1> QED
  BY <1>1, <1>2, <1>3, <1>4, <1>5, <1>6, <1>7, <1>8, <1>9, <1>10,
     <1>11, <1>12, <1>13, <1>14, <1>15, <1>16, <1>17, <1>18, <1>19
     DEF Next, Responder

-----------------------------------------------------------------------------
(* The burst.                                                               *)

\* The ticks from one announcement of the burst to the next, at most.
Gap == 2 * Second - 1

\* The k-th announcement of the burst is made within k - 1 gaps of the set-up.
InBurst(k) == k \in Nat \ {0} /\ since <= Gap /\ age <= (k - 1) * Gap + since

Bursting ==
  /\ pc = "recv" /\ burst > 0 => InBurst(Burst - burst) /\ since + left <= Gap
  /\ pc = "top" /\ burst > 0 =>
       InBurst(Burst - burst) \/ (burst = Burst /\ since = Long /\ age = 0)

\* One more gap.
LEMMA Gaps ==
  ASSUME NEW k \in Nat \ {0}
  PROVE  /\ Gap \in Nat /\ (k - 1) * Gap \in Nat
         /\ (k - 1) * Gap + Gap = k * Gap /\ k * Gap < k * 2 * Second
<1>1. Gap \in Nat /\ Gap + 1 = 2 * Second
  BY DEF Gap
<1>2. \A g \in Nat : (k - 1) * g + g = k * g /\ (k - 1) * g \in Nat /\ k * g < k * (g + 1)
  OBVIOUS
<1>3. k * 2 * Second = k * (2 * Second)
  OBVIOUS
<1> QED
  BY <1>1, <1>2, <1>3

LEMMA BurstingInit == Init => Bursting
BY DEF Init, Bursting

LEMMA BurstingAnnounce == TypeOK /\ Bursting /\ Announce => Bursting'
<1> SUFFICES ASSUME TypeOK, Bursting, Announce, burst' > 0
             PROVE  InBurst(Burst - burst)' /\ since' + left' <= Gap
  BY DEF Announce, Bursting
<1>1. /\ burst \in 1..Burst /\ burst' = burst - 1 /\ since' = 0 /\ left' = Second
      /\ age' = age /\ age \in Nat /\ since \in Nat /\ pc = "top"
  BY DEF Announce, TypeOK
<1>2. Gap \in Nat /\ Second <= Gap
  BY DEF Gap
<1> DEFINE k == Burst - burst
<1>3. Burst - burst' = k + 1 /\ k \in Nat
  BY <1>1
<1>4. CASE InBurst(k)
  <2>1. k \in Nat \ {0} /\ age <= (k - 1) * Gap + since /\ since <= Gap
    BY <1>4 DEF InBurst
  <2>2. (k - 1) * Gap \in Nat /\ (k - 1) * Gap + Gap = k * Gap
    BY <2>1, Gaps
  <2>3. age' <= ((k + 1) - 1) * Gap + since'
    BY <2>1, <2>2, <1>1, <1>2, <1>3
  <2> QED
    BY <2>3, <1>1, <1>2, <1>3 DEF InBurst
<1>5. CASE burst = Burst /\ age = 0
  BY <1>1, <1>2, <1>3, <1>5 DEF InBurst
<1> QED
  BY <1>1, <1>4, <1>5 DEF Bursting

LEMMA BurstingTick == TypeOK /\ Bursting /\ Tick => Bursting'
<1> SUFFICES ASSUME TypeOK, Bursting, Tick, pc' = "recv", burst' > 0
             PROVE  InBurst(Burst - burst)' /\ since' + left' <= Gap
  BY TickFacts DEF Bursting
<1>1. /\ left > 0 /\ left' = left - 1 /\ since' \in Nat /\ (since < Long => since' = since + 1)
      /\ age' \in Nat /\ age' <= age + 1 /\ burst' = burst /\ pc = "recv"
  BY TickFacts
<1>2. left \in Nat /\ since \in 0..Long /\ age \in Nat /\ burst \in 0..Burst
  BY DEF TypeOK
<1>3. InBurst(Burst - burst) /\ since + left <= Gap
  BY <1>1, <1>2 DEF Bursting
<1>4. Gap \in Nat /\ Gap < Long
  BY DEF Gap
<1>5. since' = since + 1
  BY <1>1, <1>2, <1>3, <1>4
<1> DEFINE d == (Burst - burst - 1) * Gap
<1>6. d \in Nat /\ age <= d + since
  BY <1>3, Gaps DEF InBurst
<1>7. age' <= d + since'
  BY <1>1, <1>2, <1>5, <1>6
<1> QED
  BY <1>1, <1>2, <1>3, <1>4, <1>5, <1>7 DEF InBurst

LEMMA BurstingStep == TypeOK /\ Bursting /\ [Next]_vars => Bursting'
<1> SUFFICES ASSUME TypeOK, Bursting, [Next]_vars PROVE Bursting'
  OBVIOUS
<1>1. CASE Listen
  <2>1. /\ pc = "top" /\ pc' = "recv" /\ left' = Second /\ UNCHANGED <<since, burst, age>>
        /\ burst > 0 => since < Second
    BY <1>1 DEF Listen, Due, history, TypeOK
  <2>2. burst > 0 => InBurst(Burst - burst) /\ since + Second <= Gap
    BY <2>1 DEF Bursting, Gap, TypeOK
  <2> QED
    BY <2>1, <2>2 DEF Bursting, InBurst
<1>2. CASE Timeout \/ Packet \/ Undecodable
  BY <1>2 DEF Timeout, Packet, Undecodable, Bursting, InBurst, timers, history
<1>3. CASE Publish
  BY <1>3 DEF Publish, Bursting, InBurst
<1>4. CASE Check \/ SetupFails \/ Waited \/ SetupOk \/ LoopEnds \/ RecvError \/ Close
  BY <1>4 DEF Check, SetupFails, Waited, SetupOk, LoopEnds, RecvError, Close, Bursting
<1>5. CASE Main
  BY <1>5 DEF Main, StartDiscovery, Bind, Arm, Serve, ServeEnds, StopSet, StopClose,
              Bursting, InBurst, timers, history
<1>6. CASE Signal \/ Shutdown \/ Drop \/ Return \/ UNCHANGED vars
  BY <1>6 DEF Signal, Shutdown, Drop, Return, vars, Bursting, InBurst, timers, history
<1> QED
  BY <1>1, <1>2, <1>3, <1>4, <1>5, <1>6, BurstingAnnounce, BurstingTick DEF Next, Responder

\* A network that is up is told of the device in time, and the burst after a
\* set-up is made in time, for every interval, timeout and wait, and whatever
\* the network and the packets do, as long as each packet is decoded in the end.
THEOREM AnnouncedCorrect == Spec => []Announced
<1>1. TypeOK /\ Silence /\ Bursting => Announced
  <2> SUFFICES ASSUME TypeOK, Silence, Bursting PROVE Announced
    OBVIOUS
  <2>1. ASSUME pc = "recv", burst > 0 PROVE age < (Burst - burst) * 2 * Second
    <3> DEFINE k == Burst - burst
    <3>1. k \in Nat \ {0} /\ since <= Gap /\ age <= (k - 1) * Gap + since
      BY <2>1 DEF Bursting, InBurst
    <3>2. /\ Gap \in Nat /\ (k - 1) * Gap \in Nat
          /\ (k - 1) * Gap + Gap = k * Gap /\ k * Gap < k * 2 * Second
      BY <3>1, Gaps
    <3>3. k * Gap \in Nat /\ k * 2 * Second \in Nat /\ age \in Nat /\ since \in Nat
      BY <3>1, <3>2 DEF TypeOK
    <3> QED
      BY <3>1, <3>2, <3>3
  <2>2. pc = "recv" /\ ~stop => quiet < Long
    BY DEF TypeOK, Silence
  <2>3. pc = "wait" => quiet <= Retry
    BY DEF TypeOK, Silence
  <2> QED
    BY <2>1, <2>2, <2>3 DEF Announced
<1> QED
  BY <1>1, TypeCorrect, EndingInit, EndingStep, SilenceInit, SilenceStep, BurstingInit,
     BurstingStep, TypeInit, TypeStep, PTL DEF Spec

-----------------------------------------------------------------------------
(* The kernel of Stops. Liveness is beyond the prover; what makes it true is *)
(* that after a signal there is always a step to take, that none leads back, *)
(* and that the time waited is bounded.                                     *)

\* How far the main thread has come, and how far the responder is from its end
\* once stop is set.
Order == [start |-> 0, bind |-> 1, arm |-> 2, armed |-> 3, serve |-> 4, finally |-> 5,
          close |-> 6, exit |-> 7]
Stage == [off |-> 6, setup |-> 5, publish |-> 4, recv |-> 4, top |-> 3, close |-> 2,
          check |-> 1, wait |-> 1, done |-> 0, decoding |-> 0]

\* The main thread never goes back; once stop is set, it stays set, each step of
\* the responder brings it nearer to its end, and each tick it waits is counted,
\* of which EndsCleanly allows Second (main, _run, _loop).
Closer ==
  /\ main' = main \/ Order[main] < Order[main']
  /\ stop => /\ stop'
             /\ pc' = pc \/ Stage[pc'] < Stage[pc]
             /\ pc' = pc /\ left' # left => late' = late + 1

WindsDown == [][Closer]_vars

\* When the main thread, the thread of the signal and the responder can run.
MainGoes == \/ main \in {"start", "bind", "arm", "armed", "finally", "close"}
            \/ main = "serve" /\ request
ShutdownGoes == signalled /\ ~request
ResponderGoes ==
  \/ pc \in {"check", "setup", "publish", "top", "close"}
  \/ pc = "wait" /\ Woken
  \/ pc = "recv" /\ (left = 0 \/ sock \in {"dead", "closed"})

\* After a signal everything has ended, but for a packet that is decoded for
\* ever, or a thread can run, or time can pass.
NeverStuck ==
  signalled => \/ main = "exit" /\ pc \in {"done", "decoding"}
               \/ MainGoes \/ ShutdownGoes \/ ResponderGoes \/ Waiting

\* Once the main thread is out, the responder has been told or is gone.
Told ==
  /\ main # "start" => pc # "off"
  /\ main = "close" => stop
  /\ main = "exit" => stop \/ pc = "done"

LEMMA TalliedStep ==
  ASSUME TypeOK, Ending, Told, [Next]_vars PROVE Told' /\ Closer
<1> USE DEF TypeOK, Told, Closer, Order, Stage, lifecycle, timers, network, history
<1>1. CASE Check
  BY <1>1 DEF Check
<1>2. CASE SetupFails
  BY <1>2 DEF SetupFails
<1>3. CASE Waited
  BY <1>3 DEF Waited
<1>4. CASE SetupOk
  BY <1>4 DEF SetupOk
<1>5. CASE Publish
  BY <1>5 DEF Publish
<1>6. CASE LoopEnds
  BY <1>6 DEF LoopEnds
<1>7. CASE Announce
  BY <1>7 DEF Announce
<1>8. CASE Listen
  BY <1>8 DEF Listen
<1>9. CASE Timeout
  BY <1>9 DEF Timeout
<1>10. CASE RecvError
  BY <1>10 DEF RecvError
<1>11. CASE Close
  BY <1>11 DEF Close
<1>12. CASE Main
  <2>1. CASE StartDiscovery
    <3>1. ~stop \/ pc = "off"
      BY <2>1 DEF StartDiscovery, Ending
    <3> QED
      BY <2>1, <3>1 DEF StartDiscovery
  <2>2. CASE Bind
    BY <2>2 DEF Bind, Ending
  <2>3. CASE Arm
    BY <2>3 DEF Arm
  <2>4. CASE Serve
    BY <2>4 DEF Serve
  <2>5. CASE ServeEnds
    BY <2>5 DEF ServeEnds
  <2>6. CASE StopSet
    BY <2>6 DEF StopSet
  <2>7. CASE StopClose
    BY <2>7 DEF StopClose
  <2> QED
    BY <1>12, <2>1, <2>2, <2>3, <2>4, <2>5, <2>6, <2>7 DEF Main
<1>13. CASE Signal
  BY <1>13 DEF Signal
<1>14. CASE Shutdown
  BY <1>14 DEF Shutdown
<1>15. CASE Packet \/ Undecodable
  BY <1>15 DEF Packet, Undecodable
<1>16. CASE Drop
  BY <1>16 DEF Drop
<1>17. CASE Return
  BY <1>17 DEF Return
<1>18. CASE Tick
  <2>1. stop /\ pc # "decoding" => late' = late + 1
    <3>1. pc # "decoding" => late \in Nat /\ late <= Second /\ Second < Longest
      BY DEF Ending
    <3>2. stop => late' = AtMost(late + 1, Longest)
      BY <1>18 DEF Tick
    <3> QED
      BY <3>1, <3>2 DEF AtMost
  <2>2. main' = main /\ pc' = pc /\ stop' = stop
    BY <1>18 DEF Tick
  <2>3. pc = "decoding" => left' = left
    BY <1>18, TickFacts DEF Ending
  <2> QED
    BY <2>1, <2>2, <2>3
<1>19. CASE UNCHANGED vars
  BY <1>19 DEF vars
<1> HIDE DEF TypeOK, Told, Closer
<1> QED
  BY <1>1, <1>2, <1>3, <1>4, <1>5, <1>6, <1>7, <1>8, <1>9, <1>10,
     <1>11, <1>12, <1>13, <1>14, <1>15, <1>16, <1>17, <1>18, <1>19
     DEF Next, Responder

LEMMA TalliedInit == Init => Told
BY DEF Init, Told

\* The kernel of Stops: nothing leads back, and the ticks waited are counted.
THEOREM WindsDownCorrect == Spec => WindsDown
<1>1. ASSUME TypeOK, Ending, Told, [Next]_vars
      PROVE  [Closer]_vars
  BY <1>1, TalliedStep
<1> QED
  BY <1>1, TypeInit, TypeStep, EndingInit, EndingStep, TalliedInit, TalliedStep, PTL
     DEF Spec, WindsDown

\* The kernel of Stops: wherever a signal meets the two threads, they never
\* wait for each other or for something that does not come.
THEOREM NeverStuckCorrect == Spec => []NeverStuck
<1>1. ASSUME TypeOK, Told
      PROVE  NeverStuck
  <2> SUFFICES ASSUME signalled, ~MainGoes, ~ShutdownGoes, ~ResponderGoes
               PROVE  main = "exit" /\ (pc \in {"done", "decoding"} \/ Waiting)
    BY DEF NeverStuck
  <2>1. main = "exit" /\ request
    BY <1>1 DEF TypeOK, MainGoes, ShutdownGoes
  <2>2. pc \notin {"done", "decoding"} => pc = "recv" /\ left > 0 /\ sock # "dead"
    BY <1>1, <2>1 DEF TypeOK, Told, ResponderGoes, Woken
  <2> QED
    BY <2>1, <2>2 DEF Waiting
<1> QED
  BY <1>1, TypeInit, TypeStep, EndingInit, EndingStep, TalliedInit, TalliedStep, PTL DEF Spec
=============================================================================
