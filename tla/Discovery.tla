------------------------------ MODULE Discovery ------------------------------
(***************************************************************************)
(* The mDNS responder of sunnyconf (_StdlibResponder of                    *)
(* src/daemon/discovery.py) and the main thread that starts and stops it   *)
(* beside the HTTP server (main of src/daemon/main.py).                    *)
(*                                                                         *)
(* Time passes in ticks, several to a second. A thread that can run does   *)
(* so before the next tick; what takes time is waiting, in recvfrom, in    *)
(* _stop.wait and in serve_forever. The network may come late, drop and    *)
(* return, with or without an error on the socket, and packets reset the   *)
(* timeout of recvfrom; some packets it never gets done with. When         *)
(* the process ends its threads die with it; the responder is followed     *)
(* further, to see whether stop() is enough.                               *)
(***************************************************************************)
EXTENDS Naturals

CONSTANTS
  Second,     \* ticks to a second: the timeout of recvfrom, the gaps of the burst
  Interval,   \* ticks between announcements (30 seconds)
  Retry,      \* ticks between attempts to set up (10 seconds)
  Burst,      \* announcements of the startup burst (3)
  MaxDrops    \* bound: times the network goes

ASSUME TimeAssumption ==
  /\ Second \in Nat \ {0} /\ Retry \in Nat \ {0} /\ Burst \in Nat
  /\ Interval \in Nat /\ Interval >= Second
ASSUME DropAssumption == MaxDrops \in Nat

VARIABLES
  main,       \* the main thread: start, bind, arm, armed, serve, finally, close, exit
  signalled,  \* a signal was handled: a thread is to shut the server down
  request,    \* that thread has asked serve_forever to end
  stop,       \* announcer._stop
  pc,         \* the responder: off, check, setup, wait, publish, top, recv, close, done,
              \* decoding (a packet, for ever)
  left,       \* ticks its wait or its recvfrom still lasts
  sock,       \* the socket it works with: none, open, dead (recvfrom raises), closed
  shared,     \* self._sock: none, mine (that same socket), old (one closed before)
  since,      \* ticks since last_announce
  burst,      \* announcements of the burst still to come
  up,         \* a network is there
  drops,      \* times it has gone
  busy,       \* a packet has come in during this tick
  \* history, which no action reads:
  quiet,      \* ticks the network has been up without an announcement
  age,        \* ticks since the last set-up
  late        \* ticks the responder has outlived stop

lifecycle == <<main, signalled, request>>
timers == <<left, since, burst>>
network == <<up, drops, busy>>
history == <<quiet, age, late>>
vars == <<lifecycle, stop, pc, timers, sock, shared, network, history>>

Long == Interval + Second         \* where since stops counting: an announcement is due
AtMost(n, bound) == IF n < bound THEN n ELSE bound
Longest == IF Retry > Long THEN Retry ELSE Long

Init ==
  /\ main = "start" /\ signalled = FALSE /\ request = FALSE /\ stop = FALSE
  /\ pc = "off" /\ left = 0 /\ since = Long /\ burst = 0
  /\ sock = "none" /\ shared = "none"
  /\ up \in BOOLEAN /\ drops = 0 /\ busy = FALSE
  /\ quiet = 0 /\ age = 0 /\ late = 0

-----------------------------------------------------------------------------
(* The main thread and the signal handler.                                  *)

\* start_discovery, before the HTTP port is bound.
StartDiscovery ==
  /\ main = "start" /\ main' = "bind" /\ pc' = "check"
  /\ UNCHANGED <<signalled, request, stop, timers, sock, shared, network, history>>

\* make_server; a port that is in use ends the process, and the thread with it.
Bind ==
  /\ main = "bind"
  /\ \/ main' = "arm" /\ UNCHANGED <<pc, sock>>
     \/ main' = "exit" /\ pc' = "done" /\ sock' = "closed"
  /\ UNCHANGED <<signalled, request, stop, timers, shared, network, history>>

\* The handlers are installed; the threads are started.
Arm ==
  /\ main = "arm" /\ main' = "armed"
  /\ UNCHANGED <<signalled, request, stop, pc, timers, sock, shared, network, history>>

Serve ==
  /\ main = "armed" /\ main' = "serve"
  /\ UNCHANGED <<signalled, request, stop, pc, timers, sock, shared, network, history>>

\* Mutant of Signal: the handler calls shutdown itself, in the thread that
\* would have to leave serve_forever.
SignalInline ==
  /\ main \in {"armed", "serve", "finally", "close"} /\ ~signalled
  /\ signalled' = TRUE /\ main' = "shutdown"
  /\ UNCHANGED <<request, stop, pc, timers, sock, shared, network, history>>

\* _shutdown: SIGTERM or SIGINT, at any moment from then on.
Signal ==
  /\ main \in {"armed", "serve", "finally", "close"} /\ ~signalled
  /\ signalled' = TRUE
  /\ UNCHANGED <<main, request, stop, pc, timers, sock, shared, network, history>>

\* httpd.shutdown in the thread the handler has started.
Shutdown ==
  /\ signalled /\ ~request /\ request' = TRUE
  /\ UNCHANGED <<main, signalled, stop, pc, timers, sock, shared, network, history>>

\* serve_forever sees the request at its next poll.
ServeEnds ==
  /\ main = "serve" /\ request /\ main' = "finally"
  /\ UNCHANGED <<signalled, request, stop, pc, timers, sock, shared, network, history>>

\* stop(): the event ...
StopSet ==
  /\ main = "finally" /\ main' = "close" /\ stop' = TRUE
  /\ UNCHANGED <<signalled, request, pc, timers, sock, shared, network, history>>

\* ... and the socket that self._sock is by then; server_close, and out.
StopClose ==
  /\ main = "close" /\ main' = "exit"
  /\ sock' = IF shared = "mine" THEN "closed" ELSE sock
  /\ UNCHANGED <<signalled, request, stop, pc, timers, shared, network, history>>

-----------------------------------------------------------------------------
(* The responder.                                                           *)

\* The condition of the loop of _run.
Check ==
  /\ pc = "check" /\ pc' = IF stop THEN "done" ELSE "setup"
  /\ UNCHANGED <<lifecycle, stop, timers, sock, shared, network, history>>

\* _try_setup has no network to join; _stop.wait(10).
SetupFails ==
  /\ pc = "setup" /\ ~up
  /\ pc' = "wait" /\ left' = Retry
  /\ UNCHANGED <<lifecycle, stop, since, burst, sock, shared, network, history>>

\* Mutant of Woken: time.sleep(10), which the event does not cut short.
SleptOut == left = 0

\* _stop.wait(10) returns.
Woken == stop \/ left = 0

Waited ==
  /\ pc = "wait" /\ Woken
  /\ pc' = (IF stop THEN "done" ELSE "check") /\ left' = 0
  /\ UNCHANGED <<lifecycle, stop, since, burst, sock, shared, network, history>>

\* _try_setup succeeds, which it may without a Wi-Fi network: any interface
\* with a default route will do. self._sock is still the one before.
SetupOk ==
  /\ pc = "setup" /\ pc' = "publish"
  /\ sock' = "open"
  /\ shared' = IF shared = "mine" THEN "old" ELSE shared
  /\ UNCHANGED <<lifecycle, stop, timers, network, history>>

\* self._sock = sock, and _loop begins: last_announce is 0.0, three to burst.
Publish ==
  /\ pc = "publish" /\ pc' = "top"
  /\ shared' = "mine"
  /\ since' = Long /\ burst' = Burst /\ age' = 0
  /\ UNCHANGED <<lifecycle, stop, left, sock, network, quiet, late>>

\* stop is set: _loop returns.
LoopEnds ==
  /\ pc = "top" /\ stop /\ pc' = "close"
  /\ UNCHANGED <<lifecycle, stop, timers, sock, shared, network, history>>

Due == since >= (IF burst > 0 THEN Second ELSE Interval)

\* Mutant of Announce: the burst is counted down for ever.
AnnounceBelow ==
  /\ pc = "top" /\ ~stop /\ Due
  /\ quiet' = IF up /\ shared = "mine" /\ sock = "open" THEN 0 ELSE quiet
  /\ since' = 0 /\ burst' = burst - 1
  /\ pc' = "recv" /\ left' = Second
  /\ UNCHANGED <<lifecycle, stop, sock, shared, network, age, late>>

\* An announcement through self._sock; an error is swallowed.
Announce ==
  /\ pc = "top" /\ ~stop /\ Due
  /\ quiet' = IF up /\ shared = "mine" /\ sock = "open" THEN 0 ELSE quiet
  /\ since' = 0 /\ burst' = IF burst > 0 THEN burst - 1 ELSE 0
  /\ pc' = "recv" /\ left' = Second
  /\ UNCHANGED <<lifecycle, stop, sock, shared, network, age, late>>

Listen ==
  /\ pc = "top" /\ ~stop /\ ~Due
  /\ pc' = "recv" /\ left' = Second
  /\ UNCHANGED <<lifecycle, stop, since, burst, sock, shared, network, history>>

\* recvfrom times out.
Timeout ==
  /\ pc = "recv" /\ left = 0 /\ pc' = "top"
  /\ UNCHANGED <<lifecycle, stop, timers, sock, shared, network, history>>

\* Mutant of Packet: the next packet is waited for at once.
PacketAgain ==
  /\ pc = "recv" /\ up /\ sock = "open" /\ ~busy
  /\ busy' = TRUE /\ left' = Second
  /\ UNCHANGED <<lifecycle, stop, pc, since, burst, sock, shared, up, drops, history>>

\* A packet arrives, ours to answer or not; the timeout starts anew after it.
\* It is done with at once, unless the next action takes it.
Packet ==
  /\ pc = "recv" /\ up /\ sock = "open" /\ ~busy
  /\ busy' = TRUE /\ pc' = "top"
  /\ UNCHANGED <<lifecycle, stop, timers, sock, shared, up, drops, history>>

\* A packet whose name has a compression pointer that leads back to itself:
\* _decode_name follows it for ever, which neither stop nor an error ends.
Undecodable ==
  /\ pc = "recv" /\ up /\ sock = "open" /\ ~busy
  /\ busy' = TRUE /\ pc' = "decoding" /\ left' = 0
  /\ UNCHANGED <<lifecycle, stop, since, burst, sock, shared, up, drops, history>>

\* The socket is dead, or closed by stop(): _loop returns. A close does not
\* wake a thread that waits already, so that Timeout may come first.
RecvError ==
  /\ pc = "recv" /\ sock \in {"dead", "closed"} /\ pc' = "close"
  /\ UNCHANGED <<lifecycle, stop, timers, sock, shared, network, history>>

Close ==
  /\ pc = "close" /\ pc' = "check" /\ sock' = "closed"
  /\ UNCHANGED <<lifecycle, stop, timers, shared, network, history>>

Responder ==
  \/ Check \/ SetupFails \/ Waited \/ SetupOk \/ Publish \/ LoopEnds \/ Announce
  \/ Listen \/ Timeout \/ RecvError \/ Close

-----------------------------------------------------------------------------
(* The network and time.                                                    *)

\* The network goes, with or without an error on the socket.
Drop ==
  /\ up /\ drops < MaxDrops /\ up' = FALSE /\ drops' = drops + 1
  /\ quiet' = 0
  /\ sock' \in {sock} \cup (IF sock = "open" THEN {"dead"} ELSE {})
  /\ UNCHANGED <<lifecycle, stop, pc, timers, shared, busy, age, late>>

Return ==
  /\ ~up /\ up' = TRUE
  /\ UNCHANGED <<lifecycle, stop, pc, timers, sock, shared, drops, busy, history>>

\* Nobody can run.
Waiting ==
  /\ main \in {"serve", "exit"} /\ signalled = request /\ ~(main = "serve" /\ request)
  /\ \/ pc = "wait" /\ ~Woken
     \/ pc = "recv" /\ left > 0 /\ sock # "dead"
     \/ pc = "decoding"

Tick ==
  /\ Waiting
  /\ left' = IF left > 0 THEN left - 1 ELSE 0
  /\ since' = AtMost(since + 1, Long) /\ busy' = FALSE
  /\ quiet' = IF up THEN AtMost(quiet + 1, Longest + 1) ELSE 0
  /\ age' = AtMost(age + 1, 2 * Second * (Burst + 1))
  /\ late' = IF stop THEN AtMost(late + 1, Longest) ELSE late
  /\ UNCHANGED <<lifecycle, stop, pc, burst, sock, shared, up, drops>>

Main == StartDiscovery \/ Bind \/ Arm \/ Serve \/ ServeEnds \/ StopSet \/ StopClose

Next ==
  \/ Main \/ Signal \/ Shutdown \/ Responder \/ Packet \/ Undecodable
  \/ Drop \/ Return \/ Tick

\* Threads run and time passes; nobody has to send a signal or a packet, and
\* no network has to come.
Spec == Init /\ [][Next]_vars
FairSpec == Spec /\ WF_vars(Main) /\ WF_vars(Shutdown) /\ WF_vars(Responder) /\ WF_vars(Tick)

-----------------------------------------------------------------------------
(* Properties.                                                              *)

TypeOK ==
  /\ main \in {"start", "bind", "arm", "armed", "serve", "finally", "close", "exit"}
  /\ signalled \in BOOLEAN /\ request \in BOOLEAN /\ stop \in BOOLEAN
  /\ pc \in {"off", "check", "setup", "wait", "publish", "top", "recv", "close", "done",
            "decoding"}
  /\ left \in 0..(Retry + Second) /\ since \in 0..Long /\ burst \in 0..Burst
  /\ sock \in {"none", "open", "dead", "closed"} /\ shared \in {"none", "mine", "old"}
  /\ up \in BOOLEAN /\ drops \in 0..MaxDrops /\ busy \in BOOLEAN
  /\ quiet \in 0..(Longest + 1) /\ age \in Nat /\ late \in 0..Longest

\* However the network comes, drops and returns, and however many packets
\* come in, as long as none of them holds the responder in _decode_name for
\* ever (Undecodable: from then on it announces nothing, and is neither in recv
\* nor in wait), a network that is up hears an announcement at least every 30
\* seconds and a bit less than the timeout of recvfrom, and one that comes
\* between two attempts to set up within 10 seconds; while announcements of the
\* burst after a set-up are to come, those made are not more than two timeouts
\* apart (_loop, _run, _send).
Announced ==
  /\ pc = "recv" /\ ~stop => quiet < Long
  /\ pc = "wait" /\ ~stop => quiet <= Retry
  /\ pc = "recv" /\ burst > 0 => age < (Burst - burst) * 2 * Second

\* Whichever of the responder's steps stop() meets, also between two sockets,
\* it ends within one timeout of recvfrom, never waits out the 10 seconds, and
\* leaves no socket open, whether stop() saw the new socket or the one before
\* it (stop, _run). Only a responder that decodes a packet for ever does not
\* end; it is a daemon thread, and dies with the process.
EndsCleanly ==
  /\ pc # "decoding" => late <= Second
  /\ pc = "done" => sock \in {"none", "closed"}

\* A signal ends the server and the responder, also one that is handled before
\* serve_forever begins, and whatever the responder is about: the main thread
\* comes to its end, and with it one that decodes a packet for ever (main,
\* _shutdown).
Stops == signalled ~> (main = "exit" /\ pc \in {"done", "decoding"})

=============================================================================
