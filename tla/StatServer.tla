----------------------------- MODULE StatServer -----------------------------
(***************************************************************************)
(* etisnoop-stat-server: the StatCollector thread of server.py, which runs *)
(* dab2eti | etisnoop again and again and loads the statistics it leaves,  *)
(* and the main thread, in which bottle's server answers one request at a  *)
(* time until Control-C.  They share stats and stats_lock.                 *)
(*                                                                         *)
(* Statistics are numbered in the order in which etisnoop writes them.     *)
(***************************************************************************)
EXTENDS Integers

CONSTANTS
  MaxVersion,      \* captures that write statistics (any number may fail)
  MaxInterrupts    \* Control-C pressed

ASSUME StatAssumption == MaxVersion \in Nat \ {0} /\ MaxInterrupts \in Nat

NotReady == -1    \* self.stats is None: "status: not ready"
NoFile   == 0     \* there is no stats.yml: "exception: ..."
Free     == "free"

VARIABLES
  collector,     \* where StatCollector.run is
  main,          \* where the main thread is
  lock,          \* who holds stats_lock
  stats,         \* self.stats
  event_stop,    \* the event that ends StatCollector.run
  file,          \* stats.yml: the number of the statistics it holds
  request,       \* the request that waits or is being answered
  since,         \* self.stats when that request was sent
  page,          \* the local stats of index()
  interrupts     \* Control-C pressed so far

collectorVars == <<collector, file>>
mainVars == <<main, request, since, page, interrupts>>
vars == <<collectorVars, mainVars, lock, stats, event_stop>>

Requests == {"index", "static", "unknown"}
NoRequest == "none"

\* The file may be there from an earlier run of the program.
Init ==
  /\ collector = "check"
  /\ main = "start"
  /\ lock = Free
  /\ stats = NotReady
  /\ event_stop = FALSE
  /\ file \in {NoFile, 1}
  /\ request = NoRequest
  /\ since = NotReady
  /\ page = NotReady
  /\ interrupts = 0
----------------------------------------------------------------------------
(* StatCollector.run *)

\* Mutant: the statistics are cleared when a capture starts.
CheckStopClearing ==
  /\ collector = "check"
  /\ collector' = IF event_stop THEN "done" ELSE "capture"
  /\ stats' = NotReady
  /\ UNCHANGED <<file, mainVars, lock, event_stop>>

\* Mutant: while True.
CheckStopNever ==
  /\ collector = "check"
  /\ collector' = "capture"
  /\ UNCHANGED <<file, mainVars, lock, stats, event_stop>>

CheckStop ==
  /\ collector = "check"
  /\ collector' = IF event_stop THEN "done" ELSE "capture"
  /\ UNCHANGED <<file, mainVars, lock, stats, event_stop>>

\* wait() returns; etisnoop has written statistics, or failed and left what
\* was there.
CaptureEnds ==
  /\ collector = "capture"
  /\ collector' = "lock"
  /\ file' \in {file} \cup ({file + 1} \cap 1..MaxVersion)
  /\ UNCHANGED <<mainVars, lock, stats, event_stop>>

CollectorLocks ==
  /\ collector = "lock"
  /\ lock = Free
  /\ lock' = "collector"
  /\ collector' = "load"
  /\ UNCHANGED <<file, mainVars, stats, event_stop>>

\* Mutant: the statistics are loaded once.
LoadOnce ==
  /\ collector = "load"
  /\ stats' = IF stats = NotReady THEN file ELSE stats
  /\ collector' = "release"
  /\ UNCHANGED <<file, mainVars, lock, event_stop>>

Load ==
  /\ collector = "load"
  /\ stats' = file
  /\ collector' = "release"
  /\ UNCHANGED <<file, mainVars, lock, event_stop>>

\* Mutant: no finally, an exception leaves the lock held.
CollectorReleasesOnSuccess ==
  /\ collector = "release"
  /\ lock' = IF stats = NoFile THEN lock ELSE Free
  /\ collector' = "sleep"
  /\ UNCHANGED <<file, mainVars, stats, event_stop>>

CollectorReleases ==
  /\ collector = "release"
  /\ lock' = Free
  /\ collector' = "sleep"
  /\ UNCHANGED <<file, mainVars, stats, event_stop>>

Wake ==
  /\ collector = "sleep"
  /\ collector' = "check"
  /\ UNCHANGED <<file, mainVars, lock, stats, event_stop>>

CollectorProgram ==
  CheckStop \/ CollectorLocks \/ Load \/ CollectorReleases \/ Wake
----------------------------------------------------------------------------
(* The main thread: start the server, answer requests, stop. *)

Serve ==
  /\ main = "start"
  /\ main' = "serve"
  /\ UNCHANGED <<collectorVars, request, since, page, interrupts,
                 lock, stats, event_stop>>

\* A client asks; the server takes the request up when it is free.
SendRequest(r) ==
  /\ request = NoRequest
  /\ request' = r
  /\ since' = stats
  /\ UNCHANGED <<collectorVars, main, page, interrupts,
                 lock, stats, event_stop>>

\* The router finds the callback; only index() needs the statistics.  The
\* others are answered at once (a file, or 404).
Handle ==
  /\ main = "serve"
  /\ request # NoRequest
  /\ IF request = "index"
       THEN main' = "acquire" /\ UNCHANGED request
       ELSE request' = NoRequest /\ UNCHANGED main
  /\ UNCHANGED <<collectorVars, since, page, interrupts,
                 lock, stats, event_stop>>

MainLocks ==
  /\ main = "acquire"
  /\ lock = Free
  /\ lock' = "main"
  /\ main' = "read"
  /\ UNCHANGED <<collectorVars, request, since, page, interrupts,
                 stats, event_stop>>

ReadStats ==
  /\ main = "read"
  /\ page' = stats
  /\ main' = "release"
  /\ UNCHANGED <<collectorVars, request, since, interrupts,
                 lock, stats, event_stop>>

MainReleases ==
  /\ main = "release"
  /\ lock' = Free
  /\ main' = "render"
  /\ UNCHANGED <<collectorVars, request, since, page, interrupts,
                 stats, event_stop>>

\* The page goes out, or error 500 if the template cannot be rendered.
Render ==
  /\ main = "render"
  /\ main' = "serve"
  /\ request' = NoRequest
  /\ UNCHANGED <<collectorVars, since, page, interrupts,
                 lock, stats, event_stop>>

Handling == {"acquire", "read", "release", "render"}

\* KeyboardInterrupt.  bottle's run() catches it and returns, so that stop()
\* is called, unless it comes before run(); inside a request wsgiref takes
\* it for an error of the application and goes on; inside stop() it ends the
\* main thread.
Interrupt ==
  /\ interrupts < MaxInterrupts
  /\ main # "exit"
  /\ interrupts' = interrupts + 1
  /\ main' = CASE main = "serve"              -> "stop"
               [] main \in Handling           -> "serve"
               [] main \in {"start", "stop", "join"} -> "exit"
  /\ request' = IF main \in Handling THEN NoRequest ELSE request
  /\ UNCHANGED <<collectorVars, since, page, lock, stats, event_stop>>

SetStop ==
  /\ main = "stop"
  /\ event_stop' = TRUE
  /\ main' = "join"
  /\ UNCHANGED <<collectorVars, request, since, page, interrupts, lock, stats>>

Join ==
  /\ main = "join"
  /\ collector = "done"
  /\ main' = "exit"
  /\ UNCHANGED <<collectorVars, request, since, page, interrupts,
                 lock, stats, event_stop>>

MainProgram ==
  \/ Serve \/ Handle \/ MainLocks \/ ReadStats \/ MainReleases \/ Render
  \/ SetStop \/ Join

Next ==
  \/ CollectorProgram
  \/ CaptureEnds
  \/ MainProgram
  \/ \E r \in Requests : SendRequest(r)
  \/ Interrupt

Spec == Init /\ [][Next]_vars

\* Both threads run, and get a lock that is free again and again: it is held
\* for a few instructions every 15 seconds, or once per request.  When a
\* capture ends is up to dab2eti, so nothing is assumed of it.
FairSpec ==
  /\ Spec
  /\ WF_vars(CollectorProgram) /\ SF_vars(CollectorLocks)
  /\ WF_vars(MainProgram) /\ SF_vars(MainLocks)
----------------------------------------------------------------------------
TypeOK ==
  /\ collector \in {"check", "capture", "lock", "load", "release", "sleep",
                    "done"}
  /\ main \in {"start", "serve", "stop", "join", "exit"} \cup Handling
  /\ lock \in {Free, "collector", "main"}
  /\ stats \in NotReady..MaxVersion
  /\ event_stop \in BOOLEAN
  /\ file \in NoFile..MaxVersion
  /\ request \in Requests \cup {NoRequest}
  /\ since \in NotReady..MaxVersion
  /\ page \in NotReady..MaxVersion
  /\ interrupts \in 0..MaxInterrupts

\* getstats has no try/finally: interrupted between acquire and release it
\* leaves the lock held for good (server.py lines 72-74).
LockLost == lock = "main" /\ main \notin {"read", "release"}

LockHeld ==
  /\ (collector \in {"load", "release"}) = (lock = "collector")
  /\ main \in {"read", "release"} => lock = "main"
  /\ LockLost => interrupts > 0

\* A page never shows statistics older than those that were loaded when the
\* client asked for it (index and getstats against StatCollector.run): what
\* is loaded is never taken back, neither during a capture nor by one that
\* fails.
AnswersAreFresh ==
  /\ since <= stats
  /\ main \in {"release", "render"} => since <= page

\* The inductive invariant: types, the lock, and fresh answers, for which
\* stats.yml must not be older than what was loaded from it.
StatInv ==
  /\ TypeOK
  /\ LockHeld
  /\ stats <= file
  /\ AnswersAreFresh

\* Unless the lock was lost or the server is stopped, every request is
\* answered, however long the capture takes that is going on: the lock is
\* not held while waiting for it (StatCollector.run lines 51-62).
EveryRequestAnswered ==
  []~LockLost =>
    \A r \in Requests :
      request = r ~> request = NoRequest \/ main \in {"stop", "join", "exit"}

\* If no capture hangs, what etisnoop has written is loaded, whatever the
\* other captures did and however many clients there are (lines 49-63).
StatisticsPublished ==
  []~LockLost /\ []<>(collector # "capture") =>
    \A v \in 1..MaxVersion :
      collector = "lock" /\ file = v ~> stats >= v

\* Control-C while the server waits for a request ends the program, if no
\* capture hangs and no second Control-C comes before stop() has set the
\* event (lines 65-68 and 115-118).
ShutdownEnds ==
  []~LockLost /\ []<>(collector # "capture") =>
    (main = "join" ~> main = "exit" /\ collector = "done")
=============================================================================
