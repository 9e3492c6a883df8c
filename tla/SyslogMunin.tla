---------------------------- MODULE SyslogMunin ----------------------------
(***************************************************************************)
(* syslog_munin/syslog_munin.py: syslog datagrams are queued, and counted  *)
(* and reported when munin-node asks for the values.                       *)
(*                                                                         *)
(* Threads: the UDP server starts one thread per datagram (ThreadingMixIn) *)
(* that parses it and puts an entry into a bounded queue, waiting while it *)
(* is full; the main thread starts both servers, serves munin's TCP        *)
(* requests one after another, and shuts both servers down in the end.     *)
(*                                                                         *)
(* Control-C raises KeyboardInterrupt in the main thread, wherever it is:  *)
(* starting, waiting for a request, in a handler (where SocketServer       *)
(* prints it like any exception, and goes on), or in the "finally" block.  *)
(***************************************************************************)
EXTENDS Integers, Sequences, FiniteSets

CONSTANTS
  Datagrams,     \* the datagrams the tools send, each once
  Priorities,    \* priorities they may carry
  QueueSize,     \* 10000
  MaxInterrupts  \* bound: how often Control-C is pressed

ASSUME SyslogMuninAssumption ==
  /\ Priorities \subseteq Nat
  /\ QueueSize \in Nat \ {0}
  /\ MaxInterrupts \in Nat

VARIABLES
  thread,        \* of each datagram: "none" (not received), "parse", "put",
                 \* "done" or "failed"
  priority,      \* of each datagram, once it is received
  logentries,    \* the queue, of datagrams
  error_count, warning_count,
  mpc,           \* where the main thread is
  entry,         \* the datagram just taken from the queue, if any (a set)
  values,        \* the values of the answer being sent
  muninserver,   \* "none", "idle" (never served), "serving", "shut"
  udpserver,     \* the same of the UDP server, and its thread
  before,        \* what had been queued when the request was received
  counted,       \* datagrams taken from the queue and counted
  skipped,       \* datagrams taken from the queue and not counted
  reported,      \* the sums of the values munin has received
  unsent,        \* the sums of the values it could not be sent
  interrupts     \* how often Control-C was pressed

threads == <<thread, priority>>
counters == <<error_count, warning_count>>
servers == <<muninserver, udpserver>>
answers == <<values, before, reported, unsent>>
taken == <<entry, counted, skipped>>

muninVars ==
  <<threads, logentries, counters, mpc, taken, answers, servers, interrupts>>

Counts == [errors : Nat, warnings : Nat]
Zero == [errors |-> 0, warnings |-> 0]
Plus(v, w) ==
  [errors |-> v.errors + w.errors, warnings |-> v.warnings + w.warnings]

\* Where the main thread is: before serve_forever, in it, and after it.
Starting == mpc \in {"init", "bound", "listening", "started"}
Serving == mpc \in {"serve", "count", "popped", "reset", "sendall"}
Leaving == mpc \in {"shutmunin", "shutudp", "exit", "stuck", "quit"}

MuninInit ==
  /\ thread = [d \in Datagrams |-> "none"]
  /\ priority = [d \in Datagrams |-> 0]
  /\ logentries = << >>
  /\ error_count = 0 /\ warning_count = 0
  /\ mpc = "init"
  /\ entry = {} /\ counted = {} /\ skipped = {}
  /\ values = Zero /\ reported = Zero /\ unsent = Zero
  /\ before = {}
  /\ muninserver = "none" /\ udpserver = "none"
  /\ interrupts = 0

get_facility_from_priority(p) == p \div 8
get_level_from_priority(p) == p % 8

\* LOG_FACILITY and LOG_LEVEL have the keys 0..23 and 0..7.
Known(p) ==
  get_facility_from_priority(p) \in 0..23 /\ get_level_from_priority(p) \in 0..7

\* 'Emergency', 'Alert', 'Critical', 'Error'; and 'Warning'.
IsError(p) == get_level_from_priority(p) \in 0..3
IsWarning(p) == get_level_from_priority(p) = 4

----------------------------------------------------------------------------
(* The UDP server and its threads. *)

Datagram(d) ==
  /\ udpserver = "serving"
  /\ thread[d] = "none"
  /\ thread' = [thread EXCEPT ![d] = "parse"]
  /\ priority' \in {[priority EXCEPT ![d] = p] : p \in Priorities}
  /\ UNCHANGED <<logentries, counters, mpc, taken, answers, servers, interrupts>>

\* No "<priority>" in the datagram, or one that is in no table: the thread
\* ends in an exception.
Parse(d) ==
  /\ thread[d] = "parse"
  /\ \E to \in {"put", "failed"} :
       /\ to = "put" => Known(priority[d])
       /\ thread' = [thread EXCEPT ![d] = to]
  /\ UNCHANGED <<priority, logentries, counters, mpc, taken, answers, servers, interrupts>>

\* logentries.put(logentry) waits while the queue is full.
Put(d) ==
  /\ thread[d] = "put"
  /\ Len(logentries) < QueueSize
  /\ logentries' = Append(logentries, d)
  /\ thread' = [thread EXCEPT ![d] = "done"]
  /\ UNCHANGED <<priority, counters, mpc, taken, answers, servers, interrupts>>

----------------------------------------------------------------------------
(* The main thread: start-up.  A port that is in use raises socket.error.   *)

CreateUdpServer ==
  /\ mpc = "init"
  /\ \/ udpserver' = "idle" /\ mpc' = "bound"
     \/ UNCHANGED udpserver /\ mpc' = "shutmunin"
  /\ UNCHANGED <<threads, logentries, counters, taken, answers, muninserver, interrupts>>

CreateMuninServer ==
  /\ mpc = "bound"
  /\ \/ muninserver' = "idle" /\ mpc' = "listening"
     \/ UNCHANGED muninserver /\ mpc' = "shutmunin"
  /\ UNCHANGED <<threads, logentries, counters, taken, answers, udpserver, interrupts>>

StartSyslogThread ==
  /\ mpc = "listening"
  /\ udpserver' = "serving"
  /\ mpc' = "started"
  /\ UNCHANGED <<threads, logentries, counters, taken, answers, muninserver, interrupts>>

ServeForever ==
  /\ mpc = "started"
  /\ muninserver' = "serving"
  /\ mpc' = "serve"
  /\ UNCHANGED <<threads, logentries, counters, taken, answers, udpserver, interrupts>>

----------------------------------------------------------------------------
(* The main thread: MuninHandler. *)

\* Datagrams that are queued, or were counted.
Queued == counted \cup {logentries[i] : i \in 1..Len(logentries)}

RequestValues ==
  /\ mpc = "serve"
  /\ before' = Queued
  /\ mpc' = "count"
  /\ UNCHANGED <<threads, logentries, counters, taken, values, reported, unsent>>
  /\ UNCHANGED <<servers, interrupts>>

\* Mutant: an entry that is neither an error nor a warning stays queued.
GetEntryStuck ==
  /\ mpc = "count"
  /\ logentries # << >>
  /\ LET d == Head(logentries)
     IN /\ entry' = {d}
        /\ logentries' = IF IsError(priority[d]) \/ IsWarning(priority[d])
                         THEN Tail(logentries) ELSE logentries
  /\ mpc' = "popped"
  /\ UNCHANGED <<threads, counters, counted, skipped, answers, servers, interrupts>>

\* One turn of update_log_counts: the entry is taken ...
GetEntry ==
  /\ mpc = "count"
  /\ logentries # << >>
  /\ entry' = {Head(logentries)}
  /\ logentries' = Tail(logentries)
  /\ mpc' = "popped"
  /\ UNCHANGED <<threads, counters, counted, skipped, answers, servers, interrupts>>

\* Mutant: a warning counts as an error as well.
CountEntryTwice ==
  /\ mpc = "popped"
  /\ \E d \in entry :
       LET l == get_level_from_priority(priority[d])
       IN /\ error_count' = error_count + (IF l <= 4 THEN 1 ELSE 0)
          /\ warning_count' = warning_count + (IF l = 4 THEN 1 ELSE 0)
  /\ counted' = counted \cup entry
  /\ entry' = {}
  /\ mpc' = "count"
  /\ UNCHANGED <<threads, logentries, skipped, answers, servers, interrupts>>

\* ... and counted.
CountEntry ==
  /\ mpc = "popped"
  /\ \E d \in entry :
       /\ error_count' = error_count + (IF IsError(priority[d]) THEN 1 ELSE 0)
       /\ warning_count' = warning_count + (IF IsWarning(priority[d]) THEN 1 ELSE 0)
  /\ counted' = counted \cup entry
  /\ entry' = {}
  /\ mpc' = "count"
  /\ UNCHANGED <<threads, logentries, skipped, answers, servers, interrupts>>

\* Mutant: one entry per request is counted.
AnswerEarly ==
  /\ mpc = "count"
  /\ counted # {} \/ logentries = << >>
  /\ values' = [errors |-> error_count, warnings |-> warning_count]
  /\ error_count' = 0
  /\ mpc' = "reset"
  /\ UNCHANGED <<threads, logentries, warning_count, taken, before, reported, unsent>>
  /\ UNCHANGED <<servers, interrupts>>

\* The queue is empty: the answer is made, and the counts are reset, the errors
\* first.
Answer ==
  /\ mpc = "count"
  /\ logentries = << >>
  /\ values' = [errors |-> error_count, warnings |-> warning_count]
  /\ error_count' = 0
  /\ mpc' = "reset"
  /\ UNCHANGED <<threads, logentries, warning_count, taken, before, reported, unsent>>
  /\ UNCHANGED <<servers, interrupts>>

ResetWarnings ==
  /\ mpc = "reset"
  /\ warning_count' = 0
  /\ mpc' = "sendall"
  /\ UNCHANGED <<threads, logentries, error_count, taken, answers, servers, interrupts>>

SendAll ==
  /\ mpc = "sendall"
  /\ reported' = Plus(reported, values)
  /\ values' = Zero
  /\ mpc' = "serve"
  /\ UNCHANGED <<threads, logentries, counters, taken, before, unsent, servers, interrupts>>

\* The client has closed the connection: SocketServer prints the exception
\* and goes on.
SendAllFails ==
  /\ mpc = "sendall"
  /\ unsent' = Plus(unsent, values)
  /\ values' = Zero
  /\ mpc' = "serve"
  /\ UNCHANGED <<threads, logentries, counters, taken, before, reported, servers, interrupts>>

----------------------------------------------------------------------------
(* The main thread: Control-C, and the end. *)

\* What is in the answer and not in the counts any more.
InHand == IF mpc = "reset" THEN [values EXCEPT !.warnings = 0] ELSE values

\* Before serve_forever: the try block is left.
InterruptStartUp ==
  /\ Starting
  /\ mpc' = "shutmunin"
  /\ UNCHANGED <<taken, answers, servers>>

\* While waiting for a request: serve_forever is left.
InterruptServing ==
  /\ mpc = "serve"
  /\ muninserver' = "shut"
  /\ mpc' = "shutmunin"
  /\ UNCHANGED <<taken, answers, udpserver>>

\* In a handler (at "serve": in one that asks for "config", or that has just sent
\* its answer), the request is given up, with the entry and the values it has in
\* hand.
InterruptHandler ==
  /\ Serving
  /\ skipped' = skipped \cup entry
  /\ entry' = {}
  /\ unsent' = Plus(unsent, InHand)
  /\ values' = Zero
  /\ mpc' = "serve"
  /\ UNCHANGED <<counted, before, reported, servers>>

\* In "finally": what is left of the block is not done.
InterruptFinally ==
  /\ mpc \in {"shutmunin", "shutudp"}
  /\ mpc' = "exit"
  /\ UNCHANGED <<taken, answers, servers>>

Interrupt ==
  /\ interrupts < MaxInterrupts
  /\ interrupts' = interrupts + 1
  /\ InterruptStartUp \/ InterruptServing \/ InterruptHandler \/ InterruptFinally
  /\ UNCHANGED <<threads, logentries, counters>>

\* shutdown() waits until serve_forever has ended: for ever, if it was never
\* called.
ShutdownMunin ==
  /\ mpc = "shutmunin"
  /\ mpc' = IF muninserver = "idle" THEN "stuck" ELSE "shutudp"
  /\ UNCHANGED <<threads, logentries, counters, taken, answers, servers, interrupts>>

\* Mutant: "finally" does not shut down the UDP server.
ShutdownUdpNot ==
  /\ mpc = "shutudp"
  /\ mpc' = "exit"
  /\ UNCHANGED <<threads, logentries, counters, taken, answers, servers, interrupts>>

\* The same of the UDP server, and syslogthread.join() (or a NameError, if there
\* is no such thread).
ShutdownUdp ==
  /\ mpc = "shutudp"
  /\ mpc' = IF udpserver = "idle" THEN "stuck" ELSE "exit"
  /\ udpserver' = IF udpserver = "serving" THEN "shut" ELSE udpserver
  /\ UNCHANGED <<threads, logentries, counters, taken, answers, muninserver, interrupts>>

\* At the interpreter's exit the UDP server's thread and every datagram's are
\* waited for: they are no daemons.
Quit ==
  /\ mpc = "exit"
  /\ udpserver # "serving"
  /\ \A d \in Datagrams : thread[d] \in {"none", "done", "failed"}
  /\ mpc' = "quit"
  /\ UNCHANGED <<threads, logentries, counters, taken, answers, servers, interrupts>>

SyslogThread(d) == Parse(d) \/ Put(d)
StartUp == CreateUdpServer \/ CreateMuninServer \/ StartSyslogThread \/ ServeForever
Handler == GetEntry \/ CountEntry \/ Answer \/ ResetWarnings \/ SendAll \/ SendAllFails
Munin == StartUp \/ Handler \/ ShutdownMunin \/ ShutdownUdp \/ Quit

MuninNext ==
  \/ \E d \in Datagrams : Datagram(d) \/ SyslogThread(d)
  \/ RequestValues \/ Munin \/ Interrupt

MuninSpec == MuninInit /\ [][MuninNext]_muninVars

\* Threads that can run do, and munin-node polls.
MuninFairSpec ==
  /\ MuninSpec
  /\ WF_muninVars(RequestValues) /\ WF_muninVars(Munin)
  /\ \A d \in Datagrams : WF_muninVars(SyslogThread(d))
----------------------------------------------------------------------------
MuninTypeOK ==
  /\ thread \in [Datagrams -> {"none", "parse", "put", "done", "failed"}]
  /\ priority \in [Datagrams -> Priorities \cup {0}]
  /\ logentries \in Seq(Datagrams) /\ Len(logentries) <= QueueSize
  /\ error_count \in Nat /\ warning_count \in Nat /\ interrupts \in Nat
  /\ Starting \/ Serving \/ Leaving
  /\ values \in Counts /\ reported \in Counts /\ unsent \in Counts
  /\ muninserver \in {"none", "idle", "serving", "shut"}
  /\ udpserver \in {"none", "idle", "serving", "shut"}
  /\ before \subseteq Datagrams
  /\ entry \subseteq Datagrams /\ counted \subseteq Datagrams /\ skipped \subseteq Datagrams

Errors(D) == Cardinality({d \in D : IsError(priority[d])})
Warnings(D) == Cardinality({d \in D : IsWarning(priority[d])})

\* Every entry that was counted is counted once, as an error or as a warning,
\* and is in one answer or in the counts, never in both (lines 155-173): an
\* answer that cannot be sent, or half made when Control-C comes, is all that gets
\* lost of it.
CountedOnce ==
  LET sum == Plus(Plus(reported, unsent),
                  Plus(InHand, [errors |-> error_count, warnings |-> warning_count]))
  IN sum = [errors |-> Errors(counted), warnings |-> Warnings(counted)]

\* Every entry put into the queue is there, or in the main thread's hands, or was
\* counted; otherwise it is one that a Control-C made the handler drop between
\* lines 167 and 173, no more than one for each.
NoneLost ==
  /\ {d \in Datagrams : thread[d] = "done"} = Queued \cup entry \cup skipped
  /\ Cardinality(skipped) <= interrupts

\* The invariant of the run: the types, each entry counted once, and none lost
\* but by Control-C in a handler (update_log_counts, MuninHandler.handle).
MuninInv == MuninTypeOK /\ CountedOnce /\ NoneLost

\* An answer counts everything that was in the queue when the request came
\* (update_log_counts, lines 163-175), and the next answer starts afresh.
AnswersAreCurrent == mpc \in {"reset", "sendall"} => before \subseteq counted

\* While munin polls, no thread waits for room in the queue for good
\* (lines 123, 166), also if Control-C interrupts the counting: until the servers
\* are shut down, every entry is queued in the end.
EveryEntryQueued ==
  \A d \in Datagrams : thread[d] = "put" ~> thread[d] = "done" \/ Leaving

\* The "finally" block ends the program if each server there is has served, if the
\* queue has room for the threads that are still running, and if Control-C is not
\* pressed again (lines 203-209).
QuitsWithRoom ==
  \A n \in 0..MaxInterrupts :
    (/\ mpc = "shutmunin" /\ interrupts = n
     /\ muninserver # "idle" /\ udpserver # "idle"
     /\ Len(logentries) + Cardinality({d \in Datagrams : thread[d] \notin {"done", "failed"}})
          <= QueueSize)
      ~> mpc = "quit" \/ interrupts > n
============================================================================
