-------------------------------- MODULE Pacing --------------------------------
(***************************************************************************)
(* The two programs that send a recording at the speed it has on air:       *)
(* send_dabp_to_zmq.py, a superframe every 120 ms, and edi/edisend.py,      *)
(* an EDI frame every 24 ms.                                                *)
(*                                                                         *)
(* They do not know each other; what they share is the clock.  The system   *)
(* lets a program that could go on wait for up to max_delay (scheduling,    *)
(* reading the file, a sleep that takes too long).                          *)
(*                                                                         *)
(* Time is a number, in the code milliseconds or a float.  The clock does   *)
(* not jump, which is the case of time.monotonic(), but not always of the   *)
(* time.time() of edisend.py.                                               *)
(***************************************************************************)
EXTENDS Naturals

CONSTANTS
  DabpPeriod,  \* 120 in the code
  EdiPeriod,   \* 24e-3 in the code
  MaxDelays,   \* the delays to consider
  MaxTime      \* bound: the time

ASSUME PacingAssumption ==
  /\ DabpPeriod \in Nat \ {0} /\ EdiPeriod \in Nat \ {0}
  /\ MaxDelays \subseteq Nat /\ MaxTime \in Nat

VARIABLES
  now, max_delay,
  \* send_dabp_to_zmq.py
  frame_send_time,  \* when the next superframe is due
  dabp_wake,        \* the end of its sleep, or when it could have gone on
  dabp_running,
  \* edisend.py
  last_send_time,
  time_now,         \* the time read before it sleeps
  edi_wake,
  edi_pc,           \* "read", "sleep", "end"
  edi_sent          \* when the last frame and the one before it were sent

dabp == <<frame_send_time, dabp_wake, dabp_running>>
edi == <<last_send_time, time_now, edi_wake, edi_pc, edi_sent>>
vars == <<now, max_delay, dabp, edi>>

-------------------------------------------------------------------------------
(* send_dabp_to_zmq.py                                                       *)

\* Mutant: a fixed sleep.
DabpWaitingFixed == DabpPeriod

\* Mutant: a sender that is late does not sleep.
DabpWaitingLate == IF now > frame_send_time THEN 0 ELSE DabpPeriod

\* diff = time_now_ms - frame_send_time_ms, and there is no sleep if this is not
\* above 0 (Naturals: a time to wait, or none).
DabpWaiting ==
  IF now - frame_send_time < DabpPeriod
  THEN DabpPeriod - (now - frame_send_time) ELSE 0

NextDeadline == frame_send_time + DabpPeriod

\* The body of the loop: send, sleep.
DabpSend ==
  /\ dabp_running
  /\ now >= dabp_wake
  /\ dabp_wake' = now + DabpWaiting
  /\ frame_send_time' = NextDeadline
  /\ UNCHANGED <<now, max_delay, dabp_running, edi>>

\* A short read.
DabpEnd ==
  /\ dabp_running
  /\ now >= dabp_wake
  /\ dabp_running' = FALSE
  /\ UNCHANGED <<now, max_delay, frame_send_time, dabp_wake, edi>>

-------------------------------------------------------------------------------
(* edisend.py                                                                *)

\* Mutant: it wakes up a little too early.
EdiDueEarly == last_send_time + EdiPeriod - 1

EdiDue == last_send_time + EdiPeriod

\* decode_pft reads the first fragment of a frame, and may sleep.
EdiRead ==
  /\ edi_pc = "read"
  /\ time_now' = now
  /\ edi_wake' = IF EdiDue > now THEN EdiDue ELSE now
  /\ edi_pc' = "sleep"
  /\ UNCHANGED <<now, max_delay, dabp, last_send_time, edi_sent>>

\* After the sleep, last_send_time is the time from before it.
EdiWake(pc) ==
  /\ edi_pc = "sleep"
  /\ now >= edi_wake
  /\ last_send_time' = time_now
  /\ edi_pc' = pc
  /\ UNCHANGED <<now, max_delay, dabp, time_now>>

\* The fragment is sent.  (Other fragments and AF packets are sent at once and do
\* not touch the state.)
EdiSend ==
  /\ EdiWake("read")
  /\ edi_sent' = [last |-> now, before |-> edi_sent.last]
  /\ edi_wake' = now

\* A header with a wrong CRC ends the program.
EdiRefuse ==
  /\ EdiWake("end")
  /\ UNCHANGED <<edi_wake, edi_sent>>

\* So does the end of the file, or an unknown sync word.
EdiEnd ==
  /\ edi_pc = "read"
  /\ edi_pc' = "end"
  /\ UNCHANGED <<now, max_delay, dabp, last_send_time, time_now, edi_wake, edi_sent>>

-------------------------------------------------------------------------------
\* Both start at time 0.
Init ==
  /\ now = 0 /\ max_delay \in MaxDelays
  /\ frame_send_time = 0 /\ dabp_wake = 0 /\ dabp_running = TRUE
  /\ last_send_time = 0 /\ time_now = 0 /\ edi_wake = 0 /\ edi_pc = "read"
  /\ edi_sent = [last |-> 0, before |-> 0]

Tick ==
  /\ now < MaxTime
  /\ now' = now + 1
  /\ dabp_running => now < dabp_wake + max_delay
  /\ edi_pc # "end" => now < edi_wake + max_delay
  /\ UNCHANGED <<max_delay, dabp, edi>>

Next == DabpSend \/ DabpEnd \/ EdiRead \/ EdiSend \/ EdiRefuse \/ EdiEnd \/ Tick

Spec == Init /\ [][Next]_vars

-------------------------------------------------------------------------------
(* Properties                                                                *)

TypeOK ==
  /\ now \in 0..MaxTime /\ max_delay \in MaxDelays
  /\ frame_send_time \in Nat /\ dabp_wake \in Nat /\ dabp_running \in BOOLEAN
  /\ last_send_time \in 0..now /\ time_now \in 0..now /\ edi_wake \in Nat
  /\ edi_pc \in {"read", "sleep", "end"}
  /\ edi_sent \in [last : 0..now, before : 0..now]

\* "We need to throttle our process down to one ZMQ frame every 120ms": no
\* superframe is sent before it is due, also when earlier ones were late.
DabpNeverEarly ==
  [][frame_send_time' # frame_send_time => now >= frame_send_time]_vars

\* "That wouldn't take in account the time it takes to read the data": on a system
\* where no delay is longer than the period, delays do not add up.
DabpOnTime ==
  (dabp_running /\ max_delay <= DabpPeriod) => now <= frame_send_time + max_delay

\* The invariant of the run: the types, and delays that do not add up
\* (send_dabp_to_zmq.py lines 108-124).
PacedInTime == TypeOK /\ DabpOnTime

\* edisend.py sends at most two frames in a period.  (Not one: since
\* last_send_time is the time before the sleep, every other frame does not wait.)
EdiTwoPerPeriod ==
  [][edi_sent' # edi_sent => edi_sent'.last >= edi_sent.before + EdiPeriod]_vars
===============================================================================
