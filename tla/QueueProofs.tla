----------------------------- MODULE QueueProofs -----------------------------
(***************************************************************************)
(* Proofs about two programs that keep messages in a queue: the syslog     *)
(* collector, for any number of datagrams, of entries the queue holds, of  *)
(* requests and of times Control-C is pressed; and the ZeroMQ dropper, for *)
(* any number of messages of any length, and any number of signals between *)
(* any two instructions.                                                   *)
(***************************************************************************)
EXTENDS SyslogMunin, ZmqDropper, FiniteSetTheorems, TLAPS

------------------------------------------------------------------------------
(* The syslog collector *)

\* A datagram is in the queue once, and neither there nor in the main thread's
\* hands once it was counted; it is in those hands at the one place only.
QueuedOnce ==
  /\ \A i, j \in 1..Len(logentries) : i # j => logentries[i] # logentries[j]
  /\ \A i \in 1..Len(logentries) : logentries[i] \notin counted
  /\ \A i \in 1..Len(logentries) : logentries[i] \notin entry
  /\ entry \cap counted = {}
  /\ IF mpc = "popped" THEN \E d \in Datagrams : entry = {d} ELSE entry = {}
  /\ IsFiniteSet(counted) /\ IsFiniteSet(skipped)

\* From the request to the answer, what had been queued is queued, in hand, or
\* counted; there are values only while they are being sent, and until they are
\* reset the warnings are those of the answer.
Current ==
  /\ mpc \notin {"reset", "sendall"} => values = Zero
  /\ mpc = "reset" => values.warnings = warning_count
  /\ mpc \in {"count", "popped"} => before \subseteq Queued \cup entry
  /\ AnswersAreCurrent

MuninIndInv == MuninTypeOK /\ QueuedOnce /\ CountedOnce /\ NoneLost /\ Current

\* A datagram more adds one to what its level is counted as.
LEMMA OneMore ==
  ASSUME NEW D, IsFiniteSet(D), NEW d, d \notin D
  PROVE  /\ Errors(D) \in Nat /\ Warnings(D) \in Nat
         /\ Errors(D \cup {d}) =
              Errors(D) + (IF IsError(priority[d]) THEN 1 ELSE 0)
         /\ Warnings(D \cup {d}) =
              Warnings(D) + (IF IsWarning(priority[d]) THEN 1 ELSE 0)
<1> DEFINE E == {x \in D : IsError(priority[x])}
           W == {x \in D : IsWarning(priority[x])}
<1>1. IsFiniteSet(E) /\ IsFiniteSet(W)
  BY FS_Subset
<1>2. Cardinality(E) \in Nat /\ Cardinality(W) \in Nat
  BY <1>1, FS_CardinalityType
<1>3. Cardinality(E \cup {d}) = Cardinality(E) + 1
  BY <1>1, FS_AddElement
<1>4. Cardinality(W \cup {d}) = Cardinality(W) + 1
  BY <1>1, FS_AddElement
<1>5. {x \in D \cup {d} : IsError(priority[x])} =
        IF IsError(priority[d]) THEN E \cup {d} ELSE E
  OBVIOUS
<1>6. {x \in D \cup {d} : IsWarning(priority[x])} =
        IF IsWarning(priority[d]) THEN W \cup {d} ELSE W
  OBVIOUS
<1>7. /\ Errors(D) = Cardinality(E) /\ Warnings(D) = Cardinality(W)
      /\ Errors(D \cup {d}) = Cardinality(IF IsError(priority[d]) THEN E \cup {d} ELSE E)
      /\ Warnings(D \cup {d}) = Cardinality(IF IsWarning(priority[d]) THEN W \cup {d} ELSE W)
  BY <1>5, <1>6 DEF Errors, Warnings
<1> HIDE DEF E, W
<1>8. QED
  BY <1>2, <1>3, <1>4, <1>7

\* The counters are numbers.
LEMMA Counters ==
  ASSUME MuninTypeOK
  PROVE  /\ error_count \in Nat /\ warning_count \in Nat
         /\ values.errors \in Nat /\ values.warnings \in Nat
         /\ reported.errors \in Nat /\ reported.warnings \in Nat
         /\ unsent.errors \in Nat /\ unsent.warnings \in Nat
         /\ Len(logentries) \in Nat
BY DEF MuninTypeOK, Counts

\* CountedOnce, number by number.
WarningsInHand == IF mpc = "reset" THEN 0 ELSE values.warnings

CountedErrors ==
  reported.errors + unsent.errors + (values.errors + error_count)
    = Errors(counted)
CountedWarnings ==
  reported.warnings + unsent.warnings + (WarningsInHand + warning_count)
    = Warnings(counted)

LEMMA CountedNumbers ==
  /\ MuninTypeOK => (CountedOnce <=> CountedErrors /\ CountedWarnings)
  /\ MuninTypeOK' => (CountedOnce' <=> CountedErrors' /\ CountedWarnings')
<1>1. MuninTypeOK =>
        InHand.errors = values.errors /\ InHand.warnings = WarningsInHand
  BY DEF MuninTypeOK, Counts, InHand, WarningsInHand
<1>2. MuninTypeOK' =>
        InHand'.errors = values'.errors /\ InHand'.warnings = WarningsInHand'
  BY DEF MuninTypeOK, Counts, InHand, WarningsInHand
<1>3. QED
  BY <1>1, <1>2 DEF CountedOnce, CountedErrors, CountedWarnings, Plus

LEMMA AddBoth ==
  \A a, b, c, d, n, x \in Nat :
    a + b + (c + d) = n => a + b + (c + (d + x)) = n + x
OBVIOUS

\* Moving a number from one place to the next.
LEMMA Move ==
  \A a, b, c, d \in Nat :
    /\ a + b + (0 + d) = a + b + (d + 0)
    /\ (a + c) + b + (0 + d) = a + b + (c + d)
    /\ a + (b + c) + (0 + d) = a + b + (c + d)
OBVIOUS

LEMMA InitMunin == MuninInit => MuninIndInv
<1> SUFFICES ASSUME MuninInit PROVE MuninIndInv
  OBVIOUS
<1>1. MuninTypeOK
  BY SyslogMuninAssumption DEF MuninInit, MuninTypeOK, Starting, Counts, Zero
<1>2. QueuedOnce
  BY FS_EmptySet DEF MuninInit, QueuedOnce
<1>3. CountedOnce
  <2>1. Errors({}) = 0 /\ Warnings({}) = 0
    BY FS_EmptySet DEF Errors, Warnings
  <2>2. QED
    BY <2>1 DEF MuninInit, CountedOnce, InHand, Plus, Zero
<1>4. Current
  BY DEF MuninInit, Current, AnswersAreCurrent
<1>5. NoneLost
  <2>1. Queued = {}
    BY DEF MuninInit, Queued
  <2>2. QED
    BY <2>1, FS_EmptySet DEF MuninInit, NoneLost
<1>6. QED
  BY <1>1, <1>2, <1>3, <1>4, <1>5 DEF MuninIndInv

\* The threads of the UDP server: a priority is that of a datagram nobody has
\* queued.
LEMMA ThreadsKeep ==
  ASSUME MuninIndInv, NEW d \in Datagrams, Datagram(d) \/ Parse(d)
  PROVE  MuninIndInv'
<1>1. /\ thread[d] # "done"
      /\ thread' \in [Datagrams -> {"none", "parse", "put", "done", "failed"}]
      /\ thread'[d] # "done"
      /\ \A e \in Datagrams : e # d => thread'[e] = thread[e]
      /\ priority' \in [Datagrams -> Priorities \cup {0}]
      /\ \A e \in Datagrams : e # d => priority'[e] = priority[e]
      /\ UNCHANGED <<logentries, counters, mpc, taken, answers, servers, interrupts>>
  BY DEF Datagram, Parse, MuninIndInv, MuninTypeOK
<1>2. MuninTypeOK'
  BY <1>1 DEF MuninIndInv, MuninTypeOK, Starting, Serving, Leaving, counters, taken,
    answers, servers
<1>3. QueuedOnce'
  BY <1>1 DEF MuninIndInv, QueuedOnce, taken
<1>4. CountedOnce'
  <2>1. \A e \in counted : thread[e] = "done" /\ e \in Datagrams
    BY DEF MuninIndInv, MuninTypeOK, NoneLost, Queued
  <2>2. \A e \in counted : priority'[e] = priority[e]
    BY <1>1, <2>1
  <2>3. Errors(counted)' = Errors(counted)
    BY <1>1, <2>2 DEF Errors, taken
  <2>4. Warnings(counted)' = Warnings(counted)
    BY <1>1, <2>2 DEF Warnings, taken
  <2>5. QED
    BY <1>1, <2>3, <2>4 DEF MuninIndInv, CountedOnce, InHand, counters, answers
<1>5. Current'
  BY <1>1 DEF MuninIndInv, Current, AnswersAreCurrent, Queued, counters, taken, answers
<1>6. NoneLost'
  <2>1. {e \in Datagrams : thread'[e] = "done"} = {e \in Datagrams : thread[e] = "done"}
    BY <1>1
  <2>2. QED
    BY <1>1, <2>1 DEF MuninIndInv, NoneLost, Queued, taken
<1>7. QED
  BY <1>2, <1>3, <1>4, <1>5, <1>6 DEF MuninIndInv

LEMMA PutKeeps ==
  ASSUME MuninIndInv, NEW d \in Datagrams, Put(d)
  PROVE  MuninIndInv'
<1>1. /\ thread[d] = "put"
      /\ thread' = [thread EXCEPT ![d] = "done"]
      /\ Len(logentries') = Len(logentries) + 1
      /\ \A i \in 1..Len(logentries') :
           logentries'[i] = IF i <= Len(logentries) THEN logentries[i] ELSE d
      /\ logentries' \in Seq(Datagrams)
      /\ UNCHANGED <<priority, error_count, warning_count, mpc, entry, counted, skipped>>
      /\ UNCHANGED <<values, before, reported, unsent, muninserver, udpserver, interrupts>>
  BY DEF Put, MuninIndInv, MuninTypeOK, counters, taken, answers, servers
<1>2. MuninTypeOK'
  BY <1>1, SyslogMuninAssumption
  DEF MuninIndInv, MuninTypeOK, Starting, Serving, Leaving, Put
<1>3. Queued' = Queued \cup {d}
  <2>1. Len(logentries) \in Nat
    BY Counters DEF MuninIndInv
  <2>2. Len(logentries') \in 1..Len(logentries')
    BY <1>1, <2>1
  <2>3. logentries'[Len(logentries')] = d
    BY <1>1, <2>1, <2>2
  <2>4. \A i \in 1..Len(logentries) :
          i \in 1..Len(logentries') /\ logentries'[i] = logentries[i]
    BY <1>1, <2>1
  <2>5. QED
    BY <1>1, <2>1, <2>2, <2>3, <2>4 DEF Queued
<1>4. QueuedOnce'
  <2> QueuedOnce /\ MuninTypeOK
    BY DEF MuninIndInv
  <2>1. d \notin Queued /\ d \notin entry
    BY <1>1 DEF MuninIndInv, NoneLost
  <2>2. d \notin counted /\ \A i \in 1..Len(logentries) : logentries[i] # d
    BY <2>1 DEF Queued
  <2>3. ASSUME NEW i \in 1..Len(logentries')
        PROVE  \/ i \in 1..Len(logentries) /\ logentries'[i] = logentries[i]
               \/ i = Len(logentries) + 1 /\ logentries'[i] = d
    BY <1>1, Counters
  <2>4. \A i \in 1..Len(logentries') :
          logentries'[i] \notin counted /\ logentries'[i] \notin entry
    BY <2>1, <2>2, <2>3 DEF QueuedOnce
  <2>5. \A i, j \in 1..Len(logentries') :
          i # j => logentries'[i] # logentries'[j]
    BY <2>2, <2>3 DEF QueuedOnce
  <2>6. QED
    BY <1>1, <2>4, <2>5 DEF QueuedOnce
<1>5. CountedOnce'
  BY <1>1 DEF MuninIndInv, CountedOnce, InHand, Errors, Warnings
<1>6. Current'
  BY <1>1, <1>3 DEF MuninIndInv, Current, AnswersAreCurrent
<1>7. NoneLost'
  <2>1. {e \in Datagrams : thread'[e] = "done"} =
          {e \in Datagrams : thread[e] = "done"} \cup {d}
    BY <1>1 DEF MuninIndInv, MuninTypeOK
  <2>2. QED
    BY <1>1, <1>3, <2>1 DEF MuninIndInv, NoneLost
<1>8. QED
  BY <1>2, <1>4, <1>5, <1>6, <1>7 DEF MuninIndInv

\* One entry moves from the queue into the main thread's hands.
LEMMA GetEntryKeeps ==
  ASSUME MuninIndInv, GetEntry
  PROVE  MuninIndInv'
<1> DEFINE d == Head(logentries)
<1>1. /\ d \in Datagrams /\ d = logentries[1] /\ Len(logentries) >= 1
      /\ logentries' \in Seq(Datagrams)
      /\ Len(logentries') = Len(logentries) - 1
      /\ \A i \in 1..Len(logentries') : logentries'[i] = logentries[i + 1]
  BY DEF GetEntry, MuninIndInv, MuninTypeOK
<1>2. /\ mpc = "count" /\ mpc' = "popped" /\ entry' = {d}
      /\ UNCHANGED <<thread, priority, error_count, warning_count, counted, skipped>>
      /\ UNCHANGED <<values, before, reported, unsent, muninserver, udpserver, interrupts>>
  BY DEF GetEntry, threads, counters, answers, servers
<1> HIDE DEF d
<1>3. entry = {} /\ d \notin counted /\ Len(logentries) \in Nat
  BY <1>1, <1>2, Counters DEF MuninIndInv, QueuedOnce
<1>4. MuninTypeOK'
  <2> MuninTypeOK
    BY DEF MuninIndInv
  <2>1. Len(logentries') <= QueueSize
    <3>1. Len(logentries) <= QueueSize /\ QueueSize \in Nat
      BY SyslogMuninAssumption DEF MuninTypeOK
    <3>2. QED
      BY <3>1, <1>1, <1>3
  <2>2. Serving'
    BY <1>2 DEF Serving
  <2>3. QED
    BY <1>1, <1>2, <2>1, <2>2 DEF MuninTypeOK
<1>5. Queued' \cup {d} = Queued
  <2>1. ASSUME NEW i \in 1..Len(logentries)
        PROVE  logentries[i] = d \/ \E j \in 1..Len(logentries') : logentries[i] = logentries'[j]
    <3>1. CASE i = 1
      BY <3>1, <1>1
    <3>2. CASE i # 1
      <4>1. i - 1 \in 1..Len(logentries') /\ (i - 1) + 1 = i
        BY <1>1, <1>3, <3>2
      <4>2. QED
        BY <4>1, <1>1
    <3>3. QED
      BY <3>1, <3>2
  <2>2. \A j \in 1..Len(logentries') : j + 1 \in 1..Len(logentries)
    BY <1>1, <1>3
  <2>3. 1 \in 1..Len(logentries)
    BY <1>1, <1>3
  <2>4. {logentries'[i] : i \in 1..Len(logentries')} \cup {d}
        = {logentries[i] : i \in 1..Len(logentries)}
    <3>1. ASSUME NEW j \in 1..Len(logentries')
          PROVE  \E i \in 1..Len(logentries) : logentries[i] = logentries'[j]
      BY <1>1, <2>2
    <3>2. ASSUME NEW i \in 1..Len(logentries)
          PROVE  logentries[i] \in {logentries'[j] : j \in 1..Len(logentries')} \cup {d}
      BY <2>1
    <3>3. d \in {logentries[i] : i \in 1..Len(logentries)}
      BY <1>1, <2>3
    <3>4. \A x \in {logentries'[j] : j \in 1..Len(logentries')} :
            x \in {logentries[i] : i \in 1..Len(logentries)}
      BY <3>1
    <3>5. \A x \in {logentries[i] : i \in 1..Len(logentries)} :
            x \in {logentries'[j] : j \in 1..Len(logentries')} \cup {d}
      BY <3>2
    <3> DEFINE old == {logentries[i] : i \in 1..Len(logentries)}
               new == {logentries'[j] : j \in 1..Len(logentries')}
    <3> HIDE DEF old, new
    <3>6. (\A x \in new : x \in old) /\ (\A x \in old : x \in new \cup {d}) /\ d \in old
          => new \cup {d} = old
      OBVIOUS
    <3>7. QED
      BY <3>3, <3>4, <3>5, <3>6 DEF old, new
  <2>5. QED
    BY <1>2, <2>4 DEF Queued
<1>6. QueuedOnce'
  <2>1. \A i \in 1..Len(logentries') :
          logentries'[i] # d /\ logentries'[i] \notin counted
    BY <1>1, <1>3 DEF MuninIndInv, QueuedOnce
  <2>2. \A i, j \in 1..Len(logentries') :
          i # j => logentries'[i] # logentries'[j]
    BY <1>1, <1>3 DEF MuninIndInv, QueuedOnce
  <2>3. QED
    BY <1>1, <1>2, <1>3, <2>1, <2>2 DEF MuninIndInv, QueuedOnce
<1>7. CountedOnce'
  BY <1>2 DEF MuninIndInv, CountedOnce, InHand, Errors, Warnings
<1>8. Current'
  BY <1>2, <1>3, <1>5 DEF MuninIndInv, Current, AnswersAreCurrent
<1>9. NoneLost'
  BY <1>2, <1>3, <1>5 DEF MuninIndInv, NoneLost
<1>10. QED
  BY <1>4, <1>6, <1>7, <1>8, <1>9 DEF MuninIndInv

\* The entry in hand moves into the counts.
LEMMA CountEntryKeeps ==
  ASSUME MuninIndInv, CountEntry
  PROVE  MuninIndInv'
<1>1. PICK d \in Datagrams : entry = {d}
  BY DEF CountEntry, MuninIndInv, QueuedOnce
<1>2. /\ error_count' = error_count + (IF IsError(priority[d]) THEN 1 ELSE 0)
      /\ warning_count' =
           warning_count + (IF IsWarning(priority[d]) THEN 1 ELSE 0)
      /\ counted' = counted \cup {d} /\ entry' = {}
      /\ mpc = "popped" /\ mpc' = "count"
      /\ UNCHANGED <<thread, priority, logentries, skipped, interrupts>>
      /\ UNCHANGED <<values, before, reported, unsent, muninserver, udpserver>>
  BY <1>1 DEF CountEntry, threads, answers, servers
<1>3. d \notin counted /\ \A i \in 1..Len(logentries) : logentries[i] # d
  BY <1>1 DEF MuninIndInv, QueuedOnce
<1>4. MuninTypeOK'
  <2> MuninTypeOK
    BY DEF MuninIndInv
  <2>1. error_count' \in Nat /\ warning_count' \in Nat
    BY <1>2, Counters
  <2>2. Serving'
    BY <1>2 DEF Serving
  <2>3. QED
    BY <1>2, <2>1, <2>2 DEF MuninTypeOK
<1>5. QueuedOnce'
  <2>1. IsFiniteSet(counted')
    BY <1>2, FS_AddElement DEF MuninIndInv, QueuedOnce
  <2>2. QED
    BY <1>1, <1>2, <1>3, <2>1 DEF MuninIndInv, QueuedOnce
<1>6. CountedOnce'
  <2> MuninTypeOK /\ MuninTypeOK'
    BY <1>4 DEF MuninIndInv
  <2>1. /\ Errors(counted) \in Nat /\ Warnings(counted) \in Nat
        /\ Errors(counted)' =
             Errors(counted) + (IF IsError(priority[d]) THEN 1 ELSE 0)
        /\ Warnings(counted)' =
             Warnings(counted) + (IF IsWarning(priority[d]) THEN 1 ELSE 0)
    <3>1. /\ Errors(counted) \in Nat /\ Warnings(counted) \in Nat
          /\ Errors(counted \cup {d}) =
               Errors(counted) + (IF IsError(priority[d]) THEN 1 ELSE 0)
          /\ Warnings(counted \cup {d}) =
               Warnings(counted) + (IF IsWarning(priority[d]) THEN 1 ELSE 0)
      BY <1>3, OneMore DEF MuninIndInv, QueuedOnce
    <3>2. /\ Errors(counted)' = Errors(counted \cup {d})
          /\ Warnings(counted)' = Warnings(counted \cup {d})
      BY <1>2 DEF Errors, Warnings
    <3>3. QED
      BY <3>1, <3>2
  <2>2. CountedErrors /\ CountedWarnings
    BY CountedNumbers DEF MuninIndInv
  <2>3. /\ error_count \in Nat /\ warning_count \in Nat
        /\ values.errors \in Nat /\ values.warnings \in Nat
        /\ reported.errors \in Nat /\ reported.warnings \in Nat
        /\ unsent.errors \in Nat /\ unsent.warnings \in Nat
    BY Counters
  <2> DEFINE One(b) == IF b THEN 1 ELSE 0
  <2>4. CountedErrors'
    <3>1. error_count' = error_count + One(IsError(priority[d]))
      BY <1>2
    <3>2. Errors(counted)' = Errors(counted) + One(IsError(priority[d]))
      BY <2>1
    <3>3. One(IsError(priority[d])) \in Nat
      OBVIOUS
    <3> HIDE DEF One
    <3>4. reported.errors + unsent.errors
            + (values.errors + (error_count + One(IsError(priority[d]))))
             = Errors(counted) + One(IsError(priority[d]))
      BY <2>1, <2>2, <2>3, <3>3, AddBoth DEF CountedErrors
    <3>5. QED
      BY <1>2, <3>1, <3>2, <3>4 DEF CountedErrors
  <2>5. CountedWarnings'
    <3>1. warning_count' = warning_count + One(IsWarning(priority[d]))
      BY <1>2
    <3>2. Warnings(counted)' = Warnings(counted) + One(IsWarning(priority[d]))
      BY <2>1
    <3>3. One(IsWarning(priority[d])) \in Nat
      OBVIOUS
    <3>6. WarningsInHand = values.warnings /\ WarningsInHand' = values.warnings
      BY <1>2 DEF WarningsInHand
    <3> HIDE DEF One
    <3>4. reported.warnings + unsent.warnings
               + (values.warnings
                    + (warning_count + One(IsWarning(priority[d]))))
             = Warnings(counted) + One(IsWarning(priority[d]))
      BY <2>1, <2>2, <2>3, <3>3, <3>6, AddBoth DEF CountedWarnings
    <3>5. QED
      BY <1>2, <3>1, <3>2, <3>4, <3>6 DEF CountedWarnings
  <2>6. QED
    BY <2>4, <2>5, CountedNumbers
<1>7. Queued' = Queued \cup {d}
  BY <1>2 DEF Queued
<1>8. Current'
  BY <1>1, <1>2, <1>7 DEF MuninIndInv, Current, AnswersAreCurrent
<1>9. NoneLost'
  BY <1>1, <1>2, <1>7 DEF MuninIndInv, NoneLost
<1>10. QED
  BY <1>4, <1>5, <1>6, <1>8, <1>9 DEF MuninIndInv

\* The request, and the answer, which moves the counts from one place to the next:
\* steps of the handler that take no entry.
HandlerStep == RequestValues \/ Answer \/ ResetWarnings \/ SendAll \/ SendAllFails

LEMMA HandlerKeeps ==
  ASSUME MuninIndInv, HandlerStep
  PROVE  MuninIndInv'
<1> USE DEF HandlerStep, RequestValues, Answer, ResetWarnings, SendAll, SendAllFails
<1>1. /\ UNCHANGED <<thread, priority, logentries, entry, counted, skipped, interrupts>>
      /\ UNCHANGED <<muninserver, udpserver>>
      /\ mpc \in {"serve", "count", "reset", "sendall"}
      /\ mpc' \in {"serve", "count", "reset", "sendall"}
  BY DEF threads, taken, servers
<1>2. MuninTypeOK'
  <2> MuninTypeOK /\ Serving'
    BY <1>1 DEF MuninIndInv, Serving
  <2>1. CASE RequestValues
    <3>1. Queued \subseteq Datagrams
      BY DEF MuninTypeOK, Queued
    <3>2. QED
      BY <1>1, <2>1, <3>1 DEF MuninTypeOK, counters
  <2>2. CASE Answer
    BY <1>1, <2>2 DEF MuninTypeOK, Counts
  <2>3. CASE ResetWarnings
    BY <1>1, <2>3 DEF MuninTypeOK, answers
  <2>4. CASE SendAll
    BY <1>1, <2>4 DEF MuninTypeOK, Counts, Zero, Plus, counters
  <2>5. CASE SendAllFails
    BY <1>1, <2>5 DEF MuninTypeOK, Counts, Zero, Plus, counters
  <2>6. QED
    BY <2>1, <2>2, <2>3, <2>4, <2>5
<1>3. QueuedOnce'
  BY <1>1 DEF MuninIndInv, QueuedOnce
<1>4. CountedOnce'
  <2> MuninTypeOK /\ MuninTypeOK'
    BY <1>2 DEF MuninIndInv
  <2>1. CountedErrors /\ CountedWarnings
    BY CountedNumbers DEF MuninIndInv
  <2>2. Errors(counted)' = Errors(counted) /\ Warnings(counted)' = Warnings(counted)
    BY <1>1 DEF Errors, Warnings
  <2>3. /\ error_count \in Nat /\ warning_count \in Nat
        /\ values.errors \in Nat /\ values.warnings \in Nat
        /\ reported.errors \in Nat /\ reported.warnings \in Nat
        /\ unsent.errors \in Nat /\ unsent.warnings \in Nat
    BY Counters
  <2>4. CountedErrors' /\ CountedWarnings'
    <3>1. CASE RequestValues
      <4>1. UNCHANGED <<error_count, warning_count, values, reported, unsent>>
        BY <3>1 DEF counters
      <4>2. mpc # "reset" /\ mpc' # "reset"
        BY <3>1
      <4>3. QED
        BY <4>1, <4>2, <2>1, <2>2 DEF CountedErrors, CountedWarnings, WarningsInHand
    <3>2. CASE Answer
      <4>1. /\ values.errors = 0 /\ WarningsInHand = 0
            /\ values'.errors = error_count /\ error_count' = 0
            /\ WarningsInHand' = 0
            /\ UNCHANGED <<warning_count, reported, unsent>>
        BY <3>2 DEF MuninIndInv, Current, Zero, WarningsInHand
      <4> HIDE DEF HandlerStep, Answer
      <4>2. CountedErrors'
        BY <4>1, <2>1, <2>2, <2>3, Move DEF CountedErrors
      <4>3. CountedWarnings'
        BY <4>1, <2>1, <2>2 DEF CountedWarnings
      <4>4. QED
        BY <4>2, <4>3
    <3>3. CASE ResetWarnings
      <4>1. /\ WarningsInHand = 0 /\ WarningsInHand' = warning_count
            /\ warning_count' = 0
            /\ UNCHANGED <<error_count, values, reported, unsent>>
        BY <3>3 DEF MuninIndInv, Current, WarningsInHand, answers
      <4> HIDE DEF HandlerStep, ResetWarnings
      <4>2. CountedErrors'
        BY <4>1, <2>1, <2>2 DEF CountedErrors
      <4>3. CountedWarnings'
        BY <4>1, <2>1, <2>2, <2>3, Move DEF CountedWarnings
      <4>4. QED
        BY <4>2, <4>3
    <3>4. CASE SendAll
      <4>1. /\ values'.errors = 0 /\ WarningsInHand = values.warnings
            /\ WarningsInHand' = 0
            /\ reported'.errors = reported.errors + values.errors
            /\ reported'.warnings = reported.warnings + values.warnings
            /\ UNCHANGED <<unsent, error_count, warning_count>>
        BY <3>4 DEF Plus, Zero, WarningsInHand, counters
      <4> HIDE DEF HandlerStep, RequestValues, Answer, ResetWarnings, SendAll, SendAllFails
      <4>2. CountedErrors'
        BY <4>1, <2>1, <2>2, <2>3, Move DEF CountedErrors
      <4>3. CountedWarnings'
        BY <4>1, <2>1, <2>2, <2>3, Move DEF CountedWarnings
      <4>4. QED
        BY <4>2, <4>3
    <3>5. CASE SendAllFails
      <4>1. /\ values'.errors = 0 /\ WarningsInHand = values.warnings
            /\ WarningsInHand' = 0
            /\ unsent'.errors = unsent.errors + values.errors
            /\ unsent'.warnings = unsent.warnings + values.warnings
            /\ UNCHANGED <<reported, error_count, warning_count>>
        BY <3>5 DEF Plus, Zero, WarningsInHand, counters
      <4> HIDE DEF HandlerStep, RequestValues, Answer, ResetWarnings, SendAll, SendAllFails
      <4>2. CountedErrors'
        BY <4>1, <2>1, <2>2, <2>3, Move DEF CountedErrors
      <4>3. CountedWarnings'
        BY <4>1, <2>1, <2>2, <2>3, Move DEF CountedWarnings
      <4>4. QED
        BY <4>2, <4>3
    <3>6. QED
      BY <3>1, <3>2, <3>3, <3>4, <3>5
  <2>5. QED
    BY <2>4, CountedNumbers
<1>5. Current'
  <2>0. entry = {} /\ Queued' = Queued
    BY <1>1 DEF MuninIndInv, QueuedOnce, Queued
  <2>1. CASE RequestValues
    BY <2>0, <2>1 DEF MuninIndInv, Current, AnswersAreCurrent, counters
  <2>2. CASE Answer
    <3>1. Queued = counted
      BY <2>2 DEF Queued
    <3>2. before \subseteq counted
      BY <2>0, <2>2, <3>1 DEF MuninIndInv, Current
    <3>3. QED
      BY <1>1, <2>2, <3>2 DEF Current, AnswersAreCurrent
  <2>3. CASE ResetWarnings
    BY <1>1, <2>3 DEF MuninIndInv, Current, AnswersAreCurrent, answers
  <2>4. CASE SendAll \/ SendAllFails
    BY <2>4 DEF Current, AnswersAreCurrent
  <2>5. QED
    BY <2>1, <2>2, <2>3, <2>4
<1>6. NoneLost'
  BY <1>1 DEF MuninIndInv, NoneLost, Queued
<1>7. QED
  BY <1>2, <1>3, <1>4, <1>5, <1>6 DEF MuninIndInv

\* Control-C in a handler: the entry in hand is skipped, one for the one interrupt,
\* and the values in hand are not sent.
LEMMA InterruptHandlerKeeps ==
  ASSUME MuninIndInv, InterruptHandler, interrupts' = interrupts + 1,
         UNCHANGED <<threads, logentries, counters>>
  PROVE  MuninIndInv'
<1>1. /\ skipped' = skipped \cup entry /\ entry' = {}
      /\ unsent' = Plus(unsent, InHand) /\ values' = Zero /\ mpc' = "serve"
      /\ UNCHANGED <<thread, priority, logentries, error_count, warning_count>>
      /\ UNCHANGED <<counted, before, reported, muninserver, udpserver>>
  BY DEF InterruptHandler, threads, counters, servers
<1>2. InHand.errors = values.errors /\ InHand.warnings = WarningsInHand
      /\ WarningsInHand \in Nat
  BY DEF MuninIndInv, MuninTypeOK, Counts, InHand, WarningsInHand
<1>3. MuninTypeOK'
  <2> MuninTypeOK /\ Serving'
    BY <1>1 DEF MuninIndInv, Serving
  <2>1. unsent' \in Counts /\ values' \in Counts
    <3>1. unsent' = [errors |-> unsent.errors + InHand.errors,
                     warnings |-> unsent.warnings + InHand.warnings]
      BY <1>1 DEF Plus
    <3>2. /\ unsent.errors + InHand.errors \in Nat
          /\ unsent.warnings + InHand.warnings \in Nat
      <4>1. unsent.errors \in Nat /\ unsent.warnings \in Nat /\ values.errors \in Nat
        BY Counters
      <4>2. QED
        BY <4>1, <1>2
    <3>3. values' \in Counts
      BY <1>1 DEF Zero, Counts
    <3>4. QED
      BY <3>1, <3>2, <3>3 DEF Counts
  <2>2. QED
    BY <1>1, <2>1 DEF MuninTypeOK
<1>4. /\ IsFiniteSet(skipped') /\ Cardinality(skipped') <= interrupts'
  <2>1. IsFiniteSet(skipped) /\ Cardinality(skipped) <= interrupts /\ interrupts \in Nat
    BY DEF MuninIndInv, QueuedOnce, NoneLost, MuninTypeOK
  <2>2. Cardinality(skipped) \in Nat
    BY <2>1, FS_CardinalityType
  <2>3. CASE entry = {}
    BY <1>1, <2>1, <2>2, <2>3
  <2>4. CASE entry # {}
    <3>1. PICK d \in Datagrams : entry = {d}
      BY <2>4 DEF MuninIndInv, QueuedOnce
    <3>2. /\ IsFiniteSet(skipped \cup {d})
          /\ Cardinality(skipped \cup {d}) <= Cardinality(skipped) + 1
          /\ Cardinality(skipped \cup {d}) \in Nat
      <4>1. /\ IsFiniteSet(skipped \cup {d})
            /\ Cardinality(skipped \cup {d})
                 = IF d \in skipped THEN Cardinality(skipped) ELSE Cardinality(skipped) + 1
        BY <2>1, FS_AddElement
      <4>2. QED
        BY <2>2, <4>1
    <3>3. QED
      BY <1>1, <2>1, <2>2, <3>1, <3>2
  <2>5. QED
    BY <2>3, <2>4
<1>5. QueuedOnce'
  BY <1>1, <1>4 DEF MuninIndInv, QueuedOnce
<1>6. CountedOnce'
  <2> MuninTypeOK /\ MuninTypeOK'
    BY <1>3 DEF MuninIndInv
  <2>1. CountedErrors /\ CountedWarnings
    BY CountedNumbers DEF MuninIndInv
  <2>2. Errors(counted)' = Errors(counted) /\ Warnings(counted)' = Warnings(counted)
    BY <1>1 DEF Errors, Warnings
  <2>3. /\ values'.errors = 0 /\ WarningsInHand' = 0
        /\ unsent'.errors = unsent.errors + values.errors
        /\ unsent'.warnings = unsent.warnings + WarningsInHand
    BY <1>1, <1>2 DEF Plus, Zero, WarningsInHand
  <2>4. /\ error_count \in Nat /\ warning_count \in Nat
        /\ values.errors \in Nat
        /\ reported.errors \in Nat /\ reported.warnings \in Nat
        /\ unsent.errors \in Nat /\ unsent.warnings \in Nat
    BY Counters
  <2>5. CountedErrors'
    BY <1>1, <2>1, <2>2, <2>3, <2>4, Move DEF CountedErrors
  <2>6. CountedWarnings'
    BY <1>1, <1>2, <2>1, <2>2, <2>3, <2>4, Move DEF CountedWarnings
  <2>7. QED
    BY <2>5, <2>6, CountedNumbers
<1>7. Current'
  BY <1>1 DEF Current, AnswersAreCurrent
<1>8. NoneLost'
  BY <1>1, <1>4 DEF MuninIndInv, NoneLost, Queued
<1>9. QED
  BY <1>3, <1>5, <1>6, <1>7, <1>8 DEF MuninIndInv

\* The steps between the requests: start-up, the end, and Control-C there.
Between == mpc \notin {"count", "popped", "reset", "sendall"}

LEMMA ServersKeep ==
  ASSUME MuninIndInv, Between, Between',
         UNCHANGED <<threads, logentries, counters, taken, answers>>,
         interrupts' \in {interrupts, interrupts + 1},
         (Starting \/ Serving \/ Leaving)',
         muninserver' \in {"none", "idle", "serving", "shut"},
         udpserver' \in {"none", "idle", "serving", "shut"}
  PROVE  MuninIndInv'
<1> USE DEF threads, counters, taken, answers
<1>1. MuninTypeOK'
  BY DEF MuninIndInv, MuninTypeOK
<1>2. QueuedOnce'
  BY DEF MuninIndInv, QueuedOnce, Between
<1>3. CountedOnce'
  BY DEF MuninIndInv, CountedOnce, InHand, Errors, Warnings, Between
<1>4. Current'
  BY DEF MuninIndInv, Current, AnswersAreCurrent, Between
<1>5. NoneLost'
  <2>1. Cardinality(skipped) <= interrupts'
    <3>1. IsFiniteSet(skipped) /\ Cardinality(skipped) <= interrupts /\ interrupts \in Nat
      BY DEF MuninIndInv, MuninTypeOK, QueuedOnce, NoneLost
    <3>2. Cardinality(skipped) \in Nat
      BY <3>1, FS_CardinalityType
    <3>3. QED
      BY <3>1, <3>2
  <2>2. QED
    BY <2>1 DEF MuninIndInv, NoneLost, Queued
<1>6. QED
  BY <1>1, <1>2, <1>3, <1>4, <1>5 DEF MuninIndInv

LEMMA StartUpKeeps ==
  ASSUME MuninIndInv, StartUp \/ ShutdownMunin \/ ShutdownUdp \/ Quit
  PROVE  MuninIndInv'
<1>1. /\ Between /\ Between' /\ interrupts' = interrupts
      /\ UNCHANGED <<threads, logentries, counters, taken, answers>>
      /\ (Starting \/ Serving \/ Leaving)'
  BY DEF StartUp, CreateUdpServer, CreateMuninServer, StartSyslogThread, ServeForever,
    ShutdownMunin, ShutdownUdp, Quit, Between, Starting, Serving, Leaving
<1>2. /\ muninserver' \in {muninserver, "idle", "serving"}
      /\ udpserver' \in {udpserver, "idle", "serving", "shut"}
  BY DEF StartUp, CreateUdpServer, CreateMuninServer, StartSyslogThread, ServeForever,
    ShutdownMunin, ShutdownUdp, Quit, servers
<1>3. /\ muninserver' \in {"none", "idle", "serving", "shut"}
      /\ udpserver' \in {"none", "idle", "serving", "shut"}
  BY <1>2 DEF MuninIndInv, MuninTypeOK
<1>4. QED
  BY <1>1, <1>3, ServersKeep

LEMMA InterruptKeeps ==
  ASSUME MuninIndInv, Interrupt
  PROVE  MuninIndInv'
<1>1. interrupts' = interrupts + 1 /\ UNCHANGED <<threads, logentries, counters>>
  BY DEF Interrupt
<1>2. CASE InterruptHandler
  BY <1>1, <1>2, InterruptHandlerKeeps
<1>3. CASE InterruptStartUp \/ InterruptServing \/ InterruptFinally
  <2>1. /\ Between /\ Between' /\ UNCHANGED <<taken, answers>>
        /\ (Starting \/ Serving \/ Leaving)'
    BY <1>3 DEF InterruptStartUp, InterruptServing, InterruptFinally, Between, Starting,
      Serving, Leaving
  <2>2. muninserver' \in {muninserver, "shut"} /\ udpserver' = udpserver
    BY <1>3 DEF InterruptStartUp, InterruptServing, InterruptFinally, servers
  <2>3. /\ muninserver' \in {"none", "idle", "serving", "shut"}
        /\ udpserver' \in {"none", "idle", "serving", "shut"}
    BY <2>2 DEF MuninIndInv, MuninTypeOK
  <2>4. QED
    BY <1>1, <2>1, <2>3, ServersKeep
<1>4. QED
  BY <1>2, <1>3 DEF Interrupt

\* The inductive invariant, for any number of datagrams, size of the queue and
\* number of times Control-C is pressed.
THEOREM MuninInvariant == MuninSpec => []MuninIndInv
<1>1. MuninIndInv /\ [MuninNext]_muninVars => MuninIndInv'
  <2> SUFFICES ASSUME MuninIndInv, [MuninNext]_muninVars PROVE MuninIndInv'
    OBVIOUS
  <2>1. CASE MuninNext
    BY <2>1, ThreadsKeep, PutKeeps, GetEntryKeeps, CountEntryKeeps, HandlerKeeps,
      StartUpKeeps, InterruptKeeps
    DEF MuninNext, SyslogThread, Munin, Handler, HandlerStep
  <2>2. CASE UNCHANGED muninVars
    BY <2>2 DEF muninVars, threads, counters, taken, answers, servers, MuninIndInv,
      MuninTypeOK, Starting, Serving, Leaving, QueuedOnce, CountedOnce, InHand, NoneLost,
      Current, AnswersAreCurrent, Queued, Errors, Warnings
  <2>3. QED
    BY <2>1, <2>2
<1>2. QED
  BY InitMunin, <1>1, PTL DEF MuninSpec

\* MuninInv: types; every entry counted is counted once, in the counts or in one
\* answer, whatever the other threads put meanwhile; and none is lost but by
\* Control-C in a handler, one at most for each time it is pressed
\* (update_log_counts and MuninHandler.handle, lines 144-173).
THEOREM EntriesCountedOnce == MuninSpec => []MuninInv
<1>1. MuninIndInv => MuninInv
  BY DEF MuninIndInv, MuninInv
<1>2. QED
  BY MuninInvariant, <1>1, PTL

\* AnswersAreCurrent: an answer counts all that had been queued when it was
\* asked for (lines 163-175).
THEOREM AnswersUpToDate == MuninSpec => []AnswersAreCurrent
<1>1. MuninIndInv => AnswersAreCurrent
  BY DEF MuninIndInv, Current
<1>2. QED
  BY MuninInvariant, <1>1, PTL

------------------------------------------------------------------------------
(* The message dropper *)

\* Between Recv and the next Recv a message is in hand.
MessageInHand == pc # "recv"

\* The handler runs at most once per signal; a drop that is due comes from a
\* signal, and there is one while the main loop is dropping.
Signalled ==
  /\ handled + (IF pending THEN 1 ELSE 0) <= signals
  /\ DropsNoMoreThanSignalled
  /\ pc = "dec" => drop_frames >= 1
  /\ pc = "store" => register + 1 <= drop_frames

\* Messages wait in the order they were published, after the current one.
Waiting ==
  /\ published = current + Len(upstream)
  /\ \A i \in 1..Len(upstream) : upstream[i].id = current + i

\* Messages disposed of came before the one in hand.
Earlier(id) == id <= current /\ (MessageInHand => id < current)

Ordered ==
  /\ \A i \in 1..Len(forwarded) : Earlier(forwarded[i].id)
  /\ \A i \in 1..Len(dropped) : Earlier(dropped[i])
  /\ \A i, j \in 1..Len(forwarded) : i < j => forwarded[i].id < forwarded[j].id
  /\ \A i \in 1..Len(forwarded), j \in 1..Len(dropped) :
       forwarded[i].id # dropped[j]

\* A full message in hand fills the buffer.
Buffer ==
  MessageInHand =>
    /\ current >= 1 /\ rc > 0
    /\ rc = NUM_FRAMES_PER_ZMQ_MESSAGE => \A c \in Cells : eti[c] = current

DropInv ==
  TypeOK /\ Signalled /\ Waiting /\ Ordered /\ Buffer /\ FullMessagesIntact

LEMMA AppendOne ==
  ASSUME NEW S, NEW s \in Seq(S), NEW e \in S
  PROVE  /\ Append(s, e) \in Seq(S)
         /\ Len(Append(s, e)) = Len(s) + 1
         /\ \A i \in 1..(Len(s) + 1) :
              Append(s, e)[i] = IF i <= Len(s) THEN s[i] ELSE e
OBVIOUS

LEMMA ElementOf ==
  ASSUME NEW S, NEW s \in Seq(S)
  PROVE  Len(s) \in Nat /\ \A i \in 1..Len(s) : s[i] \in S
OBVIOUS

LEMMA HeadOff ==
  ASSUME NEW S, NEW s \in Seq(S), s # << >>
  PROVE  /\ Len(s) >= 1 /\ Head(s) = s[1]
         /\ Tail(s) \in Seq(S)
         /\ Len(Tail(s)) = Len(s) - 1
         /\ \A i \in 1..(Len(s) - 1) : Tail(s)[i] = s[i + 1]
OBVIOUS

\* What TypeOK says of the numbers that order messages.
LEMMA Numbers ==
  ASSUME TypeOK
  PROVE  /\ \A i \in 1..Len(forwarded) : forwarded[i].id \in 1..MaxMessages
         /\ \A i \in 1..Len(dropped) : dropped[i] \in 1..MaxMessages
         /\ \A i \in 1..Len(upstream) :
              upstream[i].id \in 1..MaxMessages /\ upstream[i].len \in Lengths
         /\ Len(forwarded) \in Nat /\ Len(dropped) \in Nat
         /\ Len(upstream) \in Nat
         /\ current \in Nat /\ published \in Nat /\ rc \in Nat
         /\ drop_frames \in Nat /\ handled \in Nat /\ signals \in Nat
         /\ register \in Nat
<1>1. /\ Len(forwarded) \in Nat
      /\ \A i \in 1..Len(forwarded) :
           forwarded[i] \in [id : 1..MaxMessages, len : Lengths,
                             eti : [Cells -> 0..MaxMessages]]
  BY ElementOf DEF TypeOK
<1>2. /\ Len(dropped) \in Nat
      /\ \A i \in 1..Len(dropped) : dropped[i] \in 1..MaxMessages
  BY ElementOf DEF TypeOK
<1>3. /\ Len(upstream) \in Nat
      /\ \A i \in 1..Len(upstream) :
           upstream[i] \in [id : 1..MaxMessages, len : Lengths]
  BY ElementOf DEF TypeOK
<1>4. /\ current \in Nat /\ published \in Nat /\ rc \in Nat
      /\ drop_frames \in Nat /\ handled \in Nat /\ signals \in Nat
      /\ register \in Nat
  BY DropperAssumption DEF TypeOK
<1>5. QED
  BY <1>1, <1>2, <1>3, <1>4

\* Of these, the numbers themselves.
LEMMA Sizes ==
  ASSUME TypeOK
  PROVE  /\ Len(forwarded) \in Nat /\ Len(dropped) \in Nat
         /\ Len(upstream) \in Nat
         /\ current \in Nat /\ published \in Nat /\ rc \in Nat
         /\ drop_frames \in Nat /\ handled \in Nat /\ signals \in Nat
         /\ register \in Nat
BY Numbers

LEMMA InitDrop == Init => DropInv
<1> SUFFICES ASSUME Init PROVE DropInv
  OBVIOUS
<1> USE DEF Init
<1>1. TypeOK
  <2>1. /\ 0 \in 0..MaxMessages /\ 0 \in 0..MaxSignals
        /\ eti \in [Cells -> 0..MaxMessages]
    BY DropperAssumption
  <2>2. upstream \in Seq([id : 1..MaxMessages, len : Lengths])
    OBVIOUS
  <2>3. /\ dropped \in Seq(1..MaxMessages)
        /\ forwarded \in Seq([id : 1..MaxMessages, len : Lengths,
                              eti : [Cells -> 0..MaxMessages]])
    OBVIOUS
  <2>4. QED
    BY <2>1, <2>2, <2>3 DEF TypeOK
<1> Len(upstream) = 0 /\ Len(dropped) = 0 /\ Len(forwarded) = 0
  OBVIOUS
<1>2. Signalled
  BY DEF Signalled, DropsNoMoreThanSignalled
<1>3. Waiting
  <2>1. published = current + Len(upstream)
    <3>1. current = 0 /\ published = 0
      OBVIOUS
    <3> HIDE DEF Init
    <3>2. QED
      BY <3>1
  <2>2. \A i \in 1..Len(upstream) : upstream[i].id = current + i
    <3>1. 1..Len(upstream) = {}
      OBVIOUS
    <3>2. QED
      BY <3>1
  <2>3. QED
    BY <2>1, <2>2 DEF Waiting
<1>4. Ordered
  BY DEF Ordered
<1>5. Buffer /\ FullMessagesIntact
  BY DEF Buffer, MessageInHand, FullMessagesIntact
<1>6. QED
  BY <1>1, <1>2, <1>3, <1>4, <1>5 DEF DropInv

\* What neither the sequences of messages nor the buffer are touched by.
LEMMA MessagesKept ==
  ASSUME DropInv, UNCHANGED <<upstream, published, rc, current, eti, dropped,
                              forwarded>>,
         MessageInHand' => MessageInHand
  PROVE  Waiting' /\ Ordered' /\ Buffer' /\ FullMessagesIntact'
BY DEF DropInv, Waiting, Ordered, Earlier, Buffer, FullMessagesIntact, Cells

LEMMA PublishKeeps ==
  ASSUME DropInv, NEW len \in Lengths, Publish(len)
  PROVE  DropInv'
<1> DEFINE m == [id |-> published + 1, len |-> len]
<1>1. /\ upstream' = Append(upstream, m)
      /\ published < MaxMessages /\ published' = published + 1
      /\ UNCHANGED <<signals, pending, handled, drop_frames, pc, register, rc,
                     current, eti, dropped, forwarded>>
  BY DEF Publish
<1>2. TypeOK
  BY DEF DropInv
<1>3. m \in [id : 1..MaxMessages, len : Lengths] /\ m.id = published + 1
  <2>1. published \in Nat
    BY <1>2, Sizes
  <2>2. published + 1 \in 1..MaxMessages
    BY <1>1, <2>1, DropperAssumption
  <2>3. QED
    BY <2>2
<1>4. upstream \in Seq([id : 1..MaxMessages, len : Lengths])
  BY <1>2 DEF TypeOK
<1> HIDE DEF m
<1>5. /\ upstream' \in Seq([id : 1..MaxMessages, len : Lengths])
      /\ Len(upstream') = Len(upstream) + 1
      /\ \A i \in 1..(Len(upstream) + 1) :
           upstream'[i] = IF i <= Len(upstream) THEN upstream[i] ELSE m
  BY <1>1, <1>3, <1>4, AppendOne
<1>6. published' \in 0..MaxMessages
  BY <1>1, <1>2, Numbers, DropperAssumption
<1>7. TypeOK'
  BY <1>1, <1>2, <1>5, <1>6 DEF TypeOK
<1>8. Signalled'
  BY <1>1 DEF DropInv, Signalled, DropsNoMoreThanSignalled
<1>9. Waiting'
  <2>1. Waiting
    BY DEF DropInv
  <2>2. published' = current' + Len(upstream')
    <3>1. published = current + Len(upstream)
      BY <2>1 DEF Waiting
    <3>2. /\ published' = published + 1 /\ current' = current
          /\ Len(upstream') = Len(upstream) + 1
      BY <1>1, <1>5
    <3>3. current \in Nat /\ Len(upstream) \in Nat
      BY <1>2, Sizes
    <3>4. \A c, n \in Nat : (c + n) + 1 = c + (n + 1)
      OBVIOUS
    <3>5. QED
      BY <3>1, <3>2, <3>3, <3>4
  <2>3. ASSUME NEW i \in 1..Len(upstream')
        PROVE  upstream'[i].id = current + i
    <3> i \in Nat /\ Len(upstream) \in Nat /\ current \in Nat
      BY <1>2, <1>5, Numbers
    <3>1. CASE i <= Len(upstream)
      <4>1. i \in 1..Len(upstream) /\ upstream'[i] = upstream[i]
        BY <3>1, <1>5
      <4>2. QED
        BY <4>1, <2>1 DEF Waiting
    <3>2. CASE i = Len(upstream) + 1
      <4>1. upstream'[i] = m
        BY <3>2, <1>5
      <4>2. m.id = current + i
        BY <3>2, <1>3, <2>1 DEF Waiting
      <4>3. QED
        BY <4>1, <4>2
    <3>3. QED
      BY <3>1, <3>2, <1>2, <1>5, Numbers
  <2>4. QED
    BY <2>2, <2>3, <1>1 DEF Waiting
<1>10. Ordered' /\ Buffer' /\ FullMessagesIntact'
  BY <1>1 DEF DropInv, Ordered, Earlier, MessageInHand, Buffer, FullMessagesIntact, Cells
<1>11. QED
  BY <1>7, <1>8, <1>9, <1>10 DEF DropInv

LEMMA SignalKeeps ==
  ASSUME DropInv, Signal \/ signalHandler
  PROVE  DropInv'
<1>1. TypeOK' /\ Signalled'
  <2>1. CASE Signal
    BY <2>1, DropperAssumption
    DEF Signal, DropInv, TypeOK, Signalled, DropsNoMoreThanSignalled
  <2>2. CASE signalHandler
    <3>1. /\ handled' = handled + 1 /\ drop_frames' = drop_frames + 1
          /\ handled' <= signals /\ signals \in 0..MaxSignals
          /\ drop_frames' <= handled'
      BY <2>2, Numbers
      DEF signalHandler, DropInv, TypeOK, Signalled, DropsNoMoreThanSignalled
    <3>2. handled' \in 0..MaxSignals /\ drop_frames' \in 0..MaxSignals
      BY <3>1, Numbers, DropperAssumption DEF DropInv
    <3> TypeOK'
      BY <2>2, <3>2 DEF signalHandler, DropInv, TypeOK
    <3>3. Signalled'
      <4>1. /\ ~pending' /\ signals' = signals
            /\ pc' = pc /\ register' = register /\ dropped' = dropped
        BY <2>2 DEF signalHandler
      <4>2. /\ handled \in Nat /\ drop_frames \in Nat /\ Len(dropped) \in Nat
            /\ register \in Nat
        BY Sizes DEF DropInv
      <4>3. /\ drop_frames + Len(dropped) <= handled
            /\ pc = "dec" => drop_frames >= 1
            /\ pc = "store" => register + 1 <= drop_frames
        BY DEF DropInv, Signalled, DropsNoMoreThanSignalled
      <4>4. DropsNoMoreThanSignalled'
        <5>1. \A d, n, h \in Nat : d + n <= h => (d + 1) + n <= h + 1
          OBVIOUS
        <5>2. QED
          BY <5>1, <3>1, <4>1, <4>2, <4>3 DEF DropsNoMoreThanSignalled
      <4>5. /\ pc' = "dec" => drop_frames' >= 1
            /\ pc' = "store" => register' + 1 <= drop_frames'
        BY <3>1, <4>1, <4>2, <4>3
      <4>6. handled' \in Nat
        BY <3>1, <4>2
      <4>7. QED
        BY <3>1, <4>1, <4>4, <4>5, <4>6 DEF Signalled
    <3>4. QED
      BY <3>3
  <2>3. QED
    BY <2>1, <2>2
<1>2. Waiting' /\ Ordered' /\ Buffer' /\ FullMessagesIntact'
  BY MessagesKept DEF Signal, signalHandler, MessageInHand
<1>3. QED
  BY <1>1, <1>2 DEF DropInv

LEMMA RecvKeeps ==
  ASSUME DropInv, Recv
  PROVE  DropInv'
<1> DEFINE m == Head(upstream)
<1>1. /\ Len(upstream) >= 1
      /\ m = upstream[1] /\ m.id = current + 1
      /\ m.id \in 1..MaxMessages /\ m.len \in Lengths
      /\ Len(upstream') = Len(upstream) - 1
      /\ \A i \in 1..Len(upstream') : upstream'[i] = upstream[i + 1]
      /\ upstream' \in Seq([id : 1..MaxMessages, len : Lengths])
  <2>1. upstream # << >> /\ upstream' = Tail(upstream)
    BY DEF Recv
  <2>2. upstream \in Seq([id : 1..MaxMessages, len : Lengths])
    BY DEF DropInv, TypeOK
  <2>3. /\ Len(upstream) >= 1 /\ m = upstream[1]
        /\ upstream' \in Seq([id : 1..MaxMessages, len : Lengths])
        /\ Len(upstream') = Len(upstream) - 1
        /\ \A i \in 1..(Len(upstream) - 1) : upstream'[i] = upstream[i + 1]
    BY <2>1, <2>2, HeadOff
  <2>4. upstream[1].id \in 1..MaxMessages /\ upstream[1].len \in Lengths
    BY <2>3, Numbers DEF DropInv
  <2>5. upstream[1].id = current + 1
    BY <2>3, Numbers DEF DropInv, Waiting
  <2>6. QED
    BY <2>3, <2>4, <2>5
<1>2. /\ rc' = m.len /\ current' = m.id
      /\ eti' = [i \in Cells |-> IF i <= m.len THEN m.id ELSE eti[i]]
      /\ pc' = IF m.len > 0 THEN "check" ELSE "recv"
      /\ UNCHANGED <<published, signals, pending, handled, drop_frames,
                     register, dropped, forwarded>>
  BY DEF Recv
<1> HIDE DEF m
<1>3. TypeOK'
  BY <1>1, <1>2, DropperAssumption DEF DropInv, TypeOK
<1>4. Signalled'
  BY <1>2 DEF DropInv, Signalled, DropsNoMoreThanSignalled
<1>5. Waiting'
  <2>1. Waiting /\ Len(upstream) \in Nat /\ current \in Nat
    BY Numbers DEF DropInv
  <2>2. published' = current' + Len(upstream')
    BY <2>1, <1>1, <1>2 DEF Waiting
  <2>3. ASSUME NEW i \in 1..Len(upstream')
        PROVE  upstream'[i].id = current' + i
    <3>1. i + 1 \in 1..Len(upstream)
      BY <1>1, <2>1
    <3>2. upstream[i + 1].id = current + (i + 1)
      BY <3>1, <2>1 DEF Waiting
    <3>3. QED
      BY <3>2, <1>1, <1>2, <2>1
  <2>4. QED
    BY <2>2, <2>3 DEF Waiting
<1>6. Ordered'
  <2>1. /\ \A i \in 1..Len(forwarded) : forwarded[i].id < current'
        /\ \A i \in 1..Len(dropped) : dropped[i] < current'
    <3>1. /\ \A i \in 1..Len(forwarded) : forwarded[i].id <= current
          /\ \A i \in 1..Len(dropped) : dropped[i] <= current
      BY DEF DropInv, Ordered, Earlier
    <3>2. current' = current + 1
      BY <1>1, <1>2
    <3>3. TypeOK
      BY DEF DropInv
    <3>4. /\ current \in Nat
          /\ \A i \in 1..Len(forwarded) : forwarded[i].id \in 1..MaxMessages
          /\ \A i \in 1..Len(dropped) : dropped[i] \in 1..MaxMessages
      BY <3>3, Numbers
    <3>5. \A x \in 1..MaxMessages : x <= current => x < current + 1
      BY <3>4, DropperAssumption
    <3>6. ASSUME NEW i \in 1..Len(forwarded)  PROVE forwarded[i].id < current'
      BY <3>1, <3>2, <3>4, <3>5, Zenon
    <3>7. ASSUME NEW i \in 1..Len(dropped)  PROVE dropped[i] < current'
      BY <3>1, <3>2, <3>4, <3>5, Zenon
    <3>8. QED
      BY <3>6, <3>7, Zenon
  <2>2. /\ \A i \in 1..Len(forwarded) : Earlier(forwarded[i].id)'
        /\ \A i \in 1..Len(dropped) : Earlier(dropped[i])'
    <3>1. forwarded' = forwarded /\ dropped' = dropped /\ current' \in Nat
      BY <1>1, <1>2
    <3>2. /\ \A i \in 1..Len(forwarded) : forwarded[i].id \in Nat
          /\ \A i \in 1..Len(dropped) : dropped[i] \in Nat
      <4>1. TypeOK
        BY DEF DropInv
      <4>2. 1..MaxMessages \subseteq Nat
        BY DropperAssumption
      <4>3. QED
        BY <4>1, <4>2, Numbers
    <3>3. \A n, k \in Nat : n < k => n <= k
      OBVIOUS
    <3>4. QED
      BY <2>1, <3>1, <3>2, <3>3, Zenon DEF Earlier
  <2>3. QED
    BY <2>2, <1>2 DEF DropInv, Ordered
<1>7. Buffer'
  <2>1. m.len \in Nat /\ m.id \in Nat /\ m.id >= 1
    <3>1. m.id \in 1..MaxMessages /\ m.len \in Lengths
      BY <1>1
    <3>2. m.len \in Nat
      BY <3>1, DropperAssumption
    <3>3. QED
      BY <3>1, <3>2
  <2>2. SUFFICES ASSUME m.len > 0
                 PROVE  Buffer'
    BY <1>2, <2>1 DEF Buffer, MessageInHand
  <2>3. m.len = NUM_FRAMES_PER_ZMQ_MESSAGE =>
          \A c \in Cells : eti'[c] = m.id
    BY <1>2, DropperAssumption DEF Cells
  <2>4. QED
    BY <1>2, <2>1, <2>2, <2>3 DEF Buffer
<1>8. FullMessagesIntact'
  BY <1>2 DEF DropInv, FullMessagesIntact
<1>9. QED
  BY <1>3, <1>4, <1>5, <1>6, <1>7, <1>8 DEF DropInv

LEMMA CheckKeeps ==
  ASSUME DropInv, Check \/ Load
  PROVE  DropInv'
<1>1. TypeOK' /\ Signalled'
  <2>1. CASE Check
    BY <2>1, DropperAssumption
    DEF Check, DropInv, TypeOK, Signalled, DropsNoMoreThanSignalled
  <2>2. CASE Load
    BY <2>2, DropperAssumption
    DEF Load, DropInv, TypeOK, Signalled, DropsNoMoreThanSignalled
  <2>3. QED
    BY <2>1, <2>2
<1>2. Waiting' /\ Ordered' /\ Buffer' /\ FullMessagesIntact'
  BY MessagesKept DEF Check, Load, MessageInHand
<1>3. QED
  BY <1>1, <1>2 DEF DropInv

\* The end of the decrement, in one instruction or in two.
LEMMA DropKeeps ==
  ASSUME DropInv, Decrement \/ Store
  PROVE  DropInv'
<1>1. /\ MessageInHand /\ pc' = "recv"
      /\ dropped' = Append(dropped, current)
      /\ UNCHANGED <<upstream, published, signals, pending, handled, register,
                     rc, current, eti, forwarded>>
  BY DEF Decrement, Store, MessageInHand
<1>2. TypeOK
  BY DEF DropInv
<1>3. drop_frames' \in Nat /\ drop_frames' + 1 <= drop_frames
  <2>1. CASE Decrement
    BY <2>1, <1>2, Numbers DEF Decrement, DropInv, Signalled
  <2>2. CASE Store
    BY <2>2, <1>2, Numbers DEF Store, DropInv, Signalled
  <2>3. QED
    BY <2>1, <2>2
<1>4. current \in 1..MaxMessages
  <2>1. current >= 1 /\ current \in 0..MaxMessages
    BY <1>1 DEF DropInv, Buffer, TypeOK
  <2>2. QED
    BY <2>1, DropperAssumption
<1>5. /\ dropped' \in Seq(1..MaxMessages)
      /\ Len(dropped') = Len(dropped) + 1
      /\ \A i \in 1..(Len(dropped) + 1) :
           dropped'[i] = IF i <= Len(dropped) THEN dropped[i] ELSE current
  <2>1. dropped \in Seq(1..MaxMessages)
    BY <1>2 DEF TypeOK
  <2>2. QED
    BY <2>1, <1>1, <1>4, AppendOne
<1>6. drop_frames' \in 0..MaxSignals
  <2>1. drop_frames \in 0..MaxSignals
    BY <1>2 DEF TypeOK
  <2>2. QED
    <3>1. \A x, y, n \in Nat : x + 1 <= y /\ y \in 0..n => x \in 0..n
      OBVIOUS
    <3>2. drop_frames' \in Nat /\ drop_frames \in Nat /\ MaxSignals \in Nat
      BY <1>2, <1>3, Sizes, DropperAssumption
    <3>3. QED
      BY <2>1, <1>3, <3>1, <3>2
<1>7. TypeOK'
  BY <1>1, <1>2, <1>5, <1>6 DEF TypeOK
<1>8. Signalled'
  <2>1. drop_frames + Len(dropped) <= handled
    BY DEF DropInv, Signalled, DropsNoMoreThanSignalled
  <2>2. drop_frames' + Len(dropped') <= handled'
    <3>1. /\ drop_frames' \in Nat /\ drop_frames' + 1 <= drop_frames
          /\ Len(dropped') = Len(dropped) + 1 /\ handled' = handled
      BY <1>1, <1>3, <1>5
    <3>2. drop_frames \in Nat /\ Len(dropped) \in Nat /\ handled \in Nat
      BY <1>2, Sizes
    <3>3. \A d, e, n, h \in Nat : d + 1 <= e /\ e + n <= h => d + (n + 1) <= h
      OBVIOUS
    <3>4. QED
      BY <2>1, <3>1, <3>2, <3>3
  <2>3. QED
    BY <2>2, <1>1 DEF DropInv, Signalled, DropsNoMoreThanSignalled
<1>9. Waiting'
  BY <1>1 DEF DropInv, Waiting
<1>10. Ordered'
  <2>1. /\ \A i \in 1..Len(forwarded) : forwarded[i].id < current
        /\ \A i \in 1..Len(dropped) : dropped[i] < current
    BY <1>1 DEF DropInv, Ordered, Earlier
  <2>2. ASSUME NEW i \in 1..Len(dropped')
        PROVE  \/ i \in 1..Len(dropped) /\ dropped'[i] = dropped[i]
               \/ dropped'[i] = current
    BY <1>2, <1>5, Numbers
  <2>3. /\ \A i \in 1..Len(forwarded) : forwarded[i].id <= current
        /\ \A i \in 1..Len(dropped') : dropped'[i] <= current
    <3>1. \A x, y \in Nat : x < y => x <= y
      OBVIOUS
    <3>2. \A i \in 1..Len(forwarded) : forwarded[i].id <= current
      BY <3>1, <2>1, <1>2, Numbers, DropperAssumption
    <3>3. \A i \in 1..Len(dropped) : dropped[i] <= current
      <4> SUFFICES ASSUME NEW i \in 1..Len(dropped)
                   PROVE  dropped[i] <= current
        OBVIOUS
      <4>1. dropped[i] \in 1..MaxMessages /\ current \in Nat
        BY <1>2, Numbers
      <4>2. dropped[i] < current
        BY <2>1
      <4>3. QED
        BY <4>1, <4>2, DropperAssumption
    <3>4. QED
      BY <2>2, <3>2, <3>3, <1>4
  <2>4. \A i \in 1..Len(forwarded), j \in 1..Len(dropped') :
          forwarded[i].id # dropped'[j]
    <3> SUFFICES ASSUME NEW i \in 1..Len(forwarded), NEW j \in 1..Len(dropped')
                 PROVE  forwarded[i].id # dropped'[j]
      OBVIOUS
    <3>1. CASE j \in 1..Len(dropped) /\ dropped'[j] = dropped[j]
      BY <3>1 DEF DropInv, Ordered
    <3>2. CASE dropped'[j] = current
      BY <3>2, <2>1, <1>2, Numbers
    <3>3. QED
      BY <3>1, <3>2, <2>2
  <2>5. \A i, j \in 1..Len(forwarded) : i < j => forwarded[i].id < forwarded[j].id
    BY DEF DropInv, Ordered
  <2>6. QED
    BY <2>3, <2>4, <2>5, <1>1 DEF Ordered, Earlier, MessageInHand
<1>11. Buffer' /\ FullMessagesIntact'
  BY <1>1 DEF DropInv, Buffer, MessageInHand, FullMessagesIntact
<1>12. QED
  BY <1>7, <1>8, <1>9, <1>10, <1>11 DEF DropInv

LEMMA SendKeeps ==
  ASSUME DropInv, Send
  PROVE  DropInv'
<1> DEFINE m == [id |-> current, len |-> rc, eti |-> eti]
           Sent == [id : 1..MaxMessages, len : Lengths,
                    eti : [Cells -> 0..MaxMessages]]
<1>1. /\ MessageInHand /\ pc' = "recv"
      /\ forwarded' = Append(forwarded, m)
      /\ UNCHANGED <<upstream, published, signals, pending, handled,
                     drop_frames, register, rc, current, eti, dropped>>
  BY DEF Send, MessageInHand
<1>2. TypeOK
  BY DEF DropInv
<1>3. current \in 1..MaxMessages /\ rc \in Lengths
  <2>1. /\ current >= 1 /\ current \in 0..MaxMessages
        /\ rc > 0 /\ rc \in Lengths \cup {0}
    BY <1>1 DEF DropInv, Buffer, TypeOK
  <2>2. QED
    BY <2>1, DropperAssumption
<1>4. m \in Sent /\ m.id = current /\ m.len = rc /\ m.eti = eti
  BY <1>2, <1>3 DEF TypeOK
<1> HIDE DEF m
<1>5. /\ forwarded' \in Seq(Sent)
      /\ Len(forwarded') = Len(forwarded) + 1
      /\ \A i \in 1..(Len(forwarded) + 1) :
           forwarded'[i] = IF i <= Len(forwarded) THEN forwarded[i] ELSE m
  <2>1. forwarded \in Seq(Sent)
    BY <1>2 DEF TypeOK
  <2> HIDE DEF Sent
  <2>2. QED
    BY <2>1, <1>1, <1>4, AppendOne
<1>6. TypeOK'
  BY <1>1, <1>2, <1>5 DEF TypeOK
<1> HIDE DEF Sent
<1>7. ASSUME NEW i \in 1..Len(forwarded')
      PROVE  \/ i \in 1..Len(forwarded) /\ forwarded'[i] = forwarded[i]
             \/ i = Len(forwarded) + 1 /\ forwarded'[i] = m
  BY <1>2, <1>5, Numbers
<1>8. Signalled'
  BY <1>1 DEF DropInv, Signalled, DropsNoMoreThanSignalled
<1>9. Waiting'
  BY <1>1 DEF DropInv, Waiting
<1>10. Ordered'
  <2>1. /\ \A i \in 1..Len(forwarded) : forwarded[i].id < current
        /\ \A i \in 1..Len(dropped) : dropped[i] < current
    BY <1>1 DEF DropInv, Ordered, Earlier
  <2>2. /\ \A i \in 1..Len(forwarded') : forwarded'[i].id <= current
        /\ \A i \in 1..Len(dropped) : dropped[i] <= current
    <3>1. \A x, y \in Nat : x < y => x <= y
      OBVIOUS
    <3>2. ASSUME NEW i \in 1..Len(forwarded')
          PROVE  forwarded'[i].id <= current
      <4>1. CASE i \in 1..Len(forwarded) /\ forwarded'[i] = forwarded[i]
        <5>1. forwarded[i].id \in 1..MaxMessages /\ current \in Nat
          BY <4>1, <1>2, Numbers
        <5>2. forwarded[i].id < current
          BY <4>1, <2>1
        <5>3. QED
          BY <4>1, <5>1, <5>2, DropperAssumption
      <4>2. CASE forwarded'[i] = m
        BY <4>2, <1>3, <1>4, DropperAssumption
      <4>3. QED
        BY <4>1, <4>2, <1>7
    <3>3. \A i \in 1..Len(dropped) : dropped[i] <= current
      <4> SUFFICES ASSUME NEW i \in 1..Len(dropped)
                   PROVE  dropped[i] <= current
        OBVIOUS
      <4>1. dropped[i] \in 1..MaxMessages /\ current \in Nat
        BY <1>2, Numbers
      <4>2. dropped[i] < current
        BY <2>1
      <4>3. QED
        BY <4>1, <4>2, DropperAssumption
    <3>4. QED
      BY <3>2, <3>3
  <2>3. \A i \in 1..Len(forwarded'), j \in 1..Len(dropped) :
          forwarded'[i].id # dropped[j]
    <3> SUFFICES ASSUME NEW i \in 1..Len(forwarded'), NEW j \in 1..Len(dropped)
                 PROVE  forwarded'[i].id # dropped[j]
      OBVIOUS
    <3>1. CASE i \in 1..Len(forwarded) /\ forwarded'[i] = forwarded[i]
      BY <3>1 DEF DropInv, Ordered
    <3>2. CASE forwarded'[i] = m
      BY <3>2, <2>1, <1>2, <1>4, Numbers
    <3>3. QED
      BY <3>1, <3>2, <1>7
  <2>4. \A i, j \in 1..Len(forwarded') :
          i < j => forwarded'[i].id < forwarded'[j].id
    <3> SUFFICES ASSUME NEW i \in 1..Len(forwarded'), NEW j \in 1..Len(forwarded'),
                        i < j
                 PROVE  forwarded'[i].id < forwarded'[j].id
      OBVIOUS
    <3>1. i \in 1..Len(forwarded) /\ forwarded'[i] = forwarded[i]
      BY <1>2, <1>5, <1>7, Numbers
    <3>2. CASE j \in 1..Len(forwarded) /\ forwarded'[j] = forwarded[j]
      BY <3>1, <3>2 DEF DropInv, Ordered
    <3>3. CASE forwarded'[j] = m
      BY <3>1, <3>3, <2>1, <1>4
    <3>4. QED
      BY <3>2, <3>3, <1>7
  <2>5. QED
    BY <2>2, <2>3, <2>4, <1>1 DEF Ordered, Earlier, MessageInHand
<1>11. Buffer'
  BY <1>1 DEF Buffer, MessageInHand
<1>12. FullMessagesIntact'
  <2> SUFFICES ASSUME NEW i \in 1..Len(forwarded'),
                      forwarded'[i].len = NUM_FRAMES_PER_ZMQ_MESSAGE
               PROVE  \A c \in Cells : forwarded'[i].eti[c] = forwarded'[i].id
    BY DEF FullMessagesIntact
  <2>1. CASE i \in 1..Len(forwarded) /\ forwarded'[i] = forwarded[i]
    BY <2>1 DEF DropInv, FullMessagesIntact
  <2>2. CASE forwarded'[i] = m
    BY <2>2, <1>1, <1>4 DEF DropInv, Buffer
  <2>3. QED
    BY <2>1, <2>2, <1>7
<1>13. QED
  BY <1>6, <1>8, <1>9, <1>10, <1>11, <1>12 DEF DropInv

\* Everything the properties need: DropInv holds whenever signals come.
THEOREM DropperInvariant == Spec => []DropInv
<1>1. DropInv /\ [Next]_vars => DropInv'
  <2> SUFFICES ASSUME DropInv, [Next]_vars PROVE DropInv'
    OBVIOUS
  <2>1. CASE Next
    BY <2>1, PublishKeeps, SignalKeeps, RecvKeeps, CheckKeeps, DropKeeps,
       SendKeeps DEF Next, MainLoop
  <2>2. CASE UNCHANGED vars
    <3>1. TypeOK' /\ Signalled'
      BY <2>2 DEF vars, DropInv, TypeOK, Signalled, DropsNoMoreThanSignalled
    <3>2. Waiting' /\ Ordered' /\ Buffer' /\ FullMessagesIntact'
      BY <2>2, MessagesKept DEF vars, MessageInHand
    <3>3. QED
      BY <3>1, <3>2 DEF DropInv
  <2>3. QED
    BY <2>1, <2>2
<1>2. QED
  BY InitDrop, <1>1, PTL DEF Spec

\* DropperInv: types, and no message is dropped without a signal, for any
\* number of both (signalHandler lines 23-29, main lines 100-128).
THEOREM DropsAreSignalled == Spec => []DropperInv
<1>1. DropInv => DropperInv
  BY DEF DropInv, Signalled, DropperInv
<1>2. QED
  BY DropperInvariant, <1>1, PTL

\* ForwardedInOrder: what is forwarded keeps its order and nothing is
\* forwarded twice, or dropped and forwarded, however signals interrupt the
\* loop (lines 101-114).
THEOREM MessagesInOrder == Spec => []ForwardedInOrder
<1>1. ASSUME DropInv PROVE ForwardedInOrder
  <2>1. /\ DOMAIN forwarded = 1..Len(forwarded)
        /\ DOMAIN dropped = 1..Len(dropped)
    BY <1>1 DEF DropInv, TypeOK
  <2>2. \A i \in DOMAIN forwarded, j \in DOMAIN dropped :
            forwarded[i].id # dropped[j]
    BY <1>1, <2>1, Zenon DEF DropInv, Ordered
  <2>3. Ids(forwarded) \cap ToSet(dropped) = {}
    BY <2>2 DEF Ids, ToSet
  <2>4. \A i, j \in 1..Len(forwarded) :
            i < j => forwarded[i].id < forwarded[j].id
    BY <1>1, Zenon DEF DropInv, Ordered
  <2>5. QED
    BY <2>3, <2>4, Zenon DEF ForwardedInOrder
<1>2. QED
  BY DropperInvariant, <1>1, PTL

\* FullMessagesIntact: a full message leaves as it came, whatever the buffer
\* held before (lines 101 and 108).
THEOREM FullMessagesForwarded == Spec => []FullMessagesIntact
<1>1. DropInv => FullMessagesIntact
  BY DEF DropInv
<1>2. QED
  BY DropperInvariant, <1>1, PTL
==============================================================================
