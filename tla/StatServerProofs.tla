--------------------------- MODULE StatServerProofs ---------------------------
(***************************************************************************)
(* Proofs about the statistics server: StatInv is an invariant of its      *)
(* threads, for any number of captures and of Control-C; bottle's router   *)
(* answers with the first rule that matches, for any paths, methods and    *)
(* number of groups in an expression; static_file tells a client the truth *)
(* for any edits of the file and any Range headers.                        *)
(***************************************************************************)
EXTENDS StatServer, Router, StaticFile, FiniteSetTheorems, SequenceTheorems, TLAPS

\* Inductive: in addition, while a page is made its request is there, so that
\* no other one is sent meanwhile.
IndStat == StatInv /\ (main \in Handling => request = "index")

LEMMA InitStat == Init => IndStat
<1> SUFFICES ASSUME Init PROVE IndStat
  OBVIOUS
<1> USE DEF Init, NotReady, NoFile, Free, NoRequest
<1>1. stats \in NotReady..MaxVersion /\ file \in NoFile..MaxVersion
  BY StatAssumption
<1>2. TypeOK
  <2>1. NotReady \in NotReady..MaxVersion /\ 0 \in 0..MaxInterrupts
    BY StatAssumption
  <2>2. QED
    BY <1>1, <2>1 DEF TypeOK
<1>3. LockHeld /\ stats <= file /\ AnswersAreFresh
  BY DEF LockHeld, LockLost, AnswersAreFresh
<1>4. QED
  BY <1>2, <1>3 DEF IndStat, StatInv, Handling

\* The collector changes stats, or the lock, only where it has it.
LEMMA CollectorKeeps ==
  ASSUME IndStat, CollectorProgram \/ CaptureEnds
  PROVE  IndStat'
<1> USE StatAssumption DEF IndStat, StatInv, TypeOK, LockHeld, LockLost,
      AnswersAreFresh, collectorVars, mainVars, NotReady, NoFile, Free,
      NoRequest, Handling, Requests
<1>1. CASE CheckStop
  BY <1>1 DEF CheckStop
<1>2. CASE CaptureEnds
  BY <1>2 DEF CaptureEnds
<1>3. CASE CollectorLocks
  BY <1>3 DEF CollectorLocks
<1>4. CASE Load
  BY <1>4 DEF Load
<1>5. CASE CollectorReleases
  BY <1>5 DEF CollectorReleases
<1>6. CASE Wake
  BY <1>6 DEF Wake
<1>7. QED
  BY <1>1, <1>2, <1>3, <1>4, <1>5, <1>6 DEF CollectorProgram

\* The main thread only reads stats, with the lock, or loses the lock to an
\* interrupt.
LEMMA MainKeeps ==
  ASSUME IndStat, MainProgram \/ Interrupt \/ \E r \in Requests : SendRequest(r)
  PROVE  IndStat'
<1> USE StatAssumption DEF IndStat, StatInv, TypeOK, LockHeld, LockLost,
      AnswersAreFresh, collectorVars, mainVars, NotReady, NoFile, Free,
      NoRequest, Handling, Requests
<1>1. CASE Serve
  BY <1>1 DEF Serve
<1>2. CASE Handle
  BY <1>2 DEF Handle
<1>3. CASE MainLocks
  BY <1>3 DEF MainLocks
<1>4. CASE ReadStats
  BY <1>4 DEF ReadStats
<1>5. CASE MainReleases
  BY <1>5 DEF MainReleases
<1>6. CASE Render
  BY <1>6 DEF Render
<1>7. CASE SetStop
  BY <1>7 DEF SetStop
<1>8. CASE Join
  BY <1>8 DEF Join
<1>9. CASE Interrupt
  BY <1>9 DEF Interrupt
<1>10. CASE \E r \in Requests : SendRequest(r)
  <2>1. /\ request' \in Requests /\ since' = stats
        /\ UNCHANGED <<collectorVars, main, page, interrupts, lock, stats,
                       event_stop>>
        /\ main \notin Handling
    BY <1>10 DEF SendRequest
  <2>2. QED
    BY <2>1
<1>11. QED
  BY <1>1, <1>2, <1>3, <1>4, <1>5, <1>6, <1>7, <1>8, <1>9, <1>10 DEF MainProgram

\* StatInv: for any number of captures, failed or not, clients and Control-C,
\* only an interrupt of getstats loses the lock, what is loaded is never
\* taken back, and no page is older than what was loaded when it was asked
\* for (StatCollector.run, getstats, index).
THEOREM StatisticsAreFresh == Spec => []StatInv
<1>1. IndStat /\ [Next]_vars => IndStat'
  <2> SUFFICES ASSUME IndStat, [Next]_vars PROVE IndStat'
    OBVIOUS
  <2>1. CASE Next
    BY <2>1, CollectorKeeps, MainKeeps DEF Next
  <2>2. CASE UNCHANGED vars
    BY <2>2 DEF vars, collectorVars, mainVars, IndStat, StatInv, TypeOK, LockHeld,
      LockLost, AnswersAreFresh
  <2>3. QED
    BY <2>1, <2>2
<1>2. IndStat => StatInv
  BY DEF IndStat
<1>3. QED
  BY InitStat, <1>1, <1>2, PTL DEF Spec

-------------------------------------------------------------------------------
(* Which index SelectInSeq finds                                             *)

\* Every nonempty set of numbers has a least element.
LEMMA HasMinimum ==
  ASSUME NEW S \in SUBSET Nat, S # {}
  PROVE  \E m \in S : \A x \in S : m <= x
<1> DEFINE Below == {0..m : m \in S}
<1>1. \A m \in S : 0..m \in FiniteSubsetsOf(Nat)
  BY FS_Interval DEF FiniteSubsetsOf
<1>2. Below \subseteq FiniteSubsetsOf(Nat) /\ Below # {}
  BY <1>1
<1>3. PICK I \in Below :
        \A J \in Below : ~(<<J, I>> \in StrictSubsetOrdering(Nat))
  <2> HIDE DEF Below
  <2>1. QED
    BY <1>2, FS_StrictSubsetOrderingWellFounded, WFMin
<1>4. PICK m \in S : I = 0..m
  OBVIOUS
<1>5. ASSUME NEW x \in S PROVE m <= x
  <2>1. SUFFICES ASSUME x < m PROVE FALSE
    OBVIOUS
  <2>2. 0..x \subseteq 0..m /\ 0..x # 0..m
    <3>1. m \in 0..m /\ m \notin 0..x
      BY <2>1
    <3>2. QED
      BY <2>1, <3>1
  <2>3. <<0..x, I>> \in StrictSubsetOrdering(Nat)
    BY <1>1, <1>4, <2>2 DEF StrictSubsetOrdering
  <2>4. QED
    BY <1>3, <2>3
<1>6. QED
  BY <1>5

First(indices) == IF indices # {} THEN Min(indices) ELSE 0

LEMMA FirstIndex ==
  ASSUME NEW n \in Nat, NEW I \in SUBSET (1..n)
  PROVE  /\ First(I) \in 0..n /\ (First(I) = 0 <=> I = {})
         /\ I # {} => First(I) \in I /\ \A i \in I : First(I) <= i
<1>1. CASE I = {}
  BY <1>1 DEF First
<1>2. CASE I # {}
  <2>1. I \in SUBSET Nat
    OBVIOUS
  <2>2. \E m \in I : \A x \in I : m <= x
    BY <1>2, <2>1, HasMinimum
  <2>3. Min(I) \in I /\ \A x \in I : Min(I) <= x
    BY <2>2 DEF Min
  <2>4. First(I) = Min(I) /\ Min(I) # 0
    BY <1>2, <2>3 DEF First
  <2>5. First(I) \in 0..n
    <3>1. Min(I) \in 1..n
      BY <2>3
    <3>2. QED
      BY <2>4, <3>1
  <2>6. First(I) \in I /\ \A i \in I : First(I) <= i
    BY <2>3, <2>4
  <2>7. QED
    BY <1>2, <2>4, <2>5, <2>6
<1>3. QED
  BY <1>1, <1>2

\* The alternatives of an expression that match a path.
Alternatives(expression, path) ==
  {i \in 1..Len(expression) : path \in expression[i].pattern}

LEMMA FirstInIs ==
  \A expression, path :
    FirstIn(expression, path) = First(Alternatives(expression, path))
BY DEF FirstIn, SelectInSeq, First, Alternatives

-------------------------------------------------------------------------------
(* The router: expressions of a limited number of groups                     *)

Rule == [pattern : Patterns, target : Nat]

\* n rules are cut into pieces of g, the last one of what is left.
CutInto(n, g, count) ==
  /\ count \in Nat
  /\ \A c \in 1..count : (c - 1) * g \in 0..(n - 1)
  /\ \A j \in 1..n : \E c \in 1..count, f \in 1..g : j = (c - 1) * g + f

LEMMA Pieces ==
  ASSUME NEW n \in Nat, NEW g \in Nat \ {0}, NEW count, count = (n + g - 1) \div g
  PROVE  CutInto(n, g, count)
<1>1. \A a \in Nat : a \div g \in Nat /\ g * (a \div g) <= a /\ a < g * (a \div g) + g
  OBVIOUS
<1>2. count \in Nat /\ g * count <= n + g - 1 /\ n + g - 1 < g * count + g
  <2>1. n + g - 1 \in Nat
    OBVIOUS
  <2>2. QED
    BY <1>1, <2>1
<1>3. ASSUME NEW c \in 1..count
      PROVE  (c - 1) * g \in 0..(n - 1)
  <2>1. PICK d \in Nat : d = count - c
    <3>1. count - c \in Nat
      BY <1>2
    <3>2. QED
      BY <3>1
  <2>2. g * count = g * (c - 1) + g * d + g
    <3>1. count = (c - 1) + d + 1
      BY <1>2, <2>1
    <3>2. \A b \in Nat : g * (b + d + 1) = g * b + g * d + g
      OBVIOUS
    <3>3. QED
      BY <3>1, <3>2
  <2>3. g * d \in Nat /\ g * (c - 1) \in Nat /\ (c - 1) * g = g * (c - 1)
    OBVIOUS
  <2>4. QED
    BY <1>2, <2>2, <2>3
<1>4. ASSUME NEW j \in 1..n
      PROVE  \E c \in 1..count, f \in 1..g : j = (c - 1) * g + f
  <2> DEFINE q == (j - 1) \div g
  <2>1. q \in Nat /\ g * q <= j - 1 /\ j - 1 < g * q + g
    BY <1>1
  <2> HIDE DEF q
  <2>2. g * q < g * count
    BY <1>2, <2>1
  <2>3. q < count
    <3>1. SUFFICES ASSUME count <= q PROVE FALSE
      BY <1>2, <2>1
    <3>2. PICK d \in Nat : q = count + d
      <4>1. q - count \in Nat /\ q = count + (q - count)
        BY <1>2, <2>1, <3>1
      <4>2. QED
        BY <4>1
    <3>3. g * q = g * count + g * d /\ g * d \in Nat
      BY <1>2, <3>2
    <3>4. QED
      BY <1>2, <2>1, <2>2, <3>3
  <2>4. j - g * q \in 1..g
    BY <2>1
  <2>5. (q + 1) - 1 = q /\ q * g = g * q /\ q + 1 \in 1..count
    BY <1>2, <2>1, <2>3
  <2>6. j = ((q + 1) - 1) * g + (j - g * q)
    BY <2>1, <2>5
  <2>7. QED
    BY <2>4, <2>5, <2>6
<1>5. QED
  BY <1>2, <1>3, <1>4 DEF CutInto

LEMMA Expressions ==
  ASSUME NEW rules \in Seq(Rule)
  PROVE  /\ Len(Compile(rules)) = (Len(rules) + MaxGroups - 1) \div MaxGroups
         /\ \A c \in 1..Len(Compile(rules)) :
              LET before == (c - 1) * MaxGroups
                  expression == Compile(rules)[c]
              IN /\ Len(expression) \in Nat
                 /\ \A f \in 1..Len(expression) :
                      before + f \in 1..Len(rules) /\ expression[f] = rules[before + f]
                 /\ Len(expression) <= MaxGroups
                 /\ \A f \in 1..MaxGroups :
                      before + f <= Len(rules) => f \in 1..Len(expression)
<1> DEFINE n == Len(rules)
           count == (n + MaxGroups - 1) \div MaxGroups
<1>1. n \in Nat /\ MaxGroups \in Nat \ {0}
  BY RouterAssumption DEF RouterAssumption
<1>2. count \in Nat /\ \A c \in 1..count : (c - 1) * MaxGroups \in 0..(n - 1)
  BY <1>1, Pieces DEF CutInto
<1>3. Len(Compile(rules)) = count /\ DOMAIN Compile(rules) = 1..count
  <2> HIDE DEF count
  <2>1. Compile(rules) = [c \in 1..count |->
          SubSeq(rules, (c - 1) * MaxGroups + 1,
                 IF c * MaxGroups < Len(rules) THEN c * MaxGroups ELSE Len(rules))]
    BY DEF Compile, count
  <2>2. QED
    BY <1>2, <2>1
<1>4. ASSUME NEW c \in 1..count
      PROVE  LET before == (c - 1) * MaxGroups
                 expression == Compile(rules)[c]
             IN /\ Len(expression) \in Nat
                /\ \A f \in 1..Len(expression) :
                     before + f \in 1..n /\ expression[f] = rules[before + f]
                /\ Len(expression) <= MaxGroups
                /\ \A f \in 1..MaxGroups :
                     before + f <= n => f \in 1..Len(expression)
  <2> DEFINE before == (c - 1) * MaxGroups
             last == IF c * MaxGroups < n THEN c * MaxGroups ELSE n
             expression == Compile(rules)[c]
  <2>1. expression = SubSeq(rules, before + 1, last)
    <3> HIDE DEF count
    <3>1. QED
      BY DEF Compile, count
  <2>2. before \in 0..(n - 1)
    BY <1>2
  <2>3. c * MaxGroups = before + MaxGroups
    <3>1. \A g \in Nat, b \in Int : (b + 1) * g = b * g + g
      OBVIOUS
    <3>2. c - 1 \in Int /\ c = (c - 1) + 1
      BY <1>2
    <3>3. QED
      BY <1>1, <3>1, <3>2
  <2> HIDE DEF before, expression
  <2>4. last \in before..n /\ last - before <= MaxGroups
        /\ (last < n => last = before + MaxGroups)
    BY <1>1, <2>2, <2>3
  <2> HIDE DEF last
  <2>5. before + 1 \in 1..(Len(rules) + 1) /\ last \in ((before + 1) - 1)..Len(rules)
    BY <1>1, <2>2, <2>4
  <2>6. /\ Len(expression) = IF before + 1 <= last THEN last - (before + 1) + 1 ELSE 0
        /\ \A i \in 1..(last - (before + 1) + 1) : expression[i] = rules[(before + 1) + i - 1]
    BY <2>1, <2>5, SubSeqProperties
  <2>7. Len(expression) = last - before
    BY <2>2, <2>4, <2>6
  <2>8. \A f \in 1..Len(expression) : before + f \in 1..n /\ expression[f] = rules[before + f]
    <3>1. SUFFICES ASSUME NEW f \in 1..Len(expression)
                   PROVE  before + f \in 1..n /\ expression[f] = rules[before + f]
      OBVIOUS
    <3>2. f \in 1..(last - (before + 1) + 1) /\ (before + 1) + f - 1 = before + f
      BY <1>1, <2>2, <2>4, <2>7
    <3>3. QED
      BY <1>1, <2>2, <2>4, <2>6, <2>7, <3>2
  <2>9. \A f \in 1..MaxGroups : before + f <= n => f \in 1..Len(expression)
    BY <1>1, <2>2, <2>4, <2>7
  <2>10. QED
    BY <1>1, <2>2, <2>4, <2>7, <2>8, <2>9 DEF before, expression
<1>5. QED
  BY <1>3, <1>4

\* The first rule of a list that matches a path.
FirstMatch(rules, path, j) ==
  /\ j \in 1..Len(rules) /\ path \in rules[j].pattern
  /\ \A l \in 1..(j - 1) : path \notin rules[l].pattern

\* The first expression that matches has the first rule that matches.
Finds(rules, path, expressions, matching) ==
  \/ /\ First(matching) = 0
     /\ \A j \in 1..Len(rules) : path \notin rules[j].pattern
  \/ \E c \in 1..Len(expressions) :
       /\ c = First(matching)
       /\ \E j \in 1..Len(rules) :
            /\ FirstMatch(rules, path, j)
            /\ expressions[c][FirstIn(expressions[c], path)] = rules[j]

LEMMA CompiledFinds ==
  ASSUME NEW rules \in Seq(Rule), NEW path,
         NEW expressions, expressions = Compile(rules),
         NEW matching,
         matching = {c \in 1..Len(expressions) : FirstIn(expressions[c], path) > 0}
  PROVE  Finds(rules, path, expressions, matching)
<1>1. Len(rules) \in Nat /\ MaxGroups \in Nat \ {0}
  BY RouterAssumption DEF RouterAssumption
<1>2. /\ Len(expressions) \in Nat
      /\ \A c \in 1..Len(expressions) : (c - 1) * MaxGroups \in 0..(Len(rules) - 1)
      /\ \A j \in 1..Len(rules) : \E c \in 1..Len(expressions), f \in 1..MaxGroups :
           j = (c - 1) * MaxGroups + f
  <2>1. Len(expressions) = (Len(rules) + MaxGroups - 1) \div MaxGroups
    BY Expressions
  <2>2. CutInto(Len(rules), MaxGroups, Len(expressions))
    BY <1>1, <2>1, Pieces
  <2>3. QED
    BY <2>2 DEF CutInto
<1>3. \A c \in 1..Len(expressions) :
        /\ Len(expressions[c]) \in Nat
        /\ \A f \in 1..Len(expressions[c]) :
             /\ (c - 1) * MaxGroups + f \in 1..Len(rules)
             /\ expressions[c][f] = rules[(c - 1) * MaxGroups + f]
        /\ Len(expressions[c]) <= MaxGroups
        /\ \A f \in 1..MaxGroups :
             (c - 1) * MaxGroups + f <= Len(rules) => f \in 1..Len(expressions[c])
  BY Expressions
<1>4. \A c \in 1..Len(expressions) :
        LET f == FirstIn(expressions[c], path)
            found == Alternatives(expressions[c], path)
        IN /\ f > 0 <=> found # {}
           /\ found # {} => f \in found /\ \A i \in found : f <= i
  <2>1. SUFFICES ASSUME NEW c \in 1..Len(expressions)
                 PROVE  LET f == FirstIn(expressions[c], path)
                            found == Alternatives(expressions[c], path)
                        IN /\ f > 0 <=> found # {}
                           /\ found # {} => f \in found /\ \A i \in found : f <= i
    OBVIOUS
  <2> DEFINE found == Alternatives(expressions[c], path)
  <2>2. found \in SUBSET (1..Len(expressions[c])) /\ Len(expressions[c]) \in Nat
    BY <1>3 DEF Alternatives
  <2>3. FirstIn(expressions[c], path) = First(found)
    BY FirstInIs
  <2> HIDE DEF found
  <2>4. /\ First(found) \in Nat /\ (First(found) = 0 <=> found = {})
        /\ found # {} => First(found) \in found /\ \A i \in found : First(found) <= i
    BY <2>2, FirstIndex
  <2>5. First(found) > 0 <=> found # {}
    BY <2>4
  <2>6. QED
    BY <2>3, <2>4, <2>5 DEF found
<1>5. matching \in SUBSET (1..Len(expressions))
  OBVIOUS
<1>6. /\ (First(matching) = 0 <=> matching = {})
      /\ matching # {} =>
           First(matching) \in matching /\ \A c \in matching : First(matching) <= c
  <2>1. PICK n \in Nat : n = Len(expressions)
    BY <1>2
  <2>2. matching \in SUBSET (1..n)
    BY <1>5, <2>1
  <2>3. QED
    BY <2>2, FirstIndex
\* What matches is in an expression that matches.
<1>7. ASSUME NEW j \in 1..Len(rules), path \in rules[j].pattern
      PROVE  \E c \in matching : \E f \in 1..Len(expressions[c]) :
               /\ j = (c - 1) * MaxGroups + f
               /\ f \in Alternatives(expressions[c], path)
  <2>1. PICK c \in 1..Len(expressions), f \in 1..MaxGroups : j = (c - 1) * MaxGroups + f
    BY <1>2
  <2>2. f \in 1..Len(expressions[c])
    BY <1>1, <1>3, <2>1
  <2>3. f \in Alternatives(expressions[c], path)
    BY <1>3, <1>7, <2>1, <2>2 DEF Alternatives
  <2>4. c \in matching
    BY <1>4, <2>3
  <2>5. QED
    BY <2>1, <2>2, <2>3, <2>4
<1>8. CASE matching = {}
  BY <1>6, <1>7, <1>8 DEF Finds
<1>9. CASE matching # {}
  <2>1. PICK c \in matching : c = First(matching) /\ \A d \in matching : c <= d
    BY <1>6, <1>9
  <2>2. c \in 1..Len(expressions) /\ FirstIn(expressions[c], path) > 0
    BY <2>1
  <2>3. PICK f \in Alternatives(expressions[c], path) :
          /\ f = FirstIn(expressions[c], path)
          /\ \A i \in Alternatives(expressions[c], path) : f <= i
    BY <1>4, <2>2
  <2>4. f \in 1..Len(expressions[c]) /\ path \in expressions[c][f].pattern
    BY <2>3 DEF Alternatives
  <2>5. PICK j \in 1..Len(rules) : j = (c - 1) * MaxGroups + f /\ expressions[c][f] = rules[j]
    BY <1>3, <2>2, <2>4
  <2>6. ASSUME NEW l \in 1..(j - 1), path \in rules[l].pattern
        PROVE  FALSE
    <3>1. l \in 1..Len(rules)
      BY <1>1
    <3>2. PICK d \in matching :
            \E i \in 1..Len(expressions[d]) :
              l = (d - 1) * MaxGroups + i /\ i \in Alternatives(expressions[d], path)
      BY <1>7, <2>6, <3>1
    <3>3. PICK i \in 1..Len(expressions[d]) :
            l = (d - 1) * MaxGroups + i /\ i \in Alternatives(expressions[d], path)
      BY <3>2
    <3>4. CASE d = c
      <4>1. f <= i
        BY <2>3, <3>3, <3>4
      <4>2. (c - 1) * MaxGroups \in Int /\ f \in Int /\ i \in Int
        BY <1>2, <1>3, <2>2, <2>4, <3>3, <3>4
      <4>3. QED
        BY <2>5, <3>3, <3>4, <4>1, <4>2
    \* The expression of f has MaxGroups rules at most before that of i.
    <3>5. CASE d # c
      <4>1. f <= MaxGroups
        BY <1>1, <1>3, <2>2, <2>4
      <4>2. PICK k \in Nat : d = c + k + 1
        <5>1. d - c - 1 \in Nat
          <6>1. d \in 1..Len(expressions) /\ c <= d
            BY <1>5, <2>1
          <6>2. QED
            BY <1>2, <2>2, <3>5, <6>1
        <5>2. d = c + (d - c - 1) + 1
          BY <1>2, <1>5, <2>2
        <5>3. QED
          BY <5>1, <5>2
      <4>3. (d - 1) * MaxGroups = (c - 1) * MaxGroups + k * MaxGroups + MaxGroups
        <5>1. \A a, b, g \in Nat : (a + b + 1) * g = a * g + b * g + g
          OBVIOUS
        <5>2. c - 1 \in Nat /\ d - 1 = (c - 1) + k + 1
          BY <1>2, <2>2, <4>2
        <5>3. QED
          BY <1>1, <4>2, <5>1, <5>2
      <4>4. k * MaxGroups \in Nat /\ (c - 1) * MaxGroups \in Nat /\ i \in Nat
        BY <1>1, <1>2, <1>3, <2>2, <3>3
      <4>5. l > j
        <5>1. PICK p \in Nat : p = (c - 1) * MaxGroups
          BY <4>4
        <5>2. PICK r \in Nat : r = k * MaxGroups
          BY <4>4
        <5>3. l = p + r + MaxGroups + i /\ j = p + f
          BY <2>5, <3>3, <4>3, <5>1, <5>2
        <5>4. f \in Nat /\ i \in Nat /\ i >= 1
          BY <1>3, <2>2, <2>4, <3>3, <4>4
        <5>5. QED
          BY <1>1, <4>1, <5>3, <5>4
      <4>6. QED
        BY <1>1, <4>5
    <3>6. QED
      BY <3>4, <3>5
  <2>7. FirstMatch(rules, path, j)
    BY <2>4, <2>5, <2>6 DEF FirstMatch
  <2>8. QED
    BY <2>1, <2>2, <2>3, <2>5, <2>7 DEF Finds
<1>10. QED
  BY <1>8, <1>9

-------------------------------------------------------------------------------
(* The router: the tables and the rules added                                *)

StaticRule(i, p, m) ==
  /\ i \in DOMAIN added /\ added[i].static
  /\ added[i].pattern = {p} /\ added[i].method = m

DynamicRule(i, pattern, m) ==
  /\ i \in DOMAIN added /\ ~added[i].static
  /\ added[i].pattern = pattern /\ added[i].method = m

RouterTypes ==
  /\ added \in Seq([static : BOOLEAN, pattern : Patterns, method : Methods])
  /\ static \in [Methods -> [Paths -> Nat]]
  /\ dyna_routes \in [Methods -> Seq(Rule)]
  /\ groups \in [Patterns \X Methods -> Nat]
  /\ dyna_regexes = [m \in Methods |-> Compile(dyna_routes[m])]

\* A static rule matches one path, and the table has the last one for it.
StaticTable ==
  /\ \A i \in DOMAIN added : added[i].static => \E p \in Paths : added[i].pattern = {p}
  /\ \A m \in Methods, p \in Paths :
       \/ static[m][p] = 0 /\ \A i \in DOMAIN added : ~StaticRule(i, p, m)
       \/ /\ StaticRule(static[m][p], p, m)
          /\ \A i \in DOMAIN added : StaticRule(i, p, m) => i <= static[m][p]

\* The index of a dynamic rule is its place in the list of its method.
GroupsIndex ==
  \A m \in Methods :
    /\ \A j \in 1..Len(dyna_routes[m]) : groups[<<dyna_routes[m][j].pattern, m>>] = j
    /\ \A pattern \in Patterns :
         \/ groups[<<pattern, m>>] = 0 /\ \A i \in DOMAIN added : ~DynamicRule(i, pattern, m)
         \/ /\ groups[<<pattern, m>>] \in 1..Len(dyna_routes[m])
            /\ dyna_routes[m][groups[<<pattern, m>>]].pattern = pattern

\* A rule of the list has the target of the last add() of its pattern.
LastTargets ==
  \A m \in Methods : \A j \in 1..Len(dyna_routes[m]) :
    LET rule == dyna_routes[m][j]
    IN /\ DynamicRule(rule.target, rule.pattern, m)
       /\ \A i \in DOMAIN added : DynamicRule(i, rule.pattern, m) => i <= rule.target

\* Patterns stand in the order in which they were first added.
FirstComeOrder ==
  \A m \in Methods : \A j, l \in 1..Len(dyna_routes[m]) :
    j < l => \E i \in DOMAIN added :
               /\ DynamicRule(i, dyna_routes[m][j].pattern, m)
               /\ \A k \in DOMAIN added :
                    DynamicRule(k, dyna_routes[m][l].pattern, m) => i < k

RouterInv ==
  RouterTypes /\ StaticTable /\ GroupsIndex /\ LastTargets /\ FirstComeOrder

LEMMA RouterInitial == RouterInit => RouterInv
<1> SUFFICES ASSUME RouterInit PROVE RouterInv
  OBVIOUS
<1>1. added = << >> /\ DOMAIN added = {} /\ \A m \in Methods : dyna_routes[m] = << >>
  BY DEF RouterInit
<1>2. RouterTypes
  <2>1. \A m \in Methods : Compile(dyna_routes[m]) = << >>
    <3>1. SUFFICES ASSUME NEW m \in Methods PROVE Compile(dyna_routes[m]) = << >>
      OBVIOUS
    <3>2. dyna_routes[m] = << >> /\ Len(dyna_routes[m]) = 0
      BY <1>1
    <3>3. MaxGroups \in Nat \ {0}
      BY RouterAssumption DEF RouterAssumption
    <3>4. (MaxGroups - 1) \div MaxGroups = 0
      <4>1. \A g \in Nat \ {0} : (g - 1) \div g = 0
        OBVIOUS
      <4>2. QED
        BY <3>3, <4>1
    <3>5. (Len(dyna_routes[m]) + MaxGroups - 1) \div MaxGroups = 0
      BY <3>2, <3>3, <3>4
    <3>6. QED
      BY <3>5 DEF Compile
  <2>2. dyna_regexes = [m \in Methods |-> Compile(dyna_routes[m])]
    BY <2>1 DEF RouterInit
  <2>3. QED
    BY <2>2 DEF RouterInit, RouterTypes, NoTarget
<1>3. StaticTable
  BY <1>1 DEF RouterInit, StaticTable, NoTarget
<1>4. GroupsIndex /\ LastTargets /\ FirstComeOrder
  BY <1>1 DEF RouterInit, GroupsIndex, LastTargets, FirstComeOrder
<1>5. QED
  BY <1>2, <1>3, <1>4 DEF RouterInv

\* add() appends its rule to the list of those added.
LEMMA Remembered ==
  ASSUME RouterTypes, NEW s \in BOOLEAN, NEW pattern \in Patterns, NEW m \in Methods,
         Remember(s, pattern, m)
  PROVE  /\ added' \in Seq([static : BOOLEAN, pattern : Patterns, method : Methods])
         /\ NewTarget \in Nat \ {0}
         /\ DOMAIN added = 1..(NewTarget - 1) /\ DOMAIN added' = 1..NewTarget
         /\ \A i \in DOMAIN added : added'[i] = added[i]
         /\ added'[NewTarget] = [static |-> s, pattern |-> pattern, method |-> m]
BY DEF RouterTypes, Remember, NewTarget

LEMMA StaticRulesAdded ==
  ASSUME RouterTypes, NEW p \in Paths, NEW m \in Methods, Remember(TRUE, {p}, m)
  PROVE  /\ \A i, q, n : StaticRule(i, q, n)' <=>
              StaticRule(i, q, n) \/ (i = NewTarget /\ q = p /\ n = m)
         /\ \A i, pattern, n : DynamicRule(i, pattern, n)' <=> DynamicRule(i, pattern, n)
<1>1. {p} \in Patterns /\ TRUE \in BOOLEAN
  BY DEF Patterns
<1>2. /\ NewTarget \in Nat \ {0}
      /\ DOMAIN added = 1..(NewTarget - 1) /\ DOMAIN added' = 1..NewTarget
      /\ \A i \in DOMAIN added : added'[i] = added[i]
      /\ added'[NewTarget] = [static |-> TRUE, pattern |-> {p}, method |-> m]
  BY <1>1, Remembered
<1>3. added'[NewTarget].static /\ added'[NewTarget].pattern = {p} /\ added'[NewTarget].method = m
  BY <1>2
<1>4. \A q : {p} = {q} <=> q = p
  OBVIOUS
<1>5. \A i : i \in DOMAIN added' <=> i \in DOMAIN added \/ i = NewTarget
  BY <1>2
<1>6. NewTarget \notin DOMAIN added
  BY <1>2
<1> HIDE DEF NewTarget
<1>7. QED
  BY <1>2, <1>3, <1>4, <1>5, <1>6 DEF StaticRule, DynamicRule

LEMMA DynamicRulesAdded ==
  ASSUME RouterTypes, NEW pattern \in Patterns, NEW m \in Methods,
         Remember(FALSE, pattern, m)
  PROVE  /\ \A i, q, n : DynamicRule(i, q, n)' <=>
              DynamicRule(i, q, n) \/ (i = NewTarget /\ q = pattern /\ n = m)
         /\ \A i, q, n : StaticRule(i, q, n)' <=> StaticRule(i, q, n)
<1>1. FALSE \in BOOLEAN
  OBVIOUS
<1>2. /\ NewTarget \in Nat \ {0}
      /\ DOMAIN added = 1..(NewTarget - 1) /\ DOMAIN added' = 1..NewTarget
      /\ \A i \in DOMAIN added : added'[i] = added[i]
      /\ added'[NewTarget] = [static |-> FALSE, pattern |-> pattern, method |-> m]
  BY <1>1, Remembered
<1>3. ~added'[NewTarget].static /\ added'[NewTarget].pattern = pattern /\ added'[NewTarget].method = m
  BY <1>2
<1>4. \A i : i \in DOMAIN added' <=> i \in DOMAIN added \/ i = NewTarget
  BY <1>2
<1>5. NewTarget \notin DOMAIN added
  BY <1>2
<1>6. QED
  BY <1>2, <1>3, <1>4, <1>5 DEF StaticRule, DynamicRule

\* The table after a step, entry by entry.
LEMMA StaticTableNext ==
  ASSUME \A i \in DOMAIN added' : added'[i].static => \E q \in Paths : added'[i].pattern = {q},
         \A n \in Methods, q \in Paths : \A t : t = static'[n][q] =>
           \/ t = 0 /\ \A i \in DOMAIN added' : ~StaticRule(i, q, n)'
           \/ /\ StaticRule(t, q, n)'
              /\ \A i \in DOMAIN added' : StaticRule(i, q, n)' => i <= t
  PROVE  StaticTable'
BY DEF StaticTable, StaticRule

LEMMA StaticKeeps ==
  ASSUME RouterInv, NEW p \in Paths, NEW m \in Methods, AddStatic(p, m)
  PROVE  RouterInv'
<1>1. RouterTypes /\ StaticTable /\ GroupsIndex /\ LastTargets /\ FirstComeOrder
  BY DEF RouterInv
<1>2. {p} \in Patterns /\ TRUE \in BOOLEAN
  BY DEF Patterns
<1>3. Remember(TRUE, {p}, m)
  BY DEF AddStatic
<1>4. /\ added' \in Seq([static : BOOLEAN, pattern : Patterns, method : Methods])
      /\ NewTarget \in Nat \ {0}
      /\ DOMAIN added = 1..(NewTarget - 1) /\ DOMAIN added' = 1..NewTarget
      /\ \A i \in DOMAIN added : added'[i] = added[i]
      /\ added'[NewTarget].static /\ added'[NewTarget].pattern = {p}
  <2>1. added'[NewTarget] = [static |-> TRUE, pattern |-> {p}, method |-> m]
    BY <1>1, <1>2, <1>3, Remembered
  <2>2. added'[NewTarget].static /\ added'[NewTarget].pattern = {p}
    BY <2>1
  <2>3. QED
    BY <1>1, <1>2, <1>3, <2>2, Remembered
<1>5. /\ \A i, q, n : StaticRule(i, q, n)' <=>
           StaticRule(i, q, n) \/ (i = NewTarget /\ q = p /\ n = m)
      /\ \A i, q, n : DynamicRule(i, q, n)' <=> DynamicRule(i, q, n)
  BY <1>1, <1>3, StaticRulesAdded
<1>6. /\ static' = [static EXCEPT ![m][p] = NewTarget]
      /\ UNCHANGED <<dyna_routes, groups, dyna_regexes>>
  BY DEF AddStatic
<1> HIDE DEF NewTarget
<1>7. RouterTypes'
  BY <1>1, <1>4, <1>6 DEF RouterTypes
<1>8. \A n \in Methods, q \in Paths :
        static'[n][q] = IF n = m /\ q = p THEN NewTarget ELSE static[n][q]
  BY <1>1, <1>6 DEF RouterTypes
<1>9. \A i \in DOMAIN added : i <= NewTarget
  BY <1>4
<1>10. \A i, q, n : StaticRule(i, q, n) \/ DynamicRule(i, q, n) => i \in DOMAIN added
  BY DEF StaticRule, DynamicRule
<1>11. StaticTable'
  <2>1. \A i \in DOMAIN added' : added'[i].static => \E q \in Paths : added'[i].pattern = {q}
    <3>1. SUFFICES ASSUME NEW i \in DOMAIN added', added'[i].static
                   PROVE  \E q \in Paths : added'[i].pattern = {q}
      OBVIOUS
    <3>2. CASE i = NewTarget
      BY <1>4, <3>2
    <3>3. CASE i \in DOMAIN added
      BY <1>1, <1>4, <3>1, <3>3 DEF StaticTable
    <3>4. QED
      BY <1>4, <3>2, <3>3
  <2>2. ASSUME NEW n \in Methods, NEW q \in Paths, NEW t, t = static'[n][q]
        PROVE  \/ t = 0 /\ \A i \in DOMAIN added' : ~StaticRule(i, q, n)'
               \/ /\ StaticRule(t, q, n)'
                  /\ \A i \in DOMAIN added' : StaticRule(i, q, n)' => i <= t
    <3>1. CASE n = m /\ q = p
      <4>1. t = NewTarget
        BY <1>8, <2>2, <3>1
      <4>2. StaticRule(t, q, n)'
        BY <1>5, <3>1, <4>1
      <4>3. \A i \in DOMAIN added' : i <= t
        BY <1>4, <4>1
      <4>4. QED
        BY <4>2, <4>3
    <3>2. CASE ~(n = m /\ q = p)
      <4>1. t = static[n][q]
        BY <1>8, <2>2, <3>2
      <4>2. \A i : StaticRule(i, q, n)' <=> StaticRule(i, q, n)
        BY <1>5, <3>2
      <4>3. \/ t = 0 /\ \A i \in DOMAIN added : ~StaticRule(i, q, n)
            \/ /\ StaticRule(t, q, n)
               /\ \A i \in DOMAIN added : StaticRule(i, q, n) => i <= t
        BY <1>1, <4>1 DEF StaticTable
      <4>4. QED
        BY <1>10, <4>2, <4>3
    <3>3. QED
      BY <3>1, <3>2
  <2>3. QED
    BY <2>1, <2>2, StaticTableNext
<1>12. GroupsIndex' /\ LastTargets' /\ FirstComeOrder'
  <2>1. GroupsIndex'
    <3>1. ASSUME NEW n \in Methods, NEW q, \A i \in DOMAIN added : ~DynamicRule(i, q, n)
          PROVE  \A i \in DOMAIN added' : ~DynamicRule(i, q, n)'
      BY <1>5, <1>10, <3>1
    <3>2. QED
      BY <1>1, <1>6, <3>1 DEF GroupsIndex
  <2>2. LastTargets'
    <3>1. ASSUME NEW n \in Methods, NEW j \in 1..Len(dyna_routes[n])
          PROVE  /\ DynamicRule(dyna_routes[n][j].target, dyna_routes[n][j].pattern, n)'
                 /\ \A i \in DOMAIN added' : DynamicRule(i, dyna_routes[n][j].pattern, n)' =>
                      i <= dyna_routes[n][j].target
      <4>1. PICK rule : rule = dyna_routes[n][j]
        OBVIOUS
      <4>2. /\ DynamicRule(rule.target, rule.pattern, n)
            /\ \A i \in DOMAIN added : DynamicRule(i, rule.pattern, n) => i <= rule.target
        BY <1>1, <4>1 DEF LastTargets
      <4>3. dyna_routes'[n][j] = rule
        BY <1>6, <4>1
      <4>4. QED
        BY <1>5, <1>6, <1>10, <4>1, <4>2, <4>3
    <3>2. QED
      BY <1>6, <3>1 DEF LastTargets
  <2>3. FirstComeOrder'
    <3>1. ASSUME NEW n \in Methods, NEW j \in 1..Len(dyna_routes[n]),
                 NEW l \in 1..Len(dyna_routes[n]), j < l
          PROVE  \E i \in DOMAIN added' :
                   /\ DynamicRule(i, dyna_routes[n][j].pattern, n)'
                   /\ \A k \in DOMAIN added' :
                        DynamicRule(k, dyna_routes[n][l].pattern, n)' => i < k
      <4>1. PICK i \in DOMAIN added :
              /\ DynamicRule(i, dyna_routes[n][j].pattern, n)
              /\ \A k \in DOMAIN added :
                   DynamicRule(k, dyna_routes[n][l].pattern, n) => i < k
        BY <1>1, <3>1 DEF FirstComeOrder
      <4>2. i \in DOMAIN added'
        BY <1>4
      <4>3. QED
        BY <1>5, <1>6, <1>10, <4>1, <4>2
    <3>2. QED
      BY <1>6, <3>1 DEF FirstComeOrder
  <2>4. QED
    BY <2>1, <2>2, <2>3
<1>13. QED
  BY <1>7, <1>11, <1>12 DEF RouterInv

\* A new rule is at its place k of the new list: that of its pattern, or the
\* end if the pattern is new.
Placed(rules, k, pattern, m) ==
  /\ rules \in Seq(Rule) /\ k \in 1..Len(rules)
  /\ dyna_routes' = [dyna_routes EXCEPT ![m] = rules]
  /\ groups' = [groups EXCEPT ![<<pattern, m>>] = k]
  /\ rules[k] = [pattern |-> pattern, target |-> NewTarget]
  /\ 1..Len(dyna_routes[m]) \subseteq 1..Len(rules)
  /\ \A j \in 1..Len(rules) : j # k =>
       /\ j \in 1..Len(dyna_routes[m])
       /\ rules[j] = dyna_routes[m][j] /\ rules[j].pattern # pattern
  /\ \/ k \in 1..Len(dyna_routes[m]) /\ dyna_routes[m][k].pattern = pattern
     \/ /\ k = Len(rules) /\ k \notin 1..Len(dyna_routes[m])
        /\ \A i \in DOMAIN added : ~DynamicRule(i, pattern, m)

LEMMA RulePlaced ==
  ASSUME RouterInv, NEW pattern \in Patterns, NEW m \in Methods,
         AddDynamic(pattern, m)
  PROVE  \E rules, k : Placed(rules, k, pattern, m)
<1> DEFINE old == dyna_routes[m]
           rule == [pattern |-> pattern, target |-> NewTarget]
           known == groups[<<pattern, m>>]
<1>1. RouterTypes /\ GroupsIndex
  BY DEF RouterInv
<1>2. old \in Seq(Rule) /\ Len(old) \in Nat /\ rule \in Rule /\ known \in Nat
  <2>1. Len(added) \in Nat
    BY <1>1 DEF RouterTypes
  <2>2. old \in Seq(Rule) /\ known \in Nat
    BY <1>1 DEF RouterTypes
  <2>3. rule \in Rule
    BY <2>1 DEF Rule, NewTarget
  <2>4. QED
    BY <2>2, <2>3
<1>3. /\ \A j \in 1..Len(old) : groups[<<old[j].pattern, m>>] = j
      /\ \/ known = 0 /\ \A i \in DOMAIN added : ~DynamicRule(i, pattern, m)
         \/ known \in 1..Len(old) /\ old[known].pattern = pattern
  BY <1>1 DEF GroupsIndex
<1>4. /\ dyna_routes' = [dyna_routes EXCEPT ![m] =
                           IF known > 0 THEN [old EXCEPT ![known] = rule]
                           ELSE Append(old, rule)]
      /\ groups' = [groups EXCEPT ![<<pattern, m>>] =
                      IF known > 0 THEN @
                      ELSE Len(IF known > 0 THEN [old EXCEPT ![known] = rule]
                               ELSE Append(old, rule))]
  BY DEF AddDynamic
<1>5. groups[<<pattern, m>>] = known
  OBVIOUS
<1>6. \A j \in 1..Len(old) : old[j].pattern = pattern => j = known
  BY <1>3
<1> HIDE DEF old, rule, known
<1>7. CASE known = 0
  <2>1. PICK rules : rules = Append(old, rule)
    OBVIOUS
  <2>2. /\ rules \in Seq(Rule) /\ Len(rules) = Len(old) + 1
        /\ \A j \in 1..Len(old) : rules[j] = old[j]
        /\ rules[Len(old) + 1] = rule
    BY <1>2, <2>1
  <2>3. /\ dyna_routes' = [dyna_routes EXCEPT ![m] = rules]
        /\ groups' = [groups EXCEPT ![<<pattern, m>>] = Len(rules)]
    BY <1>4, <1>7, <2>1
  <2>4. Len(rules) \in 1..Len(rules) /\ Len(rules) \notin 1..Len(old)
    BY <1>2, <2>2
  <2>5. \A j \in 1..Len(rules) : j # Len(rules) =>
          j \in 1..Len(old) /\ rules[j] = old[j] /\ rules[j].pattern # pattern
    BY <1>2, <1>6, <1>7, <2>2
  <2>6. 1..Len(old) \subseteq 1..Len(rules)
    BY <1>2, <2>2
  <2>7. \A i \in DOMAIN added : ~DynamicRule(i, pattern, m)
    BY <1>2, <1>3, <1>7
  <2>8. Placed(rules, Len(rules), pattern, m)
    BY <2>2, <2>3, <2>4, <2>5, <2>6, <2>7 DEF Placed, old, rule
  <2>9. QED
    BY <2>8
<1>8. CASE known # 0
  <2>1. PICK rules : rules = [old EXCEPT ![known] = rule]
    OBVIOUS
  <2>2. known \in 1..Len(old) /\ old[known].pattern = pattern
    BY <1>3, <1>8
  <2>3. /\ rules \in Seq(Rule) /\ Len(rules) = Len(old)
        /\ \A j \in 1..Len(old) : rules[j] = IF j = known THEN rule ELSE old[j]
    BY <1>2, <2>1, <2>2
  <2>4. dyna_routes' = [dyna_routes EXCEPT ![m] = rules]
    <3>1. known > 0
      BY <1>2, <1>8
    <3>2. QED
      BY <1>4, <2>1, <3>1
  <2>5. groups' = [groups EXCEPT ![<<pattern, m>>] = known]
    <3>1. known > 0
      BY <1>2, <1>8
    <3>2. QED
      BY <1>4, <1>5, <3>1
  <2>6. \A j \in 1..Len(rules) : j # known =>
          j \in 1..Len(old) /\ rules[j] = old[j] /\ rules[j].pattern # pattern
    BY <1>6, <2>3
  <2>7. 1..Len(old) \subseteq 1..Len(rules) /\ known \in 1..Len(rules) /\ rules[known] = rule
    BY <2>2, <2>3
  <2>8. Placed(rules, known, pattern, m)
    BY <2>2, <2>3, <2>4, <2>5, <2>6, <2>7 DEF Placed, old, rule
  <2>9. QED
    BY <2>8
<1>9. QED
  BY <1>7, <1>8

LEMMA DynamicKeeps ==
  ASSUME RouterInv, NEW pattern \in Patterns, NEW m \in Methods,
         AddDynamic(pattern, m)
  PROVE  RouterInv'
<1>1. RouterTypes /\ StaticTable /\ GroupsIndex /\ LastTargets /\ FirstComeOrder
  BY DEF RouterInv
<1>2. PICK rules, k : Placed(rules, k, pattern, m)
  BY RulePlaced
<1>3. Remember(FALSE, pattern, m) /\ UNCHANGED static
  BY DEF AddDynamic
<1>4. /\ added' \in Seq([static : BOOLEAN, pattern : Patterns, method : Methods])
      /\ NewTarget \in Nat \ {0}
      /\ DOMAIN added = 1..(NewTarget - 1) /\ DOMAIN added' = 1..NewTarget
      /\ \A i \in DOMAIN added : added'[i] = added[i]
      /\ ~added'[NewTarget].static
  <2>1. FALSE \in BOOLEAN
    OBVIOUS
  <2>2. added'[NewTarget] = [static |-> FALSE, pattern |-> pattern, method |-> m]
    BY <1>1, <1>3, <2>1, Remembered
  <2>3. ~added'[NewTarget].static
    BY <2>2
  <2>4. QED
    BY <1>1, <1>3, <2>1, <2>3, Remembered
<1>5. /\ \A i, q, n : DynamicRule(i, q, n)' <=>
           DynamicRule(i, q, n) \/ (i = NewTarget /\ q = pattern /\ n = m)
      /\ \A i, q, n : StaticRule(i, q, n)' <=> StaticRule(i, q, n)
  BY <1>1, <1>3, DynamicRulesAdded
<1>6. \A i, q, n : StaticRule(i, q, n) \/ DynamicRule(i, q, n) => i \in DOMAIN added
  BY DEF StaticRule, DynamicRule
<1>7. PICK new \in Nat : new = NewTarget
  BY <1>4
<1> HIDE DEF NewTarget
<1>8. /\ DOMAIN added \subseteq DOMAIN added' /\ new \in DOMAIN added'
      /\ \A i \in DOMAIN added : i \in Nat /\ i < new
      /\ \A i \in DOMAIN added' : i \in DOMAIN added \/ i = new
  BY <1>4, <1>7
<1>9. /\ dyna_routes'[m] = rules
      /\ \A n \in Methods : n # m => dyna_routes'[n] = dyna_routes[n]
      /\ groups'[<<pattern, m>>] = k
      /\ \A n \in Methods, q \in Patterns :
           (n # m \/ q # pattern) => groups'[<<q, n>>] = groups[<<q, n>>]
  <2>1. /\ dyna_routes'[m] = rules
        /\ \A n \in Methods : n # m => dyna_routes'[n] = dyna_routes[n]
    BY <1>1, <1>2 DEF RouterTypes, Placed
  <2>2. <<pattern, m>> \in Patterns \X Methods
    OBVIOUS
  <2>3. groups'[<<pattern, m>>] = k
    BY <1>1, <1>2, <2>2 DEF RouterTypes, Placed
  <2>4. ASSUME NEW n \in Methods, NEW q \in Patterns, n # m \/ q # pattern
        PROVE  groups'[<<q, n>>] = groups[<<q, n>>]
    <3>1. <<q, n>> \in Patterns \X Methods /\ <<q, n>> # <<pattern, m>>
      BY <2>4
    <3>2. QED
      BY <1>1, <1>2, <3>1 DEF RouterTypes, Placed
  <2>5. QED
    BY <2>1, <2>3, <2>4
<1>10. RouterTypes'
  <2>1. dyna_routes' \in [Methods -> Seq(Rule)]
    BY <1>1, <1>2 DEF RouterTypes, Placed
  <2>2. groups' \in [Patterns \X Methods -> Nat]
    BY <1>1, <1>2 DEF RouterTypes, Placed
  <2>3. dyna_regexes' = [n \in Methods |-> Compile(dyna_routes'[n])]
    <3>1. dyna_regexes' = [dyna_regexes EXCEPT ![m] = Compile(dyna_routes'[m])]
      <4>1. \E r : /\ dyna_routes' = [dyna_routes EXCEPT ![m] = r]
                   /\ dyna_regexes' = [dyna_regexes EXCEPT ![m] = Compile(r)]
        BY DEF AddDynamic
      <4>2. QED
        BY <1>1, <4>1 DEF RouterTypes
    <3>2. \A n \in Methods : n # m => Compile(dyna_routes'[n]) = Compile(dyna_routes[n])
      BY <1>9
    <3>3. dyna_regexes = [n \in Methods |-> Compile(dyna_routes[n])]
      BY <1>1 DEF RouterTypes
    <3>4. QED
      BY <3>1, <3>2, <3>3
  <2>4. QED
    <3>1. Compile(dyna_routes)' = Compile(dyna_routes')
      BY DEF Compile
    <3>2. QED
      BY <1>1, <1>3, <1>4, <2>1, <2>2, <2>3 DEF RouterTypes, Compile
<1>11. StaticTable'
  <2>1. \A i \in DOMAIN added' : added'[i].static => \E q \in Paths : added'[i].pattern = {q}
    BY <1>1, <1>4, <1>7, <1>8 DEF StaticTable
  <2>2. ASSUME NEW n \in Methods, NEW q \in Paths, NEW t, t = static'[n][q]
        PROVE  \/ t = 0 /\ \A i \in DOMAIN added' : ~StaticRule(i, q, n)'
               \/ /\ StaticRule(t, q, n)'
                  /\ \A i \in DOMAIN added' : StaticRule(i, q, n)' => i <= t
    <3>1. \/ t = 0 /\ \A i \in DOMAIN added : ~StaticRule(i, q, n)
          \/ /\ StaticRule(t, q, n)
             /\ \A i \in DOMAIN added : StaticRule(i, q, n) => i <= t
      BY <1>1, <1>3, <2>2 DEF StaticTable
    <3>2. QED
      BY <1>5, <1>6, <3>1
  <2>3. QED
    BY <2>1, <2>2, StaticTableNext
\* The rule at a place of the new list: the new one, or an old one of
\* another pattern.
<1>12. \A j \in 1..Len(rules) :
         \/ j = k /\ rules[j].pattern = pattern /\ rules[j].target = new
         \/ /\ j # k /\ j \in 1..Len(dyna_routes[m])
            /\ rules[j] = dyna_routes[m][j] /\ rules[j].pattern # pattern
  BY <1>2, <1>7 DEF Placed
<1>13. \A i, q, n : n # m \/ q # pattern =>
         (DynamicRule(i, q, n)' <=> DynamicRule(i, q, n))
  BY <1>5
<1>14. GroupsIndex'
  <2>1. ASSUME NEW n \in Methods, NEW j \in 1..Len(dyna_routes'[n])
        PROVE  groups'[<<dyna_routes'[n][j].pattern, n>>] = j
    <3>1. CASE n = m /\ j = k
      BY <1>9, <1>12, <2>1, <3>1
    <3>2. CASE n = m /\ j # k
      <4>1. j \in 1..Len(dyna_routes[m]) /\ rules[j] = dyna_routes[m][j] /\ rules[j].pattern # pattern
        BY <1>9, <1>12, <2>1, <3>2
      <4>2. rules[j].pattern \in Patterns
        <5>1. rules \in Seq(Rule) /\ j \in 1..Len(rules)
          BY <1>2, <1>9, <2>1, <3>2 DEF Placed
        <5>2. rules[j] \in Rule
          BY <5>1
        <5>3. QED
          BY <5>2 DEF Rule
      <4>3. groups[<<dyna_routes[m][j].pattern, m>>] = j
        BY <1>1, <4>1 DEF GroupsIndex
      <4>4. QED
        BY <1>9, <3>2, <4>1, <4>2, <4>3
    <3>3. CASE n # m
      <4>1. dyna_routes'[n] = dyna_routes[n]
        BY <1>9, <3>3
      <4>2. dyna_routes[n][j].pattern \in Patterns
        <5>1. dyna_routes[n] \in Seq(Rule) /\ j \in 1..Len(dyna_routes[n])
          BY <1>1, <2>1, <4>1 DEF RouterTypes
        <5>2. dyna_routes[n][j] \in Rule
          BY <5>1
        <5>3. QED
          BY <5>2 DEF Rule
      <4>3. groups[<<dyna_routes[n][j].pattern, n>>] = j
        BY <1>1, <2>1, <4>1 DEF GroupsIndex
      <4>4. QED
        BY <1>9, <3>3, <4>1, <4>2, <4>3
    <3>4. QED
      BY <3>1, <3>2, <3>3
  <2>2. ASSUME NEW n \in Methods, NEW q \in Patterns
        PROVE  \/ groups'[<<q, n>>] = 0 /\ \A i \in DOMAIN added' : ~DynamicRule(i, q, n)'
               \/ /\ groups'[<<q, n>>] \in 1..Len(dyna_routes'[n])
                  /\ dyna_routes'[n][groups'[<<q, n>>]].pattern = q
    <3>1. CASE n = m /\ q = pattern
      BY <1>2, <1>9, <1>12, <3>1 DEF Placed
    <3>2. CASE n # m \/ q # pattern
      <4>1. PICK g : g = groups[<<q, n>>]
        OBVIOUS
      <4>2. \/ g = 0 /\ \A i \in DOMAIN added : ~DynamicRule(i, q, n)
            \/ g \in 1..Len(dyna_routes[n]) /\ dyna_routes[n][g].pattern = q
        BY <1>1, <4>1 DEF GroupsIndex
      <4>3. groups'[<<q, n>>] = g
        BY <1>9, <3>2, <4>1
      <4>4. CASE g = 0 /\ \A i \in DOMAIN added : ~DynamicRule(i, q, n)
        BY <1>6, <1>13, <3>2, <4>3, <4>4
      <4>5. CASE g \in 1..Len(dyna_routes[n]) /\ dyna_routes[n][g].pattern = q
        <5>1. CASE n # m
          BY <1>9, <4>3, <4>5, <5>1
        <5>2. CASE n = m
          <6>1. q # pattern /\ g \in 1..Len(rules)
            BY <1>2, <3>2, <4>5, <5>2 DEF Placed
          <6>2. g # k
            BY <1>2, <4>5, <5>2, <6>1 DEF Placed
          <6>3. QED
            BY <1>9, <1>12, <4>3, <4>5, <5>2, <6>1, <6>2
        <5>3. QED
          BY <5>1, <5>2
      <4>6. QED
        BY <4>2, <4>4, <4>5
    <3>3. QED
      BY <3>1, <3>2
  <2>3. QED
    <3>1. \A n \in Methods, q \in Patterns :
            (\A i \in DOMAIN added' : ~DynamicRule(i, q, n)') <=> (\A i \in DOMAIN added : ~DynamicRule(i, q, n))'
      OBVIOUS
    <3>2. QED
      BY <2>1, <2>2, <3>1 DEF GroupsIndex
<1>15. LastTargets'
  <2>1. ASSUME NEW n \in Methods, NEW j \in 1..Len(dyna_routes'[n]),
               NEW rule, rule = dyna_routes'[n][j]
        PROVE  /\ DynamicRule(rule.target, rule.pattern, n)'
               /\ \A i \in DOMAIN added' : DynamicRule(i, rule.pattern, n)' => i <= rule.target
    <3>1. CASE n = m /\ j = k
      <4>1. rule.pattern = pattern /\ rule.target = new
        BY <1>9, <1>12, <2>1, <3>1
      <4>2. DynamicRule(rule.target, rule.pattern, n)'
        BY <1>5, <1>7, <3>1, <4>1
      <4>3. \A i \in DOMAIN added' : i <= rule.target
        BY <1>8, <4>1
      <4>4. QED
        BY <4>2, <4>3
    <3>2. CASE n # m \/ j # k
      <4>1. j \in 1..Len(dyna_routes[n]) /\ rule = dyna_routes[n][j]
            /\ (n # m \/ rule.pattern # pattern)
        BY <1>9, <1>12, <2>1, <3>2
      <4>2. /\ DynamicRule(rule.target, rule.pattern, n)
            /\ \A i \in DOMAIN added : DynamicRule(i, rule.pattern, n) => i <= rule.target
        BY <1>1, <4>1 DEF LastTargets
      <4>3. \A i : DynamicRule(i, rule.pattern, n)' <=> DynamicRule(i, rule.pattern, n)
        BY <1>13, <4>1
      <4>4. QED
        BY <1>6, <4>2, <4>3
    <3>3. QED
      BY <3>1, <3>2
  <2>2. QED
    BY <2>1 DEF LastTargets, DynamicRule
<1>16. FirstComeOrder'
  <2>1. ASSUME NEW n \in Methods, NEW j \in 1..Len(dyna_routes'[n]),
               NEW l \in 1..Len(dyna_routes'[n]), j < l,
               NEW first, first = dyna_routes'[n][j].pattern,
               NEW second, second = dyna_routes'[n][l].pattern
        PROVE  \E i \in DOMAIN added' :
                 /\ DynamicRule(i, first, n)'
                 /\ \A d \in DOMAIN added' : DynamicRule(d, second, n)' => i < d
    \* The place k is in the old list, with the old pattern.
    <3>1. CASE /\ j \in 1..Len(dyna_routes[n]) /\ first = dyna_routes[n][j].pattern
               /\ l \in 1..Len(dyna_routes[n]) /\ second = dyna_routes[n][l].pattern
      <4>1. PICK i \in DOMAIN added :
              /\ DynamicRule(i, first, n)
              /\ \A d \in DOMAIN added : DynamicRule(d, second, n) => i < d
        BY <1>1, <2>1, <3>1 DEF FirstComeOrder
      <4>2. i \in DOMAIN added' /\ i < new
        BY <1>8
      <4>3. DynamicRule(i, first, n)'
        BY <1>5, <4>1
      <4>4. ASSUME NEW d \in DOMAIN added', DynamicRule(d, second, n)'
            PROVE  i < d
        BY <1>5, <1>6, <1>7, <4>1, <4>2, <4>4
      <4>5. QED
        BY <4>2, <4>3, <4>4
    \* The new rule is at the end, and is the only one of its pattern.
    <3>2. CASE /\ n = m /\ l = k /\ j \in 1..Len(dyna_routes[m])
               /\ first = dyna_routes[m][j].pattern
               /\ \A d \in DOMAIN added : ~DynamicRule(d, pattern, m)
      <4>1. second = pattern
        BY <1>9, <1>12, <2>1, <3>2
      <4>2. PICK i : i = dyna_routes[m][j].target
        OBVIOUS
      <4>3. DynamicRule(i, first, m)
        BY <1>1, <3>2, <4>2 DEF LastTargets
      <4>4. i \in DOMAIN added' /\ i < new /\ DynamicRule(i, first, n)'
        BY <1>5, <1>6, <1>8, <3>2, <4>3
      <4>5. \A d \in DOMAIN added' : DynamicRule(d, second, n)' => d = new
        BY <1>5, <1>6, <1>7, <3>2, <4>1
      <4>6. QED
        BY <4>4, <4>5
    <3>3. QED
      <4>1. CASE n # m
        BY <1>9, <2>1, <3>1, <4>1
      <4>2. CASE n = m
        <5>1. dyna_routes'[n] = rules /\ Len(rules) \in Nat
          BY <1>9, <4>2
        <5>2. CASE k \in 1..Len(dyna_routes[m]) /\ dyna_routes[m][k].pattern = pattern
          BY <1>12, <2>1, <3>1, <4>2, <5>1, <5>2
        <5>3. CASE /\ k = Len(rules) /\ k \notin 1..Len(dyna_routes[m])
                   /\ \A i \in DOMAIN added : ~DynamicRule(i, pattern, m)
          <6>1. j # k
            BY <2>1, <5>1, <5>3
          <6>2. j \in 1..Len(dyna_routes[m]) /\ first = dyna_routes[m][j].pattern
            BY <1>12, <2>1, <5>1, <6>1
          <6>3. CASE l = k
            BY <3>2, <4>2, <5>3, <6>2, <6>3
          <6>4. CASE l # k
            BY <1>12, <2>1, <3>1, <4>2, <5>1, <6>2, <6>4
          <6>5. QED
            BY <6>3, <6>4
        <5>4. QED
          BY <1>2, <5>2, <5>3 DEF Placed
      <4>3. QED
        BY <4>1, <4>2
  <2>2. QED
    BY <2>1 DEF FirstComeOrder, DynamicRule
<1>17. QED
  BY <1>10, <1>11, <1>14, <1>15, <1>16 DEF RouterInv

\* RouterInv, the inductive invariant of the router: whatever rules were added
\* and requests compiled the expressions, the static table holds the last target
\* of each static rule, groups points to the place of each dynamic one in its
\* method's list, and that list has each pattern once, in the order of the first
\* additions, with the target added last (Router.add and _compile, 318-399).
THEOREM RouterInvariant == RouterSpec => []RouterInv
<1>1. RouterInit => RouterInv
  BY RouterInitial
<1>2. RouterInv /\ [RouterNext]_routerVars => RouterInv'
  <2> SUFFICES ASSUME RouterInv, [RouterNext]_routerVars PROVE RouterInv'
    OBVIOUS
  <2>1. CASE RouterNext
    <3>1. PICK m \in Methods : \/ \E p \in Paths : AddStatic(p, m)
                               \/ \E pattern \in Patterns : AddDynamic(pattern, m)
      BY <2>1 DEF RouterNext
    <3>2. QED
      BY <3>1, StaticKeeps, DynamicKeeps
  <2>2. CASE UNCHANGED routerVars
    <3> USE <2>2 DEF routerVars, StaticRule, DynamicRule
    <3>1. RouterTypes'
      BY DEF RouterInv, RouterTypes, Compile
    <3>2. StaticTable' /\ GroupsIndex'
      BY DEF RouterInv, StaticTable, GroupsIndex
    <3>3. LastTargets'
      BY DEF RouterInv, LastTargets
    <3>4. FirstComeOrder'
      BY DEF RouterInv, FirstComeOrder
    <3>5. QED
      BY <3>1, <3>2, <3>3, <3>4 DEF RouterInv
  <2>3. QED
    BY <2>1, <2>2
<1>3. QED
  BY <1>1, <1>2, PTL DEF RouterSpec

-------------------------------------------------------------------------------
(* The router: the first rule that matches                                   *)

\* CHOOSE finds what exists, the least or the greatest index.
LEMMA Leftmost ==
  ASSUME NEW S \in SUBSET Nat, NEW a \in S, \A x \in S : a <= x
  PROVE  (CHOOSE i \in S : \A j \in S : i <= j) = a
<1>1. \A i \in S : (\A j \in S : i <= j) => i = a
  OBVIOUS
<1>2. QED
  BY <1>1

LEMMA Rightmost ==
  ASSUME NEW S \in SUBSET Nat, NEW a \in S, \A x \in S : x <= a
  PROVE  (CHOOSE i \in S : \A j \in S : j <= i) = a
<1>1. \A i \in S : (\A j \in S : j <= i) => i = a
  OBVIOUS
<1>2. QED
  BY <1>1

\* The first rule is t, if t is the last one with the pattern of the first one
\* of the pool.
LEMMA FirstRuleIs ==
  ASSUME NEW method, NEW path, NEW pool \in SUBSET Nat, NEW a \in pool, NEW t \in pool,
         LET cands == Candidates(method, path)
             statics == {i \in cands : added[i].static}
         IN cands # {} /\ pool = IF statics # {} THEN statics ELSE cands,
         \A x \in pool : a <= x,
         SamePattern(t, a) /\ added[t].method = added[a].method,
         \A x \in pool : SamePattern(x, a) => x <= t
  PROVE  FirstRule(method, path) = t
<1> DEFINE statics == {i \in Candidates(method, path) : added[i].static}
           same == {j \in pool : SamePattern(j, a) /\ added[j].method = added[a].method}
<1>1. (CHOOSE i \in pool : \A j \in pool : i <= j) = a
  BY Leftmost
<1>2. (CHOOSE j \in same : \A k \in same : k <= j) = t
  <2>1. same \in SUBSET Nat /\ t \in same /\ \A x \in same : x <= t
    OBVIOUS
  <2> HIDE DEF same
  <2>2. QED
    BY <2>1, Rightmost
<1>3. QED
  BY <1>1, <1>2 DEF FirstRule

LEMMA DynamicAnswers ==
  ASSUME RouterInv, NEW m \in Methods, NEW path
  PROVE  \/ /\ MatchDynamic(m, path) = NoTarget
            /\ \A j \in 1..Len(dyna_routes[m]) : path \notin dyna_routes[m][j].pattern
         \/ \E j \in 1..Len(dyna_routes[m]) :
              /\ FirstMatch(dyna_routes[m], path, j)
              /\ MatchDynamic(m, path) = dyna_routes[m][j].target
<1> DEFINE rules == dyna_routes[m]
           expressions == dyna_regexes[m]
           matching == {c \in 1..Len(expressions) : FirstIn(expressions[c], path) > 0}
           found == SelectInSeq(expressions, LAMBDA expression : FirstIn(expression, path) > 0)
<1>1. rules \in Seq(Rule) /\ expressions = Compile(rules)
  BY DEF RouterInv, RouterTypes
<1>2. found = First(matching)
  BY DEF SelectInSeq, First
<1>3. MatchDynamic(m, path) =
        IF found = 0 THEN NoTarget
        ELSE expressions[found][FirstIn(expressions[found], path)].target
  BY DEF MatchDynamic
<1> HIDE DEF found
<1>4. \/ /\ First(matching) = 0
         /\ \A j \in 1..Len(rules) : path \notin rules[j].pattern
      \/ \E c \in 1..Len(expressions) :
           /\ c = First(matching)
           /\ \E j \in 1..Len(rules) :
                /\ FirstMatch(rules, path, j)
                /\ expressions[c][FirstIn(expressions[c], path)] = rules[j]
  <2>1. matching = {c \in 1..Len(expressions) : FirstIn(expressions[c], path) > 0}
    OBVIOUS
  <2> HIDE DEF rules, expressions, matching
  <2>2. Finds(rules, path, expressions, matching)
    BY <1>1, <2>1, CompiledFinds
  <2>3. QED
    BY <2>2 DEF Finds
<1>5. CASE First(matching) = 0
  BY <1>2, <1>3, <1>4, <1>5
<1>6. CASE First(matching) # 0
  <2>1. PICK c \in 1..Len(expressions) :
          /\ c = First(matching)
          /\ \E j \in 1..Len(rules) :
               /\ FirstMatch(rules, path, j)
               /\ expressions[c][FirstIn(expressions[c], path)] = rules[j]
    BY <1>4, <1>6
  <2>2. MatchDynamic(m, path) = expressions[c][FirstIn(expressions[c], path)].target
    BY <1>2, <1>3, <1>6, <2>1
  <2>3. QED
    BY <2>1, <2>2
<1>7. QED
  BY <1>5, <1>6

\* A method answers with its first rule, and with none only if it has none.
LEMMA MethodAnswers ==
  ASSUME RouterInv, NEW m, NEW path \in Paths
  PROVE  /\ MatchMethod(m, path) = FirstRule(m, path)
         /\ FirstRule(m, path) # NoTarget <=> Candidates(m, path) # {}
<1> DEFINE cands == Candidates(m, path)
           statics == {i \in cands : added[i].static}
<1>1. RouterTypes /\ StaticTable /\ GroupsIndex /\ LastTargets /\ FirstComeOrder
  BY DEF RouterInv
<1>2. /\ DOMAIN added \in SUBSET (Nat \ {0})
      /\ \A i \in DOMAIN added : /\ added[i].static \in BOOLEAN
                                 /\ added[i].pattern \in Patterns
                                 /\ added[i].method \in Methods
  <2>1. /\ DOMAIN added \in SUBSET (Nat \ {0})
        /\ \A i \in DOMAIN added :
             added[i] \in [static : BOOLEAN, pattern : Patterns, method : Methods]
    <3>1. added \in Seq([static : BOOLEAN, pattern : Patterns, method : Methods])
      BY <1>1 DEF RouterTypes
    <3>2. \A R : added \in Seq(R) =>
            DOMAIN added \in SUBSET (Nat \ {0}) /\ \A i \in DOMAIN added : added[i] \in R
      OBVIOUS
    <3>3. QED
      BY <3>1, <3>2, Zenon
  <2>2. QED
    BY <2>1
<1>3. /\ cands \in SUBSET (Nat \ {0}) /\ cands \in SUBSET Nat
      /\ \A i : i \in cands <=>
           i \in DOMAIN added /\ added[i].method = m /\ path \in added[i].pattern
  BY <1>2 DEF Candidates
<1>4. cands = {} => FirstRule(m, path) = NoTarget
  BY DEF FirstRule
<1>5. CASE m \notin Methods
  <2>1. cands = {}
    BY <1>2, <1>3, <1>5
  <2>2. QED
    BY <1>4, <1>5, <2>1 DEF MatchMethod
<1>6. CASE m \in Methods /\ static[m][path] # NoTarget
  <2>1. PICK t : t = static[m][path]
    OBVIOUS
  <2>2. /\ StaticRule(t, path, m)
        /\ \A i \in DOMAIN added : StaticRule(i, path, m) => i <= t
    BY <1>1, <1>6, <2>1 DEF StaticTable, NoTarget
  <2>3. t \in statics
    BY <1>3, <2>2 DEF StaticRule
  <2>4. \A i \in statics : StaticRule(i, path, m)
    BY <1>1, <1>3 DEF StaticTable, StaticRule
  <2>5. \A i, j \in statics : SamePattern(i, j) /\ added[i].method = added[j].method
    BY <1>2, <1>3, <2>4 DEF SamePattern, StaticRule
  <2>6. \A i \in statics : i <= t
    BY <1>3, <2>2, <2>4
  <2>7. statics \in SUBSET Nat
    BY <1>3
  <2>8. PICK a \in statics : \A x \in statics : a <= x
    BY <2>3, <2>7, HasMinimum
  <2>9. FirstRule(m, path) = t
    <3>1. PICK pool : pool = statics
      OBVIOUS
    <3>2. /\ Candidates(m, path) # {}
          /\ pool = IF {i \in Candidates(m, path) : added[i].static} # {}
                    THEN {i \in Candidates(m, path) : added[i].static}
                    ELSE Candidates(m, path)
      BY <2>3, <3>1
    <3>3. /\ pool \in SUBSET Nat /\ a \in pool /\ t \in pool
          /\ \A x \in pool : a <= x
          /\ SamePattern(t, a) /\ added[t].method = added[a].method
          /\ \A x \in pool : x <= t
      BY <2>3, <2>5, <2>6, <2>7, <2>8, <3>1
    <3>4. QED
      BY <3>2, <3>3, FirstRuleIs
  <2>10. QED
    BY <1>6, <2>1, <2>3, <2>9 DEF MatchMethod
<1>7. CASE m \in Methods /\ static[m][path] = NoTarget
  <2>1. statics = {}
    <3>1. \A i \in DOMAIN added : ~StaticRule(i, path, m)
      BY <1>1, <1>2, <1>7 DEF StaticTable, StaticRule, NoTarget
    <3>2. QED
      BY <1>1, <1>3, <3>1 DEF StaticTable, StaticRule
  <2>2. MatchMethod(m, path) = MatchDynamic(m, path)
    BY <1>7 DEF MatchMethod
  \* A candidate's pattern is in the list.
  <2>3. ASSUME NEW i \in cands
        PROVE  /\ DynamicRule(i, added[i].pattern, m)
               /\ \E g \in 1..Len(dyna_routes[m]) :
                    /\ dyna_routes[m][g].pattern = added[i].pattern
                    /\ path \in dyna_routes[m][g].pattern
    <3>1. DynamicRule(i, added[i].pattern, m)
      BY <1>3, <2>1 DEF DynamicRule
    <3>2. QED
      <4>1. added[i].pattern \in Patterns /\ i \in DOMAIN added /\ path \in added[i].pattern
        BY <1>2, <1>3
      <4>2. PICK g : g = groups[<<added[i].pattern, m>>]
        OBVIOUS
      <4>3. g \in 1..Len(dyna_routes[m]) /\ dyna_routes[m][g].pattern = added[i].pattern
        BY <1>1, <1>7, <3>1, <4>1, <4>2 DEF GroupsIndex
      <4>4. QED
        BY <3>1, <4>1, <4>3
  <2>4. CASE /\ MatchDynamic(m, path) = NoTarget
             /\ \A j \in 1..Len(dyna_routes[m]) : path \notin dyna_routes[m][j].pattern
    <3>1. cands = {}
      BY <2>3, <2>4
    <3>2. QED
      BY <1>4, <2>2, <2>4, <3>1
  <2>5. CASE \E j \in 1..Len(dyna_routes[m]) :
               /\ FirstMatch(dyna_routes[m], path, j)
               /\ MatchDynamic(m, path) = dyna_routes[m][j].target
    <3>1. PICK j \in 1..Len(dyna_routes[m]) :
            /\ FirstMatch(dyna_routes[m], path, j)
            /\ MatchDynamic(m, path) = dyna_routes[m][j].target
      BY <2>5
    <3>2. PICK pattern : pattern = dyna_routes[m][j].pattern
      OBVIOUS
    <3>3. PICK t : t = dyna_routes[m][j].target
      OBVIOUS
    <3>4. /\ DynamicRule(t, pattern, m)
          /\ \A i \in DOMAIN added : DynamicRule(i, pattern, m) => i <= t
      BY <1>1, <1>7, <3>2, <3>3 DEF LastTargets
    <3>5. path \in pattern /\ \A l \in 1..(j - 1) : path \notin dyna_routes[m][l].pattern
      BY <3>1, <3>2 DEF FirstMatch
    <3>6. t \in cands
      BY <1>3, <3>4, <3>5 DEF DynamicRule
    <3>7. PICK a \in cands : \A x \in cands : a <= x
      BY <1>3, <3>6, HasMinimum
    \* The first candidate has the pattern of the first rule of the list.
    <3>8. added[a].pattern = pattern
      <4>1. PICK l \in 1..Len(dyna_routes[m]) :
              /\ dyna_routes[m][l].pattern = added[a].pattern
              /\ path \in dyna_routes[m][l].pattern
        BY <2>3
      <4>2. Len(dyna_routes[m]) \in Nat
        BY <1>1, <1>7 DEF RouterTypes
      <4>3. l = j \/ j < l
        BY <3>5, <4>1, <4>2
      <4>4. CASE j < l
        <5>1. PICK i \in DOMAIN added :
                /\ DynamicRule(i, pattern, m)
                /\ \A k \in DOMAIN added :
                     DynamicRule(k, dyna_routes[m][l].pattern, m) => i < k
          BY <1>1, <1>7, <3>2, <4>4 DEF FirstComeOrder
        <5>2. i \in cands
          BY <1>3, <3>5, <5>1 DEF DynamicRule
        <5>3. i < a
          <6>1. DynamicRule(a, dyna_routes[m][l].pattern, m) /\ a \in DOMAIN added
            BY <1>3, <2>3, <4>1
          <6>2. QED
            BY <5>1, <6>1
        <5>4. QED
          BY <1>3, <3>7, <5>2, <5>3
      <4>5. QED
        BY <3>2, <4>1, <4>3, <4>4
    <3>9. SamePattern(t, a) /\ added[t].method = added[a].method
      <4>1. ~added[t].static /\ ~added[a].static
        BY <2>1, <3>6, <3>7
      <4>2. added[t].static \in BOOLEAN /\ added[a].static \in BOOLEAN
        BY <1>2, <1>3, <3>6, <3>7
      <4>3. added[t].static = added[a].static
        BY <4>1, <4>2
      <4>4. added[t].pattern = pattern /\ added[t].method = m /\ added[a].method = m
        BY <1>3, <3>4, <3>6, <3>7 DEF DynamicRule
      <4>5. QED
        BY <3>8, <4>3, <4>4 DEF SamePattern
    <3>10. \A x \in cands : SamePattern(x, a) => x <= t
      BY <1>3, <2>3, <3>4, <3>8 DEF SamePattern
    <3>11. FirstRule(m, path) = t
      <4>1. PICK pool : pool = cands
        OBVIOUS
      <4>2. /\ Candidates(m, path) # {}
            /\ pool = IF {i \in Candidates(m, path) : added[i].static} # {}
                      THEN {i \in Candidates(m, path) : added[i].static}
                      ELSE Candidates(m, path)
        BY <2>1, <3>6, <4>1
      <4>3. /\ pool \in SUBSET Nat /\ a \in pool /\ t \in pool
            /\ \A x \in pool : a <= x
            /\ \A x \in pool : SamePattern(x, a) => x <= t
        BY <1>3, <3>6, <3>7, <3>10, <4>1
      <4>4. QED
        BY <3>9, <4>2, <4>3, FirstRuleIs
    <3>12. t # NoTarget
      BY <1>3, <3>6 DEF NoTarget
    <3>13. QED
      BY <2>2, <3>1, <3>3, <3>6, <3>11, <3>12
  <2>6. QED
    BY <1>7, <2>4, <2>5, DynamicAnswers
<1>8. QED
  BY <1>5, <1>6, <1>7

\* MatchesFirstRule: for any rules, limit on the groups of an expression and
\* order of additions and requests, match() answers with the first rule that
\* matches, and tells 405 from 404 (match, 411-448).
THEOREM RouterMatches == RouterSpec => []MatchesFirstRule
<1>1. ASSUME RouterInv PROVE MatchesFirstRule
  <2> SUFFICES ASSUME NEW verb \in Verbs, NEW path \in Paths
               PROVE  LET methods == MethodsFor(verb)
                          targets == [k \in DOMAIN methods |-> FirstRule(methods[k], path)]
                          i == SelectInSeq(targets, LAMBDA t : t # NoTarget)
                      IN Match(verb, path) =
                           IF i > 0 THEN [status |-> 200, target |-> targets[i]]
                           ELSE [status |-> IF \E m \in Methods : Candidates(m, path) # {}
                                              THEN 405 ELSE 404,
                                 target |-> NoTarget]
    BY DEF MatchesFirstRule
  <2> DEFINE methods == MethodsFor(verb)
             targets == [k \in DOMAIN methods |-> FirstRule(methods[k], path)]
             i == SelectInSeq(targets, LAMBDA t : t # NoTarget)
  <2>1. /\ methods = MethodsFor(verb)
        /\ targets = [k \in DOMAIN methods |-> FirstRule(methods[k], path)]
    OBVIOUS
  <2>2. \A m : /\ MatchMethod(m, path) = FirstRule(m, path)
               /\ FirstRule(m, path) # NoTarget <=> Candidates(m, path) # {}
    BY <1>1, MethodAnswers
  <2>3. \E n \in Nat : /\ Len(methods) = n /\ DOMAIN methods = 1..n
                       /\ Len(targets) = n /\ DOMAIN targets = 1..n
    <3>1. \E n \in Nat : Len(methods) = n /\ DOMAIN methods = 1..n
      <4>1. CASE verb = "HEAD"
        <5>1. methods = <<"PROXY", "HEAD", "GET", "ANY">>
          BY <4>1 DEF MethodsFor
        <5> HIDE DEF methods
        <5>2. Len(methods) = 4 /\ DOMAIN methods = 1..4
          BY <5>1
        <5>3. QED
          BY <5>2
      <4>2. CASE verb # "HEAD"
        <5>1. methods = <<"PROXY", verb, "ANY">>
          BY <4>2 DEF MethodsFor
        <5> HIDE DEF methods
        <5>2. Len(methods) = 3 /\ DOMAIN methods = 1..3
          BY <5>1
        <5>3. QED
          BY <5>2
      <4>3. QED
        BY <4>1, <4>2
    <3>2. PICK n \in Nat : Len(methods) = n /\ DOMAIN methods = 1..n
      BY <3>1
    <3>3. DOMAIN targets = 1..n /\ Len(targets) = n
      BY <2>1, <3>2
    <3>4. QED
      BY <3>2, <3>3
  <2>4. PICK n \in Nat : /\ Len(methods) = n /\ DOMAIN methods = 1..n
                         /\ Len(targets) = n /\ DOMAIN targets = 1..n
    BY <2>3
  <2>5. \A k \in 1..n : targets[k] = FirstRule(methods[k], path)
    BY <2>1, <2>4
  <2> DEFINE answering == {k \in 1..n : FirstRule(methods[k], path) # NoTarget}
  <2>6. i = First(answering)
    <3>1. i = First({k \in 1..Len(targets) : targets[k] # NoTarget})
      BY DEF SelectInSeq, First
    <3>2. {k \in 1..Len(targets) : targets[k] # NoTarget} = answering
      BY <2>4, <2>5
    <3>3. QED
      BY <3>1, <3>2
  <2>7. SelectInSeq(methods, LAMBDA m : MatchMethod(m, path) # NoTarget) = First(answering)
    <3>1. SelectInSeq(methods, LAMBDA m : MatchMethod(m, path) # NoTarget)
            = First({k \in 1..Len(methods) : MatchMethod(methods[k], path) # NoTarget})
      BY DEF SelectInSeq, First
    <3>2. {k \in 1..Len(methods) : MatchMethod(methods[k], path) # NoTarget} = answering
      BY <2>2, <2>4
    <3>3. QED
      BY <3>1, <3>2
  <2>8. answering \in SUBSET (1..n)
    OBVIOUS
  <2>9. /\ First(answering) \in 0..n /\ (First(answering) = 0 <=> answering = {})
        /\ answering # {} => First(answering) \in answering
    BY <2>8, FirstIndex
  <2>10. Match(verb, path) =
           IF i > 0 THEN [status |-> 200, target |-> MatchMethod(methods[i], path)]
           ELSE [status |-> IF Allowed(verb, path) # {} THEN 405 ELSE 404,
                 target |-> NoTarget]
    BY <2>1, <2>6, <2>7 DEF Match
  <2> HIDE DEF answering, methods, targets, i
  <2>11. Match(verb, path) =
           IF i > 0 THEN [status |-> 200, target |-> targets[i]]
           ELSE [status |-> IF \E m \in Methods : Candidates(m, path) # {}
                              THEN 405 ELSE 404,
                 target |-> NoTarget]
    <3>1. CASE i > 0
      <4>1. i \in 1..n
        BY <2>6, <2>9, <3>1
      <4>2. QED
        BY <2>2, <2>5, <2>10, <3>1, <4>1
    <3>2. CASE ~(i > 0)
      <4>1. answering = {}
        BY <2>6, <2>9, <3>2
      <4>2. \A k \in 1..n : FirstRule(methods[k], path) = NoTarget
        BY <4>1 DEF answering
      <4>3. \A m \in Range(methods) : FirstRule(m, path) = NoTarget
        BY <2>4, <4>2 DEF Range
      <4>4. Allowed(verb, path) # {} <=> \E m \in Methods : Candidates(m, path) # {}
        <5>1. Allowed(verb, path) # {} <=>
                \E m \in Methods \ Range(methods) :
                  static[m][path] # NoTarget \/ MatchDynamic(m, path) # NoTarget
          BY <2>1 DEF Allowed
        <5>2. \A m \in Methods :
                (static[m][path] # NoTarget \/ MatchDynamic(m, path) # NoTarget)
                  <=> MatchMethod(m, path) # NoTarget
          BY DEF MatchMethod
        <5>3. QED
          BY <2>2, <4>3, <5>1, <5>2
      <4>5. QED
        BY <2>10, <3>2, <4>4
    <3>3. QED
      BY <3>1, <3>2
  <2>12. QED
    BY <2>11 DEF methods, targets, i
<1>2. QED
  BY <1>1, RouterInvariant, PTL

-------------------------------------------------------------------------------
(* static_file                                                               *)

Ends == Nat \cup {Blank}

\* A valid range is the bytes that were asked for and that the file has.
LEMMA RangeAsked ==
  ASSUME NEW r \in Ends \X Ends, r # <<Blank, Blank>>, NEW clen \in Nat
  PROVE  /\ Range1(r, clen) \in Nat \X Nat /\ Range1(r, clen)[2] <= clen
         /\ Asked(r, clen) = Range1(r, clen)[1]..(Range1(r, clen)[2] - 1)
<1>1. PICK s \in Ends, e \in Ends : r = <<s, e>>
  OBVIOUS
<1>2. r[1] = s /\ r[2] = e /\ ~(s = Blank /\ e = Blank)
  BY <1>1
<1>3. Blank \notin Nat
  BY DEF Blank
<1>4. CASE s = Blank
  <2>1. e \in Nat
    BY <1>2, <1>4 DEF Ends
  <2>2. Range1(r, clen) = <<IF e > clen THEN 0 ELSE clen - e, clen>>
    BY <1>2, <1>4 DEF Range1
  <2>3. Asked(r, clen) = {i \in 0..(clen - 1) : i >= clen - e}
    BY <1>2, <1>4 DEF Asked
  <2>4. QED
    BY <2>1, <2>2, <2>3
<1>5. CASE s # Blank
  <2>1. s \in Nat
    BY <1>5 DEF Ends
  <2>2. Range1(r, clen) = <<s, IF e = Blank \/ e + 1 > clen THEN clen ELSE e + 1>>
    BY <1>2, <1>5 DEF Range1
  <2>3. Asked(r, clen) = {i \in 0..(clen - 1) : i >= s /\ (e = Blank \/ i <= e)}
    BY <1>2, <1>5 DEF Asked
  <2>4. e = Blank \/ e \in Nat
    BY DEF Ends
  <2>5. QED
    BY <2>1, <2>2, <2>3, <2>4
<1>6. QED
  BY <1>4, <1>5

\* What parse_range_header returns: nothing, or the first range with a byte.
LEMMA RangeParsed ==
  ASSUME NEW ranges \in RangeLists, NEW clen \in Nat
  PROVE  \/ Satisfiable(ranges, clen) = 0 /\ parse_range_header(ranges, clen) = << >>
         \/ /\ Satisfiable(ranges, clen) # 0
            /\ \E r \in Nat \X Nat :
                 /\ parse_range_header(ranges, clen) = <<r>>
                 /\ r[1] < r[2] /\ r[2] <= clen
                 /\ Asked(ranges[Satisfiable(ranges, clen)], clen) = r[1]..(r[2] - 1)
<1> DEFINE valid == {i \in 1..Len(ranges) :
                       Range1(ranges[i], clen)[1] < Range1(ranges[i], clen)[2]}
           asked == {i \in 1..Len(ranges) : Asked(ranges[i], clen) # {}}
<1>1. /\ Len(ranges) \in Nat
      /\ \A i \in 1..Len(ranges) : ranges[i] \in Ends \X Ends /\ ranges[i] # <<Blank, Blank>>
  BY StaticAssumption DEF StaticAssumption, Ends
<1>2. \A i \in 1..Len(ranges) :
        /\ Range1(ranges[i], clen) \in Nat \X Nat /\ Range1(ranges[i], clen)[2] <= clen
        /\ Asked(ranges[i], clen)
             = Range1(ranges[i], clen)[1]..(Range1(ranges[i], clen)[2] - 1)
  BY <1>1, RangeAsked
<1>3. valid = asked
  <2>1. \A a, b \in Nat : a < b <=> a..(b - 1) # {}
    OBVIOUS
  <2>2. \A i \in 1..Len(ranges) :
          Range1(ranges[i], clen)[1] < Range1(ranges[i], clen)[2]
            <=> Asked(ranges[i], clen) # {}
    BY <1>2, <2>1
  <2>3. QED
    BY <2>2
<1>4. Satisfiable(ranges, clen) = First(asked)
  BY DEF Satisfiable, SelectInSeq, First
<1>5. parse_range_header(ranges, clen) =
        IF First(valid) = 0 THEN << >> ELSE <<Range1(ranges[First(valid)], clen)>>
  BY DEF parse_range_header, SelectInSeq, First
<1>6. valid \in SUBSET (1..Len(ranges))
  OBVIOUS
<1>7. /\ First(valid) = 0 <=> valid = {}
      /\ valid # {} => First(valid) \in valid
  BY <1>1, <1>6, FirstIndex
<1>8. CASE valid = {}
  BY <1>3, <1>4, <1>5, <1>7, <1>8
<1>9. CASE valid # {}
  <2>1. PICK i \in valid : i = First(valid)
    BY <1>7, <1>9
  <2>2. i \in 1..Len(ranges) /\ Range1(ranges[i], clen)[1] < Range1(ranges[i], clen)[2]
    BY <2>1
  <2>3. PICK r \in Nat \X Nat : r = Range1(ranges[i], clen)
    BY <1>2, <2>2
  <2>4. Satisfiable(ranges, clen) = i /\ i # 0
    <3>1. i # 0
      BY <2>2
    <3> HIDE DEF valid, asked
    <3>2. QED
      BY <1>3, <1>4, <2>1, <3>1
  <2>5. parse_range_header(ranges, clen) = <<r>>
    BY <1>5, <1>7, <1>9, <2>1, <2>3
  <2>6. r[1] < r[2] /\ r[2] <= clen /\ Asked(ranges[i], clen) = r[1]..(r[2] - 1)
    BY <1>2, <2>2, <2>3
  <2>7. QED
    BY <2>4, <2>5, <2>6
<1>10. QED
  BY <1>8, <1>9

-------------------------------------------------------------------------------
(* static_file: what is known between the steps of a request                 *)

WrittenInOrder ==
  /\ now \in Nat /\ writtenAt \in Seq(Nat)
  /\ \A i \in DOMAIN writtenAt : writtenAt[i] <= now
  /\ \A i, j \in DOMAIN writtenAt : i <= j => writtenAt[i] <= writtenAt[j]

FileInv ==
  /\ version \in {0, Len(writtenAt)} /\ fsize \in Nat
  /\ version # 0 => mtime = writtenAt[version]

\* A copy has its Last-Modified from a stat() before it was read: what was
\* read is no older.
CopyInv ==
  \/ copy = NoCopy
  \/ /\ copy.version \in DOMAIN writtenAt /\ copy.lm \in Nat
     /\ copy.lm <= writtenAt[copy.version]

RequestInv ==
  \/ req = Idle
  \/ /\ req \in [at : {"exists", "stat"}, ims : {Blank, copy.lm}, ranges : RangeLists]
  \/ /\ req \in [at : {"open"}, ranges : RangeLists, lm : Nat, clen : Nat, version : Nat]
  \/ /\ req \in [at : {"send"}, ranges : {<< >>} \cup {<<r>> : r \in Nat \X Nat},
                 lm : Nat, clen : Nat, version : Nat, held : {<< >>} \cup (Nat \X Nat)]
     /\ req.ranges # << >> =>
          req.ranges[1][1] < req.ranges[1][2] /\ req.ranges[1][2] <= req.clen

\* The file that was looked at, and its size unless it was written again.
SeenInv ==
  req.at \in {"open", "send"} =>
    /\ req.version \in DOMAIN writtenAt /\ req.lm = writtenAt[req.version]
    /\ req.version = Len(writtenAt) => req.clen = fsize

\* What is read is no older than what was looked at.
HeldInv ==
  req.at = "send" =>
    \/ req.held = << >> /\ version # 0
    \/ /\ req.held # << >>
       /\ req.held[1] \in DOMAIN writtenAt /\ req.version <= req.held[1]
       /\ req.held[1] = req.version => req.held[2] = req.clen

AnswerInv ==
  /\ answer.status = 304 =>
       /\ answer.version \in DOMAIN writtenAt /\ copy.version \in DOMAIN writtenAt
       /\ writtenAt[copy.version] = writtenAt[answer.version]
  /\ answer.status = 206 => answer.length <= answer.contentLength
  /\ answer.status \in {200, 206} /\ answer.stat = answer.read =>
       answer.length = answer.contentLength

StaticInv ==
  /\ WrittenInOrder /\ FileInv /\ CopyInv
  /\ RequestInv /\ SeenInv /\ HeldInv /\ AnswerInv

LEMMA StaticInitial == StaticInit => StaticInv
BY DEF StaticInit, StaticInv, WrittenInOrder, FileInv, CopyInv, RequestInv, SeenInv,
       HeldInv, AnswerInv, NoCopy, Idle, NoAnswer

\* The file changes, and the clock.
LEMMA FileKeeps ==
  ASSUME StaticInv, Tick \/ Unlink \/ \E size \in Sizes : Edit(size)
  PROVE  StaticInv'
<1> USE DEF StaticInv
<1>1. CASE Tick
  BY <1>1 DEF Tick, fileVars, WrittenInOrder, FileInv, CopyInv, RequestInv, SeenInv, HeldInv, AnswerInv
<1>2. CASE Unlink
  <2>1. WrittenInOrder' /\ FileInv'
    BY <1>2 DEF Unlink, WrittenInOrder, FileInv
  <2>2. CopyInv' /\ AnswerInv'
    BY <1>2 DEF Unlink, CopyInv, AnswerInv
  <2>3. CASE req' = req /\ ~(req.at = "send" /\ req.held = << >>)
    <3>1. RequestInv' /\ SeenInv' /\ HeldInv'
      BY <1>2, <2>3 DEF Unlink, RequestInv, SeenInv, HeldInv
    <3>2. QED
      BY <2>1, <2>2, <3>1
  <2>4. CASE /\ req.at = "send" /\ req.held = << >>
             /\ req' = [req EXCEPT !.held = <<version, fsize>>]
    <3>1. PICK n \in Nat : n = Len(writtenAt) /\ DOMAIN writtenAt = 1..n
      BY DEF WrittenInOrder
    <3>2. version = n /\ n \in 1..n /\ fsize \in Nat
      BY <1>2, <3>1 DEF Unlink, FileInv
    <3>3. /\ req \in [at : {"send"}, ranges : {<< >>} \cup {<<r>> : r \in Nat \X Nat},
                      lm : Nat, clen : Nat, version : Nat, held : {<< >>} \cup (Nat \X Nat)]
          /\ req.ranges # << >> =>
               req.ranges[1][1] < req.ranges[1][2] /\ req.ranges[1][2] <= req.clen
      BY <2>4 DEF RequestInv, Idle
    <3>4. PICK held \in Nat \X Nat : held = <<version, fsize>>
      BY <3>1, <3>2
    <3>5. /\ req' \in [at : {"send"}, ranges : {<< >>} \cup {<<r>> : r \in Nat \X Nat},
                       lm : Nat, clen : Nat, version : Nat, held : {<< >>} \cup (Nat \X Nat)]
          /\ req'.ranges = req.ranges /\ req'.clen = req.clen /\ req'.version = req.version
          /\ req'.lm = req.lm /\ req'.held = held /\ req'.at = "send"
      BY <2>4, <3>3, <3>4
    <3>6. RequestInv'
      BY <3>3, <3>5 DEF RequestInv
    <3>7. /\ req.version \in 1..n /\ req.lm = writtenAt[req.version]
          /\ req.version = n => req.clen = fsize
      BY <2>4, <3>1 DEF SeenInv
    <3>8. writtenAt' = writtenAt /\ fsize' = fsize
      BY <1>2 DEF Unlink
    <3>9. SeenInv'
      BY <3>1, <3>5, <3>7, <3>8 DEF SeenInv
    <3>10. held[1] = n /\ held[2] = fsize /\ held # << >>
      BY <3>2, <3>4
    <3>11. HeldInv'
      BY <3>1, <3>2, <3>5, <3>7, <3>8, <3>10 DEF HeldInv
    <3>12. QED
      BY <2>1, <2>2, <3>6, <3>9, <3>11
  <2>5. QED
    BY <1>2, <2>3, <2>4 DEF Unlink
<1>3. ASSUME NEW size \in Sizes, Edit(size)
      PROVE  StaticInv'
  <2>1. PICK n \in Nat : n = Len(writtenAt) /\ DOMAIN writtenAt = 1..n
    BY DEF WrittenInOrder
  <2>2. /\ writtenAt' \in Seq(Nat) /\ Len(writtenAt') = n + 1
        /\ DOMAIN writtenAt' = 1..(n + 1)
        /\ \A i \in 1..n : writtenAt'[i] = writtenAt[i]
        /\ writtenAt'[n + 1] = now
    BY <1>3, <2>1 DEF Edit, WrittenInOrder
  <2>3. WrittenInOrder'
    BY <1>3, <2>1, <2>2 DEF Edit, WrittenInOrder
  <2>4. version' = n + 1 /\ fsize' \in Nat /\ mtime' = now
    BY <1>3, <2>1, StaticAssumption DEF Edit, StaticAssumption
  <2>5. FileInv'
    BY <2>2, <2>4 DEF FileInv
  <2>6. UNCHANGED <<copy, req, answer>>
    BY <1>3 DEF Edit
  <2>7. CopyInv'
    BY <2>1, <2>2, <2>6 DEF CopyInv
  <2>8. RequestInv'
    BY <2>6 DEF RequestInv
  <2>9. SeenInv'
    BY <2>1, <2>2, <2>6 DEF SeenInv
  <2>10. HeldInv'
    BY <2>1, <2>2, <2>4, <2>6 DEF HeldInv
  <2>11. AnswerInv'
    BY <2>1, <2>2, <2>6 DEF AnswerInv
  <2>12. QED
    BY <2>3, <2>5, <2>7, <2>8, <2>9, <2>10, <2>11
<1>4. QED
  BY <1>1, <1>2, <1>3

LEMMA RequestKeeps ==
  ASSUME StaticInv,
         \/ \E ims \in {Blank, copy.lm}, ranges \in RangeLists : Ask(ims, ranges)
         \/ Exists \/ Stat \/ Open \/ Send
  PROVE  StaticInv'
<1> USE DEF StaticInv
<1>1. UNCHANGED <<now, fileVars>>
  BY DEF Ask, Exists, Stat, Open, Send
<1>2. WrittenInOrder' /\ FileInv'
  BY <1>1 DEF fileVars, WrittenInOrder, FileInv
<1>3. PICK n \in Nat : n = Len(writtenAt) /\ DOMAIN writtenAt = 1..n
  BY DEF WrittenInOrder
<1>4. ASSUME NEW a, Reply(a), a.status \in {404, 416, 500}, UNCHANGED <<fileVars, copy>>
      PROVE  StaticInv'
  <2>1. req' = Idle /\ answer' = a
    BY <1>4 DEF Reply
  <2>2. RequestInv' /\ SeenInv' /\ HeldInv' /\ AnswerInv'
    BY <1>4, <2>1 DEF RequestInv, SeenInv, HeldInv, AnswerInv, Idle
  <2>3. CopyInv'
    BY <1>4 DEF fileVars, CopyInv
  <2>4. QED
    BY <1>2, <2>2, <2>3
<1>5. ASSUME NEW ims \in {Blank, copy.lm}, NEW ranges \in RangeLists, Ask(ims, ranges)
      PROVE  StaticInv'
  <2>1. /\ req' = [at |-> "exists", ims |-> ims, ranges |-> ranges]
        /\ answer' = [status |-> 0] /\ copy' = copy
    BY <1>5 DEF Ask, NoAnswer
  <2>2. RequestInv' /\ SeenInv' /\ HeldInv' /\ AnswerInv'
    BY <2>1 DEF RequestInv, SeenInv, HeldInv, AnswerInv
  <2>3. CopyInv'
    BY <1>1, <2>1 DEF fileVars, CopyInv
  <2>4. QED
    BY <1>2, <2>2, <2>3
<1>6. CASE Exists
  <2>1. CASE version = 0
    <3>1. Reply([status |-> 404]) /\ UNCHANGED <<fileVars, copy>>
      BY <1>6, <2>1 DEF Exists
    <3>2. [status |-> 404].status \in {404, 416, 500}
      OBVIOUS
    <3>3. QED
      BY <1>4, <3>1, <3>2
  <2>2. CASE version # 0
    <3>1. req.at = "exists" /\ req' = [req EXCEPT !.at = "stat"]
          /\ UNCHANGED <<fileVars, copy, answer>>
      BY <1>6, <2>2 DEF Exists
    <3>2. req \in [at : {"exists", "stat"}, ims : {Blank, copy.lm}, ranges : RangeLists]
      BY <3>1 DEF RequestInv, Idle
    <3>3. req' \in [at : {"exists", "stat"}, ims : {Blank, copy.lm}, ranges : RangeLists]
          /\ req'.at = "stat"
      BY <3>1, <3>2
    <3>4. RequestInv' /\ SeenInv' /\ HeldInv'
      BY <3>1, <3>3 DEF RequestInv, SeenInv, HeldInv
    <3>5. CopyInv' /\ AnswerInv'
      BY <3>1 DEF fileVars, CopyInv, AnswerInv
    <3>6. QED
      BY <1>2, <3>4, <3>5
  <2>3. QED
    BY <2>1, <2>2
<1>7. CASE Stat
  <2>1. CASE version = 0
    <3>1. Reply([status |-> 500]) /\ UNCHANGED <<fileVars, copy>>
      BY <1>7, <2>1 DEF Stat
    <3>2. [status |-> 500].status \in {404, 416, 500}
      OBVIOUS
    <3>3. QED
      BY <1>4, <3>1, <3>2
  <2>2. req.at = "stat" /\ copy' = copy
    BY <1>7 DEF Stat
  <2>3. req \in [at : {"exists", "stat"}, ims : {Blank, copy.lm}, ranges : RangeLists]
    BY <2>2 DEF RequestInv, Idle
  <2>4. CopyInv'
    BY <1>1, <2>2 DEF fileVars, CopyInv
  <2>5. version # 0 => /\ version = n /\ n \in 1..n /\ mtime = writtenAt[n]
                       /\ mtime \in Nat
    BY <1>3 DEF FileInv, WrittenInOrder
  \* A copy that is no older than the file has its second.
  <2>6. CASE version # 0 /\ NotModified(req.ims)
    <3>1. req' = Idle /\ answer' = [status |-> 304, version |-> version]
      BY <1>7, <2>6 DEF Stat, Reply
    <3>2. req.ims = copy.lm /\ copy.lm # Blank /\ copy.lm >= mtime
      BY <2>3, <2>6 DEF NotModified
    <3>3. copy # NoCopy
      BY <3>2 DEF NoCopy
    <3>4. /\ copy.version \in 1..n /\ copy.lm \in Nat
          /\ copy.lm <= writtenAt[copy.version]
          /\ writtenAt[copy.version] <= writtenAt[n]
          /\ writtenAt[copy.version] \in Nat
      BY <1>3, <3>3, <2>5, <2>6 DEF CopyInv, WrittenInOrder
    <3>5. writtenAt[copy.version] = writtenAt[version]
      BY <2>5, <2>6, <3>2, <3>4
    <3>6. AnswerInv'
      BY <1>1, <1>3, <2>2, <2>5, <2>6, <3>1, <3>4, <3>5 DEF fileVars, AnswerInv
    <3>7. RequestInv' /\ SeenInv' /\ HeldInv'
      BY <3>1 DEF RequestInv, SeenInv, HeldInv, Idle
    <3>8. QED
      BY <1>2, <2>4, <3>6, <3>7
  <2>7. CASE version # 0 /\ ~NotModified(req.ims)
    <3>1. /\ req' = [at |-> "open", ranges |-> req.ranges, lm |-> mtime,
                     clen |-> fsize, version |-> version]
          /\ answer' = answer
      BY <1>7, <2>7 DEF Stat
    <3>2. req.ranges \in RangeLists /\ fsize \in Nat
      BY <2>3 DEF FileInv
    <3>3. RequestInv' /\ SeenInv' /\ HeldInv'
      BY <1>1, <1>3, <2>5, <2>7, <3>1, <3>2 DEF fileVars, RequestInv, SeenInv, HeldInv
    <3>4. AnswerInv'
      BY <1>1, <2>2, <3>1 DEF fileVars, AnswerInv
    <3>5. QED
      BY <1>2, <2>4, <3>3, <3>4
  <2>8. QED
    BY <2>1, <2>6, <2>7
<1>8. CASE Open
  <2>1. req.at = "open" /\ UNCHANGED <<fileVars, copy>>
    BY <1>8 DEF Open
  <2>2. req \in [at : {"open"}, ranges : RangeLists, lm : Nat, clen : Nat, version : Nat]
    BY <2>1 DEF RequestInv, Idle
  <2>3. PICK ranges : ranges = parse_range_header(req.ranges, req.clen)
    OBVIOUS
  <2>4. \/ Reply([status |-> 500]) \/ Reply([status |-> 416])
        \/ /\ version # 0 /\ UNCHANGED answer
           /\ req' = [at |-> "send", ranges |-> ranges, lm |-> req.lm, clen |-> req.clen,
                      version |-> req.version, held |-> << >>]
    BY <1>8, <2>3 DEF Open
  <2>5. CASE Reply([status |-> 500]) \/ Reply([status |-> 416])
    <3>1. [status |-> 500].status = 500 /\ [status |-> 416].status = 416
      OBVIOUS
    <3>2. QED
      BY <1>4, <2>1, <2>5, <3>1
  <2>6. CASE /\ version # 0 /\ UNCHANGED answer
             /\ req' = [at |-> "send", ranges |-> ranges, lm |-> req.lm, clen |-> req.clen,
                        version |-> req.version, held |-> << >>]
    <3>1. req.ranges \in RangeLists /\ req.clen \in Nat
      BY <2>2
    <3>2. \/ ranges = << >>
          \/ \E r \in Nat \X Nat : ranges = <<r>> /\ r[1] < r[2] /\ r[2] <= req.clen
      BY <2>3, <3>1, RangeParsed
    <3>3. /\ ranges \in {<< >>} \cup {<<r>> : r \in Nat \X Nat}
          /\ ranges # << >> => ranges[1][1] < ranges[1][2] /\ ranges[1][2] <= req.clen
      BY <3>2
    <3>4. /\ req' \in [at : {"send"}, ranges : {<< >>} \cup {<<r>> : r \in Nat \X Nat},
                       lm : Nat, clen : Nat, version : Nat, held : {<< >>} \cup (Nat \X Nat)]
          /\ req'.held = << >> /\ req'.ranges = ranges /\ req'.clen = req.clen /\ req'.lm = req.lm
          /\ req'.version = req.version
      BY <2>2, <2>6, <3>3
    <3>5. RequestInv'
      BY <3>3, <3>4 DEF RequestInv
    <3>6. SeenInv' /\ HeldInv' /\ CopyInv' /\ AnswerInv'
      BY <2>1, <2>6, <3>4 DEF fileVars, SeenInv, HeldInv, CopyInv, AnswerInv
    <3>7. QED
      BY <1>2, <3>5, <3>6
  <2>7. QED
    BY <2>4, <2>5, <2>6
<1>9. CASE Send
  <2>1. req.at = "send"
    BY <1>9 DEF Send
  <2>2. /\ req \in [at : {"send"}, ranges : {<< >>} \cup {<<r>> : r \in Nat \X Nat},
                    lm : Nat, clen : Nat, version : Nat, held : {<< >>} \cup (Nat \X Nat)]
        /\ req.ranges # << >> =>
             req.ranges[1][1] < req.ranges[1][2] /\ req.ranges[1][2] <= req.clen
    BY <2>1 DEF RequestInv, Idle
  <2>3. /\ req.version \in 1..n /\ req.lm = writtenAt[req.version]
        /\ req.version = n => req.clen = fsize
    BY <1>3, <2>1 DEF SeenInv
  <2>4. fsize \in Nat /\ version \in {0, n} /\ req.clen \in Nat
    BY <1>3, <2>2 DEF FileInv
  <2>5. \E v, size \in Nat :
          /\ <<v, size>> = IF req.held = << >> THEN <<version, fsize>> ELSE req.held
          /\ v \in 1..n /\ req.version <= v /\ (v = req.version => size = req.clen)
    <3>1. CASE req.held = << >>
      <4>1. version = n /\ n \in 1..n /\ req.version <= n
        BY <2>1, <2>3, <2>4, <3>1 DEF HeldInv
      <4>2. QED
        BY <2>3, <2>4, <3>1, <4>1
    <3>2. CASE req.held # << >>
      <4>1. PICK v \in Nat, size \in Nat : req.held = <<v, size>>
        BY <2>2, <3>2
      <4>2. req.held[1] = v /\ req.held[2] = size
        BY <4>1
      <4>3. v \in 1..n /\ req.version <= v /\ (v = req.version => size = req.clen)
        BY <1>3, <2>1, <3>2, <4>2 DEF HeldInv
      <4>4. QED
        BY <3>2, <4>1, <4>3
    <3>3. QED
      BY <3>1, <3>2
  <2>6. PICK v \in Nat, size \in Nat :
          /\ <<v, size>> = IF req.held = << >> THEN <<version, fsize>> ELSE req.held
          /\ v \in 1..n /\ req.version <= v /\ (v = req.version => size = req.clen)
    BY <2>5
  <2>7. PICK range : range = IF req.ranges = << >> THEN <<0, size>> ELSE req.ranges[1]
    OBVIOUS
  <2>8. PICK end : end = IF range[2] < size THEN range[2] ELSE size
    OBVIOUS
  <2>9. /\ req' = Idle
        /\ answer' = [status |-> IF req.ranges = << >> THEN 200 ELSE 206,
                      contentLength |-> IF req.ranges = << >> THEN req.clen
                                        ELSE range[2] - range[1],
                      from |-> range[1],
                      length |-> IF end > range[1] THEN end - range[1] ELSE 0,
                      stat |-> req.version, read |-> v]
        /\ copy' = IF req.ranges = << >> THEN [version |-> v, lm |-> req.lm] ELSE copy
    <3>1. PICK body : body = IF req.held = << >> THEN <<version, fsize>> ELSE req.held
      OBVIOUS
    <3>2. body[1] = v /\ body[2] = size
      BY <2>6, <3>1
    <3>3. /\ req' = Idle
          /\ answer' = [status |-> IF req.ranges = << >> THEN 200 ELSE 206,
                        contentLength |-> IF req.ranges = << >> THEN req.clen
                                          ELSE range[2] - range[1],
                        from |-> range[1],
                        length |-> IF end > range[1] THEN end - range[1] ELSE 0,
                        stat |-> req.version, read |-> body[1]]
          /\ copy' = IF req.ranges = << >> THEN [version |-> body[1], lm |-> req.lm] ELSE copy
      BY <1>9, <2>7, <2>8, <3>1, <3>2 DEF Send, Reply
    <3>4. QED
      BY <3>2, <3>3
  <2>10. CopyInv'
    <3>1. CASE copy' = copy
      BY <1>1, <3>1 DEF fileVars, CopyInv
    <3>2. CASE copy' = [version |-> v, lm |-> req.lm]
      <4>1. writtenAt[req.version] <= writtenAt[v] /\ writtenAt[req.version] \in Nat
        BY <1>3, <2>3, <2>6 DEF WrittenInOrder
      <4>2. QED
        BY <1>1, <1>3, <2>3, <2>6, <3>2, <4>1 DEF fileVars, CopyInv
    <3>3. QED
      BY <2>9, <3>1, <3>2
  <2>11. AnswerInv'
    <3>1. CASE req.ranges = << >>
      <4>1. range[1] = 0 /\ range[2] = size /\ end = size
        BY <2>7, <2>8, <3>1
      <4>2. /\ answer'.status = 200 /\ answer'.contentLength = req.clen
            /\ answer'.length = size /\ answer'.stat = req.version /\ answer'.read = v
        BY <2>9, <3>1, <4>1
      <4>3. QED
        BY <2>6, <4>2 DEF AnswerInv
    <3>2. CASE req.ranges # << >>
      <4>1. PICK r \in Nat \X Nat : req.ranges = <<r>>
        BY <2>2, <3>2
      <4>2. PICK a \in Nat, b \in Nat : r = <<a, b>>
        BY <4>1
      <4>3. range[1] = a /\ range[2] = b /\ a < b /\ b <= req.clen
        BY <2>2, <2>7, <3>2, <4>1, <4>2
      <4>4. /\ answer'.status = 206 /\ answer'.contentLength = b - a
            /\ answer'.length = IF end > a THEN end - a ELSE 0
            /\ answer'.stat = req.version /\ answer'.read = v
        BY <2>9, <3>2, <4>3
      <4>5. end = IF b < size THEN b ELSE size
        BY <2>8, <4>3
      <4>6. answer'.length <= answer'.contentLength
        BY <4>3, <4>4, <4>5
      <4>7. req.version = v => answer'.length = answer'.contentLength
        BY <2>4, <2>6, <4>3, <4>4, <4>5
      <4>8. QED
        BY <4>4, <4>6, <4>7 DEF AnswerInv
    <3>3. QED
      BY <3>1, <3>2
  <2>12. RequestInv' /\ SeenInv' /\ HeldInv'
    BY <2>9 DEF RequestInv, SeenInv, HeldInv, Idle
  <2>13. QED
    BY <1>2, <2>10, <2>11, <2>12
<1>10. QED
  BY <1>5, <1>6, <1>7, <1>8, <1>9

\* StaticAnswers: for any number of edits, and edits between any two steps of a
\* request, 304 is told only of a copy that is what the file holds (or was written
\* in the same second), and a range is the one asked for (static_file 2461-2504,
\* _file_iter_range, parse_range_header).
THEOREM StaticAnswered == StaticSpec => []StaticAnswers
<1>1. StaticInv /\ [StaticNext]_staticVars => StaticInv'
  <2> SUFFICES ASSUME StaticInv, [StaticNext]_staticVars PROVE StaticInv'
    OBVIOUS
  <2>1. CASE StaticNext
    BY <2>1, FileKeeps, RequestKeeps DEF StaticNext
  <2>2. CASE UNCHANGED staticVars
    BY <2>2 DEF staticVars, fileVars, StaticInv, WrittenInOrder, FileInv, CopyInv,
      RequestInv, SeenInv, HeldInv, AnswerInv
  <2>3. QED
    BY <2>1, <2>2
<1>2. StaticInv => StaticAnswers
  <2> SUFFICES ASSUME StaticInv PROVE StaticAnswers
    OBVIOUS
  <2>1. /\ answer.status = 304 =>
             \/ copy.version = answer.version
             \/ writtenAt[copy.version] = writtenAt[answer.version]
        /\ answer.status = 206 => answer.length <= answer.contentLength
        /\ answer.status \in {200, 206} /\ answer.stat = answer.read =>
             answer.length = answer.contentLength
    BY DEF StaticInv, AnswerInv
  <2>2. req.at = "send" /\ req.ranges # << >> =>
          req.ranges[1][1] < req.ranges[1][2] /\ req.ranges[1][2] <= req.clen
    BY DEF StaticInv, RequestInv, Idle
  <2>3. ASSUME req.at = "open"
        PROVE  LET found == parse_range_header(req.ranges, req.clen)
                   i == Satisfiable(req.ranges, req.clen)
               IN IF i = 0 THEN found = << >>
                  ELSE Asked(req.ranges[i], req.clen) = found[1][1]..(found[1][2] - 1)
    <3>1. req.ranges \in RangeLists /\ req.clen \in Nat
      BY <2>3 DEF StaticInv, RequestInv, Idle
    <3>2. PICK ranges \in RangeLists, clen \in Nat : ranges = req.ranges /\ clen = req.clen
      BY <3>1
    <3>3. PICK found : found = parse_range_header(ranges, clen)
      OBVIOUS
    <3>4. PICK i : i = Satisfiable(ranges, clen)
      OBVIOUS
    <3>5. \/ i = 0 /\ found = << >>
          \/ /\ i # 0
             /\ \E r \in Nat \X Nat :
                  found = <<r>> /\ Asked(ranges[i], clen) = r[1]..(r[2] - 1)
      BY <3>3, <3>4, RangeParsed
    <3>6. IF i = 0 THEN found = << >>
          ELSE Asked(ranges[i], clen) = found[1][1]..(found[1][2] - 1)
      BY <3>5
    <3>7. QED
      BY <3>2, <3>3, <3>4, <3>6
  <2>4. QED
    BY <2>1, <2>2, <2>3 DEF StaticAnswers
<1>3. QED
  BY <1>1, <1>2, StaticInitial, PTL DEF StaticSpec
=============================================================================
