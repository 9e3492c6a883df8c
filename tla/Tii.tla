-------------------------------- MODULE Tii --------------------------------
(***************************************************************************)
(* tii/tii.py and tii/analyse_tii_from_file.py: the transmitters of a      *)
(* single frequency network each send the carriers of their comb and       *)
(* pattern in the NULL symbol; the program finds the NULL symbol in a file *)
(* of samples and tells from the carriers in it who is on air.             *)
(*                                                                         *)
(* A sample is loud or silent, a carrier there or not; phases and delays   *)
(* are data.                                                               *)
(***************************************************************************)
EXTENDS Integers, Sequences, FiniteSets, FiniteSetsExt

CONSTANTS
  Transmitters,          \* (comb, pattern) of those that may be on air
  Fading,                \* carriers that may be lost on the way
  NullSize, SymbolsSize, \* samples in the NULL and in the other symbols
  FileSizes              \* samples in a file

Combs == 0..23
TiiPatterns == 0..69

ASSUME TiiAssumption ==
  /\ Transmitters \subseteq Combs \X TiiPatterns
  /\ NullSize \in Nat \ {0} /\ NullSize % 2 = 0
  /\ SymbolsSize \in Nat /\ SymbolsSize >= NullSize /\ FileSizes \subseteq Nat

VARIABLES
  onAir,     \* transmitters on air
  faded,     \* carriers that do not arrive
  offset,    \* where in a transmission frame the file begins
  size       \* samples in the file

tiiVars == <<onAir, faded, offset, size>>

Bit(word, b) == (word \div 2^(7 - b)) % 2

\* The rows of the table as binary numbers.
TII_PATTERN ==
  <<15, 23, 27, 29, 30, 39, 43, 45, 46, 51, 53, 54, 57, 58, 60, 71, 75,
    77, 78, 83, 85, 86, 89, 90, 92, 99, 101, 102, 105, 106, 108, 113, 114,
    116, 120, 135, 139, 141, 142, 147, 149, 150, 153, 154, 156, 163, 165,
    166, 169, 170, 172, 177, 178, 180, 184, 195, 197, 198, 201, 202, 204,
    209, 210, 212, 216, 225, 226, 228, 232, 240>>

Enabled(p) == {b \in 0..7 : Bit(TII_PATTERN[p + 1], b) = 1}

\* Carriers per quarter of the band, with the first carrier of each.
Base(k) == CASE -768 <= k /\ k < -384 -> -768
             [] -384 <= k /\ k < 0    -> -384
             [] 0 < k /\ k <= 384     -> 1
             [] 384 < k /\ k <= 768   -> 385

calculate_A_c_p(c, p, k) ==
  IF k \in {0, -769} THEN 0
  ELSE Cardinality({b \in Enabled(p) : k = Base(k) + 2 * c + 48 * b})

calculate_reduced_carrier_indices(c, p) ==
  {1 + 2 * c + 48 * b : b \in Enabled(p)} \cap 0..383

\* A table, computed once.
Reduced ==
  [cp \in Combs \X TiiPatterns |->
     calculate_reduced_carrier_indices(cp[1], cp[2])]

calculate_carrier_indices(c, p) ==
  LET pairs == Reduced[<<c, p>>] \cup {k + 1 : k \in Reduced[<<c, p>>]}
  IN pairs \cup {k - 769 : k \in pairs} \cup {k - 385 : k \in pairs}
           \cup {k + 384 : k \in pairs}

\* prepare_tii_patterns
all_tii_patterns ==
  [cp \in Combs \X TiiPatterns |-> calculate_carrier_indices(cp[1], cp[2])]
----------------------------------------------------------------------------
TiiInit == onAir = {} /\ faded = {} /\ offset = 0 /\ size = 0

\* A file is either looked at for its NULL symbol or for what is in it.
SwitchOn(cp) ==
  /\ size = 0
  /\ onAir' = onAir \cup {cp}
  /\ UNCHANGED <<faded, offset, size>>

Sent == UNION {all_tii_patterns[cp] : cp \in onAir}
Received == Sent \ faded

Fade(k) ==
  /\ faded' = faded \cup {k}
  /\ UNCHANGED <<onAir, offset, size>>

Record(first, length) ==
  /\ size = 0 /\ onAir = {}
  /\ offset' = first /\ size' = length
  /\ UNCHANGED <<onAir, faded>>

FrameSize == NullSize + SymbolsSize

TiiNext ==
  \/ \E cp \in Transmitters : SwitchOn(cp)
  \/ \E k \in Fading \cap Received : Fade(k)
  \/ \E first \in 0..(FrameSize - 1), length \in FileSizes :
       Record(first, length)

TiiSpec == TiiInit /\ [][TiiNext]_tiiVars
----------------------------------------------------------------------------
(* plot_tii_once: all carriers of one transmitter, or nobody. *)

Unknown == << >>

plot_tii_once ==
  IF Cardinality(Received) # 32 THEN Unknown
  ELSE LET found == {cp \in Combs \X TiiPatterns : all_tii_patterns[cp] = Received}
       IN IF found = {} THEN Unknown ELSE CHOOSE cp \in found : TRUE

(* algo1: the pairs of carriers of the four quarters, laid upon each other. *)

Pair(quarter, j) == {quarter + 2 * j, quarter + 2 * j + 1}

\* Mutant: the quarters begin where the carriers of the formula do, 1 lower.
PairsDetectedShifted ==
  {j \in 0..191 : \E quarter \in {-769, -385, 0, 384} :
                    Pair(quarter, j) \subseteq Received}

PairsDetected ==
  {j \in 0..191 : \E quarter \in {-768, -384, 1, 385} :
                    Pair(quarter, j) \subseteq Received}

algo1 ==
  LET carriers == {2 * j + 1 : j \in PairsDetected}
      cp_counts == [cp \in Combs \X TiiPatterns |->
                      Cardinality(carriers \cap Reduced[cp])]
  IN IF Cardinality(carriers) < 4 THEN {}
     ELSE {cp \in Combs \X TiiPatterns : cp_counts[cp] >= 4}

(* advance_to_null: half a NULL symbol of silence, then the first loud      *)
(* sample, and back by the length of a NULL symbol.                         *)

Loud(i) == (offset + i) % FrameSize >= NullSize
NotFound == size

\* An IndexError at the end of the file counts as not found.  A negative
\* result is taken from the end of the file.
advance_to_null ==
  LET half == NullSize \div 2
      Silent(i) == \A j \in i..(i + half - 1) : j < size => ~Loud(j)
      LoudAfter(i) == {j \in i..(i + NullSize - 1) : Loud(j)}
      starts == {i \in 0..(size - 1) :
                   /\ i % half = 0 /\ Silent(i)
                   /\ LoudAfter(i) # {} \/ i + NullSize > size}
      begin == Min(LoudAfter(Min(starts))) - NullSize
  IN IF \/ starts = {}
        \/ LoudAfter(Min(starts)) = {}
        \/ Min(LoudAfter(Min(starts))) >= size
       THEN NotFound
     ELSE IF begin < 0 THEN size + begin ELSE begin
----------------------------------------------------------------------------
\* The carriers of the standard's formula, computed once.
Formula ==
  [cp \in Transmitters |->
     {k \in -768..768 : calculate_A_c_p(cp[1], cp[2], k) = 1}]

\* Each pair of the transmitter's carriers arrives in some quarter.
Arrived(cp) ==
  \A b \in Enabled(cp[2]) :
    \E k \in Formula[cp] : /\ k - Base(k) = 2 * cp[1] + 48 * b
                          /\ {k, k + 1} \subseteq Received

DifferentCombs == \A cp, dq \in onAir : cp[1] = dq[1] => cp = dq

\* The short way to compute the carriers gives those of the standard, and a
\* single transmitter without fading is identified by them; every transmitter
\* each of whose pairs arrives somewhere is reported, and, as long as no two of
\* them share a comb, nobody else.
Identified ==
  /\ \A cp \in onAir :
       all_tii_patterns[cp] = Formula[cp] \cup {k + 1 : k \in Formula[cp]}
  /\ faded = {} => \A cp \in onAir :
                     onAir = {cp} => plot_tii_once = cp
  /\ \A cp \in onAir : Arrived(cp) => cp \in algo1
  /\ DifferentCombs => algo1 \subseteq onAir

\* The part of the file that is analysed begins with a NULL symbol, and one is
\* found wherever half of a NULL symbol and the next symbol's beginning are in
\* the file, unless the file begins within one.
AlignedToNull ==
  offset = 0 \/ offset >= NullSize =>
    /\ advance_to_null # NotFound =>
         (offset + advance_to_null) % FrameSize = 0
    /\ size > FrameSize + NullSize => advance_to_null # NotFound

\* Transmitters are told by their carriers, where the standard has them
\* (calculate_A_c_p lines 85-112, the indices lines 114-132, plot_tii_once
\* 253-306, algo1 360-410), and the NULL symbol they are in is found
\* (advance_to_null lines 202-212).
TiiIdentifies ==
  /\ onAir # {} => Identified
  /\ size > 0 => AlignedToNull
=============================================================================
