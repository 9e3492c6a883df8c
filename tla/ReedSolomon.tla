---------------------------- MODULE ReedSolomon ----------------------------
(***************************************************************************)
(* edi/reedsolo.py: the Reed-Solomon encoder and decoder.  A message is    *)
(* encoded, symbols of the block are corrupted or erased, and the block is *)
(* decoded.  The code's field of 256 elements, reduced by 0x11d, becomes   *)
(* one of 2^FieldBits elements, reduced by FieldPoly.  Polynomials are     *)
(* sequences of coefficients, the highest first.                           *)
(***************************************************************************)
EXTENDS Integers, Sequences, FiniteSets, SequencesExt, Bitwise

CONSTANTS
  FieldBits, FieldPoly,
  NSym,            \* parity symbols per chunk
  Messages,        \* messages to encode
  ErrorValues,     \* what a corrupted symbol is changed by
  MaxDamage        \* bound: 2 * errors + erasures

ASSUME RsAssumption ==
  /\ FieldBits \in 2..8 /\ FieldPoly > 2^FieldBits
  /\ NSym \in 1..(2^FieldBits - 2)
  /\ \A m \in Messages : Len(m) > 0

VARIABLES
  sent,      \* the message; empty before it is encoded
  fcr,       \* first consecutive root of the encoder
  encoded,   \* the encoded message
  block      \* the same, damaged; an erased symbol is negative

rsVars == <<sent, fcr, encoded, block>>

N == 2^FieldBits - 1
Field == 0..N
Erased == -1

XorTable == [x, y \in Field |-> x ^^ y]
XorAll(s) == FoldLeft(LAMBDA x, y : XorTable[x, y], 0, s)

\* The sequence itself, which TLC then evaluates once and not at each use.
Once(s) == << >> \o s

gf_exp ==
  LET power[i \in 0..(N - 1)] ==
        IF i = 0 THEN 1
        ELSE LET x == 2 * power[i - 1] IN IF x > N THEN x ^^ FieldPoly ELSE x
  IN [i \in 0..(2 * N + 1) |-> power[i % N]]

gf_log == [x \in Field |-> IF x = 0 THEN 0
                           ELSE CHOOSE i \in 0..(N - 1) : gf_exp[i] = x]

gf_mul == [x, y \in Field |->
             IF x = 0 \/ y = 0 THEN 0 ELSE gf_exp[gf_log[x] + gf_log[y]]]

gf_div == [x \in Field, y \in Field \ {0} |->
             IF x = 0 THEN 0 ELSE gf_exp[gf_log[x] + N - gf_log[y]]]

gf_poly_scale(p, x) == Once([i \in DOMAIN p |-> gf_mul[p[i], x]])

gf_poly_add(p, q) ==
  LET n == IF Len(p) > Len(q) THEN Len(p) ELSE Len(q)
      At(r, i) == IF i > n - Len(r) THEN r[i - (n - Len(r))] ELSE 0
  IN Once([i \in 1..n |-> XorTable[At(p, i), At(q, i)]])

gf_poly_mul(p, q) ==
  Once([k \in 1..(Len(p) + Len(q) - 1) |->
          XorAll([i \in DOMAIN p |->
                    IF k - i + 1 \in DOMAIN q THEN gf_mul[p[i], q[k - i + 1]]
                    ELSE 0])])

gf_poly_eval(p, x) ==
  FoldLeft(LAMBDA y, c : XorTable[gf_mul[y, x], c], 0, p)

rs_generator_poly(first) ==
  FoldLeft(LAMBDA g, i : gf_poly_mul(g, <<1, gf_exp[i]>>), <<1>>,
           [i \in 1..NSym |-> first + i - 1])
----------------------------------------------------------------------------
(* Encoding: the remainder of the message, shifted, by the generator. *)

rs_encode_msg(msg, first) ==
  LET gen == rs_generator_poly(first)
      Step(out, i) ==
        Once([n \in DOMAIN out |->
                IF n - i + 1 \in DOMAIN gen
                  THEN XorTable[out[n], gf_mul[gen[n - i + 1], out[i]]]
                  ELSE out[n]])
      rest == FoldLeft(Step, msg \o [i \in 1..NSym |-> 0],
                       [i \in DOMAIN msg |-> i])
  IN msg \o SubSeq(rest, Len(msg) + 1, Len(msg) + NSym)

\* data[i:i+size] for i in range(0, len(data), size)
Chunks(data, size) ==
  [c \in 1..((Len(data) + size - 1) \div size) |->
     SubSeq(data, (c - 1) * size + 1,
            IF c * size < Len(data) THEN c * size ELSE Len(data))]

Encode(data, first) ==
  LET chunks == Chunks(data, N - NSym)
  IN FlattenSeq([c \in DOMAIN chunks |-> rs_encode_msg(chunks[c], first)])
----------------------------------------------------------------------------
(* Decoding.  Positions in a block count from 1. *)

rs_calc_syndromes(msg) ==
  Once([i \in 1..NSym |-> gf_poly_eval(msg, gf_exp[i - 1])])

\* Berlekamp-Massey, then the roots of the error locator.  << -1 >> stands
\* for "too many errors" and for positions that cannot be found.
NotLocated == << -1 >>
Failed == << -1 >>    \* an exception

\* A discrepancy delta changes the locator, and what it is corrected with.
Corrected(err, old, delta) ==
  LET longer == Len(old) > Len(err)
      err2 == IF longer THEN gf_poly_scale(old, delta) ELSE err
      old2 == IF longer THEN gf_poly_scale(err, gf_div[1, delta]) ELSE old
  IN IF delta = 0 THEN [err |-> err, old |-> old]
     ELSE [err |-> gf_poly_add(err2, gf_poly_scale(old2, delta)), old |-> old2]

err_poly(synd) ==
  LET Delta(err, i) ==
        XorAll(<<synd[i]>> \o [j \in 1..(Len(err) - 1) |->
                                 gf_mul[err[Len(err) - j], synd[i - j]]])
      Step(polys, i) ==
        Corrected(polys.err, Append(polys.old, 0), Delta(polys.err, i))
  IN FoldLeft(Step, [err |-> <<1>>, old |-> <<1>>], [i \in DOMAIN synd |-> i]).err

Roots(poly, nmess) ==
  SelectSeq([i \in 1..nmess |-> nmess + 1 - i],
            LAMBDA p : gf_poly_eval(poly, gf_exp[N - nmess + p]) = 0)

LocatedBy(poly, err_pos, limit) ==
  IF (Len(poly) - 1) * 2 > limit \/ Len(err_pos) # Len(poly) - 1
    THEN NotLocated ELSE err_pos

rs_find_errors(synd, nmess) ==
  LET Located(poly) == LocatedBy(poly, Roots(poly, nmess), Len(synd))
  IN Located(err_poly(synd))

\* Mutant: the erasures are left in the syndromes.
rs_forney_syndromes_kept(synd, pos, nmess) ==
  SubSeq(synd, 1, Len(synd) - Len(pos))

\* The syndromes without what the erasures contribute.
rs_forney_syndromes(synd, pos, nmess) ==
  FoldLeft(LAMBDA f, p :
             Once([i \in 1..(Len(f) - 1) |->
                     XorTable[gf_mul[f[i], gf_exp[nmess - p]], f[i + 1]]]),
           synd, pos)

\* Forney's algorithm.  q has the positions as roots; X is the root of a
\* position.  The code divides by zero where an error was located at an
\* erasure: ZeroDivisionError instead of ReedSolomonError.
error_locator(pos, n) ==
  FoldLeft(LAMBDA g, p : gf_poly_mul(g, <<gf_exp[n - p], 1>>), <<1>>, pos)

error_evaluator(p, q) ==
  LET product == gf_poly_mul(Reverse(p), q)
  IN SubSeq(product, Len(product) - Len(p) + 1, Len(product))

derivative(q) ==
  Once([i \in 1..(Len(q) \div 2) |-> q[2 * i - 1 + (Len(q) % 2)]])

Divisor(q, X) == gf_mul[X, gf_poly_eval(derivative(q), gf_mul[X, X])]

Corrections(msg, pos, p, q) ==
  LET X == [i \in DOMAIN msg |-> gf_exp[i + N - Len(msg)]]
  IN IF \E i \in ToSet(pos) : Divisor(q, X[i]) = 0 THEN Failed
     ELSE Once([i \in DOMAIN msg |->
                  IF i \in ToSet(pos)
                    THEN XorTable[msg[i], gf_div[gf_poly_eval(p, X[i]),
                                                 Divisor(q, X[i])]]
                    ELSE msg[i]])

rs_correct_errata(msg, synd, pos) ==
  LET WithLocator(q) ==
        Corrections(msg, pos, error_evaluator(SubSeq(synd, 1, Len(pos)), q), q)
  IN WithLocator(error_locator(pos, Len(msg)))

AllZero(s) == \A i \in DOMAIN s : s[i] = 0

\* The message in a corrected block, or Failed where an exception is raised.
MessageOf(corrected) ==
  IF corrected = Failed THEN Failed
  ELSE IF AllZero(rs_calc_syndromes(corrected))
    THEN SubSeq(corrected, 1, Len(corrected) - NSym)
    ELSE Failed

WithErrors(msg, synd, erase_pos, err_pos) ==
  IF err_pos = NotLocated THEN Failed
  ELSE MessageOf(rs_correct_errata(msg, synd, erase_pos \o err_pos))

WithSyndromes(msg, synd, erase_pos) ==
  IF AllZero(synd) THEN SubSeq(msg, 1, Len(msg) - NSym)
  ELSE WithErrors(msg, synd, erase_pos,
         rs_find_errors(rs_forney_syndromes(synd, erase_pos, Len(msg)),
                        Len(msg)))

WithErasures(msg, erase_pos) ==
  IF Len(erase_pos) > NSym THEN Failed
  ELSE WithSyndromes(msg, rs_calc_syndromes(msg), erase_pos)

rs_correct_msg(msg_in) ==
  WithErasures(
    Once([i \in DOMAIN msg_in |-> IF msg_in[i] < 0 THEN 0 ELSE msg_in[i]]),
    SelectSeq([i \in DOMAIN msg_in |-> i], LAMBDA i : msg_in[i] < 0))

Decode(data) ==
  LET chunks == Chunks(data, N)
      Joined(parts) == IF Failed \in ToSet(parts) THEN Failed
                       ELSE FlattenSeq(parts)
  IN Joined([c \in DOMAIN chunks |-> rs_correct_msg(chunks[c])])
----------------------------------------------------------------------------
RsInit == sent = << >> /\ fcr = 0 /\ encoded = << >> /\ block = << >>

RsEncode(msg, first) ==
  /\ sent = << >>
  /\ sent' = msg
  /\ fcr' = first
  /\ encoded' = Encode(msg, first)
  /\ block' = encoded'

\* What a block has suffered: an error counts twice.
Damage(data, original) ==
  LET bad == {i \in DOMAIN data : data[i] # original[i]}
      erased == {i \in bad : data[i] = Erased}
  IN 2 * Cardinality(bad) - Cardinality(erased)

\* The damage of each chunk.
Damages(data, original) ==
  {Damage(Chunks(data, N)[c], Chunks(original, N)[c]) :
     c \in DOMAIN Chunks(data, N)}

\* A symbol of a block in memory or on the way is damaged; only of blocks that
\* the decoder knows (a bound: others are of interest undamaged).
RsDamage(i, symbol) ==
  /\ fcr = 0
  /\ block[i] = encoded[i]
  /\ block' = [block EXCEPT ![i] = symbol]
  /\ Damage(block', encoded) <= MaxDamage
  /\ UNCHANGED <<sent, fcr, encoded>>

RsNext ==
  \/ \E msg \in Messages, first \in {0, 1} : RsEncode(msg, first)
  \/ \E i \in DOMAIN block :
       \/ \E e \in ErrorValues : RsDamage(i, block[i] ^^ e)
       \/ RsDamage(i, Erased)

RsSpec == RsInit /\ [][RsNext]_rsVars
----------------------------------------------------------------------------
Correctable(d) == d <= NSym

\* Decoding gives the message back as long as no chunk has more than NSym
\* erasures, an error counting twice; a block beyond that is refused, or taken
\* for another message whose block it could be, damaged no more than that:
\* never is a message returned that does not belong to a block so near
\* (rs_encode_msg to RSCodec.decode, lines 117-254).  The decoder knows only
\* blocks encoded with fcr = 0; those encoded with 1 have the roots of 1.
RsCorrects ==
  sent # << >> =>
    LET result == Decode(block)
    IN /\ fcr = 0 =>
            /\ (\A d \in Damages(block, encoded) : Correctable(d))
                 => result = sent
            /\ result # Failed =>
                 \A d \in Damages(block, Encode(result, 0)) : Correctable(d)
       /\ fcr = 1 /\ block = encoded =>
            \A c \in DOMAIN Chunks(block, N), i \in 1..NSym :
              gf_poly_eval(Chunks(block, N)[c], gf_exp[i]) = 0
=============================================================================
