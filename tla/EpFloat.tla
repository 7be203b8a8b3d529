------------------------------ MODULE EpFloat ------------------------------
(***************************************************************************)
(* The floating-point numbers of the wire: pack_float and pack_double of   *)
(* ep_encoder.c, unpack_float and unpack_double of ep_decoder.c.  A number *)
(* is its IEEE 754 pattern, a natural number: sign, exponent and mantissa  *)
(* bits.  The widths are constants, 8 and 23 for a float, 11 and 52 for a  *)
(* double.  An Erlang float is a finite double.                            *)
(*                                                                         *)
(* A behaviour packs a term into a field and reads it back, or reads a     *)
(* pattern that somebody else wrote.                                       *)
(***************************************************************************)
EXTENDS Integers

CONSTANTS
    Exponent,  \* bits of an exponent, by type
    Mantissa,  \* and of a mantissa
    IntWidth,  \* bits of the integers a field of the type takes: 32 and 64
    Terms      \* <<"float", pattern>>, <<"int", n>>, an atom or <<"other">>

\* Every float is a double, its subnormals are no subnormal doubles, and every
\* integer a field takes is in its range.  EpValue assumes it.
FormatAssumption ==
    /\ \A c \in {Exponent, Mantissa, IntWidth} : c \in [{"float", "double"} -> Nat \ {0}]
    /\ 2^(Exponent["float"] - 1) + Mantissa["float"] <= 2^(Exponent["double"] - 1)
    /\ Mantissa["float"] < Mantissa["double"]
    /\ \A t \in {"float", "double"} : IntWidth[t] <= 2^(Exponent[t] - 1)

Infinity == <<"infinity">>
MinInfinity == <<"-infinity">>
Nan == <<"nan">>
None == <<"none">>
Short == -1    \* fewer bytes than the type has

VARIABLES
    type,    \* "float" or "double"
    omits,   \* the field is a defaulty one of proto3
    term,    \* what is packed, None when the pattern is given
    wire,    \* the pattern on the wire, or Short
    phase,   \* "pack", "unpack", "absent", "read", "refused" or "rejected"
    got      \* the term that was read

vars == <<type, omits, term, wire, phase, got>>

-----------------------------------------------------------------------------
(* Patterns *)

SignBit(t) == 2^(Exponent[t] + Mantissa[t])
InfBits(t) == (2^Exponent[t] - 1) * 2^Mantissa[t]
NanBits(t) == InfBits(t) + 2^(Mantissa[t] - 1)
Patterns(t) == 0 .. 2 * SignBit(t) - 1
Finite(t) == {b \in Patterns(t) : b % SignBit(t) < InfBits(t)}

\* The exponent of the lowest bit there is: that of a subnormal.
Lowest(t) == 2 - 2^(Exponent[t] - 1) - Mantissa[t]

\* The absolute value of a pattern, in units of the lowest bit of a double;
\* for infinity, the power of two that comes after the greatest number.
Mag(b, t) ==
    LET unsigned == b % SignBit(t)
        e == unsigned \div 2^Mantissa[t]
        m == unsigned % 2^Mantissa[t]
    IN  (IF e = 0 THEN m ELSE (2^Mantissa[t] + m) * 2^(e - 1)) * 2^(Lowest(t) - Lowest("double"))

One == 2^(-Lowest("double"))
Abs(n) == IF n < 0 THEN -n ELSE n

\* Conversion rounds to the nearest number, of two to the even one.
Nearest(mag, t) ==
    LET low == CHOOSE b \in 0 .. InfBits(t) - 1 :
                   Mag(b, t) <= mag /\ (b = InfBits(t) - 1 \/ mag < Mag(b + 1, t))
        down == mag - Mag(low, t)
        up == Mag(low + 1, t) - mag
    IN  IF down < up \/ (down = up /\ low % 2 = 0) THEN low ELSE low + 1

WithSign(negative, b, t) == IF negative THEN SignBit(t) + b ELSE b
Convert(b, t, to) == WithSign(b >= SignBit(t), Nearest(Mag(b, t), to), to)

-----------------------------------------------------------------------------
(* Actions *)

Init ==
    /\ type \in {"float", "double"}
    /\ got = None
    /\ \/ term \in Terms /\ omits \in BOOLEAN /\ wire = Short /\ phase = "pack"
       \/ term = None /\ omits = FALSE /\ wire \in {Short} \cup Patterns(type) /\ phase = "unpack"

\* enif_get_double, enif_get_int or enif_get_int64, and three atoms.
Accepts(t) ==
    \/ t[1] = "float" \/ t \in {Infinity, MinInfinity, Nan}
    \/ t[1] = "int" /\ t[2] \in -2^(IntWidth[type] - 1) .. 2^(IntWidth[type] - 1) - 1

Bits(t) ==
    CASE t[1] = "float" -> Convert(t[2], "double", type)
      [] t[1] = "int" -> WithSign(t[2] < 0, Nearest(Abs(t[2]) * One, type), type)
      [] t = Infinity -> InfBits(type)
      [] t = MinInfinity -> WithSign(TRUE, InfBits(type), type)
      [] t = Nan -> NanBits(type)

\* Mutant: minus zero is taken for zero.
OmittedBothZeros == omits /\ Bits(term) \in {0, SignBit(type)}

\* val == 0.0 && !signbit(val); pack_field takes the tag back.
Omitted == omits /\ Bits(term) = 0

Pack ==
    /\ phase = "pack" /\ Accepts(term)
    /\ IF Omitted THEN phase' = "absent" /\ UNCHANGED wire ELSE phase' = "unpack" /\ wire' = Bits(term)
    /\ UNCHANGED <<type, omits, term, got>>

Refuse ==
    /\ phase = "pack" /\ ~Accepts(term)
    /\ phase' = "refused"
    /\ UNCHANGED <<type, omits, term, wire, got>>

\* Mutant: every exponent of ones is infinity.
IsInfinityByExponent(b) == b % SignBit(type) >= InfBits(type)

IsInfinity(b) == b % SignBit(type) = InfBits(type)

Value(b) ==
    CASE IsInfinity(b) -> IF b < SignBit(type) THEN Infinity ELSE MinInfinity
      [] ~IsInfinity(b) /\ b % SignBit(type) > InfBits(type) -> Nan
      [] OTHER -> <<"float", Convert(b, type, "double")>>

Unpack ==
    /\ phase = "unpack"
    /\ IF wire = Short THEN phase' = "rejected" /\ UNCHANGED got
       ELSE phase' = "read" /\ got' = Value(wire)
    /\ UNCHANGED <<type, omits, term, wire>>

FillDefault ==
    /\ phase = "absent"
    /\ got' = <<"float", 0>>
    /\ phase' = "read"
    /\ UNCHANGED <<type, omits, term, wire>>

Next == Pack \/ Refuse \/ Unpack \/ FillDefault
Spec == Init /\ [][Next]_vars

-----------------------------------------------------------------------------
(* Properties *)

\* The type invariant: a pattern has the bits of its type, a float that is
\* read is an Erlang float.
TypeOK ==
    /\ type \in {"float", "double"} /\ omits \in BOOLEAN
    /\ wire \in {Short} \cup Patterns(type)
    /\ phase \in {"pack", "unpack", "absent", "read", "refused", "rejected"}
    /\ \/ got \in {None, Infinity, MinInfinity, Nan}
       \/ got[1] = "float" /\ got[2] \in Finite("double")

\* The number of a pattern, and of a term, on one scale where zero has no sign.
NumberOf(b, t) == IF b < SignBit(t) THEN Mag(b, t) ELSE -Mag(b, t)
Number(t) == IF t[1] = "int" THEN t[2] * One ELSE NumberOf(t[2], "double")
Negative(t) == IF t[1] = "int" THEN t[2] < 0 ELSE t[2] >= SignBit("double")
Greatest(t) == Mag(InfBits(t) - 1, t)

\* Packing and reading, or leaving out and filling in, gives back the number:
\* itself where the type has it, and else one of the two next to it, with the
\* sign, of zero too; infinity only for what is beyond the greatest number.
\* The signbit test keeps -0.0, and a negative number too small for a float,
\* from being left out (ep_encoder.c:355, 399).
ReadsNearest ==
    term # None /\ phase = "read" =>
        CASE term \in {Infinity, MinInfinity, Nan} -> got = term
          [] term[1] \in {"float", "int"} /\ got \in {Infinity, MinInfinity} ->
                /\ got = IF Negative(term) THEN MinInfinity ELSE Infinity
                /\ Abs(Number(term)) > Greatest(type)
          [] OTHER ->
                /\ got[1] = "float" /\ Negative(got) = Negative(term)
                /\ \A b \in Finite(type) :
                     Abs(Number(got) - Number(term)) <= Abs(NumberOf(b, type) - Number(term))

\* What a pattern is read as is packed as the same pattern again; but each NaN is
\* read as nan.
ReadsEveryPattern ==
    term = None /\ phase = "read" =>
        IF wire % SignBit(type) > InfBits(type) THEN got = Nan
        ELSE got # Nan /\ Accepts(got) /\ Bits(got) = wire
=============================================================================
