------------------------------- MODULE Params -------------------------------
(***************************************************************************)
(* The coefficients of the kernels (src/src/params.rs): JacobiParams::new  *)
(* and LaplacianParams::new over a binary floating-point format with       *)
(* subnormals.  A magnitude is counted in units of the smallest subnormal, *)
(* 1/2^UnitBits.  The exponents range over what those of an IEEE format do:*)
(* in f32 Digits is 24, UnitBits 149 and Exponents 253, so that reciprocals*)
(* overflow for some subnormals.                                           *)
(***************************************************************************)
EXTENDS Integers

CONSTANTS
    Digits,     \* of the significand
    UnitBits,   \* the smallest positive number is 1/2^UnitBits
    Exponents   \* the largest exponent of a significand, in units

ASSUME ParamsAssumption ==
    /\ Digits \in Nat /\ Digits >= 2 /\ UnitBits \in Nat /\ UnitBits >= Digits
    /\ Exponents = 2 * (UnitBits - Digits) + 3

Units == {m * 2^e : m \in 0 .. 2^Digits - 1, e \in 0 .. Exponents}
MaxUnits == (2^Digits - 1) * 2^Exponents
One == 2^(2 * UnitBits)     \* 1.0 in units of a unit

VARIABLES
    spacing,        \* the h_squared a caller asks for
    coefficient     \* inverse_h_squared, NaN for the error, or Unset

NaN == [kind |-> "nan"]
Unset == [kind |-> "unset"]
Infinity(negative) == [kind |-> "infinite", negative |-> negative]
Number(negative, units) == [kind |-> "finite", negative |-> negative, units |-> units]

Float ==
    {NaN} \cup {Infinity(s) : s \in BOOLEAN}
          \cup {Number(s, u) : s \in BOOLEAN, u \in Units}

Finite(x) == x.kind = "finite"
Negative(x) == x.kind # "nan" /\ x.negative /\ (Finite(x) => x.units # 0)
Positive(x) == x.kind # "nan" /\ ~x.negative /\ (Finite(x) => x.units # 0)

(* 1.0 / x, rounded to the nearest.                                        *)
Distance(n, u) == IF n * u > One THEN n * u - One ELSE One - n * u

Reciprocal(x) ==
    CASE x = NaN -> NaN
      [] x.kind = "infinite" -> Number(x.negative, 0)
      [] Finite(x) /\ x.units * (MaxUnits + 2^(Exponents - 1)) <= One -> Infinity(x.negative)
      [] OTHER -> Number(x.negative,
             CHOOSE n \in Units : \A k \in Units : Distance(n, x.units) <= Distance(k, x.units))

(* The parameter that is refused, or what the constructor keeps.           *)
JacobiNew(omega, h_squared) ==
    IF ~Finite(omega) THEN "omega"
    ELSE IF ~Finite(h_squared) \/ Negative(h_squared) THEN "h_squared"
    ELSE "ok"

(* Mutant: the reciprocal is not looked at.                                *)
LaplacianNewUnchecked(h_squared) ==
    IF ~Finite(h_squared) \/ ~Positive(h_squared) THEN NaN ELSE Reciprocal(h_squared)

LaplacianNew(h_squared) ==
    LET inverse_h_squared == Reciprocal(h_squared) IN
    IF ~Finite(h_squared) \/ ~Positive(h_squared) \/ ~Finite(inverse_h_squared)
    THEN NaN        \* the error
    ELSE inverse_h_squared

ParamsInit == spacing \in Float /\ coefficient = Unset

Construct ==
    /\ coefficient = Unset
    /\ coefficient' = LaplacianNew(spacing)
    /\ UNCHANGED spacing

-----------------------------------------------------------------------------
(* The coefficient that the Laplacian multiplies by is a positive finite   *)
(* number, although the code checks only that it is finite: none vanishes; *)
(* of the positive finite spacings only subnormal ones are refused; and a  *)
(* spacing of the Laplacian is one of a Jacobi step with any finite omega  *)
(* (params.rs).                                                            *)
CoefficientsUsable ==
    /\ coefficient \notin {Unset, NaN} =>
          /\ Finite(coefficient) /\ Positive(coefficient)
          /\ \A omega \in Float : Finite(omega) => JacobiNew(omega, spacing) = "ok"
    /\ coefficient = NaN /\ Finite(spacing) /\ Positive(spacing) =>
          spacing.units < 2^(Digits - 1)
=============================================================================
