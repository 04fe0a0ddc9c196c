------------------------------- MODULE Floats -------------------------------
(***************************************************************************)
(* Floating-point numbers, as far as a kernel's choice of elements and     *)
(* order of operations is concerned. What a processor's arithmetic yields  *)
(* is a parameter: the model says which numbers meet in which operation.   *)
(***************************************************************************)
EXTENDS RowMajor

CONSTANTS
    Infinity, MinusInfinity, NaN,       \* what are not numbers
    Plus(_, _), Times(_, _), Over(_, _), Negative(_),
    Less(_, _),
    Exp(_), Sqrt(_), Raised(_, _),      \* e^x, the square root, x to the power n
    Cosine(_), Sine(_),                 \* of an angle,
    Angle(_, _)                         \* which a position and a frequency make

IsNumber(x) == x \notin {Infinity, MinusInfinity, NaN}
Minus(x, y) == Plus(x, Negative(y))
Larger(x, y) == IF Less(x, y) THEN y ELSE x
InverseSqrt(x) == Over(1, Sqrt(x))

\* Conversion to a type: 16-bit floats have fewer values, and a number becomes
\* the nearest of them, the even one of two that are equally near.
Nearest(x, unit) ==
    LET low == x \div unit
        rest == 2 * (x % unit)
    IN  unit * IF rest > unit \/ (rest = unit /\ low % 2 = 1) THEN low + 1 ELSE low
Rounded(x, dtype) ==
    CASE ~IsNumber(x) -> x
      [] dtype = "f16" -> Nearest(x, 2)
      [] dtype = "bf16" -> Nearest(x, 4)
      [] OTHER -> x

\* The operations that kernels are parameterised with.
Apply(operation, x, y) ==
    CASE operation = "add" -> Plus(x, y)
      [] operation = "sub" -> Minus(x, y)
      [] operation = "mul" -> Times(x, y)
      [] operation = "div" -> Over(x, y)
      [] operation = "maximum" -> Larger(x, y)
\* The same with a scalar operand y, on the left in "rsub" and "rdiv".
ApplyUnary(operation, x, y) ==
    CASE operation = "exp" -> Exp(x)
      [] operation = "sqrt" -> Sqrt(x)
      [] operation = "pow" -> Raised(x, y)
      [] operation = "rsub" -> Minus(y, x)
      [] operation = "rdiv" -> Over(y, x)
      [] OTHER -> Apply(operation, x, y)

SumOf(s) == Folded(Plus, 0, s)
LargestOf(s) == Folded(Larger, MinusInfinity, s)
MeanOf(s) == Over(SumOf(s), Len(s))
Square(x) == Times(x, x)
Summary(operation, s) ==
    CASE operation = "sum" -> SumOf(s)
      [] operation = "mean" -> MeanOf(s)
      [] operation = "max" -> LargestOf(s)
      [] operation = "variance" ->
            LET mean == MeanOf(s) IN MeanOf([i \in DOMAIN s |-> Square(Minus(s[i], mean))])
\* The first place (from 0) of the largest of a sequence.
ArgMax(s) ==
    Folded(LAMBDA best, i : IF Less(s[best + 1], s[i + 1]) THEN i ELSE best, 0,
             [i \in 1..Len(s) - 1 |-> i])
=============================================================================
