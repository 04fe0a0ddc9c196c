---------------------------- MODULE ModularFloats ----------------------------
(***************************************************************************)
(* An arithmetic for Floats in which different computations seldom agree   *)
(* by accident, and equal ones always do: exact, modulo the square of a    *)
(* prime, on representatives around zero so that small numbers compare as  *)
(* usual, with infinities and NaN. A wrong operand shows as another        *)
(* residue; rounding is left out. Modulo p*p, exp(x) = 1 + p*x turns sums  *)
(* into products.                                                          *)
(***************************************************************************)
EXTENDS Floats

Prime == 17
Modulus == Prime * Prime
Half == Modulus \div 2
Signed(n) == ((n + Half) % Modulus) - Half

NegativeMod(x) ==
    CASE x = NaN -> NaN
      [] x = Infinity -> MinusInfinity
      [] x = MinusInfinity -> Infinity
      [] OTHER -> Signed(-x)

PlusMod(x, y) ==
    CASE IsNumber(x) /\ IsNumber(y) -> Signed(x + y)
      [] NaN \in {x, y} \/ {x, y} = {Infinity, MinusInfinity} -> NaN
      [] OTHER -> IF IsNumber(x) THEN y ELSE x

LessMod(x, y) ==
    /\ NaN \notin {x, y}
    /\ x # y
    /\ \/ x = MinusInfinity \/ y = Infinity
       \/ IsNumber(x) /\ IsNumber(y) /\ x < y

TimesMod(x, y) ==
    CASE IsNumber(x) /\ IsNumber(y) -> Signed(x * y)
      [] NaN \in {x, y} \/ 0 \in {x, y} -> NaN
      [] OTHER -> IF LessMod(x, 0) = LessMod(y, 0) THEN Infinity ELSE MinusInfinity

RaisedMod(x, n) ==
    IF IsNumber(x) THEN Folded(LAMBDA a, b : Signed(a * x), 1, [i \in 1..n |-> i]) ELSE x

\* A number in 1..Modulus - 1 with a property of n, where there is one;
\* elsewhere any function of n that yields divisors.
Solutions(Solves(_, _)) ==
    LET solution(n) == LET r == {r \in 1..Modulus - 1 : Solves(r, n)}
                       IN  IF r = {} THEN 1 + Prime * n ELSE CHOOSE x \in r : TRUE
    IN  <<>> \o [n \in 1..Modulus - 1 |-> solution(n)]
Reciprocals == Solutions(LAMBDA r, n : (r * n) % Modulus = 1)
Roots == Solutions(LAMBDA r, n : r % Prime # 0 /\ (r * r) % Modulus = n)
OverMod(x, y) ==
    CASE NaN \in {x, y} \/ (~IsNumber(x) /\ ~IsNumber(y)) -> NaN
      [] y = 0 -> IF x = 0 THEN NaN ELSE IF LessMod(x, 0) THEN MinusInfinity ELSE Infinity
      [] ~IsNumber(y) -> 0
      [] OTHER -> TimesMod(x, Reciprocals[y % Modulus])

ExpMod(x) ==
    CASE x = MinusInfinity -> 0
      [] x \in {Infinity, NaN} -> x
      [] OTHER -> Signed(1 + Prime * x)

SqrtMod(x) == IF IsNumber(x) /\ x # 0 THEN Signed(Roots[x % Modulus]) ELSE x

\* Any functions of the angle with the values of cosine and sine at 0, and
\* any angle that tells positions and frequencies apart.
AngleOf(position, frequency) == position * (frequency + 1)
CosineMod(angle) == Signed(3 * angle + 1)
SineMod(angle) == Signed(5 * angle)
=============================================================================
