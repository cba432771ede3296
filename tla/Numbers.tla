------------------------------- MODULE Numbers -------------------------------
(***************************************************************************)
(* What matrix.c, reg.c and kmeans.c compute.  A number is an integer, or  *)
(* Junk where the code has allocated memory and not written it: whatever   *)
(* is computed from Junk is Junk, and nobody may rely on it.               *)
(***************************************************************************)
EXTENDS Integers, Sequences, SequencesExt

CONSTANTS
  Junk,     \* a number read from memory that was not written
  Bad       \* an argument that does not parse as a number

ASSUME NumbersAssumption == Junk \notin Int /\ Bad \notin Int /\ Junk # Bad

Plus(x, y)  == IF Junk \in {x, y} THEN Junk ELSE x + y
Times(x, y) == IF Junk \in {x, y} THEN Junk ELSE x * y
Sum(s)      == FoldLeft(Plus, 0, s)

------------------------------------------------------------------------------
(* Arrays.  realloc keeps what fits of the old array, malloc and calloc    *)
(* have no old array.                                                      *)
Realloc(old, n) == [j \in 1 .. n |-> IF j <= Len(old) THEN old[j] ELSE Junk]
Malloc(n)       == [j \in 1 .. n |-> Junk]
Calloc(n)       == [j \in 1 .. n |-> 0]

(* RMUtil_ParseArgs with format "d": a target whose argument does not      *)
(* parse is left alone, and no handler looks at the result.                *)
Parse(arg, old) == IF arg = Bad THEN old ELSE arg

(* The argument loops of the handlers write args[1], args[2], ... into the *)
(* array from its start, as many as there are: what is written behind its  *)
(* end is no part of it (see Stray in KeySpace).                           *)
ParseAll(args, array) ==
  [j \in DOMAIN array |-> IF j <= Len(args) THEN Parse(args[j], array[j]) ELSE array[j]]

------------------------------------------------------------------------------
(* matrix.c, row-major.  A matrix is a record [rows, cols, values].        *)

(* Mutant of Dgemm: CblasTrans for b. *)
DgemmTrans(a, b) ==
  LET Row(j) == (j - 1) \div b.cols
      Col(j) == (j - 1) % b.cols
  IN  [j \in 1 .. a.rows * b.cols |->
         Sum([l \in 1 .. a.cols |-> Times(a.values[Row(j) * a.cols + l],
                                          b.values[Col(j) * a.cols + l])])]

(* The parameters that cblas_dgemm refuses of those that Matrix_Multiply   *)
(* gives it: a negative dimension, or a leading dimension, a.cols or       *)
(* b.cols, that is not positive.                                           *)
DgemmRefuses(a, b) == a.rows < 0 \/ a.cols <= 0 \/ b.cols <= 0

(* The cells of the operands that it reads lie in their arrays.            *)
DgemmInBounds(a, b) ==
  a.rows > 0 => a.rows * a.cols <= Len(a.values) /\ a.cols * b.cols <= Len(b.values)

(* What it computes if it does not refuse, and c is neither a nor b        *)
Dgemm(a, b) ==
  LET Row(j) == (j - 1) \div b.cols
      Col(j) == (j - 1) % b.cols
  IN  [j \in 1 .. a.rows * b.cols |->
         Sum([l \in 1 .. a.cols |-> Times(a.values[Row(j) * a.cols + l],
                                          b.values[(l - 1) * b.cols + Col(j) + 1])])]

Matrix_Add(a, b, c) ==
  [j \in DOMAIN c.values |->
     IF j <= a.rows * a.cols THEN Plus(a.values[j], b.values[j]) ELSE c.values[j]]

Matrix_Scale(a, n) ==
  [j \in DOMAIN a.values |->
     IF j <= a.rows * a.cols THEN Times(n, a.values[j]) ELSE a.values[j]]

------------------------------------------------------------------------------
(* reg.c and kmeans.c.  A logistic prediction is a function of the linear  *)
(* one; kmeans starts from DBL_MAX, which every distance is below.         *)

LinRegPredict(features, lr) ==
  Plus(Sum([j \in DOMAIN lr.coefficients |-> Times(features[j], lr.coefficients[j])]),
       lr.intercept)

LogRegPredict(features, lr) == <<"logistic", LinRegPredict(features, lr)>>

Dist(features, km, j) ==
  Sum([d \in 1 .. km.dimensions |->
         LET diff == Plus(features[d], Times(-1, km.centers[j * km.dimensions + d]))
         IN  Times(diff, diff)])

(* Mutant of Nearer: the last of several centres at the same distance. *)
NearerOrSame(features, km, best, j) ==
  best = -1 \/ Dist(features, km, j) <= Dist(features, km, best)

Nearer(features, km, best, j) == best = -1 \/ Dist(features, km, j) < Dist(features, km, best)

KmeansPredict(features, km) ==
  IF \E d \in DOMAIN km.centers : km.centers[d] = Junk THEN Junk
  ELSE FoldLeft(LAMBDA best, j : IF Nearer(features, km, best, j - 1) THEN j - 1 ELSE best,
                -1, [j \in 1 .. km.k |-> j])
==============================================================================
