--------------------------- MODULE KeySpaceProofs ---------------------------
(***************************************************************************)
(* The values that the keys of module KeySpace hold, for any commands, any *)
(* keys and any reloads: their arrays have the lengths that the handlers   *)
(* trust, the replica has the master's, files keep them, and what is       *)
(* computed from them is what its definition says.                         *)
(***************************************************************************)
EXTENDS KeySpace, FoldTheorems

Num == Int \cup {Junk}

Positive == Nat \ {0}

Matrices ==
  {v \in [type : {"matrix"}, rows : Int, cols : Int, values : Seq(Num)] :
     v.rows > 0 /\ v.cols > 0 => Len(v.values) = v.rows * v.cols}

Regressions ==
  {v \in [type : {"regression"}, intercept : Num, coefficients : Seq(Num)] :
     Len(v.coefficients) >= 2}

KmeansModels ==
  {v \in [type : {"kmeans"}, k : Positive, dimensions : Positive, centers : Seq(Num)] :
     Len(v.centers) = v.k * v.dimensions}

ForestValues == {[type |-> "forest", trees |-> Forests[k]] : k \in DOMAIN Forests}

Values == Matrices \cup Regressions \cup KmeansModels \cup ForestValues \cup {Nothing}

Databases == [Keys -> Values]

WriteCommands == {c \in Commands : c.op \in Writes}

------------------------------------------------------------------------------
(* Numbers and arrays *)

(* Sums and products of numbers are numbers, Junk if either is.            *)
LEMMA PlusType == \A x, y \in Num : Plus(x, y) \in Num
BY NumbersAssumption DEF Num, Plus, NumbersAssumption

(* The same of products.                                                   *)
LEMMA TimesType == \A x, y \in Num : Times(x, y) \in Num
<1>1. SUFFICES ASSUME NEW x \in Num, NEW y \in Num, Junk \notin {x, y}
               PROVE  x * y \in Int
  BY DEF Num, Times
<1>2. x \in Int /\ y \in Int
  BY <1>1 DEF Num
<1>3. QED
  BY <1>2

(* The constants that the handlers write are numbers.                      *)
LEMMA NumElements == 0 \in Num /\ -1 \in Num /\ Junk \in Num
BY DEF Num

(* An argument that does not parse leaves the number that was there.       *)
LEMMA ParseType == \A arg \in Int \cup {Bad}, old \in Num : Parse(arg, old) \in Num
BY DEF Parse, Num

(* How many cells a loop visits, or realloc gives, that is told n *)
AtLeastNone(n) == IF n > 0 THEN n ELSE 0

(* A function on the places of n cells is an array.                        *)
LEMMA ArrayType ==
  ASSUME NEW n \in Int, NEW array \in [1 .. n -> Num]
  PROVE  array \in Seq(Num) /\ Len(array) = AtLeastNone(n)
<1>1. AtLeastNone(n) \in Nat /\ 1 .. n = 1 .. AtLeastNone(n)
  BY DEF AtLeastNone
<1>2. QED
  BY <1>1

(* An array that has been resized keeps the old numbers that fit.          *)
LEMMA ReallocType ==
  ASSUME NEW old \in Seq(Num), NEW n \in Int
  PROVE  /\ Realloc(old, n) \in Seq(Num) /\ Len(Realloc(old, n)) = AtLeastNone(n)
         /\ n \in Nat => Len(Realloc(old, n)) = n
         /\ \A j \in 1 .. n : j <= Len(old) => Realloc(old, n)[j] = old[j]
<1>1. \A j \in 1 .. n : (IF j <= Len(old) THEN old[j] ELSE Junk) \in Num
  BY NumElements
<1>2. Realloc(old, n) \in [1 .. n -> Num]
  BY <1>1 DEF Realloc
<1>3. AtLeastNone(n) \in Nat /\ 1 .. n = 1 .. AtLeastNone(n) /\ (n \in Nat => AtLeastNone(n) = n)
  BY DEF AtLeastNone
<1>4. Realloc(old, n) \in Seq(Num) /\ Len(Realloc(old, n)) = AtLeastNone(n)
  BY <1>2, <1>3
<1>5. QED
  BY <1>3, <1>4 DEF Realloc

(* New arrays have the length that was asked for.                          *)
LEMMA MallocType ==
  ASSUME NEW n \in Int
  PROVE  /\ Malloc(n) \in Seq(Num) /\ Len(Malloc(n)) = AtLeastNone(n)
         /\ n \in Nat => Len(Malloc(n)) = n
<1>1. Malloc(n) \in [1 .. n -> Num]
  BY NumElements DEF Malloc
<1>2. AtLeastNone(n) \in Nat /\ 1 .. n = 1 .. AtLeastNone(n) /\ (n \in Nat => AtLeastNone(n) = n)
  BY DEF AtLeastNone
<1>3. QED
  BY <1>1, <1>2

(* The same of cleared arrays.                                             *)
LEMMA CallocType ==
  ASSUME NEW n \in Nat
  PROVE  Calloc(n) \in Seq(Num) /\ Len(Calloc(n)) = n
<1>1. Calloc(n) \in [1 .. n -> Num]
  BY NumElements DEF Calloc
<1>2. QED
  BY <1>1

(* The arguments are read into an array of unchanged length.               *)
LEMMA ParseAllType ==
  ASSUME NEW args \in Arguments, NEW array \in Seq(Num)
  PROVE  ParseAll(args, array) \in Seq(Num) /\ Len(ParseAll(args, array)) = Len(array)
<1>1. \A j \in 1 .. Len(array) :
        (IF j <= Len(args) THEN Parse(args[j], array[j]) ELSE array[j]) \in Num
  <2>1. SUFFICES ASSUME NEW j \in 1 .. Len(array)
                 PROVE  (IF j <= Len(args) THEN Parse(args[j], array[j]) ELSE array[j]) \in Num
    OBVIOUS
  <2>2. array[j] \in Num /\ (j <= Len(args) => args[j] \in Int \cup {Bad})
    BY DEF Arguments
  <2>3. QED
    BY <2>2, ParseType
<1>2. DOMAIN array = 1 .. Len(array) /\ Len(array) \in Nat
  OBVIOUS
<1>3. ParseAll(args, array) \in [1 .. Len(array) -> Num]
  BY <1>1, <1>2 DEF ParseAll
<1>4. QED
  BY <1>2, <1>3

(* A sum is reached from 0 by adding one number after the other; it stays  *)
(* in every set that Plus stays in.                                        *)
LEMMA SumEnds ==
  ASSUME NEW V, 0 \in V, \A x, y \in V : Plus(x, y) \in V,
         NEW n \in Nat, NEW s \in [1 .. n -> V]
  PROVE  EndsIn(Sum(s), V, n, 0, [p \in (1 .. n) \X V |-> Plus(p[2], s[p[1]])])
<1> DEFINE Eqn(f) == f = [t \in SUBSET (1 .. n) |->
                            IF t = {} THEN 0 ELSE Plus(f[t \ {Max(t)}], s[Max(t)])]
           H == [p \in (1 .. n) \X V |-> Plus(p[2], s[p[1]])]
           g == CHOOSE f : Eqn(f)
<1>1. 0 \in V
  OBVIOUS
<1>2. H \in [(1 .. n) \X V -> V]
  <2>1. \A p \in (1 .. n) \X V : Plus(p[2], s[p[1]]) \in V
    <3>1. SUFFICES ASSUME NEW p \in (1 .. n) \X V PROVE Plus(p[2], s[p[1]]) \in V
      OBVIOUS
    <3>2. p[2] \in V /\ s[p[1]] \in V
      OBVIOUS
    <3>3. QED
      BY <3>2
  <2>2. QED
    BY <2>1
<1>3. PICK f \in [SUBSET (1 .. n) -> V] : Folds(f, n, 0, H)
  <2> HIDE DEF H
  <2>1. QED
    BY <1>1, <1>2, FoldExists DEF HasFold
<1>4. Eqn(f)
  <2>1. \A t \in SUBSET (1 .. n) :
          f[t] = IF t = {} THEN 0 ELSE Plus(f[t \ {Max(t)}], s[Max(t)])
    <3>1. SUFFICES ASSUME NEW t \in SUBSET (1 .. n), t # {}
                   PROVE  f[t] = Plus(f[t \ {Max(t)}], s[Max(t)])
      BY <1>3 DEF Folds
    <3>2. Max(t) \in 1 .. n /\ t \ {Max(t)} \in SUBSET (1 .. n)
      BY <3>1, MaxOfSubset
    <3>3. f[t] = H[<<Max(t), f[t \ {Max(t)}]>>]
      BY <3>1, <1>3 DEF Folds
    <3>4. QED
      BY <3>2, <3>3
  <2>2. QED
    BY <2>1
<1>5. Eqn(g)
  BY <1>4
<1>6. Sum(s) = g[1 .. n]
  <2>1. DOMAIN s = 1 .. n
    OBVIOUS
  <2>2. QED
    BY <2>1 DEF Sum, FoldLeft, MapThenFoldSet
<1>7. Follows(g, V, n, 0, H)
  <2>1. g[{}] = 0
    BY <1>5
  <2>2. ASSUME NEW t \in SUBSET (1 .. n), t # {}, g[t \ {Max(t)}] \in V
        PROVE  g[t] = H[<<Max(t), g[t \ {Max(t)}]>>]
    <3>1. Max(t) \in 1 .. n
      BY <2>2, MaxOfSubset
    <3>2. g[t] = Plus(g[t \ {Max(t)}], s[Max(t)])
      BY <1>5, <2>2
    <3> HIDE DEF g
    <3>3. QED
      BY <2>2, <3>1, <3>2
  <2>3. QED
    BY <2>1, <2>2 DEF Follows
<1>8. QED
  <2> HIDE DEF g, H
  <2>1. EndsIn(g[1 .. n], V, n, 0, H)
    BY <1>1, <1>2, <1>7, FoldGoes
  <2>2. QED
    BY <2>1, <1>6 DEF H

(* A sum of numbers is a number, by induction over the fold.               *)
LEMMA SumType ==
  ASSUME NEW n \in Nat, NEW s \in [1 .. n -> Num]
  PROVE  Sum(s) \in Num
<1>1. EndsIn(Sum(s), Num, n, 0, [p \in (1 .. n) \X Num |-> Plus(p[2], s[p[1]])])
  BY NumElements, PlusType, SumEnds
<1>2. QED
  BY <1>1 DEF EndsIn, Goes

(* A sum without Junk is an integer.                                       *)
LEMMA IntegerSum ==
  ASSUME NEW n \in Nat, NEW s \in [1 .. n -> Int]
  PROVE  Sum(s) \in Int
<1>1. \A x, y \in Int : Plus(x, y) \in Int
  BY NumbersAssumption DEF NumbersAssumption, Plus
<1> DEFINE V == Int
<1>2. 0 \in V /\ s \in [1 .. n -> V] /\ \A x, y \in V : Plus(x, y) \in V
  BY <1>1
<1> HIDE DEF V
<1>3. EndsIn(Sum(s), V, n, 0, [p \in (1 .. n) \X V |-> Plus(p[2], s[p[1]])])
  BY <1>2, SumEnds
<1>4. QED
  BY <1>3 DEF EndsIn, Goes, V

------------------------------------------------------------------------------
(* Cells of a matrix, row-major                                            *)

(* Z3 does not find these facts of arithmetic beside others.               *)
LEMMA ProductType == \A r, c \in Nat : r * c \in Nat
OBVIOUS

(* Whole numbers have a whole product, positive if both are.               *)
LEMMA ProductSign ==
  ASSUME NEW r \in Int, NEW c \in Int
  PROVE  r * c \in Int /\ (r > 0 /\ c > 0 => r * c > 0)
OBVIOUS

(* It is positive only if both are, or if both are negative.               *)
LEMMA SignsOfProduct ==
  ASSUME NEW r \in Int, NEW c \in Int, r * c > 0
  PROVE  (r > 0 /\ c > 0) \/ (r < 0 /\ c < 0)
<1>1. CASE r > 0 /\ c <= 0
  <2>1. r * (-c) >= 0
    <3>1. r \in Nat /\ -c \in Nat
      BY <1>1
    <3>2. QED
      BY <3>1, ProductType
  <2>2. r * (-c) = -(r * c)
    OBVIOUS
  <2>3. r * c \in Int
    OBVIOUS
  <2>4. QED
    BY <2>1, <2>2, <2>3
<1>2. CASE r < 0 /\ c >= 0
  <2>1. (-r) * c >= 0
    <3>1. -r \in Nat /\ c \in Nat
      BY <1>2
    <3>2. QED
      BY <3>1, ProductType
  <2>2. (-r) * c = -(r * c)
    OBVIOUS
  <2>3. r * c \in Int
    OBVIOUS
  <2>4. QED
    BY <2>1, <2>2, <2>3
<1>3. CASE r = 0
  BY <1>3
<1>4. QED
  BY <1>1, <1>2, <1>3

(* The cells of a matrix with r rows and c columns are 1 .. r * c.         *)
LEMMA CellInRange ==
  ASSUME NEW r \in Nat, NEW c \in Nat, NEW i \in 1 .. r, NEW l \in 1 .. c
  PROVE  (i - 1) * c + l \in 1 .. r * c
<1>1. r * c = (i - 1) * c + (r - i) * c + c
  OBVIOUS
<1>2. (i - 1) * c \in Nat /\ (r - i) * c \in Nat
  <2>1. i - 1 \in Nat /\ r - i \in Nat
    OBVIOUS
  <2>2. QED
    BY <2>1, ProductType
<1>3. QED
  BY <1>1, <1>2

(* Quotient and remainder, of which row and column of a cell are made.     *)
LEMMA DivMod ==
  ASSUME NEW n \in Nat, NEW c \in Nat, c > 0
  PROVE  n = (n \div c) * c + (n % c) /\ n % c \in 0 .. c - 1 /\ n \div c \in Nat
OBVIOUS

(* They are determined by the position of the cell.                        *)
LEMMA DivUnique ==
  ASSUME NEW q \in Nat, NEW c \in Nat, NEW m \in 0 .. c - 1
  PROVE  (q * c + m) \div c = q /\ (q * c + m) % c = m
OBVIOUS

(* A cell of an r times c matrix has a row and a column.                   *)
LEMMA RowOf ==
  ASSUME NEW r \in Nat, NEW c \in Nat, NEW j \in 1 .. r * c
  PROVE  c > 0 /\ (j - 1) \div c + 1 \in 1 .. r /\ ((j - 1) % c) + 1 \in 1 .. c
<1>1. c > 0
  OBVIOUS
<1>2. (j-1) \div c < r
  <2> DEFINE q == (j-1) \div c
  <2>1. q \in Nat /\ j - 1 = q * c + ((j - 1) % c) /\ (j - 1) % c \in 0 .. c - 1
    BY <1>1, DivMod
  <2>2. SUFFICES ASSUME q >= r PROVE FALSE
    BY <2>1
  <2>3. (q - r) * c \in Nat
    BY <2>1, <2>2, ProductType
  <2>4. q * c = (q - r) * c + r * c
    BY <2>1
  <2> HIDE DEF q
  <2>5. r * c \in Nat /\ (j - 1) % c \in Nat
    BY <2>1, ProductType
  <2>6. j - 1 < r * c
    BY <2>5
  <2>7. QED
    BY <2>1, <2>3, <2>4, <2>5, <2>6
<1>3. QED
  BY <1>1, <1>2, DivMod

------------------------------------------------------------------------------
(* What a key holds, by its type                                           *)

(* The type field tells what the value is.                                 *)
LEMMA ByType ==
  ASSUME NEW v \in Values
  PROVE  /\ v.type = "matrix" => v \in Matrices
         /\ v.type = "regression" => v \in Regressions
         /\ v.type = "kmeans" => v \in KmeansModels
         /\ v.type = "forest" => v \in ForestValues
         /\ v.type = "none" => v = Nothing
BY DEF Values, Matrices, Regressions, KmeansModels, ForestValues, Nothing

(* The values of each type have that type in their type field.             *)
LEMMA TypeOf ==
  /\ \A v \in Matrices : v.type = "matrix"
  /\ \A v \in Regressions : v.type = "regression"
  /\ \A v \in KmeansModels : v.type = "kmeans"
  /\ \A v \in ForestValues : v.type = "forest"
  /\ Nothing.type = "none"
BY DEF Matrices, Regressions, KmeansModels, ForestValues, Nothing

(* What realloc finds of an old value is an array of numbers.              *)
LEMMA OldValuesType ==
  ASSUME NEW v \in Values
  PROVE  OldValues(v) \in Seq(Num)
<1>1. CASE v.type = "matrix"
  BY <1>1, ByType DEF OldValues, Matrices
<1>2. CASE v.type = "regression"
  BY <1>2, ByType DEF OldValues, Regressions
<1>3. CASE v.type = "kmeans"
  BY <1>3, ByType DEF OldValues, KmeansModels
<1>4. CASE v.type \notin {"matrix", "regression", "kmeans"}
  BY <1>4 DEF OldValues
<1>5. QED
  BY <1>1, <1>2, <1>3, <1>4

(* With as many values as cells, a matrix is well formed.                  *)
LEMMA MatrixType ==
  ASSUME NEW r \in Int, NEW c \in Int, NEW vs \in Seq(Num),
         r > 0 /\ c > 0 => Len(vs) = r * c
  PROVE  Matrix(r, c, vs) \in Matrices
BY DEF Matrix, Matrices

(* A regression with at least two coefficients is well formed.             *)
LEMMA LinRegType ==
  ASSUME NEW i \in Num, NEW cs \in Seq(Num), Len(cs) >= 2
  PROVE  LinReg(i, cs) \in Regressions
BY DEF LinReg, Regressions

(* A model with k centers of n numbers is well formed.                     *)
LEMMA KmeansType ==
  ASSUME NEW k \in Positive, NEW n \in Positive, NEW cs \in Seq(Num), Len(cs) = k * n
  PROVE  Kmeans(k, n, cs) \in KmeansModels
BY DEF Kmeans, KmeansModels

(* A handler refuses its command and changes nothing, or stores a value    *)
(* of type in its key, which held nothing or a value of that type.         *)
Refused(d, r) == r.reply # "OK" /\ r.db = d

Stored(d, c, r, type) ==
  /\ CanHold(d, c.key, type)
  /\ r.db[c.key] \in Values /\ r.db[c.key].type = type
  /\ r.db = [d EXCEPT ![c.key] = r.db[c.key]]

(* A matrix whose array has its cells and nothing else: what comes back    *)
(* from a file as it was.                                                  *)
Exact(v) == v.type = "matrix" => Len(v.values) = AtLeastNone(v.rows * v.cols)

(* A handler that leaves its arrays has stored nothing.                    *)
LEMMA StrayRefused == \A d : Refused(d, Stray(d))
BY DEF Refused, Stray, Result

(* A handler that replies OK stores its result in the key of the command.  *)
LEMMA OKStores ==
  ASSUME NEW d \in Databases, NEW c \in WriteCommands, NEW v \in Values, CanHold(d, c.key, v.type)
  PROVE  Stored(d, c, OK(d, c.key, v), v.type) /\ OK(d, c.key, v).reply = "OK"
<1>1. c.key \in Keys /\ d \in [Keys -> Values]
  BY KeySpaceAssumption DEF KeySpaceAssumption, WriteCommands, Databases
<1>2. OK(d, c.key, v).db = [d EXCEPT ![c.key] = v] /\ OK(d, c.key, v).reply = "OK"
  BY DEF OK, Result
<1>3. OK(d, c.key, v).db[c.key] = v
  BY <1>1, <1>2
<1>4. QED
  BY <1>2, <1>3 DEF Stored

(* The array that a handler fills with its arguments *)
LEMMA StoredArray ==
  ASSUME NEW v \in Values, NEW args \in Arguments, NEW n \in Nat
  PROVE  /\ ParseAll(args, Realloc(OldValues(v), n)) \in Seq(Num)
         /\ Len(ParseAll(args, Realloc(OldValues(v), n))) = n
<1> DEFINE array == Realloc(OldValues(v), n)
<1>1. OldValues(v) \in Seq(Num)
  BY OldValuesType
<1>2. array \in Seq(Num) /\ Len(array) = n
  <2>1. n \in Int
    OBVIOUS
  <2>2. QED
    BY <1>1, <2>1, ReallocType
<1> HIDE DEF array
<1>3. ParseAll(args, array) \in Seq(Num) /\ Len(ParseAll(args, array)) = Len(array)
  BY <1>2, ParseAllType
<1>4. QED
  BY <1>2, <1>3 DEF array

(* ML.LINREG.SET is refused or stores what it was given, with one number   *)
(* more.                                                                   *)
LEMMA LinRegSetEffect ==
  ASSUME NEW d \in Databases, NEW c \in WriteCommands, c.op = "LINREG.SET"
  PROVE  \/ Refused(d, LinRegSet(d, c))
         \/ /\ Stored(d, c, LinRegSet(d, c), "regression")
            /\ LinRegSet(d, c).reply = "OK"
            /\ Len(c.args) >= 2
            /\ LinRegSet(d, c).db[c.key] =
                 LinReg(Parse(c.args[1], IF d[c.key] = Nothing THEN Junk ELSE d[c.key].intercept),
                        ParseAll(Tail(c.args), Realloc(OldValues(d[c.key]), Len(c.args))))
<1>1. c.key \in Keys /\ c.args \in Arguments /\ d[c.key] \in Values
  BY KeySpaceAssumption DEF KeySpaceAssumption, WriteCommands, Databases
<1>2. CASE Len(c.args) < 2 \/ ~CanHold(d, c.key, "regression")
  BY <1>2 DEF LinRegSet, Result, Refused
<1>3. CASE Len(c.args) >= 2 /\ CanHold(d, c.key, "regression")
  <2> DEFINE i == Parse(c.args[1], IF d[c.key] = Nothing THEN Junk ELSE d[c.key].intercept)
             cs == ParseAll(Tail(c.args), Realloc(OldValues(d[c.key]), Len(c.args)))
  <2>1. LinRegSet(d, c) = OK(d, c.key, LinReg(i, cs))
    BY <1>1, <1>3 DEF LinRegSet, Arguments
  <2>2. i \in Num
    <3>1. CASE d[c.key] = Nothing
      <4>1. c.args[1] \in Int \cup {Bad}
        BY <1>1, <1>3 DEF Arguments
      <4>2. QED
        BY <3>1, <4>1, ParseType, NumElements
    <3>2. CASE d[c.key] # Nothing
      <4>1. d[c.key] \in Regressions
        BY <1>1, <1>3, <3>2, ByType DEF CanHold
      <4>2. c.args[1] \in Int \cup {Bad} /\ d[c.key].intercept \in Num
        BY <1>1, <1>3, <4>1 DEF Arguments, Regressions
      <4>3. QED
        BY <3>2, <4>2, ParseType
    <3>3. QED
      BY <3>1, <3>2
  <2>3. Len(c.args) \in Nat /\ Tail(c.args) \in Arguments
    BY <1>1, <1>3 DEF Arguments
  <2>4. cs \in Seq(Num) /\ Len(cs) = Len(c.args)
    BY <1>1, <2>3, StoredArray
  <2> HIDE DEF i, cs
  <2>5. LinReg(i, cs) \in Regressions
    BY <1>3, <2>2, <2>3, <2>4, LinRegType
  <2>6. LinReg(i, cs) \in Values /\ LinReg(i, cs).type = "regression"
    BY <2>5, TypeOf DEF Values
  <2>7. Stored(d, c, LinRegSet(d, c), "regression") /\ LinRegSet(d, c).reply = "OK"
    BY <1>3, <2>1, <2>6, OKStores
  <2>8. LinRegSet(d, c).db[c.key] = LinReg(i, cs)
    BY <1>1, <2>1 DEF OK, Result, Databases
  <2>9. QED
    BY <1>3, <2>7, <2>8 DEF i, cs
<1>4. QED
  <2>1. Len(c.args) \in Nat
    BY <1>1 DEF Arguments
  <2>2. QED
    BY <1>2, <1>3, <2>1

(* ML.KMEANS.SET is refused or stores a model.                             *)
LEMMA KmeansSetEffect ==
  ASSUME NEW d \in Databases, NEW c \in WriteCommands, c.op = "KMEANS.SET"
  PROVE  \/ Refused(d, KmeansSet(d, c))
         \/ Stored(d, c, KmeansSet(d, c), "kmeans") /\ KmeansSet(d, c).reply = "OK"
<1>1. /\ c.key \in Keys /\ c.args \in Arguments /\ d[c.key] \in Values
      /\ c.k \in Int /\ c.dimensions \in Int
  BY KeySpaceAssumption DEF KeySpaceAssumption, WriteCommands, Databases
<1> DEFINE wrong == c.k <= 0 \/ c.dimensions <= 0 \/ c.k * c.dimensions # Len(c.args)
<1>2. CASE wrong \/ ~CanHold(d, c.key, "kmeans")
  BY <1>2 DEF KmeansSet, Result, Refused
<1>3. CASE ~wrong /\ CanHold(d, c.key, "kmeans")
  <2> DEFINE cs == ParseAll(c.args, Realloc(OldValues(d[c.key]), Len(c.args)))
  <2>1. KmeansSet(d, c) = OK(d, c.key, Kmeans(c.k, c.dimensions, cs))
    BY <1>3 DEF KmeansSet
  <2>2. Len(c.args) \in Nat
    BY <1>1 DEF Arguments
  <2>3. cs \in Seq(Num) /\ Len(cs) = Len(c.args)
    BY <1>1, <2>2, StoredArray
  <2>4. c.k \in Positive /\ c.dimensions \in Positive
    BY <1>1, <1>3 DEF Positive
  <2>5. Len(cs) = c.k * c.dimensions
    BY <1>3, <2>3
  <2> HIDE DEF cs
  <2>6. Kmeans(c.k, c.dimensions, cs) \in KmeansModels
    BY <2>3, <2>4, <2>5, KmeansType
  <2>7. /\ Kmeans(c.k, c.dimensions, cs) \in Values
        /\ Kmeans(c.k, c.dimensions, cs).type = "kmeans"
    BY <2>6, TypeOf DEF Values
  <2>8. QED
    BY <1>3, <2>1, <2>7, OKStores
<1>4. QED
  BY <1>2, <1>3

(* ML.MATRIX.SET is the one handler that may fail after it has written.    *)
LEMMA MatrixSetEffect ==
  ASSUME NEW d \in Databases, NEW c \in WriteCommands, c.op = "MATRIX.SET"
  PROVE  \/ Refused(d, MatrixSet(d, c))
         \/ /\ Stored(d, c, MatrixSet(d, c), "matrix")
            /\ MatrixSet(d, c).reply # "OK" => c.rows <= 0 \/ c.cols <= 0
            /\ MatrixSet(d, c).reply = "OK" => Exact(MatrixSet(d, c).db[c.key])
<1>1. /\ c.key \in Keys /\ c.args \in Arguments /\ d[c.key] \in Values
      /\ c.rows \in Int /\ c.cols \in Int
  BY KeySpaceAssumption DEF KeySpaceAssumption, WriteCommands, Databases
<1>2. CASE \/ ~CanHold(d, c.key, "matrix")
           \/ ~(c.rows <= 0 \/ c.cols <= 0) /\ Len(c.args) > c.rows * c.cols
  BY <1>2 DEF MatrixSet, Result, Refused, Stray
<1>3. CASE CanHold(d, c.key, "matrix") /\ (c.rows <= 0 \/ c.cols <= 0)
  <2> DEFINE v == Matrix(c.rows, c.cols, OldValues(d[c.key]))
  <2>3. v \in Matrices
    <3>1. OldValues(d[c.key]) \in Seq(Num) /\ ~(c.rows > 0 /\ c.cols > 0)
      BY <1>1, <1>3, OldValuesType
    <3>2. QED
      BY <1>1, <3>1, MatrixType
  <2>4. MatrixSet(d, c) = Result(OK(d, c.key, v).db, "BAD_DIMENTIONS")
    BY <1>3 DEF MatrixSet, Result, OK
  <2> HIDE DEF v
  <2>5. v \in Values /\ v.type = "matrix"
    BY <2>3, TypeOf DEF Values
  <2>6. Stored(d, c, OK(d, c.key, v), "matrix")
    BY <1>3, <2>5, OKStores
  <2>7. QED
    BY <1>3, <2>4, <2>6 DEF Stored, Result
<1>4. CASE /\ CanHold(d, c.key, "matrix") /\ ~(c.rows <= 0 \/ c.cols <= 0)
           /\ ~(Len(c.args) > c.rows * c.cols)
  <2> DEFINE n == c.rows * c.cols
             vs == ParseAll(c.args, Realloc(OldValues(d[c.key]), n))
  <2>1. MatrixSet(d, c) = OK(d, c.key, Matrix(c.rows, c.cols, vs))
    BY <1>4 DEF MatrixSet
  <2>2. n \in Nat
    <3>1. c.rows \in Nat /\ c.cols \in Nat
      BY <1>1, <1>4
    <3>2. QED
      BY <3>1, ProductType
  <2>3. vs \in Seq(Num) /\ Len(vs) = n
    <3> HIDE DEF n
    <3>1. QED
      BY <1>1, <2>2, StoredArray
  <2> HIDE DEF vs
  <2>4. Matrix(c.rows, c.cols, vs) \in Matrices
    BY <1>1, <2>3, MatrixType
  <2>5. /\ Matrix(c.rows, c.cols, vs) \in Values
        /\ Matrix(c.rows, c.cols, vs).type = "matrix"
    BY <2>4, TypeOf DEF Values
  <2>6. Exact(Matrix(c.rows, c.cols, vs))
    <3>1. AtLeastNone(n) = n
      <4> HIDE DEF n
      <4>1. QED
        BY <2>2 DEF AtLeastNone
    <3>2. QED
      BY <2>3, <3>1 DEF Exact, Matrix
  <2>7. OK(d, c.key, Matrix(c.rows, c.cols, vs)).db[c.key] = Matrix(c.rows, c.cols, vs)
    BY <1>1 DEF OK, Result, Databases
  <2>8. QED
    BY <1>4, <2>1, <2>5, <2>6, <2>7, OKStores
<1>5. QED
  BY <1>2, <1>3, <1>4

(* The operands of ML.MATRIX.MULTIPLY and ADD, after c has been resized    *)
LEMMA ResizedType ==
  ASSUME NEW d \in Databases, NEW c \in WriteCommands, c.op \in {"MATRIX.MULTIPLY", "MATRIX.ADD"},
         Holds(d, c.a, "matrix"), Holds(d, c.b, "matrix")
  PROVE  /\ d[c.a] \in Matrices /\ d[c.b] \in Matrices
         /\ Resized(d, c)[c.key] = Matrix(d[c.a].rows, d[c.b].cols,
              Realloc(OldValues(d[c.key]), d[c.a].rows * d[c.b].cols))
         /\ Resized(d, c)[c.key] \in Matrices
         /\ Resized(d, c) = [d EXCEPT ![c.key] = Resized(d, c)[c.key]]
         /\ Len(Resized(d, c)[c.key].values) = AtLeastNone(d[c.a].rows * d[c.b].cols)
<1> DEFINE rows == d[c.a].rows
           cols == d[c.b].cols
           n == rows * cols
           vs == Realloc(OldValues(d[c.key]), n)
<1>1. c.key \in Keys /\ c.a \in Keys /\ c.b \in Keys /\ d \in [Keys -> Values]
  BY KeySpaceAssumption DEF KeySpaceAssumption, WriteCommands, Databases
<1>2. d[c.a] \in Matrices /\ d[c.b] \in Matrices
  BY <1>1, ByType DEF Holds
<1>3. rows \in Int /\ cols \in Int
  BY <1>2 DEF Matrices
<1>4. n \in Int /\ (rows > 0 /\ cols > 0 => AtLeastNone(n) = n)
  <2>1. n \in Int /\ (rows > 0 /\ cols > 0 => n > 0)
    BY <1>3, ProductSign
  <2> HIDE DEF n
  <2>2. QED
    BY <2>1 DEF AtLeastNone
<1>5. vs \in Seq(Num) /\ Len(vs) = AtLeastNone(n)
  <2> HIDE DEF n
  <2>1. OldValues(d[c.key]) \in Seq(Num)
    BY <1>1, OldValuesType
  <2>2. QED
    BY <1>4, <2>1, ReallocType
<1>6. Resized(d, c) = [d EXCEPT ![c.key] = Matrix(rows, cols, vs)]
  BY DEF Resized
<1> HIDE DEF vs
<1>7. Matrix(rows, cols, vs) \in Matrices
  <2>1. rows > 0 /\ cols > 0 => Len(vs) = rows * cols
    BY <1>4, <1>5
  <2>2. QED
    BY <1>3, <1>5, <2>1, MatrixType
<1>8. Resized(d, c)[c.key] = Matrix(rows, cols, vs)
  BY <1>1, <1>6
<1>9. Matrix(rows, cols, vs).values = vs
  BY DEF Matrix
<1>10. QED
  BY <1>2, <1>5, <1>6, <1>7, <1>8, <1>9 DEF vs

(* The product has the cells of the textbook. *)
LEMMA DgemmCells ==
  ASSUME NEW a \in Matrices, NEW b \in Matrices, b.rows = a.cols, ~DgemmRefuses(a, b)
  PROVE  /\ Dgemm(a, b) \in Seq(Num) /\ Len(Dgemm(a, b)) = a.rows * b.cols
         /\ \A i \in 1 .. a.rows, j \in 1 .. b.cols :
              Dgemm(a, b)[(i - 1) * b.cols + j]
                = Sum([l \in 1 .. a.cols |-> Times(Cell(a, i, l), Cell(b, l, j))])
<1> DEFINE S(i, j) == [l \in 1 .. a.cols |-> Times(Cell(a, i, l), Cell(b, l, j))]
           Row(j) == (j - 1) \div b.cols
           Col(j) == (j - 1) % b.cols
           n == a.rows * b.cols
<1>1. /\ a.rows \in Nat /\ a.cols \in Nat /\ b.rows \in Nat /\ b.cols \in Nat
      /\ a.cols > 0 /\ b.cols > 0
  BY DEF Matrices, DgemmRefuses
<1>2. \A i \in 1 .. a.rows, j \in 1 .. b.cols : S(i, j) \in [1 .. a.cols -> Num]
  <2>1. SUFFICES ASSUME NEW i \in 1 .. a.rows, NEW j \in 1 .. b.cols, NEW l \in 1 .. a.cols
                 PROVE  Times(Cell(a, i, l), Cell(b, l, j)) \in Num
    OBVIOUS
  <2>2. Cell(a, i, l) \in Num
    <3>1. (i - 1) * a.cols + l \in 1 .. a.rows * a.cols
      BY <1>1, CellInRange
    <3> DEFINE x == (i - 1) * a.cols + l
               p == a.rows * a.cols
    <3>2. p \in Nat
      BY <1>1, ProductType
    <3>3. Len(a.values) = p
      BY <1>1 DEF Matrices
    <3>4. a.values \in Seq(Num) /\ x \in 1 .. p /\ Cell(a, i, l) = a.values[x]
      BY <3>1 DEF Matrices, Cell
    <3> HIDE DEF x, p
    <3>5. QED
      BY <3>2, <3>3, <3>4
  <2>3. Cell(b, l, j) \in Num
    <3>1. (l - 1) * b.cols + j \in 1 .. b.rows * b.cols
      BY <1>1, CellInRange
    <3> DEFINE x == (l - 1) * b.cols + j
               p == b.rows * b.cols
    <3>2. p \in Nat
      BY <1>1, ProductType
    <3>3. Len(b.values) = p
      BY <1>1 DEF Matrices
    <3>4. b.values \in Seq(Num) /\ x \in 1 .. p /\ Cell(b, l, j) = b.values[x]
      BY <3>1 DEF Matrices, Cell
    <3> HIDE DEF x, p
    <3>5. QED
      BY <3>2, <3>3, <3>4
  <2>4. QED
    BY <2>2, <2>3, TimesType
<1>3. Dgemm(a, b) = [j \in 1 .. n |-> Sum(S(Row(j) + 1, Col(j) + 1))]
  <2>1. ASSUME NEW j \in 1 .. n
        PROVE  [l \in 1 .. a.cols |-> Times(a.values[Row(j) * a.cols + l],
                                           b.values[(l - 1) * b.cols + Col(j) + 1])]
                 = S(Row(j) + 1, Col(j) + 1)
    <3>1. Row(j) \in Int /\ Col(j) \in Int
      <4>1. b.cols > 0 /\ j - 1 \in Nat
        BY <1>1, RowOf
      <4>2. QED
        BY <1>1, <4>1, DivMod
    <3> DEFINE q == Row(j)
               r == Col(j)
    <3>2. q \in Int /\ r \in Int
      BY <3>1
    <3> HIDE DEF q, r
    <3>3. \A l \in 1 .. a.cols :
            /\ q * a.cols + l = ((q + 1) - 1) * a.cols + l
            /\ (l - 1) * b.cols + r + 1 = (l - 1) * b.cols + (r + 1)
      <4>1. q + 1 - 1 = q
        BY <3>2
      <4>2. \A l \in 1 .. a.cols : (l - 1) * b.cols \in Int
        BY <1>1
      <4>3. QED
        BY <3>2, <4>1, <4>2
    <3>4. [l \in 1 .. a.cols |-> Times(a.values[q * a.cols + l],
                                      b.values[(l - 1) * b.cols + r + 1])]
            = [l \in 1 .. a.cols |-> Times(a.values[((q + 1) - 1) * a.cols + l],
                                          b.values[(l - 1) * b.cols + (r + 1)])]
      BY <3>3
    <3>5. QED
      BY <3>4 DEF q, r, Cell
  <2>3. Dgemm(a, b) =
          [j \in 1 .. n |->
             Sum([l \in 1 .. a.cols |-> Times(a.values[Row(j) * a.cols + l],
                                             b.values[(l - 1) * b.cols + Col(j) + 1])])]
    BY DEF Dgemm
  <2>4. QED
    BY <2>1, <2>3
<1>4. n \in Nat
  BY <1>1, ProductType
<1>5. \A j \in 1 .. n : Row(j) + 1 \in 1 .. a.rows /\ Col(j) + 1 \in 1 .. b.cols
  BY <1>1, RowOf
<1>6. Dgemm(a, b) \in [1 .. n -> Num]
  <2>1. ASSUME NEW i \in 1 .. a.rows, NEW j \in 1 .. b.cols
        PROVE  Sum(S(i, j)) \in Num
    BY <1>1, <1>2, SumType
  <2>2. \A j \in 1 .. n : Sum(S(Row(j) + 1, Col(j) + 1)) \in Num
    BY <1>5, <2>1
  <2> HIDE DEF S, Row, Col, n
  <2>3. QED
    BY <1>3, <2>2
<1>7. ASSUME NEW i \in 1 .. a.rows, NEW j \in 1 .. b.cols
      PROVE  Dgemm(a, b)[(i - 1) * b.cols + j] = Sum(S(i, j))
  <2> DEFINE x == (i - 1) * b.cols + j
  <2>1. x \in 1 .. n
    BY <1>1, CellInRange
  <2>2. Row(x) = i - 1 /\ Col(x) = j - 1
    <3>1. i - 1 \in Nat /\ j - 1 \in 0 .. b.cols - 1 /\ b.cols \in Nat
      BY <1>1
    <3>2. ((i - 1) * b.cols + (j - 1)) \div b.cols = i - 1
      BY <3>1, DivUnique
    <3>3. ((i - 1) * b.cols + (j - 1)) % b.cols = j - 1
      BY <3>1, DivUnique
    <3>4. (i - 1) * b.cols \in Int
      BY <3>1
    <3>5. x - 1 = (i - 1) * b.cols + (j - 1)
      BY <3>4
    <3>6. QED
      BY <3>2, <3>3, <3>5
  <2>3. (i - 1) + 1 = i /\ (j - 1) + 1 = j
    OBVIOUS
  <2>4. Dgemm(a, b)[x] = Sum(S(Row(x) + 1, Col(x) + 1))
    <3> HIDE DEF S, Row, Col, n, x
    <3>1. QED
      BY <1>3, <2>1
  <2> HIDE DEF S, Row, Col
  <2>5. QED
    BY <2>2, <2>3, <2>4
<1>8. QED
  <2>1. Dgemm(a, b) \in Seq(Num) /\ Len(Dgemm(a, b)) = n
    <3> HIDE DEF n
    <3>1. QED
      BY <1>4, <1>6
  <2>2. QED
    BY <1>7, <2>1

(* The sum that ArithmeticIsExact states of a cell *)
ProductCell(a, b, i, j) == Sum([l \in 1 .. a.cols |-> Times(Cell(a, i, l), Cell(b, l, j))])

(* The cells that ML.MATRIX.MULTIPLY stores, when it stores them in a key  *)
(* that is no operand                                                      *)
LEMMA MatrixMultiplyEffect ==
  ASSUME NEW d \in Databases, NEW c \in WriteCommands, c.op = "MATRIX.MULTIPLY"
  PROVE  \/ Refused(d, MatrixMultiply(d, c))
         \/ LET m == MatrixMultiply(d, c).db[c.key]
            IN  /\ Stored(d, c, MatrixMultiply(d, c), "matrix")
                /\ MatrixMultiply(d, c).reply = "OK" /\ Exact(m)
                /\ SameShape(m, d[c.a].rows, d[c.b].cols)
                /\ c.key \notin {c.a, c.b} /\ d[c.a].cols > 0 =>
                     \A i \in 1 .. m.rows, j \in 1 .. m.cols :
                       Cell(m, i, j) = ProductCell(d[c.a], d[c.b], i, j)
<1> DEFINE x == MatrixMultiply(d, c)
<1>1. c.key \in Keys /\ c.a \in Keys /\ c.b \in Keys /\ d \in [Keys -> Values]
  BY KeySpaceAssumption DEF KeySpaceAssumption, WriteCommands, Databases
<1>2. CASE \/ ~Holds(d, c.a, "matrix") \/ ~Holds(d, c.b, "matrix")
           \/ d[c.b].rows # d[c.a].cols \/ ~CanHold(d, c.key, "matrix")
  BY <1>2 DEF MatrixMultiply, Result, Refused
<1>3. CASE /\ Holds(d, c.a, "matrix") /\ Holds(d, c.b, "matrix")
           /\ d[c.b].rows = d[c.a].cols /\ CanHold(d, c.key, "matrix")
  <2> DEFINE a == d[c.a]
             b == d[c.b]
             r == Resized(d, c)
             m == r[c.key]
             n == a.rows * b.cols
             refuses == DgemmRefuses(r[c.a], r[c.b])
             inside == DgemmInBounds(r[c.a], r[c.b])
             new == IF c.key \in {c.a, c.b} THEN Malloc(m.rows * m.cols) ELSE Dgemm(r[c.a], r[c.b])
             vs == IF refuses THEN m.values ELSE new
             v == Matrix(m.rows, m.cols, vs)
  <2>1. /\ a \in Matrices /\ b \in Matrices /\ m \in Matrices
        /\ m = Matrix(a.rows, b.cols, Realloc(OldValues(d[c.key]), a.rows * b.cols))
        /\ Len(m.values) = AtLeastNone(n) /\ r = [d EXCEPT ![c.key] = m]
    BY <1>3, ResizedType
  <2>2. /\ m.rows = a.rows /\ m.cols = b.cols /\ m.rows \in Int /\ m.cols \in Int
        /\ a.cols \in Int /\ m.values \in Seq(Num) /\ m = Matrix(m.rows, m.cols, m.values)
    BY <2>1 DEF Matrix, Matrices
  <2>3. n \in Int /\ (m.rows > 0 /\ m.cols > 0 => n > 0)
    BY <2>2, ProductSign
  <2>4. \/ refuses /\ x = Result(r, "OK")
        \/ ~refuses /\ ~inside /\ x = Stray(d)
        \/ ~refuses /\ inside /\ x = OK(r, c.key, Matrix(m.rows, m.cols, new))
    <3> HIDE DEF r
    <3>1. x = IF refuses THEN Result(r, "OK")
              ELSE IF ~inside THEN Stray(d) ELSE OK(r, c.key, Matrix(m.rows, m.cols, new))
      BY <1>3 DEF MatrixMultiply, r
    <3> HIDE DEF x, refuses, inside, new, m
    <3>2. QED
      BY <3>1
  <2>5. ASSUME ~(~refuses /\ ~inside) PROVE x = OK(d, c.key, v)
    <3>1. Result(r, "OK") = OK(d, c.key, m)
      BY <2>1 DEF OK, Result
    <3>2. refuses => m = v
      <4> HIDE DEF m, refuses
      <4>1. QED
        BY <2>2
    <3>3. OK(r, c.key, Matrix(m.rows, m.cols, new)) = OK(d, c.key, Matrix(m.rows, m.cols, new))
      BY <2>1 DEF OK, Result
    <3>4. ~refuses => Matrix(m.rows, m.cols, new) = v
      OBVIOUS
    <3> HIDE DEF x, refuses, inside, m, r, v, new
    <3>5. QED
      BY <2>4, <2>5, <3>1, <3>2, <3>3, <3>4
  <2> SUFFICES ASSUME ~(~refuses /\ ~inside) PROVE ~Refused(d, x) =>
        LET w == x.db[c.key]
        IN  /\ Stored(d, c, x, "matrix")
            /\ x.reply = "OK" /\ Exact(w)
            /\ SameShape(w, d[c.a].rows, d[c.b].cols)
            /\ c.key \notin {c.a, c.b} /\ d[c.a].cols > 0 =>
                 \A i \in 1 .. w.rows, j \in 1 .. w.cols :
                   Cell(w, i, j) = ProductCell(d[c.a], d[c.b], i, j)
    <3>1. ~refuses /\ ~inside => Refused(d, x)
      <4> HIDE DEF refuses, inside, x, r, m, new
      <4>1. ~refuses /\ ~inside => x = Stray(d)
        BY <2>4
      <4>2. QED
        BY <4>1, StrayRefused
    <3> HIDE DEF refuses, inside
    <3>2. QED
      BY <3>1
  <2>6. c.key \notin {c.a, c.b} => r[c.a] = a /\ r[c.b] = b
    BY <1>1, <2>1
  <2>7. vs \in Seq(Num) /\ Len(vs) = AtLeastNone(n)
    <3>1. CASE refuses
      <4> HIDE DEF m, n, refuses, r
      <4>1. QED
        BY <2>1, <2>2, <3>1
    <3>2. CASE ~refuses /\ c.key \in {c.a, c.b}
      <4>1. vs = Malloc(n)
        <5> HIDE DEF refuses, m, r
        <5>1. QED
          BY <3>2, <2>2
      <4> HIDE DEF n, vs
      <4>2. QED
        BY <4>1, <2>3, MallocType
    <3>3. CASE ~refuses /\ c.key \notin {c.a, c.b}
      <4>1. vs = Dgemm(a, b) /\ ~DgemmRefuses(a, b)
        BY <2>6, <3>3
      <4>2. b.rows = a.cols
        BY <1>3
      <4>3. a.rows \in Nat /\ b.cols \in Nat
        BY <2>1, <4>1 DEF Matrices, DgemmRefuses
      <4>4. n \in Nat
        BY <4>3, ProductType
      <4>5. AtLeastNone(n) = n
        <5> HIDE DEF n
        <5>1. QED
          BY <4>4 DEF AtLeastNone
      <4> HIDE DEF vs, m, r, refuses, a, b
      <4>6. Dgemm(a, b) \in Seq(Num) /\ Len(Dgemm(a, b)) = a.rows * b.cols
        BY <2>1, <4>1, <4>2, DgemmCells
      <4>7. QED
        BY <4>1, <4>5, <4>6
    <3> HIDE DEF refuses
    <3>4. QED
      BY <3>1, <3>2, <3>3
  <2>8. v \in Matrices
    <3> HIDE DEF vs, n, m
    <3>1. m.rows * m.cols = n
      BY <2>2 DEF n
    <3>2. m.rows > 0 /\ m.cols > 0 => Len(vs) = m.rows * m.cols
      BY <2>3, <2>7, <3>1 DEF AtLeastNone
    <3>3. QED
      BY <2>2, <2>7, <3>2, MatrixType
  <2>9. v \in Values /\ v.type = "matrix"
    <3> HIDE DEF v
    <3>1. QED
      BY <2>8, TypeOf DEF Values
  <2>10. Stored(d, c, x, "matrix") /\ x.reply = "OK"
    <3> HIDE DEF v, r, x
    <3>1. QED
      BY <1>3, <2>5, <2>9, OKStores
  <2>11. x.db[c.key] = v
    <3> HIDE DEF v, r, x
    <3>1. QED
      BY <1>1, <2>5 DEF OK, Result
  <2>12. /\ SameShape(v, a.rows, b.cols) /\ v.rows = a.rows /\ v.cols = b.cols /\ v.values = vs
         /\ Exact(v)
    <3>1. v.rows = a.rows /\ v.cols = b.cols /\ v.values = vs
      BY <2>2 DEF Matrix
    <3> HIDE DEF v, vs, a, b
    <3>2. QED
      BY <2>7, <3>1 DEF SameShape, Exact
  <2>13. ASSUME c.key \notin {c.a, c.b}, a.cols > 0,
                NEW i \in 1 .. a.rows, NEW j \in 1 .. b.cols
         PROVE  vs[(i - 1) * b.cols + j] = ProductCell(a, b, i, j)
    <3>1. ~DgemmRefuses(a, b)
      <4> HIDE DEF a, b, m, r, v, x
      <4>1. a.rows \in Int /\ a.cols \in Int /\ b.cols \in Int
        BY <2>1 DEF Matrices
      <4>2. a.rows > 0 /\ b.cols > 0
        BY <2>13, <4>1
      <4>3. QED
        BY <2>13, <4>1, <4>2 DEF DgemmRefuses
    <3>2. vs = Dgemm(a, b)
      BY <2>6, <2>13, <3>1
    <3>3. b.rows = a.cols
      BY <1>3
    <3> HIDE DEF vs, m, r, a, b
    <3>4. /\ a \in Matrices /\ b \in Matrices
          /\ i \in 1 .. a.rows /\ j \in 1 .. b.cols
      BY <2>1, <2>13
    <3>5. Dgemm(a, b)[(i - 1) * b.cols + j]
            = Sum([l \in 1 .. a.cols |-> Times(Cell(a, i, l), Cell(b, l, j))])
      BY ONLY <3>1, <3>3, <3>4, DgemmCells
    <3>6. QED
      BY <3>2, <3>5 DEF ProductCell
  <2>14. c.key \notin {c.a, c.b} /\ a.cols > 0 =>
           \A i \in 1 .. v.rows, j \in 1 .. v.cols :
             Cell(v, i, j) = ProductCell(a, b, i, j)
    <3>1. SUFFICES ASSUME c.key \notin {c.a, c.b}, a.cols > 0,
                          NEW i \in 1 .. v.rows, NEW j \in 1 .. v.cols
                   PROVE  Cell(v, i, j) = ProductCell(a, b, i, j)
      OBVIOUS
    <3>2. i \in 1 .. a.rows /\ j \in 1 .. b.cols
      BY <2>12, <3>1
    <3>3. Cell(v, i, j) = vs[(i - 1) * b.cols + j]
      BY <2>12 DEF Cell
    <3> HIDE DEF v, vs, a, b
    <3>4. QED
      BY <2>13, <3>1, <3>2, <3>3
  <2> HIDE DEF v, x
  <2>15. QED
    BY <2>10, <2>11, <2>12, <2>14 DEF x
<1>4. QED
  BY <1>2, <1>3

(* The value of a cell is a number, and one of the first rows * cols. *)
LEMMA CellType ==
  ASSUME NEW m \in Matrices, NEW i \in 1 .. m.rows, NEW j \in 1 .. m.cols
  PROVE  /\ (i - 1) * m.cols + j \in 1 .. m.rows * m.cols
         /\ Len(m.values) = m.rows * m.cols
         /\ Cell(m, i, j) \in Num
<1> DEFINE x == (i - 1) * m.cols + j
           p == m.rows * m.cols
<1>1. m.rows \in Nat /\ m.cols \in Nat /\ m.values \in Seq(Num) /\ m.rows > 0 /\ m.cols > 0
  BY DEF Matrices
<1>2. x \in 1 .. p
  BY <1>1, CellInRange
<1>3. p \in Nat
  BY <1>1, ProductType
<1>4. Len(m.values) = p
  BY <1>1 DEF Matrices
<1>5. Cell(m, i, j) = m.values[x]
  BY DEF Cell
<1> HIDE DEF x, p
<1>6. Len(m.values) = p /\ m.values[x] \in Num
  BY <1>1, <1>2, <1>3, <1>4
<1>7. QED
  BY <1>2, <1>5, <1>6 DEF x, p

(* The sum is the sum of the operands as they were, also in place: the     *)
(* array of an operand that is resized to its own size keeps its cells.    *)
LEMMA MatrixAddEffect ==
  ASSUME NEW d \in Databases, NEW c \in WriteCommands, c.op = "MATRIX.ADD"
  PROVE  \/ Refused(d, MatrixAdd(d, c))
         \/ LET m == MatrixAdd(d, c).db[c.key]
            IN  /\ Stored(d, c, MatrixAdd(d, c), "matrix")
                /\ MatrixAdd(d, c).reply = "OK" /\ Exact(m)
                /\ SameShape(m, d[c.a].rows, d[c.a].cols)
                /\ \A i \in 1 .. m.rows, j \in 1 .. m.cols :
                     Cell(m, i, j) = Plus(Cell(d[c.a], i, j), Cell(d[c.b], i, j))
<1> DEFINE x == MatrixAdd(d, c)
<1>1. c.key \in Keys /\ c.a \in Keys /\ c.b \in Keys /\ d \in [Keys -> Values]
  BY KeySpaceAssumption DEF KeySpaceAssumption, WriteCommands, Databases
<1>2. CASE \/ ~Holds(d, c.a, "matrix") \/ ~Holds(d, c.b, "matrix")
           \/ d[c.b].rows # d[c.a].rows \/ d[c.b].cols # d[c.a].cols
           \/ ~CanHold(d, c.key, "matrix")
  BY <1>2 DEF MatrixAdd, Result, Refused
<1> DEFINE inside == Backed(Resized(d, c)[c.a]) /\ Backed(Resized(d, c)[c.b])
<1>5. CASE /\ Holds(d, c.a, "matrix") /\ Holds(d, c.b, "matrix")
           /\ d[c.b].rows = d[c.a].rows /\ d[c.b].cols = d[c.a].cols
           /\ CanHold(d, c.key, "matrix") /\ ~inside
  <2>1. x = Stray(d)
    BY <1>5 DEF MatrixAdd
  <2>2. QED
    BY <2>1, StrayRefused
<1>3. CASE /\ Holds(d, c.a, "matrix") /\ Holds(d, c.b, "matrix")
           /\ d[c.b].rows = d[c.a].rows /\ d[c.b].cols = d[c.a].cols
           /\ CanHold(d, c.key, "matrix") /\ inside
  <2> DEFINE a == d[c.a]
             b == d[c.b]
             r == Resized(d, c)
             m == r[c.key]
             n == a.rows * a.cols
             vs == Matrix_Add(r[c.a], r[c.b], m)
             v == Matrix(m.rows, m.cols, vs)
  <2>1. /\ a \in Matrices /\ b \in Matrices /\ m \in Matrices
        /\ m = Matrix(a.rows, a.cols, Realloc(OldValues(d[c.key]), n))
        /\ Len(m.values) = AtLeastNone(n) /\ r = [d EXCEPT ![c.key] = m]
    BY <1>3, ResizedType
  <2>2. /\ m.rows = a.rows /\ m.cols = a.cols /\ m.rows \in Int /\ m.cols \in Int
        /\ b.rows = a.rows /\ b.cols = a.cols
        /\ m.values = Realloc(OldValues(d[c.key]), n) /\ m.values \in Seq(Num)
    BY <1>3, <2>1 DEF Matrix, Matrices
  <2>3. n \in Int /\ (m.rows > 0 /\ m.cols > 0 => n > 0)
    BY <2>2, ProductSign
  <2>4. x = OK(r, c.key, v)
    BY <1>3 DEF MatrixAdd
  <2>5. OK(r, c.key, v) = OK(d, c.key, v)
    BY <2>1 DEF OK, Result
  <2>6. ASSUME NEW o \in {c.a, c.b}
        PROVE  /\ r[o].rows = a.rows /\ r[o].cols = a.cols
               /\ \A j \in 1 .. n : r[o].values[j] \in Num
               /\ a.rows > 0 /\ a.cols > 0 => \A j \in 1 .. n : r[o].values[j] = d[o].values[j]
    <3>1. d[o] \in Matrices /\ d[o].rows = a.rows /\ d[o].cols = a.cols
      BY <2>1, <2>2
    <3>2. r[o].rows = a.rows /\ r[o].cols = a.cols /\ r[o].values \in Seq(Num)
      <4>1. CASE o = c.key
        BY <2>2, <4>1
      <4>2. CASE o # c.key
        <5>1. r[o] = d[o]
          BY <1>1, <2>1, <4>2
        <5>2. QED
          BY <3>1, <5>1 DEF Matrices
      <4>3. QED
        BY <4>1, <4>2
    <3>3. \A j \in 1 .. n : r[o].values[j] \in Num
      <4>1. n <= Len(r[o].values)
        <5>1. Backed(r[o])
          BY <1>3
        <5> HIDE DEF r, a, inside
        <5>2. QED
          BY <3>2, <5>1 DEF Backed
      <4> HIDE DEF n, r
      <4>2. QED
        BY <2>3, <3>2, <4>1
    <3>4. ASSUME a.rows > 0, a.cols > 0, NEW j \in 1 .. n
          PROVE  r[o].values[j] = d[o].values[j]
      <4>1. d[o].values \in Seq(Num) /\ Len(d[o].values) = n
        BY <3>1, <3>4 DEF Matrices
      <4>2. CASE o # c.key
        BY <1>1, <2>1, <4>2
      <4>3. CASE o = c.key
        <5>1. r[o] = m
          BY <4>3
        <5>2. OldValues(d[c.key]) = d[o].values
          BY <3>1, <4>3, TypeOf DEF OldValues
        <5>3. m.values = Realloc(d[o].values, n)
          BY <2>2, <5>2
        <5>4. j <= Len(d[o].values)
          <6> HIDE DEF n
          <6>1. QED
            BY <2>3, <4>1, <3>4
        <5>5. Realloc(d[o].values, n)[j] = d[o].values[j]
          <6> HIDE DEF n
          <6>1. QED
            BY <2>3, <4>1, <5>4, <3>4, ReallocType
        <5>6. QED
          BY <5>1, <5>3, <5>5
      <4>4. QED
        BY <4>2, <4>3
    <3>5. QED
      BY <3>2, <3>3, <3>4
  <2>7. DOMAIN m.values = 1 .. n
    BY <2>2 DEF Realloc
  <2>8. vs = [j \in 1 .. n |-> Plus(r[c.a].values[j], r[c.b].values[j])]
    <3>1. \A j \in 1 .. n : j <= n
      BY <2>3
    <3>2. r[c.a].rows * r[c.a].cols = n
      BY <2>6
    <3> HIDE DEF n, m, r, a, b
    <3>3. QED
      BY <2>7, <3>1, <3>2 DEF Matrix_Add
  <2>9. \A j \in 1 .. n : r[c.a].values[j] \in Num /\ r[c.b].values[j] \in Num
    BY <2>6
  <2> HIDE DEF vs
  <2>10. vs \in Seq(Num) /\ Len(vs) = AtLeastNone(n)
    <3> HIDE DEF n, r
    <3>1. vs \in [1 .. n -> Num]
      BY <2>8, <2>9, PlusType
    <3>2. QED
      BY <2>3, <3>1, ArrayType
  <2>11. v \in Matrices
    <3> HIDE DEF n, m
    <3>1. m.rows * m.cols = n
      BY <2>2 DEF n
    <3>2. m.rows > 0 /\ m.cols > 0 => Len(vs) = m.rows * m.cols
      BY <2>3, <2>10, <3>1 DEF AtLeastNone
    <3>3. QED
      BY <2>2, <2>10, <3>2, MatrixType
  <2>12. v \in Values /\ v.type = "matrix"
    <3> HIDE DEF v
    <3>1. QED
      BY <2>11, TypeOf DEF Values
  <2>13. Stored(d, c, x, "matrix") /\ x.reply = "OK"
    <3> HIDE DEF v, r, x
    <3>1. QED
      BY <1>3, <2>4, <2>5, <2>12, OKStores
  <2>14. x.db[c.key] = v
    <3> HIDE DEF v, r, x
    <3>1. QED
      BY <1>1, <2>4, <2>5 DEF OK, Result
  <2>15. /\ SameShape(v, a.rows, a.cols) /\ v.rows = a.rows /\ v.cols = a.cols /\ v.values = vs
         /\ Exact(v)
    <3>1. v.rows = a.rows /\ v.cols = a.cols /\ v.values = vs
      BY <2>2 DEF Matrix
    <3> HIDE DEF v, a
    <3>2. QED
      BY <2>10, <3>1 DEF SameShape, Exact
  <2>16. ASSUME NEW i \in 1 .. v.rows, NEW j \in 1 .. v.cols
         PROVE  Cell(v, i, j) = Plus(Cell(a, i, j), Cell(b, i, j))
    <3> DEFINE k == (i - 1) * a.cols + j
    <3>1. k \in 1 .. n
      BY <2>1, <2>15, CellType
    <3>2. Cell(v, i, j) = vs[k] /\ Cell(a, i, j) = a.values[k] /\ Cell(b, i, j) = b.values[k]
      BY <2>2, <2>15 DEF Cell
    <3>3. a.rows > 0 /\ a.cols > 0
      BY <2>2, <2>15
    <3>4. r[c.a].values[k] = a.values[k] /\ r[c.b].values[k] = b.values[k]
      BY <2>6, <3>1, <3>3
    <3> HIDE DEF k, n, v, a, b, r
    <3>5. QED
      BY <2>8, <3>1, <3>2, <3>4
  <2> HIDE DEF v, x
  <2>17. QED
    BY <2>13, <2>14, <2>15, <2>16 DEF x
<1>4. QED
  BY <1>2, <1>3, <1>5

(* ML.MATRIX.SCALE is refused or multiplies each cell.                     *)
LEMMA MatrixScaleEffect ==
  ASSUME NEW d \in Databases, NEW c \in WriteCommands, c.op = "MATRIX.SCALE"
  PROVE  \/ Refused(d, MatrixScale(d, c))
         \/ LET m == MatrixScale(d, c).db[c.key]
            IN  /\ Stored(d, c, MatrixScale(d, c), "matrix")
                /\ MatrixScale(d, c).reply = "OK" /\ (Exact(d[c.key]) => Exact(m))
                /\ SameShape(m, d[c.key].rows, d[c.key].cols)
                /\ \A i \in 1 .. m.rows, j \in 1 .. m.cols :
                     Cell(m, i, j) = Times(Parse(c.args[1], Junk), Cell(d[c.key], i, j))
<1> DEFINE x == MatrixScale(d, c)
           a == d[c.key]
           z == Parse(c.args[1], Junk)
           n == a.rows * a.cols
           vs == Matrix_Scale(a, z)
           v == Matrix(a.rows, a.cols, vs)
<1>1. c.key \in Keys /\ d \in [Keys -> Values] /\ z \in Num
  BY KeySpaceAssumption, ParseType, NumElements DEF KeySpaceAssumption, WriteCommands, Databases
<1>2. CASE ~Holds(d, c.key, "matrix")
  BY <1>2 DEF MatrixScale, Result, Refused
<1>5. CASE Holds(d, c.key, "matrix") /\ ~Backed(a)
  BY <1>5 DEF MatrixScale, Stray, Result, Refused
<1>3. CASE Holds(d, c.key, "matrix") /\ Backed(a)
  <2>1. x = OK(d, c.key, v) /\ CanHold(d, c.key, "matrix")
    BY <1>3 DEF MatrixScale, Holds, CanHold
  <2>2. a \in Matrices
    BY <1>1, <1>3, ByType DEF Holds
  <2>3. /\ a.rows \in Int /\ a.cols \in Int /\ a.values \in Seq(Num)
        /\ a.rows > 0 /\ a.cols > 0 => Len(a.values) = n
    BY <2>2 DEF Matrices
  <2>4. /\ vs \in Seq(Num) /\ Len(vs) = Len(a.values)
        /\ \A k \in 1 .. Len(a.values) : k <= n => vs[k] = Times(z, a.values[k])
    <3> HIDE DEF n, z, a
    <3>1. DOMAIN a.values = 1 .. Len(a.values) /\ Len(a.values) \in Nat
      BY <2>3
    <3>2. vs = [k \in 1 .. Len(a.values) |-> IF k <= n THEN Times(z, a.values[k]) ELSE a.values[k]]
      BY <3>1 DEF Matrix_Scale, n
    <3> HIDE DEF vs
    <3>3. \A k \in 1 .. Len(a.values) : a.values[k] \in Num /\ Times(z, a.values[k]) \in Num
      BY <1>1, <2>3, TimesType
    <3>4. vs \in [1 .. Len(a.values) -> Num]
      BY <3>2, <3>3
    <3>5. QED
      BY <3>1, <3>2, <3>4
  <2> HIDE DEF vs
  <2>5. v \in Matrices
    <3> HIDE DEF a
    <3>1. QED
      BY <2>3, <2>4, MatrixType DEF a
  <2>6. v \in Values /\ v.type = "matrix"
    <3> HIDE DEF v
    <3>1. QED
      BY <2>5, TypeOf DEF Values
  <2>7. Stored(d, c, x, "matrix") /\ x.reply = "OK"
    <3> HIDE DEF v, x
    <3>1. QED
      BY <2>1, <2>6, OKStores
  <2>8. x.db[c.key] = v
    <3> HIDE DEF v, x
    <3>1. QED
      BY <1>1, <2>1 DEF OK, Result
  <2>9. /\ SameShape(v, a.rows, a.cols) /\ v.rows = a.rows /\ v.cols = a.cols /\ v.values = vs
        /\ Exact(a) => Exact(v)
    <3>1. v.rows = a.rows /\ v.cols = a.cols /\ v.values = vs
      BY DEF Matrix
    <3>2. a.type = "matrix"
      BY <1>3 DEF Holds
    <3> HIDE DEF v, a
    <3>3. QED
      BY <2>4, <3>1, <3>2 DEF SameShape, Exact
  <2>10. ASSUME NEW i \in 1 .. v.rows, NEW j \in 1 .. v.cols
         PROVE  Cell(v, i, j) = Times(z, Cell(a, i, j))
    <3> DEFINE k == (i - 1) * a.cols + j
    <3>1. k \in 1 .. n /\ Len(a.values) = n
      BY <2>2, <2>9, CellType
    <3>2. Cell(v, i, j) = vs[k] /\ Cell(a, i, j) = a.values[k]
      BY <2>9 DEF Cell
    <3>3. n \in Int
      BY <2>3, ProductSign
    <3> HIDE DEF k, n, v, a, z
    <3>4. QED
      BY <2>4, <3>1, <3>2, <3>3
  <2> HIDE DEF v, x
  <2>11. QED
    BY <2>7, <2>8, <2>9, <2>10 DEF x
<1>4. QED
  BY <1>2, <1>3, <1>5

------------------------------------------------------------------------------
(* A command changes its own key and no other, to a value of a type that   *)
(* the key could hold.                                                     *)

Kind(c) == CASE c.op = "LINREG.SET" -> "regression"
             [] c.op = "KMEANS.SET" -> "kmeans"
             [] OTHER               -> "matrix"

(* Every command is refused or stores a value of its type in its key; it   *)
(* stores without an OK only when ML.MATRIX.SET is given a dimension that  *)
(* is not positive.                                                        *)
LEMMA ExecuteEffect ==
  ASSUME NEW d \in Databases, NEW c \in WriteCommands
  PROVE  LET r == Execute(d, c)
         IN  \/ Refused(d, r)
             \/ /\ Stored(d, c, r, Kind(c))
                /\ r.reply # "OK" => c.op = "MATRIX.SET" /\ (c.rows <= 0 \/ c.cols <= 0)
                /\ r.reply = "OK" /\ Exact(d[c.key]) => Exact(r.db[c.key])
<1>1. CASE c.op = "LINREG.SET"
  BY <1>1, LinRegSetEffect DEF Execute, Kind, Stored, Exact
<1>2. CASE c.op = "KMEANS.SET"
  BY <1>2, KmeansSetEffect DEF Execute, Kind, Stored, Exact
<1>3. CASE c.op = "MATRIX.SET"
  BY <1>3, MatrixSetEffect DEF Execute, Kind
<1>4. CASE c.op = "MATRIX.MULTIPLY"
  BY <1>4, MatrixMultiplyEffect DEF Execute, Kind
<1>5. CASE c.op = "MATRIX.ADD"
  BY <1>5, MatrixAddEffect DEF Execute, Kind
<1>6. CASE c.op = "MATRIX.SCALE"
  BY <1>6, MatrixScaleEffect DEF Execute, Kind
<1>7. QED
  BY <1>1, <1>2, <1>3, <1>4, <1>5, <1>6 DEF WriteCommands, Writes

(* Every command makes a database of a database, and changes one key.      *)
LEMMA ExecuteType ==
  ASSUME NEW d \in Databases, NEW c \in WriteCommands
  PROVE  /\ Execute(d, c).db \in Databases
         /\ \A k \in Keys \ {c.key} : Execute(d, c).db[k] = d[k]
<1>1. c.key \in Keys
  BY KeySpaceAssumption DEF KeySpaceAssumption, WriteCommands
<1>2. CASE Refused(d, Execute(d, c))
  BY <1>2 DEF Refused
<1>3. CASE Stored(d, c, Execute(d, c), Kind(c))
  BY <1>1, <1>3 DEF Stored, Databases
<1>4. QED
  BY <1>2, <1>3, ExecuteEffect

------------------------------------------------------------------------------
(* RDB files *)

(* A file has two numbers and an array that follows them. *)
LEMMA FileParts ==
  ASSUME NEW x \in Num, NEW y \in Num, NEW s \in Seq(Num),
         NEW n \in Int, Len(s) = AtLeastNone(n)
  PROVE  /\ (<<x, y>> \o s)[1] = x /\ (<<x, y>> \o s)[2] = y
         /\ SubSeq(<<x, y>> \o s, 3, 2 + n) = s
<1> DEFINE f == <<x, y>> \o s
<1> DEFINE m == AtLeastNone(n)
<1>0. m \in Nat /\ 1 .. n = 1 .. m /\ Len(s) = m
  BY DEF AtLeastNone
<1> HIDE DEF m
<1>1. f \in Seq(Num) /\ Len(f) = 2 + m /\ f[1] = x /\ f[2] = y
  BY <1>0
<1>2. \A j \in 1 .. n : f[j + 2] = s[j]
  BY <1>0
<1> HIDE DEF f
<1>3. SubSeq(f, 3, 2 + n) = [j \in 1 .. n |-> f[j + 2]]
  BY <1>0, <1>1
<1>4. s = [j \in 1 .. n |-> s[j]]
  BY <1>0
<1>5. SubSeq(f, 3, 2 + n) = s
  BY <1>2, <1>3, <1>4
<1>6. QED
  BY <1>1, <1>5 DEF f

(* An array of which a file holds the first n numbers *)
LEMMA Prefix ==
  ASSUME NEW s \in Seq(Num), NEW n \in Int, n <= Len(s)
  PROVE  /\ SubSeq(s, 1, n) \in Seq(Num) /\ Len(SubSeq(s, 1, n)) = AtLeastNone(n)
         /\ Len(s) = AtLeastNone(n) => SubSeq(s, 1, n) = s
<1> DEFINE m == AtLeastNone(n)
<1>1. m \in Nat /\ 1 .. n = 1 .. m /\ m <= Len(s)
  BY DEF AtLeastNone
<1>2. SubSeq(s, 1, n) = [j \in 1 .. n |-> s[j]]
  OBVIOUS
<1> HIDE DEF m
<1>3. [j \in 1 .. m |-> s[j]] \in Seq(Num) /\ Len([j \in 1 .. m |-> s[j]]) = m
  BY <1>1
<1>4. Len(s) = m => s = [j \in 1 .. m |-> s[j]]
  OBVIOUS
<1>5. QED
  BY <1>1, <1>2, <1>3, <1>4 DEF m

(* A matrix that can be saved comes back with its dimensions and its       *)
(* cells, and without what its array holds beside them.                    *)
LEMMA ReloadedMatrix ==
  ASSUME NEW v \in Matrices, Backed(v)
  PROVE  /\ Reloaded(v) = Matrix(v.rows, v.cols, SubSeq(v.values, 1, v.rows * v.cols))
         /\ Reloaded(v) \in Matrices
         /\ Len(Reloaded(v).values) = AtLeastNone(v.rows * v.cols)
         /\ Len(v.values) = AtLeastNone(v.rows * v.cols) => Reloaded(v) = v
<1> DEFINE n == v.rows * v.cols
           s == SubSeq(v.values, 1, n)
           f == <<v.rows, v.cols>> \o s
<1>1. /\ v.rows \in Int /\ v.cols \in Int /\ v.values \in Seq(Num) /\ v.type = "matrix"
      /\ v = Matrix(v.rows, v.cols, v.values) /\ n <= Len(v.values)
  BY DEF Matrices, Matrix, Backed
<1>2. n \in Int /\ (v.rows > 0 /\ v.cols > 0 => n > 0)
  BY <1>1, ProductSign
<1>3. s \in Seq(Num) /\ Len(s) = AtLeastNone(n) /\ (Len(v.values) = AtLeastNone(n) => s = v.values)
  <2> HIDE DEF n
  <2>1. QED
    BY <1>1, <1>2, Prefix
<1>4. f[1] = v.rows /\ f[2] = v.cols /\ SubSeq(f, 3, 2 + n) = s
  <2> HIDE DEF n, s
  <2>1. v.rows \in Num /\ v.cols \in Num
    BY <1>1 DEF Num
  <2>2. QED
    BY <1>2, <1>3, <2>1, FileParts
<1>5. Reloaded(v) = Matrix(v.rows, v.cols, s)
  <2>1. Reloaded(v) = Matrix(f[1], f[2], SubSeq(f, 3, 2 + f[1] * f[2]))
    BY <1>1 DEF Reloaded, MatrixTypeRdbSave, MatrixTypeRdbLoad
  <2> HIDE DEF f, s
  <2>2. QED
    BY <1>4, <2>1
<1> HIDE DEF s
<1>6. Matrix(v.rows, v.cols, s) \in Matrices
  <2>1. v.rows > 0 /\ v.cols > 0 => Len(s) = v.rows * v.cols
    BY <1>2, <1>3 DEF AtLeastNone
  <2>2. QED
    BY <1>1, <1>3, <2>1, MatrixType
<1>7. Matrix(v.rows, v.cols, s).values = s
  BY DEF Matrix
<1>8. QED
  BY <1>1, <1>3, <1>5, <1>6, <1>7 DEF s

(* A file keeps all values but matrices exactly.                           *)
LEMMA ReloadedOther ==
  ASSUME NEW v \in Values, v.type # "matrix"
  PROVE  Reloaded(v) = v
<1>1. CASE v.type = "regression"
  <2> DEFINE n == Len(v.coefficients)
             f == <<v.intercept, n>> \o v.coefficients
  <2>1. v \in Regressions
    BY <1>1, ByType
  <2>2. /\ v.intercept \in Num /\ v.coefficients \in Seq(Num) /\ n \in Nat /\ n \in Num
        /\ v = LinReg(v.intercept, v.coefficients)
    BY <2>1 DEF Regressions, LinReg, Num
  <2>3. f[1] = v.intercept /\ f[2] = n /\ SubSeq(f, 3, 2 + n) = v.coefficients
    BY <2>2, FileParts DEF AtLeastNone
  <2>4. Reloaded(v) = LinReg(f[1], SubSeq(f, 3, 2 + f[2]))
    BY <1>1 DEF Reloaded, RegressionTypeRdbSave, RegressionTypeRdbLoad
  <2> HIDE DEF f, n
  <2>5. QED
    BY <2>2, <2>3, <2>4
<1>2. CASE v.type = "kmeans"
  <2> DEFINE n == v.k * v.dimensions
             f == <<v.k, v.dimensions>> \o v.centers
  <2>1. v \in KmeansModels
    BY <1>2, ByType
  <2>2. /\ v.k \in Nat /\ v.dimensions \in Nat /\ v.centers \in Seq(Num) /\ Len(v.centers) = n
        /\ v.k \in Num /\ v.dimensions \in Num
        /\ v = Kmeans(v.k, v.dimensions, v.centers)
    BY <2>1 DEF KmeansModels, Kmeans, Num, Positive
  <2>3. n \in Nat
    BY <2>2, ProductType
  <2>4. f[1] = v.k /\ f[2] = v.dimensions /\ SubSeq(f, 3, 2 + n) = v.centers
    <3> HIDE DEF n
    <3>1. QED
      BY <2>2, <2>3, FileParts DEF AtLeastNone
  <2>5. Reloaded(v) = Kmeans(f[1], f[2], SubSeq(f, 3, 2 + f[1] * f[2]))
    BY <1>2 DEF Reloaded, KmeansTypeRdbSave, KmeansTypeRdbLoad
  <2> HIDE DEF f
  <2>6. QED
    BY <2>2, <2>4, <2>5
<1>3. CASE v.type \notin {"matrix", "regression", "kmeans"}
  BY <1>3 DEF Reloaded
<1>4. QED
  BY <1>1, <1>2, <1>3

(* A value keeps its type in a file, and is a value again.                 *)
LEMMA ReloadedType ==
  ASSUME NEW v \in Values
  PROVE  /\ Reloaded(v).type = v.type
         /\ (v.type = "matrix" => Backed(v)) => Reloaded(v) \in Values
<1>1. CASE v.type = "matrix"
  <2>1. Reloaded(v).type = "matrix"
    BY <1>1 DEF Reloaded, MatrixTypeRdbLoad, Matrix
  <2>2. QED
    BY <1>1, <2>1, ByType, TypeOf, ReloadedMatrix DEF Values
<1>2. CASE v.type # "matrix"
  BY <1>2, ReloadedOther
<1>3. QED
  BY <1>1, <1>2

------------------------------------------------------------------------------
(* Types.  Allocated leaves the numbers open; the invariant says that they *)
(* are numbers, and that a forest's key holds its forest for ever.         *)

TypeInv ==
  /\ up \in [Servers -> BOOLEAN]
  /\ db \in [Servers -> Databases]
  /\ stream \in Seq(WriteCommands) /\ Len(stream) <= MaxStream
  /\ sent \in 0 .. MaxCommands
  /\ asked \in [Keys -> Arguments]
  /\ silent \in SUBSET Keys

(* The commands that write have one action in common, but for asked. *)
CommandStep(c) ==
  /\ Command(c)
  /\ asked' = IF c.op = "LINREG.SET" THEN [asked EXCEPT ![c.key] = c.args] ELSE asked

(* Each step is a command on the master, its replication, a reload, a full *)
(* synchronisation or the end of a server.                                 *)
LEMMA NextCases ==
  ASSUME Next
  PROVE  \/ \E c \in WriteCommands : CommandStep(c)
         \/ Replicate
         \/ \E s \in Servers : Reload(s)
         \/ FullSync
         \/ \E s \in Servers : Crash(s)
<1>1. CASE LinRegSetCommand
  BY <1>1 DEF LinRegSetCommand, CommandsOf, WriteCommands, Writes, CommandStep
<1>2. CASE KmeansSetCommand
  BY <1>2 DEF KmeansSetCommand, CommandsOf, WriteCommands, Writes, CommandStep
<1>3. CASE MatrixSetCommand
  BY <1>3 DEF MatrixSetCommand, CommandsOf, WriteCommands, Writes, CommandStep
<1>4. CASE MatrixMultiplyCommand
  BY <1>4 DEF MatrixMultiplyCommand, CommandsOf, WriteCommands, Writes, CommandStep
<1>5. CASE MatrixAddCommand
  BY <1>5 DEF MatrixAddCommand, CommandsOf, WriteCommands, Writes, CommandStep
<1>6. CASE MatrixScaleCommand
  BY <1>6 DEF MatrixScaleCommand, CommandsOf, WriteCommands, Writes, CommandStep
<1>7. \A s \in Servers : CommandCrash(s) \/ SaveCrash(s) => Crash(s)
  BY DEF CommandCrash, SaveCrash
<1>8. QED
  BY <1>1, <1>2, <1>3, <1>4, <1>5, <1>6, <1>7 DEF Next

(* What a command on the master does, without its guards *)
LEMMA CommandEffect ==
  ASSUME TypeInv, NEW c \in WriteCommands, CommandStep(c)
  PROVE  LET r == Execute(db["master"], c)
         IN  /\ db' = [db EXCEPT !["master"] = r.db]
             /\ db'["master"] = r.db /\ db'["replica"] = db["replica"]
             /\ stream' = IF r.reply = "OK" THEN Append(stream, c) ELSE stream
             /\ silent' = IF r.reply # "OK" \/ Operands(c) \cap silent # {}
                          THEN silent \cup {c.key} ELSE silent
             /\ db["master"] \in Databases /\ r.db \in Databases /\ c.key \in Keys
             /\ Stored(db["master"], c, r, Kind(c))
             /\ r.reply # "OK" => c.op = "MATRIX.SET"
             /\ r.reply = "OK" /\ Exact(db["master"][c.key]) => Exact(r.db[c.key])
<1> DEFINE r == Execute(db["master"], c)
<1>1. db["master"] \in Databases
  BY DEF TypeInv, Servers
<1>2. r.db \in Databases
  BY <1>1, ExecuteType
<1>3. db' = [db EXCEPT !["master"] = r.db] /\ (r.reply = "OK" \/ r.db # db["master"])
  BY DEF CommandStep, Command, Apply
<1>4. \/ Refused(db["master"], r)
      \/ /\ Stored(db["master"], c, r, Kind(c)) /\ (r.reply # "OK" => c.op = "MATRIX.SET")
         /\ r.reply = "OK" /\ Exact(db["master"][c.key]) => Exact(r.db[c.key])
  BY <1>1, ExecuteEffect
<1>5. stream \o <<c>> = Append(stream, c)
  BY DEF TypeInv
<1>6. stream' = IF r.reply = "OK" THEN Append(stream, c) ELSE stream
  BY <1>5 DEF CommandStep, Command, Apply
<1>7. silent' = IF r.reply # "OK" \/ Operands(c) \cap silent # {}
                THEN silent \cup {c.key} ELSE silent
  BY DEF CommandStep, Command, Apply
<1>8. db'["master"] = r.db /\ db'["replica"] = db["replica"]
  BY <1>3 DEF TypeInv, Servers
<1>9. c.key \in Keys
  BY KeySpaceAssumption DEF KeySpaceAssumption, WriteCommands
<1> HIDE DEF r
<1>10. QED
  BY <1>1, <1>2, <1>3, <1>4, <1>6, <1>7, <1>8, <1>9 DEF r, Refused

(* A step of replication applies the first command of the stream to the    *)
(* replica.                                                                *)
LEMMA ReplicateEffect ==
  ASSUME TypeInv, Replicate
  PROVE  LET c == Head(stream)
             r == Execute(db["replica"], c)
         IN  /\ c \in WriteCommands
             /\ db' = [db EXCEPT !["replica"] = r.db]
             /\ db'["replica"] = r.db /\ db'["master"] = db["master"]
             /\ stream' \in Seq(WriteCommands) /\ Len(stream') = Len(stream) - 1
             /\ db["replica"] \in Databases /\ r.db \in Databases
<1>1. Head(stream) \in WriteCommands /\ Tail(stream) \in Seq(WriteCommands)
      /\ Len(Tail(stream)) = Len(stream) - 1
  BY DEF TypeInv, Replicate
<1>2. db["replica"] \in Databases
  BY DEF TypeInv, Servers
<1>3. Execute(db["replica"], Head(stream)).db \in Databases
  BY <1>1, <1>2, ExecuteType
<1>4. db' = [db EXCEPT !["replica"] = Execute(db["replica"], Head(stream)).db]
      /\ stream' = Tail(stream)
  BY DEF Replicate
<1>5. db'["replica"] = Execute(db["replica"], Head(stream)).db /\ db'["master"] = db["master"]
  BY <1>4 DEF TypeInv, Servers
<1>6. QED
  BY <1>1, <1>2, <1>3, <1>4, <1>5

(* A database that was saved and loaded is a database.                     *)
LEMMA ReloadedDatabase ==
  ASSUME NEW d \in Databases, Savable(d)
  PROVE  [k \in Keys |-> Reloaded(d[k])] \in Databases
BY ReloadedType DEF Databases, Savable

(* The servers start with no values but their forests.                     *)
LEMMA TypeInit == Init => TypeInv
<1>1. SUFFICES ASSUME Init PROVE TypeInv
  OBVIOUS
<1>2. \A k \in Keys : (IF k \in DOMAIN Forests THEN [type |-> "forest", trees |-> Forests[k]]
                       ELSE Nothing) \in Values
  BY DEF Values, ForestValues
<1> DEFINE d == [k \in Keys |-> IF k \in DOMAIN Forests
                               THEN [type |-> "forest", trees |-> Forests[k]] ELSE Nothing]
<1>3. d \in Databases
  BY <1>2 DEF Databases
<1>4. db = [s \in Servers |-> d]
  BY <1>1 DEF Init
<1> HIDE DEF d
<1>5. db \in [Servers -> Databases]
  BY <1>3, <1>4
<1>6. stream \in Seq(WriteCommands) /\ Len(stream) <= MaxStream /\ sent \in 0 .. MaxCommands
  BY <1>1, KeySpaceAssumption DEF Init, KeySpaceAssumption
<1>7. asked \in [Keys -> Arguments] /\ silent \in SUBSET Keys
  <2>1. << >> \in Arguments
    BY DEF Arguments
  <2>2. QED
    BY <1>1, <2>1 DEF Init
<1>8. up \in [Servers -> BOOLEAN]
  BY <1>1 DEF Init
<1>9. QED
  BY <1>5, <1>6, <1>7, <1>8 DEF TypeInv

(* Each step keeps the types.                                              *)
LEMMA TypeStep == TypeInv /\ [Next]_vars => TypeInv'
<1>1. SUFFICES ASSUME TypeInv, [Next]_vars PROVE TypeInv'
  OBVIOUS
<1>2. ASSUME NEW c \in WriteCommands, CommandStep(c) PROVE TypeInv'
  <2>1. db' \in [Servers -> Databases] /\ silent' \in SUBSET Keys
    BY <1>1, <1>2, CommandEffect DEF TypeInv
  <2>2. stream' \in Seq(WriteCommands)
    BY <1>1, <1>2, CommandEffect DEF TypeInv
  <2>3. Len(stream') <= MaxStream /\ sent' \in 0 .. MaxCommands
    <3>1. Len(stream) < MaxStream /\ sent < MaxCommands /\ sent' = sent + 1
      BY <1>2 DEF CommandStep, Command, Apply
    <3>2. stream' = stream \/ stream' = Append(stream, c)
      BY <1>1, <1>2, CommandEffect
    <3>3. QED
      BY <1>1, <3>1, <3>2, KeySpaceAssumption DEF TypeInv, KeySpaceAssumption
  <2>4. asked' \in [Keys -> Arguments]
    <3>1. c.key \in Keys /\ (c.op = "LINREG.SET" => c.args \in Arguments)
      BY KeySpaceAssumption DEF KeySpaceAssumption, WriteCommands
    <3>2. QED
      BY <1>1, <1>2, <3>1 DEF CommandStep, TypeInv
  <2>5. up' = up
    BY <1>2 DEF CommandStep, Command, Apply
  <2>6. QED
    BY <1>1, <2>1, <2>2, <2>3, <2>4, <2>5 DEF TypeInv
<1>3. CASE Replicate
  <2>1. UNCHANGED <<up, sent, asked, silent>>
    BY <1>3 DEF Replicate
  <2>2. Len(stream') <= MaxStream
    BY <1>1, <1>3, ReplicateEffect, KeySpaceAssumption DEF TypeInv, KeySpaceAssumption
  <2>3. QED
    BY <1>1, <1>3, <2>1, <2>2, ReplicateEffect DEF TypeInv
<1>4. ASSUME NEW s \in Servers, Reload(s) PROVE TypeInv'
  <2>1. db[s] \in Databases /\ Savable(db[s])
    BY <1>1, <1>4 DEF TypeInv, Reload
  <2>2. [k \in Keys |-> Reloaded(db[s][k])] \in Databases
    BY <2>1, ReloadedDatabase
  <2>3. QED
    BY <1>1, <1>4, <2>2 DEF Reload, TypeInv
<1>5. CASE FullSync
  <2>1. db["master"] \in Databases /\ Savable(db["master"])
    BY <1>1, <1>5 DEF TypeInv, Servers, FullSync
  <2>2. [k \in Keys |-> Reloaded(db["master"][k])] \in Databases
    BY <2>1, ReloadedDatabase
  <2>3. stream' \in Seq(WriteCommands) /\ Len(stream') <= MaxStream
    BY <1>5, KeySpaceAssumption DEF FullSync, KeySpaceAssumption
  <2>4. QED
    BY <1>1, <1>5, <2>2, <2>3 DEF FullSync, TypeInv
<1>6. CASE UNCHANGED vars
  BY <1>1, <1>6 DEF vars, TypeInv
<1>7. ASSUME NEW s \in Servers, Crash(s) PROVE TypeInv'
  BY <1>1, <1>7 DEF Crash, TypeInv
<1>8. QED
  BY <1>1, <1>2, <1>3, <1>4, <1>5, <1>6, <1>7, NextCases

(* The lengths that a handler trusts are those of the arrays.              *)
LEMMA TypeIsAllocated ==
  ASSUME NEW v \in Values
  PROVE  Allocated(v)
<1>1. CASE v \in Matrices
  <2>1. v.rows \in Int /\ v.cols \in Int /\ v.values \in Seq(Num) /\ v.type = "matrix"
        /\ (v.rows > 0 /\ v.cols > 0 => Len(v.values) = v.rows * v.cols)
    BY <1>1 DEF Matrices
  <2>2. DOMAIN v.values = 1 .. Len(v.values) /\ Len(v.values) \in Nat
    BY <2>1
  <2>3. QED
    BY <2>1, <2>2 DEF Allocated
<1>2. CASE v \in Regressions
  <2>1. v.type = "regression" /\ v.coefficients \in Seq(Num) /\ Len(v.coefficients) >= 2
    BY <1>2 DEF Regressions
  <2>2. DOMAIN v.coefficients = 1 .. Len(v.coefficients)
    BY <2>1
  <2>3. QED
    BY <2>1, <2>2 DEF Allocated
<1>3. CASE v \in KmeansModels
  <2>1. v.k \in Nat \ {0} /\ v.dimensions \in Nat \ {0} /\ v.type = "kmeans"
        /\ v.centers \in Seq(Num) /\ Len(v.centers) = v.k * v.dimensions
    BY <1>3 DEF KmeansModels, Positive
  <2>2. DOMAIN v.centers = 1 .. v.k * v.dimensions
    BY <2>1
  <2>3. QED
    BY <2>1, <2>2 DEF Allocated
<1>4. CASE v \in ForestValues \cup {Nothing}
  <2>1. v.type \in {"forest", "none"}
    BY <1>4, TypeOf
  <2>2. QED
    BY <2>1 DEF Allocated
<1>5. QED
  BY <1>1, <1>2, <1>3, <1>4 DEF Values

(* Whatever commands, reloads and synchronisations come in which order,    *)
(* each key holds a well-formed value of its type; the dimensions of a     *)
(* matrix are any numbers, and if both are positive the array has their    *)
(* product of cells (ML.LINREG.SET, ML.KMEANS.SET, the matrices).          *)
THEOREM TypesHold == Spec => []TypeInv
<1>1. QED
  BY TypeInit, TypeStep, PTL DEF Spec

(* The lengths beside the arrays are the lengths of the arrays, after any  *)
(* dimensions that ML.MATRIX.SET was given.                                *)
THEOREM LengthsCorrect == Spec => []TypeOK
<1>1. TypeInv => TypeOK
  <2>1. SUFFICES ASSUME TypeInv PROVE TypeOK
    OBVIOUS
  <2>2. \A s \in Servers, k \in Keys : db[s][k] \in Values
    BY <2>1 DEF TypeInv, Databases
  <2>3. stream \in Seq(Commands)
    BY <2>1 DEF TypeInv, WriteCommands
  <2>4. QED
    BY <2>1, <2>2, <2>3, TypeIsAllocated DEF TypeInv, TypeOK
<1>2. QED
  BY <1>1, TypesHold, PTL

------------------------------------------------------------------------------
(* Properties of a single command and of files, in every state that the    *)
(* types allow                                                             *)

(* A refused command has changed nothing, but for ML.MATRIX.SET with a     *)
(* dimension that is not positive, which has changed its own key.          *)
THEOREM ErrorsHarmless == Spec => []ErrorsChangeNothing
<1>1. TypeInv => ErrorsChangeNothing
  <2>1. SUFFICES ASSUME TypeInv, NEW c \in WriteCommands,
                        Execute(db["master"], c).reply # "OK",
                        Execute(db["master"], c).db # db["master"]
                 PROVE  LET d == db["master"]
                            r == Execute(d, c)
                        IN  /\ c.op = "MATRIX.SET" /\ (c.rows <= 0 \/ c.cols <= 0)
                            /\ r.db = [d EXCEPT ![c.key] = r.db[c.key]]
    BY DEF ErrorsChangeNothing, WriteCommands
  <2>2. db["master"] \in Databases
    BY <2>1 DEF TypeInv, Servers
  <2>3. QED
    BY <2>1, <2>2, ExecuteEffect DEF Refused, Stored
<1>2. QED
  BY <1>1, TypesHold, PTL

(* Sums and multiples that a handler stores are those of the operands as   *)
(* they were before the command, and so are products of at least one       *)
(* column and row that are stored in a third key; the theorem says nothing *)
(* of the products that dgemm refuses or that overwrite an operand.        *)
THEOREM ArithmeticExact == Spec => []ArithmeticIsExact
<1>1. TypeInv => ArithmeticIsExact
  <2>1. SUFFICES ASSUME TypeInv PROVE ArithmeticIsExact
    OBVIOUS
  <2> DEFINE d == db["master"]
  <2>2. d \in Databases
    BY <2>1 DEF TypeInv, Servers
  <2>3. ASSUME NEW c \in WriteCommands, Execute(d, c).reply = "OK", c.op = "MATRIX.MULTIPLY",
               c.key \notin {c.a, c.b}, d[c.a].cols > 0
        PROVE  LET m == Execute(d, c).db[c.key]
               IN  /\ SameShape(m, d[c.a].rows, d[c.b].cols)
                   /\ \A i \in 1 .. m.rows, j \in 1 .. m.cols :
                        Cell(m, i, j) = ProductCell(d[c.a], d[c.b], i, j)
    <3> HIDE DEF d
    <3>1. Execute(d, c) = MatrixMultiply(d, c)
      BY <2>3 DEF Execute
    <3>2. ~Refused(d, MatrixMultiply(d, c))
      BY <2>3, <3>1 DEF Refused
    <3>3. QED
      BY <2>2, <2>3, <3>1, <3>2, MatrixMultiplyEffect
  <2>4. ASSUME NEW c \in WriteCommands, Execute(d, c).reply = "OK", c.op = "MATRIX.ADD"
        PROVE  LET m == Execute(d, c).db[c.key]
               IN  /\ SameShape(m, d[c.a].rows, d[c.a].cols)
                   /\ \A i \in 1 .. m.rows, j \in 1 .. m.cols :
                        Cell(m, i, j) = Plus(Cell(d[c.a], i, j), Cell(d[c.b], i, j))
    <3> HIDE DEF d
    <3>1. Execute(d, c) = MatrixAdd(d, c)
      BY <2>4 DEF Execute
    <3>2. QED
      BY <2>2, <2>4, <3>1, MatrixAddEffect DEF Refused
  <2>5. ASSUME NEW c \in WriteCommands, Execute(d, c).reply = "OK", c.op = "MATRIX.SCALE"
        PROVE  LET m == Execute(d, c).db[c.key]
               IN  /\ SameShape(m, d[c.key].rows, d[c.key].cols)
                   /\ \A i \in 1 .. m.rows, j \in 1 .. m.cols :
                        Cell(m, i, j) = Times(Parse(c.args[1], Junk), Cell(d[c.key], i, j))
    <3> HIDE DEF d
    <3>1. Execute(d, c) = MatrixScale(d, c)
      BY <2>5 DEF Execute
    <3>2. QED
      BY <2>2, <2>5, <3>1, MatrixScaleEffect DEF Refused
  <2>6. \A c \in Commands : c.op \in Writes => c \in WriteCommands
    BY DEF WriteCommands
  <2>7. QED
    BY <2>3, <2>4, <2>5, <2>6 DEF ArithmeticIsExact, IsProduct, ProductCell
<1>2. QED
  BY <1>1, TypesHold, PTL

(* What is loaded answers as what was saved. *)
THEOREM FilesKeep == Spec => []FilesKeepAnswers
<1>1. TypeInv => FilesKeepAnswers
  <2>1. SUFFICES ASSUME TypeInv, NEW k \in Keys, NEW v, v = db["master"][k]
                 PROVE  IF v.type = "matrix"
                        THEN Backed(v) =>
                               MatrixGet([x \in Keys |-> Reloaded(v)], [key |-> k])
                                 = MatrixGet([x \in Keys |-> v], [key |-> k])
                        ELSE Reloaded(v) = v
    BY DEF FilesKeepAnswers
  <2>2. v \in Values
    BY <2>1 DEF TypeInv, Servers, Databases
  <2>3. CASE v.type = "matrix" /\ Backed(v)
    <3> DEFINE w == Reloaded(v)
               n == v.rows * v.cols
    <3>1. v \in Matrices
      BY <2>2, <2>3, ByType
    <3>2. v.values \in Seq(Num) /\ n <= Len(v.values) /\ n \in Int
      <4>1. v.rows \in Int /\ v.cols \in Int
        BY <3>1 DEF Matrices
      <4>2. QED
        BY <2>3, <3>1, <4>1, ProductSign DEF Matrices, Backed
    <3>3. /\ w.type = "matrix" /\ w.rows = v.rows /\ w.cols = v.cols
          /\ w.values = SubSeq(v.values, 1, n)
      BY <2>3, <3>1, ReloadedMatrix DEF Matrix
    <3>4. SubSeq(w.values, 1, n) = SubSeq(v.values, 1, n)
      <4>1. w.values \in Seq(Num) /\ Len(w.values) = AtLeastNone(n)
        <5> HIDE DEF n, w
        <5>1. QED
          BY <3>2, <3>3, Prefix
      <4> HIDE DEF n, w
      <4>2. SubSeq(w.values, 1, n) = w.values
        BY <3>2, <4>1, Prefix DEF AtLeastNone
      <4>3. QED
        BY <3>3, <4>2
    <3> HIDE DEF w
    <3>5. MatrixGet([x \in Keys |-> w], [key |-> k])
            = <<v.rows, v.cols>> \o SubSeq(w.values, 1, n)
      BY <3>3 DEF MatrixGet, Holds
    <3>6. MatrixGet([x \in Keys |-> v], [key |-> k])
            = <<v.rows, v.cols>> \o SubSeq(v.values, 1, n)
      BY <2>3 DEF MatrixGet, Holds
    <3>7. QED
      BY <2>3, <3>4, <3>5, <3>6 DEF w
  <2>4. CASE v.type # "matrix"
    BY <2>2, <2>4, ReloadedOther
  <2>5. QED
    BY <2>3, <2>4
<1>2. QED
  BY <1>1, TypesHold, PTL

------------------------------------------------------------------------------
(* The numbers of the last ML.LINREG.SET of a key are where a prediction   *)
(* looks for them: nothing but that command changes a regression, and a    *)
(* longer or shorter model that was there before leaves no number behind.  *)
THEOREM CoefficientsStay == Spec => []CoefficientsKept
<1> DEFINE Kept(lr, a) ==
             /\ Len(a) >= 2 /\ Len(lr.coefficients) = Len(a)
             /\ a[1] # Bad => lr.intercept = a[1]
             /\ \A j \in 2 .. Len(a) : a[j] # Bad => lr.coefficients[j - 1] = a[j]
<1>1. CoefficientsKept <=>
        \A k \in Keys : db["master"][k].type = "regression" => Kept(db["master"][k], asked[k])
  BY DEF CoefficientsKept
<1>2. CoefficientsKept' <=>
        \A k \in Keys : db'["master"][k].type = "regression" => Kept(db'["master"][k], asked'[k])
  BY DEF CoefficientsKept
<1>3. Init => CoefficientsKept
  BY <1>1 DEF Init, Servers, Nothing
<1>4. ASSUME TypeInv, CoefficientsKept, [Next]_vars PROVE CoefficientsKept'
  <2>1. ASSUME NEW c \in WriteCommands, CommandStep(c) PROVE CoefficientsKept'
    <3>1. SUFFICES ASSUME NEW k \in Keys, db'["master"][k].type = "regression"
                   PROVE  Kept(db'["master"][k], asked'[k])
      BY <1>2
    <3> DEFINE r == Execute(db["master"], c)
    <3>2. /\ db'["master"] = r.db /\ db["master"] \in Databases /\ c.key \in Keys
          /\ Stored(db["master"], c, r, Kind(c)) /\ (r.reply # "OK" => c.op = "MATRIX.SET")
      BY <1>4, <2>1, CommandEffect
    <3>3. asked \in [Keys -> Arguments]
      BY <1>4 DEF TypeInv
    <3>4. CASE k # c.key
      <4>1. db'["master"][k] = db["master"][k] /\ asked'[k] = asked[k]
        BY <2>1, <3>2, <3>3, <3>4, ExecuteType DEF CommandStep
      <4>2. QED
        BY <1>1, <1>4, <3>1, <4>1
    <3>5. CASE k = c.key
      <4>1. c.op = "LINREG.SET"
        BY <3>1, <3>2, <3>5 DEF Stored, Kind, WriteCommands, Writes
      <4>2. c.args \in Arguments /\ asked'[k] = c.args
        BY <2>1, <3>2, <3>3, <3>5, <4>1, KeySpaceAssumption
           DEF KeySpaceAssumption, WriteCommands, CommandStep
      <4> DEFINE i == Parse(c.args[1], IF db["master"][c.key] = Nothing THEN Junk
                                       ELSE db["master"][c.key].intercept)
                 array == Realloc(OldValues(db["master"][c.key]), Len(c.args))
                 cs == ParseAll(Tail(c.args), array)
      <4>3. Len(c.args) >= 2 /\ r.db[c.key] = LinReg(i, cs)
        <5>1. r = LinRegSet(db["master"], c)
          BY <4>1 DEF Execute
        <5>2. r.reply = "OK"
          BY <3>2, <4>1
        <5> HIDE DEF r
        <5>3. QED
          BY <3>2, <4>1, <5>1, <5>2, LinRegSetEffect DEF Refused
      <4>4. c.args[1] # Bad => i = c.args[1]
        BY DEF Parse
      <4>5. ASSUME NEW j \in 2 .. Len(c.args), c.args[j] # Bad
            PROVE  cs[j - 1] = c.args[j]
        <5>1. /\ Len(c.args) \in Nat /\ Len(Tail(c.args)) = Len(c.args) - 1
              /\ Tail(c.args)[j - 1] = c.args[j]
          BY <4>2, <4>3, <4>5 DEF Arguments
        <5>2. DOMAIN array = 1 .. Len(c.args) /\ j - 1 \in 1 .. Len(c.args)
          BY <5>1 DEF Realloc
        <5> HIDE DEF array
        <5>3. cs[j - 1] = Parse(Tail(c.args)[j - 1], array[j - 1])
          BY <5>1, <5>2 DEF ParseAll
        <5>4. QED
          BY <4>5, <5>1, <5>3 DEF Parse
      <4>8. Len(cs) = Len(c.args)
        <5>1. Len(c.args) \in Nat
          BY <4>2 DEF Arguments
        <5>2. DOMAIN array = 1 .. Len(c.args)
          BY <5>1 DEF Realloc
        <5> HIDE DEF array
        <5>3. DOMAIN cs = 1 .. Len(c.args)
          BY <5>2 DEF ParseAll
        <5>4. cs = [j \in 1 .. Len(c.args) |-> cs[j]]
          BY <5>2 DEF ParseAll
        <5> HIDE DEF cs
        <5>5. QED
          BY <5>1, <5>4
      <4> HIDE DEF i, cs, r
      <4>6. db'["master"][k].intercept = i /\ db'["master"][k].coefficients = cs
        BY <3>2, <3>5, <4>3 DEF LinReg
      <4>7. QED
        BY <4>2, <4>3, <4>4, <4>5, <4>6, <4>8
    <3>6. QED
      BY <3>4, <3>5
  <2>2. CASE Replicate
    <3>1. db'["master"] = db["master"] /\ asked' = asked
      BY <1>4, <2>2, ReplicateEffect DEF Replicate
    <3>2. QED
      BY <1>1, <1>2, <1>4, <3>1
  <2>3. ASSUME NEW s \in Servers, Reload(s) PROVE CoefficientsKept'
    <3>1. SUFFICES ASSUME NEW k \in Keys, db'["master"][k].type = "regression"
                   PROVE  Kept(db'["master"][k], asked'[k])
      BY <1>2
    <3>2. db["master"][k] \in Values /\ asked' = asked
      BY <1>4, <2>3 DEF TypeInv, Servers, Databases, Reload
    <3>3. db'["master"][k] \in {db["master"][k], Reloaded(db["master"][k])}
      BY <1>4, <2>3 DEF TypeInv, Servers, Reload
    <3>4. db'["master"][k] = db["master"][k]
      <4>1. db["master"][k].type = "regression"
        BY <3>1, <3>2, <3>3, ReloadedType
      <4>2. QED
        BY <3>2, <3>3, <4>1, ReloadedOther
    <3>5. QED
      BY <1>1, <1>4, <3>1, <3>2, <3>4
  <2>4. CASE FullSync
    <3>1. db'["master"] = db["master"] /\ asked' = asked
      BY <1>4, <2>4 DEF FullSync, TypeInv, Servers
    <3>2. QED
      BY <1>1, <1>2, <1>4, <3>1
  <2>5. CASE UNCHANGED vars
    BY <1>1, <1>2, <1>4, <2>5 DEF vars
  <2>6. ASSUME NEW s \in Servers, Crash(s) PROVE CoefficientsKept'
    BY <1>1, <1>2, <1>4, <2>6 DEF Crash
  <2>7. QED
    BY <1>4, <2>1, <2>2, <2>3, <2>4, <2>5, <2>6, NextCases
<1>5. QED
  BY <1>3, <1>4, TypesHold, PTL DEF Spec

------------------------------------------------------------------------------
(* Handlers and the ends of their arrays                                   *)

(* The cells that the loops count are there, or both dimensions are        *)
(* negative.                                                               *)
LEMMA NotBacked ==
  ASSUME NEW v \in Matrices, ~Backed(v)
  PROVE  BothNegative(v)
<1>1. v.type = "matrix" /\ v.rows \in Int /\ v.cols \in Int /\ Len(v.values) \in Nat
  BY DEF Matrices
<1>2. v.rows * v.cols > Len(v.values) /\ v.rows * v.cols > 0
  <2> DEFINE n == v.rows * v.cols
  <2>1. n \in Int /\ ~(n <= Len(v.values))
    BY <1>1 DEF Backed
  <2> HIDE DEF n
  <2>2. n > Len(v.values) /\ n > 0
    BY <1>1, <2>1
  <2>3. QED
    BY <2>2 DEF n
<1>3. ~(v.rows > 0 /\ v.cols > 0)
  BY <1>1, <1>2 DEF Matrices
<1>4. QED
  BY <1>1, <1>2, <1>3, SignsOfProduct DEF BothNegative

(* The key of a product or a sum has all its cells when it has been        *)
(* resized.                                                                *)
LEMMA ResizedShape ==
  ASSUME NEW d \in Databases, NEW c \in WriteCommands, c.op \in {"MATRIX.MULTIPLY", "MATRIX.ADD"},
         Holds(d, c.a, "matrix"), Holds(d, c.b, "matrix")
  PROVE  LET m == Resized(d, c)[c.key]
         IN  /\ d[c.a] \in Matrices /\ d[c.b] \in Matrices /\ m \in Matrices
             /\ m.rows = d[c.a].rows /\ m.cols = d[c.b].cols /\ Backed(m)
             /\ Resized(d, c) = [d EXCEPT ![c.key] = m]
<1> DEFINE m == Resized(d, c)[c.key]
           n == d[c.a].rows * d[c.b].cols
<1>1. /\ d[c.a] \in Matrices /\ d[c.b] \in Matrices /\ m \in Matrices
      /\ m = Matrix(d[c.a].rows, d[c.b].cols, Realloc(OldValues(d[c.key]), n))
      /\ Len(m.values) = AtLeastNone(n) /\ Resized(d, c) = [d EXCEPT ![c.key] = m]
  BY ResizedType
<1> HIDE DEF m
<1>2. m.rows = d[c.a].rows /\ m.cols = d[c.b].cols
  BY <1>1 DEF Matrix
<1>3. m.rows \in Int /\ m.cols \in Int /\ m.rows * m.cols = n
  BY <1>1, <1>2 DEF Matrices
<1>4. n \in Int
  BY <1>3
<1> HIDE DEF n
<1>5. n <= Len(m.values)
  BY <1>1, <1>4 DEF AtLeastNone
<1>6. QED
  BY <1>1, <1>2, <1>3, <1>5 DEF Backed, m

(* dgemm reads behind an array only if the second matrix has fewer rows    *)
(* than the first one has columns.                                         *)
LEMMA TooFewRows ==
  ASSUME NEW a \in Matrices, NEW b \in Matrices, ~DgemmRefuses(a, b), ~DgemmInBounds(a, b)
  PROVE  b.rows < a.cols
<1>1. /\ a.rows \in Int /\ a.cols \in Int /\ b.rows \in Int /\ b.cols \in Int
      /\ Len(b.values) \in Nat
  BY DEF Matrices
<1>2. a.rows > 0 /\ a.cols > 0 /\ b.cols > 0
  BY <1>1 DEF DgemmRefuses, DgemmInBounds
<1>3. Len(a.values) = a.rows * a.cols
  BY <1>2 DEF Matrices
<1>4. ~(a.cols * b.cols <= Len(b.values))
  <2> DEFINE n == a.rows * a.cols
  <2>1. n \in Int
    BY <1>1
  <2>2. ~(n <= Len(a.values) /\ a.cols * b.cols <= Len(b.values))
    BY <1>2 DEF DgemmInBounds
  <2> HIDE DEF n
  <2>3. n <= n
    BY <2>1
  <2>4. Len(a.values) = n
    BY <1>3 DEF n
  <2>5. QED
    BY <2>2, <2>3, <2>4
<1>5. SUFFICES ASSUME a.cols <= b.rows PROVE FALSE
  BY <1>1
<1>6. Len(b.values) = b.rows * b.cols
  BY <1>1, <1>2, <1>5 DEF Matrices
<1>7. a.cols * b.cols <= b.rows * b.cols
  <2>1. (b.rows - a.cols) * b.cols \in Nat
    <3>1. b.rows - a.cols \in Nat /\ b.cols \in Nat
      BY <1>1, <1>2, <1>5
    <3>2. QED
      BY <3>1, ProductType
  <2>2. b.rows * b.cols = (b.rows - a.cols) * b.cols + a.cols * b.cols
    BY <1>1
  <2>3. a.cols * b.cols \in Int
    BY <1>1
  <2>4. QED
    BY <2>1, <2>2, <2>3
<1>8. QED
  BY <1>4, <1>6, <1>7

(* A product leaves its operands only if it is stored in one of them.      *)
LEMMA ProductAstray ==
  ASSUME NEW d \in Databases, NEW c \in WriteCommands, c.op = "MATRIX.MULTIPLY",
         MatrixMultiply(d, c).reply = "out of bounds"
  PROVE  \/ c.key = c.a /\ d[c.b].cols > d[c.b].rows
         \/ c.key = c.b /\ d[c.a].cols > d[c.a].rows
<1> DEFINE a == d[c.a]
           b == d[c.b]
           r == Resized(d, c)
<1>1. c.key \in Keys /\ c.a \in Keys /\ c.b \in Keys /\ d \in [Keys -> Values]
  BY KeySpaceAssumption DEF KeySpaceAssumption, WriteCommands, Databases
<1>2. /\ Holds(d, c.a, "matrix") /\ Holds(d, c.b, "matrix") /\ b.rows = a.cols
      /\ ~DgemmRefuses(r[c.a], r[c.b]) /\ ~DgemmInBounds(r[c.a], r[c.b])
  <2> HIDE DEF r
  <2>1. QED
    BY DEF MatrixMultiply, Result, OK, r
<1>3. /\ a \in Matrices /\ b \in Matrices /\ r[c.key] \in Matrices
      /\ r[c.key].rows = a.rows /\ r[c.key].cols = b.cols
      /\ r = [d EXCEPT ![c.key] = r[c.key]]
  BY <1>2, ResizedShape
<1>4. \A o \in {c.a, c.b} : o # c.key => r[o] = d[o]
  BY <1>1, <1>3
<1> HIDE DEF r
<1>5. r[c.a] \in Matrices /\ r[c.b] \in Matrices
  BY <1>3, <1>4
<1>6. r[c.b].rows < r[c.a].cols
  BY <1>2, <1>5, TooFewRows
<1>7. a.rows \in Int /\ a.cols \in Int /\ b.rows \in Int /\ b.cols \in Int
  BY <1>3 DEF Matrices
<1>8. CASE c.key \notin {c.a, c.b}
  <2>1. r[c.a] = a /\ r[c.b] = b
    BY <1>4, <1>8
  <2>2. b.rows = a.cols
    BY <1>2
  <2>3. b.rows < a.cols
    BY <1>6, <2>1
  <2> HIDE DEF a, b
  <2>4. FALSE
    BY ONLY <1>7, <2>2, <2>3
  <2>5. QED
    BY <2>4
<1>9. CASE c.key = c.a /\ c.key # c.b
  <2>1. r[c.a].cols = b.cols /\ r[c.b] = b
    BY <1>3, <1>4, <1>9
  <2>2. b.rows < b.cols
    BY <1>6, <2>1
  <2> HIDE DEF a
  <2>3. QED
    BY <1>7, <1>9, <2>2
<1>10. CASE c.key = c.b
  <2>1. r[c.b].rows = a.rows
    BY <1>3, <1>10
  <2>2. r[c.a].cols = a.cols
    BY <1>3, <1>4, <1>10
  <2>3. a.rows < a.cols
    BY <1>6, <2>1, <2>2
  <2> HIDE DEF b
  <2>4. QED
    BY <1>7, <1>10, <2>3
<1>11. QED
  BY <1>8, <1>9, <1>10

(* A sum leaves an operand only if that one has two negative dimensions.   *)
LEMMA SumAstray ==
  ASSUME NEW d \in Databases, NEW c \in WriteCommands, c.op = "MATRIX.ADD",
         MatrixAdd(d, c).reply = "out of bounds"
  PROVE  \E o \in Operands(c) : BothNegative(d[o])
<1> DEFINE r == Resized(d, c)
<1>1. c.key \in Keys /\ c.a \in Keys /\ c.b \in Keys /\ d \in [Keys -> Values]
  BY KeySpaceAssumption DEF KeySpaceAssumption, WriteCommands, Databases
<1>2. /\ Holds(d, c.a, "matrix") /\ Holds(d, c.b, "matrix")
      /\ ~Backed(r[c.a]) \/ ~Backed(r[c.b])
  <2> HIDE DEF r
  <2>1. QED
    BY DEF MatrixAdd, Result, OK, r
<1>3. PICK o \in {c.a, c.b} : ~Backed(r[o])
  BY <1>2
<1>4. /\ d[c.a] \in Matrices /\ d[c.b] \in Matrices /\ r[c.key] \in Matrices
      /\ r[c.key].rows = d[c.a].rows /\ r[c.key].cols = d[c.b].cols
      /\ r = [d EXCEPT ![c.key] = r[c.key]] /\ Backed(r[c.key])
  BY <1>2, ResizedShape
<1>5. o # c.key /\ r[o] = d[o]
  BY <1>1, <1>3, <1>4
<1>6. BothNegative(d[o])
  BY <1>3, <1>4, <1>5, NotBacked
<1>7. QED
  BY <1>3, <1>6 DEF Operands

(* For any commands with any dimensions and operands, after whatever was   *)
(* refused or accepted before, on master and replica: a handler leaves its *)
(* arrays in the cases that HandlersStayInBounds names and in no other.    *)
THEOREM HandlersInBounds == Spec => []HandlersStayInBounds
<1>1. TypeInv /\ CoefficientsKept => HandlersStayInBounds
  <2>1. SUFFICES ASSUME TypeInv, CoefficientsKept, NEW s \in Servers, NEW c \in Commands,
                        NEW d, d = db[s], GoesAstray(d, c)
                 PROVE  \/ c.op = "MATRIX.SET" /\ Len(c.args) > c.rows * c.cols
                        \/ /\ c.op \in {"LINREG.PREDICT", "LOGREG.PREDICT"}
                           /\ s = "master" => Len(c.args) > Len(asked[c.key])
                        \/ c.op = "KMEANS.PREDICT" /\ Len(c.args) > d[c.key].dimensions
                        \/ /\ c.op \in {"MATRIX.GET", "MATRIX.SCALE", "MATRIX.ADD"}
                           /\ \E k \in Operands(c) \cup {c.key} : BothNegative(d[k])
                        \/ /\ c.op = "MATRIX.MULTIPLY"
                           /\ \/ c.key = c.a /\ d[c.b].cols > d[c.b].rows
                              \/ c.key = c.b /\ d[c.a].cols > d[c.a].rows
    BY DEF HandlersStayInBounds
  <2>2. d \in Databases /\ c.key \in Keys /\ d[c.key] \in Values
    BY <2>1, KeySpaceAssumption DEF TypeInv, Databases, KeySpaceAssumption
  <2>3. ASSUME Holds(d, c.key, "matrix"), ~Backed(d[c.key]) PROVE BothNegative(d[c.key])
    BY <2>2, <2>3, ByType, NotBacked DEF Holds
  <2>4. CASE c.op = "MATRIX.GET"
    BY <2>1, <2>3, <2>4 DEF GoesAstray, Writes
  <2>5. CASE c.op \in {"LINREG.PREDICT", "LOGREG.PREDICT"}
    <3>1. Holds(d, c.key, "regression") /\ Len(c.args) > Len(d[c.key].coefficients)
      BY <2>1, <2>5 DEF GoesAstray, Writes
    <3>2. s = "master" => Len(d[c.key].coefficients) = Len(asked[c.key])
      BY <2>1, <2>2, <3>1 DEF CoefficientsKept, Holds
    <3>3. QED
      BY <2>5, <3>1, <3>2
  <2>6. CASE c.op = "KMEANS.PREDICT"
    BY <2>1, <2>6 DEF GoesAstray, Writes
  <2>7. CASE c.op \in Writes
    <3>1. c \in WriteCommands /\ Execute(d, c).reply = "out of bounds"
      BY <2>1, <2>7 DEF GoesAstray, Writes, WriteCommands
    <3>2. CASE c.op = "LINREG.SET"
      BY <3>1, <3>2 DEF Execute, LinRegSet, Result, OK
    <3>3. CASE c.op = "KMEANS.SET"
      BY <3>1, <3>3 DEF Execute, KmeansSet, Result, OK
    <3>4. CASE c.op = "MATRIX.SET"
      BY <3>1, <3>4 DEF Execute, MatrixSet, Result, OK
    <3>5. CASE c.op = "MATRIX.SCALE"
      <4>1. Holds(d, c.key, "matrix") /\ ~Backed(d[c.key])
        BY <3>1, <3>5 DEF Execute, MatrixScale, Result, OK
      <4>2. QED
        BY <2>3, <3>5, <4>1
    <3>6. CASE c.op = "MATRIX.ADD"
      <4>1. MatrixAdd(d, c).reply = "out of bounds"
        BY <3>1, <3>6 DEF Execute
      <4>2. QED
        BY <2>2, <3>1, <3>6, <4>1, SumAstray
    <3>7. CASE c.op = "MATRIX.MULTIPLY"
      <4>1. MatrixMultiply(d, c).reply = "out of bounds"
        BY <3>1, <3>7 DEF Execute
      <4>2. QED
        BY <2>2, <3>1, <3>7, <4>1, ProductAstray
    <3>8. QED
      BY <2>7, <3>2, <3>3, <3>4, <3>5, <3>6, <3>7 DEF Writes
  <2>8. QED
    BY <2>1, <2>4, <2>5, <2>6, <2>7 DEF GoesAstray
<1>2. QED
  BY <1>1, TypesHold, CoefficientsStay, PTL

------------------------------------------------------------------------------
(* Replication.  What a command stores depends on its own key and on its   *)
(* operands.                                                               *)

(* What a command stores depends on its key and its operands only.         *)
LEMMA ExecuteLocal ==
  ASSUME NEW d \in Databases, NEW e \in Databases, NEW c \in WriteCommands,
         \A k \in {c.key} \cup Operands(c) : d[k] = e[k]
  PROVE  Execute(d, c).db[c.key] = Execute(e, c).db[c.key]
<1>1. c.key \in Keys /\ d[c.key] = e[c.key] /\ d \in [Keys -> Values] /\ e \in [Keys -> Values]
  BY KeySpaceAssumption DEF KeySpaceAssumption, WriteCommands, Databases
<1>2. CASE c.op = "LINREG.SET"
  BY <1>1, <1>2 DEF Execute, LinRegSet, CanHold, OK, Result
<1>3. CASE c.op = "KMEANS.SET"
  BY <1>1, <1>3 DEF Execute, KmeansSet, CanHold, OK, Result
<1>4. CASE c.op = "MATRIX.SET"
  BY <1>1, <1>4 DEF Execute, MatrixSet, CanHold, OK, Result, Stray
<1>5. CASE c.op = "MATRIX.SCALE"
  BY <1>1, <1>5 DEF Execute, MatrixScale, Holds, OK, Result, Stray
<1>6. CASE c.op \in {"MATRIX.MULTIPLY", "MATRIX.ADD"}
  <2>1. c.a \in Keys /\ c.b \in Keys /\ d[c.a] = e[c.a] /\ d[c.b] = e[c.b]
    BY <1>6, KeySpaceAssumption DEF KeySpaceAssumption, WriteCommands, Operands
  <2>2. \A k \in {c.key, c.a, c.b} : Resized(d, c)[k] = Resized(e, c)[k]
    BY <1>1, <2>1 DEF Resized
  <2>3. \A v : OK(Resized(d, c), c.key, v).db[c.key] = v /\ OK(Resized(e, c), c.key, v).db[c.key] = v
    <3>1. c.key \in DOMAIN Resized(d, c) /\ c.key \in DOMAIN Resized(e, c)
      BY <1>1 DEF Resized
    <3>2. QED
      BY <3>1 DEF OK, Result
  <2>4. CASE c.op = "MATRIX.MULTIPLY"
    <3>1. Execute(d, c) = MatrixMultiply(d, c) /\ Execute(e, c) = MatrixMultiply(e, c)
      BY <2>4 DEF Execute
    <3> DEFINE r == Resized(d, c)
               t == Resized(e, c)
               V(u) == Matrix(u[c.key].rows, u[c.key].cols,
                              IF c.key \in {c.a, c.b} THEN Malloc(u[c.key].rows * u[c.key].cols)
                              ELSE Dgemm(u[c.a], u[c.b]))
               M(z, u) ==
                 IF ~Holds(z, c.a, "matrix") \/ ~Holds(z, c.b, "matrix") THEN Result(z, "WRONGTYPE")
                 ELSE IF z[c.b].rows # z[c.a].cols THEN Result(z, "BAD_DIMENTIONS")
                 ELSE IF ~CanHold(z, c.key, "matrix") THEN Result(z, "WRONGTYPE")
                 ELSE IF DgemmRefuses(u[c.a], u[c.b]) THEN Result(u, "OK")
                 ELSE IF ~DgemmInBounds(u[c.a], u[c.b]) THEN Stray(z)
                 ELSE OK(u, c.key, V(u))
    <3>2. MatrixMultiply(d, c) = M(d, r) /\ MatrixMultiply(e, c) = M(e, t)
      BY DEF MatrixMultiply
    <3>3. V(r) = V(t) /\ r[c.key] = t[c.key] /\ r[c.a] = t[c.a] /\ r[c.b] = t[c.b]
      BY <2>2
    <3> HIDE DEF V, r, t
    <3>4. M(d, r).db[c.key] = M(e, t).db[c.key]
      BY <1>1, <2>1, <2>3, <3>3 DEF Holds, CanHold, Result, Stray, r, t
    <3>5. QED
      BY <3>1, <3>2, <3>4
  <2>5. CASE c.op = "MATRIX.ADD"
    <3>1. Execute(d, c) = MatrixAdd(d, c) /\ Execute(e, c) = MatrixAdd(e, c)
      BY <2>5 DEF Execute
    <3> DEFINE r == Resized(d, c)
               t == Resized(e, c)
               V(u) == Matrix(u[c.key].rows, u[c.key].cols,
                              Matrix_Add(u[c.a], u[c.b], u[c.key]))
               M(z, u) ==
                 IF ~Holds(z, c.a, "matrix") \/ ~Holds(z, c.b, "matrix") THEN Result(z, "WRONGTYPE")
                 ELSE IF z[c.b].rows # z[c.a].rows \/ z[c.b].cols # z[c.a].cols
                 THEN Result(z, "BAD_DIMENTIONS")
                 ELSE IF ~CanHold(z, c.key, "matrix") THEN Result(z, "WRONGTYPE")
                 ELSE IF ~Backed(u[c.a]) \/ ~Backed(u[c.b]) THEN Stray(z)
                 ELSE OK(u, c.key, V(u))
    <3>2. MatrixAdd(d, c) = M(d, r) /\ MatrixAdd(e, c) = M(e, t)
      BY DEF MatrixAdd
    <3>3. V(r) = V(t) /\ r[c.key] = t[c.key] /\ r[c.a] = t[c.a] /\ r[c.b] = t[c.b]
      BY <2>2
    <3> HIDE DEF V, r, t
    <3>4. M(d, r).db[c.key] = M(e, t).db[c.key]
      BY <1>1, <2>1, <2>3, <3>3 DEF Holds, CanHold, Result, Stray, r, t
    <3>5. QED
      BY <3>1, <3>2, <3>4
  <2>6. QED
    BY <1>6, <2>4, <2>5
<1>7. QED
  BY <1>2, <1>3, <1>4, <1>5, <1>6 DEF WriteCommands, Writes

(* h[i] is a database that the master had when i commands of the stream    *)
(* had been sent, up to the keys in far[i]: those that the replica, when   *)
(* it will have executed these commands, may hold differently.  A command  *)
(* with an operand in far[i - 1] puts its key into far[i].                 *)
Follower(h, far, replica, master, cmds, keys) ==
  /\ h \in [0 .. Len(cmds) -> Databases]
  /\ far \in [0 .. Len(cmds) -> SUBSET Keys]
  /\ \A k \in Keys \ far[0] : replica[k] = h[0][k]
  /\ \A i \in 1 .. Len(cmds) :
       /\ far[i - 1] \subseteq far[i]
       /\ Operands(cmds[i]) \cap far[i - 1] # {} => cmds[i].key \in far[i]
       /\ \A k \in Keys \ far[i] : h[i][k] = Execute(h[i - 1], cmds[i]).db[k]
  /\ \A i \in 0 .. Len(cmds) : \A k \in Keys \ far[i] : Exact(h[i][k])
  /\ far[Len(cmds)] = keys
  /\ \A k \in Keys \ keys : master[k] = h[Len(cmds)][k]

ReplicaInv ==
  \E h, far : Follower(h, far, db["replica"], db["master"], stream, silent)

(* Two databases that agree outside of s agree outside of t after the same *)
(* command, when t holds what the command may carry over.                  *)
LEMMA ExecuteAgrees ==
  ASSUME NEW d \in Databases, NEW e \in Databases, NEW c \in WriteCommands,
         NEW s \in SUBSET Keys, NEW t \in SUBSET Keys, s \subseteq t,
         Operands(c) \cap s # {} => c.key \in t,
         \A k \in Keys \ s : d[k] = e[k]
  PROVE  \A k \in Keys \ t : Execute(d, c).db[k] = Execute(e, c).db[k]
<1>1. SUFFICES ASSUME NEW k \in Keys \ t PROVE Execute(d, c).db[k] = Execute(e, c).db[k]
  OBVIOUS
<1>2. CASE k # c.key
  <2>1. Execute(d, c).db[k] = d[k] /\ Execute(e, c).db[k] = e[k]
    BY <1>2, ExecuteType
  <2>2. QED
    BY <2>1
<1>3. CASE k = c.key
  <2>1. Operands(c) \subseteq Keys /\ Operands(c) \cap s = {}
    BY <1>3, KeySpaceAssumption DEF KeySpaceAssumption, WriteCommands, Operands
  <2>2. \A x \in {c.key} \cup Operands(c) : d[x] = e[x]
    BY <1>3, <2>1
  <2>3. QED
    BY <1>3, <2>2, ExecuteLocal
<1>4. QED
  BY <1>2, <1>3

(* What a file does not change is exact, and the other way round.          *)
LEMMA ReloadedExact ==
  ASSUME NEW v \in Values
  PROVE  /\ Exact(v) => Reloaded(v) = v
         /\ Reloaded(v) = v /\ (v.type = "matrix" => Backed(v)) => Exact(v)
<1>1. CASE v.type = "matrix"
  <2>1. v \in Matrices
    BY <1>1, ByType
  <2>2. Exact(v) => Backed(v)
    <3> DEFINE n == v.rows * v.cols
    <3>1. n \in Int
      BY <2>1, ProductSign DEF Matrices
    <3>2. n <= AtLeastNone(n)
      <4> HIDE DEF n
      <4>1. QED
        BY <3>1 DEF AtLeastNone
    <3>3. QED
      BY <1>1, <3>2 DEF Exact, Backed
  <2>3. QED
    BY <1>1, <2>1, <2>2, ReloadedMatrix DEF Exact
<1>2. CASE v.type # "matrix"
  BY <1>2, ReloadedOther DEF Exact
<1>3. QED
  BY <1>1, <1>2

(* The servers start with the same keys and an empty stream.               *)
LEMMA ReplicaInit == Init => ReplicaInv
<1>1. SUFFICES ASSUME Init PROVE ReplicaInv
  OBVIOUS
<1> DEFINE h == [i \in 0 .. 0 |-> db["master"]]
           far == [i \in 0 .. 0 |-> {}]
<1>2. stream = << >> /\ Len(stream) = 0 /\ silent = {} /\ db["replica"] = db["master"]
  BY <1>1 DEF Init, Servers
<1>3. db["master"] \in Databases
  BY <1>1, TypeInit DEF TypeInv, Servers
<1>4. h \in [0 .. 0 -> Databases] /\ far \in [0 .. 0 -> SUBSET Keys]
  BY <1>3
<1>5. \A k \in Keys : Exact(db["master"][k])
  BY <1>1 DEF Init, Servers, Exact, Nothing
<1>6. h[0] = db["master"] /\ far[0] = {}
  OBVIOUS
<1>7. \A i \in 0 .. 0 : i = 0
  OBVIOUS
<1> HIDE DEF h, far
<1>8. Follower(h, far, db["replica"], db["master"], stream, silent)
  BY <1>2, <1>4, <1>5, <1>6, <1>7 DEF Follower
<1>9. QED
  BY <1>8 DEF ReplicaInv

(* A step that sends nothing and lets silent grow *)
LEMMA SilentGrows ==
  ASSUME NEW h, NEW far, TypeInv, TypeInv',
         Follower(h, far, db["replica"], db["master"], stream, silent),
         stream' = stream, silent \subseteq silent',
         \A k \in Keys \ far[0] : db'["replica"][k] = db["replica"][k],
         \A k \in Keys \ silent' : db'["master"][k] = db["master"][k]
  PROVE  ReplicaInv'
<1> DEFINE n == Len(stream)
           new == [i \in 0 .. n |-> IF i = n THEN silent' ELSE far[i]]
<1>1. n \in Nat /\ stream' = stream /\ silent' \in SUBSET Keys
  BY DEF TypeInv
<1>2. new \in [0 .. n -> SUBSET Keys] /\ new[n] = silent'
  BY <1>1 DEF Follower
<1>3. \A i \in 0 .. n : far[i] \subseteq new[i] /\ (i # n => new[i] = far[i])
  BY <1>1 DEF Follower
<1>4. ASSUME NEW i \in 1 .. n
      PROVE  /\ new[i - 1] = far[i - 1] /\ far[i - 1] \subseteq far[i] /\ far[i] \subseteq new[i]
  BY <1>1, <1>3 DEF Follower
<1> HIDE DEF new
<1>5. \A i \in 1 .. n :
        /\ new[i - 1] \subseteq new[i]
        /\ Operands(stream[i]) \cap new[i - 1] # {} => stream[i].key \in new[i]
        /\ \A k \in Keys \ new[i] : h[i][k] = Execute(h[i - 1], stream[i]).db[k]
  <2>1. SUFFICES ASSUME NEW i \in 1 .. n
                 PROVE  /\ new[i - 1] \subseteq new[i]
                        /\ Operands(stream[i]) \cap new[i - 1] # {} => stream[i].key \in new[i]
                        /\ \A k \in Keys \ new[i] : h[i][k] = Execute(h[i - 1], stream[i]).db[k]
    OBVIOUS
  <2>2. /\ Operands(stream[i]) \cap far[i - 1] # {} => stream[i].key \in far[i]
        /\ \A k \in Keys \ far[i] : h[i][k] = Execute(h[i - 1], stream[i]).db[k]
    BY DEF Follower
  <2>3. QED
    BY <1>4, <2>2
<1>6. \A k \in Keys \ new[0] : db'["replica"][k] = h[0][k]
  BY <1>1, <1>3 DEF Follower
<1>7. \A i \in 0 .. n : \A k \in Keys \ new[i] : Exact(h[i][k])
  BY <1>3 DEF Follower
<1>8. \A k \in Keys \ silent' : db'["master"][k] = h[n][k]
  BY DEF Follower
<1>9. h \in [0 .. n -> Databases]
  BY DEF Follower
<1>10. Follower(h, new, db'["replica"], db'["master"], stream', silent')
  BY <1>1, <1>2, <1>5, <1>6, <1>7, <1>8, <1>9 DEF Follower
<1>11. QED
  BY <1>10 DEF ReplicaInv

(* A command on the master leaves the replica behind by one command more,  *)
(* or adds its key to the silent ones.                                     *)
LEMMA ReplicaCommand ==
  ASSUME NEW h, NEW far, TypeInv, TypeInv',
         Follower(h, far, db["replica"], db["master"], stream, silent),
         NEW c \in WriteCommands, CommandStep(c)
  PROVE  ReplicaInv'
<1> DEFINE r == Execute(db["master"], c)
           n == Len(stream)
<1>1. /\ db'["master"] = r.db /\ db'["replica"] = db["replica"]
      /\ stream' = IF r.reply = "OK" THEN Append(stream, c) ELSE stream
      /\ silent' = IF r.reply # "OK" \/ Operands(c) \cap silent # {}
                   THEN silent \cup {c.key} ELSE silent
      /\ db["master"] \in Databases /\ r.db \in Databases /\ c.key \in Keys
      /\ r.reply = "OK" /\ Exact(db["master"][c.key]) => Exact(r.db[c.key])
  BY CommandEffect
<1>2. \A k \in Keys \ {c.key} : r.db[k] = db["master"][k]
  BY <1>1, ExecuteType
<1>3. n \in Nat /\ silent \in SUBSET Keys /\ silent' \in SUBSET Keys
  BY DEF TypeInv
<1>4. CASE r.reply # "OK"
  <2>1. \A k \in Keys \ silent' : db'["master"][k] = db["master"][k]
    BY <1>1, <1>2, <1>4
  <2>2. silent \subseteq silent' /\ stream' = stream
    BY <1>1, <1>4
  <2> HIDE DEF r, n
  <2>3. QED
    BY <1>1, <2>1, <2>2, SilentGrows
<1>5. CASE r.reply = "OK"
  <2> DEFINE h2 == [i \in 0 .. n + 1 |-> IF i = n + 1 THEN r.db ELSE h[i]]
             far2 == [i \in 0 .. n + 1 |-> IF i = n + 1 THEN silent' ELSE far[i]]
  <2>1. /\ Len(stream') = n + 1 /\ stream'[n + 1] = c
        /\ \A i \in 1 .. n : stream'[i] = stream[i]
    BY <1>1, <1>5 DEF TypeInv
  <2>2. /\ h \in [0 .. n -> Databases] /\ far \in [0 .. n -> SUBSET Keys]
        /\ far[n] = silent /\ \A k \in Keys \ silent : db["master"][k] = h[n][k]
    BY DEF Follower
  <2>3. h2 \in [0 .. n + 1 -> Databases] /\ far2 \in [0 .. n + 1 -> SUBSET Keys]
    BY <1>1, <1>3, <2>2
  <2>4. \A i \in 0 .. n : h2[i] = h[i] /\ far2[i] = far[i]
    BY <1>3
  <2>5. h2[n + 1] = r.db /\ far2[n + 1] = silent'
    BY <1>3
  <2> HIDE DEF h2, far2
  <2>6. ASSUME NEW i \in 1 .. n
        PROVE  /\ far2[i - 1] \subseteq far2[i]
               /\ Operands(stream'[i]) \cap far2[i - 1] # {} => stream'[i].key \in far2[i]
               /\ \A k \in Keys \ far2[i] : h2[i][k] = Execute(h2[i - 1], stream'[i]).db[k]
    <3>1. /\ h2[i] = h[i] /\ far2[i] = far[i] /\ h2[i - 1] = h[i - 1] /\ far2[i - 1] = far[i - 1]
          /\ stream'[i] = stream[i]
      BY <1>3, <2>1, <2>4
    <3>2. /\ far[i - 1] \subseteq far[i]
          /\ Operands(stream[i]) \cap far[i - 1] # {} => stream[i].key \in far[i]
          /\ \A k \in Keys \ far[i] : h[i][k] = Execute(h[i - 1], stream[i]).db[k]
      BY DEF Follower
    <3>3. QED
      BY <3>1, <3>2
  <2>7. /\ silent \subseteq silent'
        /\ Operands(c) \cap silent # {} => c.key \in silent'
        /\ \A k \in Keys \ silent' : r.db[k] = Execute(h[n], c).db[k]
    <3>1. silent \subseteq silent' /\ (Operands(c) \cap silent # {} => c.key \in silent')
      BY <1>1
    <3>2. h[n] \in Databases
      BY <1>3, <2>2
    <3> DEFINE e == h[n]
               d == db["master"]
               s == silent
               t == silent'
    <3>3. d \in Databases /\ e \in Databases /\ s \in SUBSET Keys /\ t \in SUBSET Keys
      BY <1>1, <1>3, <3>2
    <3>4. \A k \in Keys \ s : d[k] = e[k]
      BY <2>2
    <3>5. s \subseteq t /\ (Operands(c) \cap s # {} => c.key \in t)
      BY <3>1
    <3> HIDE DEF d, e, s, t, n, r
    <3>6. \A k \in Keys \ t : Execute(d, c).db[k] = Execute(e, c).db[k]
      BY <3>3, <3>4, <3>5, ExecuteAgrees
    <3>7. QED
      BY <3>1, <3>6 DEF d, e, t, r
  <2>8. ASSUME NEW i \in 1 .. n + 1
        PROVE  /\ far2[i - 1] \subseteq far2[i]
               /\ Operands(stream'[i]) \cap far2[i - 1] # {} => stream'[i].key \in far2[i]
               /\ \A k \in Keys \ far2[i] : h2[i][k] = Execute(h2[i - 1], stream'[i]).db[k]
    <3>1. CASE i = n + 1
      <4>1. i - 1 = n /\ n \in 0 .. n
        BY <1>3, <3>1
      <4> HIDE DEF r
      <4>2. QED
        BY <2>1, <2>2, <2>4, <2>5, <2>7, <3>1, <4>1
    <3>2. CASE i # n + 1
      <4>1. i \in 1 .. n
        BY <1>3, <3>2
      <4>2. QED
        BY <2>6, <4>1
    <3>3. QED
      BY <3>1, <3>2
  <2>9. \A i \in 0 .. n + 1 : \A k \in Keys \ far2[i] : Exact(h2[i][k])
    <3>1. ASSUME NEW i \in 0 .. n, NEW k \in Keys \ far2[i] PROVE Exact(h2[i][k])
      BY <2>4, <3>1 DEF Follower
    <3>2. ASSUME NEW k \in Keys \ silent' PROVE Exact(r.db[k])
      <4>1. Exact(db["master"][k])
        <5>1. k \in Keys \ silent /\ n \in 0 .. n
          BY <1>3, <2>7
        <5>2. Exact(h[n][k])
          BY <2>2, <5>1 DEF Follower
        <5>3. QED
          BY <2>2, <5>1, <5>2
      <4>2. QED
        BY <1>1, <1>2, <1>5, <4>1
    <3>3. \A i \in 0 .. n + 1 : i = n + 1 \/ i \in 0 .. n
      BY <1>3
    <3>4. QED
      BY <2>5, <3>1, <3>2, <3>3
  <2>10. \A k \in Keys \ far2[0] : db'["replica"][k] = h2[0][k]
    BY <1>1, <1>3, <2>4 DEF Follower
  <2>11. \A k \in Keys \ silent' : db'["master"][k] = h2[n + 1][k]
    BY <1>1, <2>5
  <2> HIDE DEF n, r
  <2>12. Follower(h2, far2, db'["replica"], db'["master"], stream', silent')
    BY <2>1, <2>3, <2>5, <2>8, <2>9, <2>10, <2>11 DEF Follower
  <2>13. QED
    BY <2>12 DEF ReplicaInv
<1>6. QED
  BY <1>4, <1>5

(* The replica comes nearer by the first command of the stream.            *)
LEMMA ReplicaReplicate ==
  ASSUME NEW h, NEW far, TypeInv, TypeInv',
         Follower(h, far, db["replica"], db["master"], stream, silent), Replicate
  PROVE  ReplicaInv'
<1> DEFINE c == Head(stream)
           n == Len(stream) - 1
           d == db["replica"]
           e == h[0]
           h2 == [i \in 0 .. n |-> h[i + 1]]
           far2 == [i \in 0 .. n |-> far[i + 1]]
<1>1. /\ c \in WriteCommands /\ d \in Databases
      /\ db'["replica"] = Execute(d, c).db /\ db'["master"] = db["master"]
      /\ silent' = silent
  BY ReplicateEffect DEF Replicate
<1>2. /\ n \in Nat /\ n + 1 = Len(stream) /\ Len(stream') = n /\ stream[1] = c
      /\ \A i \in 1 .. n : stream'[i] = stream[i + 1]
  BY DEF Replicate, TypeInv
<1>3. h \in [0 .. n + 1 -> Databases] /\ far \in [0 .. n + 1 -> SUBSET Keys]
  BY <1>2 DEF Follower
<1>4. /\ e \in Databases /\ far[0] \in SUBSET Keys /\ far[1] \in SUBSET Keys
  BY <1>2, <1>3
<1>5. /\ far[0] \subseteq far[1] /\ (Operands(c) \cap far[0] # {} => c.key \in far[1])
      /\ \A k \in Keys \ far[1] : h[1][k] = Execute(e, c).db[k]
  <2>1. 1 \in 1 .. Len(stream) /\ 1 - 1 = 0
    BY <1>2
  <2>2. QED
    BY <1>2, <2>1 DEF Follower
<1>6. \A k \in Keys \ far[0] : d[k] = e[k]
  BY DEF Follower
<1>7. \A k \in Keys \ far[1] : Execute(d, c).db[k] = Execute(e, c).db[k]
  <2> HIDE DEF c, d, e
  <2>1. QED
    BY <1>1, <1>4, <1>5, <1>6, ExecuteAgrees
<1>8. h2 \in [0 .. n -> Databases] /\ far2 \in [0 .. n -> SUBSET Keys]
  <2>1. \A i \in 0 .. n : i + 1 \in 0 .. n + 1
    BY <1>2
  <2>2. QED
    BY <1>3, <2>1
<1>9. \A i \in 0 .. n : h2[i] = h[i + 1] /\ far2[i] = far[i + 1]
  OBVIOUS
<1> HIDE DEF h2, far2, n
<1>10. \A k \in Keys \ far2[0] : db'["replica"][k] = h2[0][k]
  <2>1. 0 \in 0 .. n /\ 0 + 1 = 1
    BY <1>2
  <2>2. h2[0] = h[1] /\ far2[0] = far[1]
    BY <1>9, <2>1
  <2>3. QED
    BY <1>1, <1>5, <1>7, <2>2
<1>11. ASSUME NEW i \in 1 .. n
       PROVE  /\ far2[i - 1] \subseteq far2[i]
              /\ Operands(stream'[i]) \cap far2[i - 1] # {} => stream'[i].key \in far2[i]
              /\ \A k \in Keys \ far2[i] : h2[i][k] = Execute(h2[i - 1], stream'[i]).db[k]
  <2>1. i \in 0 .. n /\ i - 1 \in 0 .. n /\ i + 1 \in 1 .. n + 1 /\ (i - 1) + 1 = i /\ (i + 1) - 1 = i
    BY <1>2
  <2>2. /\ h2[i] = h[i + 1] /\ far2[i] = far[i + 1] /\ h2[i - 1] = h[i] /\ far2[i - 1] = far[i]
        /\ stream'[i] = stream[i + 1]
    BY <1>2, <1>9, <2>1
  <2>3. /\ far[i] \subseteq far[i + 1]
        /\ Operands(stream[i + 1]) \cap far[i] # {} => stream[i + 1].key \in far[i + 1]
        /\ \A k \in Keys \ far[i + 1] : h[i + 1][k] = Execute(h[i], stream[i + 1]).db[k]
    <3> DEFINE x == i + 1
    <3>1. x \in 1 .. Len(stream) /\ x - 1 = i
      BY <1>2, <2>1
    <3> HIDE DEF x
    <3>2. /\ far[x - 1] \subseteq far[x]
          /\ Operands(stream[x]) \cap far[x - 1] # {} => stream[x].key \in far[x]
          /\ \A k \in Keys \ far[x] : h[x][k] = Execute(h[x - 1], stream[x]).db[k]
      BY <3>1 DEF Follower
    <3>3. QED
      BY <3>1, <3>2 DEF x
  <2>4. QED
    BY <2>2, <2>3
<1>12. \A i \in 0 .. n : \A k \in Keys \ far2[i] : Exact(h2[i][k])
  <2>1. \A i \in 0 .. n : i + 1 \in 0 .. Len(stream)
    BY <1>2
  <2>2. QED
    BY <1>9, <2>1 DEF Follower
<1>13. far2[n] = silent /\ h2[n] = h[Len(stream)]
  BY <1>2, <1>9 DEF Follower
<1>14. \A k \in Keys \ silent : db["master"][k] = h2[n][k]
  BY <1>13 DEF Follower
<1>15. Follower(h2, far2, db'["replica"], db'["master"], stream', silent')
  BY <1>1, <1>2, <1>8, <1>10, <1>11, <1>12, <1>13, <1>14 DEF Follower
<1>16. QED
  BY <1>15 DEF ReplicaInv

(* A reload changes the keys whose values the file does not hold exactly,  *)
(* and makes them silent.                                                  *)
LEMMA ReplicaReload ==
  ASSUME NEW h, NEW far, TypeInv, TypeInv',
         Follower(h, far, db["replica"], db["master"], stream, silent),
         NEW s \in Servers, Reload(s)
  PROVE  ReplicaInv'
<1>1. /\ stream' = stream /\ silent \subseteq silent'
      /\ \A k \in Keys : Reloaded(db[s][k]) # db[s][k] => k \in silent'
  BY DEF Reload
<1>2. CASE s = "master"
  <2>1. /\ db'["replica"] = db["replica"]
        /\ \A k \in Keys : db'["master"][k] = Reloaded(db["master"][k])
    BY <1>2 DEF Reload, TypeInv, Servers
  <2>2. \A k \in Keys \ silent' : db'["master"][k] = db["master"][k]
    BY <1>1, <1>2, <2>1
  <2>3. QED
    BY <1>1, <2>1, <2>2, SilentGrows
<1>3. CASE s = "replica"
  <2>1. /\ db'["master"] = db["master"]
        /\ \A k \in Keys : db'["replica"][k] = Reloaded(db["replica"][k])
    BY <1>3 DEF Reload, TypeInv, Servers
  <2>2. ASSUME NEW k \in Keys \ far[0] PROVE db'["replica"][k] = db["replica"][k]
    <3>1. db["replica"][k] = h[0][k] /\ db["replica"][k] \in Values
      BY DEF Follower, TypeInv, Servers, Databases
    <3>2. 0 \in 0 .. Len(stream)
      BY DEF TypeInv
    <3>3. Exact(h[0][k])
      BY <3>2 DEF Follower
    <3>4. QED
      BY <2>1, <3>1, <3>3, ReloadedExact
  <2>3. QED
    BY <1>1, <2>1, <2>2, SilentGrows
<1>4. QED
  BY <1>2, <1>3 DEF Servers

(* A full synchronisation makes the servers the same.                      *)
LEMMA ReplicaFullSync ==
  ASSUME TypeInv, TypeInv', FullSync
  PROVE  ReplicaInv'
<1> DEFINE d == db["master"]
           h == [i \in 0 .. 0 |-> d]
           far == [i \in 0 .. 0 |-> silent']
<1>1. /\ stream' = << >> /\ db'["master"] = d /\ d \in Databases
      /\ \A k \in Keys : db'["replica"][k] = Reloaded(d[k])
      /\ silent' = {k \in Keys : Reloaded(d[k]) # d[k]}
  BY DEF FullSync, TypeInv, Servers
<1>2. Len(stream') = 0
  BY <1>1
<1>3. \A k \in Keys \ silent' : Exact(d[k]) /\ db'["replica"][k] = d[k]
  <2>1. \A k \in Keys : d[k].type = "matrix" => Backed(d[k])
    BY DEF FullSync, Savable
  <2>2. QED
    BY <1>1, <2>1, ReloadedExact DEF Databases
<1>4. h \in [0 .. 0 -> Databases] /\ far \in [0 .. 0 -> SUBSET Keys]
  BY <1>1
<1>5. h[0] = d /\ far[0] = silent' /\ \A i \in 0 .. 0 : i = 0
  OBVIOUS
<1> HIDE DEF d, h, far
<1>6. Follower(h, far, db'["replica"], db'["master"], stream', silent')
  BY <1>1, <1>2, <1>3, <1>4, <1>5 DEF Follower
<1>7. QED
  BY <1>6 DEF ReplicaInv

(* Each step leaves the replica behind by the commands of the stream.      *)
LEMMA ReplicaStep == TypeInv /\ TypeInv' /\ ReplicaInv /\ [Next]_vars => ReplicaInv'
<1>1. SUFFICES ASSUME TypeInv, TypeInv', ReplicaInv, [Next]_vars PROVE ReplicaInv'
  OBVIOUS
<1>2. PICK h, far : Follower(h, far, db["replica"], db["master"], stream, silent)
  BY <1>1 DEF ReplicaInv
<1>3. ASSUME NEW c \in WriteCommands, CommandStep(c) PROVE ReplicaInv'
  BY <1>1, <1>2, <1>3, ReplicaCommand
<1>4. CASE Replicate
  BY <1>1, <1>2, <1>4, ReplicaReplicate
<1>5. ASSUME NEW s \in Servers, Reload(s) PROVE ReplicaInv'
  BY <1>1, <1>2, <1>5, ReplicaReload
<1>6. CASE FullSync
  BY <1>1, <1>6, ReplicaFullSync
<1>7. CASE UNCHANGED vars
  BY <1>1, <1>7 DEF vars, ReplicaInv
<1>8. ASSUME NEW s \in Servers, Crash(s) PROVE ReplicaInv'
  BY <1>1, <1>8 DEF Crash, ReplicaInv
<1>9. QED
  BY <1>1, <1>3, <1>4, <1>5, <1>6, <1>7, <1>8, NextCases

(* When the stream is empty master and replica agree on every key that is  *)
(* not silent.                                                             *)
THEOREM ReplicaFollows == Spec => []ReplicaAgrees
<1>1. TypeInv /\ ReplicaInv => ReplicaAgrees
  <2>1. SUFFICES ASSUME TypeInv, ReplicaInv, stream = << >>, NEW k \in Keys \ silent
                 PROVE  db["replica"][k] = db["master"][k]
    BY DEF ReplicaAgrees
  <2>2. PICK h, far : Follower(h, far, db["replica"], db["master"], stream, silent)
    BY <2>1 DEF ReplicaInv
  <2>3. Len(stream) = 0
    BY <2>1
  <2>4. far[0] = silent /\ db["master"][k] = h[0][k]
    BY <2>1, <2>2, <2>3 DEF Follower
  <2>5. QED
    BY <2>1, <2>2, <2>4 DEF Follower
<1>2. TypeInv /\ ReplicaInv /\ TypeInv' /\ [Next]_vars => ReplicaInv'
  BY ReplicaStep
<1>3. QED
  BY <1>1, <1>2, ReplicaInit, TypesHold, PTL DEF Spec

------------------------------------------------------------------------------
(* The loop of KMeans_Predict                                              *)

(* The distance from a sample to a centre is an integer when the centre's  *)
(* numbers have been given.                                                *)
LEMMA DistType ==
  ASSUME NEW km \in KmeansModels, \A d \in DOMAIN km.centers : km.centers[d] # Junk,
         NEW x \in [1 .. km.dimensions -> Int], NEW j \in 0 .. km.k - 1
  PROVE  Dist(x, km, j) \in Int
<1> DEFINE n == km.dimensions
           Diff(d) == Plus(x[d], Times(-1, km.centers[j * n + d]))
<1>1. /\ km.k \in Nat /\ n \in Nat /\ km.centers \in Seq(Num) /\ Len(km.centers) = km.k * n
  BY DEF KmeansModels, Positive
<1>2. ASSUME NEW d \in 1 .. n PROVE Times(Diff(d), Diff(d)) \in Int
  <2>1. j * n + d \in 1 .. km.k * n
    <3>1. j + 1 \in 1 .. km.k /\ (j + 1) - 1 = j
      BY <1>1
    <3>2. ((j + 1) - 1) * n + d \in 1 .. km.k * n
      BY <1>1, <3>1, CellInRange
    <3>3. QED
      BY <3>1, <3>2
  <2> DEFINE y == km.centers[j * n + d]
  <2>2. y \in Int
    <3> DEFINE i == j * n + d
               p == km.k * n
    <3>1. i \in 1 .. p /\ Len(km.centers) = p
      BY <1>1, <2>1
    <3> HIDE DEF i, p
    <3>2. i \in DOMAIN km.centers /\ km.centers[i] \in Num
      BY <1>1, <3>1
    <3>3. km.centers[i] \in Int
      BY <3>2 DEF Num
    <3>4. QED
      BY <3>3 DEF i
  <2>3. x[d] \in Int
    OBVIOUS
  <2> HIDE DEF y
  <2>4. Plus(x[d], Times(-1, y)) \in Int
    BY <2>2, <2>3, NumbersAssumption DEF NumbersAssumption, Plus, Times
  <2>5. \A z \in Int : Times(z, z) \in Int
    <3>1. \A z \in Int : z * z \in Int /\ z # Junk
      BY NumbersAssumption DEF NumbersAssumption
    <3>2. QED
      BY <3>1 DEF Times
  <2>6. QED
    BY <2>4, <2>5 DEF y
<1>3. [d \in 1 .. n |-> Times(Diff(d), Diff(d))] \in [1 .. n -> Int]
  BY <1>2
<1>4. Dist(x, km, j) = Sum([d \in 1 .. n |-> Times(Diff(d), Diff(d))])
  BY DEF Dist
<1> HIDE DEF Diff, n
<1>5. QED
  BY <1>1, <1>3, <1>4, IntegerSum

Step(x, km) ==
  [p \in (1 .. km.k) \X (-1 .. km.k - 1) |->
     IF Nearer(x, km, p[2], p[1] - 1) THEN p[1] - 1 ELSE p[2]]

(* The fold that looks for the nearest center goes through the centers in  *)
(* order.                                                                  *)
LEMMA KmeansPredictEnds ==
  ASSUME NEW km \in KmeansModels, \A d \in DOMAIN km.centers : km.centers[d] # Junk, NEW x
  PROVE  EndsIn(KmeansPredict(x, km), -1 .. km.k - 1, km.k, -1, Step(x, km))
<1> DEFINE n == km.k
           V == -1 .. n - 1
           H == Step(x, km)
           q == [j \in 1 .. n |-> j]
           Pick(best, j) == IF Nearer(x, km, best, j - 1) THEN j - 1 ELSE best
           Eqn(f) == f = [t \in SUBSET (1 .. n) |->
                            IF t = {} THEN -1 ELSE Pick(f[t \ {Max(t)}], q[Max(t)])]
           g == CHOOSE f : Eqn(f)
<1>1. n \in Nat /\ -1 \in V
  BY DEF KmeansModels, Positive
<1>2. H \in [(1 .. n) \X V -> V]
  <2>1. ASSUME NEW p \in (1 .. n) \X V
        PROVE  (IF Nearer(x, km, p[2], p[1] - 1) THEN p[1] - 1 ELSE p[2]) \in V
    <3>1. p[1] - 1 \in V /\ p[2] \in V
      BY <1>1
    <3>2. QED
      BY <3>1
  <2>2. QED
    BY <2>1 DEF Step
<1>3. PICK f \in [SUBSET (1 .. n) -> V] : Folds(f, n, -1, H)
  <2> HIDE DEF H, V, n
  <2>1. QED
    BY <1>1, <1>2, FoldExists DEF HasFold
<1>4. ASSUME NEW j \in 1 .. n, NEW v \in V PROVE H[<<j, v>>] = Pick(v, q[j])
  BY DEF Step
<1> HIDE DEF H, Pick
<1>5. Eqn(f)
  <2>1. \A t \in SUBSET (1 .. n) :
          f[t] = IF t = {} THEN -1 ELSE Pick(f[t \ {Max(t)}], q[Max(t)])
    <3>1. SUFFICES ASSUME NEW t \in SUBSET (1 .. n), t # {}
                   PROVE  f[t] = Pick(f[t \ {Max(t)}], q[Max(t)])
      BY <1>3 DEF Folds
    <3>2. Max(t) \in 1 .. n /\ t \ {Max(t)} \in SUBSET (1 .. n)
      BY <1>1, <3>1, MaxOfSubset
    <3>3. f[t] = H[<<Max(t), f[t \ {Max(t)}]>>]
      BY <3>1, <1>3 DEF Folds
    <3>4. QED
      BY <1>4, <3>2, <3>3
  <2>2. QED
    BY <2>1
<1>6. Eqn(g)
  BY <1>5
<1>7. KmeansPredict(x, km) = g[1 .. n]
  <2>1. DOMAIN q = 1 .. n
    OBVIOUS
  <2>2. KmeansPredict(x, km) = FoldLeft(LAMBDA best, j : Pick(best, j), -1, q)
    BY DEF KmeansPredict, Pick
  <2>3. QED
    BY <2>1, <2>2 DEF FoldLeft, MapThenFoldSet
<1>8. Follows(g, V, n, -1, H)
  <2>1. g[{}] = -1
    BY <1>6
  <2>2. ASSUME NEW t \in SUBSET (1 .. n), t # {}, g[t \ {Max(t)}] \in V
        PROVE  g[t] = H[<<Max(t), g[t \ {Max(t)}]>>]
    <3>1. Max(t) \in 1 .. n
      BY <1>1, <2>2, MaxOfSubset
    <3>2. g[t] = Pick(g[t \ {Max(t)}], q[Max(t)])
      BY <1>6, <2>2
    <3> HIDE DEF g, q, V
    <3>3. QED
      BY <1>4, <2>2, <3>1, <3>2
  <2>3. QED
    BY <2>1, <2>2 DEF Follows
<1>9. QED
  <2> HIDE DEF g, V, n
  <2>1. EndsIn(g[1 .. n], V, n, -1, H)
    BY <1>1, <1>2, <1>8, FoldGoes
  <2>2. QED
    BY <2>1, <1>7 DEF H, n, V

(* The loop keeps the first of the nearest centres that it has seen.       *)
LEMMA LoopIsNearest ==
  ASSUME NEW km \in KmeansModels, \A d \in DOMAIN km.centers : km.centers[d] # Junk,
         NEW x \in [1 .. km.dimensions -> Int],
         NEW h, Goes(h, -1 .. km.k - 1, km.k, -1, Step(x, km)),
         NEW m \in 1 .. km.k
  PROVE  /\ h[m] \in 0 .. m - 1
         /\ \A j \in 0 .. m - 1 : IF j < h[m] THEN Dist(x, km, h[m]) < Dist(x, km, j)
                                   ELSE Dist(x, km, h[m]) <= Dist(x, km, j)
<1> DEFINE D(j) == Dist(x, km, j)
           First(r, n) == /\ r \in 0 .. n - 1
                          /\ \A j \in 0 .. n - 1 : IF j < r THEN D(r) < D(j) ELSE D(r) <= D(j)
           P(n) == n + 1 <= km.k => First(h[n + 1], n + 1)
           S == {n \in Nat : P(n)}
<1>1. km.k \in Nat /\ km.k > 0 /\ \A j \in 0 .. km.k - 1 : D(j) \in Int
  <2>1. km.k \in Nat /\ km.k > 0
    BY DEF KmeansModels, Positive
  <2>2. \A j \in 0 .. km.k - 1 : Dist(x, km, j) \in Int
    BY DistType
  <2>3. QED
    BY <2>1, <2>2
<1>2. \A n \in 1 .. km.k :
        /\ h[n - 1] \in -1 .. km.k - 1
        /\ h[n] = IF h[n - 1] = -1 \/ D(n - 1) < D(h[n - 1]) THEN n - 1 ELSE h[n - 1]
  <2>1. SUFFICES ASSUME NEW n \in 1 .. km.k
                 PROVE  /\ h[n - 1] \in -1 .. km.k - 1
                        /\ h[n] = IF h[n - 1] = -1 \/ D(n - 1) < D(h[n - 1]) THEN n - 1
                                  ELSE h[n - 1]
    OBVIOUS
  <2>2. n - 1 \in 0 .. km.k
    BY <1>1
  <2>3. h[n - 1] \in -1 .. km.k - 1 /\ h[n] = Step(x, km)[<<n, h[n - 1]>>]
    BY <2>2 DEF Goes
  <2>4. QED
    BY <2>3 DEF Step, Nearer
<1>3. h[0] = -1
  BY DEF Goes
<1> HIDE DEF D
<1>4. P(0)
  <2>1. SUFFICES ASSUME 0 + 1 <= km.k PROVE First(h[1], 1)
    OBVIOUS
  <2>2. 1 \in 1 .. km.k /\ 1 - 1 = 0
    BY <1>1
  <2>3. h[1] = 0
    BY <1>2, <1>3, <2>2
  <2>4. D(0) \in Int /\ \A j \in 0 .. 1 - 1 : j = 0
    BY <1>1
  <2>5. QED
    BY <2>3, <2>4
<1>5. ASSUME NEW n \in Nat, P(n) PROVE P(n + 1)
  <2>1. SUFFICES ASSUME n + 2 <= km.k PROVE First(h[n + 2], n + 2)
    OBVIOUS
  <2> DEFINE r == h[n + 1]
             z == n + 1
  <2>2. First(r, z)
    BY <1>1, <1>5, <2>1
  <2>3. z \in 0 .. km.k - 1 /\ n + 2 \in 1 .. km.k /\ (n + 2) - 1 = z /\ n + 1 = z
    BY <1>1, <2>1
  <2>4. h[n + 2] = IF r = -1 \/ D(z) < D(r) THEN z ELSE r
    BY <1>2, <2>3
  <2>5. r # -1 /\ r \in 0 .. km.k - 1 /\ r \in 0 .. z - 1
    BY <1>1, <2>2, <2>3
  <2>6. D(z) \in Int /\ D(r) \in Int /\ \A j \in 0 .. z - 1 : D(j) \in Int
    BY <1>1, <2>3, <2>5
  <2>7. \A j \in 0 .. (n + 2) - 1 : j = z \/ j \in 0 .. z - 1
    BY <2>3
  <2>8. \A j \in 0 .. z - 1 : IF j < r THEN D(r) < D(j) ELSE D(r) <= D(j)
    BY <2>2
  <2> HIDE DEF r, z
  <2>9. CASE D(z) < D(r)
    <3>1. h[n + 2] = z
      BY <2>4, <2>9
    <3>2. \A j \in 0 .. z - 1 : j < z /\ D(z) < D(j)
      <4>1. SUFFICES ASSUME NEW j \in 0 .. z - 1 PROVE j < z /\ D(z) < D(j)
        OBVIOUS
      <4>2. D(r) <= D(j) /\ D(j) \in Int
        BY <2>5, <2>6, <2>8
      <4>3. QED
        BY <2>3, <2>6, <2>9, <4>2
    <3>3. QED
      BY <2>3, <2>6, <2>7, <3>1, <3>2
  <2>10. CASE ~(D(z) < D(r))
    <3>1. h[n + 2] = r
      BY <2>4, <2>5, <2>10
    <3>2. ~(z < r) /\ D(r) <= D(z)
      BY <2>3, <2>5, <2>6, <2>10
    <3>3. r \in 0 .. (n + 2) - 1
      BY <2>3, <2>5
    <3>4. QED
      BY <2>7, <2>8, <3>1, <3>2, <3>3
  <2>11. QED
    BY <2>9, <2>10
<1>6. P(m - 1)
  <2> HIDE DEF P
  <2>1. 0 \in S /\ \A n \in Nat : n \in S => n + 1 \in S
    BY <1>4, <1>5
  <2>2. Nat \subseteq S
    <3> HIDE DEF S
    <3>1. QED
      BY <2>1, Induction
  <2>3. m - 1 \in Nat
    BY <1>1
  <2>4. QED
    BY <2>2, <2>3
<1>7. (m - 1) + 1 = m /\ m <= km.k
  BY <1>1
<1>8. First(h[m], m)
  BY <1>6, <1>7
<1>9. QED
  BY <1>8 DEF D

(* The reply of ML.KMEANS.PREDICT is the first of the nearest centres.     *)
THEOREM PredictsNearest == Spec => []NearestCentre
<1>1. TypeInv => NearestCentre
  <2>1. SUFFICES ASSUME TypeInv, NEW c \in CommandsOf("KMEANS.PREDICT"), NEW km, NEW x,
                        km = db["master"][c.key], x = ParseAll(c.args, Calloc(km.dimensions)),
                        km.type = "kmeans", KmeansPredict(x, km) # Junk
                 PROVE  LET r == KmeansPredict(x, km)
                        IN  /\ r \in 0 .. km.k - 1
                            /\ \A j \in 0 .. km.k - 1 :
                                 IF j < r THEN Dist(x, km, r) < Dist(x, km, j)
                                 ELSE Dist(x, km, r) <= Dist(x, km, j)
    BY DEF NearestCentre, KmeansPredictCommand, Holds
  <2>2. c.key \in Keys /\ c.args \in Arguments
    BY KeySpaceAssumption DEF KeySpaceAssumption, CommandsOf, Predictions
  <2>3. km \in KmeansModels
    BY <2>1, <2>2, ByType DEF TypeInv, Servers, Databases
  <2>4. \A d \in DOMAIN km.centers : km.centers[d] # Junk
    BY <2>1 DEF KmeansPredict
  <2>5. x \in [1 .. km.dimensions -> Int]
    <3>1. x = [j \in 1 .. km.dimensions |-> IF j <= Len(c.args) THEN Parse(c.args[j], 0) ELSE 0]
      BY <2>1 DEF ParseAll, Calloc
    <3>2. ASSUME NEW j \in 1 .. km.dimensions
          PROVE  (IF j <= Len(c.args) THEN Parse(c.args[j], 0) ELSE 0) \in Int
      <4>1. km.dimensions \in Nat
        BY <2>3 DEF KmeansModels, Positive
      <4>2. j <= Len(c.args) => c.args[j] \in Int \cup {Bad}
        BY <2>2, <4>1 DEF Arguments
      <4>3. QED
        BY <4>2 DEF Parse
    <3>3. QED
      BY <3>1, <3>2
  <2>6. PICK h : /\ Goes(h, -1 .. km.k - 1, km.k, -1, Step(x, km))
                 /\ KmeansPredict(x, km) = h[km.k]
    BY <2>3, <2>4, KmeansPredictEnds DEF EndsIn
  <2>7. km.k \in 1 .. km.k
    BY <2>3 DEF KmeansModels, Positive
  <2>8. QED
    BY <2>3, <2>4, <2>5, <2>6, <2>7, LoopIsNearest
<1>2. QED
  BY <1>1, TypesHold, PTL
------------------------------------------------------------------------------
(* The walk of a data item down a tree *)

(* One letter further *)
Step1(fv, tree, p) == Append(p, Turn(tree[p], fv))

(* The equation of the recursive function of Forest_TreeClassify *)
Walked(f, fv, tree, p) ==
  IF tree[p].kind = "leaf" THEN p
  ELSE IF Step1(fv, tree, p) \in DOMAIN tree THEN f[Step1(fv, tree, p)]
  ELSE Step1(fv, tree, p)

Walks(f, fv, tree) == f = [p \in DOMAIN tree |-> Walked(f, fv, tree, p)]

(* The node is on the way of the data item. *)
OnTheWay(fv, tree, p) ==
  /\ Reached(tree, p)
  /\ \A n \in 1 .. Len(p) : p[n] = Turn(tree[SubSeq(p, 1, n - 1)], fv)

(* A turn is a letter of a path. *)
LEMMA TurnType == \A node, fv : Turn(node, fv) \in {"l", "r"}
BY DEF Turn

(* The paths of a finite tree have a longest.                              *)
LEMMA DepthExists ==
  ASSUME NEW S, IsFiniteSet(S), NEW f \in [S -> Nat]
  PROVE  \E depth \in Nat : \A p \in S : f[p] <= depth
<1>1. Total(f, S) \in Nat
  <2>1. Total(f, {}) <= Total(f, S) /\ {} \in SUBSET S
    BY TotalMonotonic
  <2>2. f \in [S -> Int]
    OBVIOUS
  <2>3. Total(f, {}) = 0 /\ Total(f, S) \in Int
    BY <2>2, TotalAdds
  <2>4. QED
    BY <2>1, <2>3
<1>2. ASSUME NEW p \in S PROVE f[p] <= Total(f, S)
  <2>1. f \in [S -> Int] /\ {p} \in SUBSET S /\ p \in {p}
    OBVIOUS
  <2>2. Total(f, {p}) = f[p] + Total(f, {p} \ {p})
    BY <2>1, TotalRemove
  <2>3. {p} \ {p} = {}
    OBVIOUS
  <2>4. Total(f, {}) = 0
    BY <2>1, TotalAdds
  <2>5. Total(f, {p}) <= Total(f, S)
    BY <2>1, TotalMonotonic
  <2>6. Total(f, {p}) = f[p]
    <3>1. Total(f, {p} \ {p}) = 0
      BY <2>3, <2>4
    <3>2. f[p] \in Nat
      OBVIOUS
    <3>3. QED
      BY <2>2, <3>1, <3>2
  <2>7. QED
    BY <2>5, <2>6
<1>3. QED
  BY <1>1, <1>2

(* The walk exists, because it goes down.                                  *)
LEMMA WalkExists ==
  ASSUME NEW fv, NEW tree, IsFiniteSet(DOMAIN tree), DOMAIN tree \subseteq Seq({"l", "r"})
  PROVE  \E f : Walks(f, fv, tree)
<1> DEFINE D == DOMAIN tree
           C(p) == Step1(fv, tree, p)
           V == D \cup {C(p) : p \in D}
           R == {p \in D : tree[p].kind # "leaf" /\ C(p) \in D}
           P == [p \in R |-> C(p)]
           H == [x \in R \X V |-> x[2]]
           B == [p \in D |-> IF tree[p].kind = "leaf" THEN p ELSE C(p)]
           length == [p \in D |-> Len(p)]
<1>1. \A p \in D : Len(p) \in Nat /\ Len(C(p)) = Len(p) + 1
  BY TurnType DEF Step1
<1>2. PICK depth \in Nat : \A p \in D : length[p] <= depth
  <2>1. length \in [D -> Nat]
    BY <1>1
  <2> HIDE DEF length
  <2>2. QED
    BY <2>1, DepthExists
<1> DEFINE rank == [p \in D |-> depth - Len(p)]
<1>3. P \in [R -> D] /\ H \in [R \X V -> V] /\ B \in [D -> V] /\ R \in SUBSET D
  OBVIOUS
<1>4. rank \in [D -> 0 .. depth]
  <2>1. \A p \in D : Len(p) \in Nat /\ Len(p) <= depth
    BY <1>1, <1>2
  <2>2. QED
    BY <2>1
<1>5. \A p \in R : rank[P[p]] < rank[p]
  <2>1. ASSUME NEW p \in R PROVE rank[P[p]] < rank[p]
    <3>1. p \in D /\ C(p) \in D /\ P[p] = C(p)
      OBVIOUS
    <3>2. rank[p] = depth - Len(p) /\ rank[C(p)] = depth - Len(C(p))
      BY <3>1
    <3>3. Len(p) \in Nat /\ Len(C(p)) = Len(p) + 1
      BY <1>1, <3>1
    <3> HIDE DEF rank, P, C, R, D
    <3>4. QED
      BY <3>1, <3>2, <3>3
  <2>2. QED
    BY <2>1
<1>6. \E f : Unrolls(f, D, V, R, P, H, B)
  <2> HIDE DEF D, V, R, P, H, B, rank
  <2>1. QED
    BY <1>3, <1>4, <1>5, RecursionExists
<1>7. PICK f : Unrolls(f, D, V, R, P, H, B)
  BY <1>6
<1>8. f \in [D -> V]
  BY <1>7 DEF Unrolls
<1>9. ASSUME NEW p \in D PROVE f[p] = Walked(f, fv, tree, p)
  <2>1. f[p] = Unrolled(f, R, P, H, B, p)
    BY <1>7 DEF Unrolls
  <2>2. CASE p \in R
    <3>1. P[p] = C(p) /\ C(p) \in D /\ f[C(p)] \in V
      BY <1>8, <2>2
    <3>2. H[<<p, f[C(p)]>>] = f[C(p)]
      BY <2>2, <3>1
    <3>3. f[p] = f[C(p)]
      BY <2>1, <2>2, <3>1, <3>2 DEF Unrolled
    <3>4. QED
      BY <2>2, <3>3 DEF Walked
  <2>3. CASE p \notin R
    BY <2>1, <2>3 DEF Unrolled, Walked
  <2>4. QED
    BY <2>2, <2>3
<1>10. f = [p \in D |-> Walked(f, fv, tree, p)]
  <2> HIDE DEF V
  <2>1. QED
    BY <1>8, <1>9
<1>11. QED
  BY <1>10 DEF Walks

(* A splitter on the way has its next node on the way.                     *)
LEMMA NextOnTheWay ==
  ASSUME NEW fv, NEW tree, CompleteTree(tree), NEW p \in DOMAIN tree,
         OnTheWay(fv, tree, p), tree[p].kind # "leaf"
  PROVE  /\ Step1(fv, tree, p) \in DOMAIN tree
         /\ OnTheWay(fv, tree, Step1(fv, tree, p))
<1> DEFINE s == Turn(tree[p], fv)
           q == Append(p, s)
<1>1. s \in {"l", "r"} /\ p \in Seq({"l", "r"})
  BY TurnType DEF CompleteTree
<1>2. q \in DOMAIN tree
  BY <1>1 DEF CompleteTree, OnTheWay
<1> HIDE DEF s
<1>3. /\ Len(p) \in Nat /\ Len(q) = Len(p) + 1 /\ q[Len(q)] = s
      /\ \A n \in 1 .. Len(p) : q[n] = p[n]
  BY <1>1
<1>4. \A n \in 0 .. Len(p) : SubSeq(q, 1, n) = SubSeq(p, 1, n)
  BY <1>1
<1>5. SubSeq(p, 1, Len(p)) = p
  BY <1>1
<1> HIDE DEF q
<1>6. Reached(tree, q)
  <2>1. ASSUME NEW n \in 0 .. Len(q) - 1 PROVE tree[SubSeq(q, 1, n)].kind # "leaf"
    <3>1. n \in 0 .. Len(p) /\ SubSeq(q, 1, n) = SubSeq(p, 1, n)
      BY <1>3, <1>4
    <3>2. CASE n = Len(p)
      BY <1>5, <3>1, <3>2
    <3>3. CASE n < Len(p)
      <4>1. n \in 0 .. Len(p) - 1
        BY <1>3, <3>1, <3>3
      <4>2. QED
        BY <3>1, <4>1 DEF OnTheWay, Reached
    <3>4. QED
      BY <1>3, <3>1, <3>2, <3>3
  <2>2. QED
    BY <2>1 DEF Reached
<1>7. ASSUME NEW n \in 1 .. Len(q) PROVE q[n] = Turn(tree[SubSeq(q, 1, n - 1)], fv)
  <2>1. n - 1 \in 0 .. Len(p) /\ SubSeq(q, 1, n - 1) = SubSeq(p, 1, n - 1)
    <3>1. n - 1 \in 0 .. Len(p)
      BY <1>3
    <3>2. QED
      BY <1>4, <3>1
  <2>2. CASE n = Len(q)
    <3>1. n - 1 = Len(p)
      BY <1>3, <2>2
    <3>2. SubSeq(q, 1, n - 1) = p
      BY <1>5, <2>1, <3>1
    <3>3. QED
      BY <1>3, <2>2, <3>2 DEF s
  <2>3. CASE n # Len(q)
    <3>1. n \in 1 .. Len(p)
      BY <1>3, <2>3
    <3>2. p[n] = Turn(tree[SubSeq(p, 1, n - 1)], fv)
      BY <3>1 DEF OnTheWay
    <3>3. QED
      BY <1>3, <2>1, <3>1, <3>2
  <2>4. QED
    BY <2>2, <2>3
<1>8. QED
  BY <1>2, <1>6, <1>7 DEF OnTheWay, Step1, q, s

(* What Forest_TreeClassify computes is such a walk from the root.         *)
LEMMA WalkReads ==
  ASSUME NEW fv, NEW tree, CompleteTree(tree)
  PROVE  \E f : Walks(f, fv, tree) /\ Forest_TreeClassify(fv, tree) = f[<<>>]
<1> DEFINE k == CHOOSE f : Walks(f, fv, tree)
<1>1. \E f : Walks(f, fv, tree)
  BY WalkExists DEF CompleteTree
<1>2. Walks(k, fv, tree)
  BY <1>1
<1>3. Forest_TreeClassify(fv, tree) = k[<<>>]
  BY DEF CompleteTree, Forest_TreeClassify, Walks, Walked, Step1
<1> HIDE DEF k
<1>4. QED
  BY <1>2, <1>3

(* A beginning of a path and its next letter                               *)
LEMMA Beginnings ==
  ASSUME NEW q \in Seq({"l", "r"}), NEW k \in 0 .. Len(q)
  PROVE  /\ SubSeq(q, 1, k) \in Seq({"l", "r"}) /\ Len(SubSeq(q, 1, k)) = k
         /\ \A n \in 0 .. k : SubSeq(SubSeq(q, 1, k), 1, n) = SubSeq(q, 1, n)
         /\ k < Len(q) => Append(SubSeq(q, 1, k), q[k + 1]) = SubSeq(q, 1, k + 1)
         /\ SubSeq(q, 1, 0) = <<>> /\ SubSeq(q, 1, Len(q)) = q
OBVIOUS

(* The walk ends at a leaf on the way: the longest path that it comes      *)
(* through is one.                                                         *)
LEMMA WalkEnds ==
  ASSUME NEW fv, NEW tree, CompleteTree(tree), NEW f, Walks(f, fv, tree)
  PROVE  \E q \in DOMAIN tree : /\ tree[q].kind = "leaf" /\ OnTheWay(fv, tree, q)
                               /\ f[<<>>] = q
<1> DEFINE D == DOMAIN tree
           W == {q \in D : OnTheWay(fv, tree, q) /\ f[q] = f[<<>>]}
           length == [p \in D |-> Len(p)]
<1>1. \A q \in D : q \in Seq({"l", "r"}) /\ Len(q) \in Nat
  BY DEF CompleteTree
<1>2. <<>> \in W
  <2>1. <<>> \in D /\ Len(<<>>) = 0
    BY DEF CompleteTree
  <2>2. OnTheWay(fv, tree, <<>>)
    BY <2>1 DEF OnTheWay, Reached
  <2>3. QED
    BY <2>1, <2>2
<1>3. PICK depth \in Nat : \A q \in D : length[q] <= depth
  <2>1. length \in [D -> Nat] /\ IsFiniteSet(D)
    BY <1>1 DEF CompleteTree
  <2> HIDE DEF length, D
  <2>2. QED
    BY <2>1, DepthExists
<1>4. \A q \in D : Len(q) <= depth
  BY <1>3
<1> DEFINE K == {depth - Len(q) : q \in W}
<1>5. K \subseteq Nat /\ K # {}
  <2>1. \A q \in W : depth - Len(q) \in Nat
    <3>1. SUFFICES ASSUME NEW q \in W PROVE depth - Len(q) \in Nat
      OBVIOUS
    <3>2. Len(q) \in Nat /\ Len(q) <= depth
      BY <1>1, <1>4
    <3>3. QED
      BY <3>2
  <2>2. QED
    BY <1>2, <2>1
<1>6. PICK n \in K : \A m \in K : n <= m
  <2> HIDE DEF K
  <2>1. QED
    BY <1>5, LeastNat
<1>7. PICK q \in W : n = depth - Len(q)
  OBVIOUS
<1>8. q \in D /\ OnTheWay(fv, tree, q) /\ f[q] = f[<<>>] /\ f[q] = Walked(f, fv, tree, q)
  BY <1>7 DEF Walks
<1>9. tree[q].kind = "leaf"
  <2> DEFINE next == Step1(fv, tree, q)
  <2>1. SUFFICES ASSUME tree[q].kind # "leaf" PROVE FALSE
    OBVIOUS
  <2>2. next \in D /\ OnTheWay(fv, tree, next)
    BY <1>8, <2>1, NextOnTheWay
  <2>3. f[next] = f[<<>>]
    BY <1>8, <2>1, <2>2 DEF Walked
  <2>4. next \in W
    BY <2>2, <2>3
  <2>5. Len(next) = Len(q) + 1
    BY <1>1, <1>8, TurnType DEF Step1
  <2>6. n <= depth - Len(next)
    BY <1>6, <2>4
  <2>7. Len(q) \in Nat
    BY <1>1, <1>8
  <2> HIDE DEF next, W, K
  <2>8. QED
    BY <1>7, <2>5, <2>6, <2>7
<1>10. QED
  BY <1>8, <1>9 DEF Walked

(* A leaf on the way is where the walk ends: it comes through every        *)
(* beginning of the leaf's path.                                           *)
LEMMA OnlyLeaf ==
  ASSUME NEW fv, NEW tree, CompleteTree(tree), NEW f, Walks(f, fv, tree),
         NEW q \in DOMAIN tree, tree[q].kind = "leaf", OnTheWay(fv, tree, q)
  PROVE  f[<<>>] = q
<1> DEFINE P(k) == k <= Len(q) =>
                     SubSeq(q, 1, k) \in DOMAIN tree /\ f[SubSeq(q, 1, k)] = f[<<>>]
           S == {k \in Nat : P(k)}
<1>1. q \in Seq({"l", "r"}) /\ Len(q) \in Nat
  BY DEF CompleteTree
<1>2. P(0)
  <2>1. 0 \in 0 .. Len(q)
    BY <1>1
  <2>2. SubSeq(q, 1, 0) = <<>>
    BY <1>1, <2>1, Beginnings
  <2>3. QED
    BY <2>2 DEF CompleteTree
<1>3. ASSUME NEW k \in Nat, P(k) PROVE P(k + 1)
  <2> DEFINE p == SubSeq(q, 1, k)
  <2>1. SUFFICES ASSUME k + 1 <= Len(q)
                 PROVE  /\ SubSeq(q, 1, k + 1) \in DOMAIN tree
                        /\ f[SubSeq(q, 1, k + 1)] = f[<<>>]
    OBVIOUS
  <2>2. k \in 0 .. Len(q) /\ k \in 0 .. Len(q) - 1 /\ k + 1 \in 1 .. Len(q)
    BY <1>1, <2>1
  <2>3. p \in DOMAIN tree /\ f[p] = f[<<>>]
    BY <1>3, <2>2
  <2>4. tree[p].kind # "leaf"
    BY <2>2 DEF OnTheWay, Reached
  <2>5. Reached(tree, p)
    <3>1. ASSUME NEW n \in 0 .. Len(p) - 1 PROVE tree[SubSeq(p, 1, n)].kind # "leaf"
      <4>1. Len(p) = k /\ \A m \in 0 .. k : SubSeq(p, 1, m) = SubSeq(q, 1, m)
        BY <1>1, <2>2, Beginnings
      <4>2. n \in 0 .. k /\ n \in 0 .. Len(q) - 1
        BY <1>1, <2>1, <4>1
      <4>3. SubSeq(p, 1, n) = SubSeq(q, 1, n)
        BY <4>1, <4>2
      <4>4. QED
        BY <4>2, <4>3 DEF OnTheWay, Reached
    <3>2. QED
      BY <3>1 DEF Reached
  <2>6. q[k + 1] = Turn(tree[p], fv)
    <3>1. q[k + 1] = Turn(tree[SubSeq(q, 1, (k + 1) - 1)], fv)
      BY <2>2 DEF OnTheWay
    <3>2. (k + 1) - 1 = k
      OBVIOUS
    <3>3. QED
      BY <3>1, <3>2
  <2>7. Append(p, q[k + 1]) = SubSeq(q, 1, k + 1)
    BY <1>1, <2>1, <2>2, Beginnings
  <2>8. Step1(fv, tree, p) = SubSeq(q, 1, k + 1)
    BY <2>6, <2>7 DEF Step1
  <2> HIDE DEF p
  <2>9. Step1(fv, tree, p) \in DOMAIN tree
    BY <2>3, <2>4, <2>5, TurnType DEF CompleteTree, Step1
  <2>10. f[p] = Walked(f, fv, tree, p)
    BY <2>3 DEF Walks
  <2>11. f[p] = f[Step1(fv, tree, p)]
    BY <2>4, <2>9, <2>10 DEF Walked
  <2>12. QED
    BY <2>3, <2>8, <2>9, <2>11
<1>4. P(Len(q))
  <2> HIDE DEF P
  <2>1. 0 \in S /\ \A k \in Nat : k \in S => k + 1 \in S
    BY <1>2, <1>3
  <2>2. Nat \subseteq S
    <3> HIDE DEF S
    <3> QED BY <2>1, Induction
  <2>3. QED
    BY <1>1, <2>2
<1>5. f[q] = f[<<>>]
  <2>1. SubSeq(q, 1, Len(q)) = q
    BY <1>1, Beginnings
  <2>2. Len(q) <= Len(q)
    BY <1>1
  <2>3. f[SubSeq(q, 1, Len(q))] = f[<<>>]
    BY <1>4, <2>2
  <2>4. QED
    BY <2>1, <2>3
<1>6. f[q] = q
  BY DEF Walks, Walked
<1>7. QED
  BY <1>5, <1>6
------------------------------------------------------------------------------
(* The values of a data item *)

Pairs == Texts \X Texts

FeatureVecs == [numericFields : [Fields -> Int], features : Seq(STRING \X Int)]

(* A pair becomes the value of a number or one more text.                  *)
LEMMA AddedType ==
  ASSUME NEW fv \in FeatureVecs, NEW pair \in Pairs
  PROVE  /\ AddFeature(fv, pair) \in FeatureVecs
         /\ Numeric(pair[1]) =>
              /\ AddFeature(fv, pair).features = fv.features
              /\ AddFeature(fv, pair).numericFields =
                   [fv.numericFields EXCEPT ![pair[1].number] = pair[2].number]
         /\ ~Numeric(pair[1]) =>
              /\ AddFeature(fv, pair).features = Append(fv.features, <<pair[1].text, pair[2].number>>)
              /\ AddFeature(fv, pair).numericFields = fv.numericFields
<1>1. /\ fv.numericFields \in [Fields -> Int] /\ fv.features \in Seq(STRING \X Int)
      /\ pair[1].text \in STRING /\ pair[2].number \in Int
  BY DEF FeatureVecs, Pairs, Texts
<1>2. CASE Numeric(pair[1])
  <2>1. AddFeature(fv, pair) = [fv EXCEPT !.numericFields = [@ EXCEPT ![pair[1].number] = pair[2].number]]
    BY <1>2 DEF AddFeature
  <2>2. [fv.numericFields EXCEPT ![pair[1].number] = pair[2].number] \in [Fields -> Int]
    BY <1>1
  <2>3. QED
    BY <1>2, <2>1, <2>2 DEF FeatureVecs
<1>3. CASE ~Numeric(pair[1])
  <2>1. AddFeature(fv, pair) = [fv EXCEPT !.features = Append(@, <<pair[1].text, pair[2].number>>)]
    BY <1>3 DEF AddFeature
  <2>2. Append(fv.features, <<pair[1].text, pair[2].number>>) \in Seq(STRING \X Int)
    BY <1>1
  <2>3. QED
    BY <1>3, <2>1, <2>2 DEF FeatureVecs
<1>4. QED
  BY <1>2, <1>3

(* The vector is reached from the empty one by adding one pair after the   *)
(* other.                                                                  *)
LEMMA CreateEnds ==
  ASSUME NEW data \in Data
  PROVE  EndsIn(FeatureVec_Create(data), FeatureVecs, Len(data), EmptyVec,
                [p \in (1 .. Len(data)) \X FeatureVecs |-> AddFeature(p[2], data[p[1]])])
<1> DEFINE n == Len(data)
           Eqn(f) == f = [t \in SUBSET (1 .. n) |->
                            IF t = {} THEN EmptyVec
                            ELSE AddFeature(f[t \ {Max(t)}], data[Max(t)])]
           H == [p \in (1 .. n) \X FeatureVecs |-> AddFeature(p[2], data[p[1]])]
           g == CHOOSE f : Eqn(f)
<1>0. n \in Nat /\ DOMAIN data = 1 .. n /\ \A j \in 1 .. n : data[j] \in Pairs
  BY DEF Data, Pairs
<1>1. EmptyVec \in FeatureVecs
  BY DEF EmptyVec, FeatureVecs
<1>2. H \in [(1 .. n) \X FeatureVecs -> FeatureVecs]
  <2>1. \A p \in (1 .. n) \X FeatureVecs : AddFeature(p[2], data[p[1]]) \in FeatureVecs
    <3>1. SUFFICES ASSUME NEW p \in (1 .. n) \X FeatureVecs
                   PROVE  AddFeature(p[2], data[p[1]]) \in FeatureVecs
      OBVIOUS
    <3>2. p[2] \in FeatureVecs /\ data[p[1]] \in Pairs
      BY <1>0
    <3>3. QED
      BY <3>2, AddedType
  <2>2. QED
    BY <2>1
<1>3. PICK f \in [SUBSET (1 .. n) -> FeatureVecs] : Folds(f, n, EmptyVec, H)
  <2> HIDE DEF H, n
  <2>1. QED
    BY <1>0, <1>1, <1>2, FoldExists DEF HasFold
<1>4. Eqn(f)
  <2>1. \A t \in SUBSET (1 .. n) :
          f[t] = IF t = {} THEN EmptyVec ELSE AddFeature(f[t \ {Max(t)}], data[Max(t)])
    <3>1. SUFFICES ASSUME NEW t \in SUBSET (1 .. n), t # {}
                   PROVE  f[t] = AddFeature(f[t \ {Max(t)}], data[Max(t)])
      BY <1>3 DEF Folds
    <3>2. Max(t) \in 1 .. n /\ t \ {Max(t)} \in SUBSET (1 .. n)
      BY <1>0, <3>1, MaxOfSubset
    <3>3. f[t] = H[<<Max(t), f[t \ {Max(t)}]>>]
      BY <3>1, <1>3 DEF Folds
    <3>4. QED
      BY <3>2, <3>3
  <2>2. QED
    BY <2>1
<1>5. Eqn(g)
  BY <1>4
<1>6. FeatureVec_Create(data) = g[1 .. n]
  BY <1>0 DEF FeatureVec_Create, FoldLeft, MapThenFoldSet
<1>7. Follows(g, FeatureVecs, n, EmptyVec, H)
  <2>1. g[{}] = EmptyVec
    BY <1>5
  <2>2. ASSUME NEW t \in SUBSET (1 .. n), t # {}, g[t \ {Max(t)}] \in FeatureVecs
        PROVE  g[t] = H[<<Max(t), g[t \ {Max(t)}]>>]
    <3>1. Max(t) \in 1 .. n
      BY <1>0, <2>2, MaxOfSubset
    <3>2. g[t] = AddFeature(g[t \ {Max(t)}], data[Max(t)])
      BY <1>5, <2>2
    <3> HIDE DEF g
    <3>3. QED
      BY <2>2, <3>1, <3>2
  <2>3. QED
    BY <2>1, <2>2 DEF Follows
<1>8. QED
  <2> HIDE DEF g, H, n
  <2>1. EndsIn(g[1 .. n], FeatureVecs, n, EmptyVec, H)
    BY <1>0, <1>1, <1>2, <1>7, FoldGoes
  <2>2. QED
    BY <2>1, <1>6 DEF H, n
------------------------------------------------------------------------------
(* v is the last value given for the number m among the first k, or 0.     *)
LastOf(data, k, m, v) ==
  \/ v = 0 /\ \A j \in 1 .. k : data[j][1].number # m
  \/ \E j \in 1 .. k : /\ data[j][1].number = m /\ data[j][2].number = v
                       /\ \A i \in j + 1 .. k : data[i][1].number # m

(* The features hold the first value given for the text x among the first  *)
(* k, or x is in neither.                                                  *)
HasText(pair, x) == ~Numeric(pair[1]) /\ pair[1].text = x

FirstOf(data, k, features, x) ==
  \/ /\ \A j \in 1 .. k : ~HasText(data[j], x)
     /\ \A i \in DOMAIN features : features[i][1] # x
  \/ \E j \in 1 .. k, i \in DOMAIN features :
       /\ HasText(data[j], x) /\ \A l \in 1 .. j - 1 : ~HasText(data[l], x)
       /\ features[i][1] = x /\ \A l \in 1 .. i - 1 : features[l][1] # x
       /\ features[i][2] = data[j][2].number

(* One more pair and the numbers                                           *)
LEMMA LastStep ==
  ASSUME NEW data \in Data, NEW k \in 1 .. Len(data), NEW fv \in FeatureVecs,
         NEW m \in Fields, LastOf(data, k - 1, m, fv.numericFields[m])
  PROVE  LastOf(data, k, m, AddFeature(fv, data[k]).numericFields[m])
<1> DEFINE v == AddFeature(fv, data[k]).numericFields[m]
<1>1. data[k] \in Pairs /\ Len(data) \in Nat /\ k \in Nat
  BY DEF Data, Pairs
<1>2. fv.numericFields \in [Fields -> Int]
  BY DEF FeatureVecs
<1>3. CASE data[k][1].number = m
  <2>1. v = data[k][2].number
    BY <1>1, <1>2, <1>3, AddedType DEF Numeric
  <2>2. k \in 1 .. k /\ \A i \in k + 1 .. k : data[i][1].number # m
    BY <1>1
  <2>3. QED
    BY <1>3, <2>1, <2>2 DEF LastOf
<1>4. CASE data[k][1].number # m
  <2>1. v = fv.numericFields[m]
    BY <1>1, <1>2, <1>4, AddedType DEF Numeric
  <2>2. \A j \in 1 .. k : j \in 1 .. k - 1 \/ j = k
    BY <1>1
  <2>3. CASE v = 0 /\ \A j \in 1 .. k - 1 : data[j][1].number # m
    BY <1>4, <2>2, <2>3 DEF LastOf
  <2>4. CASE \E j \in 1 .. k - 1 : /\ data[j][1].number = m /\ data[j][2].number = v
                                   /\ \A i \in j + 1 .. k - 1 : data[i][1].number # m
    <3>1. PICK j \in 1 .. k - 1 : /\ data[j][1].number = m /\ data[j][2].number = v
                                  /\ \A i \in j + 1 .. k - 1 : data[i][1].number # m
      BY <2>4
    <3>2. j \in 1 .. k /\ \A i \in j + 1 .. k : i \in j + 1 .. k - 1 \/ i = k
      BY <1>1
    <3>3. QED
      BY <1>4, <3>1, <3>2 DEF LastOf
  <2>5. QED
    BY <2>1, <2>3, <2>4 DEF LastOf
<1>5. QED
  BY <1>3, <1>4

(* One more pair and the texts                                             *)
LEMMA FirstStep ==
  ASSUME NEW data \in Data, NEW k \in 1 .. Len(data), NEW fv \in FeatureVecs, NEW x,
         FirstOf(data, k - 1, fv.features, x)
  PROVE  FirstOf(data, k, AddFeature(fv, data[k]).features, x)
<1> DEFINE fs == fv.features
           gs == AddFeature(fv, data[k]).features
<1>1. data[k] \in Pairs /\ Len(data) \in Nat /\ k \in Nat
  BY DEF Data, Pairs
<1>2. fs \in Seq(STRING \X Int) /\ Len(fs) \in Nat /\ DOMAIN fs = 1 .. Len(fs)
  BY DEF FeatureVecs
<1>3. /\ Numeric(data[k][1]) => gs = fs
      /\ ~Numeric(data[k][1]) => gs = Append(fs, <<data[k][1].text, data[k][2].number>>)
  BY <1>1, AddedType
<1>4. \A j \in 1 .. k : j \in 1 .. k - 1 \/ j = k
  BY <1>1
<1>5. \A j \in 1 .. k - 1 : j \in 1 .. k
  BY <1>1
<1>6. k \in 1 .. k
  BY <1>1
<1>7. Numeric(data[k][1]) \/ (/\ DOMAIN gs = 1 .. Len(fs) + 1
                              /\ gs[Len(fs) + 1] = <<data[k][1].text, data[k][2].number>>
                              /\ \A i \in 1 .. Len(fs) : gs[i] = fs[i])
  <2>1. SUFFICES ASSUME ~Numeric(data[k][1])
                 PROVE  /\ DOMAIN gs = 1 .. Len(fs) + 1
                        /\ gs[Len(fs) + 1] = <<data[k][1].text, data[k][2].number>>
                        /\ \A i \in 1 .. Len(fs) : gs[i] = fs[i]
    OBVIOUS
  <2>2. gs = Append(fs, <<data[k][1].text, data[k][2].number>>)
    BY <1>3, <2>1
  <2> HIDE DEF gs, fs
  <2>3. QED
    BY <1>2, <2>2
<1>a. FirstOf(data, k - 1, fs, x)
  OBVIOUS
<1>b. SUFFICES FirstOf(data, k, gs, x)
  OBVIOUS
<1> HIDE DEF gs, fs
<1>8. CASE /\ \A j \in 1 .. k - 1 : ~HasText(data[j], x)
           /\ \A i \in DOMAIN fs : fs[i][1] # x
  <2>1. CASE Numeric(data[k][1])
    <3>1. ~HasText(data[k], x) /\ gs = fs
      BY <1>3, <2>1 DEF HasText
    <3>2. QED
      BY <1>4, <1>8, <3>1 DEF FirstOf
  <2>2. CASE ~Numeric(data[k][1]) /\ data[k][1].text # x
    <3>1. ~HasText(data[k], x)
      BY <2>2 DEF HasText
    <3>2. \A i \in DOMAIN gs : gs[i][1] # x
      <4>1. \A i \in 1 .. Len(fs) + 1 : i \in 1 .. Len(fs) \/ i = Len(fs) + 1
        BY <1>2
      <4>2. gs[Len(fs) + 1][1] # x
        BY <1>7, <2>2
      <4>3. \A i \in 1 .. Len(fs) : gs[i][1] # x
        BY <1>2, <1>7, <1>8, <2>2
      <4>4. QED
        BY <1>7, <2>2, <4>1, <4>2, <4>3
    <3>3. QED
      BY <1>4, <1>8, <3>1, <3>2 DEF FirstOf
  <2>3. CASE ~Numeric(data[k][1]) /\ data[k][1].text = x
    <3> DEFINE i == Len(fs) + 1
    <3>1. HasText(data[k], x) /\ \A l \in 1 .. k - 1 : ~HasText(data[l], x)
      BY <1>8, <2>3 DEF HasText
    <3>2. i \in DOMAIN gs /\ gs[i][1] = x /\ gs[i][2] = data[k][2].number
      BY <1>2, <1>7, <2>3
    <3>3. \A l \in 1 .. i - 1 : gs[l][1] # x
      <4>1. \A l \in 1 .. i - 1 : l \in 1 .. Len(fs)
        BY <1>2
      <4>2. QED
        BY <1>2, <1>7, <1>8, <2>3, <4>1
    <3> HIDE DEF i
    <3>4. QED
      BY <1>6, <3>1, <3>2, <3>3 DEF FirstOf
  <2>4. QED
    BY <2>1, <2>2, <2>3
<1>9. CASE \E j \in 1 .. k - 1, i \in DOMAIN fs :
             /\ HasText(data[j], x) /\ \A l \in 1 .. j - 1 : ~HasText(data[l], x)
             /\ fs[i][1] = x /\ \A l \in 1 .. i - 1 : fs[l][1] # x
             /\ fs[i][2] = data[j][2].number
  <2>1. PICK j \in 1 .. k - 1, i \in DOMAIN fs :
             /\ HasText(data[j], x) /\ \A l \in 1 .. j - 1 : ~HasText(data[l], x)
             /\ fs[i][1] = x /\ \A l \in 1 .. i - 1 : fs[l][1] # x
             /\ fs[i][2] = data[j][2].number
    BY <1>9
  <2>2. i \in DOMAIN gs /\ gs[i] = fs[i]
    <3>1. i \in 1 .. Len(fs) /\ i \in 1 .. Len(fs) + 1
      BY <1>2
    <3>2. QED
      BY <1>2, <1>3, <1>7, <3>1
  <2>3. \A l \in 1 .. i - 1 : gs[l] = fs[l]
    <3>1. \A l \in 1 .. i - 1 : l \in 1 .. Len(fs)
      BY <1>2
    <3>2. QED
      BY <1>3, <1>7, <3>1
  <2>4. /\ j \in 1 .. k /\ i \in DOMAIN gs
        /\ HasText(data[j], x) /\ \A l \in 1 .. j - 1 : ~HasText(data[l], x)
        /\ gs[i][1] = x /\ \A l \in 1 .. i - 1 : gs[l][1] # x
        /\ gs[i][2] = data[j][2].number
    BY <1>5, <2>1, <2>2, <2>3
  <2>5. QED
    BY <2>4 DEF FirstOf
<1>10. QED
  BY <1>a, <1>8, <1>9 DEF FirstOf

(* What the vector of a data item holds, by induction over its pairs       *)
LEMMA VecHolds ==
  ASSUME NEW data \in Data
  PROVE  LET fv == FeatureVec_Create(data)
         IN  /\ fv \in FeatureVecs
             /\ \A m \in Fields : LastOf(data, Len(data), m, fv.numericFields[m])
             /\ \A x : FirstOf(data, Len(data), fv.features, x)
<1> DEFINE n == Len(data)
           H == [p \in (1 .. n) \X FeatureVecs |-> AddFeature(p[2], data[p[1]])]
           Good(fv, k) == /\ \A m \in Fields : LastOf(data, k, m, fv.numericFields[m])
                          /\ \A x : FirstOf(data, k, fv.features, x)
<1>1. PICK h : Goes(h, FeatureVecs, n, EmptyVec, H) /\ FeatureVec_Create(data) = h[n]
  <2>1. EndsIn(FeatureVec_Create(data), FeatureVecs, n, EmptyVec, H)
    BY CreateEnds
  <2> HIDE DEF H, n
  <2>2. QED
    BY <2>1 DEF EndsIn
<1>2. n \in Nat
  BY DEF Data
<1> DEFINE P(k) == k <= n => Good(h[k], k)
           S == {k \in Nat : P(k)}
<1>3. P(0)
  <2>1. h[0] = EmptyVec
    BY <1>1 DEF Goes
  <2>2. \A m \in Fields : EmptyVec.numericFields[m] = 0
    BY DEF EmptyVec
  <2>3. EmptyVec.features = <<>> /\ DOMAIN <<>> = {} /\ 1 .. 0 = {}
    BY DEF EmptyVec
  <2>4. QED
    BY <2>1, <2>2, <2>3 DEF LastOf, FirstOf
<1>4. ASSUME NEW k \in Nat, P(k) PROVE P(k + 1)
  <2>1. SUFFICES ASSUME k + 1 <= n PROVE Good(h[k + 1], k + 1)
    OBVIOUS
  <2>2. k + 1 \in 1 .. n /\ k \in 0 .. n /\ (k + 1) - 1 = k
    BY <1>2, <2>1
  <2>3. h[k] \in FeatureVecs
    BY <1>1, <2>2 DEF Goes
  <2>4. h[k + 1] = AddFeature(h[k], data[k + 1])
    <3>1. h[k + 1] = H[<<k + 1, h[(k + 1) - 1]>>]
      BY <1>1, <2>2 DEF Goes
    <3>2. QED
      BY <2>2, <2>3, <3>1
  <2>5. Good(h[k], k)
    BY <1>4, <2>2
  <2>6. ASSUME NEW m \in Fields PROVE LastOf(data, k + 1, m, h[k + 1].numericFields[m])
    <3>1. LastOf(data, (k + 1) - 1, m, h[k].numericFields[m])
      BY <2>2, <2>5
    <3>2. QED
      BY <2>2, <2>3, <2>4, <3>1, LastStep
  <2>7. ASSUME NEW x PROVE FirstOf(data, k + 1, h[k + 1].features, x)
    <3>1. FirstOf(data, (k + 1) - 1, h[k].features, x)
      BY <2>2, <2>5
    <3>2. QED
      BY <2>2, <2>3, <2>4, <3>1, FirstStep
  <2>8. QED
    BY <2>6, <2>7
<1>5. P(n)
  <2> HIDE DEF P
  <2>1. 0 \in S /\ \A k \in Nat : k \in S => k + 1 \in S
    BY <1>3, <1>4
  <2>2. Nat \subseteq S
    <3> HIDE DEF S
    <3> QED BY <2>1, Induction
  <2>3. QED
    BY <1>2, <2>2
<1>6. h[n] \in FeatureVecs /\ n <= n
  BY <1>1, <1>2 DEF Goes
<1>7. QED
  BY <1>1, <1>5, <1>6

(* The greatest and the least of a set of numbers                          *)
LEMMA Extremes ==
  ASSUME NEW s, s \subseteq Int, NEW x \in s
  PROVE  /\ (\A y \in s : x >= y) => Max(s) = x
         /\ (\A y \in s : x <= y) => Min(s) = x
<1>1. ASSUME \A y \in s : x >= y PROVE Max(s) = x
  <2>1. Max(s) \in s /\ \A y \in s : Max(s) >= y
    BY <1>1 DEF Max
  <2>2. Max(s) >= x /\ x >= Max(s) /\ Max(s) \in Int /\ x \in Int
    BY <1>1, <2>1
  <2>3. QED
    BY ONLY <2>2
<1>2. ASSUME \A y \in s : x <= y PROVE Min(s) = x
  <2>1. Min(s) \in s /\ \A y \in s : Min(s) <= y
    BY <1>2 DEF Min
  <2>2. Min(s) <= x /\ x <= Min(s) /\ Min(s) \in Int /\ x \in Int
    BY <1>2, <2>1
  <2>3. QED
    BY ONLY <2>2
<1>3. QED
  BY <1>1, <1>2

(* What a splitter reads from the vector is the value that counts.         *)
LEMMA ValueRead ==
  ASSUME NEW data \in Data, NEW name
  PROVE  FeatureVec_GetValue(FeatureVec_Create(data), name) = ValueOf(data, name)
<1> DEFINE fv == FeatureVec_Create(data)
           fs == fv.features
           n == Len(data)
           G == Given(data, name)
<1>1. /\ fv \in FeatureVecs
      /\ \A m \in Fields : LastOf(data, n, m, fv.numericFields[m])
      /\ \A x : FirstOf(data, n, fs, x)
  BY VecHolds
<1>2. n \in Nat /\ DOMAIN data = 1 .. n /\ G \subseteq Int
  BY DEF Data, Given
<1>3. CASE Numeric(name)
  <2> DEFINE m == name.number
  <2>1. m \in Fields /\ FeatureVec_GetValue(fv, name) = fv.numericFields[m]
    BY <1>3 DEF Numeric, FeatureVec_GetValue
  <2>2. G = {j \in 1 .. n : data[j][1].number = m}
    BY <1>2, <1>3 DEF Given
  <2>3. CASE fv.numericFields[m] = 0 /\ \A j \in 1 .. n : data[j][1].number # m
    BY <2>1, <2>2, <2>3 DEF ValueOf
  <2>4. CASE \E j \in 1 .. n : /\ data[j][1].number = m /\ data[j][2].number = fv.numericFields[m]
                               /\ \A i \in j + 1 .. n : data[i][1].number # m
    <3>1. PICK j \in 1 .. n : /\ data[j][1].number = m /\ data[j][2].number = fv.numericFields[m]
                              /\ \A i \in j + 1 .. n : data[i][1].number # m
      BY <2>4
    <3>2. j \in G
      BY <2>2, <3>1
    <3>3. ASSUME NEW y \in G PROVE j >= y
      <4>1. y \in 1 .. n /\ y \notin j + 1 .. n
        BY <2>2, <3>1
      <4>2. QED
        BY <1>2, <4>1
    <3> HIDE DEF G, fv, n, m
    <3>4. Max(G) = j
      BY <1>2, <3>2, <3>3, Extremes
    <3>5. ValueOf(data, name) = data[j][2].number
      BY <1>3, <3>2, <3>4 DEF ValueOf, G
    <3>6. QED
      BY <2>1, <3>1, <3>5 DEF fv
  <2>5. LastOf(data, n, m, fv.numericFields[m])
    BY <1>1, <2>1
  <2>6. QED
    BY <2>3, <2>4, <2>5 DEF LastOf
<1>4. CASE ~Numeric(name)
  <2> DEFINE x == name.text
             F == {j \in DOMAIN fs : fs[j][1] = x}
  <2>1. FeatureVec_GetValue(fv, name) = IF F = {} THEN 0 ELSE fs[Min(F)][2]
    BY <1>4 DEF FeatureVec_GetValue
  <2>2. G = {j \in 1 .. n : HasText(data[j], x)}
    BY <1>2, <1>4 DEF Given, HasText
  <2>3. DOMAIN fs = 1 .. Len(fs) /\ Len(fs) \in Nat /\ F \subseteq Int
    BY <1>1 DEF FeatureVecs
  <2>4. CASE /\ \A j \in 1 .. n : ~HasText(data[j], x)
             /\ \A i \in DOMAIN fs : fs[i][1] # x
    BY <2>1, <2>2, <2>4 DEF ValueOf
  <2>5. CASE \E j \in 1 .. n, i \in DOMAIN fs :
               /\ HasText(data[j], x) /\ \A l \in 1 .. j - 1 : ~HasText(data[l], x)
               /\ fs[i][1] = x /\ \A l \in 1 .. i - 1 : fs[l][1] # x
               /\ fs[i][2] = data[j][2].number
    <3>1. PICK j \in 1 .. n, i \in DOMAIN fs :
               /\ HasText(data[j], x) /\ \A l \in 1 .. j - 1 : ~HasText(data[l], x)
               /\ fs[i][1] = x /\ \A l \in 1 .. i - 1 : fs[l][1] # x
               /\ fs[i][2] = data[j][2].number
      BY <2>5
    <3>2. j \in G /\ i \in F
      BY <2>2, <3>1
    <3>3. ASSUME NEW y \in G PROVE j <= y
      <4>1. y \in 1 .. n /\ y \notin 1 .. j - 1
        BY <2>2, <3>1
      <4>2. QED
        BY <1>2, <4>1
    <3>4. ASSUME NEW y \in F PROVE i <= y
      <4>1. y \in 1 .. Len(fs) /\ y \notin 1 .. i - 1 /\ i \in 1 .. Len(fs)
        BY <2>3, <3>1
      <4>2. QED
        BY <2>3, <4>1
    <3> HIDE DEF G, F, fs, n, x
    <3>5. Min(G) = j /\ Min(F) = i
      BY <1>2, <2>3, <3>2, <3>3, <3>4, Extremes
    <3>6. ValueOf(data, name) = data[j][2].number
      BY <1>4, <3>2, <3>5 DEF ValueOf, G
    <3>7. QED
      BY <2>1, <3>1, <3>2, <3>5, <3>6
  <2>6. FirstOf(data, n, fs, x)
    BY <1>1
  <2>7. QED
    BY <2>4, <2>5, <2>6 DEF FirstOf
<1>5. QED
  BY <1>3, <1>4
------------------------------------------------------------------------------
(* The mean of a regression *)

(* A sum of integers by FoldLeft is reached from 0 by adding one after the *)
(* other.                                                                  *)
LEMMA FoldedSum ==
  ASSUME NEW n \in Nat, NEW s \in [1 .. n -> Int]
  PROVE  EndsIn(FoldLeft(+, 0, s), Int, n, 0, [p \in (1 .. n) \X Int |-> p[2] + s[p[1]]])
<1> DEFINE V == Int
           Eqn(f) == f = [t \in SUBSET (1 .. n) |->
                            IF t = {} THEN 0 ELSE f[t \ {Max(t)}] + s[Max(t)]]
           H == [p \in (1 .. n) \X V |-> p[2] + s[p[1]]]
           g == CHOOSE f : Eqn(f)
<1>1. 0 \in V
  OBVIOUS
<1>2. H \in [(1 .. n) \X V -> V]
  <2>1. \A p \in (1 .. n) \X V : p[2] + s[p[1]] \in V
    <3>1. SUFFICES ASSUME NEW p \in (1 .. n) \X V PROVE p[2] + s[p[1]] \in V
      OBVIOUS
    <3>2. p[2] \in Int /\ s[p[1]] \in Int
      OBVIOUS
    <3>3. QED
      BY <3>2
  <2>2. QED
    BY <2>1
<1>3. PICK f \in [SUBSET (1 .. n) -> V] : Folds(f, n, 0, H)
  <2> HIDE DEF H, V
  <2>1. QED
    BY <1>1, <1>2, FoldExists DEF HasFold
<1>4. Eqn(f)
  <2>1. \A t \in SUBSET (1 .. n) :
          f[t] = IF t = {} THEN 0 ELSE f[t \ {Max(t)}] + s[Max(t)]
    <3>1. SUFFICES ASSUME NEW t \in SUBSET (1 .. n), t # {}
                   PROVE  f[t] = f[t \ {Max(t)}] + s[Max(t)]
      BY <1>3 DEF Folds
    <3>2. Max(t) \in 1 .. n /\ t \ {Max(t)} \in SUBSET (1 .. n)
      BY <3>1, MaxOfSubset
    <3>3. f[t] = H[<<Max(t), f[t \ {Max(t)}]>>]
      BY <3>1, <1>3 DEF Folds
    <3>4. QED
      BY <3>2, <3>3
  <2>2. QED
    BY <2>1
<1>5. Eqn(g)
  BY <1>4
<1>6. FoldLeft(+, 0, s) = g[1 .. n]
  <2>1. DOMAIN s = 1 .. n
    OBVIOUS
  <2>2. QED
    BY <2>1 DEF FoldLeft, MapThenFoldSet
<1>7. Follows(g, V, n, 0, H)
  <2>1. g[{}] = 0
    BY <1>5
  <2>2. ASSUME NEW t \in SUBSET (1 .. n), t # {}, g[t \ {Max(t)}] \in V
        PROVE  g[t] = H[<<Max(t), g[t \ {Max(t)}]>>]
    <3>1. Max(t) \in 1 .. n
      BY <2>2, MaxOfSubset
    <3>2. g[t] = g[t \ {Max(t)}] + s[Max(t)]
      BY <1>5, <2>2
    <3> HIDE DEF g
    <3>3. QED
      BY <2>2, <3>1, <3>2
  <2>3. QED
    BY <2>1, <2>2 DEF Follows
<1>8. QED
  <2> HIDE DEF g, H, V
  <2>1. EndsIn(g[1 .. n], V, n, 0, H)
    BY <1>1, <1>2, <1>7, FoldGoes
  <2>2. QED
    BY <2>1, <1>6 DEF H, V

(* The sum of the first k + 1 numbers                                      *)
LEMMA TotalUpTo ==
  ASSUME NEW n, n \in Nat, NEW s, s \in [1 .. n -> Int], NEW k, k \in Nat, k + 1 \in 1 .. n
  PROVE  Total(s, (1 .. k) \cup {k + 1}) = s[k + 1] + Total(s, 1 .. k)
<1> DEFINE A == 1 .. n
           T == 1 .. k
           x == k + 1
<1>1. IsFiniteSet(A)
  BY FS_Interval
<1>2. s \in [A -> Int] /\ T \in SUBSET A /\ x \in A \ T
  OBVIOUS
<1> HIDE DEF A, T, x
<1>3. Total(s, T \cup {x}) = s[x] + Total(s, T)
  BY ONLY <1>1, <1>2, TotalWith
<1>4. QED
  BY <1>3 DEF T, x

(* It is the sum over the set of their places.                             *)
LEMMA FoldedTotal ==
  ASSUME NEW n \in Nat, NEW s \in [1 .. n -> Int]
  PROVE  FoldLeft(+, 0, s) = Total(s, 1 .. n)
<1> DEFINE H == [p \in (1 .. n) \X Int |-> p[2] + s[p[1]]]
<1>1. PICK h : Goes(h, Int, n, 0, H) /\ FoldLeft(+, 0, s) = h[n]
  <2>1. EndsIn(FoldLeft(+, 0, s), Int, n, 0, H)
    BY FoldedSum
  <2> HIDE DEF H
  <2>2. QED
    BY <2>1 DEF EndsIn
<1>a. \A k \in 1 .. n : h[k - 1] \in Int /\ h[k] = h[k - 1] + s[k]
  <2>1. SUFFICES ASSUME NEW k \in 1 .. n PROVE h[k - 1] \in Int /\ h[k] = h[k - 1] + s[k]
    OBVIOUS
  <2>2. k - 1 \in 0 .. n
    OBVIOUS
  <2>3. h[k - 1] \in Int /\ h[k] = H[<<k, h[k - 1]>>]
    BY <1>1, <2>2 DEF Goes
  <2>4. QED
    BY <2>3
<1>b. h[0] = 0
  BY <1>1 DEF Goes
<1> HIDE DEF H
<1> DEFINE P(k) == k <= n => h[k] = Total(s, 1 .. k)
           S == {k \in Nat : P(k)}
<1>2. IsFiniteSet(1 .. n)
  BY FS_Interval
<1>3. P(0)
  <2>1. Total(s, {}) = 0
    BY <1>2, TotalAdds
  <2>2. 1 .. 0 = {}
    OBVIOUS
  <2>3. QED
    BY <1>b, <2>1, <2>2
<1>4. ASSUME NEW k \in Nat, P(k) PROVE P(k + 1)
  <2>1. SUFFICES ASSUME k + 1 <= n PROVE h[k + 1] = Total(s, 1 .. k + 1)
    OBVIOUS
  <2>2. k + 1 \in 1 .. n /\ (k + 1) - 1 = k /\ k <= n
    BY <2>1
  <2>3. h[k + 1] = h[k] + s[k + 1] /\ h[k] \in Int
    BY <1>a, <2>2
  <2>4. 1 .. k \in SUBSET (1 .. n) /\ k + 1 \in (1 .. n) \ (1 .. k)
    BY <2>2
  <2>5. Total(s, (1 .. k) \cup {k + 1}) = s[k + 1] + Total(s, 1 .. k)
    BY TotalUpTo, <1>2, <2>2
  <2>6. (1 .. k) \cup {k + 1} = 1 .. k + 1
    OBVIOUS
  <2>7. h[k] = Total(s, 1 .. k)
    BY <1>4, <2>2
  <2>8. s[k + 1] \in Int
    BY <2>2
  <2> HIDE DEF P, S
  <2>9. h[k + 1] = s[k + 1] + h[k]
    BY <2>3, <2>8
  <2>10. QED
    BY <2>5, <2>6, <2>7, <2>9
<1>5. P(n)
  <2> HIDE DEF P
  <2>1. 0 \in S /\ \A k \in Nat : k \in S => k + 1 \in S
    BY <1>3, <1>4
  <2>2. Nat \subseteq S
    <3> HIDE DEF S
    <3> QED BY <2>1, Induction
  <2>3. QED
    BY <2>2
<1>6. n <= n
  OBVIOUS
<1>7. QED
  BY <1>1, <1>5, <1>6
------------------------------------------------------------------------------
(* A turn is what the data item says, so the nodes on the way of its       *)
(* vector are those whose branches it satisfies.                           *)
LEMMA WayAgrees ==
  ASSUME NEW data \in Data, NEW tree, NEW p \in Seq({"l", "r"})
  PROVE  OnTheWay(FeatureVec_Create(data), tree, p) <=> Reached(tree, p) /\ Agrees(data, tree, p)
<1> DEFINE fv == FeatureVec_Create(data)
           At(n) == tree[SubSeq(p, 1, n - 1)]
<1>1. ASSUME NEW n \in 1 .. Len(p)
      PROVE  p[n] = Turn(At(n), fv) <=>
               (p[n] = "l" <=> IF At(n).kind = "numeric"
                               THEN ValueOf(data, At(n).attr) <= At(n).vals[1]
                               ELSE ValueOf(data, At(n).attr)
                                      \in {At(n).vals[j] : j \in DOMAIN At(n).vals})
  <2>1. p[n] \in {"l", "r"}
    OBVIOUS
  <2> DEFINE node == At(n)
  <2>2. FeatureVec_GetValue(fv, node.attr) = ValueOf(data, node.attr)
    BY ValueRead
  <2> HIDE DEF node, fv
  <2>3. GoesLeft(node, fv) <=> IF node.kind = "numeric" THEN ValueOf(data, node.attr) <= node.vals[1]
                               ELSE ValueOf(data, node.attr)
                                      \in {node.vals[j] : j \in DOMAIN node.vals}
    BY <2>2 DEF GoesLeft
  <2>4. p[n] = Turn(node, fv) <=> (p[n] = "l" <=> GoesLeft(node, fv))
    BY <2>1 DEF Turn
  <2>5. QED
    BY <2>3, <2>4 DEF node
<1>2. QED
  BY <1>1 DEF OnTheWay, Agrees

(* ML.FOREST.RUN finds the one leaf whose branches the data item satisfies.*)
LEMMA LeafFound ==
  ASSUME NEW data \in Data, NEW tree, CompleteTree(tree)
  PROVE  {Forest_TreeClassify(FeatureVec_Create(data), tree)} =
           {p \in DOMAIN tree :
              tree[p].kind = "leaf" /\ Reached(tree, p) /\ Agrees(data, tree, p)}
<1> DEFINE fv == FeatureVec_Create(data)
<1>1. PICK f : Walks(f, fv, tree) /\ Forest_TreeClassify(fv, tree) = f[<<>>]
  BY WalkReads
<1>2. PICK q \in DOMAIN tree : tree[q].kind = "leaf" /\ OnTheWay(fv, tree, q) /\ f[<<>>] = q
  BY <1>1, WalkEnds
<1>3. \A p \in DOMAIN tree : tree[p].kind = "leaf" /\ OnTheWay(fv, tree, p) => p = q
  BY <1>1, <1>2, OnlyLeaf
<1>4. \A p \in DOMAIN tree :
        OnTheWay(fv, tree, p) <=> Reached(tree, p) /\ Agrees(data, tree, p)
  BY WayAgrees DEF CompleteTree
<1> HIDE DEF fv
<1>5. Forest_TreeClassify(fv, tree) = q
  BY <1>1, <1>2
<1>6. QED
  BY <1>2, <1>3, <1>4, <1>5 DEF fv

(* On a forest, in any state: the reply to ML.FOREST.RUN consists of those *)
(* leaves, or of their mean.                                               *)
LEMMA RunReply ==
  ASSUME NEW d, NEW c \in CommandsOf("FOREST.RUN"), NEW k \in DOMAIN Forests,
         d[c.key] = [type |-> "forest", trees |-> Forests[k]],
         Malformed \notin Range(c.data)
  PROVE  LET r     == ForestRun(d, [c EXCEPT !.classification = TRUE])
             trees == d[c.key].trees
         IN  /\ \A t \in DOMAIN trees :
                  {r[t]} = {p \in DOMAIN trees[t] :
                              /\ trees[t][p].kind = "leaf" /\ Reached(trees[t], p)
                              /\ Agrees(c.data, trees[t], p)}
             /\ ForestRun(d, [c EXCEPT !.classification = FALSE]) =
                  <<SumOfLeaves(trees, r), Len(trees)>>
<1> DEFINE fv == FeatureVec_Create(c.data)
           trees == d[c.key].trees
           r == ForestRun(d, [c EXCEPT !.classification = TRUE])
           m == ForestRun(d, [c EXCEPT !.classification = FALSE])
           leaf(t) == Forest_TreeClassify(fv, trees[t])
<1>1. c \in [op : {"FOREST.RUN"}, key : Keys, classification : BOOLEAN, data : Data]
  BY ForestAssumption DEF ForestAssumption, CommandsOf
<1>2. c.data \in Data /\ \A j \in DOMAIN c.data : c.data[j] # Malformed
  BY <1>1 DEF Range
<1>3. d[c.key].type = "forest" /\ trees = Forests[k]
  OBVIOUS
<1>4. /\ \A t \in DOMAIN trees : CompleteTree(trees[t])
      /\ trees \in Seq(Range(trees))
  BY <1>3, ForestAssumption DEF ForestAssumption
<1>5. DOMAIN trees = 1 .. Len(trees) /\ Len(trees) \in Nat
  BY <1>4
<1> HIDE DEF trees
<1>6. /\ [c EXCEPT !.classification = TRUE].key = c.key
      /\ [c EXCEPT !.classification = TRUE].data = c.data
      /\ [c EXCEPT !.classification = TRUE].classification = TRUE
      /\ [c EXCEPT !.classification = FALSE].key = c.key
      /\ [c EXCEPT !.classification = FALSE].data = c.data
      /\ [c EXCEPT !.classification = FALSE].classification = FALSE
  BY <1>1
<1>7. r = [t \in DOMAIN trees |-> leaf(t)]
  BY <1>2, <1>3, <1>6 DEF ForestRun, Holds, trees
<1>8. m = Regression(fv, trees)
  BY <1>2, <1>3, <1>6 DEF ForestRun, Holds, trees
<1>9. ASSUME NEW t \in DOMAIN trees
      PROVE  {r[t]} = {p \in DOMAIN trees[t] :
                         /\ trees[t][p].kind = "leaf" /\ Reached(trees[t], p)
                         /\ Agrees(c.data, trees[t], p)}
  <2>1. r[t] = leaf(t)
    BY <1>7
  <2>2. QED
    BY <1>2, <1>4, <2>1, LeafFound
<1> DEFINE s == [t \in DOMAIN trees |-> trees[t][leaf(t)].predVal]
<1>10. s \in [1 .. Len(trees) -> Int]
  <2>1. ASSUME NEW t \in DOMAIN trees PROVE trees[t][leaf(t)].predVal \in Int
    <3>1. leaf(t) \in DOMAIN trees[t] /\ trees[t][leaf(t)].kind = "leaf"
      BY <1>7, <1>9
    <3>2. QED
      BY <1>4, <3>1 DEF CompleteTree
  <2>2. QED
    BY <1>5, <2>1
<1> DEFINE predVals == [t \in DOMAIN trees |-> trees[t][r[t]].predVal]
<1>11. Total(predVals, DOMAIN trees) = SumOfLeaves(trees, r)
  BY DEF Total, SumOfLeaves
<1>12. m = <<FoldLeft(+, 0, s), Len(trees)>>
  BY <1>8 DEF Regression
<1>13. FoldLeft(+, 0, s) = Total(s, DOMAIN trees)
  <2> HIDE DEF s
  <2>1. QED
    BY <1>5, <1>10, FoldedTotal
<1>14. m = <<SumOfLeaves(trees, r), Len(trees)>>
  <2> HIDE DEF m, r
  <2>1. predVals = s
    BY <1>7 DEF s
  <2> HIDE DEF predVals
  <2>2. QED
    BY <1>11, <1>12, <1>13, <2>1
<1>15. QED
  BY <1>9, <1>14 DEF trees

(* For any trees, any texts of a data item and any numbers read from them, *)
(* whatever is done to the keys: ML.FOREST.RUN ends in each tree at the    *)
(* one leaf whose branches those numbers satisfy, and its regression is    *)
(* the mean over these leaves.  It is the number that is compared, so two  *)
(* texts from which the same number is read go the same way.               *)
THEOREM RunsFollowSample == Spec => []RunFollowsSample
<1>1. TypeInv => RunFollowsSample
  <2>1. SUFFICES ASSUME TypeInv, NEW c \in CommandsOf("FOREST.RUN"),
                        Holds(db["master"], c.key, "forest"), Malformed \notin Range(c.data)
                 PROVE  LET d     == db["master"]
                            r     == ForestRun(d, [c EXCEPT !.classification = TRUE])
                            trees == d[c.key].trees
                        IN  /\ \A t \in DOMAIN trees :
                                 {r[t]} = {p \in DOMAIN trees[t] :
                                             /\ trees[t][p].kind = "leaf" /\ Reached(trees[t], p)
                                             /\ Agrees(c.data, trees[t], p)}
                            /\ ForestRun(d, [c EXCEPT !.classification = FALSE]) =
                                 <<SumOfLeaves(trees, r), Len(trees)>>
    BY DEF RunFollowsSample
  <2>2. c.key \in Keys
    BY KeySpaceAssumption DEF KeySpaceAssumption, CommandsOf
  <2>3. db["master"][c.key] \in Values
    BY <2>1, <2>2 DEF TypeInv, Databases, Servers
  <2>4. db["master"][c.key] \in ForestValues
    BY <2>1, <2>3, ByType DEF Holds
  <2>5. PICK k \in DOMAIN Forests :
          db["master"][c.key] = [type |-> "forest", trees |-> Forests[k]]
    BY <2>4 DEF ForestValues
  <2>6. QED
    BY <2>1, <2>5, RunReply
<1>2. QED
  BY <1>1, TypesHold, PTL
==============================================================================
