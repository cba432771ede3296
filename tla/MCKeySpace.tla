----------------------------- MODULE MCKeySpace -----------------------------
(* Commands and forests for TLC.                                           *)
EXTENDS KeySpace

SetLinReg(key, args) == [op |-> "LINREG.SET", key |-> key, args |-> args]
SetKmeans(key, k, dimensions, args) ==
  [op |-> "KMEANS.SET", key |-> key, k |-> k, dimensions |-> dimensions, args |-> args]
SetMatrix(key, rows, cols, args) ==
  [op |-> "MATRIX.SET", key |-> key, rows |-> rows, cols |-> cols, args |-> args]
Multiply(a, b, c) == [op |-> "MATRIX.MULTIPLY", key |-> c, a |-> a, b |-> b]
Add(a, b, c)      == [op |-> "MATRIX.ADD", key |-> c, a |-> a, b |-> b]
Scale(key, n)     == [op |-> "MATRIX.SCALE", key |-> key, args |-> <<n>>]

(* Longer and shorter models, one without a coefficient, one with an       *)
(* argument that is not a number                                           *)
LinRegs == {SetLinReg("a", <<2, 3, 4, 5>>), SetLinReg("a", <<1, 2>>), SetLinReg("a", <<1, Bad, 3>>),
            SetLinReg("c", <<7, 1>>), SetLinReg("b", <<7>>)}

(* Two centres that are as far from <<1, 1>>, and wrong counts *)
Kmeanss == {SetKmeans("b", 2, 2, <<0, 1, 1, 2>>), SetKmeans("b", 3, 1, <<4, 1, 1>>),
            SetKmeans("b", 2, 2, <<1, 2, 3>>), SetKmeans("a", 1, 1, <<5>>)}

(* Square, oblong, too few and too many values, and dimensions that are    *)
(* refused: none, or two whose product is positive                         *)
Matrices == {SetMatrix("a", 2, 2, <<1, 2, 3, 4>>), SetMatrix("a", 1, 2, <<5, Bad>>),
             SetMatrix("a", 2, 0, <<>>), SetMatrix("a", -2, -2, <<>>),
             SetMatrix("b", 2, 1, <<1, 2>>), SetMatrix("b", 2, 2, <<0, 1>>),
             SetMatrix("b", 0, 2, <<>>), SetMatrix("c", 1, 1, <<3>>),
             SetMatrix("c", 1, 1, <<3, 4>>)}

Arithmetic == {Multiply("a", "b", "c"), Multiply("a", "b", "a"), Multiply("a", "b", "b"),
               Multiply("b", "a", "c"), Multiply("a", "a", "b"),
               Add("a", "a", "a"), Add("a", "b", "b"), Add("a", "b", "c"),
               Add("c", "c", "b"), Scale("a", 2), Scale("b", 0), Scale("c", Bad)}

(* With too few, enough and too many numbers *)
Queries ==
  {[op |-> "LINREG.PREDICT", key |-> "a", args |-> <<1, 1, 1>>],
   [op |-> "LOGREG.PREDICT", key |-> "a", args |-> <<2, 3, 4, 5, 6>>],
   [op |-> "LINREG.PREDICT", key |-> "a", args |-> <<2>>],
   [op |-> "LINREG.PREDICT", key |-> "c", args |-> <<1>>],
   [op |-> "MATRIX.GET", key |-> "a"]} \cup
  {[op |-> "KMEANS.PREDICT", key |-> "b", args |-> x] :
     x \in {<<1, 1>>, <<1>>, <<2>>, <<0, 3>>, <<1, 2, 3>>}}

One == Text("1", 1)
OneAgain == Text("1.0", 1)
Two == Text("2", 2)
Three == Text("3", 3)
Age == Text("age", 0)
Large == Text("9", 9)
Male == Text("male", 0)
Female == Text("female", 0)

Leaf(n) == Forest_NewLeaf(n, NoStats)
L == <<"l">>
R == <<"r">>

Numerical == (<<>> :> Forest_NewNumericalNode(One, 1) @@ L :> Leaf(1)
              @@ R :> Forest_NewCategoricalNode(Age, <<Two, Male>>)
              @@ <<"r", "l">> :> Leaf(2) @@ <<"r", "r">> :> Leaf(3))
(* with a node that was added below a leaf *)
Categorical == (<<>> :> Forest_NewCategoricalNode(Large, <<One, Two>>)
                @@ L :> Leaf(4) @@ R :> Leaf(6) @@ <<"r", "l">> :> Leaf(9))

TwoForests == ("f" :> <<Numerical, Categorical>> @@ "e" :> <<>>)

Run(key, data) == [op |-> "FOREST.RUN", key |-> key, classification |-> FALSE, data |-> data]

(* Names twice, in either order, missing, values that are no numbers, and  *)
(* an item that does not parse                                             *)
Runs == {Run("f", <<x, y>>) : x \in {One, Age} \X {One, Two},
                              y \in {OneAgain, Age, Large} \X {Two, Female}}
        \cup {Run("f", <<<<Large, One>>, <<Age, Three>>, <<Age, Two>>>>), Run("f", <<Malformed>>),
              Run("f", <<<<Age, Male>>>>),
              Run("e", <<<<One, One>>>>), Run("a", <<<<One, One>>>>)}

AllCommands == LinRegs \cup Kmeanss \cup Matrices \cup Arithmetic \cup Queries \cup Runs
==============================================================================
