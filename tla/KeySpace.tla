------------------------------ MODULE KeySpace ------------------------------
(***************************************************************************)
(* The commands on matrices, regressions and k-means models, and           *)
(* ML.FOREST.RUN, on the keys of a Redis server and of its replica, with   *)
(* RDB files.  A handler runs to its end on the server's main thread: it   *)
(* is an operator that takes a database and a command to the database it   *)
(* leaves and the reply.  A command that succeeds is replicated verbatim,  *)
(* and the replica gives it to the same handler.  Commands that only read  *)
(* change nothing and are no steps.  A handler that leaves its arrays ends *)
(* the server: nothing is known of what it does from then on.              *)
(***************************************************************************)
EXTENDS Numbers, Sample

CONSTANTS
  Keys,          \* the keys of the database
  Forests,       \* those that hold a forest, with its trees (see ForestStore)
  Commands,      \* the commands that clients send
  MaxCommands,   \* bound: commands that change the master
  MaxStream      \* bound: commands on their way to the replica

Servers == {"master", "replica"}

(* A command is [op, key, rows, cols, args] with what its op has of these; *)
(* MULTIPLY and ADD have operands [a, b] and write to key.                 *)
Arguments == Seq(Int \cup {Bad})
Predictions == {"LINREG.PREDICT", "LOGREG.PREDICT", "KMEANS.PREDICT"}

ASSUME KeySpaceAssumption ==
  /\ DOMAIN Forests \subseteq Keys
  /\ MaxCommands \in Nat /\ MaxStream \in Nat
  /\ \A c \in Commands :
       /\ c.key \in Keys
       /\ c.op \in {"LINREG.SET", "KMEANS.SET"} => c.args \in Arguments
       /\ c.op = "KMEANS.SET" => c.k \in Int /\ c.dimensions \in Int
       /\ c.op = "MATRIX.SET" => c.rows \in Int /\ c.cols \in Int /\ c.args \in Arguments
       /\ c.op \in {"MATRIX.MULTIPLY", "MATRIX.ADD"} => c.a \in Keys /\ c.b \in Keys
       /\ c.op = "MATRIX.SCALE" => c.args[1] \in Int \cup {Bad}
       /\ c.op \in Predictions => c.args \in Arguments

(* Forests are those of ForestStore; a data item is a list of names with   *)
(* their values, texts both.                                               *)
Texts == [text : STRING, number : Int]
Data  == Seq(Texts \X Texts)

ASSUME ForestAssumption ==
  /\ \A k \in DOMAIN Forests :
       /\ Forests[k] \in Seq(Range(Forests[k]))
       /\ \A j \in DOMAIN Forests[k] : CompleteTree(Forests[k][j])
  /\ \A c \in Commands : c.op = "FOREST.RUN" =>
       c \in [op : {"FOREST.RUN"}, key : Keys, classification : BOOLEAN, data : Data]

VARIABLES
  up,        \* per server: is the process running?
  db,        \* per server: what each key holds
  stream,    \* the replication stream
  sent,      \* how many commands have changed the master
  asked,     \* history: the arguments of each key's last ML.LINREG.SET
  silent     \* history: keys that may differ on the replica

vars == <<up, db, stream, sent, asked, silent>>

Nothing == [type |-> "none"]

------------------------------------------------------------------------------
(* Handlers *)

Result(d, reply) == [db |-> d, reply |-> reply]
OK(d, key, value) == Result([d EXCEPT ![key] = value], "OK")

(* A loop of the handler, or of what it calls, leaves an array.            *)
Stray(d) == Result(d, "out of bounds")

(* What a handler tests before it writes to a key, or reads it *)
CanHold(d, key, type) == d[key].type \in {"none", type}
Holds(d, key, type)   == d[key].type = type

(* The array that realloc is given *)
OldValues(v) ==
  CASE v.type = "matrix"     -> v.values
    [] v.type = "regression" -> v.coefficients
    [] v.type = "kmeans"     -> v.centers
    [] OTHER                 -> <<>>

Matrix(rows, cols, values) ==
  [type |-> "matrix", rows |-> rows, cols |-> cols, values |-> values]

(* A refused MATRIX.SET may leave two negative dimensions: the cells that  *)
(* the loops count, rows * cols, need not be there.                        *)
Backed(m) == m.rows * m.cols <= Len(m.values)

LinReg(intercept, coefficients) ==
  [type |-> "regression", intercept |-> intercept, coefficients |-> coefficients]

Kmeans(k, dimensions, centers) ==
  [type |-> "kmeans", k |-> k, dimensions |-> dimensions, centers |-> centers]

(* The number of coefficients, clen, is argc - 2: one more than there are  *)
(* coefficients, because argc - 2 counts the intercept, c.args[1], too.    *)
LinRegSet(d, c) ==
  IF Len(c.args) < 2 THEN Result(d, "arity")
  ELSE IF ~CanHold(d, c.key, "regression") THEN Result(d, "WRONGTYPE")
  ELSE OK(d, c.key,
          LinReg(Parse(c.args[1], IF d[c.key] = Nothing THEN Junk ELSE d[c.key].intercept),
                 ParseAll(Tail(c.args), Realloc(OldValues(d[c.key]), Len(c.args)))))

(* Mutant of MatrixSet: the array of an existing matrix is not resized. *)
MatrixSetInPlace(d, c) ==
  LET array == IF Holds(d, c.key, "matrix") THEN OldValues(d[c.key])
               ELSE Malloc(c.rows * c.cols)
  IN  IF ~CanHold(d, c.key, "matrix") THEN Result(d, "WRONGTYPE")
      ELSE IF c.rows <= 0 \/ c.cols <= 0
      THEN Result([d EXCEPT ![c.key] = Matrix(c.rows, c.cols, OldValues(d[c.key]))],
                  "BAD_DIMENTIONS")
      ELSE IF Len(c.args) > Len(array) THEN Stray(d)
      ELSE OK(d, c.key, Matrix(c.rows, c.cols, ParseAll(c.args, array)))

(* The key is created, and rows and cols are stored, before they are       *)
(* looked at.  Every argument that follows is written, however many cells  *)
(* were asked for.                                                         *)
MatrixSet(d, c) ==
  IF ~CanHold(d, c.key, "matrix") THEN Result(d, "WRONGTYPE")
  ELSE IF c.rows <= 0 \/ c.cols <= 0
  THEN Result([d EXCEPT ![c.key] = Matrix(c.rows, c.cols, OldValues(d[c.key]))],
              "BAD_DIMENTIONS")
  ELSE IF Len(c.args) > c.rows * c.cols THEN Stray(d)
  ELSE OK(d, c.key,
          Matrix(c.rows, c.cols,
                 ParseAll(c.args, Realloc(OldValues(d[c.key]), c.rows * c.cols))))

(* The three keys of MULTIPLY and ADD may be the same: c is resized before *)
(* a and b are read, through pointers that may point to c.                 *)
Resized(d, c) ==
  LET rows == d[c.a].rows
      cols == d[c.b].cols
  IN  [d EXCEPT ![c.key] = Matrix(rows, cols, Realloc(OldValues(d[c.key]), rows * cols))]

(* What dgemm refuses leaves c as realloc left it, and the reply is OK all *)
(* the same.  With c in {a, b} it reads an operand of other dimensions     *)
(* than were compared, and cells that it has written already: nothing is   *)
(* known of the product's values.                                          *)
MatrixMultiply(d, c) ==
  IF ~Holds(d, c.a, "matrix") \/ ~Holds(d, c.b, "matrix") THEN Result(d, "WRONGTYPE")
  ELSE IF d[c.b].rows # d[c.a].cols THEN Result(d, "BAD_DIMENTIONS")
  ELSE IF ~CanHold(d, c.key, "matrix") THEN Result(d, "WRONGTYPE")
  ELSE LET r == Resized(d, c)
           m == r[c.key]
       IN  IF DgemmRefuses(r[c.a], r[c.b]) THEN Result(r, "OK")
           ELSE IF ~DgemmInBounds(r[c.a], r[c.b]) THEN Stray(d)
           ELSE OK(r, c.key, Matrix(m.rows, m.cols,
                                    IF c.key \in {c.a, c.b} THEN Malloc(m.rows * m.cols)
                                    ELSE Dgemm(r[c.a], r[c.b])))

MatrixAdd(d, c) ==
  IF ~Holds(d, c.a, "matrix") \/ ~Holds(d, c.b, "matrix") THEN Result(d, "WRONGTYPE")
  ELSE IF d[c.b].rows # d[c.a].rows \/ d[c.b].cols # d[c.a].cols
  THEN Result(d, "BAD_DIMENTIONS")
  ELSE IF ~CanHold(d, c.key, "matrix") THEN Result(d, "WRONGTYPE")
  ELSE LET r == Resized(d, c)
           m == r[c.key]
       IN  IF ~Backed(r[c.a]) \/ ~Backed(r[c.b]) THEN Stray(d)
           ELSE OK(r, c.key, Matrix(m.rows, m.cols, Matrix_Add(r[c.a], r[c.b], m)))

MatrixScale(d, c) ==
  IF ~Holds(d, c.key, "matrix") THEN Result(d, "WRONGTYPE")
  ELSE LET m == d[c.key]
       IN  IF ~Backed(m) THEN Stray(d)
           ELSE OK(d, c.key, Matrix(m.rows, m.cols, Matrix_Scale(m, Parse(c.args[1], Junk))))

(* k and dimensions are ints that RMUtil_ParseArgs fills through pointers  *)
(* to long long.  The build of the Makefile (-O2) lays dimensions out      *)
(* after k, where the second number overwrites what the first one spilled. *)

(* Mutant of KmeansSet: the key is created first, as MatrixSet does. *)
KmeansSetEarly(d, c) ==
  IF ~CanHold(d, c.key, "kmeans") THEN Result(d, "WRONGTYPE")
  ELSE IF c.k <= 0 \/ c.dimensions <= 0 \/ c.k * c.dimensions # Len(c.args)
  THEN Result([d EXCEPT ![c.key] = Kmeans(0, 0, <<>>)], "WRONGTYPE")
  ELSE OK(d, c.key,
          Kmeans(c.k, c.dimensions,
                 ParseAll(c.args, Realloc(OldValues(d[c.key]), Len(c.args)))))

KmeansSet(d, c) ==
  IF c.k <= 0 \/ c.dimensions <= 0 \/ c.k * c.dimensions # Len(c.args)
  THEN Result(d, "WRONGTYPE")
  ELSE IF ~CanHold(d, c.key, "kmeans") THEN Result(d, "WRONGTYPE")
  ELSE OK(d, c.key,
          Kmeans(c.k, c.dimensions,
                 ParseAll(c.args, Realloc(OldValues(d[c.key]), Len(c.args)))))

------------------------------------------------------------------------------
(* Commands that only read: the replies                                    *)

MatrixGet(d, c) ==
  IF ~Holds(d, c.key, "matrix") THEN "WRONGTYPE"
  ELSE LET m == d[c.key]
       IN  <<m.rows, m.cols>> \o SubSeq(m.values, 1, m.rows * m.cols)

Features(lr, args) == ParseAll(args, Malloc(Len(lr.coefficients)))

LinRegPredictCommand(d, c) ==
  IF ~Holds(d, c.key, "regression") THEN "WRONGTYPE"
  ELSE LinRegPredict(Features(d[c.key], c.args), d[c.key])

LogRegPredictCommand(d, c) ==
  IF ~Holds(d, c.key, "regression") THEN "WRONGTYPE"
  ELSE LogRegPredict(Features(d[c.key], c.args), d[c.key])

KmeansPredictCommand(d, c) ==
  IF ~Holds(d, c.key, "kmeans") THEN "WRONGTYPE"
  ELSE KmeansPredict(ParseAll(c.args, Calloc(d[c.key].dimensions)), d[c.key])

(* In classification mode the leaves are what Forest_Classify of module    *)
(* ForestClassify counts.                                                  *)
ForestRun(d, c) ==
  IF ~Holds(d, c.key, "forest") THEN "WRONGTYPE"
  ELSE IF \E j \in DOMAIN c.data : c.data[j] = Malformed THEN "BAD_FORMAT"
  ELSE LET fv == FeatureVec_Create(c.data)
           trees == d[c.key].trees
       IN  IF c.classification
           THEN [j \in DOMAIN trees |-> Forest_TreeClassify(fv, trees[j])]
           ELSE Regression(fv, trees)

------------------------------------------------------------------------------
(* RDB files: what the rdb_save callback of a type writes, and what its    *)
(* rdb_load callback reads.                                                *)

(* Mutant: the dimensions of a matrix are saved in the other order. *)
MatrixSavedTransposed(v) == <<v.cols, v.rows>> \o SubSeq(v.values, 1, v.rows * v.cols)

MatrixTypeRdbSave(v) == <<v.rows, v.cols>> \o SubSeq(v.values, 1, v.rows * v.cols)

MatrixTypeRdbLoad(file) ==
  Matrix(file[1], file[2], SubSeq(file, 3, 2 + file[1] * file[2]))

RegressionTypeRdbSave(v) == <<v.intercept, Len(v.coefficients)>> \o v.coefficients

(* Mutant: the intercept is taken for the first coefficient. *)
RegressionLoadedShifted(file) ==
  LinReg(file[1], <<file[1]>> \o SubSeq(file, 3, 1 + file[2]))

RegressionTypeRdbLoad(file) == LinReg(file[1], SubSeq(file, 3, 2 + file[2]))

KmeansTypeRdbSave(v) == <<v.k, v.dimensions>> \o v.centers

KmeansTypeRdbLoad(file) ==
  Kmeans(file[1], file[2], SubSeq(file, 3, 2 + file[1] * file[2]))

(* Forests are saved and loaded in module ForestPersist.                   *)
Reloaded(v) ==
  CASE v.type = "matrix"     -> MatrixTypeRdbLoad(MatrixTypeRdbSave(v))
    [] v.type = "regression" -> RegressionTypeRdbLoad(RegressionTypeRdbSave(v))
    [] v.type = "kmeans"     -> KmeansTypeRdbLoad(KmeansTypeRdbSave(v))
    [] OTHER                 -> v

------------------------------------------------------------------------------
Init ==
  /\ up = [s \in Servers |-> TRUE]
  /\ db = [s \in Servers |-> [k \in Keys |->
             IF k \in DOMAIN Forests THEN [type |-> "forest", trees |-> Forests[k]]
             ELSE Nothing]]
  /\ stream = <<>>
  /\ sent = 0
  /\ asked = [k \in Keys |-> <<>>]
  /\ silent = {}

Execute(d, c) ==
  CASE c.op = "LINREG.SET"      -> LinRegSet(d, c)
    [] c.op = "KMEANS.SET"      -> KmeansSet(d, c)
    [] c.op = "MATRIX.SET"      -> MatrixSet(d, c)
    [] c.op = "MATRIX.MULTIPLY" -> MatrixMultiply(d, c)
    [] c.op = "MATRIX.ADD"      -> MatrixAdd(d, c)
    [] c.op = "MATRIX.SCALE"    -> MatrixScale(d, c)

Operands(c) == IF c.op \in {"MATRIX.MULTIPLY", "MATRIX.ADD"} THEN {c.a, c.b} ELSE {}

Writes == {"LINREG.SET", "KMEANS.SET", "MATRIX.SET",
           "MATRIX.MULTIPLY", "MATRIX.ADD", "MATRIX.SCALE"}

CommandsOf(op) == {c \in Commands : c.op = op}

(* The handler of c leaves its arrays: the argument loops of the           *)
(* predictions write into one that has the model's length.                 *)
GoesAstray(d, c) ==
  \/ c.op \in Writes /\ Execute(d, c).reply = "out of bounds"
  \/ c.op = "MATRIX.GET" /\ Holds(d, c.key, "matrix") /\ ~Backed(d[c.key])
  \/ /\ c.op \in {"LINREG.PREDICT", "LOGREG.PREDICT"} /\ Holds(d, c.key, "regression")
     /\ Len(c.args) > Len(d[c.key].coefficients)
  \/ /\ c.op = "KMEANS.PREDICT" /\ Holds(d, c.key, "kmeans")
     /\ Len(c.args) > d[c.key].dimensions

(* A product that cblas refuses: some of its implementations end the       *)
(* process, others go on.                                                  *)
DgemmMayExit(d, c) ==
  /\ c.op = "MATRIX.MULTIPLY" /\ Execute(d, c).reply = "OK"
  /\ DgemmRefuses(Resized(d, c)[c.a], Resized(d, c)[c.b])

(* The master executes c and sends s after the stream.  An error that      *)
(* changes nothing is no step.                                             *)
Apply(c, s) ==
  LET r == Execute(db["master"], c)
  IN  /\ up["master"] /\ sent < MaxCommands /\ Len(stream) < MaxStream
      /\ r.reply = "OK" \/ r.db # db["master"]
      /\ db' = [db EXCEPT !["master"] = r.db]
      /\ stream' = IF r.reply = "OK" THEN stream \o s ELSE stream
      /\ sent' = sent + 1
      /\ silent' = IF \/ r.reply # "OK"
                      \/ Operands(c) \cap silent # {}
                   THEN silent \cup {c.key} ELSE silent
      /\ UNCHANGED up

Command(c) == Apply(c, <<c>>)

LinRegSetCommand ==
  \E c \in CommandsOf("LINREG.SET") :
    /\ Command(c)
    /\ asked' = [asked EXCEPT ![c.key] = c.args]

KmeansSetCommand      == \E c \in CommandsOf("KMEANS.SET") : Command(c) /\ UNCHANGED asked
MatrixSetCommand      == \E c \in CommandsOf("MATRIX.SET") : Command(c) /\ UNCHANGED asked
MatrixMultiplyCommand == \E c \in CommandsOf("MATRIX.MULTIPLY") : Command(c) /\ UNCHANGED asked
MatrixAddCommand      == \E c \in CommandsOf("MATRIX.ADD") : Command(c) /\ UNCHANGED asked

(* Mutant of MatrixScaleCommand: ReplicateVerbatim is missing. *)
MatrixScaleAlone ==
  \E c \in CommandsOf("MATRIX.SCALE") : Apply(c, <<>>) /\ UNCHANGED asked

MatrixScaleCommand    == \E c \in CommandsOf("MATRIX.SCALE") : Command(c) /\ UNCHANGED asked

Replicate ==
  /\ up["replica"] /\ stream # <<>>
  /\ ~GoesAstray(db["replica"], Head(stream))
  /\ db' = [db EXCEPT !["replica"] = Execute(@, Head(stream)).db]
  /\ stream' = Tail(stream)
  /\ UNCHANGED <<up, sent, asked, silent>>

Crash(s) ==
  /\ up[s]
  /\ up' = [up EXCEPT ![s] = FALSE]
  /\ UNCHANGED <<db, stream, sent, asked, silent>>

(* The replica is sent the commands that read, and what is replicated. *)
GivenTo(s) ==
  IF s = "master" THEN Commands
  ELSE {c \in Commands : c.op \notin Writes \/ (stream # <<>> /\ c = Head(stream))}

CommandCrash(s) ==
  /\ \E c \in GivenTo(s) : GoesAstray(db[s], c) \/ DgemmMayExit(db[s], c)
  /\ Crash(s)

(* MatrixTypeRdbSave walks rows * cols cells, too.                         *)
Savable(d) == \A k \in Keys : d[k].type = "matrix" => Backed(d[k])

(* A server saves its keys and loads them (a restart after a shutdown). *)
Reload(s) ==
  /\ up[s] /\ Savable(db[s])
  /\ db' = [db EXCEPT ![s] = [k \in Keys |-> Reloaded(@[k])]]
  /\ silent' = silent \cup {k \in Keys : Reloaded(db[s][k]) # db[s][k]}
  /\ UNCHANGED <<up, stream, sent, asked>>

SaveCrash(s) == ~Savable(db[s]) /\ Crash(s)

(* The replica, or a new one, loads what a child of the master saves for   *)
(* it; the master survives a child that fails.                             *)
FullSync ==
  /\ up["master"] /\ Savable(db["master"])
  /\ up' = [up EXCEPT !["replica"] = TRUE]
  /\ db' = [db EXCEPT !["replica"] = [k \in Keys |-> Reloaded(db["master"][k])]]
  /\ stream' = <<>>
  /\ silent' = {k \in Keys : Reloaded(db["master"][k]) # db["master"][k]}
  /\ UNCHANGED <<sent, asked>>

Next ==
  \/ LinRegSetCommand \/ KmeansSetCommand
  \/ MatrixSetCommand \/ MatrixMultiplyCommand \/ MatrixAddCommand \/ MatrixScaleCommand
  \/ Replicate
  \/ \E s \in Servers : Reload(s) \/ CommandCrash(s) \/ SaveCrash(s)
  \/ FullSync

Spec == Init /\ [][Next]_vars

------------------------------------------------------------------------------
(* Properties *)

(* A value of memory: what a handler or a callback indexes has been        *)
(* allocated.  A matrix with a dimension that is not positive has any      *)
(* array, or none.                                                         *)
Allocated(v) ==
  CASE v.type = "matrix" ->
         /\ v.rows \in Int /\ v.cols \in Int /\ Len(v.values) \in Nat
         /\ v.rows > 0 /\ v.cols > 0 => DOMAIN v.values = 1 .. v.rows * v.cols
    [] v.type = "regression" ->
         Len(v.coefficients) >= 2 /\ DOMAIN v.coefficients = 1 .. Len(v.coefficients)
    [] v.type = "kmeans" ->
         /\ v.k \in Nat \ {0} /\ v.dimensions \in Nat \ {0}
         /\ DOMAIN v.centers = 1 .. v.k * v.dimensions
    [] v.type = "forest" -> TRUE
    [] v.type = "none"   -> TRUE

(* Types.  The lengths that the handlers keep beside an array are the      *)
(* lengths of the array, on master and replica, after any sequence of      *)
(* commands, failed ones included, reloads and full synchronisations;      *)
(* those of a matrix if they are positive (redis-ml.c:261, :365, :460).    *)
TypeOK ==
  /\ up \in [Servers -> BOOLEAN]
  /\ \A s \in Servers, k \in Keys : Allocated(db[s][k])
  /\ stream \in Seq(Commands) /\ Len(stream) <= MaxStream
  /\ sent \in 0 .. MaxCommands
  /\ silent \subseteq Keys

(* Master and replica hold the same, but for the values of numbers that    *)
(* were never set, once the replica has executed what was sent to it; the  *)
(* exceptions follow from a failed ML.MATRIX.SET or from cells of a matrix *)
(* beyond rows * cols, which a file does not hold (redis-ml.c:368, :377).  *)
ReplicaAgrees ==
  stream = <<>> => \A k \in Keys \ silent : db["replica"][k] = db["master"][k]

(* Two negative dimensions count cells that need not be there.             *)
BothNegative(v) == v.type = "matrix" /\ v.rows < 0 /\ v.cols < 0

(* A handler leaves its arrays only if it is given more numbers than there *)
(* are cells, or than ML.LINREG.SET was given, or if a refused             *)
(* ML.MATRIX.SET left two negative dimensions, or if a product is stored   *)
(* in an operand that this makes narrower or lower than the other operand  *)
(* needs; never because an array is not as long as the dimensions stored   *)
(* beside it say (redis-ml.c:295, :365, :372, :462, :571, matrix.c:32).    *)
HandlersStayInBounds ==
  \A s \in Servers, c \in Commands :
    LET d == db[s]
    IN  GoesAstray(d, c) =>
          \/ c.op = "MATRIX.SET" /\ Len(c.args) > c.rows * c.cols
          \/ /\ c.op \in {"LINREG.PREDICT", "LOGREG.PREDICT"}
             /\ s = "master" => Len(c.args) > Len(asked[c.key])
          \/ c.op = "KMEANS.PREDICT" /\ Len(c.args) > d[c.key].dimensions
          \/ /\ c.op \in {"MATRIX.GET", "MATRIX.SCALE", "MATRIX.ADD"}
             /\ \E k \in Operands(c) \cup {c.key} : BothNegative(d[k])
          \/ /\ c.op = "MATRIX.MULTIPLY"
             /\ \/ c.key = c.a /\ d[c.b].cols > d[c.b].rows
                \/ c.key = c.b /\ d[c.a].cols > d[c.a].rows

(* A command that replies with an error has changed nothing, with one      *)
(* exception: ML.MATRIX.SET with a dimension that is not positive, which   *)
(* has changed its own key (redis-ml.c:365-369).                           *)
ErrorsChangeNothing ==
  \A c \in Commands :
    LET d == db["master"]
        r == Execute(d, c)
    IN  c.op \in Writes /\ r.reply # "OK" /\ r.db # d
        => /\ c.op = "MATRIX.SET" /\ (c.rows <= 0 \/ c.cols <= 0)
           /\ r.db = [d EXCEPT ![c.key] = r.db[c.key]]

Cell(m, i, j) == m.values[(i - 1) * m.cols + j]
SameShape(m, rows, cols) == m.rows = rows /\ m.cols = cols

IsProduct(m, a, b) ==
  /\ SameShape(m, a.rows, b.cols)
  /\ \A i \in 1 .. m.rows, j \in 1 .. m.cols :
       Cell(m, i, j) = Sum([l \in 1 .. a.cols |-> Times(Cell(a, i, l), Cell(b, l, j))])

(* What is stored with the reply OK: a sum is the sum of its operands as   *)
(* they were before the command, also when it is stored in one of them; a  *)
(* matrix is scaled once; a product is right if it is stored in a third    *)
(* key and its operands share at least one row and column.  Of a product   *)
(* stored in an operand, or of no products, nothing is said here: see      *)
(* ProductsAreSet (redis-ml.c:462, :466, :514, :545).                      *)
ArithmeticIsExact ==
  \A c \in Commands :
    LET d == db["master"]
        m == Execute(d, c).db[c.key]
    IN  c.op \in Writes /\ Execute(d, c).reply = "OK" =>
        /\ c.op = "MATRIX.MULTIPLY" /\ c.key \notin {c.a, c.b} /\ d[c.a].cols > 0 =>
             IsProduct(m, d[c.a], d[c.b])
        /\ c.op = "MATRIX.ADD" =>
             /\ SameShape(m, d[c.a].rows, d[c.a].cols)
             /\ \A i \in 1 .. m.rows, j \in 1 .. m.cols :
                  Cell(m, i, j) = Plus(Cell(d[c.a], i, j), Cell(d[c.b], i, j))
        /\ c.op = "MATRIX.SCALE" =>
             /\ SameShape(m, d[c.key].rows, d[c.key].cols)
             /\ \A i \in 1 .. m.rows, j \in 1 .. m.cols :
                  Cell(m, i, j) = Times(Parse(c.args[1], Junk), Cell(d[c.key], i, j))

(* The numbers of the last ML.LINREG.SET are where a prediction looks for  *)
(* them, and the model has one coefficient more, however long it was       *)
(* before and through files (redis-ml.c:261-268, regression-type.c:16-37). *)
CoefficientsKept ==
  \A k \in Keys : db["master"][k].type = "regression" =>
    LET lr == db["master"][k]
    IN  /\ Len(asked[k]) >= 2 /\ Len(lr.coefficients) = Len(asked[k])
        /\ asked[k][1] # Bad => lr.intercept = asked[k][1]
        /\ \A j \in 2 .. Len(asked[k]) :
             asked[k][j] # Bad => lr.coefficients[j - 1] = asked[k][j]

(* The reply of ML.KMEANS.PREDICT is a centre at the least distance from   *)
(* the sample, and the first of these (kmeans.c:15).                       *)
NearestCentre ==
  \A c \in CommandsOf("KMEANS.PREDICT") :
    LET km == db["master"][c.key]
        x  == ParseAll(c.args, Calloc(km.dimensions))
        r  == KmeansPredictCommand(db["master"], c)
    IN  km.type = "kmeans" /\ Len(c.args) <= km.dimensions /\ r # Junk =>
        /\ r \in 0 .. km.k - 1
        /\ \A j \in 0 .. km.k - 1 : IF j < r THEN Dist(x, km, r) < Dist(x, km, j)
                                              ELSE Dist(x, km, r) <= Dist(x, km, j)

(* The places of a data item where a name is given, and the value that     *)
(* counts: the last one for a number, the first one for another name.      *)
Given(data, name) ==
  {j \in DOMAIN data : LET other == data[j][1]
                       IN  IF Numeric(name) THEN other.number = name.number
                           ELSE ~Numeric(other) /\ other.text = name.text}

ValueOf(data, name) ==
  IF Given(data, name) = {} THEN 0
  ELSE data[IF Numeric(name) THEN Max(Given(data, name)) ELSE Min(Given(data, name))][2].number

(* The data item satisfies each branch on the way to p.                    *)
Agrees(data, tree, p) ==
  \A n \in 1 .. Len(p) :
    LET node == tree[SubSeq(p, 1, n - 1)]
        x    == ValueOf(data, node.attr)
    IN  p[n] = "l" <=> IF node.kind = "numeric" THEN x <= node.vals[1]
                       ELSE x \in {node.vals[j] : j \in DOMAIN node.vals}

SumOfLeaves(trees, r) ==
  LET predVals == [t \in DOMAIN trees |-> trees[t][r[t]].predVal]
  IN  MapThenSumSet(LAMBDA t : predVals[t], DOMAIN trees)

(* What a tree compares of a data item is the number read from the last    *)
(* value given for a number, from the first given for another name, and 0  *)
(* for a name that is not there; and ML.FOREST.RUN ends in each tree at    *)
(* the one leaf whose branches these numbers satisfy; the regression is    *)
(* the mean over these leaves.  Texts are not compared: every value that   *)
(* is no number satisfies a branch for a category that is none, male for   *)
(* female (feature-vec.c:7-18, :56, forest.c:46, :371, :486).              *)
RunFollowsSample ==
  \A c \in CommandsOf("FOREST.RUN") :
    LET d     == db["master"]
        r     == ForestRun(d, [c EXCEPT !.classification = TRUE])
        trees == d[c.key].trees
    IN  Holds(d, c.key, "forest") /\ Malformed \notin Range(c.data) =>
        /\ \A t \in DOMAIN trees :
             {r[t]} = {p \in DOMAIN trees[t] :
                         /\ trees[t][p].kind = "leaf" /\ Reached(trees[t], p)
                         /\ Agrees(c.data, trees[t], p)}
        /\ ForestRun(d, [c EXCEPT !.classification = FALSE]) =
             <<SumOfLeaves(trees, r), Len(trees)>>

(* What is loaded answers as what was saved: a matrix that can be saved    *)
(* has the same cells, everything else is the same.                        *)
FilesKeepAnswers ==
  \A k \in Keys :
    LET v == db["master"][k]
    IN  IF v.type = "matrix"
        THEN Backed(v) =>
               MatrixGet([x \in Keys |-> Reloaded(v)], [key |-> k])
                 = MatrixGet([x \in Keys |-> v], [key |-> k])
        ELSE Reloaded(v) = v

(* What the documentation says of three replies, and the code does not do  *)

(* A prediction is the intercept plus the features times the coefficients  *)
(* that were set.  ML.LINREG.SET linear 2 3 4 5 and ML.LINREG.PREDICT      *)
(* linear 1 1 1 are to give 14 (docs/commands.md:66-69).                   *)
PredictsWhatWasSet ==
  \A c \in CommandsOf("LINREG.PREDICT") :
    LET a == asked[c.key]
    IN  /\ db["master"][c.key].type = "regression"
        /\ Len(c.args) = Len(a) - 1
        /\ \A j \in DOMAIN a : a[j] # Bad
        => LinRegPredictCommand(db["master"], c) =
             a[1] + Sum([j \in 1 .. Len(c.args) |-> c.args[j] * a[j + 1]])

(* The result of multiplying two matrices that have cells is set in        *)
(* product, whichever key that is (docs/commands.md:227).                  *)
ProductsAreSet ==
  \A c \in CommandsOf("MATRIX.MULTIPLY") :
    LET d == db["master"]
    IN  Execute(d, c).reply = "OK" /\ d[c.a].cols > 0
        => IsProduct(Execute(d, c).db[c.key], d[c.a], d[c.b])

(* Categories are strings, and so are the values of a sample: a splitter   *)
(* for one category sends those to the left that have it, and no others    *)
(* (docs/commands.md:37, :55).                                             *)
Samples == UNION {Range(c.data) : c \in CommandsOf("FOREST.RUN")} \ {Malformed}

CategoriesAreStrings ==
  \A one, other \in Samples :
    Turn(Forest_NewCategoricalNode(one[1], <<other[2]>>), FeatureVec_Create(<<one>>)) = "l"
      => other[2].text = one[2].text

(* One of the three, at the least, is so in every state: a state that has  *)
(* none of them refutes each (redis-ml.c:261, :462, forest.c:46).          *)
SomethingAsDocumented == PredictsWhatWasSet \/ ProductsAreSet \/ CategoriesAreStrings
==============================================================================
