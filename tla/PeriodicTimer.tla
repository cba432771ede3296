---------------------------- MODULE PeriodicTimer ----------------------------
(***************************************************************************)
(* A timer of rmutil/periodic.c: its thread, rmutilTimer_Loop, and the     *)
(* program that calls RMUtilTimer_SetInterval and RMUtilTimer_Terminate    *)
(* while the thread runs.  The program may call from any thread of its     *)
(* own, or from the callback: that is a call while pc = "callback".        *)
(*                                                                         *)
(* Nobody but the loop locks tm->lock, so it is never contended and has no *)
(* variable.                                                               *)
(***************************************************************************)
EXTENDS Integers

CONSTANTS
  Nano,          \* nanoseconds per second
  Intervals,     \* the intervals that the program asks for
  MaxSec,        \* bound: seconds the clock runs on after it was read
  Spurious       \* whether a wait may end although nobody signalled

(* The clock runs long enough for every wait to end. *)
ASSUME TimerAssumption ==
  /\ Nano \in Nat \ {0} /\ MaxSec \in Nat /\ Spurious \in BOOLEAN
  /\ Intervals \subseteq [sec : Nat, nsec : Int]
  /\ \A i \in Intervals : i.nsec <= Nano /\ i.sec + 2 < MaxSec

VARIABLES
  pc,           \* what the loop does next
  clock,        \* CLOCK_REALTIME, [sec, nsec]; ts.sec is taken for second 0
  ts,           \* the loop's local: the time it has read
  seen,         \* what the loop has read of tm->interval
  interval,     \* tm->interval
  target,       \* the interval that RMUtilTimer_SetInterval is given
  todo,         \* the fields of it that are still to be written
  terminated,   \* whether the program has called RMUtilTimer_Terminate
  ended,        \* history: why the loop has ended
  old,          \* history: the interval before target
  armed,        \* history: the intervals set when the loop read the clock
  asked,        \* history: the intervals that the loop may have read
  touched       \* history: the program has used a timer that was freed

loop    == <<pc, ts, seen>>
program == <<interval, target, todo, terminated>>
history == <<ended, old, armed, asked, touched>>
vars    == <<loop, clock, program, history>>

Value(t) == t.sec * Nano + t.nsec

(* Division and remainder of C *)
Quot(n) == IF n >= 0 THEN n \div Nano ELSE -((-n) \div Nano)
Rem(n)  == n - Quot(n) * Nano

(* Mutants of timespecAdd: no carry, and no normalisation at all *)
timespecNoCarry(a, b) == [sec |-> a.sec + b.sec, nsec |-> Rem(a.nsec + b.nsec)]
timespecPlain(a, b)   == [sec |-> a.sec + b.sec, nsec |-> a.nsec + b.nsec]

timespecAdd(a, b) ==
  LET ns == a.nsec + b.nsec
  IN  [sec |-> a.sec + b.sec + Quot(ns), nsec |-> Rem(ns)]

timeout == timespecAdd(ts, seen)

(* pthread_cond_timedwait refuses a time that is not normalised. *)
Valid(t) == t.nsec \in 0 .. Nano - 1

Zero == [sec |-> 0, nsec |-> 0]

------------------------------------------------------------------------------
(* rmutilTimer_Loop *)

Goto(from, to) == pc = from /\ pc' = to

(* clock_gettime: only differences matter, so the clock's seconds start    *)
(* again from 0.                                                           *)
ReadClock ==
  /\ Goto("loop", "read_sec")
  /\ ts' = [clock EXCEPT !.sec = 0]
  /\ clock' = ts'
  /\ armed' = IF todo = {} THEN {interval} ELSE {old, target}
  /\ asked' = armed'
  /\ UNCHANGED <<seen, program, ended, old, touched>>

(* The two fields of tm->interval are read one after the other. *)
ReadSec ==
  /\ Goto("read_sec", "read_nsec")
  /\ seen' = [seen EXCEPT !.sec = interval.sec]
  /\ UNCHANGED <<ts, clock, program, history>>

ReadNsec ==
  /\ Goto("read_nsec", "wait")
  /\ seen' = [seen EXCEPT !.nsec = interval.nsec]
  /\ UNCHANGED <<ts, clock, program, history>>

(* rc = EINVAL ends the loop. *)
Refused ==
  /\ Goto("wait", "terminate")
  /\ ~Valid(timeout)
  /\ ended' = "EINVAL"
  /\ UNCHANGED <<ts, seen, clock, program, old, armed, asked, touched>>

(* rc = ETIMEDOUT *)
TimedOut ==
  /\ Goto("wait", "callback")
  /\ Valid(timeout) /\ Value(clock) >= Value(timeout)
  /\ UNCHANGED <<ts, seen, clock, program, history>>

(* rc = 0 without a signal, which pthread_cond_timedwait is allowed to do *)
SpuriousWakeup ==
  /\ Spurious
  /\ Goto("wait", "terminate")
  /\ Valid(timeout)
  /\ ended' = "spurious"
  /\ UNCHANGED <<ts, seen, clock, program, old, armed, asked, touched>>

(* Mutant of Callback: a timeout ends the loop. *)
CallbackOnce ==
  /\ Goto("callback", "terminate")
  /\ ended' = "ETIMEDOUT"
  /\ UNCHANGED <<ts, seen, clock, program, old, armed, asked, touched>>

Callback ==
  /\ Goto("callback", "loop")
  /\ UNCHANGED <<ts, seen, clock, program, history>>

(* tm->onTerm *)
OnTerm ==
  /\ Goto("terminate", "free")
  /\ UNCHANGED <<ts, seen, clock, program, history>>

(* pthread_cond_destroy and free(tm) *)
Free ==
  /\ Goto("free", "freed")
  /\ UNCHANGED <<ts, seen, clock, program, history>>

LoopStep ==
  \/ ReadClock \/ ReadSec \/ ReadNsec
  \/ Refused \/ TimedOut
  \/ Callback \/ OnTerm \/ Free

------------------------------------------------------------------------------
(* The program.  A timer can be stopped once, and what was stopped is not  *)
(* used again.                                                             *)

Reading == pc \in {"read_sec", "read_nsec"}
Touch   == touched' = (touched \/ pc = "freed")

(* RMUtilTimer_SetInterval copies a struct without a lock: the compiler    *)
(* orders the two stores as it likes.                                      *)
SetInterval(i) ==
  /\ ~terminated /\ todo = {}
  /\ target' = i
  /\ todo' = {"sec", "nsec"}
  /\ old' = interval
  /\ asked' = IF Reading THEN asked \cup {i} ELSE asked
  /\ UNCHANGED <<loop, clock, interval, terminated, ended, armed, touched>>

Store(field) ==
  /\ field \in todo
  /\ interval' = [interval EXCEPT ![field] = target[field]]
  /\ todo' = todo \ {field}
  /\ Touch
  /\ UNCHANGED <<loop, clock, target, terminated, ended, old, armed, asked>>

(* pthread_cond_signal, with or without a thread that waits for it *)
Terminate ==
  /\ ~terminated /\ todo = {}
  /\ terminated' = TRUE
  /\ pc' = IF pc = "wait" /\ Valid(timeout) THEN "terminate" ELSE pc
  /\ ended' = IF pc' # pc THEN "signal" ELSE ended
  /\ Touch
  /\ UNCHANGED <<ts, seen, clock, interval, target, todo, old, armed, asked>>

ProgramStep ==
  \/ \E i \in Intervals : SetInterval(i)
  \/ \E field \in {"sec", "nsec"} : Store(field)
  \/ Terminate

Tick ==
  /\ clock.sec < MaxSec
  /\ clock' = IF clock.nsec + 1 < Nano THEN [clock EXCEPT !.nsec = @ + 1]
              ELSE [sec |-> clock.sec + 1, nsec |-> 0]
  /\ UNCHANGED <<loop, program, history>>

------------------------------------------------------------------------------
(* RMUtil_NewPeriodicTimer *)
Init ==
  /\ pc = "loop"
  /\ clock \in {[sec |-> 0, nsec |-> n] : n \in 0 .. Nano - 1}
  /\ ts = Zero /\ seen = Zero
  /\ interval \in Intervals
  /\ target = interval /\ todo = {}
  /\ terminated = FALSE
  /\ ended = "no" /\ old = interval /\ touched = FALSE
  /\ armed = {interval} /\ asked = {interval}

Next == LoopStep \/ SpuriousWakeup \/ ProgramStep \/ Tick

Spec == Init /\ [][Next]_vars

(* The thread runs, a wait that is over returns, and time passes.  The     *)
(* program need not call anything, and no wakeup is forced; a store that   *)
(* was begun is completed.                                                 *)
FairSpec ==
  /\ Spec
  /\ WF_vars(LoopStep)
  /\ WF_vars(Tick)
  /\ WF_vars(\E field \in {"sec", "nsec"} : Store(field))
------------------------------------------------------------------------------
(* Properties *)

Times == [sec : Int, nsec : Int]

TypeOK ==
  /\ pc \in {"loop", "read_sec", "read_nsec", "wait", "callback",
             "terminate", "free", "freed"}
  /\ clock \in Times /\ Valid(clock) /\ ts \in Times /\ Valid(ts)
  /\ seen \in Times /\ interval \in Times
  /\ target \in Intervals /\ old \in Times /\ todo \subseteq {"sec", "nsec"}
  /\ terminated \in BOOLEAN /\ touched \in BOOLEAN
  /\ ended \in {"no", "signal", "EINVAL", "spurious"}
  /\ armed \subseteq Times /\ asked \subseteq Times

(* The program never uses a timer that the loop has freed, as long as the  *)
(* loop ends because it was told to: it may be freed under the program     *)
(* when a wait returns without a signal, or refuses a negative interval    *)
(* (periodic.c:33, :49, :62).                                              *)
NoUseAfterFree ==
  touched => \/ ended = "spurious"
             \/ ended = "EINVAL" /\ seen.nsec < 0

(* A callback never comes before its time: the time the clock was read     *)
(* plus an interval, exactly, carries of nanoseconds included.  If no      *)
(* RMUtilTimer_SetInterval came between the reading of the clock and of    *)
(* the interval, it is the one that was set; otherwise it may already be   *)
(* the new one, or the seconds of one and the nanoseconds of another       *)
(* (periodic.c:20-22, :35).                                                *)
CallbackAtInterval ==
  pc = "callback" =>
    \E a, b \in asked :
      LET due == Value(ts) + a.sec * Nano + b.nsec
      IN  Value(timeout) = due /\ Value(clock) >= due

(* "set a new frequency for the timer. This will take effect AFTER the     *)
(* next trigger" (periodic.h:23, periodic.c:67): a callback comes one      *)
(* interval after the clock was read that was set, whole, by then.         *)
NewIntervalAfterTrigger ==
  pc = "callback" => \E i \in armed : Value(timeout) = Value(ts) + Value(i)

(* The timer calls back again and again until it is told to stop, wakes up *)
(* by itself, or was given an interval with negative nanoseconds           *)
(* (periodic.c:33-53).                                                     *)
TicksUntilTold ==
  []<>(\/ pc = "callback"
       \/ ended \in {"signal", "spurious"}
       \/ ended = "EINVAL" /\ seen.nsec < 0)

(* "Stop the timer loop, call the termination callbck to free up any       *)
(* resources linked to the timer, and free the timer" (periodic.h:26-27).  *)
TerminateStops == terminated ~> pc = "freed"
==============================================================================
