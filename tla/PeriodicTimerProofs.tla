------------------------- MODULE PeriodicTimerProofs -------------------------
(***************************************************************************)
(* The safety of a timer, for every set of intervals and every Nano.       *)
(***************************************************************************)
EXTENDS PeriodicTimer, TLAPS

(* What the loop waits for is the sum of the times, however they carry.    *)
LEMMA AddIsSum ==
  ASSUME NEW a \in Times, NEW b \in Times
  PROVE  /\ timespecAdd(a, b) \in Times
         /\ Value(timespecAdd(a, b)) = Value(a) + Value(b)
<1> USE TimerAssumption DEF TimerAssumption, Times
<1> DEFINE ns == a.nsec + b.nsec
           q  == Quot(ns)
<1>1. ns \in Int /\ q \in Int
  <2>1. ns \in Int
    OBVIOUS
  <2>2. ns \div Nano \in Int /\ (-ns) \div Nano \in Int
    BY <2>1
  <2>3. QED
    BY <2>1, <2>2 DEF Quot
<1>2. timespecAdd(a, b) = [sec |-> a.sec + b.sec + q, nsec |-> ns - q * Nano]
  BY DEF timespecAdd, Rem
<1>3. q * Nano \in Int
  BY <1>1
<1>4. timespecAdd(a, b) \in Times
  BY <1>1, <1>2, <1>3
<1>5. Value(timespecAdd(a, b)) = (a.sec + b.sec + q) * Nano + (ns - q * Nano)
  BY <1>2 DEF Value
<1>6. (a.sec + b.sec + q) * Nano = a.sec * Nano + b.sec * Nano + q * Nano
  BY <1>1
<1>7. a.sec * Nano \in Int /\ b.sec * Nano \in Int
  OBVIOUS
<1>8. QED
  BY <1>1, <1>3, <1>4, <1>5, <1>6, <1>7 DEF Value

(* A wait for an interval without negative nanoseconds is not refused.     *)
LEMMA SumIsValid ==
  ASSUME NEW a \in Times, NEW b \in Times, a.nsec >= 0, b.nsec >= 0
  PROVE  Valid(timespecAdd(a, b))
<1> DEFINE ns == a.nsec + b.nsec
<1>1. ns \in Nat
  BY DEF Times
<1>2. timespecAdd(a, b).nsec = ns - (ns \div Nano) * Nano
  BY <1>1 DEF timespecAdd, Rem, Quot
<1> HIDE DEF ns
<1>3. ns - (ns \div Nano) * Nano = ns % Nano /\ ns % Nano \in 0 .. Nano - 1
  BY <1>1, TimerAssumption DEF TimerAssumption
<1>4. QED
  BY <1>2, <1>3 DEF Valid

------------------------------------------------------------------------------
(* Types *)

LEMMA TypeInit == Init => TypeOK
<1> SUFFICES ASSUME Init PROVE TypeOK
  OBVIOUS
<1> USE TimerAssumption DEF TimerAssumption, Times, Valid
<1>1. clock \in Times /\ Valid(clock)
  BY DEF Init
<1>2. Zero \in Times /\ Valid(Zero)
  BY DEF Zero
<1>3. interval \in Times
  BY DEF Init
<1>4. QED
  BY <1>1, <1>2, <1>3 DEF Init, TypeOK

LEMMA TypeStep == TypeOK /\ [Next]_vars => TypeOK'
<1> SUFFICES ASSUME TypeOK, [Next]_vars PROVE TypeOK'
  OBVIOUS
<1> USE TimerAssumption
    DEF TimerAssumption, TypeOK, Times, Valid, Goto, Touch, loop, program, history
<1>1. ASSUME ReadClock PROVE TypeOK'
  BY <1>1 DEF ReadClock
<1>2. ASSUME ReadSec \/ ReadNsec PROVE TypeOK'
  BY <1>2 DEF ReadSec, ReadNsec
<1>3. ASSUME Refused \/ TimedOut \/ SpuriousWakeup PROVE TypeOK'
  BY <1>3 DEF Refused, TimedOut, SpuriousWakeup
<1>4. ASSUME Callback \/ OnTerm \/ Free PROVE TypeOK'
  BY <1>4 DEF Callback, OnTerm, Free
<1>5. ASSUME NEW x \in Intervals, SetInterval(x) PROVE TypeOK'
  BY <1>5 DEF SetInterval
<1>6. ASSUME NEW field \in {"sec", "nsec"}, Store(field) PROVE TypeOK'
  BY <1>6 DEF Store
<1>7. ASSUME Terminate PROVE TypeOK'
  BY <1>7 DEF Terminate
<1>8. ASSUME Tick PROVE TypeOK'
  <2>1. CASE clock.nsec + 1 < Nano
    BY <1>8, <2>1 DEF Tick
  <2>2. CASE ~(clock.nsec + 1 < Nano)
    BY <1>8, <2>2 DEF Tick
  <2>3. QED
    BY <2>1, <2>2
<1>9. ASSUME UNCHANGED vars PROVE TypeOK'
  BY <1>9 DEF vars
<1>10. QED
  BY <1>1, <1>2, <1>3, <1>4, <1>5, <1>6, <1>7, <1>8, <1>9
  DEF Next, LoopStep, ProgramStep

THEOREM TimerTypeCorrect == Spec => []TypeOK
BY TypeInit, TypeStep, PTL DEF Spec

------------------------------------------------------------------------------
(* The end of a timer *)

(* The loop has ended when it is on its way to free; it was told to only   *)
(* by a program that calls nothing afterwards.                             *)
EndInv ==
  /\ pc \in {"terminate", "free", "freed"} <=> ended # "no"
  /\ ended = "signal" => terminated
  /\ ended = "EINVAL" => seen.nsec < 0
  /\ todo # {} => ~terminated
  /\ NoUseAfterFree

LEMMA EndInit == Init => EndInv
BY DEF Init, EndInv, NoUseAfterFree

LEMMA EndStep == TypeOK /\ EndInv /\ [Next]_vars => EndInv'
<1> SUFFICES ASSUME TypeOK, EndInv, [Next]_vars PROVE EndInv'
  OBVIOUS
<1> USE DEF TypeOK, EndInv, NoUseAfterFree, Goto, Touch, loop, program, history
<1>1. ASSUME ReadClock PROVE EndInv'
  BY <1>1 DEF ReadClock
<1>2. ASSUME ReadSec \/ ReadNsec PROVE EndInv'
  BY <1>2 DEF ReadSec, ReadNsec
<1>3. ASSUME Refused PROVE EndInv'
  <2>1. seen.nsec < 0
    <3>1. ts.nsec >= 0 /\ seen.nsec \in Int
      BY TimerAssumption DEF TimerAssumption, Valid, Times
    <3>2. QED
      BY <1>3, <3>1, SumIsValid DEF Refused, timeout
  <2>2. QED
    BY <1>3, <2>1 DEF Refused
<1>4. ASSUME TimedOut \/ SpuriousWakeup PROVE EndInv'
  BY <1>4 DEF TimedOut, SpuriousWakeup
<1>5. ASSUME Callback \/ OnTerm \/ Free PROVE EndInv'
  BY <1>5 DEF Callback, OnTerm, Free
<1>6. ASSUME NEW x \in Intervals, SetInterval(x) PROVE EndInv'
  BY <1>6 DEF SetInterval
<1>7. ASSUME NEW field \in {"sec", "nsec"}, Store(field) PROVE EndInv'
  BY <1>7 DEF Store
<1>8. ASSUME Terminate PROVE EndInv'
  BY <1>8 DEF Terminate
<1>9. ASSUME Tick PROVE EndInv'
  BY <1>9 DEF Tick
<1>10. ASSUME UNCHANGED vars PROVE EndInv'
  BY <1>10 DEF vars
<1>11. QED
  BY <1>1, <1>2, <1>3, <1>4, <1>5, <1>6, <1>7, <1>8, <1>9, <1>10
  DEF Next, LoopStep, ProgramStep

(* As long as waits return only when they should, and no interval has      *)
(* negative nanoseconds, the program never touches freed memory.           *)
THEOREM TimerOutlivesItsUse == Spec => []NoUseAfterFree
<1>1. Spec => []EndInv
  BY EndInit, EndStep, TimerTypeCorrect, PTL DEF Spec
<1>2. EndInv => NoUseAfterFree
  BY DEF EndInv
<1>3. QED
  BY <1>1, <1>2, PTL

------------------------------------------------------------------------------
(* When the callback comes *)

(* What is stored at any time comes from old and target; what the loop has *)
(* read of it comes from asked.                                            *)
Secs  == {a.sec : a \in asked}
Nsecs == {a.nsec : a \in asked}

StoreInv ==
  /\ "sec" \in todo => interval.sec = old.sec
  /\ "nsec" \in todo => interval.nsec = old.nsec
  /\ todo # {} /\ "sec" \notin todo => interval.sec = target.sec
  /\ todo # {} /\ "nsec" \notin todo => interval.nsec = target.nsec

ReadInv ==
  /\ Reading => /\ interval.sec \in Secs /\ interval.nsec \in Nsecs
                /\ todo # {} => target \in asked
  /\ pc \in {"read_nsec", "wait", "callback"} => seen.sec \in Secs
  /\ pc \in {"wait", "callback"} => seen.nsec \in Nsecs

CallbackInv ==
  /\ StoreInv
  /\ ReadInv
  /\ pc = "callback" => Value(clock) >= Value(timeout)

LEMMA CallbackInit == Init => CallbackInv
BY DEF Init, CallbackInv, StoreInv, ReadInv, Reading

LEMMA CallbackStep == TypeOK /\ CallbackInv /\ [Next]_vars => CallbackInv'
<1> SUFFICES ASSUME TypeOK, CallbackInv, [Next]_vars PROVE CallbackInv'
  OBVIOUS
<1> USE TimerAssumption
    DEF TypeOK, CallbackInv, StoreInv, ReadInv, Reading, Secs, Nsecs, Goto,
        loop, program, history
<1>1. ASSUME ReadClock PROVE CallbackInv'
  BY <1>1 DEF ReadClock
<1>2. ASSUME ReadSec PROVE CallbackInv'
  BY <1>2 DEF ReadSec, Times
<1>3. ASSUME ReadNsec PROVE CallbackInv'
  BY <1>3 DEF ReadNsec, Times
<1>4. ASSUME Refused \/ SpuriousWakeup PROVE CallbackInv'
  BY <1>4 DEF Refused, SpuriousWakeup
<1>5. ASSUME TimedOut PROVE CallbackInv'
  BY <1>5 DEF TimedOut, timeout, Value, timespecAdd
<1>6. ASSUME Callback \/ OnTerm \/ Free PROVE CallbackInv'
  BY <1>6 DEF Callback, OnTerm, Free
<1>7. ASSUME NEW x \in Intervals, SetInterval(x) PROVE CallbackInv'
  BY <1>7 DEF SetInterval, timeout
<1>8. ASSUME NEW field \in {"sec", "nsec"}, Store(field) PROVE CallbackInv'
  <2>1. CASE field = "sec"
    BY <1>8, <2>1 DEF Store, Times, timeout
  <2>2. CASE field = "nsec"
    BY <1>8, <2>2 DEF Store, Times, timeout
  <2>3. QED
    BY <2>1, <2>2
<1>9. ASSUME Terminate PROVE CallbackInv'
  BY <1>9 DEF Terminate, timeout
<1>10. ASSUME Tick PROVE CallbackInv'
  <2>1. timeout \in Times /\ Value(timeout) \in Int /\ timeout' = timeout
    BY <1>10, AddIsSum DEF Tick, timeout, Value, Times, TimerAssumption
  <2>2. Value(clock') >= Value(clock)
    <3>1. CASE clock.nsec + 1 < Nano
      BY <1>10, <3>1 DEF Tick, Value, Times, TimerAssumption
    <3>2. CASE ~(clock.nsec + 1 < Nano)
      BY <1>10, <3>2 DEF Tick, Value, Times, Valid, TimerAssumption
    <3>3. QED
      BY <3>1, <3>2
  <2>3. Value(clock) \in Int /\ Value(clock') \in Int
    BY <1>10 DEF Tick, Value, Times, TimerAssumption
  <2>4. QED
    BY <1>10, <2>1, <2>2, <2>3 DEF Tick
<1>11. ASSUME UNCHANGED vars PROVE CallbackInv'
  BY <1>11 DEF vars, timeout
<1>12. QED
  BY <1>1, <1>2, <1>3, <1>4, <1>5, <1>6, <1>7, <1>8, <1>9, <1>10, <1>11
  DEF Next, LoopStep, ProgramStep

(* A callback comes when the time the clock was read has passed by an      *)
(* interval, carries included.  Its seconds and its nanoseconds were in    *)
(* force since then: SetInterval may have written either or both of them   *)
(* meanwhile (see NewIntervalAfterTrigger).                                *)
THEOREM CallbackOnTime == Spec => []CallbackAtInterval
<1>1. Spec => [](TypeOK /\ CallbackInv)
  BY CallbackInit, CallbackStep, TimerTypeCorrect, PTL DEF Spec
<1>2. TypeOK /\ CallbackInv => CallbackAtInterval
  <2> SUFFICES ASSUME TypeOK, CallbackInv, pc = "callback"
               PROVE  CallbackAtInterval
    BY DEF CallbackAtInterval
  <2>1. PICK a \in asked : seen.sec = a.sec
    BY DEF CallbackInv, ReadInv, Secs
  <2>2. PICK b \in asked : seen.nsec = b.nsec
    BY DEF CallbackInv, ReadInv, Nsecs
  <2>3. Value(timeout) = Value(ts) + Value(seen)
    BY AddIsSum DEF TypeOK, timeout
  <2>4. Value(timeout) = Value(ts) + a.sec * Nano + b.nsec
    BY <2>1, <2>2, <2>3, TimerAssumption DEF Value, TypeOK, Times, TimerAssumption
  <2>5. QED
    BY <2>4 DEF CallbackAtInterval, CallbackInv
<1>3. QED
  BY <1>1, <1>2, PTL
==============================================================================
