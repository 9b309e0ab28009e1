------------------------------- MODULE GbTimer --------------------------------
(***************************************************************************)
(* The timer of the Game Boy (src/core/timer.cpp) as a record: DIV, which  *)
(* counts always, TIMA, which counts while TAC bit 2 is set, and the       *)
(* reload from TMA some cycles after TIMA overflowed.                      *)
(***************************************************************************)
EXTENDS Integers

CONSTANTS DivPeriod,    \* cycles per step of DIV (256)
          TimaPeriods,  \* cycles per step of TIMA, by TAC's two bits (1024, 16, 64, 256)
          ReloadDelay,  \* cycles between the overflow and the reload (4)
          TimerTop      \* largest value of a timer register (255)

ASSUME TimerAssumption ==
    /\ DivPeriod \in Nat \ {0} /\ TimerTop \in Nat \ {0} /\ ReloadDelay \in Nat \ {0}
    /\ TimaPeriods \in [0..3 -> Nat] /\ \A s \in 0..3 : TimaPeriods[s] > ReloadDelay

NewTimer ==
    [divCounter |-> 0, timaCounter |-> 0, div |-> 0, tima |-> 0, tma |-> 0,
     clock |-> 0, on |-> FALSE,           \* TAC
     pending |-> FALSE, delay |-> 0, request |-> FALSE]

(* incrementTima                                                           *)
TimaOverflows(t) == t.tima = TimerTop

TimaIncremented(t) ==
    IF TimaOverflows(t)
    THEN [t EXCEPT !.tima = 0, !.pending = TRUE, !.delay = ReloadDelay]
    ELSE [t EXCEPT !.tima = @ + 1]

DivCounted(t) ==
    IF t.divCounter + 1 >= DivPeriod
    THEN [t EXCEPT !.divCounter = 0, !.div = (@ + 1) % (TimerTop + 1)]
    ELSE [t EXCEPT !.divCounter = @ + 1]

(* Mutant: the interrupt is requested, the overflow stays pending.         *)
ReloadRepeats(t) ==
    IF t.pending /\ t.delay <= 1
    THEN [t EXCEPT !.delay = 0, !.tima = t.tma, !.request = TRUE]
    ELSE [t EXCEPT !.delay = IF t.pending THEN @ - 1 ELSE @]

Reloaded(t) ==
    IF ~t.pending THEN t
    ELSE IF t.delay > 1 THEN [t EXCEPT !.delay = @ - 1]
    ELSE [t EXCEPT !.delay = 0, !.pending = FALSE, !.tima = t.tma, !.request = TRUE]

(* The counter passes the period when TAC has just chosen a shorter one.   *)
TimaSteps(t) == t.on /\ t.timaCounter + 1 >= TimaPeriods[t.clock]

TimaCounted(t) ==
    IF TimaSteps(t) THEN TimaIncremented([t EXCEPT !.timaCounter = 0])
    ELSE IF t.on THEN [t EXCEPT !.timaCounter = @ + 1]
    ELSE t

(* One turn of the loop in Timer::tick, and the whole of it.               *)
TimerCycle(t) == TimaCounted(Reloaded(DivCounted(t)))

TimerTicked(t, cycles) ==
    LET after[n \in 0..cycles] == IF n = 0 THEN t ELSE TimerCycle(after[n - 1])
    IN  after[cycles]

(* Timer::write.  DIV does not touch TIMA's counter; TIMA cancels a reload.*)
DIV  == \hFF04
TIMA == \hFF05
TMA  == \hFF06
TAC  == \hFF07
TimerRegisters == DIV..TAC

TimerWritten(t, address, value) ==
    CASE address = DIV  -> [t EXCEPT !.div = 0, !.divCounter = 0]
      [] address = TIMA -> [t EXCEPT !.tima = value, !.pending = FALSE, !.delay = 0]
      [] address = TMA  -> [t EXCEPT !.tma = value]
      [] address = TAC  -> [t EXCEPT !.clock = value % 4, !.on = ((value \div 4) % 2 = 1)]

TimerRead(t, address) ==
    CASE address = DIV  -> t.div
      [] address = TIMA -> t.tima
      [] address = TMA  -> t.tma
      [] address = TAC  -> 248 + t.clock + IF t.on THEN 4 ELSE 0

(* consumeInterrupt                                                        *)
TimerConsumed(t) == [t EXCEPT !.request = FALSE]

=============================================================================
