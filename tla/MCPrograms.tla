------------------------------ MODULE MCPrograms ------------------------------
(* TLC instance of the two classes that nothing else in the library uses,   *)
(* SharedPtr and Timer.  Each is a program of its own: one of the two runs, *)
(* the other stays as it is.                                                *)
EXTENDS SharedPtr, Timer

CONSTANTS t1, t2, h1, h2, h3, h4, b1, b2

MCThreads == {t1, t2}
MCHandles == {h1, h2, h3, h4}
MCBlocks == {b1, b2}
MCDelays == {0, 1, 3}

VARIABLE program
allVars == <<ptrVars, timerVars, program>>

PtrRuns == program = "pointers" /\ UNCHANGED <<timerVars, program>>
TimerRuns == program = "timer" /\ UNCHANGED <<ptrVars, program>>

Init == PtrInit /\ TimerInit /\ program \in {"pointers", "timer"}

Next == \/ \E t \in Threads : \/ PtrCall(t) /\ PtrRuns
                              \/ PtrStep(t) /\ PtrRuns
        \/ \E msec \in Delays : AddTimer(msec) /\ TimerRuns
        \/ \E x \in timers : DelTimer(x) /\ TimerRuns
        \/ Tick /\ TimerRuns
        \/ Interrupt /\ TimerRuns
        \/ LoopStep /\ TimerRuns

(* The fairness of PtrSpec and of TimerSpec.                                *)
FairSpec == /\ Init /\ [][Next]_allVars
            /\ \A t \in Threads : WF_allVars(PtrStep(t) /\ PtrRuns)
            /\ WF_allVars(Tick /\ TimerRuns)
            /\ WF_allVars(LoopStep /\ TimerRuns)

=============================================================================
