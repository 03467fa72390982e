------------------------- MODULE UsageFigures_proofs -------------------------
(***************************************************************************)
(* For every range of the figures: an answer of wait_with_usage whose call *)
(* began before anybody had the exit status is about this child, but for   *)
(* the peak of a directory that was left over, and a child that had exited *)
(* by then is given its final CPU time.                                    *)
(***************************************************************************)
EXTENDS UsageFigures, TLAPS

-----------------------------------------------------------------------------
(* Figures *)

\* What the files can say.
LEMMA FileTypes ==
  ASSUME TypeOK
  PROVE  MemoryPeak \in Figures /\ VmPeak \in Figures /\ CpuTime \in Figures
<1>1. 0 \in 0 .. MaxFigure
  BY MaxFigureAssumption
<1>2. ASSUME NEW of \in {"child", "group", "other"}, NEW at \in 0 .. MaxFigure
      PROVE  Figure(of, at) \in Figures
  BY <1>2 DEF Figure, Figures
<1>3. NoFigure \in Figures
  BY DEF Figures
<1> QED
  BY <1>1, <1>2, <1>3 DEF TypeOK, MemoryPeak, VmPeak, CpuTime, OfHolder

\* As long as nobody has the status the files speak of the child and its group, or
\* of the sandbox that has left the directory.
LEMMA OwnFiles ==
  ASSUME TypeOK, child # "reaped"
  PROVE  /\ OnlyLeftOver(MemoryPeak)
         /\ OnlyLeftOver(VmPeak)
         /\ CpuTime.of = "child" /\ CpuTime.at = cpu
  BY MaxFigureAssumption
  DEF TypeOK, OnlyLeftOver, MemoryPeak, VmPeak, CpuTime, Figure, NoFigure

-----------------------------------------------------------------------------
(* The steps *)

LEMMA InitInv == Init => IInv
<1> SUFFICES ASSUME Init PROVE IInv
  OBVIOUS
<1>1. 0 \in 0 .. MaxFigure
  BY MaxFigureAssumption
<1>2. NoFigure \in Figures
  BY DEF Figures
<1> QED
  BY <1>1, <1>2
  DEF Init, CgroupNew, IInv, TypeOK, CachedInv, CallInv, AnswerInv, FiguresOwn,
      ExactOnceExited, NoUsage

LEMMA NextType == TypeOK /\ [Next]_vars => TypeOK'
<1> SUFFICES ASSUME TypeOK, [Next]_vars PROVE TypeOK'
  OBVIOUS
<1> USE DEF dir, proc, figures, call, TypeOK
<1>1. CASE ReadMemory
  BY <1>1, FileTypes DEF ReadMemory
<1>2. CASE ReadCpu
  BY <1>2, FileTypes DEF ReadCpu
<1>3. CASE Answer
  BY <1>3 DEF Answer, Reap, Usage
<1>4. CASE Fails
  BY <1>4 DEF Fails
<1>5. CASE IsAlive \/ WatchdogReaps
  BY <1>5 DEF IsAlive, WatchdogReaps, Reap
<1>6. CASE Work \/ KidWork
  BY <1>6, MaxFigureAssumption DEF Work, KidWork, Grows
<1>7. CASE Exit \/ Fork \/ KidExit
  BY <1>7 DEF Exit, Fork, KidExit
<1>8. CASE PidTaken \/ PidGivenUp
  BY <1>8 DEF PidTaken, PidGivenUp
<1>9. CASE UNCHANGED vars
  BY <1>9 DEF vars
<1> QED
  BY <1>1, <1>2, <1>3, <1>4, <1>5, <1>6, <1>7, <1>8, <1>9 DEF Next

\* What is not about types.
Rest == CachedInv /\ CallInv /\ AnswerInv /\ FiguresOwn /\ ExactOnceExited

LEMMA NextRest == IInv /\ [Next]_vars => Rest'
<1> SUFFICES ASSUME TypeOK, Rest, [Next]_vars PROVE Rest'
  BY DEF IInv, Rest
<1> USE DEF dir, proc, figures, call, Rest, CachedInv, CallInv, AnswerInv, FiguresOwn,
            ExactOnceExited, OnlyLeftOver
<1>1. CASE ReadMemory
  <2>1. begun' # "reaped" => OnlyLeftOver(mem') /\ ~cached
    BY <1>1, OwnFiles DEF ReadMemory
  <2> QED
    BY <1>1, <2>1 DEF ReadMemory, TypeOK
\* The child that began the call unreaped is still there, or is lost to the watchdog.
<1>2. CASE ReadCpu
  <2>1. child # "reaped" => secs'.of = "child" /\ secs'.at = cpu
    BY <1>2, OwnFiles DEF ReadCpu
  <2> QED
    BY <1>2, <2>1 DEF ReadCpu, TypeOK
\* child.wait() of such a call finds a zombie, so what was read is its own.
<1>3. CASE Answer
  <2>1. child' = "reaped" /\ cpu' = cpu
    BY <1>3 DEF Answer, Reap
  <2>2. /\ usage'.begun = begun /\ usage'.mem = mem /\ usage'.secs = secs
        /\ begun # "reaped" => child = "zombie"
    BY <1>3 DEF Answer
  <2> QED
    BY <1>3, <2>1, <2>2 DEF Answer
<1>4. CASE Fails
  BY <1>4 DEF Fails
<1>5. CASE IsAlive \/ WatchdogReaps
  BY <1>5 DEF IsAlive, WatchdogReaps, Reap
\* A child that has exited uses no more CPU time.
<1>6. CASE Work
  <2>1. ~cached /\ child = "running" /\ usage.begun = "none"
    BY <1>6 DEF Work
  <2> QED
    BY <1>6, <2>1 DEF Work
<1>7. CASE KidWork \/ Exit \/ Fork \/ KidExit \/ PidTaken \/ PidGivenUp
  BY <1>7 DEF KidWork, Exit, Fork, KidExit, PidTaken, PidGivenUp
<1>8. CASE UNCHANGED vars
  BY <1>8 DEF vars
<1> QED
  BY <1>1, <1>2, <1>3, <1>4, <1>5, <1>6, <1>7, <1>8 DEF Next

-----------------------------------------------------------------------------

\* The invariant holds in every reachable state, whatever the figures' range.
THEOREM Invariance == Spec => []IInv
<1>1. IInv /\ [Next]_vars => IInv'
  BY NextType, NextRest DEF IInv, Rest
<1> QED
  BY <1>1, InitInv, PTL DEF Spec

\* Every variable keeps its type.
THEOREM TypeCorrect == Spec => []TypeOK
<1>1. IInv => TypeOK
  BY DEF IInv
<1> QED
  BY <1>1, Invariance, PTL

\* A call begun before anybody had the status answers with this child's figures, for
\* the pid passes to nobody between the first read and child.wait(), or child.wait()
\* fails (mod.rs:446-458); only the peak of a left-over directory, which
\* create_dir_all accepts, comes from elsewhere (cgroups.rs:39, 87-94).
THEOREM FiguresAreOwn == Spec => []FiguresOwn
<1>1. IInv => FiguresOwn
  BY DEF IInv
<1> QED
  BY <1>1, Invariance, PTL

\* The CPU time of a child that had exited when the call began is final
\* (mod.rs:446-458, kill.rs:134-151).
THEOREM ExitedAreExact == Spec => []ExactOnceExited
<1>1. IInv => ExactOnceExited
  BY DEF IInv
<1> QED
  BY <1>1, Invariance, PTL
=============================================================================
