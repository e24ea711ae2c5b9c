---------------------------- MODULE ServerProofs ----------------------------
(***************************************************************************)
(* Proofs about Server: for any pids, any stop commands and any number of  *)
(* processes.                                                              *)
(***************************************************************************)
EXTENDS Server, TLAPS

\* Who holds the storage is past its check.
LEMMA OpenPassed == \A p \in Pid : stage[p] \in Open => Passed(p)
BY DEF Open, Passed

LEMMA InitIInv == Init => IInv
<1> SUFFICES ASSUME Init PROVE IInv
  OBVIOUS
<1>1. 0 \in Run BY MaxRunAssumption DEF Run
<1>2. TypeOK BY <1>1 DEF Init, TypeOK, Stage
<1>3. HasTarget /\ StoppedAtEnd BY DEF Init, HasTarget, StoppedAtEnd
<1>4. OnePassed /\ FileTells
  BY DEF Init, OnePassed, FileTells, Passed, PidSaved, Open
<1> QED BY <1>2, <1>3, <1>4 DEF IInv

LEMMA TypeStep == IInv /\ [Next]_vars => TypeOK' /\ HasTarget'
<1> SUFFICES ASSUME IInv, [Next]_vars PROVE TypeOK' /\ HasTarget'
  OBVIOUS
<1> USE DEF IInv, TypeOK, HasTarget, Stage, Unprotected, Open, pvars, svars, hvars
<1>1. ASSUME NEW p \in Pid, Gone(p), UNCHANGED <<file, svars, raced, unstopped>>,
             crashed' \subseteq Run
      PROVE  TypeOK' /\ HasTarget'
  BY <1>1 DEF Gone
<1>2. ASSUME NEW p \in Pid, Fork(p, "check") \/ Fork(p, "foreign")
      PROVE  TypeOK' /\ HasTarget'
  <2>1. runs + 1 \in Run BY <1>2, MaxRunAssumption DEF Fork, Run
  <2> QED BY <1>2, <2>1 DEF Fork
<1>3. ASSUME NEW p \in Pid, ForeignEnd(p) \/ Crash(p) \/ CheckRefuse(p) \/ Exit(p)
      PROVE  TypeOK' /\ HasTarget'
  BY <1>1, <1>3 DEF ForeignEnd, Crash, CheckRefuse, Exit
<1>4. ASSUME NEW p \in Pid, CheckFree(p) \/ Truncate(p) \/ SavePid(p) \/ Notify(p)
      PROVE  TypeOK' /\ HasTarget'
  BY <1>4 DEF CheckFree, Truncate, SavePid, Notify, Step
<1>5. ASSUME NEW p \in Pid, StorageStart(p) \/ DriverFails(p) \/ Leave(p) \/ StorageStop(p)
      PROVE  TypeOK' /\ HasTarget'
  BY <1>5 DEF StorageStart, DriverFails, Leave, StorageStop, Step
<1>6. ASSUME NEW p \in Pid, Shutdown(p) \/ ServerLeave(p) \/ ServerEnd(p)
      PROVE  TypeOK' /\ HasTarget'
  BY <1>6 DEF Shutdown, ServerLeave, ServerEnd
<1>7. ASSUME NEW c \in Stopper, ProcessGet(c) \/ NotStarted(c) \/ Poll(c)
      PROVE  TypeOK' /\ HasTarget'
  BY <1>7 DEF ProcessGet, NotStarted, Poll
<1>8. ASSUME NEW c \in Stopper, Interrupt(c) PROVE TypeOK' /\ HasTarget'
  <2>1. PICK p \in Pid : p = target[c] BY <1>8 DEF Interrupt
  <2>2. /\ stopper' \in [Stopper -> {"idle", "read", "poll"}]
        /\ polled' \in [Stopper -> Run] /\ HasTarget'
    BY <1>8, <2>1 DEF Interrupt
  <2>3. CASE Gone(p) BY <1>8, <2>2, <2>3 DEF Interrupt, Gone
  <2>4. CASE UNCHANGED pvars BY <1>8, <2>2, <2>4 DEF Interrupt
  <2>5. CASE /\ stage[p] \in {"ready", "closed"} \cup Open
             /\ told' = [told EXCEPT ![p] = IF @ = "no" THEN "signal" ELSE @]
             /\ UNCHANGED <<stage, server, run, runs>>
    BY <1>8, <2>2, <2>5 DEF Interrupt
  <2> QED BY <1>8, <2>1, <2>3, <2>4, <2>5 DEF Interrupt
<1>9. CASE UNCHANGED vars BY <1>9 DEF vars
<1> QED BY <1>2, <1>3, <1>4, <1>5, <1>6, <1>7, <1>8, <1>9
        DEF Next, Process, Stop

\* What a step can do to the stages: to change nothing, to end a process, to
\* begin one, to let one go on past a check, or the check itself.
LEMMA StageStep ==
  ASSUME IInv, [Next]_vars
  PROVE  \/ UNCHANGED <<stage, file, raced>>
         \/ \E p \in Pid :
              /\ stage' = [stage EXCEPT ![p] = "none"]
              /\ UNCHANGED <<file, raced>>
         \/ \E p \in Pid, st \in {"check", "foreign"} :
              /\ stage' = [stage EXCEPT ![p] = st]
              /\ UNCHANGED <<file, raced>>
         \/ \E p \in Pid : CheckFree(p) \/ Truncate(p) \/ SavePid(p)
         \/ \E p \in Pid, st \in Stage :
              /\ stage' = [stage EXCEPT ![p] = st]
              /\ PidSaved(p) /\ st \in {"ready", "closed"} \cup Open
              /\ UNCHANGED <<file, raced>>
<1> USE DEF pvars, svars, hvars
<1>1. ASSUME NEW p \in Pid,
             ForeignEnd(p) \/ Crash(p) \/ CheckRefuse(p) \/ Exit(p)
      PROVE  /\ stage' = [stage EXCEPT ![p] = "none"]
             /\ UNCHANGED <<file, raced>>
  BY <1>1 DEF ForeignEnd, Crash, CheckRefuse, Exit, Gone
<1>2. ASSUME NEW p \in Pid, NEW st, Fork(p, st)
      PROVE  stage' = [stage EXCEPT ![p] = st] /\ UNCHANGED <<file, raced>>
  BY <1>2 DEF Fork
<1>3. ASSUME NEW p \in Pid,
             Notify(p) \/ StorageStart(p) \/ DriverFails(p) \/ Leave(p) \/ StorageStop(p)
      PROVE  \E st \in Stage :
               /\ stage' = [stage EXCEPT ![p] = st]
               /\ PidSaved(p) /\ st \in {"ready", "closed"} \cup Open
               /\ UNCHANGED <<file, raced>>
  BY <1>3 DEF Notify, StorageStart, DriverFails, Leave, StorageStop, Step,
              PidSaved, Stage, Open
<1>4. ASSUME NEW p \in Pid, Shutdown(p) \/ ServerLeave(p) \/ ServerEnd(p)
      PROVE  UNCHANGED <<stage, file, raced>>
  BY <1>4 DEF Shutdown, ServerLeave, ServerEnd
<1>5. ASSUME NEW c \in Stopper, ProcessGet(c) \/ NotStarted(c) \/ Poll(c)
      PROVE  UNCHANGED <<stage, file, raced>>
  BY <1>5 DEF ProcessGet, NotStarted, Poll
<1>6. ASSUME NEW c \in Stopper, Interrupt(c)
      PROVE  \/ UNCHANGED <<stage, file, raced>>
             \/ \E p \in Pid : /\ stage' = [stage EXCEPT ![p] = "none"]
                               /\ UNCHANGED <<file, raced>>
  BY <1>6 DEF Interrupt, Gone, IInv, HasTarget
<1>7. CASE UNCHANGED vars BY <1>7 DEF vars
<1> QED BY <1>1, <1>2, <1>3, <1>4, <1>5, <1>6, <1>7 DEF Next, Process, Stop

\* A process past its check stays the only one, unless two have raced.
LEMMA OneStep == IInv /\ [Next]_vars => OnePassed' /\ FileTells'
<1> SUFFICES ASSUME IInv, [Next]_vars PROVE OnePassed' /\ FileTells'
  OBVIOUS
<1> USE DEF IInv, OnePassed, FileTells, Passed, PidSaved, Open
<1>t. stage \in [Pid -> Stage] BY DEF TypeOK
<1>1. CASE UNCHANGED <<stage, file, raced>> BY <1>1
<1>2. ASSUME NEW p \in Pid, NEW st \in {"none", "check", "foreign"},
             stage' = [stage EXCEPT ![p] = st], UNCHANGED <<file, raced>>
      PROVE  OnePassed' /\ FileTells'
  BY <1>t, <1>2
<1>3. ASSUME NEW p \in Pid, NEW st \in Stage, PidSaved(p),
             st \in {"ready", "closed"} \cup Open,
             stage' = [stage EXCEPT ![p] = st], UNCHANGED <<file, raced>>
      PROVE  OnePassed' /\ FileTells'
  BY <1>t, <1>3
<1>4. ASSUME NEW p \in Pid, CheckFree(p) PROVE OnePassed' /\ FileTells'
  <2>1. CASE raced' BY <2>1
  <2>2. CASE ~raced'
    <3>1. ~raced /\ \A q \in Pid : stage[q] # "clear"
      BY <1>4, <2>2 DEF CheckFree, TypeOK
    <3>2. ASSUME NEW q \in Pid, Passed(q) PROVE FALSE
      <4>1. stage[q] \in {"writing"} \/ PidSaved(q)
        BY <1>t, <3>1, <3>2 DEF Stage, Unprotected
      <4>2. file = Empty \/ file = q BY <3>1, <4>1
      <4>3. file # Empty /\ ~IsRunned BY <1>4 DEF CheckFree
      <4> QED BY <3>2, <4>2, <4>3 DEF IsRunned
    <3> QED BY <1>4, <1>t, <3>2 DEF CheckFree, Step
  <2> QED BY <2>1, <2>2
<1>5. ASSUME NEW p \in Pid, Truncate(p) PROVE OnePassed' /\ FileTells'
  <2>1. /\ stage[p] = "clear" /\ stage' = [stage EXCEPT ![p] = "writing"]
        /\ file' = Empty /\ raced' = raced
    BY <1>5 DEF Truncate, Step, hvars
  <2> QED BY <1>t, <2>1
<1>6. ASSUME NEW p \in Pid, SavePid(p) PROVE OnePassed' /\ FileTells'
  <2>1. /\ stage[p] = "writing" /\ stage' = [stage EXCEPT ![p] = "saved"]
        /\ file' = p /\ raced' = raced
    BY <1>6 DEF SavePid, Step, hvars
  <2> QED BY <1>t, <2>1
<1> QED BY <1>1, <1>2, <1>3, <1>4, <1>5, <1>6, StageStep

LEMMA StoppedStep == IInv /\ [Next]_vars => StoppedAtEnd'
<1> SUFFICES ASSUME IInv, [Next]_vars PROVE StoppedAtEnd'
  OBVIOUS
<1> USE DEF IInv, StoppedAtEnd, pvars, svars, hvars
<1>t. /\ stage \in [Pid -> Stage] /\ run \in [Pid -> Run]
  BY DEF TypeOK
<1>1. ASSUME NEW p \in Pid, stage[p] \notin Open \/ run[p] \in crashed',
             \A q \in Pid \ {p} : stage'[q] = stage[q] /\ run'[q] = run[q],
             unstopped' = unstopped, crashed \subseteq crashed'
      PROVE  StoppedAtEnd'
  <2> SUFFICES ASSUME NEW n \in unstopped, n \notin crashed'
               PROVE  \E q \in Pid : stage'[q] \in Open /\ run'[q] = n
    BY <1>1
  <2>1. PICK q \in Pid : stage[q] \in Open /\ run[q] = n BY <1>1
  <2>2. q # p BY <1>1, <2>1
  <2> QED BY <1>1, <2>1, <2>2
<1>2. ASSUME UNCHANGED <<stage, run, unstopped, crashed>> PROVE StoppedAtEnd'
  BY <1>2
<1>3. ASSUME NEW p \in Pid, Fork(p, "check") \/ Fork(p, "foreign") PROVE StoppedAtEnd'
  BY <1>1, <1>3, <1>t DEF Fork, Open
<1>4. ASSUME NEW p \in Pid, ForeignEnd(p) \/ Crash(p) \/ CheckRefuse(p) \/ Exit(p)
      PROVE  StoppedAtEnd'
  BY <1>1, <1>4, <1>t DEF ForeignEnd, Crash, CheckRefuse, Exit, Gone, Open
<1>5. ASSUME NEW p \in Pid, CheckFree(p) \/ Truncate(p) \/ SavePid(p) \/ Notify(p)
                            \/ DriverFails(p)
      PROVE  StoppedAtEnd'
  BY <1>1, <1>5, <1>t
  DEF CheckFree, Truncate, SavePid, Notify, DriverFails, Step, Open
<1>6. ASSUME NEW p \in Pid, StorageStart(p) PROVE StoppedAtEnd'
  BY <1>6, <1>t DEF StorageStart, Step, Open
<1>7. ASSUME NEW p \in Pid, Leave(p) PROVE StoppedAtEnd'
  BY <1>7, <1>t DEF Leave, Step, Open
<1>8. ASSUME NEW p \in Pid, StorageStop(p) PROVE StoppedAtEnd'
  BY <1>8, <1>t DEF StorageStop, Step, Open
<1>9. ASSUME NEW p \in Pid, Shutdown(p) \/ ServerLeave(p) \/ ServerEnd(p)
      PROVE  StoppedAtEnd'
  BY <1>2, <1>9 DEF Shutdown, ServerLeave, ServerEnd
<1>10. ASSUME NEW c \in Stopper, ProcessGet(c) \/ NotStarted(c) \/ Poll(c)
       PROVE  StoppedAtEnd'
  BY <1>2, <1>10 DEF ProcessGet, NotStarted, Poll
<1>11. ASSUME NEW c \in Stopper, Interrupt(c) PROVE StoppedAtEnd'
  <2>1. PICK p \in Pid : p = target[c] BY <1>11 DEF Interrupt, HasTarget
  <2>2. CASE stage[p] \in Unprotected \cup {"foreign"} /\ Gone(p)
    BY <1>1, <1>11, <1>t, <2>2 DEF Interrupt, Gone, Unprotected, Open
  <2>3. CASE UNCHANGED <<stage, run>> BY <1>2, <1>11, <2>3 DEF Interrupt
  <2> QED BY <1>11, <2>1, <2>2, <2>3 DEF Interrupt
<1>12. CASE UNCHANGED vars BY <1>2, <1>12 DEF vars
<1> QED BY <1>3, <1>4, <1>5, <1>6, <1>7, <1>8, <1>9, <1>10, <1>11, <1>12
        DEF Next, Process, Stop

\* While nobody has raced, one process at most is past its check, and the pid
\* file tells which: that is what keeps the next start command out.
THEOREM Invariance == Spec => []IInv
<1>1. IInv /\ [Next]_vars => IInv'
  BY TypeStep, OneStep, StoppedStep DEF IInv
<1> QED BY InitIInv, <1>1, PTL DEF Spec

\* Two processes have the storage open at once only if their start commands
\* found no server at the same moment (cmd-start.go:28-39): ending processes,
\* reused pids and crashes let no second one in.
THEOREM OneHasStorage == Spec => []OneAtATime
<1>1. IInv => OneAtATime
  BY OpenPassed DEF IInv, OneAtATime, OneServer, OnePassed
<1> QED BY Invariance, <1>1, PTL

\* A process that is gone without a crash has run the stop of its storage to the
\* end, wherever the interrupt of a stop command met it (start.go:147).
THEOREM GoneHasStopped == Spec => []StoppedAtEnd
<1>1. IInv => StoppedAtEnd BY DEF IInv
<1> QED BY Invariance, <1>1, PTL

=============================================================================
