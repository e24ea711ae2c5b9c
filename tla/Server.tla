------------------------------- MODULE Server -------------------------------
(***************************************************************************)
(* The server's processes: start commands, stop commands and the pid file  *)
(* they share.                                                             *)
(*                                                                         *)
(*   cli                 a start command reads the pid file, asks whether  *)
(*                       that process lives, writes its own pid (which     *)
(*                       empties the file first) and then asks for its     *)
(*                       signals; a stop command reads the file, sends an  *)
(*                       interrupt and polls until the process is gone;    *)
(*   task-manager-server the goroutine "start" opens the storage, starts   *)
(*                       the server, and closes the storage when its       *)
(*                       context is done or the server has ended; main     *)
(*                       exits when everything below it has finished.      *)
(*                                                                         *)
(* A pid that is free may be given again, to another start command or to a *)
(* program of somebody else ("foreign").  A process may crash at any       *)
(* moment; nothing ever removes the pid file.  What the server does in     *)
(* between is Service's and Storage's business, and so is what the stop of *)
(* the storage saves.  Storage has one process at a time, with its storage *)
(* started and stopped once: OneServer and StoppedAtEnd say how far that   *)
(* is so.                                                                  *)
(***************************************************************************)
EXTENDS Naturals

CONSTANTS Pid,      \* pids of this machine
          Stopper,  \* stop commands that may run at once
          MaxRun,   \* processes begun, the bound
          Nothing,  \* no pid file
          Empty     \* a pid file without a pid in it

ASSUME FileAssumption == Nothing \notin Pid /\ Empty \notin Pid /\ Nothing # Empty
ASSUME MaxRunAssumption == MaxRun \in Nat

VARIABLES
  file,     \* the pid file
  stage,    \* per pid: how far the goroutine that starts and ends it has got
  server,   \* per pid: startServer; "ending" is what runs below it
  told,     \* per pid: a signal in shutdownSignals, or startCtx canceled
  run,      \* per pid: which process has, or had, it
  runs,     \* processes begun
  stopper,  \* per stop command: what it does
  target,   \* per stop command: the pid it has read
  polled,   \* per stop command: the process it has sent the interrupt to
  raced,    \* history: two start commands have found no server at once
  unstopped, \* history: processes with the storage started and not stopped
  crashed   \* history: processes that have crashed

pvars == <<stage, server, told, run, runs>>
svars == <<stopper, target, polled>>
hvars == <<raced, unstopped, crashed>>
vars == <<file, pvars, svars, hvars>>

Run == 0..MaxRun

\* Before signal.Notify an interrupt kills the process.
Unprotected == {"check", "clear", "writing", "saved"}
\* The storage may be in use.
Open == {"open", "closing"}
Stage == {"none", "foreign", "ready", "closed"} \cup Unprotected \cup Open

TypeOK ==
  /\ file \in Pid \cup {Nothing, Empty}
  /\ stage \in [Pid -> Stage]
  /\ server \in [Pid -> {"no", "yes", "ending"}]
  /\ told \in [Pid -> {"no", "signal", "done"}]
  /\ run \in [Pid -> Run] /\ runs \in Run
  /\ stopper \in [Stopper -> {"idle", "read", "poll"}]
  /\ target \in [Stopper -> Pid \cup {Nothing}]
  /\ polled \in [Stopper -> Run]
  /\ raced \in BOOLEAN
  /\ unstopped \subseteq Run /\ crashed \subseteq Run
  \* The channel of signals and the server are there only once asked for.
  /\ \A p \in Pid : told[p] # "no" => stage[p] \in {"ready", "closed"} \cup Open
  /\ \A p \in Pid : server[p] # "no" => stage[p] \in {"closed"} \cup Open

Init ==
  /\ file = Nothing
  /\ stage = [p \in Pid |-> "none"]
  /\ server = [p \in Pid |-> "no"]
  /\ told = [p \in Pid |-> "no"]
  /\ run = [p \in Pid |-> 0] /\ runs = 0
  /\ stopper = [c \in Stopper |-> "idle"]
  /\ target = [c \in Stopper |-> Nothing]
  /\ polled = [c \in Stopper |-> 0]
  /\ raced = FALSE /\ unstopped = {} /\ crashed = {}

-----------------------------------------------------------------------------
(* Processes.                                                              *)

\* A process gets a free pid.
Fork(p, st) ==
  /\ stage[p] = "none" /\ runs < MaxRun
  /\ stage' = [stage EXCEPT ![p] = st]
  /\ run' = [run EXCEPT ![p] = runs + 1] /\ runs' = runs + 1
  /\ UNCHANGED <<file, server, told, svars, hvars>>

\* Process p is gone, with all its goroutines.
Gone(p) ==
  /\ stage' = [stage EXCEPT ![p] = "none"]
  /\ server' = [server EXCEPT ![p] = "no"]
  /\ told' = [told EXCEPT ![p] = "no"]
  /\ UNCHANGED <<run, runs>>

Step(p, from, to) ==
  /\ stage[p] = from
  /\ stage' = [stage EXCEPT ![p] = to]

ForeignEnd(p) ==
  /\ stage[p] = "foreign" /\ Gone(p)
  /\ UNCHANGED <<file, svars, hvars>>

Crash(p) ==
  /\ stage[p] \notin {"none", "foreign"} /\ Gone(p)
  /\ crashed' = crashed \cup {run[p]}
  /\ UNCHANGED <<file, svars, raced, unstopped>>

-----------------------------------------------------------------------------
(* The start command.                                                      *)

\* Mutant: a process that ends is taken for one that has ended.
IsRunnedServing == file \in Pid /\ stage[file] \notin {"none", "closing", "closed"}

\* ProcessIsRunned: it does not ask whose process that is, and it may be its
\* own.
IsRunned == file \in Pid /\ stage[file] # "none"

\* An empty file is an error ("parse PID fail").
CheckFree(p) ==
  /\ Step(p, "check", "clear")
  /\ file # Empty /\ ~IsRunned
  /\ raced' = (raced \/ \E q \in Pid : stage[q] = "clear")
  /\ UNCHANGED <<file, server, told, run, runs, svars, unstopped, crashed>>

CheckRefuse(p) ==
  /\ stage[p] = "check"
  /\ file = Empty \/ IsRunned
  /\ Gone(p)
  /\ UNCHANGED <<file, svars, hvars>>

\* ProcessSavePid: WriteFile empties the file, then writes.
Truncate(p) ==
  /\ Step(p, "clear", "writing")
  /\ file' = Empty
  /\ UNCHANGED <<server, told, run, runs, svars, hvars>>

SavePid(p) ==
  /\ Step(p, "writing", "saved")
  /\ file' = p
  /\ UNCHANGED <<server, told, run, runs, svars, hvars>>

Notify(p) ==
  /\ Step(p, "saved", "ready")
  /\ UNCHANGED <<file, server, told, run, runs, svars, hvars>>

-----------------------------------------------------------------------------
(* The goroutine "start", the server below it, and main.                   *)

\* Storage.Start and serverCtx.Go.
StorageStart(p) ==
  /\ Step(p, "ready", "open")
  /\ server' = [server EXCEPT ![p] = "yes"]
  /\ unstopped' = unstopped \cup {run[p]}
  /\ UNCHANGED <<file, told, run, runs, svars, raced, crashed>>

\* The database driver is not found: a panic, and startCtx is canceled.
DriverFails(p) ==
  /\ Step(p, "ready", "closed")
  /\ told' = [told EXCEPT ![p] = "done"]
  /\ UNCHANGED <<file, server, run, runs, svars, hvars>>

\* The first signal cancels startCtx; nobody looks for another.
Shutdown(p) ==
  /\ told[p] = "signal"
  /\ told' = [told EXCEPT ![p] = "done"]
  /\ UNCHANGED <<file, stage, server, run, runs, svars, hvars>>

\* The select of start: its context is done, or the server has ended.
Leave(p) ==
  /\ Step(p, "open", "closing")
  /\ told[p] = "done" \/ server[p] # "yes"
  /\ UNCHANGED <<file, server, told, run, runs, svars, hvars>>

\* Storage.Stop returns.  Nothing is in memory any more; that the root tasks
\* are on disk then, if the write did not fail, is StopQueue of Storage.
StorageStop(p) ==
  /\ Step(p, "closing", "closed")
  /\ unstopped' = unstopped \ {run[p]}
  /\ UNCHANGED <<file, server, told, run, runs, svars, raced, crashed>>

\* Mutant: the server does not look at its context.
ServerLeaveStopped(p) ==
  /\ server[p] = "yes"
  /\ told[p] = "no"
  /\ server' = [server EXCEPT ![p] = "ending"]
  /\ UNCHANGED <<file, stage, told, run, runs, svars, hvars>>

\* startServer ends: its context is done, or the task manager has stopped.
ServerLeave(p) ==
  /\ server[p] = "yes"
  /\ server' = [server EXCEPT ![p] = "ending"]
  /\ UNCHANGED <<file, stage, told, run, runs, svars, hvars>>

\* ... and everything below it.
ServerEnd(p) ==
  /\ server[p] = "ending"
  /\ server' = [server EXCEPT ![p] = "no"]
  /\ UNCHANGED <<file, stage, told, run, runs, svars, hvars>>

\* Mutant: main does not wait for what is below "start".
ExitAtDone(p) ==
  /\ told[p] = "done"
  /\ Gone(p)
  /\ UNCHANGED <<file, svars, hvars>>

\* Main.ChildsFinished.
Exit(p) ==
  /\ stage[p] = "closed" /\ server[p] = "no"
  /\ Gone(p)
  /\ UNCHANGED <<file, svars, hvars>>

-----------------------------------------------------------------------------
(* The stop command.  It changes nothing if there is no pid to read, or if *)
(* no process has it when it sends the interrupt.                          *)

ProcessGet(c) ==
  /\ stopper[c] = "idle" /\ file \in Pid
  /\ stopper' = [stopper EXCEPT ![c] = "read"]
  /\ target' = [target EXCEPT ![c] = file]
  /\ UNCHANGED <<file, pvars, polled, hvars>>

NotStarted(c) ==
  /\ stopper[c] = "read" /\ stage[target[c]] = "none"
  /\ stopper' = [stopper EXCEPT ![c] = "idle"]
  /\ UNCHANGED <<file, pvars, target, polled, hvars>>

\* A program of somebody else may end or go on.
Interrupt(c) ==
  LET p == target[c] IN
  /\ stopper[c] = "read" /\ stage[p] # "none"
  /\ stopper' = [stopper EXCEPT ![c] = "poll"]
  /\ polled' = [polled EXCEPT ![c] = run[p]]
  /\ \/ stage[p] \in Unprotected \cup {"foreign"} /\ Gone(p)
     \/ stage[p] = "foreign" /\ UNCHANGED pvars
     \/ /\ stage[p] \in {"ready", "closed"} \cup Open
        /\ told' = [told EXCEPT ![p] = IF @ = "no" THEN "signal" ELSE @]
        /\ UNCHANGED <<stage, server, run, runs>>
  /\ UNCHANGED <<file, target, hvars>>

\* Signal(0), every 100 ms.
Poll(c) ==
  /\ stopper[c] = "poll" /\ stage[target[c]] = "none"
  /\ stopper' = [stopper EXCEPT ![c] = "idle"]
  /\ UNCHANGED <<file, pvars, target, polled, hvars>>

-----------------------------------------------------------------------------
Process(p) ==
  \/ CheckFree(p) \/ CheckRefuse(p) \/ Truncate(p) \/ SavePid(p) \/ Notify(p)
  \/ StorageStart(p) \/ Shutdown(p) \/ Leave(p) \/ StorageStop(p)
  \/ ServerEnd(p) \/ Exit(p)

Stop(c) == NotStarted(c) \/ Interrupt(c) \/ Poll(c)

Next ==
  \/ \E p \in Pid : \/ Fork(p, "check") \/ Fork(p, "foreign") \/ ForeignEnd(p)
                    \/ Process(p) \/ DriverFails(p) \/ ServerLeave(p) \/ Crash(p)
  \/ \E c \in Stopper : ProcessGet(c) \/ Stop(c)

Spec == Init /\ [][Next]_vars

\* What is begun goes on, but nobody needs to begin anything, and a server
\* that is told nothing may serve for ever.  That the goroutines below it end
\* once its context is done is StopEnds of Service.
FairSpec ==
  /\ Spec
  /\ \A p \in Pid : /\ WF_vars(CheckFree(p) \/ CheckRefuse(p) \/ Truncate(p)
                              \/ SavePid(p) \/ Notify(p) \/ StorageStart(p)
                              \/ Leave(p) \/ StorageStop(p) \/ Exit(p))
                    /\ WF_vars(Shutdown(p)) /\ WF_vars(ServerEnd(p))
                    /\ WF_vars(ServerLeave(p) /\ told[p] = "done")
  /\ \A c \in Stopper : WF_vars(Stop(c))

-----------------------------------------------------------------------------
(* Properties.                                                             *)

\* What Storage takes for granted: one process at a time has the tables.  Two
\* do only if their start commands both found no server before either emptied
\* the pid file (cmd-start.go:28-39); else whoever is ending, starting, or has
\* just got the pid of another keeps the second one out.
OneServer ==
  raced \/ \A p, q \in Pid : stage[p] \in Open /\ stage[q] \in Open => p = q

\* A process is started, runs and ends on its own, one at a time.
OneAtATime == TypeOK /\ OneServer

\* A process that is gone has stopped the storage it has started, which is its
\* one attempt to save what it had in memory (start.go:147), also when it was
\* interrupted between any two of its steps, unless it crashed.
StoppedAtEnd ==
  \A n \in unstopped :
    n \in crashed \/ \E p \in Pid : stage[p] \in Open /\ run[p] = n

\* Stop command c still waits for the process it has interrupted.
Waits(c) == stopper[c] = "poll" /\ run[target[c]] = polled[c]

\* A stop command ends (cmd-stop.go:45-53): the server it has interrupted does
\* not live on, wherever it was.  Not so for a program of somebody else that
\* has got the pid, before the interrupt or while the command polls.
StopReturns ==
  \A c \in Stopper :
    Waits(c) /\ stage[target[c]] # "foreign" ~> ~Waits(c)

-----------------------------------------------------------------------------
(* The inductive invariant of OneAtATime and StoppedAtEnd.                 *)

\* A start command that has found no server is past its check, and the pid file
\* is empty or has its pid from then on until the process is gone.
Passed(p) == stage[p] \notin {"none", "foreign", "check"}
PidSaved(p) == stage[p] \in {"saved", "ready", "closed"} \cup Open

OnePassed ==
  raced \/ \A p, q \in Pid : Passed(p) /\ Passed(q) => p = q

FileTells ==
  raced \/ \A p \in Pid : /\ stage[p] = "writing" => file = Empty
                          /\ PidSaved(p) => file = p

\* A stop command that goes on has read a pid.
HasTarget == \A c \in Stopper : stopper[c] # "idle" => target[c] \in Pid

IInv == TypeOK /\ HasTarget /\ OnePassed /\ FileTells /\ StoppedAtEnd

=============================================================================
