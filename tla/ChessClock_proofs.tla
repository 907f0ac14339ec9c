-------------------------- MODULE ChessClock_proofs --------------------------
(***************************************************************************)
(* At most one thread counts the clock down.  The flag _is_running is of   *)
(* no use for it (it is written by others, and a stopped thread outlives   *)
(* the two seconds it is waited for), so the invariant speaks of the stop  *)
(* events: a thread watches the event it was made with, and one whose      *)
(* event is not set is the current one and the one the event stands for.   *)
(*                                                                         *)
(* The other parts speak of the time and of what each caller still has to  *)
(* do: CountInv of what a thread has yet to charge, CreditInv of the plies *)
(* whose increment is still owed, TimedInv and StoppedInv of who will      *)
(* start the clock, pause it or stop it while it stands or counts.         *)
(***************************************************************************)
EXTENDS ChessClock, TLAPS

Places ==
    /\ current \in Runs \union {NoRun}
    /\ event \in Runs \union {NoRun}
    /\ alive \subseteq Runs

OwnEvents == watches = [r \in Runs |-> r]

OnlyCurrent == \A r \in alive: r \notin stops => r = current /\ r = event

IInv == Places /\ OwnEvents /\ OnlyCurrent

LEMMA NextRunIsFree ==
    ASSUME Runs \ alive # {}
    PROVE  NextRun \in Runs \ alive
  BY DEF NextRun

LEMMA RunsHaveNames == NoRun \notin Runs
  BY ClockNumbersAssumption DEF Runs, NoRun

\* What the invariant speaks of.
threadVars == <<current, event, watches, stops, alive>>

LEMMA StutterKeeps ==
    ASSUME IInv, UNCHANGED threadVars
    PROVE  IInv'
  BY DEF IInv, Places, OwnEvents, OnlyCurrent, threadVars

LEMMA ExitKeeps ==
    ASSUME IInv, NEW r \in Runs, Exit(r)
    PROVE  IInv'
  BY DEF IInv, Places, OwnEvents, OnlyCurrent, Exit, serviceVars

LEMMA StopKeeps ==
    ASSUME IInv, NEW p \in Callers, Stop(p)
    PROVE  IInv'
<1>1. Places' /\ OwnEvents'
  BY DEF IInv, Places, OwnEvents, Stop
<1>2. alive \subseteq stops'
  <2>1. CASE event = NoRun
    BY <2>1, RunsHaveNames DEF IInv, Places, OnlyCurrent, Stop
  <2>2. CASE event # NoRun
    BY <2>2 DEF IInv, Places, OnlyCurrent, Stop
  <2> QED BY <2>1, <2>2
<1> QED BY <1>1, <1>2 DEF IInv, OnlyCurrent, Stop

LEMMA StartKeeps ==
    ASSUME IInv, NEW p \in Callers, StartClock(p)
    PROVE  IInv'
<1>1. CASE current \in alive
  BY <1>1 DEF IInv, Places, OwnEvents, OnlyCurrent, StartClock, serviceVars
<1>2. CASE current \notin alive
  <2>1. NextRun \in Runs \ alive
    BY <1>2, NextRunIsFree DEF StartClock
  <2>2. Places' /\ OwnEvents'
    BY <1>2, <2>1 DEF IInv, Places, OwnEvents, StartClock
  <2>3. alive' = alive \union {NextRun} /\ current' = NextRun /\ event' = NextRun
    BY <1>2 DEF StartClock
  <2>4. alive \subseteq stops'
    BY <1>2, <2>1, RunsHaveNames DEF IInv, Places, OnlyCurrent, StartClock
  <2> QED BY <2>2, <2>3, <2>4 DEF IInv, OnlyCurrent
<1> QED BY <1>1, <1>2

\* Every other step leaves the threads and their events alone.
LEMMA StepKeeps ==
    ASSUME IInv, Next
    PROVE  IInv'
<1>1. CASE \E r \in Runs: Exit(r) \/ Tick(r)
  <2>1. PICK r \in Runs: Exit(r) \/ Tick(r)
    BY <1>1
  <2>2. CASE Exit(r)
    BY <2>2, ExitKeeps
  <2>3. CASE Tick(r)
    BY <2>3, StutterKeeps DEF Tick, serviceVars, threadVars
  <2> QED BY <2>1, <2>2, <2>3
<1>2. CASE Time
  BY <1>2, StutterKeeps DEF Time, Advance, serviceVars, threadVars
<1>3. CASE \E p \in Callers: Call(p)
  <2>1. PICK p \in Callers: Call(p)
    BY <1>3
  <2>2. CASE Stop(p)
    BY <2>2, StopKeeps
  <2>3. CASE StartClock(p)
    BY <2>3, StartKeeps
  <2>4. CASE Joined(p) \/ Pause(p) \/ Resume(p) \/ Configure(p) \/ Reset(p)
    BY <2>4, StutterKeeps
    DEF Joined, Pause, Resume, Configure, Reset, serviceVars, threadVars
  <2>5. CASE Baseline(p) \/ Turn(p) \/ End(p) \/ ResumeIfPlaying(p)
    BY <2>5, StutterKeeps
    DEF Baseline, Turn, End, ResumeIfPlaying, serviceVars, threadVars
  <2>6. CASE p \in Movers /\ (Credit(p) \/ Look(p) \/ Give(p))
    BY <2>6, StutterKeeps DEF Credit, Look, Give, serviceVars, threadVars
  <2> QED BY <2>1, <2>2, <2>3, <2>4, <2>5, <2>6 DEF Call
<1>4. CASE Play
  <2>1. CASE (\E p \in Movers: Move(p)) \/ Correct \/ Takeback \/ HandOver \/ NewGame \/ Task
    BY <2>1, StutterKeeps
    DEF Move, Correct, Takeback, HandOver, NewGame, Task, NothingElse, serviceVars, threadVars
  <2>2. CASE OpenMenu \/ CloseMenu \/ Suspend \/ ResumeGame \/ AppComes \/ AppLeaves
    BY <2>2, StutterKeeps
    DEF OpenMenu, CloseMenu, Suspend, ResumeGame, AppComes, AppLeaves, NothingElse,
        serviceVars, threadVars
  <2> QED BY <1>4, <2>1, <2>2 DEF Play
<1> QED BY <1>1, <1>2, <1>3, <1>4 DEF Next

LEMMA VarsHoldThreads ==
    ASSUME UNCHANGED vars
    PROVE  UNCHANGED threadVars
  BY DEF vars, serviceVars, threadVars

\* The invariant of the threads holds throughout.
THEOREM ThreadsInv == Spec => []IInv
<1>1. Init => IInv
  BY DEF Init, IInv, Places, OwnEvents, OnlyCurrent
<1>2. IInv /\ [Next]_vars => IInv'
  BY StepKeeps, StutterKeeps, VarsHoldThreads
<1> QED BY <1>1, <1>2, PTL DEF Spec

\* At most one thread counts down, for any number of threads, games, moves, menus
\* and sessions, in whatever order the clock is started and stopped.
THEOREM ClockIsCountedOnce == Spec => []OneCountdown
<1>1. IInv => OneCountdown
  BY DEF IInv, Places, OwnEvents, OnlyCurrent, OneCountdown
<1> QED BY <1>1, ThreadsInv, PTL

----------------------------------------------------------------------------
(* What each caller may have to do                                         *)

LEMMA Tuples ==
    /\ \A a: <<a>> # <<>> /\ Head(<<a>>) = a /\ Tail(<<a>>) = <<>>
    /\ \A a, b: <<a, b>> # <<>> /\ Head(<<a, b>>) = a /\ Tail(<<a, b>>) = <<b>>
    /\ \A a, b, c: /\ <<a, b, c>> # <<>>
                   /\ Head(<<a, b, c>>) = a /\ Tail(<<a, b, c>>) = <<b, c>>
    /\ \A a, b, c, d: /\ <<a, b, c, d>> # <<>>
                      /\ Head(<<a, b, c, d>>) = a /\ Tail(<<a, b, c, d>>) = <<b, c, d>>
    /\ <<>> \o <<>> = <<>> /\ \A a: <<a>> \o <<>> = <<a>>
  OBVIOUS

LEMMA Pairs == \A a, b: <<a, b>> \o <<>> = <<a, b>>
  OBVIOUS

BoardJobs == {<<>>, <<"reset">>, <<"stop", "reset">>, <<"configure", "stop", "reset">>,
              <<"stop", "configure", "stop", "reset">>}
TurnJobs == {<<>>, <<"turn">>, <<"credit">>, <<"start", "credit">>, <<"look">>,
             <<"give", "look">>}
WorkerJobs == {<<>>, <<"stop">>}
MenuJobs == {<<>>, <<"pause">>, <<"resume">>, <<"start">>, <<"stop">>}
LinkJobs == {<<>>, <<"pause">>, <<"baseline", "resume if playing">>, <<"resume if playing">>,
             <<"resume">>, <<"start">>}
FlagJobs == {<<>>, <<"end", "stop">>, <<"stop">>}
AllJobs ==
    BoardJobs \union TurnJobs \union WorkerJobs \union MenuJobs \union LinkJobs \union FlagJobs

JobsFit ==
    /\ job \in [Callers -> AllJobs]
    /\ job["board"] \in BoardJobs
    /\ \A p \in Movers: job[p] \in TurnJobs
    /\ job["worker"] \in WorkerJobs
    /\ job["menu"] \in MenuJobs
    /\ job["link"] \in LinkJobs
    /\ job["flag"] \in FlagJobs

\* Who does what, and what is left to do then.
LEMMA Duties ==
    ASSUME JobsFit, NEW p \in Callers, job[p] # <<>>
    PROVE  \/ p = "board" /\ Head(job[p]) = "reset" /\ Tail(job[p]) = <<>>
           \/ p = "board" /\ Head(job[p]) = "stop"
              /\ Tail(job[p]) \in {<<"reset">>, <<"configure", "stop", "reset">>}
           \/ p = "board" /\ Head(job[p]) = "configure" /\ Tail(job[p]) = <<"stop", "reset">>
           \/ p \in {"worker", "menu", "flag"} /\ Head(job[p]) = "stop" /\ Tail(job[p]) = <<>>
           \/ p \in Movers /\ Head(job[p]) \in {"turn", "credit", "look"} /\ Tail(job[p]) = <<>>
           \/ p \in Movers /\ Head(job[p]) = "start" /\ Tail(job[p]) = <<"credit">>
           \/ p \in Movers /\ Head(job[p]) = "give" /\ Tail(job[p]) = <<"look">>
           \/ p \in {"menu", "link"} /\ Head(job[p]) = "pause" /\ Tail(job[p]) = <<>>
           \/ p \in {"menu", "link"} /\ Head(job[p]) = "resume" /\ Tail(job[p]) = <<>>
           \/ p \in {"menu", "link"} /\ Head(job[p]) = "start" /\ Tail(job[p]) = <<>>
           \/ p = "link" /\ Head(job[p]) = "baseline" /\ Tail(job[p]) = <<"resume if playing">>
           \/ p = "link" /\ Head(job[p]) = "resume if playing" /\ Tail(job[p]) = <<>>
           \/ p = "flag" /\ Head(job[p]) = "end" /\ Tail(job[p]) = <<"stop">>
<1>1. CASE p = "board"
  <2>1. CASE job[p] = <<"reset">>
    BY <1>1, <2>1, Tuples
  <2>2. CASE job[p] = <<"stop", "reset">>
    BY <1>1, <2>2, Tuples
  <2>3. CASE job[p] = <<"configure", "stop", "reset">>
    BY <1>1, <2>3, Tuples
  <2>4. CASE job[p] = <<"stop", "configure", "stop", "reset">>
    BY <1>1, <2>4, Tuples
  <2> QED BY <1>1, <2>1, <2>2, <2>3, <2>4 DEF JobsFit, BoardJobs
<1>2. CASE p = "worker"
  <2>1. job[p] = <<"stop">>
    BY <1>2 DEF JobsFit, WorkerJobs
  <2> QED BY <1>2, <2>1, Tuples
<1>6. CASE p \in Movers
  <2>1. CASE job[p] \in {<<"turn">>, <<"credit">>, <<"look">>}
    BY <1>6, <2>1, Tuples
  <2>2. CASE job[p] = <<"start", "credit">>
    BY <1>6, <2>2, Tuples
  <2>3. CASE job[p] = <<"give", "look">>
    BY <1>6, <2>3, Tuples
  <2> QED BY <1>6, <2>1, <2>2, <2>3 DEF JobsFit, TurnJobs
<1>3. CASE p = "menu"
  BY <1>3, Tuples DEF JobsFit, MenuJobs
<1>4. CASE p = "link"
  <2>1. CASE job[p] = <<"pause">>
    BY <1>4, <2>1, Tuples
  <2>2. CASE job[p] = <<"baseline", "resume if playing">>
    <3>1. Head(job[p]) = "baseline" /\ Tail(job[p]) = <<"resume if playing">>
      BY <2>2, Tuples
    <3> QED BY <1>4, <3>1
  <2>3. CASE job[p] = <<"resume if playing">>
    BY <1>4, <2>3, Tuples
  <2>4. CASE job[p] = <<"resume">>
    BY <1>4, <2>4, Tuples
  <2>5. CASE job[p] = <<"start">>
    BY <1>4, <2>5, Tuples
  <2> QED BY <1>4, <2>1, <2>2, <2>3, <2>4, <2>5 DEF JobsFit, LinkJobs
<1>5. CASE p = "flag"
  <2>1. CASE job[p] = <<"end", "stop">>
    BY <1>5, <2>1, Tuples
  <2>2. CASE job[p] = <<"stop">>
    BY <1>5, <2>2, Tuples
  <2> QED BY <1>5, <2>1, <2>2 DEF JobsFit, FlagJobs
<1> QED BY <1>1, <1>2, <1>3, <1>4, <1>5, <1>6 DEF Callers

LEMMA Asked ==
    ASSUME JobsFit, NEW p \in Callers, NEW op, At(p, op)
    PROVE  /\ job[p] # <<>> /\ Head(job[p]) = op /\ joining[p] = NoRun
           /\ op = "reset" => p = "board" /\ Tail(job[p]) = <<>>
           /\ op = "configure" => p = "board" /\ Tail(job[p]) = <<"stop", "reset">>
           /\ op = "stop" =>
                  \/ p = "board" /\ Tail(job[p]) \in {<<"reset">>, <<"configure", "stop", "reset">>}
                  \/ p \in {"worker", "menu", "flag"} /\ Tail(job[p]) = <<>>
           /\ op \in {"turn", "credit", "look"} => p \in Movers /\ Tail(job[p]) = <<>>
           /\ op = "give" => p \in Movers /\ Tail(job[p]) = <<"look">>
           /\ op = "start" =>
                  \/ p \in Movers /\ Tail(job[p]) = <<"credit">>
                  \/ p \in {"menu", "link"} /\ Tail(job[p]) = <<>>
           /\ op \in {"pause", "resume"} => p \in {"menu", "link"} /\ Tail(job[p]) = <<>>
           /\ op = "baseline" => p = "link" /\ Tail(job[p]) = <<"resume if playing">>
           /\ op = "resume if playing" => p = "link" /\ Tail(job[p]) = <<>>
           /\ op = "end" => p = "flag" /\ Tail(job[p]) = <<"stop">>
<1>1. job[p] # <<>> /\ Head(job[p]) = op /\ joining[p] = NoRun
  BY DEF At
<1> QED BY <1>1, Duties

LEMMA Finishes ==
    ASSUME JobsFit, NEW p \in Callers, Done(p)
    PROVE  job'[p] = Tail(job[p]) /\ \A q \in Callers: q # p => job'[q] = job[q]
  BY DEF JobsFit, Done

\* One caller gets something else to do.
LEMMA OneJob ==
    ASSUME JobsFit, NEW p \in Callers, NEW j, job' = [job EXCEPT ![p] = j],
           \/ p = "board" /\ j \in BoardJobs
           \/ p \in Movers /\ j \in TurnJobs
           \/ p = "worker" /\ j \in WorkerJobs
           \/ p = "menu" /\ j \in MenuJobs
           \/ p = "link" /\ j \in LinkJobs
           \/ p = "flag" /\ j \in FlagJobs
    PROVE  /\ JobsFit'
           /\ job'[p] = j /\ \A q \in Callers: q # p => job'[q] = job[q]
<1>1. job \in [Callers -> AllJobs] /\ j \in AllJobs
  BY DEF JobsFit, AllJobs
<1>2. job' \in [Callers -> AllJobs]
  BY <1>1
<1>3. job'[p] = j /\ \A q \in Callers: q # p => job'[q] = job[q]
  BY <1>1
<1>4. Movers \union {"board", "worker", "menu", "link", "flag"} = Callers
  BY DEF Callers
<1>5. \A q \in Movers: q \notin {"board", "worker", "menu", "link", "flag"}
  BY DEF Movers
<1> QED BY <1>2, <1>3, <1>4, <1>5 DEF JobsFit

\* A caller that has done something has left what it had to do after it.
LEMMA DoneLeaves ==
    ASSUME JobsFit, NEW p \in Callers, NEW op, At(p, op), Done(p)
    PROVE  JobsFit'
<1>1. job[p] # <<>> /\ job' = [job EXCEPT ![p] = Tail(job[p])]
  BY DEF At, Done
<1>2. \/ p = "board" /\ Tail(job[p]) \in BoardJobs
      \/ p \in Movers /\ Tail(job[p]) \in TurnJobs
      \/ p = "worker" /\ Tail(job[p]) \in WorkerJobs
      \/ p = "menu" /\ Tail(job[p]) \in MenuJobs
      \/ p = "link" /\ Tail(job[p]) \in LinkJobs
      \/ p = "flag" /\ Tail(job[p]) \in FlagJobs
  <2> USE DEF BoardJobs, TurnJobs, WorkerJobs, MenuJobs, LinkJobs, FlagJobs
  <2> QED BY <1>1, Duties
<1> QED BY <1>1, <1>2, OneJob

\* A caller that has nothing else to do does what it is told.
LEMMA ThenOnly ==
    ASSUME NEW p, NEW j, ThenDo(p, j), Tail(job[p]) = <<>>, j \o <<>> = j
    PROVE  job' = [job EXCEPT ![p] = j]
  BY DEF ThenDo

LEMMA JobsStep ==
    ASSUME JobsFit, [Next]_vars
    PROVE  JobsFit'
<1> USE DEF BoardJobs, WorkerJobs, MenuJobs, LinkJobs, FlagJobs
<1>00. /\ Callers = Movers \union {"worker", "board", "menu", "link", "flag"}
       /\ Movers = {"hand", "web"}
  BY DEF Callers, Movers
<1> USE <1>00
<1>0. CASE UNCHANGED job
  BY <1>0 DEF JobsFit
<1>1. CASE \E r \in Runs: Exit(r) \/ Tick(r)
  <2>1. job' \in {job, [job EXCEPT !["flag"] = <<"end", "stop">>]}
    BY <1>1 DEF Exit, Tick, callVars
  <2> QED BY <1>0, <2>1, OneJob
<1>2. CASE Time \/ UNCHANGED vars
  BY <1>0, <1>2 DEF Time, Advance, callVars, vars
<1>3. ASSUME NEW p \in Callers, Call(p) PROVE JobsFit'
  <2>1. CASE Stop(p) \/ StartClock(p) \/ Pause(p) \/ Configure(p) \/ Reset(p)
    <3>1. Done(p) /\ \E op \in {"stop", "start", "pause", "configure", "reset"}: At(p, op)
      BY <2>1 DEF Stop, StartClock, Pause, Configure, Reset
    <3> QED BY <3>1, DoneLeaves
  <2>2. CASE Baseline(p) \/ End(p)
    <3>1. Done(p) /\ \E op \in {"baseline", "end"}: At(p, op)
      BY <2>2 DEF Baseline, End
    <3> QED BY <3>1, DoneLeaves
  <2>3. CASE Joined(p)
    BY <1>0, <2>3 DEF Joined
  <2>4. CASE Turn(p)
    <3>1. p \in Movers /\ Tail(job[p]) = <<>>
      BY <2>4, Asked DEF Turn
    <3>2. \E j \in {<<>>, <<"credit">>, <<"start", "credit">>}: ThenDo(p, j)
      BY <2>4 DEF Turn
    <3>3. PICK j \in {<<>>, <<"credit">>, <<"start", "credit">>}: ThenDo(p, j)
      BY <3>2
    <3>4. j \o <<>> = j /\ j \in TurnJobs
      BY Tuples, Pairs DEF TurnJobs
    <3>5. job' = [job EXCEPT ![p] = j]
      BY <3>1, <3>3, <3>4, ThenOnly
    <3> QED BY <3>1, <3>4, <3>5, OneJob
  <2>7. CASE Credit(p)
    <3>1. p \in Movers /\ Tail(job[p]) = <<>>
      BY <2>7, Asked DEF Credit
    <3>2. job' = [job EXCEPT ![p] = <<"look">>]
      BY <2>7, <3>1, Tuples DEF Credit, ThenDo
    <3> QED BY <3>1, <3>2, OneJob DEF TurnJobs
  <2>8. CASE Look(p)
    <3>1. p \in Movers /\ Tail(job[p]) = <<>>
      BY <2>8, Asked DEF Look
    <3>2. job' = [job EXCEPT ![p] = <<>>] \/ job' = [job EXCEPT ![p] = <<"give", "look">>]
      <4>1. Done(p) \/ ThenDo(p, <<"give", "look">>)
        BY <2>8 DEF Look
      <4> QED BY <3>1, <4>1, ThenOnly, Pairs DEF Done
    <3> QED BY <3>1, <3>2, OneJob DEF TurnJobs
  <2>9. CASE Give(p)
    <3>1. p \in Movers /\ Tail(job[p]) = <<"look">>
      BY <2>9, Asked DEF Give
    <3>2. job' = [job EXCEPT ![p] = <<"look">>]
      BY <2>9, <3>1 DEF Give, Done
    <3> QED BY <3>1, <3>2, OneJob DEF TurnJobs
  <2>5. CASE Resume(p)
    <3>1. At(p, "resume") /\ (Done(p) \/ ThenDo(p, <<"start">>))
      BY <2>5 DEF Resume
    <3>2. p \in {"menu", "link"} /\ Tail(job[p]) = <<>>
      BY <3>1, Asked
    <3>3. job' = [job EXCEPT ![p] = <<>>] \/ job' = [job EXCEPT ![p] = <<"start">>]
      BY <3>1, <3>2, Tuples DEF Done, ThenDo
    <3> QED BY <3>2, <3>3, OneJob
  <2>6. CASE ResumeIfPlaying(p)
    <3>1. p = "link" /\ Tail(job[p]) = <<>>
      BY <2>6, Asked DEF ResumeIfPlaying
    <3>2. job' = [job EXCEPT ![p] = <<>>] \/ job' = [job EXCEPT ![p] = <<"resume">>]
      BY <2>6, <3>1, Tuples DEF ResumeIfPlaying, ThenDo
    <3> QED BY <3>1, <3>2, OneJob
  <2> QED BY <1>3, <2>1, <2>2, <2>3, <2>4, <2>5, <2>6, <2>7, <2>8, <2>9 DEF Call
<1>4. CASE Play
  <2>1. CASE Takeback \/ HandOver
    BY <1>0, <2>1 DEF Takeback, HandOver, callVars
  <2>6. CASE (\E p \in Movers: Move(p)) \/ Correct
    <3>1. UNCHANGED job \/ \E p \in Movers: job' = [job EXCEPT ![p] = <<"turn">>]
      BY <2>6 DEF Move, Correct
    <3> QED BY <1>0, <3>1, OneJob DEF TurnJobs
  <2>2. CASE NewGame
    BY <2>2, OneJob DEF NewGame
  <2>3. CASE Task
    <3>1. job' = [job EXCEPT !["worker"] = <<"stop">>]
      BY <2>3 DEF Task
    <3> QED BY <3>1, OneJob
  <2>4. CASE OpenMenu \/ CloseMenu \/ Suspend \/ ResumeGame
    <3>1. \E j \in MenuJobs: job' = [job EXCEPT !["menu"] = j]
      BY <2>4 DEF OpenMenu, CloseMenu, Suspend, ResumeGame
    <3> QED BY <3>1, OneJob
  <2>5. CASE AppComes \/ AppLeaves
    <3>1. \E j \in LinkJobs: job' = [job EXCEPT !["link"] = j]
      BY <2>5 DEF AppComes, AppLeaves
    <3> QED BY <3>1, OneJob
  <2> QED BY <1>4, <2>1, <2>2, <2>3, <2>4, <2>5, <2>6 DEF Play
<1> QED BY <1>1, <1>2, <1>3, <1>4 DEF Next

\* Who calls the service does what it has to do; nobody else is given anything.
LEMMA OthersWait ==
    ASSUME JobsFit, NEW p \in Callers, Call(p), NEW q \in Callers, q # p
    PROVE  job'[q] = job[q]
<1>1. UNCHANGED job \/ \E j: job' = [job EXCEPT ![p] = j]
  <2>1. CASE Stop(p) \/ Joined(p) \/ StartClock(p) \/ Pause(p) \/ Configure(p) \/ Reset(p)
    BY <2>1 DEF Stop, Joined, StartClock, Pause, Configure, Reset, Done, callVars
  <2>2. CASE Resume(p) \/ Baseline(p) \/ Turn(p) \/ End(p) \/ ResumeIfPlaying(p)
    BY <2>2 DEF Resume, Baseline, Turn, End, ResumeIfPlaying, Done, ThenDo, callVars
  <2>3. CASE Credit(p) \/ Look(p) \/ Give(p)
    BY <2>3 DEF Credit, Look, Give, Done, ThenDo
  <2> QED BY <2>1, <2>2, <2>3 DEF Call
<1> QED BY <1>1 DEF JobsFit

\* The board's thread is asked by a new game only.
LEMMA BoardIsAsked ==
    ASSUME JobsFit, Call("board")
    PROVE  job'["board"] # <<>> => job["board"] # <<>>
<1> DEFINE p == "board"
<1>1. CASE Joined(p)
  BY <1>1 DEF Joined
<1>2. CASE ~Joined(p)
  BY <1>2 DEF Call, Stop, StartClock, Pause, Resume, Configure, Reset, Baseline, Turn, Credit,
              Look, Give, End, ResumeIfPlaying, At
<1> QED BY <1>1, <1>2

LEMMA JobsInit == Init => JobsFit
<1> SUFFICES ASSUME Init PROVE JobsFit
  OBVIOUS
<1>1. job = [p \in Callers |-> <<>>]
  BY DEF Init
<1>2. <<>> \in AllJobs
  BY DEF AllJobs, BoardJobs
<1> QED BY <1>1, <1>2
    DEF JobsFit, Callers, BoardJobs, TurnJobs, WorkerJobs, MenuJobs, LinkJobs, FlagJobs

----------------------------------------------------------------------------
(* Types                                                                   *)

TimesFit ==
    /\ now \in Nat /\ now <= MaxTime
    /\ anchor \in [Runs -> Int]
    /\ lastActive \in [Runs -> Colors \union {None}]
    /\ todo \in [Runs -> Nat]
    /\ \A r \in Runs: anchor[r] = -1 \/ (0 <= anchor[r] /\ anchor[r] <= now)
TurnsFit == forced \in Colors \union {None} /\ forcedAt \in Nat
PliesFit ==
    /\ ply \in 0..MaxPly /\ lastPly \in Nat
    /\ goal \in [Movers -> 0..MaxPly] /\ seen \in [Movers -> 0..MaxPly]
ChargesFit ==
    left \in [Colors -> Nat] /\ ran \in [Colors -> Nat] /\ spent \in [Colors -> Nat]
FlagsFit == running \in BOOLEAN /\ paused \in BOOLEAN /\ stops \subseteq Runs

TypeInv == TimesFit /\ TurnsFit /\ PliesFit /\ ChargesFit /\ FlagsFit

\* Who else changes what.
LEMMA Left ==
    ASSUME Next
    PROVE  /\ \/ Time \/ \E r \in Runs: Exit(r) \/ Tick(r)
              \/ UNCHANGED <<anchor, lastActive, todo, now, ran, spent>>
           /\ \/ \E p \in Callers: Configure(p) \/ Look(p)
              \/ (\E p \in Movers: Move(p)) \/ Takeback \/ HandOver \/ NewGame
              \/ UNCHANGED <<forced, forcedAt>>
           /\ \/ \E p \in Callers: Configure(p) \/ Reset(p) \/ Baseline(p)
              \/ \E p \in Movers: Give(p) \/ Move(p)
              \/ Takeback \/ NewGame
              \/ UNCHANGED <<ply, lastPly>>
           /\ (\E p \in Movers: Credit(p) \/ Look(p) \/ Give(p)) \/ UNCHANGED <<goal, seen>>
           /\ \/ \E p \in Callers: Configure(p) \/ Reset(p) \/ Give(p)
              \/ \E r \in Runs: Tick(r)
              \/ UNCHANGED left
           /\ \/ \E p \in Callers: Stop(p) \/ StartClock(p)
              \/ UNCHANGED <<running, stops, current, event>>
           /\ \/ \E p \in Callers: Stop(p) \/ StartClock(p) \/ Pause(p) \/ Resume(p)
                                   \/ Configure(p) \/ Reset(p)
              \/ UNCHANGED <<running, paused>>
           /\ \/ \E p \in Callers: StartClock(p)
              \/ \E r \in Runs: Exit(r)
              \/ UNCHANGED alive
<1> USE DEF flagVars, creditVars, turnVars, serviceVars, loopVars, callVars, appVars, gameVars,
            history
<1>1. CASE \E r \in Runs: Exit(r) \/ Tick(r)
  BY <1>1 DEF Exit, Tick
<1>2. CASE Time
  BY <1>2 DEF Time, Advance
<1>3. ASSUME NEW p \in Callers, Call(p)
      PROVE  /\ UNCHANGED <<anchor, lastActive, todo, now, ran, spent>>
             /\ Configure(p) \/ Look(p) \/ UNCHANGED <<forced, forcedAt>>
             /\ \/ Configure(p) \/ Reset(p) \/ Baseline(p) \/ (p \in Movers /\ Give(p))
                \/ UNCHANGED <<ply, lastPly>>
             /\ (p \in Movers /\ (Credit(p) \/ Look(p) \/ Give(p))) \/ UNCHANGED <<goal, seen>>
             /\ Configure(p) \/ Reset(p) \/ Give(p) \/ UNCHANGED left
             /\ Stop(p) \/ StartClock(p) \/ UNCHANGED <<running, stops, current, event>>
             /\ \/ Stop(p) \/ StartClock(p) \/ Pause(p) \/ Resume(p) \/ Configure(p) \/ Reset(p)
                \/ UNCHANGED <<running, paused>>
             /\ StartClock(p) \/ UNCHANGED alive
  <2>1. CASE Stop(p) \/ Joined(p) \/ StartClock(p)
    BY <2>1 DEF Stop, Joined, StartClock
  <2>2. CASE Pause(p) \/ Resume(p) \/ Configure(p) \/ Reset(p)
    BY <2>2 DEF Pause, Resume, Configure, Reset
  <2>3. CASE Baseline(p) \/ Turn(p) \/ End(p) \/ ResumeIfPlaying(p)
    BY <2>3 DEF Baseline, Turn, End, ResumeIfPlaying
  <2>4. CASE p \in Movers /\ (Credit(p) \/ Look(p) \/ Give(p))
    BY <2>4 DEF Credit, Look, Give
  <2> QED BY <1>3, <2>1, <2>2, <2>3, <2>4 DEF Call
<1>4. CASE Play
  <2>1. CASE (\E p \in Movers: Move(p)) \/ Correct \/ Takeback \/ HandOver \/ NewGame
    BY <2>1 DEF Move, Correct, Takeback, HandOver, NewGame, NothingElse
  <2>2. CASE Task
    BY <2>2 DEF Task, NothingElse
  <2>3. CASE OpenMenu \/ CloseMenu \/ Suspend \/ ResumeGame \/ AppComes \/ AppLeaves
    BY <2>3 DEF OpenMenu, CloseMenu, Suspend, ResumeGame, AppComes, AppLeaves, NothingElse
  <2> QED BY <1>4, <2>1, <2>2, <2>3 DEF Play
<1> QED BY <1>1, <1>2, <1>3, <1>4 DEF Next

LEMMA ActiveFits ==
    ASSUME TurnsFit
    PROVE  Active \in Colors \union {None} /\ (Active # None => Active \in Colors)
  BY DEF TurnsFit, Active, ToMove, Colors

\* Whole seconds, and what is left over.
LEMMA Seconds ==
    ASSUME NEW n \in Nat
    PROVE  n \div Period \in Nat /\ (n \div Period) * Period <= n
  BY ClockNumbersAssumption

\* What a thread that sees the time go on makes of it.
LEMMA Counted ==
    ASSUME TimesFit, TurnsFit, NEW r \in Runs
    PROVE  /\ Rephased(r) \in Nat /\ Rephased(r) <= now
           /\ Elapsed(r) \in Nat
           /\ Elapsed(r) * Period \in Nat
           /\ Rephased(r) + Elapsed(r) * Period <= now + 1
<1>1. anchor[r] \in Int /\ now \in Nat /\ Period \in Nat
  BY ClockNumbersAssumption DEF TimesFit
<1>2. anchor[r] = -1 \/ (0 <= anchor[r] /\ anchor[r] <= now)
  BY DEF TimesFit
<1>3. Rephased(r) \in Nat /\ Rephased(r) <= now
  BY <1>1, <1>2 DEF Rephased
<1>4. now + 1 - Rephased(r) \in Nat
  BY <1>1, <1>3
<1>5. Elapsed(r) \in Nat /\ Elapsed(r) * Period <= now + 1 - Rephased(r)
  BY <1>4, Seconds DEF Elapsed
<1>6. Elapsed(r) * Period \in Nat
  BY <1>1, <1>5
<1>7. \A x, y, z \in Nat: y <= z + 1 - x => x + y <= z + 1
  OBVIOUS
<1> QED BY <1>1, <1>3, <1>5, <1>6, <1>7

\* Time goes on, seen by S.
LEMMA Advanced ==
    ASSUME TypeInv, NEW S, Advance(S)
    PROVE  /\ now' = now + 1 /\ now' <= MaxTime
           /\ \A r \in Runs: r \notin S =>
                 anchor'[r] = anchor[r] /\ lastActive'[r] = lastActive[r] /\ todo'[r] = todo[r]
           /\ Counts =>
                 /\ \A r \in Runs: r \in S =>
                       /\ anchor'[r] = Rephased(r) + Elapsed(r) * Period
                       /\ lastActive'[r] = Active /\ todo'[r] = Elapsed(r)
                 /\ ran'[Active] = ran[Active] + 1
                 /\ \A c \in Colors: c # Active => ran'[c] = ran[c]
           /\ ~Counts =>
                 /\ \A r \in Runs: r \in S =>
                       anchor'[r] = -1 /\ lastActive'[r] = None /\ todo'[r] = todo[r]
                 /\ ran' = ran
           /\ anchor' \in [Runs -> Int]
           /\ lastActive' \in [Runs -> Colors \union {None}]
           /\ todo' \in [Runs -> Nat]
           /\ ran' \in [Colors -> Nat]
<1> USE DEF TypeInv
<1>1. now' = now + 1 /\ now' <= MaxTime
  BY ClockNumbersAssumption DEF Advance, TimesFit
<1>2. CASE Counts
  <2>1. Active \in Colors
    BY <1>2, ActiveFits DEF Counts
  <2>2. anchor' = [r \in Runs |-> IF r \in S THEN Rephased(r) + Elapsed(r) * Period
                                          ELSE anchor[r]]
    BY <1>2 DEF Advance
  <2>3. todo' = [r \in Runs |-> IF r \in S THEN Elapsed(r) ELSE todo[r]]
    BY <1>2 DEF Advance
  <2>4. lastActive' = [r \in Runs |-> IF r \in S THEN Active ELSE lastActive[r]]
    BY <1>2 DEF Advance
  <2>5. ran' = [ran EXCEPT ![Active] = @ + 1]
    BY <1>2 DEF Advance
  <2>6. \A r \in Runs: /\ Rephased(r) \in Nat /\ Elapsed(r) \in Nat
                        /\ Elapsed(r) * Period \in Nat
    BY Counted
  <2>7. \A r \in Runs: Rephased(r) + Elapsed(r) * Period \in Int
    BY <2>6
  <2>8. anchor' \in [Runs -> Int]
    BY <2>2, <2>7 DEF TimesFit
  <2>9. todo' \in [Runs -> Nat]
    BY <2>3, <2>6 DEF TimesFit
  <2>10. lastActive' \in [Runs -> Colors \union {None}]
    BY <2>4, <2>1 DEF TimesFit
  <2>11. /\ ran' \in [Colors -> Nat] /\ ran'[Active] = ran[Active] + 1
         /\ \A c \in Colors: c # Active => ran'[c] = ran[c]
    BY <2>1, <2>5 DEF ChargesFit
  <2> QED BY <1>1, <1>2, <2>2, <2>3, <2>4, <2>8, <2>9, <2>10, <2>11
<1>3. CASE ~Counts
  BY <1>1, <1>3 DEF Advance, TimesFit, ChargesFit
<1> QED BY <1>2, <1>3

LEMMA AdvanceTimes ==
    ASSUME TypeInv, NEW S, Advance(S)
    PROVE  TimesFit' /\ ChargesFit'
<1>1. now \in Nat /\ now' = now + 1 /\ now' \in Nat /\ now' <= MaxTime
  BY Advanced DEF TypeInv, TimesFit
<1>2. ASSUME NEW r \in Runs
      PROVE  anchor'[r] = -1 \/ (0 <= anchor'[r] /\ anchor'[r] <= now')
  <2>1. CASE r \notin S
    BY <1>1, <2>1, Advanced DEF TypeInv, TimesFit
  <2>2. CASE r \in S /\ ~Counts
    BY <2>2, Advanced
  <2>3. CASE r \in S /\ Counts
    <3>1. anchor'[r] = Rephased(r) + Elapsed(r) * Period
      BY <2>3, Advanced
    <3> QED BY <1>1, <3>1, Counted DEF TypeInv
  <2> QED BY <2>1, <2>2, <2>3
<1>3. TimesFit'
  BY <1>1, <1>2, Advanced DEF TimesFit
<1>4. spent' = spent /\ left' = left
  BY DEF Advance
<1> QED BY <1>3, <1>4, Advanced DEF ChargesFit, TypeInv

LEMMA TimesStep ==
    ASSUME TypeInv, Next
    PROVE  TimesFit'
<1> USE DEF TypeInv
<1>1. CASE UNCHANGED <<anchor, lastActive, todo, now, ran, spent>>
  BY <1>1 DEF TimesFit
<1>2. ASSUME NEW r \in Runs, Exit(r) PROVE TimesFit'
  BY <1>2 DEF Exit, TimesFit
<1>3. ASSUME NEW r \in Runs, Tick(r) PROVE TimesFit'
  BY <1>3 DEF Tick, TimesFit
<1>4. ASSUME NEW S, Advance(S) PROVE TimesFit'
  BY <1>4, AdvanceTimes
<1> QED BY <1>1, <1>2, <1>3, <1>4, Left DEF Time

LEMMA TurnsStep ==
    ASSUME TypeInv, Next
    PROVE  TurnsFit'
<1> USE DEF TypeInv, TurnsFit
<1>1. CASE UNCHANGED <<forced, forcedAt>>
  BY <1>1
<1>2. ASSUME NEW c, KeepForced(c) PROVE TurnsFit'
  BY <1>2 DEF KeepForced
<1>3. CASE \E p \in Callers: Configure(p)
  BY <1>3 DEF Configure
<1>4. CASE (\E p \in Callers: Look(p)) \/ (\E p \in Movers: Move(p)) \/ Takeback \/ NewGame
  BY <1>1, <1>2, <1>4 DEF Look, Move, Takeback, NewGame, turnVars
<1>5. CASE HandOver
  BY <1>5, ClockNumbersAssumption DEF HandOver, Mover, Colors, TimesFit
<1> QED BY <1>1, <1>3, <1>4, <1>5, Left

LEMMA CountsStep ==
    ASSUME TypeInv, Next
    PROVE  goal' \in [Movers -> 0..MaxPly] /\ seen' \in [Movers -> 0..MaxPly]
<1> USE DEF TypeInv, PliesFit
<1>0. MaxPly \in Nat /\ 0 \in 0..MaxPly
  BY ClockNumbersAssumption
<1>1. CASE UNCHANGED <<goal, seen>>
  BY <1>1
<1>2. ASSUME NEW p \in Movers, Credit(p) PROVE goal' \in [Movers -> 0..MaxPly] /\ seen' = seen
  BY <1>2 DEF Credit
<1>3. ASSUME NEW p \in Movers, Look(p)
      PROVE  goal' \in [Movers -> 0..MaxPly] /\ seen' \in [Movers -> 0..MaxPly]
  <2>1. CASE lastPly < goal[p]
    <3>1. lastPly \in 0..MaxPly
      <4>1. goal[p] \in 0..MaxPly
        OBVIOUS
      <4> QED BY <1>0, <2>1, <4>1
    <3> QED BY <1>3, <2>1, <3>1 DEF Look
  <2>2. CASE ~(lastPly < goal[p])
    BY <1>0, <1>3, <2>2 DEF Look
  <2> QED BY <2>1, <2>2
<1>4. ASSUME NEW p \in Movers, Give(p) PROVE goal' = goal /\ seen' \in [Movers -> 0..MaxPly]
  BY <1>0, <1>4 DEF Give
<1> QED BY <1>1, <1>2, <1>3, <1>4, Left

LEMMA PliesStep ==
    ASSUME TypeInv, Next
    PROVE  PliesFit'
<1>0. /\ ply \in Nat /\ MaxPly \in Nat /\ ply <= MaxPly /\ lastPly \in Nat
      /\ ply \in 0..MaxPly
  BY ClockNumbersAssumption DEF TypeInv, PliesFit
<1>7. SUFFICES ply' \in 0..MaxPly /\ lastPly' \in Nat
  BY CountsStep DEF PliesFit
<1>1. CASE UNCHANGED <<ply, lastPly>>
  BY <1>0, <1>1
<1>2. ASSUME NEW p \in Callers, Configure(p) \/ Reset(p) \/ Baseline(p)
      PROVE  ply' = ply /\ lastPly' = ply
  BY <1>2 DEF Configure, Reset, Baseline, gameVars
<1>3. ASSUME NEW p \in Movers, Give(p) PROVE ply' = ply /\ lastPly' = lastPly + 1
  BY <1>3 DEF Give, gameVars
<1>4. ASSUME NEW p \in Movers, Move(p) PROVE ply' \in 0..MaxPly /\ lastPly' = lastPly
  BY <1>0, <1>4 DEF Move, NothingElse
<1>5. CASE Takeback
  BY <1>0, <1>5 DEF Takeback, NothingElse
<1>6. CASE NewGame
  BY <1>0, <1>6 DEF NewGame, NothingElse
<1> QED BY <1>0, <1>1, <1>2, <1>3, <1>4, <1>5, <1>6, Left

LEMMA ChargesStep ==
    ASSUME TypeInv, Next
    PROVE  ChargesFit'
<1> USE DEF TypeInv
<1>0. Start \in Nat /\ Increment \in Nat
  BY ClockNumbersAssumption
<1>1. ASSUME NEW r \in Runs, Tick(r) PROVE ChargesFit'
  <2> DEFINE m == IF left[Active] = 0 THEN 0 ELSE left[Active] - 1
  <2>1. CASE Active = None
    BY <1>1, <2>1 DEF Tick, ChargesFit
  <2>2. CASE Active # None
    <3>1. Active \in Colors /\ left[Active] \in Nat
      BY <2>2, ActiveFits DEF ChargesFit
    <3>2. m \in Nat
      BY <3>1
    <3>3. left' = [left EXCEPT ![Active] = m] /\ spent' = [spent EXCEPT ![Active] = @ + 1]
      BY <1>1, <2>2, <3>1 DEF Tick, ChargesFit
    <3> HIDE DEF m
    <3>4. left' \in [Colors -> Nat]
      BY <3>2, <3>3 DEF ChargesFit
    <3>5. spent' \in [Colors -> Nat]
      BY <3>1, <3>3 DEF ChargesFit
    <3> QED BY <1>1, <3>4, <3>5 DEF ChargesFit, Tick
  <2> QED BY <2>1, <2>2
<1>2. CASE UNCHANGED <<anchor, lastActive, todo, now, ran, spent>>
  <2>1. CASE left' = left
    BY <1>2, <2>1 DEF ChargesFit
  <2>2. ASSUME NEW p \in Callers, Configure(p) \/ Reset(p) PROVE ChargesFit'
    BY <1>0, <1>2, <2>2 DEF ChargesFit, Configure, Reset
  <2>3. ASSUME NEW p \in Callers, Give(p) PROVE ChargesFit'
    <3> DEFINE c == Mover(seen[p] + 1)
    <3>0. c \in Colors
      BY DEF Mover, Colors
    <3>1. left' = [left EXCEPT ![c] = @ + Increment]
      BY <2>3 DEF Give
    <3> HIDE DEF c
    <3>2. left' \in [Colors -> Nat]
      BY <1>0, <3>0, <3>1 DEF ChargesFit
    <3> QED BY <1>2, <3>2 DEF ChargesFit
  <2> QED BY <1>1, <2>1, <2>2, <2>3, Left
<1>3. ASSUME NEW r \in Runs, Exit(r) PROVE ChargesFit'
  BY <1>3 DEF Exit, ChargesFit, history
<1>4. CASE Time
  BY <1>4, AdvanceTimes DEF Time
<1> QED BY <1>2, <1>3, <1>1, <1>4, Left

LEMMA FlagsStep ==
    ASSUME TypeInv, IInv, Next
    PROVE  FlagsFit'
<1> USE DEF TypeInv, FlagsFit, IInv, Places
<1>1. CASE UNCHANGED <<running, paused, stops>>
  BY <1>1
<1>2. ASSUME NEW p \in Callers, Stop(p) PROVE FlagsFit'
  BY <1>2 DEF Stop, NoRun
<1>3. ASSUME NEW p \in Callers, StartClock(p) PROVE FlagsFit'
  <2>1. stops' \subseteq Runs
    BY <1>3 DEF StartClock, NoRun, serviceVars
  <2> QED BY <1>3, <2>1 DEF StartClock
<1>4. ASSUME NEW p \in Callers, Pause(p) \/ Configure(p) \/ Reset(p) PROVE FlagsFit'
  BY <1>4 DEF Pause, Configure, Reset
<1>5. ASSUME NEW p \in Callers, Resume(p) PROVE FlagsFit'
  BY <1>5 DEF Resume
<1> QED BY <1>1, <1>2, <1>3, <1>4, <1>5, Left

LEMMA TypeStep ==
    ASSUME TypeInv, IInv, [Next]_vars
    PROVE  TypeInv'
<1>1. CASE Next
  BY <1>1, TimesStep, TurnsStep, PliesStep, ChargesStep, FlagsStep DEF TypeInv
<1>2. CASE UNCHANGED vars
  BY <1>2 DEF vars, flagVars, creditVars, turnVars, serviceVars, loopVars, callVars, appVars,
              gameVars, history, TypeInv, TimesFit, TurnsFit, PliesFit, ChargesFit, FlagsFit
<1> QED BY <1>1, <1>2

LEMMA TypeInit == Init => TypeInv
<1> SUFFICES ASSUME Init PROVE TypeInv
  OBVIOUS
<1>1. MaxTime \in Nat /\ MaxPly \in Nat /\ Start \in Nat
  BY ClockNumbersAssumption
<1>2. TimesFit
  BY <1>1 DEF Init, TimesFit
<1>3. TurnsFit
  BY DEF Init, TurnsFit
<1>4. PliesFit
  BY <1>1 DEF Init, PliesFit
<1>5. FlagsFit
  BY DEF Init, FlagsFit
<1>6. ChargesFit
  BY <1>1 DEF Init, ChargesFit
<1> QED BY <1>2, <1>3, <1>4, <1>5, <1>6 DEF TypeInv

\* The types hold, together with what each caller may have to do.
THEOREM TypesInv == Spec => [](TypeInv /\ JobsFit /\ IInv)
<1>1. Init => TypeInv /\ JobsFit
  BY TypeInit, JobsInit
<1>2. TypeInv /\ JobsFit /\ IInv /\ [Next]_vars => TypeInv' /\ JobsFit'
  BY TypeStep, JobsStep
<1> QED BY <1>1, <1>2, ThreadsInv, PTL DEF Spec

\* Every variable keeps its type: no count goes below zero, no anchor lies ahead of
\* the time, no ply past the board's.
THEOREM TypeCorrect == Spec => []TypeOK
<1>1. TypeInv /\ IInv => TypeOK
  <2>1. TypeInv /\ IInv => now \in 0..MaxTime
    BY ClockNumbersAssumption DEF TypeInv, TimesFit
  <2> QED BY <2>1 DEF TypeInv, TimesFit, TurnsFit, PliesFit, ChargesFit, FlagsFit, IInv, Places,
              OwnEvents, TypeOK
<1> QED BY <1>1, TypesInv, PTL

----------------------------------------------------------------------------
(* A side is charged for its own time                                      *)

\* What a thread counts was its side's: the seconds that side was charged with, those
\* the thread has still to count and the time since its anchor are no more than the
\* side's clock was to run.
Charged(r) ==
    /\ lastActive[r] \in Colors
    /\ (spent[lastActive[r]] + todo[r]) * Period + (now - anchor[r]) <= ran[lastActive[r]]

Anchored == {r \in Runs: anchor[r] # -1}

\* Only a thread that runs counts, and one at a time; its ticks are for the side whose
\* clock counts now.
CountsAlone ==
    /\ Anchored \subseteq alive
    /\ \A r, q \in Anchored: r = q
    /\ \A r \in Runs: todo[r] > 0 => r \in Anchored /\ lastActive[r] = Active
    /\ job["board"] # <<>> => \A r \in Runs: todo[r] = 0

CountInv ==
    /\ OwnTime
    /\ \A r \in Anchored: Charged(r)
    /\ CountsAlone

\* A thread is busy with its ticks, the others wait for them: no move is shown, no app
\* and no new game comes meanwhile.
Punctual == "slow" \notin Conditions /\ "hurry" \notin Conditions

LEMMA CountInit == Init => CountInv
<1> SUFFICES ASSUME Init PROVE CountInv
  OBVIOUS
<1>1. Anchored = {} /\ \A r \in Runs: todo[r] = 0
  BY DEF Init, Anchored
<1>2. OwnTime
  BY ClockNumbersAssumption DEF Init, OwnTime
<1> QED BY <1>1, <1>2 DEF CountInv, CountsAlone

\* Nothing changes but the side whose clock counts, and that only when no thread is
\* busy.
LEMMA CountFrame ==
    ASSUME CountInv, UNCHANGED <<anchor, lastActive, todo, now, ran, spent>>,
           alive \subseteq alive',
           job'["board"] # <<>> => job["board"] # <<>> \/ \A r \in Runs: todo[r] = 0,
           Active' = Active \/ \A r \in Runs: todo[r] = 0
    PROVE  CountInv'
<1>1. Anchored' = Anchored /\ OwnTime'
  BY DEF Anchored, OwnTime, CountInv
<1>2. \A r \in Anchored: Charged(r)'
  BY DEF CountInv, Charged
<1>3. CountsAlone'
  <2>1. \A r \in Runs: todo[r] > 0 => lastActive[r] = Active'
    BY DEF CountInv, CountsAlone
  <2> QED BY <1>1, <2>1 DEF CountInv, CountsAlone
<1> QED BY <1>1, <1>2, <1>3 DEF CountInv

\* Between its ticks, a thread has none left to make.
LEMMA PromptIsIdle ==
    ASSUME Punctual, CountInv, TypeInv, Prompt
    PROVE  \A r \in Runs: todo[r] = 0
<1> SUFFICES ASSUME NEW r \in Runs, todo[r] # 0 PROVE FALSE
  OBVIOUS
<1>1. todo[r] \in Nat /\ todo[r] > 0
  BY DEF TypeInv, TimesFit
<1>2. r \in alive
  BY <1>1 DEF CountInv, CountsAlone
<1> QED BY <1>1, <1>2 DEF Prompt, Punctual

\* A hand-over that has been reached ends without a change of the side that counts.
LEMMA KeptForced ==
    ASSUME KeepForced(ToMove), ply' = ply, now' = now, TurnsFit
    PROVE  Active' = Active
<1>1. ToMove' = ToMove /\ ToMove # None
  BY ColorsAssumption DEF ToMove, Colors
<1>2. CASE forced = ToMove
  BY <1>1, <1>2 DEF KeepForced, Active
<1>3. CASE forced # ToMove
  BY <1>1, <1>3 DEF KeepForced, Active
<1> QED BY <1>2, <1>3

LEMMA CountExit ==
    ASSUME Punctual, CountInv, TypeInv, NEW r \in Runs, Exit(r)
    PROVE  CountInv'
<1>1. /\ anchor'[r] = -1 /\ \A q \in Runs: q # r => anchor'[q] = anchor[q]
      /\ \A q \in Runs: q # r => lastActive'[q] = lastActive[q]
      /\ todo[r] = 0 /\ alive' = alive \ {r}
  BY DEF Exit, TypeInv, TimesFit
<1>2. UNCHANGED <<todo, now, ran, spent, forced, forcedAt, ply, job>>
  BY DEF Exit, history, turnVars, gameVars, callVars
<1>3. Active' = Active
  BY <1>2 DEF Active, ToMove
<1>4. Anchored' = Anchored \ {r}
  BY <1>1 DEF Anchored
<1>5. OwnTime'
  BY <1>2 DEF CountInv, OwnTime
<1>6. ASSUME NEW q \in Anchored' PROVE Charged(q)'
  <2>1. q \in Runs /\ q # r /\ Charged(q)
    BY <1>4 DEF CountInv, Anchored
  <2> QED BY <1>1, <1>2, <2>1 DEF Charged
<1>7. CountsAlone'
  BY <1>1, <1>2, <1>3, <1>4 DEF CountInv, CountsAlone, Anchored
<1> QED BY <1>5, <1>6, <1>7 DEF CountInv

LEMMA OneSecond ==
    ASSUME NEW s \in Nat, NEW t \in Nat, t > 0, NEW P \in Nat, NEW w \in Nat, NEW a \in Nat,
           (s + t) * P + w <= a
    PROVE  /\ (s + 1 + (t - 1)) * P + w <= a
           /\ (s + 1) * P <= a
<1>1. s + 1 + (t - 1) = s + t
  OBVIOUS
<1>2. PICK u \in Nat: t = u + 1
  <2>1. t - 1 \in Nat /\ t = (t - 1) + 1
    OBVIOUS
  <2> QED BY <2>1
<1>3. (s + t) * P = (s + 1) * P + u * P
  BY <1>2
<1>4. u * P \in Nat /\ (s + 1) * P \in Nat /\ (s + t) * P \in Nat
  OBVIOUS
<1>5. \A x, y, z, v \in Nat: x = y + z /\ x + v <= a => y <= a
  OBVIOUS
<1>6. (s + 1) * P <= a
  BY <1>3, <1>4, <1>5
<1> QED BY <1>1, <1>6

LEMMA CountTick ==
    ASSUME Punctual, CountInv, TypeInv, JobsFit, NEW r \in Runs, Tick(r)
    PROVE  CountInv'
<1>1. UNCHANGED <<anchor, lastActive, now, ran, forced, forcedAt, ply, alive>>
  BY DEF Tick, turnVars, gameVars
<1>2. Active' = Active
  BY <1>1 DEF Active, ToMove
<1>3. todo[r] \in Nat /\ todo[r] > 0 /\ r \in Anchored /\ lastActive[r] = Active /\ Charged(r)
  BY DEF Tick, TypeInv, TimesFit, CountInv, CountsAlone
<1>4. /\ todo'[r] = todo[r] - 1 /\ \A q \in Runs: q # r => todo'[q] = todo[q]
  BY DEF Tick, TypeInv, TimesFit
<1>5. Active \in Colors /\ Active # None
  BY <1>3, ColorsAssumption DEF Charged
<1>6. spent' = [spent EXCEPT ![Active] = @ + 1]
  BY <1>5 DEF Tick
<1>7. spent'[Active] = spent[Active] + 1 /\ \A c \in Colors: c # Active => spent'[c] = spent[c]
  BY <1>5, <1>6 DEF TypeInv, ChargesFit
<1>8. \A q \in Anchored: q = r
  BY <1>3 DEF CountInv, CountsAlone
<1>9. Anchored' = Anchored
  BY <1>1 DEF Anchored
<1>10. /\ spent[Active] \in Nat /\ ran[Active] \in Nat /\ Period \in Nat
       /\ now - anchor[r] \in Nat
       /\ (spent[Active] + todo[r]) * Period + (now - anchor[r]) <= ran[Active]
  BY <1>3, <1>5, ClockNumbersAssumption DEF TypeInv, ChargesFit, TimesFit, Charged, Anchored
<1>11. /\ (spent[Active] + 1 + (todo[r] - 1)) * Period + (now - anchor[r]) <= ran[Active]
       /\ (spent[Active] + 1) * Period <= ran[Active]
  <2>1. \A s, t, P, w, a \in Nat:
          t > 0 /\ (s + t) * P + w <= a =>
            (s + 1 + (t - 1)) * P + w <= a /\ (s + 1) * P <= a
    BY OneSecond
  <2> QED BY <1>3, <1>10, <2>1, Zenon
<1>12. OwnTime'
  BY <1>1, <1>7, <1>11 DEF OwnTime, CountInv
<1>13. Charged(r)'
  BY <1>1, <1>3, <1>4, <1>5, <1>7, <1>11 DEF Charged
<1>14. job'["board"] = job["board"]
  BY DEF Tick, JobsFit, Callers
<1>15. CountsAlone'
  <2>1. job'["board"] # <<>> => \A q \in Runs: todo[q] = 0
    BY <1>14 DEF CountInv, CountsAlone
  <2>2. job'["board"] = <<>>
    BY <1>3, <2>1
  <2>3. \A q \in Runs: todo'[q] > 0 => q \in Anchored /\ lastActive[q] = Active
    BY <1>3, <1>4 DEF CountInv, CountsAlone
  <2> QED BY <1>1, <1>2, <1>9, <2>2, <2>3 DEF CountInv, CountsAlone
<1> QED BY <1>8, <1>9, <1>12, <1>13, <1>15 DEF CountInv

LEMMA WholeSeconds ==
    ASSUME NEW s \in Nat, NEW e \in Nat, NEW P \in Nat, NEW n \in Nat, NEW b \in Nat,
           NEW a \in Nat, s * P + (n - b) <= a
    PROVE  (s + e) * P + (n + 1 - (b + e * P)) <= a + 1
<1>1. (s + e) * P = s * P + e * P
  OBVIOUS
<1>2. s * P \in Nat /\ e * P \in Nat
  OBVIOUS
<1>3. \A x, y \in Nat: x + (n - b) <= a => x + y + (n + 1 - (b + y)) <= a + 1
  OBVIOUS
<1> QED BY <1>1, <1>2, <1>3

LEMMA CountTime ==
    ASSUME Punctual, CountInv, TypeInv, IInv, Time
    PROVE  CountInv'
<1>1. Advance(alive) /\ alive = Idle /\ job["board"] = <<>>
  BY DEF Time, Punctual, Idle, Free
<1>2. \A r \in alive: r \in Runs /\ r = current /\ todo[r] = 0
  BY <1>1 DEF Idle, IInv, Places, OwnEvents, OnlyCurrent
<1>3. \A r \in Runs: todo[r] = 0
  BY <1>2 DEF CountInv, CountsAlone, Anchored, TypeInv, TimesFit
<1>4. UNCHANGED <<alive, job, spent, forced, forcedAt, ply>>
  BY <1>1 DEF Advance, callVars, turnVars, gameVars
<1>5. now \in Nat /\ now' = now + 1 /\ Period \in Nat
  BY <1>1, Advanced, ClockNumbersAssumption DEF TypeInv, TimesFit
<1>6. Anchored' \subseteq alive
  BY <1>1, Advanced DEF Anchored, CountInv, CountsAlone
<1>7. \A r, q \in Anchored': r = q
  BY <1>2, <1>6
<1>8. CASE Counts
  <2>1. Active \in Colors /\ Active # None
    BY <1>8, ActiveFits DEF Counts, TypeInv
  <2>2. Active' = Active
    <3>1. ToMove' = ToMove
      BY <1>4 DEF ToMove
    <3>2. CASE forced = None \/ forced = ToMove
      BY <1>4, <3>1, <3>2 DEF Active
    <3>3. CASE ~(forced = None \/ forced = ToMove)
      <4>1. ~(now < forcedAt)
        BY <2>1, <3>3 DEF Active
      <4>2. ~(now + 1 < forcedAt)
        BY <1>5, <4>1 DEF TypeInv, TurnsFit
      <4> QED BY <1>4, <1>5, <3>1, <3>3, <4>1, <4>2 DEF Active
    <3> QED BY <3>2, <3>3
  <2>3. ran'[Active] = ran[Active] + 1 /\ \A c \in Colors: c # Active => ran'[c] = ran[c]
    BY <1>1, <1>8, Advanced
  <2>4. \A c \in Colors: spent[c] \in Nat /\ ran[c] \in Nat /\ spent[c] * Period \in Nat
    BY <1>5 DEF TypeInv, ChargesFit
  <2>5. \A c \in Colors: ran[c] <= ran'[c] /\ ran'[c] \in Nat
    BY <2>3, <2>4
  <2>6. OwnTime'
    <3>1. \A x, y, z \in Nat: x <= y /\ y <= z => x <= z
      OBVIOUS
    <3> QED BY <1>4, <2>4, <2>5, <3>1 DEF CountInv, OwnTime
  <2>7. ASSUME NEW r \in Anchored' PROVE Charged(r)'
    <3>1. r \in alive /\ r \in Runs /\ todo[r] = 0
      BY <1>2, <1>6
    <3>2. /\ anchor'[r] = Rephased(r) + Elapsed(r) * Period
          /\ lastActive'[r] = Active /\ todo'[r] = Elapsed(r)
      BY <1>1, <1>8, <3>1, Advanced
    <3>3. Rephased(r) \in Nat /\ Elapsed(r) \in Nat
      BY <3>1, Counted DEF TypeInv
    <3>4. spent[Active] * Period + (now - Rephased(r)) <= ran[Active]
      <4>1. CASE anchor[r] = -1 \/ lastActive[r] # Active
        <5>1. Rephased(r) = now
          BY <4>1 DEF Rephased
        <5>2. spent[Active] * Period <= ran[Active]
          BY <2>1 DEF CountInv, OwnTime
        <5>3. now - now = 0 /\ \A x \in Nat: x + 0 = x
          BY <1>5
        <5> QED BY <2>1, <2>4, <5>1, <5>2, <5>3
      <4>2. CASE ~(anchor[r] = -1 \/ lastActive[r] # Active)
        <5>1. Rephased(r) = anchor[r]
          BY <4>2 DEF Rephased
        <5>2. (spent[Active] + 0) * Period + (now - anchor[r]) <= ran[Active]
          BY <3>1, <4>2 DEF CountInv, Charged, Anchored
        <5>3. spent[Active] + 0 = spent[Active]
          BY <2>1, <2>4
        <5> QED BY <5>1, <5>2, <5>3
      <4> QED BY <4>1, <4>2
    <3>5. (spent[Active] + Elapsed(r)) * Period + (now + 1 - (Rephased(r) + Elapsed(r) * Period))
            <= ran[Active] + 1
      <4>1. \A s, e, P, n, b, a \in Nat:
              s * P + (n - b) <= a => (s + e) * P + (n + 1 - (b + e * P)) <= a + 1
        BY WholeSeconds
      <4>2. spent[Active] \in Nat /\ ran[Active] \in Nat
        BY <2>1, <2>4
      <4> QED BY <1>5, <3>3, <3>4, <4>1, <4>2, Zenon
    <3>6. /\ (spent'[lastActive'[r]] + todo'[r]) * Period + (now' - anchor'[r]) =
               (spent[Active] + Elapsed(r)) * Period
                  + (now + 1 - (Rephased(r) + Elapsed(r) * Period))
          /\ ran'[lastActive'[r]] = ran[Active] + 1
          /\ lastActive'[r] \in Colors
      <4>1. /\ spent' = spent /\ now' = now + 1
            /\ anchor'[r] = Rephased(r) + Elapsed(r) * Period
            /\ lastActive'[r] = Active /\ todo'[r] = Elapsed(r)
        BY <1>4, <1>5, <3>2
      <4>2. ran'[lastActive'[r]] = ran[Active] + 1 /\ lastActive'[r] \in Colors
        BY <2>1, <2>3, <4>1
      <4>3. (spent'[lastActive'[r]] + todo'[r]) * Period =
               (spent[Active] + Elapsed(r)) * Period
        <5>1. spent'[lastActive'[r]] = spent[Active] /\ todo'[r] = Elapsed(r)
          BY <4>1
        <5>2. spent'[lastActive'[r]] + todo'[r] = spent[Active] + Elapsed(r)
          BY <5>1
        <5> QED BY <5>2
      <4>4. now' - anchor'[r] = now + 1 - (Rephased(r) + Elapsed(r) * Period)
        <5> DEFINE b == Rephased(r) + Elapsed(r) * Period
        <5>1. anchor'[r] = b /\ now' = now + 1 /\ now \in Nat /\ b \in Int
          BY <1>5, <3>3, <4>1
        <5> HIDE DEF b
        <5>2. now' - anchor'[r] = now + 1 - b
          BY <5>1
        <5> QED BY <5>2 DEF b
      <4> QED BY <4>2, <4>3, <4>4
    <3>7. (spent'[lastActive'[r]] + todo'[r]) * Period + (now' - anchor'[r])
             <= ran'[lastActive'[r]]
      BY <3>5, <3>6
    <3> QED BY <3>6, <3>7 DEF Charged
  <2>8. CountsAlone'
    <3>1. ASSUME NEW r \in Runs, todo'[r] > 0 PROVE r \in Anchored' /\ lastActive'[r] = Active
      <4>1. r \in alive
        BY <1>1, <1>3, <3>1, Advanced
      <4>2. /\ anchor'[r] = Rephased(r) + Elapsed(r) * Period
            /\ lastActive'[r] = Active
        BY <1>1, <1>8, <4>1, Advanced
      <4>3. anchor'[r] # -1
        BY <4>2, Counted DEF TypeInv
      <4> QED BY <4>2, <4>3 DEF Anchored
    <3> QED BY <1>1, <1>4, <1>6, <1>7, <2>2, <3>1 DEF CountsAlone
  <2> QED BY <2>6, <2>7, <2>8 DEF CountInv
<1>9. CASE ~Counts
  <2>1. Anchored' = {}
    BY <1>1, <1>6, <1>9, Advanced DEF Anchored
  <2>2. \A r \in Runs: todo'[r] = 0
    BY <1>1, <1>3, <1>9, Advanced
  <2>3. OwnTime'
    BY <1>1, <1>4, <1>9, Advanced DEF CountInv, OwnTime
  <2> QED BY <1>1, <1>4, <2>1, <2>2, <2>3 DEF CountInv, CountsAlone
<1> QED BY <1>8, <1>9

\* What the service is asked to do leaves the threads' ticks alone.
LEMMA CountCall ==
    ASSUME Punctual, CountInv, TypeInv, JobsFit, IInv, NEW p \in Callers, Call(p)
    PROVE  CountInv'
<1>1. UNCHANGED <<anchor, lastActive, todo, now, ran, spent, ply>>
  <2>1. CASE Stop(p) \/ Joined(p) \/ StartClock(p) \/ Pause(p)
    BY <2>1 DEF Stop, Joined, StartClock, Pause, loopVars, history, gameVars
  <2>2. CASE Resume(p) \/ Configure(p) \/ Reset(p) \/ Baseline(p)
    BY <2>2 DEF Resume, Configure, Reset, Baseline, loopVars, history, gameVars
  <2>3. CASE Turn(p) \/ End(p) \/ ResumeIfPlaying(p)
    BY <2>3 DEF Turn, End, ResumeIfPlaying, loopVars, history, gameVars
  <2>4. CASE Credit(p) \/ Look(p) \/ Give(p)
    BY <2>4 DEF Credit, Look, Give, loopVars, history, gameVars
  <2> QED BY <2>1, <2>2, <2>3, <2>4 DEF Call
<1>2. alive \subseteq alive'
  <2>1. CASE StartClock(p)
    BY <2>1 DEF StartClock
  <2>2. CASE Stop(p) \/ Joined(p) \/ Pause(p) \/ Resume(p) \/ Configure(p) \/ Reset(p)
    BY <2>2 DEF Stop, Joined, Pause, Resume, Configure, Reset
  <2>3. CASE Baseline(p) \/ Turn(p) \/ End(p) \/ ResumeIfPlaying(p)
    BY <2>3 DEF Baseline, Turn, End, ResumeIfPlaying
  <2>4. CASE Credit(p) \/ Look(p) \/ Give(p)
    BY <2>4 DEF Credit, Look, Give
  <2> QED BY <2>1, <2>2, <2>3, <2>4 DEF Call
<1>3. job'["board"] # <<>> => job["board"] # <<>>
  <2>1. CASE p = "board"
    BY <2>1, BoardIsAsked
  <2>2. CASE p # "board"
    BY <2>2, OthersWait DEF Callers
  <2> QED BY <2>1, <2>2
<1>4. Active' = Active \/ \A r \in Runs: todo[r] = 0
  <2>1. CASE Configure(p)
    <3>1. p = "board" /\ job[p] # <<>>
      BY <2>1, Asked DEF Configure
    <3> QED BY <3>1 DEF CountInv, CountsAlone
  <2>2. CASE Look(p)
    <3>1. KeepForced(ToMove) \/ UNCHANGED <<forced, forcedAt>>
      BY <2>2 DEF Look, turnVars
    <3>2. CASE KeepForced(ToMove)
      BY <1>1, <3>2, KeptForced DEF TypeInv
    <3>3. CASE UNCHANGED <<forced, forcedAt>>
      BY <1>1, <3>3 DEF Active, ToMove
    <3> QED BY <3>1, <3>2, <3>3
  <2>3. CASE UNCHANGED <<forced, forcedAt>>
    BY <1>1, <2>3 DEF Active, ToMove
  <2>4. Configure(p) \/ Look(p) \/ UNCHANGED <<forced, forcedAt>>
    <3>1. CASE Stop(p) \/ Joined(p) \/ StartClock(p) \/ Pause(p) \/ Resume(p) \/ Reset(p)
      BY <3>1 DEF Stop, Joined, StartClock, Pause, Resume, Reset, turnVars
    <3>2. CASE Baseline(p) \/ Turn(p) \/ End(p) \/ ResumeIfPlaying(p)
      BY <3>2 DEF Baseline, Turn, End, ResumeIfPlaying, turnVars
    <3>3. CASE Credit(p) \/ Give(p)
      BY <3>3 DEF Credit, Give, turnVars
    <3> QED BY <3>1, <3>2, <3>3 DEF Call
  <2> QED BY <2>1, <2>2, <2>3, <2>4
<1> QED BY <1>1, <1>2, <1>3, <1>4, CountFrame

\* The game and its callers: the side to move changes between a thread's ticks only.
LEMMA CountPlay ==
    ASSUME Punctual, CountInv, TypeInv, JobsFit, IInv, Play
    PROVE  CountInv'
<1>1. UNCHANGED <<anchor, lastActive, todo, now, alive, ran, spent>>
  <2>1. CASE (\E p \in Movers: Move(p)) \/ Takeback \/ HandOver \/ NewGame
    BY <2>1 DEF Move, Takeback, HandOver, NewGame, NothingElse, loopVars, history
  <2>3. CASE Correct \/ Task
    BY <2>3 DEF Correct, Task, NothingElse, loopVars, history
  <2>2. CASE OpenMenu \/ CloseMenu \/ Suspend \/ ResumeGame \/ AppComes \/ AppLeaves
    BY <2>2 DEF OpenMenu, CloseMenu, Suspend, ResumeGame, AppComes, AppLeaves, NothingElse,
                loopVars, history
  <2> QED BY <2>1, <2>2, <2>3 DEF Play
<1>2. CASE (\E p \in Movers: Move(p)) \/ Takeback \/ HandOver \/ NewGame
  <2>1. Prompt
    BY <1>2 DEF Move, Takeback, HandOver, NewGame
  <2> QED BY <1>1, <2>1, PromptIsIdle, CountFrame
<1>3. CASE \/ Correct \/ Task \/ OpenMenu \/ CloseMenu \/ Suspend \/ ResumeGame
           \/ AppComes \/ AppLeaves
  <2>1. UNCHANGED <<forced, forcedAt, ply>>
    BY <1>3 DEF Correct, Task, OpenMenu, CloseMenu, Suspend, ResumeGame, AppComes, AppLeaves,
                turnVars, gameVars
  <2>2. job'["board"] = job["board"]
    <3>1. \/ job' = job
          \/ \E p \in {"hand", "worker", "menu", "link"}, j \in AllJobs:
                job' = [job EXCEPT ![p] = j]
      <4>1. CASE Correct \/ Task
        BY <4>1 DEF Correct, Task, AllJobs, TurnJobs, WorkerJobs
      <4>2. CASE OpenMenu \/ CloseMenu \/ Suspend \/ ResumeGame
        BY <4>2 DEF OpenMenu, CloseMenu, Suspend, ResumeGame, AllJobs, MenuJobs
      <4>3. CASE AppComes \/ AppLeaves
        BY <4>3 DEF AppComes, AppLeaves, AllJobs, LinkJobs
      <4> QED BY <1>3, <4>1, <4>2, <4>3
    <3> QED BY <3>1 DEF JobsFit, Callers
  <2>3. Active' = Active
    BY <1>1, <2>1 DEF Active, ToMove
  <2> QED BY <1>1, <2>2, <2>3, CountFrame
<1> QED BY <1>2, <1>3 DEF Play

\* A side is charged for no more time than its clock was to run, for any times,
\* controls, games, menus and sessions and any number of threads, as long as the panel
\* does not keep a thread from its ticks and no app or new game comes before what went
\* before has been dealt with.
THEOREM TimeIsOnesOwn == Punctual /\ Spec => []OwnTime
<1> SUFFICES ASSUME Punctual PROVE Spec => []OwnTime
  OBVIOUS
<1>1. Init => CountInv
  BY CountInit
<1>2. CountInv /\ TypeInv /\ JobsFit /\ IInv /\ [Next]_vars => CountInv'
  <2> SUFFICES ASSUME CountInv, TypeInv, JobsFit, IInv, [Next]_vars PROVE CountInv'
    OBVIOUS
  <2>1. CASE UNCHANGED vars
    <3>1. UNCHANGED <<anchor, lastActive, todo, now, ran, spent, alive, job, forced, forcedAt, ply>>
      BY <2>1 DEF vars, loopVars, callVars, turnVars, gameVars, history
    <3> QED BY <3>1, CountFrame DEF Active, ToMove
  <2> QED BY <2>1, CountExit, CountTick, CountTime, CountCall, CountPlay DEF Next
<1>3. CountInv => OwnTime
  BY DEF CountInv
<1> QED BY <1>1, <1>2, <1>3, TypesInv, PTL DEF Spec

----------------------------------------------------------------------------
(* A ply gives its increment once                                          *)

CreditsFit ==
    /\ credits \in [1..MaxPly -> Nat]
    /\ appPlies \subseteq 1..MaxPly

\* The link has still to take what is on the board as applied; no move is being told or
\* credited.
Rebases == job["link"] = <<"baseline", "resume if playing">>
MoversIdle == \A p \in Movers: job[p] = <<>>
LookJobs == {<<"look">>, <<"give", "look">>}
CreditJobs == {<<"credit">>, <<"start", "credit">>} \union LookJobs

\* A ply gives its increment once, and an app's none; no ply ahead of the counter has
\* given one.
GivenOnce ==
    \A k \in 1..MaxPly: /\ credits[k] <= 1
                        /\ k \in appPlies => credits[k] = 0
                        /\ k > lastPly => credits[k] = 0

\* An app's plies lie behind the counter before a mover credits again, and one mover
\* credits at a time.
AppsBehind == ~session /\ ~Rebases => \A k \in appPlies: k <= lastPly
CreditsApart ==
    /\ Rebases => MoversIdle /\ ~session
    /\ \A p \in Movers: job[p] \in CreditJobs => ~session
    /\ \A p, q \in Movers: job[p] # <<>> /\ job[q] # <<>> => p = q

\* A mover that looks at the counter credits up to what is on the board; what it has seen
\* of the counter is still so when it moves it on.
Looks ==
    \A p \in Movers: /\ job[p] \in LookJobs => ply <= goal[p]
                     /\ job[p] = <<"give", "look">> => seen[p] = lastPly /\ lastPly < goal[p]

\* While a game goes on, what lies behind the counter was credited or an app's, what
\* lies ahead of it is an app's in its session and else has still to be told or
\* credited.
Behind ==
    ~over /\ job["board"] = <<>> =>
        \A k \in 1..MaxPly: k <= lastPly => credits[k] = 1 \/ k \in appPlies
Ahead ==
    ~over /\ (session \/ Rebases) =>
        \A k \in 1..MaxPly: lastPly < k /\ k <= ply => k \in appPlies
Due == ~over /\ ~session /\ lastPly < ply => Rebases \/ ~MoversIdle

\* No ply is played before a new game's clock is set.
Fresh ==
    job["board"] # <<>> =>
        MoversIdle /\ ply = 0 /\ appPlies = {} /\ \A k \in 1..MaxPly: credits[k] = 0

CreditInv ==
    /\ CreditsFit /\ GivenOnce /\ AppsBehind /\ CreditsApart /\ Looks
    /\ Behind /\ Ahead /\ Due /\ Fresh

\* An app comes, and a new game, when what went before has been dealt with, and a
\* game that has ended is not taken up again.
Orderly == "hurry" \notin Conditions /\ "revived" \notin Conditions

\* Moves are completed one at a time.
OneAtATime == "movers" \notin Conditions

LEMMA MoversCall ==
    /\ Movers \subseteq Callers
    /\ \A p \in Movers: p \notin {"board", "worker", "menu", "link", "flag"}
  BY DEF Movers, Callers

LEMMA CreditInit == Init => CreditInv
<1> SUFFICES ASSUME Init PROVE CreditInv
  OBVIOUS
<1>1. job["board"] = <<>> /\ job["link"] = <<>> /\ \A p \in Movers: job[p] = <<>>
  BY MoversCall DEF Init, Callers
<1>2. ~Rebases /\ <<>> \notin CreditJobs
  BY <1>1, Tuples DEF Rebases, CreditJobs, LookJobs
<1>3. CreditsFit
  BY DEF Init, CreditsFit
<1>4. GivenOnce /\ Behind
  BY ClockNumbersAssumption DEF Init, GivenOnce, Behind
<1>5. AppsBehind /\ Due /\ Ahead
  BY <1>2 DEF Init, AppsBehind, Due, Ahead
<1>6. CreditsApart /\ Looks
  BY <1>1, <1>2 DEF CreditsApart, Looks, CreditJobs, LookJobs
<1> QED BY <1>1, <1>3, <1>4, <1>5, <1>6 DEF CreditInv, Fresh

LEMMA TurnsDiffer ==
    /\ <<>> \notin CreditJobs /\ <<"turn">> # <<>> /\ <<"turn">> \notin CreditJobs
    /\ <<"credit">> \notin LookJobs /\ <<"start", "credit">> \notin LookJobs
    /\ <<"look">> # <<"give", "look">>
<1>1. /\ <<"turn">> # <<>> /\ <<"credit">> # <<>> /\ <<"start", "credit">> # <<>>
      /\ <<"look">> # <<>> /\ <<"give", "look">> # <<>>
  BY Tuples
<1>2. /\ Head(<<"turn">>) = "turn" /\ Head(<<"credit">>) = "credit" /\ Head(<<"look">>) = "look"
  BY Tuples
<1>3. Head(<<"start", "credit">>) = "start" /\ Head(<<"give", "look">>) = "give"
  BY Tuples
<1>4. \A j \in CreditJobs: j # <<>> /\ Head(j) # "turn"
  BY <1>1, <1>2, <1>3 DEF CreditJobs, LookJobs
<1>5. \A j \in LookJobs: Head(j) \in {"look", "give"}
  BY <1>2, <1>3 DEF LookJobs
<1>6. <<"credit">> \notin LookJobs /\ <<"start", "credit">> \notin LookJobs
  BY <1>2, <1>3, <1>5
<1>7. <<"look">> # <<"give", "look">>
  BY <1>2, <1>3
<1> QED BY <1>1, <1>2, <1>4, <1>6, <1>7

\* Nothing that counts changes; a game may end.
LEMMA CreditFrame ==
    ASSUME CreditInv, UNCHANGED <<lastPly, ply, credits, appPlies, session, goal, seen>>,
           over => over',
           job'["board"] = <<>> <=> job["board"] = <<>>, Rebases' <=> Rebases,
           \A p \in Movers: \/ job'[p] = job[p]
                            \/ job[p] = <<"start", "credit">> /\ job'[p] = <<"credit">>
    PROVE  CreditInv'
<1>0. \A p \in Movers: /\ job'[p] = <<>> <=> job[p] = <<>>
                       /\ job'[p] \in CreditJobs => job[p] \in CreditJobs
                       /\ job'[p] \in LookJobs => job'[p] = job[p]
  BY TurnsDiffer DEF CreditJobs
<1>1. CreditsFit' /\ GivenOnce' /\ (MoversIdle' <=> MoversIdle)
  BY <1>0 DEF CreditInv, CreditsFit, GivenOnce, MoversIdle
<1>2. AppsBehind' /\ CreditsApart'
  BY <1>0, <1>1 DEF CreditInv, AppsBehind, CreditsApart
<1>3. Behind' /\ Fresh'
  BY <1>1 DEF CreditInv, Behind, Fresh
<1>4. Ahead' /\ Due'
  BY <1>1 DEF CreditInv, Ahead, Due
<1>5. Looks'
  <2>1. <<"give", "look">> \in LookJobs
    BY DEF LookJobs
  <2> QED BY <1>0, <2>1 DEF CreditInv, Looks
<1> QED BY <1>1, <1>2, <1>3, <1>4, <1>5 DEF CreditInv

\* While one mover has something to do nobody sets the counter, and the other mover
\* waits.
LEMMA MoverAlone ==
    ASSUME CreditInv, NEW p \in Movers, job[p] # <<>>,
           \A q \in Callers: q # p => job'[q] = job[q]
    PROVE  /\ ~Rebases /\ ~Rebases' /\ job["board"] = <<>> /\ job'["board"] = <<>>
           /\ \A q \in Movers: q # p => job[q] = <<>> /\ job'[q] = <<>>
<1>1. ~Rebases /\ job["board"] = <<>>
  BY DEF CreditInv, CreditsApart, Fresh, MoversIdle
<1>2. job'["link"] = job["link"] /\ job'["board"] = job["board"]
  BY MoversCall DEF Callers
<1>3. \A q \in Movers: q # p => job[q] = <<>> /\ job'[q] = <<>>
  BY MoversCall DEF CreditInv, CreditsApart
<1> QED BY <1>1, <1>2, <1>3 DEF Rebases

LEMMA Rebase ==
    /\ <<"baseline", "resume if playing">> \notin {<<>>, <<"start">>, <<"resume">>}
    /\ Head(<<"baseline", "resume if playing">>) = "baseline"
<1>1. <<"baseline", "resume if playing">> # <<>>
  BY Tuples
<1>2. Head(<<"baseline", "resume if playing">>) = "baseline"
  BY Tuples
<1>3. Head(<<"start">>) = "start" /\ Head(<<"resume">>) = "resume"
  BY Tuples
<1> QED BY <1>1, <1>2, <1>3

\* What the other operations of the service leave to be done.
LEMMA QuietCall ==
    ASSUME JobsFit, NEW p \in Callers,
           \/ Stop(p) \/ Joined(p) \/ StartClock(p) \/ Pause(p) \/ Resume(p) \/ End(p)
           \/ ResumeIfPlaying(p)
    PROVE  /\ job'["board"] = <<>> <=> job["board"] = <<>>
           /\ Rebases' <=> Rebases
           /\ \A q \in Movers: \/ job'[q] = job[q]
                               \/ job[q] = <<"start", "credit">> /\ job'[q] = <<"credit">>
<1>0. "board" \in Callers /\ "link" \in Callers
  BY DEF Callers
<1>1. CASE Joined(p)
  BY <1>1 DEF Joined, Rebases
<1>2. CASE Stop(p)
  <2>1. At(p, "stop") /\ Done(p)
    BY <1>2 DEF Stop
  <2>2. job[p] # <<>> /\ Head(job[p]) = "stop" /\ job'[p] = Tail(job[p])
    BY <2>1, Asked, Finishes
  <2>3. \A q \in Callers: q # p => job'[q] = job[q]
    BY <2>1, Finishes
  <2>7. p \notin Movers /\ p # "link"
    BY <2>1, Asked, MoversCall
  <2>8. job'["link"] = job["link"] /\ \A q \in Movers: job'[q] = job[q]
    BY <1>0, <2>3, <2>7, MoversCall
  <2>4. CASE p = "board"
    <3>1. Tail(job[p]) \in {<<"reset">>, <<"configure", "stop", "reset">>}
      BY <2>1, <2>4, Asked, MoversCall
    <3>2. <<"reset">> # <<>> /\ <<"configure", "stop", "reset">> # <<>>
      BY Tuples
    <3>3. job'[p] # <<>>
      BY <2>2, <3>1, <3>2
    <3> QED BY <2>2, <2>4, <2>8, <3>3 DEF Rebases
  <2>5. CASE p # "board"
    BY <1>0, <2>3, <2>5, <2>8 DEF Rebases
  <2> QED BY <2>4, <2>5
<1>3. CASE StartClock(p)
  <2>1. At(p, "start") /\ Done(p)
    BY <1>3 DEF StartClock
  <2>2. job[p] # <<>> /\ Head(job[p]) = "start" /\ job'[p] = Tail(job[p])
    BY <2>1, Asked, Finishes
  <2>3. \A q \in Callers: q # p => job'[q] = job[q]
    BY <2>1, Finishes
  <2>7. p # "board" /\ job'["board"] = job["board"]
    BY <1>0, <2>1, <2>3, Asked, MoversCall
  <2>8. \A q \in Movers: q # p => job'[q] = job[q]
    BY <2>3, MoversCall
  <2>4. CASE p \in Movers
    <3>1. job'[p] = <<"credit">>
      BY <2>1, <2>2, <2>4, Asked, MoversCall
    <3>2. job[p] = <<"start", "credit">>
      <4>1. job[p] \in TurnJobs
        BY <2>4 DEF JobsFit
      <4>2. /\ Head(<<"turn">>) = "turn" /\ Head(<<"credit">>) = "credit"
            /\ Head(<<"look">>) = "look"
        BY Tuples
      <4>3. Head(<<"give", "look">>) = "give"
        BY Tuples
      <4> QED BY <2>2, <4>1, <4>2, <4>3 DEF TurnJobs
    <3>3. job'["link"] = job["link"]
      BY <1>0, <2>3, <2>4, MoversCall
    <3> QED BY <2>7, <2>8, <3>1, <3>2, <3>3 DEF Rebases
  <2>5. CASE p = "menu"
    BY <1>0, <2>3, <2>5, <2>7, <2>8, MoversCall DEF Rebases
  <2>6. CASE p = "link"
    <3>1. ~Rebases
      BY <2>2, <2>6, Rebase DEF Rebases
    <3>2. job'[p] = <<>>
      BY <2>1, <2>2, <2>6, Asked, MoversCall
    <3>3. ~Rebases'
      BY <2>6, <3>2, Rebase DEF Rebases
    <3> QED BY <2>6, <2>7, <2>8, <3>1, <3>3, MoversCall
  <2> QED BY <2>1, <2>4, <2>5, <2>6, Asked
<1>4. CASE Pause(p) \/ Resume(p) \/ ResumeIfPlaying(p)
  <2>1. PICK op \in {"pause", "resume", "resume if playing"}: At(p, op)
    BY <1>4 DEF Pause, Resume, ResumeIfPlaying
  <2>2. p \in {"menu", "link"} /\ Tail(job[p]) = <<>> /\ Head(job[p]) = op
    BY <2>1, Asked
  <2>3. \E j \in {<<>>, <<"start">>, <<"resume">>}: job' = [job EXCEPT ![p] = j]
    <3>1. /\ <<"start">> \o <<>> = <<"start">> /\ <<"resume">> \o <<>> = <<"resume">>
          /\ <<>> \o <<>> = <<>>
      BY Tuples
    <3>2. CASE Pause(p)
      BY <2>2, <3>2 DEF Pause, Done
    <3>3. CASE Resume(p)
      BY <2>2, <3>1, <3>3 DEF Resume, Done, ThenDo
    <3>4. CASE ResumeIfPlaying(p)
      BY <2>2, <3>1, <3>4 DEF ResumeIfPlaying, ThenDo
    <3> QED BY <1>4, <3>2, <3>3, <3>4
  <2>4. PICK j \in {<<>>, <<"start">>, <<"resume">>}: job' = [job EXCEPT ![p] = j]
    BY <2>3
  <2>5. job'[p] = j /\ \A q \in Callers: q # p => job'[q] = job[q]
    BY <2>4 DEF JobsFit
  <2>8. job'["board"] = job["board"] /\ \A q \in Movers: job'[q] = job[q]
    BY <1>0, <2>2, <2>5, MoversCall
  <2>6. CASE p = "menu"
    BY <1>0, <2>5, <2>6, <2>8 DEF Rebases
  <2>7. CASE p = "link"
    <3>1. Head(job[p]) # "baseline"
      BY <2>1, <2>2
    <3>2. ~Rebases
      BY <2>7, <3>1, Rebase DEF Rebases
    <3>3. ~Rebases'
      BY <2>5, <2>7, Rebase DEF Rebases
    <3> QED BY <2>8, <3>2, <3>3
  <2> QED BY <2>2, <2>6, <2>7
<1>5. CASE End(p)
  <2>1. p = "flag" /\ Done(p)
    BY <1>5, Asked DEF End
  <2>2. \A q \in Callers: q # p => job'[q] = job[q]
    BY <2>1, Finishes
  <2> QED BY <1>0, <2>1, <2>2, MoversCall DEF Rebases
<1> QED BY <1>1, <1>2, <1>3, <1>4, <1>5

LEMMA CreditRebase ==
    ASSUME Orderly, CreditInv, TypeInv, JobsFit, NEW p \in Callers, Baseline(p)
    PROVE  CreditInv'
<1>1. /\ p = "link" /\ job[p] # <<>> /\ Head(job[p]) = "baseline"
      /\ job'[p] = Tail(job[p]) /\ Tail(job[p]) = <<"resume if playing">>
      /\ \A q \in Callers: q # p => job'[q] = job[q]
  BY Asked, Finishes DEF Baseline
<1>2. "board" \in Callers /\ \A q \in Movers: job'[q] = job[q]
  BY <1>1, MoversCall DEF Callers
<1>3. Rebases
  <2>1. job["link"] \in LinkJobs
    BY DEF JobsFit
  <2>2. /\ Head(<<"pause">>) # "baseline" /\ Head(<<"resume">>) # "baseline"
        /\ Head(<<"start">>) # "baseline" /\ Head(<<"resume if playing">>) # "baseline"
    BY Tuples
  <2> QED BY <1>1, <2>1, <2>2 DEF Rebases, LinkJobs
<1>4. ~Rebases'
  <2>1. <<"resume if playing">> # <<"baseline", "resume if playing">>
    <3>1. Head(<<"resume if playing">>) = "resume if playing"
      BY Tuples
    <3> QED BY <3>1, Rebase
  <2> QED BY <1>1, <2>1 DEF Rebases
<1>5. /\ lastPly' = ply /\ UNCHANGED <<ply, over, session>>
      /\ credits' = [k \in 1..MaxPly |-> IF k <= ply THEN credits[k] ELSE 0]
      /\ appPlies' = appPlies \intersect 1..ply
  BY DEF Baseline, appVars, gameVars
<1>6. MoversIdle /\ ~session
  BY <1>3 DEF CreditInv, CreditsApart
<1>7. MoversIdle' /\ \A q \in Movers: job'[q] \notin CreditJobs
  BY <1>2, <1>6, TurnsDiffer DEF MoversIdle
<1>8. ply \in Nat /\ lastPly \in Nat /\ MaxPly \in Nat /\ ply <= MaxPly
  BY ClockNumbersAssumption DEF TypeInv, PliesFit
<1>9. \A k \in 1..MaxPly: /\ k <= ply => credits'[k] = credits[k]
                          /\ ~(k <= ply) => credits'[k] = 0
                          /\ k \in appPlies' <=> k \in appPlies /\ k <= ply
  BY <1>5, <1>8
<1>10. CreditsFit'
  BY <1>5, <1>8 DEF CreditInv, CreditsFit
<1>11. GivenOnce'
  <2> SUFFICES ASSUME NEW k \in 1..MaxPly
               PROVE  /\ credits'[k] <= 1 /\ (k \in appPlies' => credits'[k] = 0)
                      /\ (k > ply => credits'[k] = 0)
    BY <1>5 DEF GivenOnce
  <2>1. credits[k] <= 1 /\ (k \in appPlies => credits[k] = 0) /\ k \in Nat
    BY <1>8 DEF CreditInv, GivenOnce
  <2> QED BY <1>8, <1>9, <2>1
<1>12. AppsBehind'
  BY <1>5, <1>8 DEF AppsBehind
<1>13. CreditsApart' /\ Looks'
  BY <1>4, <1>7 DEF CreditsApart, Looks, MoversIdle, CreditJobs, LookJobs
<1>14. Behind'
  <2> SUFFICES ASSUME ~over, job["board"] = <<>>, NEW k \in 1..MaxPly, k <= ply
               PROVE  credits'[k] = 1 \/ k \in appPlies'
    BY <1>1, <1>2, <1>5 DEF Behind
  <2>1. credits[k] = 1 \/ k \in appPlies
    <3>1. k <= lastPly \/ lastPly < k
      BY <1>8
    <3> QED BY <1>3, <3>1 DEF CreditInv, Behind, Ahead
  <2> QED BY <1>9, <2>1
<1>15. Ahead' /\ Due'
  BY <1>4, <1>5, <1>6, <1>8 DEF Ahead, Due
<1>16. Fresh'
  <2> SUFFICES ASSUME job["board"] # <<>>
               PROVE  ply = 0 /\ appPlies' = {} /\ \A k \in 1..MaxPly: credits'[k] = 0
    BY <1>1, <1>2, <1>5, <1>7 DEF Fresh
  <2> QED BY <1>5, <1>9 DEF CreditInv, Fresh
<1> QED BY <1>10, <1>11, <1>12, <1>13, <1>14, <1>15, <1>16 DEF CreditInv

\* A turn is told: its mover credits next, unless an app plays.
LEMMA CreditTurn ==
    ASSUME CreditInv, TypeInv, JobsFit, NEW p \in Callers, Turn(p)
    PROVE  CreditInv'
<1>1. p \in Movers /\ job[p] # <<>> /\ Tail(job[p]) = <<>>
  BY Asked DEF Turn
<1>2. UNCHANGED <<lastPly, ply, credits, appPlies, session, goal, seen, over>>
  BY DEF Turn, creditVars, gameVars, history
<1>3. PICK j \in {<<>>, <<"credit">>, <<"start", "credit">>}:
         ThenDo(p, j) /\ (session <=> j = <<>>)
  BY TurnsDiffer DEF Turn, CreditJobs
<1>4. job'[p] = j /\ \A q \in Callers: q # p => job'[q] = job[q]
  <2>1. j \o <<>> = j
    BY Tuples, Pairs
  <2> QED BY <1>1, <1>3, <2>1, ThenOnly DEF JobsFit
<1>5. /\ ~Rebases /\ ~Rebases' /\ job["board"] = <<>> /\ job'["board"] = <<>>
      /\ \A q \in Movers: q # p => job[q] = <<>> /\ job'[q] = <<>>
  BY <1>1, <1>4, MoverAlone
<1>6. j \notin LookJobs /\ <<>> \notin CreditJobs /\ <<"give", "look">> \in LookJobs
      /\ <<>> \notin LookJobs
  BY TurnsDiffer DEF CreditJobs, LookJobs
<1>7. CreditsFit' /\ GivenOnce' /\ AppsBehind'
  BY <1>2, <1>5 DEF CreditInv, CreditsFit, GivenOnce, AppsBehind
<1>8. CreditsApart'
  BY <1>2, <1>3, <1>4, <1>5, <1>6 DEF CreditsApart
<1>9. Looks'
  BY <1>4, <1>5, <1>6 DEF Looks
<1>10. Behind' /\ Fresh' /\ Ahead'
  BY <1>2, <1>5 DEF CreditInv, Behind, Fresh, Ahead
<1>11. Due'
  BY <1>1, <1>2, <1>3, <1>4 DEF Due, MoversIdle
<1> QED BY <1>7, <1>8, <1>9, <1>10, <1>11 DEF CreditInv

\* What a mover is to credit is counted.
LEMMA CreditCredit ==
    ASSUME CreditInv, TypeInv, JobsFit, NEW p \in Callers, Credit(p)
    PROVE  CreditInv'
<1>1. p \in Movers /\ job[p] # <<>> /\ Head(job[p]) = "credit" /\ Tail(job[p]) = <<>>
  BY Asked DEF Credit
<1>2. UNCHANGED <<lastPly, ply, credits, appPlies, session, seen, over>> /\ goal'[p] = ply
  BY <1>1 DEF Credit, gameVars, history, appVars, TypeInv, PliesFit
<1>3. job[p] \in CreditJobs
  <2>1. /\ Head(<<"turn">>) = "turn" /\ Head(<<"stop">>) = "stop"
    BY Tuples
  <2> QED BY <1>1, <2>1 DEF JobsFit, TurnJobs, CreditJobs, LookJobs
<1>4. job'[p] = <<"look">> /\ \A q \in Callers: q # p => job'[q] = job[q]
  <2>1. <<"look">> \o <<>> = <<"look">> /\ ThenDo(p, <<"look">>)
    BY Tuples DEF Credit
  <2> QED BY <1>1, <2>1, ThenOnly DEF JobsFit
<1>5. /\ ~Rebases /\ ~Rebases' /\ job["board"] = <<>> /\ job'["board"] = <<>>
      /\ \A q \in Movers: q # p => job[q] = <<>> /\ job'[q] = <<>>
  BY <1>1, <1>4, MoverAlone
<1>6. /\ ~session /\ <<>> \notin CreditJobs /\ <<>> \notin LookJobs /\ <<>> # <<"look">>
      /\ <<"look">> # <<"give", "look">> /\ <<"give", "look">> # <<>>
  BY <1>1, <1>3, TurnsDiffer DEF CreditInv, CreditsApart, CreditJobs, LookJobs
<1>7. CreditsFit' /\ GivenOnce' /\ AppsBehind'
  BY <1>2, <1>5 DEF CreditInv, CreditsFit, GivenOnce, AppsBehind
<1>8. CreditsApart'
  BY <1>2, <1>5, <1>6 DEF CreditsApart
<1>9. Looks'
  <2>1. ply <= ply
    BY DEF TypeInv, PliesFit
  <2> QED BY <1>2, <1>4, <1>5, <1>6, <2>1 DEF Looks
<1>10. Behind' /\ Fresh' /\ Ahead'
  BY <1>2, <1>5 DEF CreditInv, Behind, Fresh, Ahead
<1>11. Due'
  BY <1>1, <1>4, <1>6 DEF Due, MoversIdle
<1> QED BY <1>7, <1>8, <1>9, <1>10, <1>11 DEF CreditInv

\* The counter has reached what is on the board, or is moved on next.
LEMMA CreditLook ==
    ASSUME CreditInv, TypeInv, JobsFit, NEW p \in Callers, Look(p)
    PROVE  CreditInv'
<1>1. p \in Movers /\ job[p] # <<>> /\ Head(job[p]) = "look" /\ Tail(job[p]) = <<>>
  BY Asked DEF Look
<1>2. UNCHANGED <<lastPly, ply, credits, appPlies, session, over>>
  BY DEF Look, gameVars, history, appVars
<1>3. job[p] \in CreditJobs /\ job[p] \in LookJobs
  <2>1. /\ Head(<<"turn">>) = "turn" /\ Head(<<"credit">>) = "credit"
    BY Tuples
  <2>2. Head(<<"start", "credit">>) = "start"
    BY Tuples
  <2> QED BY <1>1, <2>1, <2>2 DEF JobsFit, TurnJobs, CreditJobs, LookJobs
<1>4. \/ /\ lastPly < goal[p] /\ goal' = goal /\ seen'[p] = lastPly
         /\ ThenDo(p, <<"give", "look">>)
      \/ ~(lastPly < goal[p]) /\ Done(p)
  BY <1>1 DEF Look, TypeInv, PliesFit
<1>5. /\ job'[p] = <<"give", "look">> \/ job'[p] = <<>>
      /\ \A q \in Callers: q # p => job'[q] = job[q]
      /\ job'[p] = <<"give", "look">> => lastPly < goal[p] /\ goal' = goal /\ seen'[p] = lastPly
      /\ job'[p] = <<>> => ~(lastPly < goal[p])
  <2>1. <<"give", "look">> \o <<>> = <<"give", "look">> /\ <<"give", "look">> # <<>>
    BY Tuples, Pairs
  <2>2. CASE ThenDo(p, <<"give", "look">>) /\ lastPly < goal[p] /\ goal' = goal /\ seen'[p] = lastPly
    BY <1>1, <2>1, <2>2, ThenOnly DEF JobsFit
  <2>3. CASE Done(p) /\ ~(lastPly < goal[p])
    BY <1>1, <2>1, <2>3, Finishes
  <2> QED BY <1>4, <2>2, <2>3
<1>6. /\ ~Rebases /\ ~Rebases' /\ job["board"] = <<>> /\ job'["board"] = <<>>
      /\ \A q \in Movers: q # p => job[q] = <<>> /\ job'[q] = <<>>
  BY <1>1, <1>5, MoverAlone
<1>7. /\ ~session /\ <<>> \notin CreditJobs /\ <<>> \notin LookJobs
      /\ <<"give", "look">> # <<>> /\ ply <= goal[p]
  BY <1>1, <1>3, TurnsDiffer DEF CreditInv, CreditsApart, CreditJobs, LookJobs, Looks
<1>8. CreditsFit' /\ GivenOnce' /\ AppsBehind'
  BY <1>2, <1>6 DEF CreditInv, CreditsFit, GivenOnce, AppsBehind
<1>9. CreditsApart'
  BY <1>2, <1>6, <1>7 DEF CreditsApart
<1>10. Looks'
  BY <1>2, <1>5, <1>6, <1>7 DEF Looks
<1>11. Behind' /\ Fresh' /\ Ahead'
  BY <1>2, <1>6 DEF CreditInv, Behind, Fresh, Ahead
<1>12. Due'
  <2>1. CASE job'[p] # <<>>
    BY <1>1, <2>1 DEF Due, MoversIdle
  <2>2. CASE job'[p] = <<>>
    <3>1. ~(lastPly < goal[p]) /\ goal[p] \in Nat /\ lastPly \in Nat /\ ply \in Nat
      BY <1>1, <1>5, <2>2, ClockNumbersAssumption DEF TypeInv, PliesFit
    <3>2. \A g \in Nat: ~(lastPly < g) /\ ply <= g => ~(lastPly < ply)
      BY <3>1
    <3> QED BY <1>2, <1>7, <3>1, <3>2 DEF Due
  <2> QED BY <2>1, <2>2
<1> QED BY <1>8, <1>9, <1>10, <1>11, <1>12 DEF CreditInv

\* The next ply gives its increment.
LEMMA CreditGive ==
    ASSUME CreditInv, TypeInv, JobsFit, NEW p \in Callers, Give(p)
    PROVE  CreditInv'
<1>1. p \in Movers /\ job[p] # <<>> /\ Head(job[p]) = "give" /\ Tail(job[p]) = <<"look">>
  BY Asked DEF Give
<1>2. /\ UNCHANGED <<goal, ply, appPlies, session, over>> /\ lastPly' = lastPly + 1
      /\ credits' = [credits EXCEPT ![seen[p] + 1] = @ + 1] /\ Done(p)
  BY DEF Give, gameVars, appVars
<1>3. job[p] = <<"give", "look">>
  <2>1. /\ Head(<<"turn">>) = "turn" /\ Head(<<"credit">>) = "credit" /\ Head(<<"look">>) = "look"
    BY Tuples
  <2>2. Head(<<"start", "credit">>) = "start"
    BY Tuples
  <2> QED BY <1>1, <2>1, <2>2 DEF JobsFit, TurnJobs
<1>4. job'[p] = <<"look">> /\ \A q \in Callers: q # p => job'[q] = job[q]
  BY <1>1, <1>2, Finishes
<1>5. /\ ~Rebases /\ ~Rebases' /\ job["board"] = <<>> /\ job'["board"] = <<>>
      /\ \A q \in Movers: q # p => job[q] = <<>> /\ job'[q] = <<>>
  BY <1>1, <1>4, MoverAlone
<1>6. /\ ~session /\ seen[p] = lastPly /\ lastPly < goal[p] /\ ply <= goal[p]
      /\ <<>> \notin CreditJobs /\ <<>> \notin LookJobs /\ <<"look">> # <<>>
      /\ <<"look">> # <<"give", "look">> /\ <<"give", "look">> # <<>>
  BY <1>1, <1>3, TurnsDiffer DEF CreditInv, CreditsApart, CreditJobs, LookJobs, Looks
<1>7. goal[p] \in Nat /\ goal[p] <= MaxPly /\ lastPly \in Nat /\ ply \in Nat /\ MaxPly \in Nat
  BY <1>1, ClockNumbersAssumption DEF TypeInv, PliesFit
<1>8. lastPly + 1 \in 1..MaxPly
  BY <1>6, <1>7
<1>9. credits[lastPly + 1] = 0 /\ lastPly + 1 \notin appPlies
  BY <1>5, <1>6, <1>7, <1>8 DEF CreditInv, GivenOnce, AppsBehind
<1>10. /\ credits'[lastPly + 1] = 1
       /\ \A k \in 1..MaxPly: k # lastPly + 1 => credits'[k] = credits[k]
       /\ credits' \in [1..MaxPly -> Nat]
  BY <1>2, <1>6, <1>8, <1>9 DEF CreditInv, CreditsFit
<1>11. CreditsFit'
  BY <1>2, <1>10 DEF CreditInv, CreditsFit
<1>12. GivenOnce'
  <2> SUFFICES ASSUME NEW k \in 1..MaxPly
               PROVE  /\ credits'[k] <= 1 /\ (k \in appPlies => credits'[k] = 0)
                      /\ (k > lastPly + 1 => credits'[k] = 0)
    BY <1>2 DEF GivenOnce
  <2>1. /\ credits[k] <= 1 /\ (k \in appPlies => credits[k] = 0)
        /\ (k > lastPly => credits[k] = 0) /\ k \in Nat
    BY <1>7 DEF CreditInv, GivenOnce
  <2>2. CASE k = lastPly + 1
    BY <1>7, <1>9, <1>10, <2>2
  <2>3. CASE k # lastPly + 1
    BY <1>7, <1>10, <2>1, <2>3
  <2> QED BY <2>2, <2>3
<1>13. AppsBehind'
  <2>1. \A k \in appPlies: k \in Nat /\ k <= lastPly
    BY <1>5, <1>6, <1>7 DEF CreditInv, AppsBehind, CreditsFit
  <2> QED BY <1>2, <1>7, <2>1 DEF AppsBehind
<1>14. CreditsApart'
  BY <1>2, <1>5, <1>6 DEF CreditsApart
<1>15. Looks'
  BY <1>2, <1>4, <1>5, <1>6 DEF Looks
<1>16. Behind'
  <2> SUFFICES ASSUME ~over, job["board"] = <<>>, NEW k \in 1..MaxPly, k <= lastPly + 1
               PROVE  credits'[k] = 1 \/ k \in appPlies
    BY <1>2, <1>5 DEF Behind
  <2>1. CASE k = lastPly + 1
    BY <1>10, <2>1
  <2>2. CASE k # lastPly + 1
    <3>1. k <= lastPly
      BY <1>7, <2>2
    <3> QED BY <1>10, <2>2, <3>1 DEF CreditInv, Behind
  <2> QED BY <2>1, <2>2
<1>17. Ahead' /\ Fresh'
  BY <1>2, <1>5, <1>6 DEF Ahead, Fresh
<1>18. Due'
  BY <1>1, <1>4, <1>6 DEF Due, MoversIdle
<1> QED BY <1>11, <1>12, <1>13, <1>14, <1>15, <1>16, <1>17, <1>18 DEF CreditInv

\* The new game's clock: what the counter stands at is a fresh board.
LEMMA CreditSet ==
    ASSUME Orderly, CreditInv, TypeInv, JobsFit, NEW p \in Callers, Configure(p) \/ Reset(p)
    PROVE  CreditInv'
<1>1. p = "board" /\ job[p] # <<>> /\ Done(p)
  BY Asked DEF Configure, Reset
<1>2. MoversIdle /\ ply = 0 /\ appPlies = {} /\ \A k \in 1..MaxPly: credits[k] = 0
  BY <1>1 DEF CreditInv, Fresh
<1>3. lastPly' = 0 /\ UNCHANGED <<ply, over, session, appPlies, credits>>
  BY <1>2 DEF Configure, Reset, appVars, gameVars, history
<1>4. \A q \in Callers: q # p => job'[q] = job[q]
  BY <1>1, Finishes
<1>5. MoversIdle' /\ job'["link"] = job["link"]
  BY <1>1, <1>2, <1>4, MoversCall DEF Callers, MoversIdle
<1>6. Rebases' <=> Rebases
  BY <1>5 DEF Rebases
<1>7. CreditsFit' /\ CreditsApart' /\ Looks'
  BY <1>3, <1>5, <1>6, TurnsDiffer
  DEF CreditInv, CreditsFit, CreditsApart, Looks, MoversIdle, CreditJobs, LookJobs
<1>8. GivenOnce' /\ AppsBehind' /\ Fresh'
  BY <1>2, <1>3, <1>5 DEF GivenOnce, AppsBehind, Fresh
<1>9. Behind' /\ Ahead' /\ Due'
  BY <1>2, <1>3, ClockNumbersAssumption DEF Behind, Ahead, Due
<1> QED BY <1>7, <1>8, <1>9 DEF CreditInv

LEMMA CreditMove ==
    ASSUME Orderly, OneAtATime, CreditInv, TypeInv, JobsFit, NEW p \in Movers, Move(p)
    PROVE  CreditInv'
<1>1. /\ ply < MaxPly /\ ~over /\ job["board"] = <<>> /\ job["link"] = <<>>
      /\ MoversIdle
      /\ ply' = ply + 1
      /\ UNCHANGED <<lastPly, credits, session, goal, seen>>
      /\ appPlies' = IF session /\ credits[ply + 1] = 0 THEN appPlies \union {ply + 1}
                     ELSE appPlies
      /\ \/ over' = over /\ job' = [job EXCEPT ![p] = <<"turn">>]
         \/ over' = TRUE /\ job' = job
  BY DEF Move, Orderly, OneAtATime, OneMover, MoversIdle, Free, NothingElse, creditVars
<1>2. ply \in Nat /\ lastPly \in Nat /\ MaxPly \in Nat
  BY ClockNumbersAssumption DEF TypeInv, PliesFit
<1>3. ply + 1 \in 1..MaxPly
  BY <1>1, <1>2
<1>4. /\ job'["board"] = <<>> /\ job'["link"] = <<>>
      /\ \A q \in Movers: q # p => job'[q] = <<>>
      /\ \/ over' = over /\ job'[p] = <<"turn">>
         \/ over' = TRUE /\ job'[p] = <<>>
  BY <1>1, MoversCall DEF JobsFit, Callers, MoversIdle
<1>12. ~Rebases /\ ~Rebases'
  BY <1>1, <1>4, Rebase DEF Rebases
<1>13. \A q \in Movers: job'[q] \notin CreditJobs /\ job'[q] \notin LookJobs
  BY <1>4, TurnsDiffer DEF CreditJobs
<1>5. CreditsFit'
  BY <1>1, <1>3 DEF CreditInv, CreditsFit
<1>6. GivenOnce'
  BY <1>1 DEF CreditInv, GivenOnce
<1>7. AppsBehind' /\ CreditsApart' /\ Looks'
  <2>1. <<"give", "look">> \in LookJobs
    BY DEF LookJobs
  <2> QED BY <1>1, <1>4, <1>12, <1>13, <2>1 DEF CreditInv, AppsBehind, CreditsApart, Looks
<1>8. Behind'
  BY <1>1 DEF CreditInv, Behind
<1>9. Ahead'
  <2> SUFFICES ASSUME session, NEW k \in 1..MaxPly, lastPly < k, k <= ply + 1
               PROVE  k \in appPlies'
    BY <1>1, <1>12 DEF Ahead
  <2>1. CASE k = ply + 1
    <3>1. credits[ply + 1] = 0
      BY <1>3, <2>1 DEF CreditInv, GivenOnce
    <3> QED BY <1>1, <2>1, <3>1
  <2>2. CASE k # ply + 1
    <3>1. k <= ply
      BY <1>2, <2>2
    <3>2. k \in appPlies
      BY <1>1, <3>1 DEF CreditInv, Ahead
    <3> QED BY <1>1, <3>2
  <2> QED BY <2>1, <2>2
<1>10. Due'
  BY <1>4, TurnsDiffer DEF Due, MoversIdle
<1>11. Fresh'
  BY <1>4 DEF Fresh
<1> QED BY <1>5, <1>6, <1>7, <1>8, <1>9, <1>10, <1>11 DEF CreditInv

\* A turn is told once more.
LEMMA CreditCorrect ==
    ASSUME Orderly, OneAtATime, CreditInv, JobsFit, Correct
    PROVE  CreditInv'
<1>1. /\ job["board"] = <<>> /\ job["link"] = <<>> /\ MoversIdle
      /\ UNCHANGED <<lastPly, ply, credits, appPlies, session, goal, seen, over>>
      /\ job' = [job EXCEPT !["hand"] = <<"turn">>]
  BY DEF Correct, Orderly, OneAtATime, OneMover, BoardIsFree, MoversIdle, Free, NothingElse,
         creditVars, appVars, gameVars, history
<1>2. /\ job'["board"] = <<>> /\ job'["link"] = <<>> /\ job'["hand"] = <<"turn">>
      /\ \A q \in Movers: q # "hand" => job'[q] = <<>>
  BY <1>1, MoversCall DEF JobsFit, Callers, MoversIdle, Movers
<1>3. ~Rebases /\ ~Rebases'
  BY <1>1, <1>2, Rebase DEF Rebases
<1>4. \A q \in Movers: job'[q] \notin CreditJobs /\ job'[q] \notin LookJobs
  BY <1>2, TurnsDiffer DEF CreditJobs
<1>5. ~MoversIdle'
  BY <1>2, TurnsDiffer DEF MoversIdle, Movers
<1>6. CreditsFit' /\ GivenOnce' /\ AppsBehind'
  BY <1>1, <1>3 DEF CreditInv, CreditsFit, GivenOnce, AppsBehind
<1>7. CreditsApart' /\ Looks'
  <2>1. <<"give", "look">> \in LookJobs
    BY DEF LookJobs
  <2> QED BY <1>2, <1>3, <1>4, <2>1 DEF CreditsApart, Looks
<1>8. Behind' /\ Ahead' /\ Fresh'
  BY <1>1, <1>2, <1>3 DEF CreditInv, Behind, Ahead, Fresh
<1>9. Due'
  BY <1>5 DEF Due
<1> QED BY <1>6, <1>7, <1>8, <1>9 DEF CreditInv

LEMMA CreditTakeback ==
    ASSUME Orderly, CreditInv, TypeInv, JobsFit, Takeback
    PROVE  CreditInv'
<1>1. /\ ply > 0 /\ ~over /\ job["board"] = <<>> /\ ply' = ply - 1 /\ over' = FALSE
      /\ UNCHANGED <<lastPly, credits, appPlies, job, session, goal, seen>>
  BY DEF Takeback, Orderly, BoardIsFree, Free, NothingElse, creditVars, callVars, appVars, history
<1>2. ply \in Nat /\ lastPly \in Nat /\ MaxPly \in Nat
  BY ClockNumbersAssumption DEF TypeInv, PliesFit
<1>3. (Rebases' <=> Rebases) /\ (MoversIdle' <=> MoversIdle)
  BY <1>1 DEF Rebases, MoversIdle
<1>8. Looks'
  <2> SUFFICES ASSUME NEW p \in Movers, job[p] \in LookJobs PROVE ply - 1 <= goal[p]
    BY <1>1 DEF CreditInv, Looks
  <2>1. ply <= goal[p] /\ goal[p] \in Nat
    BY ClockNumbersAssumption DEF CreditInv, Looks, TypeInv, PliesFit
  <2> QED BY <1>2, <2>1
<1>4. CreditsFit' /\ GivenOnce' /\ AppsBehind' /\ CreditsApart'
  BY <1>1, <1>3 DEF CreditInv, CreditsFit, GivenOnce, AppsBehind, CreditsApart
<1>5. Behind' /\ Fresh'
  BY <1>1 DEF CreditInv, Behind, Fresh
<1>6. Ahead'
  BY <1>1, <1>2, <1>3 DEF CreditInv, Ahead
<1>7. Due'
  BY <1>1, <1>2, <1>3 DEF CreditInv, Due
<1> QED BY <1>4, <1>5, <1>6, <1>7, <1>8 DEF CreditInv

LEMMA CreditNewGame ==
    ASSUME Orderly, CreditInv, TypeInv, JobsFit, NewGame
    PROVE  CreditInv'
<1>1. /\ ply' = 0 /\ appPlies' = {} /\ credits' = [k \in 1..MaxPly |-> 0]
      /\ UNCHANGED <<lastPly, session>> /\ Settled
      /\ job' = [job EXCEPT !["board"] = <<"stop", "configure", "stop", "reset">>]
  BY DEF NewGame, Orderly, NothingElse
<1>2. /\ job'["board"] = <<"stop", "configure", "stop", "reset">>
      /\ MoversIdle' /\ job'["link"] = <<>>
  BY <1>1, MoversCall DEF JobsFit, Callers, Settled, Free, MoversIdle
<1>3. ~Rebases' /\ job'["board"] # <<>>
  BY <1>2, Tuples DEF Rebases
<1>4. lastPly \in Nat /\ MaxPly \in Nat
  BY ClockNumbersAssumption DEF TypeInv, PliesFit
<1>5. CreditsFit' /\ GivenOnce'
  BY <1>1, <1>4 DEF CreditInv, CreditsFit, GivenOnce
<1>6. AppsBehind' /\ CreditsApart' /\ Behind' /\ Looks'
  BY <1>1, <1>2, <1>3, TurnsDiffer
  DEF AppsBehind, CreditsApart, Behind, Looks, MoversIdle, CreditJobs, LookJobs
<1>7. Ahead' /\ Due' /\ Fresh'
  BY <1>1, <1>2, <1>4 DEF Ahead, Due, Fresh
<1> QED BY <1>5, <1>6, <1>7 DEF CreditInv

LEMMA CreditSession ==
    ASSUME Orderly, CreditInv, TypeInv, JobsFit, AppComes \/ AppLeaves
    PROVE  CreditInv'
<1>1. /\ UNCHANGED <<lastPly, ply, credits, appPlies, over>> /\ Settled
      /\ \/ ~session /\ session' /\ job' = [job EXCEPT !["link"] = <<"pause">>]
         \/ /\ session /\ ~session'
            /\ job' = [job EXCEPT !["link"] = <<"baseline", "resume if playing">>]
  BY DEF AppComes, AppLeaves, Orderly, NothingElse, gameVars, history
<1>2. job["board"] = <<>> /\ job["link"] = <<>> /\ MoversIdle
  BY <1>1, MoversCall DEF Settled, Free, Callers, MoversIdle
<1>3. /\ job'["board"] = <<>> /\ MoversIdle'
      /\ \/ ~session /\ session' /\ job'["link"] = <<"pause">>
         \/ session /\ ~session' /\ job'["link"] = <<"baseline", "resume if playing">>
  BY <1>1, <1>2, MoversCall DEF JobsFit, Callers, MoversIdle
<1>4. ~Rebases
  BY <1>2, Rebase DEF Rebases
<1>6. Rebases' => ~session'
  <2>1. <<"pause">> # <<"baseline", "resume if playing">>
    <3>1. Head(<<"pause">>) = "pause"
      BY Tuples
    <3> QED BY <3>1, Rebase
  <2> QED BY <1>3, <2>1 DEF Rebases
<1>7. session' \/ Rebases'
  BY <1>3 DEF Rebases
<1>8. CreditsFit' /\ GivenOnce' /\ AppsBehind'
  BY <1>1, <1>7 DEF CreditInv, CreditsFit, GivenOnce, AppsBehind
<1>9. CreditsApart' /\ Behind' /\ Fresh' /\ Looks'
  BY <1>1, <1>2, <1>3, <1>6, TurnsDiffer
  DEF CreditInv, CreditsApart, Behind, Fresh, Looks, MoversIdle, CreditJobs, LookJobs
<1>10. ply \in Nat /\ lastPly \in Nat /\ MaxPly \in Nat
  BY ClockNumbersAssumption DEF TypeInv, PliesFit
<1>11. Ahead'
  <2>1. CASE session
    BY <1>1, <2>1 DEF CreditInv, Ahead
  <2>2. CASE ~session
    <3>1. ~over => ply <= lastPly
      BY <1>2, <1>4, <1>10, <2>2 DEF CreditInv, Due
    <3>2. ~over => \A k \in 1..MaxPly: ~(lastPly < k /\ k <= ply)
      BY <1>10, <3>1
    <3> QED BY <1>1, <3>2 DEF Ahead
  <2> QED BY <2>1, <2>2
<1>12. Due'
  BY <1>7 DEF Due
<1> QED BY <1>8, <1>9, <1>11, <1>12 DEF CreditInv

\* A ply gives its increment once, an app's none, and every ply of one's own gives it,
\* for any length of game and any number of games, takebacks, sessions and menus, as
\* long as no app or new game comes before what went before has been dealt with, no
\* finished game is taken up again and moves are completed one at a time: the counter is
\* looked at and moved on without a lock.
THEOREM IncrementsAreGivenOnce == Orderly /\ OneAtATime /\ Spec => []CreditedOnce
<1> SUFFICES ASSUME Orderly, OneAtATime PROVE Spec => []CreditedOnce
  OBVIOUS
<1>1. Init => CreditInv
  BY CreditInit
<1>2. CreditInv /\ TypeInv /\ JobsFit /\ IInv /\ [Next]_vars => CreditInv'
  <2> SUFFICES ASSUME CreditInv, TypeInv, JobsFit, IInv, [Next]_vars PROVE CreditInv'
    OBVIOUS
  <2>0. ASSUME UNCHANGED <<lastPly, ply, credits, appPlies, session, goal, seen>>, over => over',
               NEW c \in {"worker", "menu", "flag"}, NEW j,
               job' = job \/ job' = [job EXCEPT ![c] = j]
        PROVE  CreditInv'
    <3>1. job'["board"] = job["board"] /\ job'["link"] = job["link"]
      BY <2>0 DEF JobsFit, Callers
    <3>2. \A q \in Movers: job'[q] = job[q]
      BY <2>0, MoversCall DEF JobsFit
    <3> QED BY <2>0, <3>1, <3>2, CreditFrame DEF Rebases
  <2>1. CASE UNCHANGED <<lastPly, ply, credits, appPlies, session, goal, seen, over, job>>
    BY <2>0, <2>1
  <2>2. CASE UNCHANGED vars
    BY <2>1, <2>2 DEF vars, creditVars, gameVars, appVars, callVars, history
  <2>3. CASE \E r \in Runs: Exit(r)
    BY <2>1, <2>3 DEF Exit, creditVars, gameVars, appVars, callVars, history
  <2>4. CASE \E r \in Runs: Tick(r)
    <3>1. /\ UNCHANGED <<lastPly, ply, credits, appPlies, session, goal, seen, over>>
          /\ job' = job \/ job' = [job EXCEPT !["flag"] = <<"end", "stop">>]
      BY <2>4 DEF Tick, creditVars, gameVars, appVars
    <3> QED BY <2>0, <3>1
  <2>5. CASE Time
    BY <2>1, <2>5 DEF Time, Advance, creditVars, gameVars, appVars, callVars
  <2>6. ASSUME NEW p \in Callers, Call(p) PROVE CreditInv'
    <3>1. CASE Configure(p) \/ Reset(p)
      BY <3>1, CreditSet
    <3>2. CASE Baseline(p)
      BY <3>2, CreditRebase
    <3>3. CASE Turn(p) \/ Credit(p) \/ Look(p) \/ Give(p)
      BY <3>3, CreditTurn, CreditCredit, CreditLook, CreditGive
    <3>4. CASE \/ Stop(p) \/ Joined(p) \/ StartClock(p) \/ Pause(p) \/ Resume(p) \/ End(p)
               \/ ResumeIfPlaying(p)
      <4>1. /\ UNCHANGED <<lastPly, ply, credits, appPlies, session, goal, seen>>
            /\ over => over'
        <5>1. CASE Stop(p) \/ Joined(p) \/ StartClock(p) \/ Pause(p) \/ Resume(p)
          BY <5>1 DEF Stop, Joined, StartClock, Pause, Resume, creditVars, gameVars, appVars,
                      history
        <5>2. CASE End(p)
          BY <5>2 DEF End, creditVars, appVars, history
        <5>3. CASE ResumeIfPlaying(p)
          BY <5>3 DEF ResumeIfPlaying, creditVars, gameVars, appVars, history
        <5> QED BY <3>4, <5>1, <5>2, <5>3
      <4> QED BY <3>4, <4>1, QuietCall, CreditFrame
    <3> QED BY <2>6, <3>1, <3>2, <3>3, <3>4 DEF Call
  <2>7. CASE Play
    <3>1. CASE HandOver
      BY <2>1, <3>1 DEF HandOver, NothingElse, creditVars, gameVars, appVars, callVars, history
    <3>2. CASE OpenMenu \/ CloseMenu \/ Suspend \/ ResumeGame
      <4>1. /\ UNCHANGED <<lastPly, ply, credits, appPlies, session, goal, seen>>
            /\ (over => over')
            /\ \E j: job' = [job EXCEPT !["menu"] = j]
        BY <3>2 DEF OpenMenu, CloseMenu, Suspend, ResumeGame, NothingElse, creditVars, gameVars,
                    history
      <4> QED BY <2>0, <4>1
    <3>3. CASE Task
      <4>1. /\ UNCHANGED <<lastPly, ply, credits, appPlies, session, goal, seen>>
            /\ (over => over')
            /\ job' = [job EXCEPT !["worker"] = <<"stop">>]
        BY <3>3 DEF Task, NothingElse, creditVars, history
      <4> QED BY <2>0, <4>1
    <3> QED BY <2>7, <3>1, <3>2, <3>3, CreditMove, CreditCorrect, CreditTakeback, CreditNewGame,
               CreditSession DEF Play
  <2> QED BY <2>2, <2>3, <2>4, <2>5, <2>6, <2>7 DEF Next
<1>3. CreditInv /\ TypeInv => CreditedOnce
  <2> SUFFICES ASSUME CreditInv, TypeInv PROVE CreditedOnce
    OBVIOUS
  <2>1. ply \in Nat /\ lastPly \in Nat /\ MaxPly \in Nat /\ ply <= MaxPly
    BY ClockNumbersAssumption DEF TypeInv, PliesFit
  <2>2. /\ \A k \in 1..MaxPly: credits[k] <= 1
        /\ \A k \in appPlies: credits[k] = 0
    BY DEF CreditInv, GivenOnce, CreditsFit
  <2>3. ASSUME Settled, ~session, ~over, NEW k \in 1..ply, k \notin appPlies
        PROVE  credits[k] = 1
    <3>1. job["board"] = <<>> /\ job["link"] = <<>> /\ MoversIdle
      BY <2>3, MoversCall DEF Settled, Free, Callers, MoversIdle
    <3>3. ~Rebases
      BY <3>1, Rebase DEF Rebases
    <3>4. ply <= lastPly
      BY <2>1, <2>3, <3>1, <3>3 DEF CreditInv, Due
    <3>5. k \in 1..MaxPly /\ k <= lastPly
      BY <2>1, <3>4
    <3> QED BY <2>3, <3>1, <3>5 DEF CreditInv, Behind
  <2> QED BY <2>2, <2>3 DEF CreditedOnce
<1> QED BY <1>1, <1>2, <1>3, TypesInv, PTL DEF Spec

----------------------------------------------------------------------------
(* The clock counts while the game is played                               *)

Counting == running /\ ~paused

\* Somebody will start the clock.
Starts ==
    \/ \E p \in Movers: job[p] = <<"start", "credit">>
    \/ job["menu"] \in {<<"resume">>, <<"start">>}
    \/ job["link"] \notin {<<>>, <<"pause">>}

\* In a game that has begun and goes on, the clock counts or will be started, unless
\* an app plays, the game is suspended or a menu holds the clock.
WillCount ==
    started /\ ~over /\ ~session /\ (screen = "game" \/ (screen = "menu" /\ ~held)) =>
        Counting \/ Starts

\* Who stops or pauses it has a reason that lasts.
BoardFirst == job["board"] # <<>> => ~started /\ MoversIdle
StopsAreDue ==
    job["worker"] = <<"stop">> \/ job["menu"] = <<"stop">> \/ job["flag"] = <<"stop">> => over
PausesAreDue ==
    /\ job["menu"] = <<"pause">> => screen = "suspended" \/ (screen = "menu" /\ held)
    /\ job["link"] = <<"pause">> => session

TimedInv == WillCount /\ BoardFirst /\ StopsAreDue /\ PausesAreDue

LEMMA Different ==
    /\ Head(<<"pause">>) = "pause" /\ Head(<<"resume">>) = "resume" /\ Head(<<"start">>) = "start"
    /\ Head(<<"stop">>) = "stop" /\ Head(<<"credit">>) = "credit"
    /\ Head(<<"resume if playing">>) = "resume if playing"
    /\ Head(<<"start", "credit">>) = "start" /\ Tail(<<"start", "credit">>) = <<"credit">>
    /\ Tail(<<"start">>) = <<>>
    /\ Head(<<"baseline", "resume if playing">>) = "baseline"
    /\ Head(<<"end", "stop">>) = "end"
    /\ <<"pause">> # <<>> /\ <<"resume">> # <<>> /\ <<"start">> # <<>> /\ <<"stop">> # <<>>
    /\ <<"credit">> # <<>> /\ <<"start", "credit">> # <<>> /\ <<"resume if playing">> # <<>>
    /\ <<"baseline", "resume if playing">> # <<>>
<1>1. /\ Head(<<"pause">>) = "pause" /\ Head(<<"resume">>) = "resume"
      /\ Head(<<"start">>) = "start" /\ Head(<<"stop">>) = "stop" /\ Head(<<"credit">>) = "credit"
      /\ Head(<<"resume if playing">>) = "resume if playing"
  BY Tuples
<1>2. /\ Head(<<"start", "credit">>) = "start" /\ Tail(<<"start", "credit">>) = <<"credit">>
      /\ Tail(<<"start">>) = <<>>
      /\ Head(<<"end", "stop">>) = "end"
  BY Tuples
<1>3. /\ <<"pause">> # <<>> /\ <<"resume">> # <<>> /\ <<"start">> # <<>> /\ <<"stop">> # <<>>
      /\ <<"credit">> # <<>> /\ <<"resume if playing">> # <<>>
  BY Tuples
<1>4. <<"start", "credit">> # <<>> /\ <<"baseline", "resume if playing">> # <<>>
  BY Tuples
<1> QED BY <1>1, <1>2, <1>3, <1>4, Rebase

LEMMA TimedInit == Init => TimedInv
<1> SUFFICES ASSUME Init PROVE TimedInv
  OBVIOUS
<1>1. \A p \in Callers: job[p] = <<>>
  BY DEF Init
<1> QED BY <1>1, Different, MoversCall
    DEF Init, Callers, TimedInv, WillCount, BoardFirst, StopsAreDue, PausesAreDue

\* Neither the flags nor who has what to do change.
LEMMA TimedFrame ==
    ASSUME TimedInv, UNCHANGED <<running, paused, started, session, screen, held>>, over => over',
           \A p \in {"board", "worker", "menu", "link"}: job'[p] = job[p],
           job'["flag"] = job["flag"] \/ job'["flag"] = <<"end", "stop">> \/ over',
           \A p \in Movers: \/ job'[p] = job[p]
                            \/ job[p] # <<"start", "credit">> /\ job["board"] = <<>>
    PROVE  TimedInv'
<1>1. Starts => Starts'
  BY DEF Starts
<1>2. WillCount' /\ BoardFirst'
  BY <1>1 DEF TimedInv, WillCount, BoardFirst, Counting, MoversIdle
<1>3. StopsAreDue' /\ PausesAreDue'
  BY Different DEF TimedInv, StopsAreDue, PausesAreDue
<1> QED BY <1>2, <1>3 DEF TimedInv

LEMMA TimedStop ==
    ASSUME TimedInv, JobsFit, NEW p \in Callers, Stop(p)
    PROVE  TimedInv'
<1>1. job[p] # <<>> /\ Head(job[p]) = "stop" /\ job'[p] = Tail(job[p])
  BY Asked, Finishes DEF Stop
<1>2. \A q \in Callers: q # p => job'[q] = job[q]
  BY Finishes DEF Stop
<1>3. UNCHANGED <<over, started, session, screen, held>>
  BY DEF Stop, appVars, gameVars
<1>4. CASE p = "board"
  <2>1. /\ ~started /\ \A q \in {"worker", "menu", "link", "flag"}: job'[q] = job[q]
        /\ MoversIdle'
    BY <1>1, <1>2, <1>4, MoversCall DEF TimedInv, BoardFirst, Callers, MoversIdle
  <2>2. WillCount' /\ BoardFirst'
    BY <1>1, <1>3, <1>4, <2>1 DEF TimedInv, WillCount, BoardFirst
  <2>3. StopsAreDue' /\ PausesAreDue'
    BY <1>3, <2>1 DEF TimedInv, StopsAreDue, PausesAreDue
  <2> QED BY <2>2, <2>3 DEF TimedInv
<1>5. CASE p \in {"worker", "menu", "flag"}
  <2>1. Tail(job[p]) = <<>>
    BY <1>5, Asked DEF Stop
  <2>2. over
    <3>1. job[p] = <<"stop">>
      BY <1>1, <1>5, <2>1, Different DEF JobsFit, WorkerJobs, MenuJobs, FlagJobs
    <3> QED BY <1>5, <3>1 DEF TimedInv, StopsAreDue
  <2>3. WillCount' /\ StopsAreDue'
    BY <1>3, <2>2 DEF WillCount, StopsAreDue
  <2>4. /\ job'["board"] = job["board"] /\ job'["link"] = job["link"]
        /\ \A q \in Movers: job'[q] = job[q]
    BY <1>2, <1>5, MoversCall DEF Callers
  <2>5. job'["menu"] = job["menu"] \/ job'["menu"] = <<>>
    BY <1>1, <1>2, <1>5, <2>1 DEF Callers
  <2>6. BoardFirst' /\ PausesAreDue'
    BY <1>3, <2>4, <2>5, Different DEF TimedInv, BoardFirst, PausesAreDue, MoversIdle
  <2> QED BY <2>3, <2>6 DEF TimedInv
<1> QED BY <1>4, <1>5, Asked DEF Stop

LEMMA TimedStart ==
    ASSUME TimedInv, JobsFit, NEW p \in Callers, StartClock(p)
    PROVE  TimedInv'
<1>1. /\ p \in Movers \union {"menu", "link"} /\ job'[p] \in {<<>>, <<"credit">>}
      /\ job[p] # <<>>
  BY Asked, Finishes DEF StartClock
<1>2. \A q \in Callers: q # p => job'[q] = job[q]
  BY Finishes DEF StartClock
<1>3. UNCHANGED <<over, started, session, screen, held>> /\ running' /\ ~paused'
  BY DEF StartClock, appVars, gameVars
<1>4. WillCount'
  BY <1>3 DEF WillCount, Counting
<1>5. job'["board"] = job["board"]
  BY <1>1, <1>2, MoversCall DEF Callers
<1>6. \A q \in Callers: job'[q] = job[q] \/ (job'[q] # <<"stop">> /\ job'[q] # <<"pause">>)
  BY <1>1, <1>2, Different
<1>7. StopsAreDue' /\ PausesAreDue'
  BY <1>3, <1>6 DEF TimedInv, StopsAreDue, PausesAreDue, Callers
<1>8. BoardFirst'
  <2>1. CASE p \in Movers
    BY <1>1, <1>5, <2>1 DEF TimedInv, BoardFirst, MoversIdle
  <2>2. CASE p \notin Movers
    BY <1>2, <1>3, <1>5, <2>2, MoversCall DEF TimedInv, BoardFirst, MoversIdle
  <2> QED BY <2>1, <2>2
<1> QED BY <1>4, <1>7, <1>8 DEF TimedInv

LEMMA TimedPause ==
    ASSUME TimedInv, JobsFit, NEW p \in Callers, Pause(p)
    PROVE  TimedInv'
<1>1. /\ p \in {"menu", "link"} /\ job[p] # <<>> /\ Head(job[p]) = "pause"
      /\ Tail(job[p]) = <<>> /\ job'[p] = <<>>
  BY Asked, Finishes DEF Pause
<1>2. \A q \in Callers: q # p => job'[q] = job[q]
  BY Finishes DEF Pause
<1>3. UNCHANGED <<over, started, session, screen, held>>
  BY DEF Pause, appVars, gameVars
<1>4. job[p] = <<"pause">>
  BY <1>1, Different DEF JobsFit, MenuJobs, LinkJobs
<1>5. WillCount'
  BY <1>1, <1>3, <1>4 DEF TimedInv, PausesAreDue, WillCount
<1>6. \A q \in Callers: job'[q] = job[q] \/ (q # "board" /\ job'[q] = <<>>)
  BY <1>1, <1>2
<1>7. BoardFirst' /\ StopsAreDue' /\ PausesAreDue'
  BY <1>3, <1>6, Different, MoversCall
  DEF TimedInv, BoardFirst, StopsAreDue, PausesAreDue, Callers, MoversIdle
<1> QED BY <1>5, <1>7 DEF TimedInv

LEMMA TimedResume ==
    ASSUME TimedInv, JobsFit, NEW p \in Callers, Resume(p)
    PROVE  TimedInv'
<1>1. p \in {"menu", "link"} /\ Tail(job[p]) = <<>>
  BY Asked DEF Resume
<1>2. /\ UNCHANGED <<over, started, session, screen, held>>
      /\ running' = running
  BY DEF Resume, appVars, gameVars
<1>3. \/ running /\ ~paused' /\ job' = [job EXCEPT ![p] = <<>>]
      \/ job' = [job EXCEPT ![p] = <<"start">>]
  <2>1. <<"start">> \o <<>> = <<"start">>
    BY Tuples
  <2> QED BY <1>1, <2>1 DEF Resume, Done, ThenDo
<1>4. /\ \A q \in Callers: q # p => job'[q] = job[q]
      /\ job'[p] \in {<<>>, <<"start">>}
      /\ (running' /\ ~paused') \/ job'[p] = <<"start">>
  BY <1>2, <1>3 DEF JobsFit
<1>5. WillCount'
  <2>1. job'[p] = <<"start">> => Starts'
    BY <1>1, Different DEF Starts
  <2> QED BY <1>4, <2>1 DEF WillCount, Counting
<1>6. job'["board"] = job["board"] /\ \A q \in Movers: job'[q] = job[q]
  BY <1>1, <1>4, MoversCall DEF Callers
<1>7. \A q \in Callers: job'[q] = job[q] \/ (job'[q] # <<"stop">> /\ job'[q] # <<"pause">>)
  BY <1>4, Different
<1>8. BoardFirst' /\ StopsAreDue' /\ PausesAreDue'
  BY <1>2, <1>6, <1>7 DEF TimedInv, BoardFirst, StopsAreDue, PausesAreDue, Callers, MoversIdle
<1> QED BY <1>5, <1>8 DEF TimedInv

LEMMA TimedSet ==
    ASSUME TimedInv, JobsFit, NEW p \in Callers, Configure(p) \/ Reset(p)
    PROVE  TimedInv'
<1>1. p = "board" /\ job[p] # <<>> /\ Done(p)
  BY Asked DEF Configure, Reset
<1>2. /\ \A q \in {"worker", "menu", "link", "flag"}: job'[q] = job[q]
      /\ \A q \in Movers: job'[q] = job[q]
  BY <1>1, Finishes, MoversCall DEF Callers
<1>3. UNCHANGED <<over, started, session, screen, held>>
  BY DEF Configure, Reset, appVars, gameVars
<1>4. ~started /\ MoversIdle
  BY <1>1 DEF TimedInv, BoardFirst
<1>5. WillCount' /\ BoardFirst'
  BY <1>2, <1>3, <1>4 DEF WillCount, BoardFirst, MoversIdle
<1>6. StopsAreDue' /\ PausesAreDue'
  BY <1>2, <1>3 DEF TimedInv, StopsAreDue, PausesAreDue
<1> QED BY <1>5, <1>6 DEF TimedInv

\* The link: what is on the board is taken as applied, and the clock resumed.
LEMMA TimedLink ==
    ASSUME TimedInv, JobsFit, NEW p \in Callers, Baseline(p) \/ ResumeIfPlaying(p)
    PROVE  TimedInv'
<1>1. p = "link"
  BY Asked DEF Baseline, ResumeIfPlaying
<1>2. UNCHANGED <<over, started, session, screen, held>>
  BY DEF Baseline, ResumeIfPlaying, appVars, gameVars
<1>3. /\ \A q \in Callers: q # p => job'[q] = job[q]
      /\ \/ job'[p] \in {<<"resume if playing">>, <<"resume">>}
         \/ over /\ job'[p] = <<>>
  <2>1. CASE Baseline(p)
    BY <2>1, Asked, Finishes DEF Baseline
  <2>2. CASE ResumeIfPlaying(p)
    <3>1. Tail(job[p]) = <<>>
      BY <2>2, Asked DEF ResumeIfPlaying
    <3>2. <<"resume">> \o <<>> = <<"resume">> /\ <<>> \o <<>> = <<>>
      BY Tuples
    <3>3. job' = [job EXCEPT ![p] = IF over THEN <<>> ELSE <<"resume">>]
      BY <2>2, <3>1, <3>2 DEF ResumeIfPlaying, ThenDo
    <3> QED BY <3>3 DEF JobsFit
  <2> QED BY <2>1, <2>2
<1>4. WillCount'
  <2>1. ~over => Starts'
    BY <1>1, <1>3, Different DEF Starts
  <2> QED BY <1>2, <2>1 DEF WillCount
<1>5. /\ \A q \in {"board", "worker", "menu", "flag"}: job'[q] = job[q]
      /\ \A q \in Movers: job'[q] = job[q]
  BY <1>1, <1>3, MoversCall DEF Callers
<1>6. BoardFirst' /\ StopsAreDue'
  BY <1>2, <1>5 DEF TimedInv, BoardFirst, StopsAreDue, MoversIdle
<1>7. PausesAreDue'
  BY <1>1, <1>2, <1>3, <1>5, Different DEF TimedInv, PausesAreDue
<1> QED BY <1>4, <1>6, <1>7 DEF TimedInv

\* A mover credits.
LEMMA TimedCredit ==
    ASSUME TimedInv, JobsFit, NEW p \in Callers, Credit(p) \/ Look(p) \/ Give(p)
    PROVE  TimedInv'
<1>1. p \in Movers /\ job[p] # <<>> /\ Head(job[p]) # "start"
  <2>1. PICK op \in {"credit", "look", "give"}: At(p, op)
    BY DEF Credit, Look, Give
  <2> QED BY <2>1, Asked
<1>2. UNCHANGED <<running, paused, over, started, session, screen, held>>
  BY DEF Credit, Look, Give, flagVars, appVars, gameVars
<1>3. \A q \in Callers: q # p => job'[q] = job[q]
  BY DEF Credit, Look, Give, ThenDo, Done, JobsFit
<1>4. job[p] # <<"start", "credit">> /\ job["board"] = <<>>
  BY <1>1, Different DEF TimedInv, BoardFirst, MoversIdle
<1>5. \A q \in {"board", "worker", "menu", "link", "flag"}: job'[q] = job[q]
  BY <1>1, <1>3, MoversCall DEF Callers
<1>6. \A q \in Movers: job'[q] = job[q] \/ q = p
  BY <1>3, MoversCall
<1> QED BY <1>2, <1>4, <1>5, <1>6, TimedFrame

\* The first turn that is told makes its mover start the clock.
LEMMA TimedTurn ==
    ASSUME TimedInv, JobsFit, NEW p \in Callers, Turn(p)
    PROVE  TimedInv'
<1>1. p \in Movers /\ job[p] # <<>> /\ Head(job[p]) = "turn" /\ Tail(job[p]) = <<>>
  BY Asked DEF Turn
<1>2. UNCHANGED <<running, paused, over, session, screen, held>> /\ started'
  BY DEF Turn, flagVars, gameVars
<1>3. /\ \A q \in Callers: q # p => job'[q] = job[q]
      /\ ~session /\ ~started => job'[p] = <<"start", "credit">>
  <2>1. <<"start", "credit">> \o <<>> = <<"start", "credit">>
    BY Pairs
  <2>2. \A q \in Callers: q # p => job'[q] = job[q]
    BY DEF Turn, ThenDo, JobsFit
  <2>3. CASE ~session /\ ~started
    <3>1. ThenDo(p, <<"start", "credit">>)
      BY <2>3 DEF Turn
    <3>2. job' = [job EXCEPT ![p] = <<"start", "credit">>]
      BY <1>1, <2>1, <3>1, ThenOnly
    <3> QED BY <2>2, <3>2 DEF JobsFit
  <2> QED BY <2>2, <2>3
<1>4. job[p] # <<"start", "credit">> /\ job["board"] = <<>>
  BY <1>1, Different DEF TimedInv, BoardFirst, MoversIdle
<1>5. \A q \in {"board", "worker", "menu", "link", "flag"}: job'[q] = job[q]
  BY <1>1, <1>3, MoversCall DEF Callers
<1>6. WillCount'
  <2>1. CASE session
    BY <1>2, <2>1 DEF WillCount
  <2>2. CASE ~session /\ ~started
    BY <1>1, <1>3, <2>2 DEF WillCount, Starts
  <2>3. CASE started
    <3>1. Starts => Starts'
      BY <1>3, <1>4, <1>5, MoversCall DEF Starts
    <3> QED BY <1>2, <2>3, <3>1 DEF TimedInv, WillCount, Counting
  <2> QED BY <2>1, <2>2, <2>3
<1>7. BoardFirst'
  BY <1>4, <1>5 DEF BoardFirst
<1>8. StopsAreDue' /\ PausesAreDue'
  BY <1>2, <1>5 DEF TimedInv, StopsAreDue, PausesAreDue
<1> QED BY <1>6, <1>7, <1>8 DEF TimedInv

\* A move is shown, or a turn told once more.
LEMMA TimedMove ==
    ASSUME Orderly, TimedInv, JobsFit, Correct \/ \E p \in Movers: Move(p)
    PROVE  TimedInv'
<1>1. /\ UNCHANGED <<running, paused, started, session, screen, held>> /\ (over => over')
      /\ job["board"] = <<>>
      /\ job' = job \/ \E p \in Movers: job[p] = <<>> /\ job' = [job EXCEPT ![p] = <<"turn">>]
  <2>1. CASE Correct
    <3>1. "hand" \in Movers
      BY DEF Movers
    <3> QED BY <2>1, <3>1 DEF Correct, BoardIsFree, Free, NothingElse, flagVars, appVars, gameVars
  <2>2. CASE \E p \in Movers: Move(p)
    BY <2>2 DEF Move, Orderly, Free, NothingElse, flagVars
  <2> QED BY <2>1, <2>2
<1>2. \A q \in {"board", "worker", "menu", "link", "flag"}: job'[q] = job[q]
  BY <1>1, MoversCall DEF JobsFit, Callers
<1>3. \A q \in Movers: job'[q] = job[q] \/ job[q] = <<>>
  BY <1>1, MoversCall DEF JobsFit
<1> QED BY <1>1, <1>2, <1>3, Different, TimedFrame

LEMMA TimedEnd ==
    ASSUME TimedInv, JobsFit, NEW p \in Callers, End(p)
    PROVE  TimedInv'
<1>1. p = "flag" /\ Done(p)
  BY Asked DEF End
<1>2. UNCHANGED <<running, paused, started, session, screen, held>> /\ over'
  BY DEF End, flagVars, appVars
<1>3. \A q \in {"board", "worker", "menu", "link"} \union Movers: job'[q] = job[q]
  BY <1>1, Finishes, MoversCall DEF Callers
<1> QED BY <1>2, <1>3, TimedFrame

LEMMA TimedNewGame ==
    ASSUME Orderly, TimedInv, JobsFit, NewGame
    PROVE  TimedInv'
<1>1. /\ Settled /\ ~started'
      /\ job' = [job EXCEPT !["board"] = <<"stop", "configure", "stop", "reset">>]
  BY DEF NewGame, Orderly
<1>2. \A q \in Callers: job[q] = <<>>
  BY <1>1 DEF Settled, Free
<1>3. \A q \in {"worker", "menu", "link", "flag"} \union Movers: job'[q] = <<>>
  BY <1>1, <1>2, MoversCall DEF JobsFit, Callers
<1>4. WillCount' /\ BoardFirst'
  BY <1>1, <1>3 DEF WillCount, BoardFirst, MoversIdle
<1>5. StopsAreDue' /\ PausesAreDue'
  BY <1>3, Different DEF StopsAreDue, PausesAreDue
<1> QED BY <1>4, <1>5 DEF TimedInv

\* The end is told: the worker is to stop a clock that nobody needs.
LEMMA TimedTask ==
    ASSUME TimedInv, JobsFit, Task
    PROVE  TimedInv'
<1>1. /\ UNCHANGED <<running, paused, started, session, screen, held>> /\ over'
      /\ job' = [job EXCEPT !["worker"] = <<"stop">>]
  BY DEF Task, NothingElse, flagVars
<1>2. \A q \in {"board", "menu", "link", "flag"} \union Movers: job'[q] = job[q]
  BY <1>1, MoversCall DEF JobsFit, Callers
<1>3. BoardFirst' /\ PausesAreDue'
  BY <1>1, <1>2 DEF TimedInv, BoardFirst, PausesAreDue, MoversIdle
<1> QED BY <1>1, <1>3 DEF TimedInv, WillCount, StopsAreDue

LEMMA TimedMenu ==
    ASSUME TimedInv, JobsFit, OpenMenu \/ CloseMenu \/ Suspend \/ ResumeGame
    PROVE  TimedInv'
<1>1. /\ UNCHANGED <<running, paused, started, session>> /\ job["menu"] = <<>>
      /\ \E j: job' = [job EXCEPT !["menu"] = j]
  BY DEF OpenMenu, CloseMenu, Suspend, ResumeGame, Free, NothingElse, flagVars
<1>2. /\ \A q \in {"board", "worker", "link", "flag"}: job'[q] = job[q]
      /\ \A q \in Movers: job'[q] = job[q]
  BY <1>1, MoversCall DEF JobsFit, Callers
<1>3. BoardFirst'
  BY <1>1, <1>2 DEF TimedInv, BoardFirst, MoversIdle
<1>4. job["menu"] \notin {<<"resume">>, <<"start">>}
  BY <1>1, Different
<1>5. CASE OpenMenu
  <2>1. /\ screen = "game" /\ screen' = "menu" /\ over' = over
        /\ held' <=> Counting
        /\ job'["menu"] = IF Counting THEN <<"pause">> ELSE <<>>
    BY <1>5 DEF OpenMenu, Counting, JobsFit, Callers, gameVars
  <2>2. Starts => Starts'
    BY <1>2, <1>4 DEF Starts
  <2>3. WillCount'
    BY <1>1, <2>1, <2>2 DEF TimedInv, WillCount, Counting
  <2>4. StopsAreDue'
    BY <1>2, <2>1, Different DEF TimedInv, StopsAreDue
  <2>5. PausesAreDue'
    BY <1>1, <1>2, <2>1, Different DEF TimedInv, PausesAreDue
  <2> QED BY <1>3, <2>3, <2>4, <2>5 DEF TimedInv
<1>6. CASE CloseMenu
  <2>1. /\ screen = "menu" /\ screen' = "game"
        /\ \/ over' = over /\ job'["menu"] = IF held THEN <<"resume">> ELSE <<>>
           \/ over' = TRUE /\ job'["menu"] = <<"stop">>
    BY <1>6 DEF CloseMenu, JobsFit, Callers
  <2>2. Starts => Starts'
    BY <1>2, <1>4 DEF Starts
  <2>3. WillCount'
    <3>1. CASE over'
      BY <3>1 DEF WillCount
    <3>2. CASE ~over' /\ held
      <4>1. Starts'
        BY <2>1, <3>2 DEF Starts
      <4> QED BY <4>1 DEF WillCount
    <3>3. CASE ~over' /\ ~held
      BY <1>1, <2>1, <2>2, <3>3 DEF TimedInv, WillCount, Counting
    <3> QED BY <3>1, <3>2, <3>3
  <2>4. StopsAreDue'
    BY <1>2, <2>1, Different DEF TimedInv, StopsAreDue
  <2>5. PausesAreDue'
    BY <1>1, <1>2, <2>1, Different DEF TimedInv, PausesAreDue
  <2> QED BY <1>3, <2>3, <2>4, <2>5 DEF TimedInv
<1>7. CASE Suspend
  <2>1. screen' = "suspended" /\ over' = over /\ job'["menu"] = <<"pause">>
    BY <1>7 DEF Suspend, JobsFit, Callers, gameVars
  <2>2. WillCount' /\ StopsAreDue' /\ PausesAreDue'
    BY <1>1, <1>2, <2>1, Different DEF TimedInv, WillCount, StopsAreDue, PausesAreDue
  <2> QED BY <1>3, <2>2 DEF TimedInv
<1>8. CASE ResumeGame
  <2>1. screen' = "game" /\ over' = over /\ job'["menu"] = <<"resume">>
    BY <1>8 DEF ResumeGame, JobsFit, Callers, gameVars
  <2>2. WillCount' /\ StopsAreDue' /\ PausesAreDue'
    BY <1>1, <1>2, <2>1, Different
    DEF TimedInv, WillCount, Starts, StopsAreDue, PausesAreDue
  <2> QED BY <1>3, <2>2 DEF TimedInv
<1> QED BY <1>5, <1>6, <1>7, <1>8

LEMMA TimedSession ==
    ASSUME TimedInv, JobsFit, AppComes \/ AppLeaves
    PROVE  TimedInv'
<1>1. /\ UNCHANGED <<running, paused, started, screen, held, over>>
      /\ \/ session' /\ job' = [job EXCEPT !["link"] = <<"pause">>]
         \/ job' = [job EXCEPT !["link"] = <<"baseline", "resume if playing">>]
  BY DEF AppComes, AppLeaves, NothingElse, flagVars, gameVars
<1>2. /\ \A q \in {"board", "worker", "menu", "flag"}: job'[q] = job[q]
      /\ \A q \in Movers: job'[q] = job[q]
      /\ \/ session' /\ job'["link"] = <<"pause">>
         \/ job'["link"] = <<"baseline", "resume if playing">>
  BY <1>1, MoversCall DEF JobsFit, Callers
<1>3. WillCount'
  <2>1. <<"baseline", "resume if playing">> \notin {<<>>, <<"pause">>}
    BY Different
  <2> QED BY <1>2, <2>1 DEF WillCount, Starts
<1>4. BoardFirst' /\ StopsAreDue'
  BY <1>1, <1>2 DEF TimedInv, BoardFirst, StopsAreDue, MoversIdle
<1>5. PausesAreDue'
  BY <1>1, <1>2, Different DEF TimedInv, PausesAreDue
<1> QED BY <1>3, <1>4, <1>5 DEF TimedInv

\* In a game that has begun and goes on, the clock counts when everything has been
\* dealt with, whatever menus, pauses, sessions, takebacks and new games there were, as
\* long as no app or new game comes before what went before has been dealt with and no
\* finished game is taken up again.
THEOREM PlayCostsTime == Orderly /\ Spec => []PlayIsTimed
<1> SUFFICES ASSUME Orderly PROVE Spec => []PlayIsTimed
  OBVIOUS
<1>1. TimedInv /\ JobsFit /\ [Next]_vars => TimedInv'
  <2> SUFFICES ASSUME TimedInv, JobsFit, [Next]_vars PROVE TimedInv'
    OBVIOUS
  <2>1. CASE UNCHANGED vars
    BY <2>1, TimedFrame DEF vars, flagVars, appVars, gameVars, callVars
  <2>2. CASE (\E r \in Runs: Exit(r)) \/ Time
    BY <2>2, TimedFrame DEF Exit, Time, Advance, flagVars, appVars, gameVars, callVars
  <2>3. CASE \E r \in Runs: Tick(r)
    <3>1. /\ UNCHANGED <<running, paused, started, session, screen, held, over>>
          /\ job' = job \/ job' = [job EXCEPT !["flag"] = <<"end", "stop">>]
      BY <2>3 DEF Tick, flagVars, appVars, gameVars
    <3>2. /\ \A p \in {"board", "worker", "menu", "link"} \union Movers: job'[p] = job[p]
          /\ job'["flag"] = job["flag"] \/ job'["flag"] = <<"end", "stop">>
      BY <3>1, MoversCall DEF JobsFit, Callers
    <3> QED BY <3>1, <3>2, TimedFrame
  <2>4. ASSUME NEW p \in Callers, Call(p) PROVE TimedInv'
    <3>1. CASE Joined(p)
      BY <3>1, TimedFrame DEF Joined, flagVars, appVars, gameVars
    <3> QED BY <2>4, <3>1, TimedStop, TimedStart, TimedPause, TimedResume, TimedSet, TimedLink,
               TimedTurn, TimedCredit, TimedEnd DEF Call
  <2>5. CASE Play
    <3>1. CASE (\E p \in Movers: Move(p)) \/ Correct
      BY <3>1, TimedMove
    <3>2. CASE Takeback
      <4>1. ~over
        BY <3>2 DEF Takeback, Orderly
      <4> QED BY <3>2, <4>1, TimedFrame DEF Takeback, NothingElse, flagVars, appVars, callVars
    <3>3. CASE HandOver
      BY <3>3, TimedFrame DEF HandOver, NothingElse, flagVars, appVars, gameVars, callVars
    <3> QED BY <2>5, <3>1, <3>2, <3>3, TimedNewGame, TimedTask, TimedMenu, TimedSession DEF Play
  <2> QED BY <2>1, <2>2, <2>3, <2>4, <2>5 DEF Next
<1>2. TimedInv => PlayIsTimed
  <2> SUFFICES ASSUME TimedInv, Settled, started, ~over, ~session, screen = "game"
               PROVE  running /\ ~paused
    BY DEF PlayIsTimed
  <2>1. \A p \in Callers: job[p] = <<>>
    BY DEF Settled, Free
  <2>2. ~Starts
    BY <2>1, Different, MoversCall DEF Starts, Callers
  <2> QED BY <2>2 DEF TimedInv, WillCount, Counting
<1> QED BY <1>1, <1>2, TimedInit, TypesInv, PTL DEF Spec

----------------------------------------------------------------------------
(* Nobody's clock counts outside the play                                  *)

\* No thread has a tick left to make and no flag has fallen.
Quiet == job["flag"] = <<>> /\ \A r \in Runs: todo[r] = 0

\* Who works alone: a new game, a menu and the link come when everything has been dealt
\* with, and nothing else happens before they have done their part.
Dealt == ends = 0 /\ job["worker"] = <<>> /\ MoversIdle /\ Quiet
NewGameAlone ==
    job["board"] # <<>> =>
        Dealt /\ job["menu"] = <<>> /\ job["link"] = <<>> /\ ~started /\ ~over /\ screen = "game"
MenuAlone ==
    job["menu"] # <<>> => Dealt /\ job["board"] = <<>> /\ job["link"] = <<>> /\ ~session
LinkAlone ==
    job["link"] # <<>> =>
        Dealt /\ job["board"] = <<>> /\ job["menu"] = <<>> /\ started /\ screen = "game"
AwayAlone ==
    screen # "game" =>
        /\ Dealt /\ job["board"] = <<>> /\ job["link"] = <<>> /\ job["menu"] \in {<<>>, <<"pause">>}
        /\ ~session /\ ~over
MoversApart == \A p, q \in Movers: p # q => job[p] = <<>> \/ job[q] = <<>>
Alone5 == NewGameAlone /\ MenuAlone /\ LinkAlone /\ AwayAlone /\ MoversApart

\* Whoever tells of a turn has seen a move made, if only an earlier one.
MovedFirst == started \/ ~MoversIdle => moved

\* The first move's start comes to a stopped clock.
FirstStart ==
    \A p \in Movers: job[p] = <<"start", "credit">> =>
        Quiet /\ ~running /\ ~session /\ started /\ ~over

\* Before the first turn is told the clock stands still, but for a new game's stop, and
\* a mover that is to tell of it has not ended the game.
NotBegun ==
    ~started =>
        /\ Quiet /\ ~held /\ screen # "suspended" /\ job["menu"] \in {<<>>, <<"stop">>}
        /\ running => job["board"] = <<"stop", "configure", "stop", "reset">>
        /\ MoversIdle \/ ~over

\* Once the game is over somebody stops a clock that counts, and nobody starts it.
EndStops ==
    over =>
        /\ Counting => \/ ends # 0
                       \/ job["worker"] = <<"stop">> \/ job["menu"] = <<"stop">>
                       \/ job["flag"] = <<"stop">>
        /\ job["menu"] \in {<<>>, <<"stop">>}
        /\ job["link"] \notin {<<"resume">>, <<"start">>}

\* In an app's session, and behind a menu, somebody pauses a clock that counts.
SessionPauses ==
    /\ session => job["link"] \in {<<>>, <<"pause">>} /\ (Counting => job["link"] = <<"pause">>)
    /\ job["link"] = <<"pause">> => session
MenuPauses ==
    /\ screen # "game" /\ Counting => job["menu"] = <<"pause">>
    /\ held => screen = "menu"
    /\ job["menu"] = <<"stop">> => over
    /\ job["menu"] = <<"pause">> => screen # "game"

\* The worker is told of no end but a game's.
EndsAreTold ==
    /\ ends \in Nat /\ (ends # 0 => over)
    /\ \A r \in Runs: todo[r] > 0 => r \in alive

Stands == FirstStart /\ NotBegun /\ EndStops /\ SessionPauses /\ MenuPauses
StoppedInv == Alone5 /\ MovedFirst /\ Stands /\ EndsAreTold

\* None of the conditions holds.
Calm == Conditions = {}

LEMMA TurnHeads ==
    /\ \A j \in TurnJobs: j # <<>> /\ Head(j) = "start" => j = <<"start", "credit">>
    /\ \A j \in TurnJobs: j # <<>> /\ Head(j) = "turn" => j = <<"turn">>
    /\ <<"credit">> # <<"start", "credit">> /\ <<"look">> # <<"start", "credit">>
    /\ <<"turn">> # <<"start", "credit">> /\ <<"give", "look">> # <<"start", "credit">>
<1>1. /\ Head(<<"turn">>) = "turn" /\ Head(<<"credit">>) = "credit" /\ Head(<<"look">>) = "look"
      /\ Head(<<"start", "credit">>) = "start" /\ Head(<<"give", "look">>) = "give"
  BY Tuples
<1> QED BY <1>1 DEF TurnJobs

LEMMA StoppedInit == Init => StoppedInv
<1> SUFFICES ASSUME Init PROVE StoppedInv
  OBVIOUS
<1>1. (\A p \in {"worker", "board", "menu", "link", "flag"}: job[p] = <<>>) /\ MoversIdle
  BY MoversCall DEF Init, Callers, MoversIdle
<1>2. Quiet
  BY <1>1 DEF Init, Quiet
<1>3. Alone5 /\ MovedFirst
  BY <1>1 DEF Init, Alone5, NewGameAlone, MenuAlone, LinkAlone, AwayAlone, MoversApart,
              MovedFirst, MoversIdle
<1>4. Stands
  <2>1. FirstStart /\ NotBegun
    BY <1>1, <1>2, Different DEF Init, FirstStart, NotBegun, MoversIdle
  <2> QED BY <1>1, <2>1, Different DEF Init, Stands, EndStops, SessionPauses, MenuPauses
<1>5. EndsAreTold
  BY <1>2 DEF Init, EndsAreTold, Quiet
<1> QED BY <1>3, <1>4, <1>5 DEF StoppedInv

\* While the worker, a mover or a flag is at work nobody else is, and the game is shown.
LEMMA AtWork ==
    ASSUME StoppedInv, ends # 0 \/ job["worker"] # <<>> \/ ~MoversIdle \/ ~Quiet
    PROVE  job["board"] = <<>> /\ job["menu"] = <<>> /\ job["link"] = <<>> /\ screen = "game"
  BY DEF StoppedInv, Alone5, NewGameAlone, MenuAlone, LinkAlone, AwayAlone, Dealt

\* Nothing changes that matters.
LEMMA StoppedFrame ==
    ASSUME StoppedInv,
           UNCHANGED <<running, paused, started, session, screen, held, ends, moved>>,
           over' <=> over,
           \A q \in Callers: job'[q] = job[q],
           \A r \in Runs: todo'[r] = todo[r],
           \A r \in Runs: todo'[r] > 0 => r \in alive'
    PROVE  StoppedInv'
<1>1. /\ \A q \in {"worker", "board", "menu", "link", "flag"}: job'[q] = job[q]
      /\ \A q \in Movers: job'[q] = job[q]
  BY MoversCall DEF Callers
<1>2. (Quiet' <=> Quiet) /\ (MoversIdle' <=> MoversIdle)
  BY <1>1 DEF Quiet, MoversIdle
<1>3. Alone5'
  BY <1>1, <1>2
  DEF StoppedInv, Alone5, NewGameAlone, MenuAlone, LinkAlone, AwayAlone, MoversApart, Dealt
<1>4. MovedFirst' /\ FirstStart' /\ NotBegun'
  BY <1>1, <1>2 DEF StoppedInv, Stands, MovedFirst, FirstStart, NotBegun
<1>5. EndStops' /\ SessionPauses' /\ MenuPauses'
  BY <1>1, <1>2 DEF StoppedInv, Stands, EndStops, SessionPauses, MenuPauses, Counting
<1>6. EndsAreTold'
  BY DEF StoppedInv, EndsAreTold
<1> QED BY <1>3, <1>4, <1>5, <1>6 DEF StoppedInv, Stands

\* Between its ticks, a thread has none left to make.
LEMMA PromptIsQuiet ==
    ASSUME Calm, StoppedInv, TypeInv, Prompt
    PROVE  \A r \in Runs: todo[r] = 0
<1> SUFFICES ASSUME NEW r \in Runs, todo[r] # 0 PROVE FALSE
  OBVIOUS
<1>1. todo[r] \in Nat /\ todo[r] > 0
  BY DEF TypeInv, TimesFit
<1>2. r \in alive
  BY <1>1 DEF StoppedInv, EndsAreTold
<1> QED BY <1>1, <1>2 DEF Prompt, Calm

\* A thread has ticks to make, or a flag has fallen, and more than before.
LEMMA StoppedLoud ==
    ASSUME StoppedInv, UNCHANGED <<running, paused, started, session, screen, held, over>>,
           UNCHANGED <<ends, moved>>,
           started, screen = "game", \A p \in Movers: job[p] # <<"start", "credit">>,
           job["board"] = <<>>, job["menu"] = <<>>, job["link"] = <<>>,
           \A q \in Callers: q # "flag" => job'[q] = job[q],
           job'["flag"] = job["flag"] \/ job["flag"] = <<>>,
           \A r \in Runs: todo'[r] > 0 => r \in alive'
    PROVE  StoppedInv'
<1>1. /\ \A q \in {"worker", "board", "menu", "link"}: job'[q] = job[q]
      /\ \A q \in Movers: job'[q] = job[q]
  BY MoversCall DEF Callers
<1>3. Alone5'
  BY <1>1 DEF StoppedInv, Alone5, NewGameAlone, MenuAlone, LinkAlone, AwayAlone, MoversApart
<1>4. MovedFirst' /\ FirstStart' /\ NotBegun'
  BY <1>1 DEF StoppedInv, MovedFirst, MoversIdle, FirstStart, NotBegun
<1>5. EndStops'
  BY <1>1, Different DEF StoppedInv, Stands, EndStops, Counting
<1>6. SessionPauses' /\ MenuPauses'
  BY <1>1 DEF StoppedInv, Stands, SessionPauses, MenuPauses, Counting
<1>7. EndsAreTold'
  BY DEF StoppedInv, EndsAreTold
<1> QED BY <1>3, <1>4, <1>5, <1>6, <1>7 DEF StoppedInv, Stands

LEMMA StoppedTime ==
    ASSUME Calm, StoppedInv, TypeInv, JobsFit, Time
    PROVE  StoppedInv'
<1>1. job["menu"] = <<>> /\ job["link"] = <<>> /\ job["board"] = <<>>
  BY DEF Time, Calm, Free
<1>2. PICK S \in SUBSET Idle: S = alive /\ Advance(S)
  BY DEF Time, Calm
<1>3. /\ UNCHANGED <<running, paused, started, session, screen, held, over, ends, moved>>
      /\ UNCHANGED <<job, alive>>
  BY <1>2 DEF Advance, flagVars, appVars, gameVars, callVars
<1>4. \A r \in Runs: todo'[r] > 0 => r \in alive'
  BY <1>2, <1>3, Advanced DEF StoppedInv, EndsAreTold
<1>5. CASE Counts
  <2>1. Counting /\ running
    BY <1>5 DEF Counts, Counting
  <2>2. started
    BY <1>1, <2>1, Tuples DEF StoppedInv, Stands, NotBegun
  <2>3. screen = "game" /\ \A p \in Movers: job[p] # <<"start", "credit">>
    BY <1>1, <2>1, Different DEF StoppedInv, Stands, MenuPauses, FirstStart
  <2> QED BY <1>1, <1>3, <1>4, <2>2, <2>3, StoppedLoud
<1>6. CASE ~Counts
  <2>1. \A r \in Runs: todo'[r] = todo[r]
    BY <1>2, <1>6, Advanced
  <2> QED BY <1>3, <1>4, <2>1, StoppedFrame
<1> QED BY <1>5, <1>6

LEMMA StoppedTick ==
    ASSUME StoppedInv, TypeInv, JobsFit, NEW r \in Runs, Tick(r)
    PROVE  StoppedInv'
<1>1. /\ UNCHANGED <<running, paused, started, session, screen, held, over>>
      /\ UNCHANGED <<ends, moved, alive>>
      /\ r \in alive /\ todo[r] > 0 /\ todo' = [todo EXCEPT ![r] = @ - 1]
      /\ \/ job' = job
         \/ job["flag"] = <<>> /\ job' = [job EXCEPT !["flag"] = <<"end", "stop">>]
  BY DEF Tick, Free, flagVars, appVars, gameVars
<1>2. ~Quiet
  BY <1>1 DEF Quiet
<1>3. job["board"] = <<>> /\ job["menu"] = <<>> /\ job["link"] = <<>> /\ screen = "game"
  BY <1>2, AtWork
<1>4. started /\ \A p \in Movers: job[p] # <<"start", "credit">>
  BY <1>2 DEF StoppedInv, Stands, NotBegun, FirstStart
<1>5. /\ \A q \in Callers: q # "flag" => job'[q] = job[q]
      /\ job'["flag"] = job["flag"] \/ job["flag"] = <<>>
  BY <1>1 DEF JobsFit
<1>6. \A q \in Runs: todo'[q] > 0 => q \in alive'
  <2>1. \A q \in Runs: q # r => todo'[q] = todo[q]
    BY <1>1 DEF TypeInv, TimesFit
  <2> QED BY <1>1, <2>1 DEF StoppedInv, EndsAreTold
<1> QED BY <1>1, <1>3, <1>4, <1>5, <1>6, StoppedLoud

\* What a service operation leaves alone.
LEMMA CallLeaves ==
    ASSUME NEW p \in Callers, Call(p)
    PROVE  /\ UNCHANGED <<session, screen, held, ends, todo, moved>> /\ alive \subseteq alive'
           /\ End(p) \/ UNCHANGED over
           /\ Turn(p) \/ UNCHANGED started
<1> USE DEF loopVars, appVars, gameVars, history
<1>1. CASE Stop(p) \/ Joined(p) \/ StartClock(p) \/ Pause(p)
  BY <1>1 DEF Stop, Joined, StartClock, Pause
<1>2. CASE Resume(p) \/ Configure(p) \/ Reset(p) \/ Baseline(p)
  BY <1>2 DEF Resume, Configure, Reset, Baseline
<1>3. CASE Turn(p) \/ End(p) \/ ResumeIfPlaying(p)
  BY <1>3 DEF Turn, End, ResumeIfPlaying
<1>4. CASE Credit(p) \/ Look(p) \/ Give(p)
  BY <1>4 DEF Credit, Look, Give
<1> QED BY <1>1, <1>2, <1>3, <1>4 DEF Call

\* Only a turn has a mover start the clock, and only a mover credits.
LEMMA OneOp ==
    ASSUME NEW p \in Callers, NEW op, At(p, op)
    PROVE  (End(p) => op = "end") /\ (Turn(p) => op = "turn")
  BY DEF At, End, Turn

\* One caller has less to do, and the clock does not count.
LEMMA StoppedLess ==
    ASSUME StoppedInv, TypeInv, NEW p \in Callers, p \notin Movers, ~Counting',
           UNCHANGED <<started, session, screen, held, over, ends, todo, moved>>,
           alive \subseteq alive',
           \A q \in Callers: q # p => job'[q] = job[q],
           job[p] # <<>>,
           \/ p = "board" /\ ~running'
           \/ p # "board" /\ job'[p] = <<>> /\ (running' = running \/ ~running')
    PROVE  StoppedInv'
<1>1. /\ \A q \in {"worker", "board", "menu", "link", "flag"}: q # p => job'[q] = job[q]
      /\ \A q \in Movers: job'[q] = job[q]
  BY MoversCall DEF Callers
<1>2. (MoversIdle' <=> MoversIdle) /\ (Quiet => Quiet')
  <2>1. job["flag"] = <<>> => job'["flag"] = <<>>
    BY <1>1
  <2> QED BY <1>1, <2>1 DEF MoversIdle, Quiet
<1>3. /\ job'["worker"] = job["worker"] \/ job'["worker"] = <<>>
      /\ job'["menu"] = job["menu"] \/ job'["menu"] = <<>>
      /\ job'["link"] = job["link"] \/ job'["link"] = <<>>
      /\ job'["board"] # <<>> => job["board"] # <<>>
  BY <1>1
<1>4. Alone5'
  BY <1>1, <1>2, <1>3
  DEF StoppedInv, Alone5, NewGameAlone, MenuAlone, LinkAlone, AwayAlone, MoversApart, Dealt
<1>5. MovedFirst' /\ FirstStart'
  <2>1. MovedFirst'
    BY <1>2 DEF StoppedInv, MovedFirst
  <2> SUFFICES ASSUME NEW q \in Movers, job'[q] = <<"start", "credit">>
               PROVE  Quiet' /\ ~running' /\ ~session' /\ started' /\ ~over'
    BY <2>1 DEF FirstStart
  <2>2. Quiet /\ ~running /\ ~session /\ started /\ ~over
    BY <1>1 DEF StoppedInv, Stands, FirstStart
  <2> QED BY <1>2, <2>2
<1>6. NotBegun'
  <2> SUFFICES ASSUME ~started
               PROVE  /\ Quiet' /\ ~held' /\ screen' # "suspended"
                      /\ job'["menu"] \in {<<>>, <<"stop">>}
                      /\ running' => job'["board"] = <<"stop", "configure", "stop", "reset">>
                      /\ MoversIdle' \/ ~over'
    BY DEF NotBegun
  <2>1. /\ Quiet /\ ~held /\ screen # "suspended" /\ job["menu"] \in {<<>>, <<"stop">>}
        /\ running => job["board"] = <<"stop", "configure", "stop", "reset">>
        /\ MoversIdle \/ ~over
    BY DEF StoppedInv, Stands, NotBegun
  <2>2. running' => running /\ p # "board"
    OBVIOUS
  <2> QED BY <1>1, <1>2, <1>3, <2>1, <2>2
<1>7. EndStops'
  BY <1>3, Different DEF StoppedInv, Stands, EndStops
<1>8. SessionPauses' /\ MenuPauses'
  BY <1>3, Different DEF StoppedInv, Stands, SessionPauses, MenuPauses
<1>9. EndsAreTold'
  BY DEF StoppedInv, EndsAreTold
<1> QED BY <1>4, <1>5, <1>6, <1>7, <1>8, <1>9 DEF StoppedInv, Stands

LEMMA StoppedStop ==
    ASSUME StoppedInv, TypeInv, JobsFit, NEW p \in Callers, Stop(p)
    PROVE  StoppedInv'
<1>1. job[p] # <<>> /\ Head(job[p]) = "stop" /\ job'[p] = Tail(job[p])
  BY Asked, Finishes DEF Stop
<1>2. \A q \in Callers: q # p => job'[q] = job[q]
  BY Finishes DEF Stop
<1>3. ~running' /\ ~Counting'
  BY DEF Stop, Counting
<1>4. p \notin Movers
  BY Asked, MoversCall DEF Stop
<1>5. p = "board" \/ job'[p] = <<>>
  BY <1>1, Asked DEF Stop
<1>6. Call(p) /\ ~End(p) /\ ~Turn(p)
  BY OneOp DEF Call, Stop
<1> QED BY <1>1, <1>2, <1>3, <1>4, <1>5, <1>6, CallLeaves, StoppedLess

LEMMA StoppedPause ==
    ASSUME StoppedInv, TypeInv, JobsFit, NEW p \in Callers, Pause(p)
    PROVE  StoppedInv'
<1>1. /\ job[p] # <<>> /\ Head(job[p]) = "pause" /\ job'[p] = <<>> /\ p # "board"
      /\ \A q \in Callers: q # p => job'[q] = job[q]
  BY Asked, Finishes DEF Pause
<1>2. running' = running /\ ~Counting'
  BY DEF Pause, Counting
<1>3. p \notin Movers
  BY Asked, MoversCall DEF Pause
<1>4. Call(p) /\ ~End(p) /\ ~Turn(p)
  BY OneOp DEF Call, Pause
<1> QED BY <1>1, <1>2, <1>3, <1>4, CallLeaves, StoppedLess

LEMMA StoppedSet ==
    ASSUME StoppedInv, TypeInv, JobsFit, NEW p \in Callers, Configure(p) \/ Reset(p)
    PROVE  StoppedInv'
<1>1. /\ p = "board" /\ job[p] # <<>> /\ Head(job[p]) \in {"configure", "reset"}
      /\ Done(p) /\ \A q \in Callers: q # p => job'[q] = job[q]
  <2>1. Done(p) /\ (At(p, "configure") \/ At(p, "reset"))
    BY DEF Configure, Reset
  <2> QED BY <2>1, Asked, Finishes
<1>2. ~running
  <2>1. Head(<<"stop", "configure", "stop", "reset">>) = "stop"
    BY Tuples
  <2>2. job["board"] # <<"stop", "configure", "stop", "reset">>
    BY <1>1, <2>1
  <2> QED BY <1>1, <2>2 DEF StoppedInv, Alone5, NewGameAlone, Stands, NotBegun
<1>3. running' = running /\ ~Counting'
  BY <1>2 DEF Configure, Reset, Counting
<1>4. p \notin Movers
  BY <1>1, MoversCall
<1>5. Call(p) /\ ~End(p) /\ ~Turn(p)
  BY OneOp DEF Call, Configure, Reset
<1> QED BY <1>1, <1>2, <1>3, <1>4, <1>5, CallLeaves, StoppedLess

LEMMA StoppedStart ==
    ASSUME StoppedInv, TypeInv, JobsFit, NEW p \in Callers, StartClock(p)
    PROVE  StoppedInv'
<1>1. /\ p \in Movers \/ p \in {"menu", "link"}
      /\ job[p] # <<>> /\ Head(job[p]) = "start"
      /\ p \in Movers => job'[p] = <<"credit">>
      /\ p \notin Movers => job'[p] = <<>>
      /\ \A q \in Callers: q # p => job'[q] = job[q]
  BY Asked, Finishes, MoversCall DEF StartClock
<1>2. /\ UNCHANGED <<started, session, screen, held, over, ends, todo, moved>>
      /\ alive \subseteq alive' /\ running'
  <2>1. Call(p) /\ ~End(p) /\ ~Turn(p)
    BY OneOp DEF Call, StartClock
  <2> QED BY <2>1, CallLeaves DEF StartClock
<1>3. /\ \A q \in {"worker", "board", "menu", "link", "flag"}: q # p => job'[q] = job[q]
      /\ \A q \in Movers: q # p => job'[q] = job[q]
  BY <1>1, MoversCall DEF Callers
<1>4. p \in Movers => job[p] = <<"start", "credit">>
  BY <1>1, TurnHeads DEF JobsFit
<1>5. /\ started /\ ~session /\ ~over /\ screen = "game" /\ Quiet
      /\ \A q \in Movers: q # p => job[q] = <<>>
  <2>1. CASE p \in Movers
    <3>1. Quiet /\ ~session /\ started /\ ~over
      BY <1>4, <2>1 DEF StoppedInv, Stands, FirstStart
    <3>2. ~MoversIdle /\ \A q \in Movers: q # p => job[q] = <<>>
      BY <1>1, <2>1 DEF StoppedInv, Alone5, MoversApart, MoversIdle
    <3> QED BY <3>1, <3>2, AtWork
  <2>2. CASE p = "menu"
    <3>1. job[p] = <<"start">>
      BY <1>1, <2>2, Different DEF JobsFit, MenuJobs
    <3>2. <<"start">> \notin {<<>>, <<"stop">>, <<"pause">>}
      BY Different
    <3> QED BY <1>1, <2>2, <3>1, <3>2
        DEF StoppedInv, Alone5, MenuAlone, AwayAlone, Stands, NotBegun, EndStops, Dealt, MoversIdle
  <2>3. CASE p = "link"
    <3>1. job[p] = <<"start">>
      BY <1>1, <2>3, Different DEF JobsFit, LinkJobs
    <3>2. <<"start">> \notin {<<>>, <<"pause">>}
      BY Different
    <3> QED BY <1>1, <2>3, <3>1, <3>2
        DEF StoppedInv, Alone5, LinkAlone, Stands, SessionPauses, EndStops, Dealt, MoversIdle
  <2> QED BY <1>1, <2>1, <2>2, <2>3
<1>6. /\ job'["board"] = job["board"] /\ job'["worker"] = job["worker"]
      /\ job'["menu"] = job["menu"] \/ job'["menu"] = <<>>
      /\ job'["link"] = job["link"] \/ job'["link"] = <<>>
      /\ Quiet' /\ (MoversIdle => MoversIdle')
  <2>1. job'["flag"] = job["flag"]
    BY <1>1, <1>3, MoversCall
  <2>2. MoversIdle => p \notin Movers
    BY <1>1 DEF MoversIdle
  <2> QED BY <1>1, <1>2, <1>3, <1>5, <2>1, <2>2, MoversCall DEF Quiet, MoversIdle
<1>7. Alone5' /\ MovedFirst'
  <2>1. MoversApart'
    BY <1>3, <1>5 DEF MoversApart
  <2> QED BY <1>2, <1>5, <1>6, <2>1
      DEF StoppedInv, Alone5, NewGameAlone, MenuAlone, LinkAlone, AwayAlone, Dealt, MovedFirst
<1>8. FirstStart'
  <2>1. \A q \in Movers: job'[q] # <<"start", "credit">>
    BY <1>1, <1>3, <1>5, Different, TurnHeads
  <2> QED BY <2>1 DEF FirstStart
<1>9. NotBegun' /\ EndStops'
  BY <1>2, <1>5 DEF NotBegun, EndStops
<1>11. SessionPauses' /\ MenuPauses'
  BY <1>2, <1>5, <1>6, Different DEF StoppedInv, Stands, SessionPauses, MenuPauses
<1>12. EndsAreTold'
  BY <1>2 DEF StoppedInv, EndsAreTold
<1> QED BY <1>7, <1>8, <1>9, <1>11, <1>12 DEF StoppedInv, Stands

LEMMA StoppedResume ==
    ASSUME StoppedInv, TypeInv, JobsFit, NEW p \in Callers, Resume(p)
    PROVE  StoppedInv'
<1>1. /\ p \in {"menu", "link"} /\ job[p] # <<>> /\ Head(job[p]) = "resume"
      /\ Tail(job[p]) = <<>>
  BY Asked DEF Resume
<1>2. /\ UNCHANGED <<started, session, screen, held, over, ends, todo, moved>>
      /\ alive \subseteq alive' /\ running' = running
  <2>1. Call(p) /\ ~End(p) /\ ~Turn(p)
    BY OneOp DEF Call, Resume
  <2> QED BY <2>1, CallLeaves DEF Resume
<1>3. job'[p] \in {<<>>, <<"start">>} /\ \A q \in Callers: q # p => job'[q] = job[q]
  <2>1. <<"start">> \o <<>> = <<"start">>
    BY Tuples
  <2>2. job' = [job EXCEPT ![p] = <<>>] \/ job' = [job EXCEPT ![p] = <<"start">>]
    BY <1>1, <2>1 DEF Resume, Done, ThenDo
  <2> QED BY <2>2 DEF JobsFit
<1>4. /\ \A q \in {"worker", "board", "menu", "link", "flag"}: q # p => job'[q] = job[q]
      /\ \A q \in Movers: job'[q] = job[q]
      /\ job[p] = <<"resume">>
  <2>1. job[p] = <<"resume">>
    BY <1>1, Different DEF JobsFit, MenuJobs, LinkJobs
  <2> QED BY <1>1, <1>3, <2>1, MoversCall DEF Callers
<1>5. (MoversIdle' <=> MoversIdle) /\ (Quiet' <=> Quiet)
  BY <1>1, <1>2, <1>4 DEF MoversIdle, Quiet
<1>6. started /\ ~session /\ ~over /\ screen = "game" /\ MoversIdle
  <2>1. <<"resume">> \notin {<<>>, <<"stop">>, <<"pause">>}
    BY Different
  <2>2. CASE p = "menu"
    BY <1>4, <2>1, <2>2
    DEF StoppedInv, Alone5, MenuAlone, AwayAlone, Stands, NotBegun, EndStops, Dealt
  <2>3. CASE p = "link"
    BY <1>4, <2>1, <2>3 DEF StoppedInv, Alone5, LinkAlone, Stands, SessionPauses, EndStops, Dealt
  <2> QED BY <1>1, <2>2, <2>3
<1>7. /\ job'["board"] = job["board"] /\ job'["worker"] = job["worker"]
      /\ job'["menu"] # <<>> => job["menu"] # <<>>
      /\ job'["link"] # <<>> => job["link"] # <<>>
  BY <1>1, <1>4
<1>8. Alone5' /\ MovedFirst'
  BY <1>2, <1>4, <1>5, <1>6, <1>7
  DEF StoppedInv, Alone5, NewGameAlone, MenuAlone, LinkAlone, AwayAlone, MoversApart, Dealt,
      MovedFirst
<1>9. FirstStart' /\ NotBegun'
  BY <1>2, <1>4, <1>6, <1>7, Different DEF FirstStart, NotBegun, MoversIdle
<1>10. EndStops' /\ SessionPauses' /\ MenuPauses'
  <2>1. /\ job'["menu"] \notin {<<"stop">>, <<"pause">>} \/ job'["menu"] = job["menu"]
        /\ job'["link"] # <<"pause">> \/ job'["link"] = job["link"]
    BY <1>1, <1>3, <1>4, Different
  <2> QED BY <1>2, <1>6, <2>1
      DEF StoppedInv, Stands, EndStops, SessionPauses, MenuPauses
<1>11. EndsAreTold'
  BY <1>2 DEF StoppedInv, EndsAreTold
<1> QED BY <1>8, <1>9, <1>10, <1>11 DEF StoppedInv, Stands

LEMMA StoppedLink ==
    ASSUME StoppedInv, TypeInv, JobsFit, NEW p \in Callers, Baseline(p) \/ ResumeIfPlaying(p)
    PROVE  StoppedInv'
<1>1. /\ p = "link" /\ job[p] # <<>> /\ Head(job[p]) \in {"baseline", "resume if playing"}
      /\ \A q \in Callers: q # p => job'[q] = job[q]
      /\ \/ job'[p] = <<"resume if playing">> \/ job'[p] = <<>>
         \/ job'[p] = <<"resume">> /\ ~over
  <2>1. CASE Baseline(p)
    BY <2>1, Asked, Finishes DEF Baseline
  <2>2. CASE ResumeIfPlaying(p)
    <3>1. /\ p = "link" /\ job[p] # <<>> /\ Head(job[p]) = "resume if playing"
          /\ Tail(job[p]) = <<>>
      BY <2>2, Asked DEF ResumeIfPlaying
    <3>2. <<"resume">> \o <<>> = <<"resume">> /\ <<>> \o <<>> = <<>>
      BY Tuples
    <3>3. job' = [job EXCEPT ![p] = IF over THEN <<>> ELSE <<"resume">>]
      BY <2>2, <3>1, <3>2 DEF ResumeIfPlaying, ThenDo
    <3> QED BY <3>1, <3>3 DEF JobsFit
  <2> QED BY <2>1, <2>2
<1>2. /\ UNCHANGED <<started, session, screen, held, over, ends, todo, moved>>
      /\ alive \subseteq alive' /\ UNCHANGED <<running, paused>>
  <2>1. PICK op \in {"baseline", "resume if playing"}: At(p, op)
    BY DEF Baseline, ResumeIfPlaying
  <2>2. Call(p) /\ ~End(p) /\ ~Turn(p)
    BY <2>1, OneOp DEF Call
  <2> QED BY <2>2, CallLeaves DEF Baseline, ResumeIfPlaying, flagVars
<1>3. /\ \A q \in {"worker", "board", "menu", "flag"}: job'[q] = job[q]
      /\ \A q \in Movers: job'[q] = job[q]
  BY <1>1, MoversCall DEF Callers
<1>4. (MoversIdle' <=> MoversIdle) /\ (Quiet' <=> Quiet) /\ (Counting' <=> Counting)
  BY <1>2, <1>3 DEF MoversIdle, Quiet, Counting
<1>5. started /\ ~session /\ MoversIdle
  <2>1. job["link"] \notin {<<>>, <<"pause">>}
    BY <1>1, Different
  <2> QED BY <2>1 DEF StoppedInv, Alone5, LinkAlone, Dealt, Stands, SessionPauses
<1>6. Alone5' /\ MovedFirst'
  BY <1>1, <1>2, <1>3, <1>4
  DEF StoppedInv, Alone5, NewGameAlone, MenuAlone, LinkAlone, AwayAlone, MoversApart, Dealt,
      MovedFirst
<1>7. FirstStart' /\ NotBegun'
  BY <1>2, <1>3, <1>5, Different DEF FirstStart, NotBegun, MoversIdle
<1>8. EndStops'
  <2>1. <<"resume if playing">> \notin {<<"resume">>, <<"start">>}
    BY Different
  <2>2. over => job'["link"] \notin {<<"resume">>, <<"start">>}
    BY <1>1, <2>1, Different
  <2> QED BY <1>2, <1>3, <1>4, <2>2 DEF StoppedInv, Stands, EndStops
<1>9. SessionPauses' /\ MenuPauses'
  <2>1. job'["link"] # <<"pause">>
    BY <1>1, Different
  <2> QED BY <1>2, <1>3, <1>4, <1>5, <2>1 DEF StoppedInv, Stands, SessionPauses, MenuPauses
<1>10. EndsAreTold'
  BY <1>2 DEF StoppedInv, EndsAreTold
<1> QED BY <1>6, <1>7, <1>8, <1>9, <1>10 DEF StoppedInv, Stands

\* A mover goes on with what it has to do, and no start of the clock is due to it.
LEMMA StoppedMover ==
    ASSUME StoppedInv, NEW p \in Movers, job[p] # <<>>, job'[p] # <<"start", "credit">>,
           UNCHANGED <<running, paused, session, screen, held, over, ends, todo, moved>>,
           alive \subseteq alive', started => started', started' => started \/ MoversIdle' \/ moved,
           \A q \in Callers: q # p => job'[q] = job[q]
    PROVE  StoppedInv'
<1>1. /\ \A q \in {"worker", "board", "menu", "link", "flag"}: job'[q] = job[q]
      /\ \A q \in Movers: q # p => job'[q] = job[q] /\ job[q] = <<>>
  BY MoversCall DEF Callers, StoppedInv, Alone5, MoversApart
<1>2. ~MoversIdle /\ moved /\ moved'
  BY DEF MoversIdle, StoppedInv, MovedFirst
<1>3. /\ job'["board"] = <<>> /\ job'["menu"] = <<>> /\ job'["link"] = <<>> /\ screen' = "game"
      /\ job["menu"] = <<>> /\ job["link"] = <<>>
  BY <1>1, <1>2, AtWork
<1>4. (Quiet' <=> Quiet) /\ (Counting' <=> Counting)
  BY <1>1 DEF Quiet, Counting
<1>5. Alone5' /\ MovedFirst'
  BY <1>1, <1>2, <1>3
  DEF Alone5, NewGameAlone, MenuAlone, LinkAlone, AwayAlone, MoversApart, MovedFirst
<1>6. FirstStart'
  <2>1. \A q \in Movers: job'[q] # <<"start", "credit">>
    BY <1>1, TurnHeads, Different
  <2> QED BY <2>1 DEF FirstStart
<1>7. NotBegun'
  BY <1>1, <1>2, <1>3, <1>4 DEF StoppedInv, Stands, NotBegun
<1>8. EndStops' /\ SessionPauses' /\ MenuPauses'
  BY <1>1, <1>3, <1>4 DEF StoppedInv, Stands, EndStops, SessionPauses, MenuPauses
<1>9. EndsAreTold'
  BY DEF StoppedInv, EndsAreTold
<1> QED BY <1>5, <1>6, <1>7, <1>8, <1>9 DEF StoppedInv, Stands

LEMMA StoppedCredit ==
    ASSUME StoppedInv, TypeInv, JobsFit, NEW p \in Callers, Credit(p) \/ Look(p) \/ Give(p)
    PROVE  StoppedInv'
<1>1. /\ p \in Movers /\ job[p] # <<>>
      /\ \A q \in Callers: q # p => job'[q] = job[q]
  <2>1. PICK op \in {"credit", "look", "give"}: At(p, op)
    BY DEF Credit, Look, Give
  <2>2. p \in Movers /\ job[p] # <<>>
    BY <2>1, Asked
  <2> QED BY <2>2 DEF Credit, Look, Give, ThenDo, Done, JobsFit
<1>2. job'[p] # <<"start", "credit">>
  <2>1. CASE Credit(p)
    <3>1. Tail(job[p]) = <<>>
      BY <2>1, Asked DEF Credit
    <3>2. job' = [job EXCEPT ![p] = <<"look">>]
      BY <2>1, <3>1, ThenOnly, Tuples DEF Credit
    <3> QED BY <3>2, TurnHeads DEF JobsFit
  <2>2. CASE Look(p)
    <3>1. Tail(job[p]) = <<>>
      BY <2>2, Asked DEF Look
    <3>2. Done(p) \/ ThenDo(p, <<"give", "look">>)
      BY <2>2 DEF Look
    <3>3. job' = [job EXCEPT ![p] = <<>>] \/ job' = [job EXCEPT ![p] = <<"give", "look">>]
      BY <3>1, <3>2, ThenOnly, Pairs DEF Done
    <3> QED BY <3>3, TurnHeads, Different DEF JobsFit
  <2>3. CASE Give(p)
    <3>1. Tail(job[p]) = <<"look">> /\ Done(p)
      BY <2>3, Asked DEF Give
    <3> QED BY <3>1, Finishes, TurnHeads
  <2> QED BY <2>1, <2>2, <2>3
<1>3. /\ UNCHANGED <<running, paused, session, screen, held, over, ends, todo, moved, started>>
      /\ alive \subseteq alive'
  BY DEF Credit, Look, Give, flagVars, loopVars, appVars, gameVars, history
<1> QED BY <1>1, <1>2, <1>3, StoppedMover

\* The first turn that is told has its mover start a clock that stands still.
LEMMA StoppedTurn ==
    ASSUME StoppedInv, TypeInv, JobsFit, NEW p \in Callers, Turn(p)
    PROVE  StoppedInv'
<1>1. p \in Movers /\ job[p] # <<>> /\ Tail(job[p]) = <<>>
  BY Asked DEF Turn
<1>2. /\ UNCHANGED <<running, paused, session, screen, held, over, ends, todo, moved, alive>>
      /\ started'
  BY DEF Turn, flagVars, loopVars, gameVars, history
<1>3. /\ \/ (session \/ started) /\ job'[p] \in {<<>>, <<"credit">>}
         \/ ~session /\ ~started /\ job'[p] = <<"start", "credit">>
      /\ \A q \in Callers: q # p => job'[q] = job[q]
  <2>1. /\ <<"credit">> \o <<>> = <<"credit">> /\ <<>> \o <<>> = <<>>
        /\ <<"start", "credit">> \o <<>> = <<"start", "credit">>
    BY Tuples, Pairs
  <2>2. \/ (session \/ started) /\ (ThenDo(p, <<>>) \/ ThenDo(p, <<"credit">>))
        \/ ~session /\ ~started /\ ThenDo(p, <<"start", "credit">>)
    BY DEF Turn
  <2>3. \/ /\ session \/ started
           /\ job' = [job EXCEPT ![p] = <<>>] \/ job' = [job EXCEPT ![p] = <<"credit">>]
        \/ ~session /\ ~started /\ job' = [job EXCEPT ![p] = <<"start", "credit">>]
    BY <1>1, <2>1, <2>2, ThenOnly
  <2> QED BY <2>3 DEF JobsFit
<1>4. ~MoversIdle /\ moved
  BY <1>1 DEF MoversIdle, StoppedInv, MovedFirst
<1>5. CASE session \/ started
  <2>1. job'[p] # <<"start", "credit">>
    BY <1>3, <1>5, Different, TurnHeads
  <2> QED BY <1>1, <1>2, <1>3, <1>4, <2>1, StoppedMover
<1>6. CASE ~session /\ ~started
  <2>1. /\ \A q \in {"worker", "board", "menu", "link", "flag"}: job'[q] = job[q]
        /\ \A q \in Movers: q # p => job'[q] = <<>>
    BY <1>1, <1>3, MoversCall DEF Callers, StoppedInv, Alone5, MoversApart
  <2>2. /\ job["board"] = <<>> /\ job["menu"] = <<>> /\ job["link"] = <<>>
        /\ screen = "game"
    BY <1>4, AtWork
  <2>3. Quiet /\ ~running /\ ~over /\ ~held
    BY <1>4, <1>6, <2>2, Tuples DEF StoppedInv, Stands, NotBegun
  <2>4. Quiet' /\ ~running' /\ ~over'
    BY <1>2, <2>1, <2>3 DEF Quiet
  <2>5. Alone5' /\ MovedFirst'
    BY <1>2, <1>4, <2>1, <2>2
    DEF Alone5, NewGameAlone, MenuAlone, LinkAlone, AwayAlone, MoversApart, MovedFirst
  <2>6. FirstStart' /\ NotBegun'
    BY <1>2, <1>6, <2>4 DEF FirstStart, NotBegun
  <2>7. EndStops' /\ SessionPauses' /\ MenuPauses'
    BY <1>2, <1>6, <2>1, <2>2, <2>3, <2>4, Different DEF EndStops, SessionPauses, MenuPauses
  <2>8. EndsAreTold'
    BY <1>2 DEF StoppedInv, EndsAreTold
  <2> QED BY <2>5, <2>6, <2>7, <2>8 DEF StoppedInv, Stands
<1> QED BY <1>5, <1>6

\* A flag falls in a game that has begun, and its clock is stopped next.
LEMMA StoppedEnd ==
    ASSUME StoppedInv, TypeInv, JobsFit, NEW p \in Callers, End(p)
    PROVE  StoppedInv'
<1>1. /\ p = "flag" /\ job[p] # <<>> /\ job'[p] = <<"stop">>
      /\ \A q \in Callers: q # p => job'[q] = job[q]
  BY Asked, Finishes DEF End
<1>2. /\ UNCHANGED <<started, session, screen, held, ends, todo, running, paused, alive, moved>>
      /\ over'
  BY DEF End, flagVars, loopVars, appVars, history
<1>3. /\ \A q \in {"worker", "board", "menu", "link"}: job'[q] = job[q]
      /\ \A q \in Movers: job'[q] = job[q]
  BY <1>1, MoversCall DEF Callers
<1>4. Counting' <=> Counting
  BY <1>2 DEF Counting
<1>5. ~Quiet
  BY <1>1 DEF Quiet
<1>6. job["board"] = <<>> /\ job["menu"] = <<>> /\ job["link"] = <<>> /\ screen = "game"
  BY <1>5, AtWork
<1>7. started /\ \A q \in Movers: job[q] # <<"start", "credit">>
  BY <1>5 DEF StoppedInv, Stands, NotBegun, FirstStart
<1>8. Alone5' /\ MovedFirst'
  BY <1>2, <1>3, <1>6
  DEF StoppedInv, Alone5, NewGameAlone, MenuAlone, LinkAlone, AwayAlone, MoversApart, MovedFirst,
      MoversIdle
<1>9. FirstStart' /\ NotBegun'
  BY <1>2, <1>3, <1>7 DEF FirstStart, NotBegun
<1>10. EndStops'
  BY <1>1, <1>3, <1>6, Different DEF EndStops
<1>11. SessionPauses' /\ MenuPauses'
  BY <1>2, <1>3, <1>4 DEF StoppedInv, Stands, SessionPauses, MenuPauses
<1>12. EndsAreTold'
  BY <1>2 DEF StoppedInv, EndsAreTold
<1> QED BY <1>8, <1>9, <1>10, <1>11, <1>12 DEF StoppedInv, Stands

\* A mover has a turn to tell of, of a move or of a correction.
LEMMA StoppedTold ==
    ASSUME StoppedInv, JobsFit, NEW p \in Movers, moved', screen = "game",
           \A q \in Movers: job[q] = <<>>,
           job["board"] = <<>>, job["link"] = <<>>, job["menu"] = <<>>, started \/ ~over,
           job' = [job EXCEPT ![p] = <<"turn">>],
           UNCHANGED <<running, paused, started, session, screen, held, over, ends, todo, alive>>
    PROVE  StoppedInv'
<1>1. /\ \A q \in {"worker", "board", "menu", "link", "flag"}: job'[q] = job[q]
      /\ job'[p] = <<"turn">> /\ \A q \in Movers: q # p => job'[q] = <<>>
  BY MoversCall DEF Callers, JobsFit
<1>2. (Quiet' <=> Quiet) /\ (Counting' <=> Counting)
  BY <1>1 DEF Quiet, Counting
<1>3. Alone5' /\ MovedFirst'
  BY <1>1
  DEF Alone5, NewGameAlone, MenuAlone, LinkAlone, AwayAlone, MoversApart, MovedFirst
<1>4. FirstStart'
  <2>1. \A q \in Movers: job'[q] # <<"start", "credit">>
    BY <1>1, TurnHeads, Different
  <2> QED BY <2>1 DEF FirstStart
<1>5. NotBegun'
  BY <1>1, <1>2 DEF StoppedInv, Stands, NotBegun
<1>6. EndStops' /\ SessionPauses' /\ MenuPauses'
  BY <1>1, <1>2 DEF StoppedInv, Stands, EndStops, SessionPauses, MenuPauses
<1>7. EndsAreTold'
  BY DEF StoppedInv, EndsAreTold
<1> QED BY <1>3, <1>4, <1>5, <1>6, <1>7 DEF StoppedInv, Stands

LEMMA StoppedMove ==
    ASSUME Calm, StoppedInv, TypeInv, JobsFit, NEW p \in Movers, Move(p)
    PROVE  StoppedInv'
<1>1. /\ screen = "game" /\ ~over /\ moved'
      /\ job["board"] = <<>> /\ job["link"] = <<>> /\ job["menu"] = <<>>
      /\ MoversIdle
      /\ UNCHANGED <<running, paused, started, session, screen, held, todo, alive>>
  BY DEF Move, OneMover, Calm, Free, NothingElse, flagVars, loopVars, MoversIdle
<1>2. CASE job' = [job EXCEPT ![p] = <<"turn">>] /\ UNCHANGED <<over, mated, ends>>
  BY <1>1, <1>2, StoppedTold DEF MoversIdle
<1>3. CASE over' = TRUE /\ ends' = ends + 1 /\ UNCHANGED job
  <2>1. ends' \in Nat /\ ends' # 0
    BY <1>3 DEF StoppedInv, EndsAreTold
  <2>2. (Quiet' <=> Quiet) /\ MoversIdle'
    BY <1>1, <1>3 DEF Quiet, MoversIdle
  <2>3. Alone5' /\ MovedFirst'
    BY <1>1, <1>3, <2>2
    DEF Alone5, NewGameAlone, MenuAlone, LinkAlone, AwayAlone, MoversApart, MoversIdle, MovedFirst
  <2>4. FirstStart' /\ NotBegun'
    BY <1>1, <1>3, <2>2, Different DEF StoppedInv, Stands, FirstStart, NotBegun, MoversIdle
  <2>5. EndStops' /\ SessionPauses' /\ MenuPauses'
    BY <1>1, <1>3, <2>1, Different
    DEF StoppedInv, Stands, EndStops, SessionPauses, MenuPauses, Counting
  <2>6. EndsAreTold'
    BY <1>1, <1>3, <2>1 DEF StoppedInv, EndsAreTold
  <2> QED BY <2>3, <2>4, <2>5, <2>6 DEF StoppedInv, Stands
<1> QED BY <1>2, <1>3 DEF Move

LEMMA StoppedCorrect ==
    ASSUME Calm, StoppedInv, TypeInv, JobsFit, Correct
    PROVE  StoppedInv'
<1>1. /\ screen = "game" /\ started
      /\ job["board"] = <<>> /\ job["link"] = <<>> /\ job["menu"] = <<>>
      /\ \A q \in Movers: job[q] = <<>>
      /\ job' = [job EXCEPT !["hand"] = <<"turn">>]
      /\ UNCHANGED <<running, paused, started, session, screen, held, over, ends, todo, alive>>
      /\ UNCHANGED moved
  BY DEF Correct, BoardIsFree, OneMover, CorrectedInPlay, Calm, Free, NothingElse, flagVars,
         loopVars, appVars, gameVars, history
<1>2. moved'
  BY <1>1 DEF StoppedInv, MovedFirst
<1>3. "hand" \in Movers
  BY DEF Movers
<1> QED BY <1>1, <1>2, <1>3, StoppedTold

LEMMA StoppedNewGame ==
    ASSUME Calm, StoppedInv, TypeInv, JobsFit, NewGame
    PROVE  StoppedInv'
<1>1. /\ screen = "game" /\ Settled /\ Prompt /\ ~started' /\ ~over'
      /\ job' = [job EXCEPT !["board"] = <<"stop", "configure", "stop", "reset">>]
      /\ UNCHANGED <<running, paused, session, screen, held, ends, todo, alive>>
  BY DEF NewGame, Calm, NothingElse, flagVars, loopVars
<1>2. ends = 0 /\ \A q \in {"worker", "board", "menu", "link", "flag"} \union Movers: job[q] = <<>>
  BY <1>1, MoversCall DEF Settled, Free, Callers
<1>3. /\ job'["board"] = <<"stop", "configure", "stop", "reset">>
      /\ \A q \in {"worker", "menu", "link", "flag"} \union Movers: job'[q] = <<>>
  BY <1>1, <1>2, MoversCall DEF JobsFit, Callers
<1>4. \A r \in Runs: todo[r] = 0
  BY <1>1, PromptIsQuiet
<1>5. Quiet' /\ MoversIdle' /\ (Counting' <=> Counting)
  BY <1>1, <1>2, <1>3, <1>4 DEF Quiet, MoversIdle, Counting
<1>6. Alone5' /\ MovedFirst'
  BY <1>1, <1>2, <1>3, <1>5
  DEF Alone5, NewGameAlone, MenuAlone, LinkAlone, AwayAlone, MoversApart, MoversIdle, Dealt,
      MovedFirst
<1>7. FirstStart' /\ NotBegun'
  <2>1. ~held
    BY <1>1 DEF StoppedInv, Stands, MenuPauses
  <2> QED BY <1>1, <1>2, <1>3, <1>5, <2>1, Different DEF FirstStart, NotBegun, MoversIdle
<1>8. EndStops' /\ SessionPauses' /\ MenuPauses'
  <2>1. session => ~Counting
    BY <1>2, Different DEF StoppedInv, Stands, SessionPauses
  <2>2. ~held
    BY <1>1 DEF StoppedInv, Stands, MenuPauses
  <2> QED BY <1>1, <1>3, <1>5, <2>1, <2>2, Different DEF EndStops, SessionPauses, MenuPauses
<1>9. EndsAreTold'
  BY <1>1, <1>2, <1>4 DEF StoppedInv, EndsAreTold
<1> QED BY <1>6, <1>7, <1>8, <1>9 DEF StoppedInv, Stands

LEMMA StoppedTask ==
    ASSUME Calm, StoppedInv, TypeInv, JobsFit, Task
    PROVE  StoppedInv'
<1>1. /\ ends > 0 /\ ends' = ends - 1 /\ over'
      /\ job' = [job EXCEPT !["worker"] = <<"stop">>]
      /\ UNCHANGED <<running, paused, started, session, screen, held, todo, alive, moved>>
  BY DEF Task, Free, NothingElse, flagVars, loopVars, history
<1>2. ends \in Nat /\ ends # 0 /\ ends' \in Nat /\ over
  BY <1>1 DEF StoppedInv, EndsAreTold
<1>3. job["board"] = <<>> /\ job["menu"] = <<>> /\ job["link"] = <<>> /\ screen = "game"
  BY <1>2, AtWork
<1>4. /\ \A q \in {"board", "menu", "link", "flag"} \union Movers: job'[q] = job[q]
      /\ job'["worker"] = <<"stop">>
  BY <1>1, MoversCall DEF JobsFit, Callers
<1>5. (Quiet' <=> Quiet) /\ (Counting' <=> Counting) /\ (MoversIdle' <=> MoversIdle)
  BY <1>1, <1>4 DEF Quiet, Counting, MoversIdle
<1>6. Alone5' /\ MovedFirst'
  BY <1>1, <1>3, <1>4, <1>5
  DEF StoppedInv, Alone5, NewGameAlone, MenuAlone, LinkAlone, AwayAlone, MoversApart, MovedFirst
<1>7. FirstStart' /\ NotBegun'
  BY <1>1, <1>2, <1>4, <1>5 DEF StoppedInv, Stands, FirstStart, NotBegun
<1>8. EndStops' /\ SessionPauses' /\ MenuPauses'
  BY <1>1, <1>3, <1>4, <1>5, Different
  DEF StoppedInv, Stands, EndStops, SessionPauses, MenuPauses
<1>9. EndsAreTold'
  BY <1>1, <1>2 DEF StoppedInv, EndsAreTold
<1> QED BY <1>6, <1>7, <1>8, <1>9 DEF StoppedInv, Stands

LEMMA StoppedMenu ==
    ASSUME Calm, StoppedInv, TypeInv, JobsFit, OpenMenu \/ CloseMenu \/ Suspend \/ ResumeGame
    PROVE  StoppedInv'
<1>1. /\ UNCHANGED <<running, paused, started, session, ends, todo, alive, moved>>
      /\ job["menu"] = <<>> /\ \E j: job' = [job EXCEPT !["menu"] = j]
  BY DEF OpenMenu, CloseMenu, Suspend, ResumeGame, Free, NothingElse, flagVars, loopVars, history
<1>2. \A q \in {"worker", "board", "link", "flag"} \union Movers: job'[q] = job[q]
  BY <1>1, MoversCall DEF JobsFit, Callers
<1>3. ~session /\ Dealt /\ job["board"] = <<>> /\ job["link"] = <<>> /\ ~over
  <2>1. CASE OpenMenu \/ Suspend
    <3>1. ~session /\ Settled /\ Prompt /\ ~over
      BY <2>1 DEF OpenMenu, Suspend, Calm
    <3>2. \A r \in Runs: todo[r] = 0
      BY <3>1, PromptIsQuiet
    <3> QED BY <3>1, <3>2, MoversCall DEF Settled, Free, Callers, Dealt, Quiet, MoversIdle
  <2>2. CASE CloseMenu \/ ResumeGame
    <3>1. screen # "game"
      BY <2>2 DEF CloseMenu, ResumeGame
    <3> QED BY <3>1 DEF StoppedInv, Alone5, AwayAlone
  <2> QED BY <2>1, <2>2
<1>4. Dealt' /\ job'["board"] = <<>> /\ job'["link"] = <<>> /\ ~session'
  BY <1>1, <1>2, <1>3 DEF Dealt, Quiet, MoversIdle
<1>5. ~running \/ started
  BY <1>3, Tuples DEF StoppedInv, Stands, NotBegun
<1>6. job'["worker"] = <<>> /\ ends' = 0 /\ Quiet' /\ MoversIdle' /\ MovedFirst' /\ MoversApart'
  BY <1>1, <1>4 DEF Dealt, MovedFirst, MoversApart, MoversIdle, StoppedInv
<1>7. FirstStart' /\ SessionPauses'
  BY <1>4, <1>6, Different DEF FirstStart, SessionPauses, MoversIdle
<1>8. EndsAreTold'
  BY <1>1, <1>6 DEF StoppedInv, EndsAreTold
<1>9. Counting' <=> Counting
  BY <1>1 DEF Counting
<1>10. CASE OpenMenu
  <2>1. /\ screen = "game" /\ screen' = "menu" /\ ~over'
        /\ held' <=> Counting
        /\ job'["menu"] = IF Counting THEN <<"pause">> ELSE <<>>
    BY <1>3, <1>10 DEF OpenMenu, Counting, JobsFit, Callers, gameVars
  <2>2. Alone5'
    BY <1>4, <1>6, <2>1 DEF Alone5, NewGameAlone, MenuAlone, LinkAlone, AwayAlone
  <2>3. NotBegun'
    BY <1>1, <1>5, <1>6, <2>1 DEF NotBegun, Counting
  <2>4. EndStops' /\ MenuPauses'
    BY <1>9, <2>1, Different DEF EndStops, MenuPauses
  <2> QED BY <1>6, <1>7, <1>8, <2>2, <2>3, <2>4 DEF StoppedInv, Stands
<1>11. CASE CloseMenu
  <2>1. /\ screen = "menu" /\ screen' = "game" /\ ~held'
        /\ \/ over' = over /\ job'["menu"] = IF held THEN <<"resume">> ELSE <<>>
           \/ over' = TRUE /\ job'["menu"] = <<"stop">>
    BY <1>11 DEF CloseMenu, JobsFit, Callers
  <2>2. Alone5'
    BY <1>4, <1>6, <2>1 DEF Alone5, NewGameAlone, MenuAlone, LinkAlone, AwayAlone
  <2>3. held => started
    BY DEF StoppedInv, Stands, NotBegun
  <2>4. NotBegun'
    BY <1>1, <1>5, <1>6, <2>1, <2>3 DEF NotBegun
  <2>5. EndStops'
    BY <1>3, <1>4, <2>1, Different DEF EndStops
  <2>6. MenuPauses'
    BY <1>3, <2>1, Different DEF MenuPauses
  <2> QED BY <1>6, <1>7, <1>8, <2>2, <2>4, <2>5, <2>6 DEF StoppedInv, Stands
<1>12. CASE Suspend
  <2>1. /\ screen = "game" /\ screen' = "suspended" /\ ~over' /\ held' = held /\ started
        /\ job'["menu"] = <<"pause">>
    BY <1>3, <1>12 DEF Suspend, Begun, Calm, JobsFit, Callers, gameVars
  <2>2. Alone5'
    BY <1>4, <1>6, <2>1 DEF Alone5, NewGameAlone, MenuAlone, LinkAlone, AwayAlone
  <2>3. ~held
    BY <2>1 DEF StoppedInv, Stands, MenuPauses
  <2>4. NotBegun' /\ EndStops' /\ MenuPauses'
    BY <1>1, <1>6, <2>1, <2>3, Different DEF NotBegun, EndStops, MenuPauses
  <2> QED BY <1>6, <1>7, <1>8, <2>2, <2>4 DEF StoppedInv, Stands
<1>13. CASE ResumeGame
  <2>1. /\ screen = "suspended" /\ screen' = "game" /\ ~over' /\ held' = held
        /\ job'["menu"] = <<"resume">>
    BY <1>3, <1>13 DEF ResumeGame, JobsFit, Callers, gameVars
  <2>2. Alone5'
    BY <1>4, <1>6, <2>1 DEF Alone5, NewGameAlone, MenuAlone, LinkAlone, AwayAlone
  <2>3. ~held /\ started
    BY <2>1 DEF StoppedInv, Stands, MenuPauses, NotBegun
  <2>4. NotBegun' /\ EndStops' /\ MenuPauses'
    BY <1>1, <1>6, <2>1, <2>3, Different DEF NotBegun, EndStops, MenuPauses
  <2> QED BY <1>6, <1>7, <1>8, <2>2, <2>4 DEF StoppedInv, Stands
<1> QED BY <1>10, <1>11, <1>12, <1>13

LEMMA StoppedSession ==
    ASSUME Calm, StoppedInv, TypeInv, JobsFit, AppComes \/ AppLeaves
    PROVE  StoppedInv'
<1>1. /\ Settled /\ Prompt /\ started /\ screen = "game"
      /\ UNCHANGED <<running, paused, started, screen, held, over, ends, todo, alive, moved>>
      /\ \/ session' /\ job' = [job EXCEPT !["link"] = <<"pause">>]
         \/ /\ session /\ ~session'
            /\ job' = [job EXCEPT !["link"] = <<"baseline", "resume if playing">>]
  BY DEF AppComes, AppLeaves, Calm, Begun, Alone, NothingElse, flagVars, loopVars, gameVars,
         history
<1>2. ends = 0 /\ \A q \in {"worker", "board", "menu", "link", "flag"} \union Movers: job[q] = <<>>
  BY <1>1, MoversCall DEF Settled, Free, Callers
<1>3. /\ \A q \in {"worker", "board", "menu", "flag"} \union Movers: job'[q] = <<>>
      /\ \/ session' /\ job'["link"] = <<"pause">>
         \/ session /\ ~session' /\ job'["link"] = <<"baseline", "resume if playing">>
  BY <1>1, <1>2, MoversCall DEF JobsFit, Callers
<1>4. \A r \in Runs: todo[r] = 0
  BY <1>1, PromptIsQuiet
<1>5. Quiet' /\ Dealt' /\ MoversIdle' /\ (Counting' <=> Counting)
  <2>1. UNCHANGED <<running, paused, todo, ends>>
    BY <1>1
  <2>2. Quiet' /\ (Counting' <=> Counting) /\ MoversIdle'
    BY <1>3, <1>4, <2>1 DEF Quiet, Counting, MoversIdle
  <2> QED BY <1>2, <1>3, <2>1, <2>2 DEF Dealt
<1>6. Alone5' /\ MovedFirst'
  <2>1. /\ job'["board"] = <<>> /\ job'["menu"] = <<>>
        /\ Dealt' /\ started' /\ screen' = "game"
    BY <1>1, <1>3, <1>5
  <2>2. MovedFirst' /\ MoversApart'
    BY <1>1, <1>5 DEF StoppedInv, MovedFirst, MoversApart, MoversIdle
  <2> QED BY <2>1, <2>2 DEF Alone5, NewGameAlone, MenuAlone, LinkAlone, AwayAlone
<1>7. FirstStart' /\ NotBegun'
  BY <1>1, <1>3, Different DEF FirstStart, NotBegun, MoversIdle
<1>8. EndStops'
  <2>1. over => ~Counting
    <3>1. /\ <<>> # <<"stop">> /\ job["worker"] # <<"stop">> /\ job["menu"] # <<"stop">>
          /\ job["flag"] # <<"stop">>
      BY <1>2, Different
    <3> QED BY <1>2, <3>1 DEF StoppedInv, Stands, EndStops
  <2>2. job'["link"] \notin {<<"resume">>, <<"start">>}
    BY <1>3, Different
  <2> QED BY <1>1, <1>3, <1>5, <2>1, <2>2 DEF EndStops
<1>9. SessionPauses'
  <2>1. <<"baseline", "resume if playing">> # <<"pause">>
    BY Different
  <2> QED BY <1>3, <2>1 DEF SessionPauses
<1>10. MenuPauses'
  BY <1>1, <1>3, Different DEF StoppedInv, Stands, MenuPauses
<1>11. EndsAreTold'
  BY <1>1 DEF StoppedInv, EndsAreTold
<1> QED BY <1>6, <1>7, <1>8, <1>9, <1>10, <1>11 DEF StoppedInv, Stands

\* Nobody's clock counts before the first move, once the game is over, in an app's
\* session and behind a menu, for any number of games, moves, menus and sessions, as
\* long as none of the conditions holds: each of them has a thread, the link or a menu
\* start the clock for a game that has ended meanwhile or not begun, or leave it running.
THEOREM OnlyPlayCostsTime == Calm /\ Spec => []StoppedOutsidePlay
<1> SUFFICES ASSUME Calm PROVE Spec => []StoppedOutsidePlay
  OBVIOUS
<1>1. StoppedInv /\ TypeInv /\ JobsFit /\ [Next]_vars => StoppedInv'
  <2> SUFFICES ASSUME StoppedInv, TypeInv, JobsFit, [Next]_vars PROVE StoppedInv'
    OBVIOUS
  <2>0. \A r \in Runs: todo[r] > 0 => r \in alive
    BY DEF StoppedInv, EndsAreTold
  <2>1. CASE UNCHANGED vars
    BY <2>0, <2>1, StoppedFrame
    DEF vars, flagVars, loopVars, appVars, gameVars, callVars, history
  <2>2. ASSUME NEW r \in Runs, Exit(r) PROVE StoppedInv'
    <3>1. /\ UNCHANGED <<running, paused, started, session, screen, held, over, ends, moved>>
          /\ UNCHANGED <<job, todo>> /\ todo[r] = 0 /\ alive' = alive \ {r}
      BY <2>2 DEF Exit, flagVars, appVars, gameVars, callVars, history
    <3> QED BY <2>0, <3>1, StoppedFrame
  <2>3. ASSUME NEW p \in Callers, Call(p) PROVE StoppedInv'
    <3>1. CASE Joined(p)
      BY <2>0, <3>1, StoppedFrame DEF Joined, flagVars, loopVars, appVars, gameVars, history
    <3> QED BY <2>3, <3>1, StoppedStop, StoppedPause, StoppedSet, StoppedStart, StoppedResume,
               StoppedLink, StoppedTurn, StoppedCredit, StoppedEnd DEF Call
  <2>4. CASE Play
    <3>1. CASE Takeback
      <4>1. ~over
        BY <3>1 DEF Takeback, Calm
      <4>2. /\ UNCHANGED <<running, paused, started, session, screen, held, ends, moved>>
            /\ UNCHANGED <<job, todo, alive>> /\ ~over'
        BY <3>1 DEF Takeback, NothingElse, flagVars, loopVars, appVars, callVars, history
      <4> QED BY <2>0, <4>1, <4>2, StoppedFrame
    <3>2. CASE HandOver
      BY <2>0, <3>2, StoppedFrame
      DEF HandOver, NothingElse, flagVars, loopVars, appVars, gameVars, callVars, history
    <3> QED BY <2>4, <3>1, <3>2, StoppedMove, StoppedCorrect, StoppedNewGame, StoppedTask,
               StoppedMenu, StoppedSession DEF Play
  <2> QED BY <2>1, <2>2, <2>3, <2>4, StoppedTime, StoppedTick DEF Next
<1>2. StoppedInv => StoppedOutsidePlay
  <2> SUFFICES ASSUME StoppedInv, Settled, ~moved \/ over \/ session \/ screen # "game"
               PROVE  ~running \/ paused
    BY DEF StoppedOutsidePlay
  <2>1. ends = 0 /\ \A q \in {"worker", "board", "menu", "link", "flag"}: job[q] = <<>>
    BY DEF Settled, Free, Callers
  <2>3. CASE ~moved
    <3>1. ~started
      BY <2>3 DEF StoppedInv, MovedFirst
    <3> QED BY <2>1, <3>1, Tuples DEF StoppedInv, Stands, NotBegun
  <2>4. CASE over
    BY <2>1, <2>4, Different DEF StoppedInv, Stands, EndStops, Counting
  <2>5. CASE session
    BY <2>1, <2>5, Different DEF StoppedInv, Stands, SessionPauses, Counting
  <2>6. CASE screen # "game"
    BY <2>1, <2>6, Different DEF StoppedInv, Stands, MenuPauses, Counting
  <2> QED BY <2>3, <2>4, <2>5, <2>6
<1> QED BY <1>1, <1>2, StoppedInit, TypesInv, PTL DEF Spec

=============================================================================
