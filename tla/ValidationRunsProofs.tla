---- MODULE ValidationRunsProofs ----
(***************************************************************************)
(* ValidationRuns, for any number of runs, threads, finishes and restarts: *)
(* its types, that a restart closes the open runs for good, that it        *)
(* implements RunBoard, that what is served is current and that a run's    *)
(* files agree.  And ReportViewer over it, for any number of loads: that   *)
(* what the page shows is current, and of the run that is selected.        *)
(***************************************************************************)
EXTENDS ReportViewer, TLAPS

\* A request that writes was admitted in this life of the server: its run is in
\* _runs until the restart that also ends the request.  A run being created has
\* its directory.
WritersKnown ==
  \A w \in Workers :
    /\ pc[w] = "remember" => job[w].run \in dirs
    /\ pc[w] \notin {"idle", "remember"} => job[w].run \in known /\ job[w].finish \in 1..begun

IInv == TypeOK /\ WritersKnown

\* The order in which finish_run writes its two files.
LEMMA StepAfterTypes ==
  /\ StepAfter.begin = "open_summary"
  /\ StepAfter["open_summary"] = "write_summary" /\ StepAfter["write_summary"] = "open_report"
  /\ StepAfter["open_report"] = "write_report" /\ StepAfter["write_report"] = "idle"
  BY DEF StepAfter

\* The strengthened invariant holds for an empty repository.
LEMMA RunsInit == Init => IInv
<1> SUFFICES ASSUME Init PROVE IInv
  OBVIOUS
<1>1. (CHOOSE r \in Runs : TRUE) \in Runs
  BY RunsAssumption
<1>2. job \in [Workers -> [run : Runs, finish : 0..MaxFinishes]]
  <2> DEFINE R == CHOOSE r \in Runs : TRUE
  <2>1. job = [w \in Workers |-> [run |-> R, finish |-> 0]]
    BY DEF Init
  <2>2. 0 \in 0..MaxFinishes
    BY RunsAssumption
  <2> HIDE DEF R
  <2> QED BY <2>1, <2>2, <1>1 DEF R
<1>3. /\ known = {} /\ dirs = {} /\ acked = {} /\ cut = {} /\ overlapped = {}
      /\ pc = [w \in Workers |-> "idle"] /\ begun = 0 /\ restarts = 0
      /\ summary = [r \in Runs |-> NoFile] /\ report = [r \in Runs |-> NoFile]
  BY DEF Init
<1>4. TypeOK
  BY <1>2, <1>3, RunsAssumption DEF TypeOK, Contents, Steps
<1>5. WritersKnown
  BY <1>3 DEF WritersKnown
<1> QED BY <1>4, <1>5 DEF IInv

\* What every step of a writing request shares.
LEMMA AdvanceKeeps ==
  ASSUME IInv, NEW w \in Workers, Advance(w),
         pc[w] \in {"open_summary", "write_summary", "open_report", "write_report"},
         summary' \in [Runs -> Contents], report' \in [Runs -> Contents]
  PROVE  IInv'
<1> USE DEF IInv
<1>1. pc[w] \in Steps /\ StepAfter[pc[w]] \in Steps \ {"remember"}
  BY StepAfterTypes DEF Steps
<1>2. pc' \in [Workers -> Steps] /\ (\A v \in Workers : pc'[v] = IF v = w THEN StepAfter[pc[w]] ELSE pc[v])
  BY <1>1 DEF Advance, TypeOK
<1>3. UNCHANGED <<dirs, known, job, begun, restarts, cut, overlapped>>
  BY DEF Advance
<1>4. job[w].finish \in 1..begun
  BY DEF WritersKnown
<1>5. acked' \subseteq 1..begun
  BY <1>4 DEF Advance, TypeOK
<1>6. TypeOK'
  BY <1>2, <1>3, <1>5 DEF TypeOK
<1>7. WritersKnown'
  BY <1>1, <1>2, <1>3 DEF WritersKnown
<1> QED BY <1>6, <1>7

\* Each step of start_run and finish_run, and a restart, preserves it.
LEMMA RunsStep == IInv /\ [Next]_vars => IInv'
<1> SUFFICES ASSUME IInv, [Next]_vars PROVE IInv'
  OBVIOUS
<1> USE RunsAssumption DEF IInv
<1>1. ASSUME NEW w \in Workers, NEW r \in Runs, StartRun(w, r) PROVE IInv'
  <2>1. /\ dirs' = dirs \cup {r} /\ UNCHANGED <<known, summary, report, begun, restarts, acked, cut, overlapped>>
        /\ pc' = [pc EXCEPT ![w] = "remember"]
        /\ job' = [job EXCEPT ![w] = [run |-> r, finish |-> 0]]
    BY <1>1 DEF StartRun, files, history
  <2>2. pc' \in [Workers -> Steps] /\ job' \in [Workers -> [run : Runs, finish : 0..MaxFinishes]]
    BY <2>1 DEF TypeOK, Steps
  <2>3. TypeOK'
    BY <2>1, <2>2 DEF TypeOK
  <2>4. WritersKnown'
    BY <2>1, <2>2 DEF WritersKnown, TypeOK
  <2> QED BY <2>3, <2>4
<1>2. ASSUME NEW w \in Workers, Remember(w) PROVE IInv'
  <2>1. /\ known' = known \cup {job[w].run} /\ pc[w] = "remember"
        /\ UNCHANGED <<dirs, summary, report, job, begun, restarts, acked, cut, overlapped>>
        /\ pc' = [pc EXCEPT ![w] = "idle"]
    BY <1>2 DEF Remember, files, history
  <2>2. job[w].run \in dirs
    BY <2>1 DEF WritersKnown
  <2>3. TypeOK'
    BY <2>1, <2>2 DEF TypeOK, Steps
  <2>4. WritersKnown'
    BY <2>1 DEF WritersKnown, TypeOK
  <2> QED BY <2>3, <2>4
<1>3. ASSUME NEW w \in Workers, NEW r \in Runs, FinishRun(w, r) PROVE IInv'
  <2>1. /\ r \in known /\ begun < MaxFinishes /\ begun' = begun + 1
        /\ UNCHANGED <<dirs, known, summary, report, restarts, acked, cut>>
        /\ overlapped' \subseteq overlapped \cup {r}
        /\ pc' = [pc EXCEPT ![w] = "open_summary"]
        /\ job' = [job EXCEPT ![w] = [run |-> r, finish |-> begun + 1]]
    BY <1>3, StepAfterTypes DEF FinishRun, Begin, files
  <2>2. /\ pc' \in [Workers -> Steps] /\ begun' \in 0..MaxFinishes /\ begun + 1 \in 1..begun'
        /\ 1..begun \subseteq 1..begun'
    BY <2>1 DEF TypeOK, Steps
  <2>3. job' \in [Workers -> [run : Runs, finish : 0..MaxFinishes]]
    BY <2>1, <2>2 DEF TypeOK
  <2>4. TypeOK'
    BY <2>1, <2>2, <2>3 DEF TypeOK
  <2>5. WritersKnown'
    <3> SUFFICES ASSUME NEW v \in Workers
                 PROVE  /\ pc'[v] = "remember" => job'[v].run \in dirs'
                        /\ pc'[v] \notin {"idle", "remember"} =>
                             job'[v].run \in known' /\ job'[v].finish \in 1..begun'
      BY DEF WritersKnown
    <3>1. CASE v = w
      BY <3>1, <2>1, <2>2 DEF TypeOK
    <3>2. CASE v # w
      <4>1. pc'[v] = pc[v] /\ job'[v] = job[v]
        BY <3>2, <2>1 DEF TypeOK
      <4> QED BY <4>1, <2>1, <2>2 DEF WritersKnown
    <3> QED BY <3>1, <3>2
  <2> QED BY <2>4, <2>5
<1>4. ASSUME NEW w \in Workers, OpenSummary(w) PROVE IInv'
  <2>1. summary' \in [Runs -> Contents] /\ report' \in [Runs -> Contents]
    BY <1>4 DEF OpenSummary, Opened, Contents, TypeOK
  <2> QED BY <1>4, <2>1, AdvanceKeeps DEF OpenSummary
<1>5. ASSUME NEW w \in Workers, WriteSummary(w) PROVE IInv'
  <2>1. job[w].finish \in Finishes
    BY <1>5 DEF WriteSummary, WritersKnown, TypeOK, Finishes
  <2>2. summary' \in [Runs -> Contents] /\ report' \in [Runs -> Contents]
    BY <1>5, <2>1 DEF WriteSummary, Written, Contents, TypeOK
  <2> QED BY <1>5, <2>2, AdvanceKeeps DEF WriteSummary
<1>6. ASSUME NEW w \in Workers, OpenReport(w) PROVE IInv'
  <2>1. summary' \in [Runs -> Contents] /\ report' \in [Runs -> Contents]
    BY <1>6 DEF OpenReport, Opened, Contents, TypeOK
  <2> QED BY <1>6, <2>1, AdvanceKeeps DEF OpenReport
<1>7. ASSUME NEW w \in Workers, WriteReport(w) PROVE IInv'
  <2>1. job[w].finish \in Finishes
    BY <1>7 DEF WriteReport, WritersKnown, TypeOK, Finishes
  <2>2. summary' \in [Runs -> Contents] /\ report' \in [Runs -> Contents]
    BY <1>7, <2>1 DEF WriteReport, Written, Contents, TypeOK
  <2> QED BY <1>7, <2>2, AdvanceKeeps DEF WriteReport
<1>8. CASE Restart
  <2>1. /\ pc' = [v \in Workers |-> "idle"] /\ known' = {} /\ restarts' \in 0..MaxRestarts
        /\ UNCHANGED <<dirs, summary, report, job, begun, acked, overlapped>>
    BY <1>8 DEF Restart, files, TypeOK
  <2>2. \A r \in Runs : Writing(r) # {} => r \in dirs
    BY DEF Writing, WritersKnown, TypeOK
  <2>3. cut' \subseteq dirs
    BY <1>8, <2>2 DEF Restart, TypeOK
  <2>4. TypeOK'
    BY <2>1, <2>3 DEF TypeOK, Steps
  <2>5. WritersKnown'
    BY <2>1 DEF WritersKnown
  <2> QED BY <2>4, <2>5
<1>9. CASE UNCHANGED vars
  BY <1>9 DEF vars, files, history, TypeOK, WritersKnown
<1> QED BY <1>1, <1>2, <1>3, <1>4, <1>5, <1>6, <1>7, <1>8, <1>9 DEF Next, Work

\* So it holds in every state of the repository.
LEMMA RunsInvariant == Spec => []IInv
<1> QED BY RunsInit, RunsStep, PTL DEF Spec

\* Files, memory and threads of the repository always have their types.
THEOREM RunsTypes == Spec => []TypeOK
<1> QED BY RunsInvariant, PTL DEF IInv

\* One step of the repository leaves a closed run alone.
Closed(r) == r \in dirs /\ r \notin known /\ \A w \in Workers : pc[w] = "remember" => job[w].run # r

\* A step of any request leaves alone a run that is closed.
LEMMA ClosedStaysClosed ==
  ASSUME IInv, [Next]_vars, NEW r \in dirs, Closed(r)
  PROVE  r \notin known' /\ summary'[r] = summary[r] /\ report'[r] = report[r]
<1> USE DEF IInv
<1>0. r \in Runs /\ r \notin known
  BY DEF Closed, TypeOK
<1>1. ASSUME NEW w \in Workers, NEW q \in Runs, StartRun(w, q) \/ FinishRun(w, q)
      PROVE  UNCHANGED <<known, summary, report>>
  BY <1>1 DEF StartRun, FinishRun, Begin, files
<1>2. ASSUME NEW w \in Workers, Remember(w) PROVE r \notin known' /\ UNCHANGED <<summary, report>>
  BY <1>2, <1>0 DEF Remember, files, Closed
<1>3. ASSUME NEW w \in Workers, OpenSummary(w) \/ WriteSummary(w) \/ OpenReport(w) \/ WriteReport(w)
      PROVE  known' = known /\ summary'[r] = summary[r] /\ report'[r] = report[r]
  <2>1. job[w].run # r
    BY <1>3, <1>0 DEF OpenSummary, WriteSummary, OpenReport, WriteReport, WritersKnown
  <2>2. known' = known
    BY <1>3 DEF OpenSummary, WriteSummary, OpenReport, WriteReport, Advance
  <2>3. /\ \/ report' = report
           \/ \E c : report' = [report EXCEPT ![job[w].run] = c]
        /\ \/ summary' = summary
           \/ \E c : summary' = [summary EXCEPT ![job[w].run] = c]
    BY <1>3 DEF OpenSummary, WriteSummary, OpenReport, WriteReport
  <2> QED BY <2>1, <2>2, <2>3, <1>0 DEF TypeOK
<1>4. CASE Restart
  BY <1>4 DEF Restart, files
<1>5. CASE UNCHANGED vars
  BY <1>5, <1>0 DEF vars, files
<1> QED BY <1>0, <1>1, <1>2, <1>3, <1>4, <1>5 DEF Next, Work

\* A run that a restart left open can never be finished: ValidationRunRepository
\* keeps open runs in memory only, and no request of the new life touches the
\* files of a run it did not create.
THEOREM RunsClosedForGood == Spec => ClosedForGood
<1>1. IInv /\ [Next]_vars =>
        [\A r \in dirs : r \notin known /\ (\A w \in Workers : pc[w] = "remember" => job[w].run # r)
           => r \notin known' /\ summary'[r] = summary[r] /\ report'[r] = report[r]]_vars
  BY ClosedStaysClosed DEF Closed
<1> QED BY <1>1, RunsInvariant, PTL DEF Spec, ClosedForGood

-----------------------------------------------------------------------------
(* The repository is a RunBoard *)

\* The thread is inside finish_run.
Busy(w) == pc[w] \notin {"idle", "remember"}

\* Each finish has the run that its thread works on, and no two threads work on
\* one finish.
FinishesKnown ==
  /\ runOf \in Seq(Runs) /\ Len(runOf) = begun
  /\ \A w \in Workers : Busy(w) => runOf[job[w].finish] = job[w].run
  /\ \A v, w \in Workers : Busy(v) /\ Busy(w) /\ job[v].finish = job[w].finish => v = w

\* No finish has begun in an empty repository.
LEMMA FinishesInit == Init => FinishesKnown
BY DEF Init, FinishesKnown, Busy

\* A step that begins no finish and gives no busy thread another one.
LEMMA FinishesStay ==
  ASSUME FinishesKnown, runOf' = runOf, begun' = begun,
         \A v \in Workers : Busy(v)' => Busy(v) /\ job'[v] = job[v]
  PROVE  FinishesKnown'
BY DEF FinishesKnown

\* What every step of a finish under way leaves alone.
Writes(w) == OpenSummary(w) \/ WriteSummary(w) \/ OpenReport(w) \/ WriteReport(w)

\* A write moves its own thread on and begins nothing.
LEMMA WritesKeep ==
  ASSUME IInv, NEW w \in Workers, Writes(w)
  PROVE  /\ Busy(w) /\ job' = job /\ begun' = begun /\ runOf' = runOf /\ before' = before
         /\ pc' = [pc EXCEPT ![w] = StepAfter[pc[w]]]
         /\ \A v \in Workers : Busy(v)' => Busy(v)
<1>1. /\ job' = job /\ begun' = begun /\ runOf' = runOf /\ before' = before
      /\ pc' = [pc EXCEPT ![w] = StepAfter[pc[w]]] /\ Busy(w)
  BY DEF Writes, OpenSummary, WriteSummary, OpenReport, WriteReport, Advance, Busy
<1>2. \A v \in Workers : Busy(v)' => Busy(v)
  BY <1>1 DEF Busy, IInv, TypeOK
<1> QED BY <1>1, <1>2

\* Only FinishRun gives a thread a finish, and it is a new one.
LEMMA FinishesStep == IInv /\ FinishesKnown /\ [Next]_vars => FinishesKnown'
<1> SUFFICES ASSUME IInv, FinishesKnown, [Next]_vars PROVE FinishesKnown'
  OBVIOUS
<1>1. ASSUME NEW w \in Workers, NEW r \in Runs, StartRun(w, r) PROVE FinishesKnown'
  BY <1>1, FinishesStay DEF StartRun, history, Busy, IInv, TypeOK
<1>2. ASSUME NEW w \in Workers, Remember(w) PROVE FinishesKnown'
  BY <1>2, FinishesStay DEF Remember, history, Busy, IInv, TypeOK
<1>3. ASSUME NEW w \in Workers, NEW r \in Runs, FinishRun(w, r) PROVE FinishesKnown'
  <2>1. /\ begun' = begun + 1 /\ runOf' = Append(runOf, r) /\ begun \in Nat
        /\ pc' = [pc EXCEPT ![w] = "open_summary"]
        /\ job' = [job EXCEPT ![w] = [run |-> r, finish |-> begun + 1]]
    BY <1>3, StepAfterTypes DEF FinishRun, Begin, IInv, TypeOK
  <2>2. /\ runOf' \in Seq(Runs) /\ Len(runOf') = begun'
        /\ runOf'[begun + 1] = r /\ \A f \in 1..begun : runOf'[f] = runOf[f]
    BY <2>1 DEF FinishesKnown
  <2>3. job'[w] = [run |-> r, finish |-> begun + 1]
        /\ \A v \in Workers \ {w} : job'[v] = job[v] /\ (Busy(v)' <=> Busy(v))
    BY <2>1 DEF Busy, IInv, TypeOK
  <2>4. \A v \in Workers \ {w} : Busy(v) => job[v].finish \in 1..begun
    BY DEF IInv, WritersKnown, Busy
  <2>5. \A v \in Workers : Busy(v)' => runOf'[job'[v].finish] = job'[v].run
    BY <2>2, <2>3, <2>4 DEF FinishesKnown
  <2>6. \A u, v \in Workers : Busy(u)' /\ Busy(v)' /\ job'[u].finish = job'[v].finish => u = v
    BY <2>1, <2>3, <2>4 DEF FinishesKnown
  <2> QED BY <2>2, <2>5, <2>6 DEF FinishesKnown
<1>4. ASSUME NEW w \in Workers, Writes(w) PROVE FinishesKnown'
  BY <1>4, WritesKeep, FinishesStay
<1>5. CASE Restart
  BY <1>5, FinishesStay DEF Restart, Busy
<1>6. CASE UNCHANGED vars
  BY <1>6, FinishesStay DEF vars, history, Busy
<1> QED BY <1>1, <1>2, <1>3, <1>4, <1>5, <1>6 DEF Next, Work, Writes

\* The contents that are no finish's.
LEMMA NotFinishes == 0 \notin Finishes /\ Emptied \notin Finishes /\ Garbled \notin Finishes
BY RunsAssumption DEF Finishes, Emptied, Garbled

\* An empty repository is an empty board.
LEMMA BoardInit == Init => Board!Init
<1> SUFFICES ASSUME Init PROVE Board!Init
  OBVIOUS
<1>1. \A r \in Runs : ~Served(r)
  <2> SUFFICES ASSUME NEW r \in Runs PROVE ~Served(r)
    OBVIOUS
  <2>1. summary[r] = 0
    BY DEF Init, NoFile
  <2> QED BY <2>1, NotFinishes DEF Served
<1>2. UnderWay = {}
  BY DEF Init, UnderWay
<1> QED BY <1>1, <1>2 DEF Init, Board!Init

\* The board's actions are named by what they do to a run's verdict; here by the
\* action of the repository.
LEMMA BoardStep == IInv /\ FinishesKnown /\ [Next]_vars => [Board!Next]_(Board!board)
<1> SUFFICES ASSUME IInv, FinishesKnown, [Next]_vars PROVE [Board!Next]_(Board!board)
  OBVIOUS
<1> DEFINE Verdict == [r \in Runs |-> IF Served(r) THEN summary[r] ELSE 0]
<1>0. UnderWay = {job[v].finish : v \in {u \in Workers : Busy(u)}}
  BY DEF UnderWay, Busy
<1>1. ASSUME UNCHANGED <<summary, runOf, acked>>, UnderWay' = UnderWay
      PROVE  UNCHANGED Board!board
  BY <1>1 DEF Board!board, Served
<1>8. ASSUME NEW g \in UnderWay, Board!Withdraw(g) \/ Board!Publish(g) \/ Board!Acknowledge(g)
      PROVE  Board!Next
  BY <1>8 DEF Board!Next
<1>2. ASSUME NEW w \in Workers, NEW r \in Runs, StartRun(w, r) PROVE UNCHANGED Board!board
  <2>1. UNCHANGED <<summary, runOf, acked>>
    BY <1>2 DEF StartRun, files, history
  <2>2. UnderWay' = UnderWay
    BY <1>2 DEF StartRun, UnderWay, IInv, TypeOK
  <2> QED BY <2>1, <2>2, <1>1
<1>3. ASSUME NEW w \in Workers, Remember(w) PROVE UNCHANGED Board!board
  <2>1. UNCHANGED <<summary, runOf, acked>>
    BY <1>3 DEF Remember, files, history
  <2>2. UnderWay' = UnderWay
    BY <1>3 DEF Remember, UnderWay, IInv, TypeOK
  <2> QED BY <2>1, <2>2, <1>1
<1>4. ASSUME NEW w \in Workers, NEW r \in Runs, FinishRun(w, r) PROVE Board!Begin(r)
  <2>1. /\ pc[w] = "idle" /\ begun' = begun + 1 /\ runOf' = Append(runOf, r)
        /\ pc' = [pc EXCEPT ![w] = "open_summary"]
        /\ job' = [job EXCEPT ![w] = [run |-> r, finish |-> begun + 1]]
        /\ UNCHANGED <<summary, acked>>
    BY <1>4, StepAfterTypes DEF FinishRun, Begin, files
  <2>2. Len(runOf') = begun + 1
    BY <2>1 DEF FinishesKnown
  <2>3. UnderWay' = UnderWay \cup {begun + 1}
    BY <2>1 DEF UnderWay, IInv, TypeOK
  <2> QED BY <2>1, <2>2, <2>3 DEF Board!Begin, Served
<1>5. ASSUME NEW w \in Workers, Writes(w)
      PROVE  [Board!Next]_(Board!board)
  <2>0. PICK f, r : f = job[w].finish /\ r = job[w].run
    OBVIOUS
  <2> USE <2>0
  <2>1. /\ Busy(w) /\ job' = job /\ runOf' = runOf
        /\ pc' = [pc EXCEPT ![w] = StepAfter[pc[w]]]
    BY <1>5, WritesKeep
  <2>2. f \in UnderWay /\ runOf[f] = r /\ r \in Runs /\ f \in Finishes
    BY <2>1, <1>0 DEF FinishesKnown, IInv, WritersKnown, TypeOK, Busy, Finishes
  <2>3. ASSUME pc[w] # "write_report" PROVE UnderWay' = UnderWay /\ acked' = acked
    <3>1. pc[w] \in {"open_summary", "write_summary", "open_report"}
      BY <1>5, <2>3 DEF Writes, OpenSummary, WriteSummary, OpenReport, WriteReport
    <3>2. StepAfter[pc[w]] \notin {"idle", "remember"}
      BY <3>1, StepAfterTypes
    <3>3. \A v \in Workers : Busy(v)' <=> Busy(v)
      BY <2>1, <3>2 DEF Busy, IInv, TypeOK
    <3>4. UnderWay' = UnderWay
      BY <3>3, <2>1 DEF UnderWay, Busy
    <3>5. acked' = acked
      BY <1>5, <2>1, <3>2 DEF Writes, OpenSummary, WriteSummary, OpenReport, WriteReport,
                              Advance, IInv, TypeOK
    <3> QED BY <3>4, <3>5
  <2>4. CASE OpenSummary(w)
    <3>1. summary' = [summary EXCEPT ![r] = Emptied] /\ pc[w] # "write_report"
      BY <2>4 DEF OpenSummary, Opened
    <3>2. Verdict' = [Verdict EXCEPT ![r] = 0]
      BY <3>1, <2>2, NotFinishes DEF Served, IInv, TypeOK
    <3>3. Board!Withdraw(f)
      BY <3>1, <3>2, <2>1, <2>2, <2>3 DEF Board!Withdraw
    <3> QED BY <3>3, <2>2, <1>8
  <2>5. CASE WriteSummary(w)
    <3>1. PICK c \in {f, Garbled} : summary' = [summary EXCEPT ![r] = c]
      BY <2>5 DEF WriteSummary, Written
    <3>2. pc[w] # "write_report"
      BY <2>5 DEF WriteSummary
    <3>3. CASE c = f
      <4>1. Verdict' = [Verdict EXCEPT ![r] = f]
        BY <3>1, <3>3, <2>2 DEF Served, Finishes, IInv, TypeOK
      <4>2. Board!Publish(f)
        BY <4>1, <3>2, <2>1, <2>2, <2>3 DEF Board!Publish
      <4> QED BY <4>2, <2>2, <1>8
    <3>4. CASE c = Garbled
      <4>1. Verdict' = [Verdict EXCEPT ![r] = 0]
        BY <3>1, <3>4, <2>2, NotFinishes DEF Served, IInv, TypeOK
      <4>2. Board!Withdraw(f)
        BY <4>1, <3>2, <2>1, <2>2, <2>3 DEF Board!Withdraw
      <4> QED BY <4>2, <2>2, <1>8
    <3> QED BY <3>1, <3>3, <3>4
  <2>6. CASE OpenReport(w)
    <3>1. summary' = summary /\ pc[w] # "write_report"
      BY <2>6 DEF OpenReport
    <3> QED BY <3>1, <2>1, <2>3, <1>1
  <2>7. CASE WriteReport(w)
    <3>1. summary' = summary /\ pc' = [pc EXCEPT ![w] = "idle"] /\ acked' = acked \cup {f}
      BY <2>7, StepAfterTypes DEF WriteReport, Advance, IInv, TypeOK
    <3>2. \A v \in Workers : Busy(v)' <=> Busy(v) /\ v # w
      BY <3>1 DEF Busy, IInv, TypeOK
    <3>3. UnderWay' = UnderWay \ {f}
      BY <3>2, <2>1 DEF UnderWay, Busy, FinishesKnown
    <3>4. Board!Acknowledge(f)
      BY <3>1, <3>3, <2>1, <2>2 DEF Board!Acknowledge, Served
    <3> QED BY <3>4, <2>2, <1>8
  <2> QED BY <1>5, <2>4, <2>5, <2>6, <2>7 DEF Writes
<1>6. CASE Restart
  <2>1. UnderWay' = {} /\ UNCHANGED <<summary, runOf, acked>>
    BY <1>6 DEF Restart, UnderWay, files
  <2> QED BY <2>1 DEF Board!Next, Board!Crash, Served
<1>7. CASE UNCHANGED vars
  BY <1>7, <1>1 DEF vars, files, history, UnderWay
<1> QED BY <1>2, <1>3, <1>4, <1>5, <1>6, <1>7 DEF Next, Work, Writes, Board!Next

\* FinishesKnown is an invariant of every behaviour.
LEMMA SpecFinishes == Spec => []FinishesKnown
BY FinishesInit, FinishesStep, RunsInvariant, PTL DEF Spec

\* Whoever reads the repository sees a board with one verdict for each run, which
\* changes only by a finish of that run that has not been answered, whatever the
\* threads do and wherever a restart cuts them off: the two files, each emptied and
\* written in place, and _runs implement RunBoard.
THEOREM RunsImplementBoard == Spec => ImplementsBoard
BY BoardInit, BoardStep, RunsInvariant, SpecFinishes, PTL DEF Spec, ImplementsBoard, Board!Spec

-----------------------------------------------------------------------------
(* What is served is current *)

\* What was acknowledged when a finish began is still acknowledged; a finish under
\* way is not.
HistoryKnown ==
  /\ before \in Seq(SUBSET Nat) /\ Len(before) = begun
  /\ \A f \in 1..begun : before[f] \subseteq acked
  /\ \A w \in Workers : Busy(w) => job[w].finish \notin acked

\* The finish has emptied its run's summary, or had done so before a restart.
Replaced(f) ==
  \/ f \in acked
  \/ \E w \in Workers : Busy(w) /\ pc[w] # "open_summary" /\ job[w].finish = f

\* A whole summary is one of its own run; none that was acknowledged before a
\* finish of the run began outlives the moment when this finish emptied the file.
SummariesCurrent ==
  /\ \A r \in Runs : Served(r) => summary[r] \in 1..begun /\ runOf[summary[r]] = r
  /\ \A f \in 1..begun :
       Replaced(f) /\ Served(runOf[f]) => summary[runOf[f]] \notin before[f]

\* The invariant that makes ServedIsCurrent inductive.
CurrentInv == IInv /\ FinishesKnown /\ HistoryKnown /\ SummariesCurrent

\* Nothing is served by an empty repository.
LEMMA CurrentInit == Init => HistoryKnown /\ SummariesCurrent
<1> SUFFICES ASSUME Init PROVE HistoryKnown /\ SummariesCurrent
  OBVIOUS
<1>1. HistoryKnown
  BY DEF Init, HistoryKnown, Busy
<1>2. \A r \in Runs : ~Served(r)
  <2> SUFFICES ASSUME NEW r \in Runs PROVE ~Served(r)
    OBVIOUS
  <2>1. summary[r] = 0
    BY DEF Init, NoFile
  <2> QED BY <2>1, NotFinishes DEF Served
<1>3. SummariesCurrent
  BY <1>2 DEF Init, SummariesCurrent
<1> QED BY <1>1, <1>3

\* A step that neither begins nor acknowledges a finish, changes no summary and
\* empties none.
LEMMA CurrentStays ==
  ASSUME HistoryKnown, SummariesCurrent,
         UNCHANGED <<summary, runOf, before, begun, acked>>,
         \A v \in Workers : Busy(v)' => Busy(v) /\ job'[v] = job[v],
         \A v \in Workers : Busy(v)' /\ pc'[v] # "open_summary" => pc[v] # "open_summary"
  PROVE  HistoryKnown' /\ SummariesCurrent'
<1>1. HistoryKnown'
  BY DEF HistoryKnown
<1>2. \A f : Replaced(f)' => Replaced(f)
  BY DEF Replaced
<1>3. SummariesCurrent'
  BY <1>2 DEF SummariesCurrent, Served
<1> QED BY <1>1, <1>3

\* The write actions, one by one.
LEMMA CurrentWrites ==
  ASSUME CurrentInv, NEW w \in Workers, Writes(w)
  PROVE  HistoryKnown' /\ SummariesCurrent'
<1> USE DEF CurrentInv
<1>0. /\ Busy(w) /\ job' = job /\ begun' = begun /\ runOf' = runOf /\ before' = before
      /\ pc' = [pc EXCEPT ![w] = StepAfter[pc[w]]]
      /\ \A v \in Workers : Busy(v)' => Busy(v)
  BY WritesKeep
<1>1. PICK f, r : f = job[w].finish /\ r = job[w].run
  OBVIOUS
<1> USE <1>1
<1>2. f \in 1..begun /\ f \notin acked /\ r \in Runs /\ runOf[f] = r /\ f \in Finishes
  BY <1>0 DEF FinishesKnown, HistoryKnown, IInv, WritersKnown, TypeOK, Busy, Finishes
<1>3. \A v \in Workers \ {w} : pc'[v] = pc[v] /\ (Busy(v) => job[v].finish # f)
  BY <1>0 DEF IInv, TypeOK, FinishesKnown
<1>4. CASE OpenSummary(w)
  <2>1. /\ acked' = acked /\ summary' = [summary EXCEPT ![r] = Emptied]
    BY <1>4, StepAfterTypes DEF OpenSummary, Opened, Advance, IInv, TypeOK
  <2>2. HistoryKnown'
    BY <1>0, <2>1 DEF HistoryKnown
  <2>3. ~Served(r)' /\ \A q \in Runs \ {r} : summary'[q] = summary[q]
    BY <2>1, <1>2, NotFinishes DEF Served, IInv, TypeOK
  <2>4. \A g \in 1..begun : g # f /\ Replaced(g)' => Replaced(g)
    BY <1>0, <1>3, <2>1 DEF Replaced
  <2>5. \A g \in 1..begun : runOf[g] \in Runs
    BY DEF FinishesKnown, IInv, TypeOK
  <2>6. SummariesCurrent'
    BY <1>0, <1>2, <2>3, <2>4, <2>5 DEF SummariesCurrent, Served
  <2> QED BY <2>2, <2>6
<1>5. CASE WriteSummary(w)
  <2>1. acked' = acked /\ pc[w] = "write_summary"
    BY <1>5, StepAfterTypes DEF WriteSummary, Advance, IInv, TypeOK
  <2>2. PICK c \in {f, Garbled} : summary' = [summary EXCEPT ![r] = c]
    BY <1>5 DEF WriteSummary, Written
  <2>3. HistoryKnown'
    BY <1>0, <2>1 DEF HistoryKnown
  <2>4. (Served(r)' => summary'[r] = f) /\ \A q \in Runs \ {r} : summary'[q] = summary[q]
    BY <2>2, <1>2, NotFinishes DEF Served, IInv, TypeOK
  <2>5. \A g \in 1..begun : Replaced(g)' => Replaced(g)
    BY <1>0, <1>3, <2>1 DEF Replaced
  <2>6. \A g \in 1..begun : runOf[g] \in Runs /\ f \notin before[g]
    BY <1>2 DEF FinishesKnown, IInv, TypeOK, HistoryKnown
  <2>7. SummariesCurrent'
    BY <1>0, <1>2, <2>4, <2>5, <2>6 DEF SummariesCurrent, Served
  <2> QED BY <2>3, <2>7
<1>6. CASE OpenReport(w)
  <2>1. acked' = acked /\ summary' = summary /\ pc[w] = "open_report"
    BY <1>6, StepAfterTypes DEF OpenReport, Advance, IInv, TypeOK
  <2>2. \A v \in Workers : Busy(v)' /\ pc'[v] # "open_summary" => pc[v] # "open_summary"
    BY <1>3, <2>1
  <2> QED BY <1>0, <2>1, <2>2, CurrentStays
<1>7. CASE WriteReport(w)
  <2>1. /\ acked' = acked \cup {f} /\ summary' = summary
        /\ pc[w] = "write_report" /\ pc'[w] = "idle"
    BY <1>7, StepAfterTypes DEF WriteReport, Advance, IInv, TypeOK
  <2>2. HistoryKnown'
    BY <1>0, <1>3, <2>1 DEF HistoryKnown, Busy
  <2>3. Replaced(f)
    BY <1>0, <2>1 DEF Replaced
  <2>4. \A g \in 1..begun : Replaced(g)' => Replaced(g)
    BY <1>0, <1>3, <2>1, <2>3 DEF Replaced, Busy
  <2>5. SummariesCurrent'
    BY <1>0, <2>1, <2>4 DEF SummariesCurrent, Served
  <2> QED BY <2>2, <2>5
<1> QED BY <1>4, <1>5, <1>6, <1>7 DEF Writes

\* Every step keeps what is served current.
LEMMA CurrentStep == CurrentInv /\ [Next]_vars => HistoryKnown' /\ SummariesCurrent'
<1> SUFFICES ASSUME CurrentInv, [Next]_vars PROVE HistoryKnown' /\ SummariesCurrent'
  OBVIOUS
<1> USE DEF CurrentInv
<1>1. ASSUME NEW w \in Workers, NEW r \in Runs, StartRun(w, r) PROVE HistoryKnown' /\ SummariesCurrent'
  BY <1>1, CurrentStays DEF StartRun, files, history, Busy, IInv, TypeOK
<1>2. ASSUME NEW w \in Workers, Remember(w) PROVE HistoryKnown' /\ SummariesCurrent'
  BY <1>2, CurrentStays DEF Remember, files, history, Busy, IInv, TypeOK
<1>3. ASSUME NEW w \in Workers, NEW r \in Runs, FinishRun(w, r)
      PROVE  HistoryKnown' /\ SummariesCurrent'
  <2>1. /\ begun' = begun + 1 /\ runOf' = Append(runOf, r) /\ before' = Append(before, acked)
        /\ begun \in Nat /\ UNCHANGED <<summary, acked>>
        /\ pc' = [pc EXCEPT ![w] = "open_summary"]
        /\ job' = [job EXCEPT ![w] = [run |-> r, finish |-> begun + 1]]
    BY <1>3, StepAfterTypes DEF FinishRun, Begin, files, IInv, TypeOK
  <2>2. acked \subseteq 1..begun
    BY DEF IInv, TypeOK
  <2>3. /\ before' \in Seq(SUBSET Nat) /\ Len(before') = begun' /\ before'[begun + 1] = acked
        /\ \A f \in 1..begun : before'[f] = before[f] /\ runOf'[f] = runOf[f]
    BY <2>1, <2>2 DEF HistoryKnown, FinishesKnown
  <2>4. /\ job'[w].finish = begun + 1 /\ pc'[w] = "open_summary"
        /\ \A v \in Workers \ {w} : job'[v] = job[v] /\ pc'[v] = pc[v]
    BY <2>1 DEF IInv, TypeOK
  <2>5. HistoryKnown'
    BY <2>1, <2>2, <2>3, <2>4 DEF HistoryKnown, Busy
  <2>6. \A f \in 1..begun' : Replaced(f)' => f \in 1..begun /\ Replaced(f)
    <3> SUFFICES ASSUME NEW f \in 1..begun', Replaced(f)' PROVE f \in 1..begun /\ Replaced(f)
      OBVIOUS
    <3>1. CASE f \in acked'
      BY <3>1, <2>1, <2>2 DEF Replaced
    <3>2. CASE f \notin acked'
      <4>1. PICK v \in Workers : Busy(v)' /\ pc'[v] # "open_summary" /\ job'[v].finish = f
        BY <3>2 DEF Replaced
      <4>2. v # w
        BY <4>1, <2>4
      <4>3. Busy(v) /\ pc[v] # "open_summary" /\ job[v].finish = f
        BY <4>1, <4>2, <2>4 DEF Busy
      <4> QED BY <4>3 DEF Replaced, IInv, WritersKnown, Busy
    <3> QED BY <3>1, <3>2
  <2>7. \A q \in Runs : Served(q)' => summary'[q] \in 1..begun' /\ runOf'[summary'[q]] = q
    <3> SUFFICES ASSUME NEW q \in Runs, Served(q)
                 PROVE  summary[q] \in 1..begun' /\ runOf'[summary[q]] = q
      BY <2>1 DEF Served
    <3>1. summary[q] \in 1..begun /\ runOf[summary[q]] = q
      BY DEF SummariesCurrent
    <3>2. 1..begun \subseteq 1..begun'
      BY <2>1
    <3> QED BY <3>1, <3>2, <2>3
  <2>8. \A f \in 1..begun' : Replaced(f)' /\ Served(runOf[f]) =>
          summary[runOf[f]] \notin before[f] /\ before'[f] = before[f] /\ runOf'[f] = runOf[f]
    BY <2>3, <2>6 DEF SummariesCurrent
  <2>9. \A f \in 1..begun' : Replaced(f)' => runOf'[f] = runOf[f]
    BY <2>3, <2>6
  <2>10. SummariesCurrent'
    BY <2>1, <2>7, <2>8, <2>9 DEF SummariesCurrent, Served
  <2> QED BY <2>5, <2>10
<1>4. ASSUME NEW w \in Workers, Writes(w) PROVE HistoryKnown' /\ SummariesCurrent'
  BY <1>4, CurrentWrites
<1>5. CASE Restart
  BY <1>5, CurrentStays DEF Restart, files, Busy
<1>6. CASE UNCHANGED vars
  BY <1>6, CurrentStays DEF vars, files, history, Busy
<1> QED BY <1>1, <1>2, <1>3, <1>4, <1>5, <1>6 DEF Next, Work, Writes

\* CurrentInv is an invariant of every behaviour.
LEMMA SpecCurrent == Spec => []CurrentInv
<1>1. Init => CurrentInv
  BY RunsInit, FinishesInit, CurrentInit DEF CurrentInv
<1>2. CurrentInv /\ [Next]_vars => CurrentInv'
  BY RunsStep, FinishesStep, CurrentStep DEF CurrentInv
<1> QED BY <1>1, <1>2, PTL DEF Spec

\* list_saved_runs and load_report never serve the summary of another run, nor one
\* that an operator who has finished the run again knows to be superseded.
THEOREM RunsServedIsCurrent == Spec => []ServedIsCurrent
<1>1. CurrentInv => ServedIsCurrent
  BY DEF CurrentInv, SummariesCurrent, ServedIsCurrent, Replaced, IInv, TypeOK
<1> QED BY <1>1, SpecCurrent, PTL

-----------------------------------------------------------------------------
(* The files of a run agree *)

\* The thread is finishing the run.
On(w, r) == Busy(w) /\ job[w].run = r

\* A finish of a run that is finished by one request at a time is the newest one,
\* and has written what it has passed.
Placed(w, r) ==
  /\ \A g \in 1..begun : runOf[g] = r => g <= job[w].finish
  /\ report[r] \in Finishes => report[r] <= job[w].finish
  /\ pc[w] = "write_summary" => summary[r] = Emptied
  /\ pc[w] \in {"open_report", "write_report"} => summary[r] = job[w].finish
  /\ pc[w] = "write_report" => report[r] = Emptied

\* The report is never ahead of the summary.
ReportIsOlder(r) ==
  report[r] \in Finishes /\ summary[r] \in Finishes => report[r] <= summary[r]

\* Both files are those of the last finish acknowledged, if there is one.
Settled(r) ==
  /\ summary[r] = report[r]
  /\ \/ summary[r] = NoFile /\ \A g \in acked : runOf[g] # r
     \/ /\ summary[r] \in acked /\ runOf[summary[r]] = r
        /\ \A g \in acked : runOf[g] = r => g <= summary[r]

\* What holds of a run that no two requests have finished at the same time.
RunAgrees(r) ==
  r \notin overlapped =>
    /\ \A v, w \in Workers : On(v, r) /\ On(w, r) => v = w
    /\ \A w \in Workers : On(w, r) => Placed(w, r)
    /\ ReportIsOlder(r)
    /\ (r \notin cut /\ \A w \in Workers : ~On(w, r)) => Settled(r)

\* No file tells of a finish that has not begun.
ContentsKnown ==
  \A r \in Runs : report[r] \in Finishes => report[r] \in 1..begun

\* The invariant that makes FilesAgree inductive.
AgreeInv == CurrentInv /\ ContentsKnown /\ \A r \in Runs : RunAgrees(r)

\* Writing, the history of FilesAgree, in terms of the threads.
LEMMA WritingOn == \A r : (Writing(r) = {}) <=> \A w \in Workers : ~On(w, r)
BY DEF Writing, On, Busy

\* A run without files agrees.
LEMMA AgreeInit == Init => ContentsKnown /\ \A r \in Runs : RunAgrees(r)
<1> SUFFICES ASSUME Init PROVE ContentsKnown /\ \A r \in Runs : RunAgrees(r)
  OBVIOUS
<1>1. \A r \in Runs : summary[r] = NoFile /\ report[r] = NoFile
  BY DEF Init
<1>2. NoFile \notin Finishes
  BY NotFinishes DEF NoFile
<1>3. \A w \in Workers, r \in Runs : ~On(w, r)
  BY DEF Init, On, Busy
<1>4. acked = {}
  BY DEF Init
<1>5. ContentsKnown
  BY <1>1, <1>2 DEF ContentsKnown
<1>6. \A r \in Runs : Settled(r) /\ ReportIsOlder(r)
  BY <1>1, <1>2, <1>4 DEF Settled, ReportIsOlder
<1> QED BY <1>3, <1>5, <1>6 DEF RunAgrees

\* A run is left alone by a step that does not touch its files, its threads, or
\* the finishes known of it.
LEMMA RunStays ==
  ASSUME NEW r \in Runs, AgreeInv,
         summary'[r] = summary[r], report'[r] = report[r],
         r \in overlapped => r \in overlapped', r \in cut => r \in cut',
         \A v \in Workers : On(v, r)' => On(v, r) /\ job'[v] = job[v] /\ pc'[v] = pc[v],
         (r \notin cut' /\ \A v \in Workers : ~On(v, r)') => \A v \in Workers : ~On(v, r),
         \A g \in 1..begun : runOf'[g] = runOf[g],
         \A g \in 1..begun' : runOf'[g] = r => g \in 1..begun,
         \A g \in acked' : runOf'[g] = r => g \in acked,
         acked \subseteq acked'
  PROVE  RunAgrees(r)'
<1> SUFFICES ASSUME r \notin overlapped' PROVE
      /\ \A v, w \in Workers : On(v, r)' /\ On(w, r)' => v = w
      /\ \A w \in Workers : On(w, r)' => Placed(w, r)'
      /\ ReportIsOlder(r)'
      /\ (r \notin cut' /\ \A w \in Workers : ~On(w, r)') => Settled(r)'
  BY DEF RunAgrees
<1>0. RunAgrees(r) /\ r \notin overlapped
  BY DEF AgreeInv
<1>1. \A v, w \in Workers : On(v, r)' /\ On(w, r)' => v = w
  BY <1>0 DEF RunAgrees
<1>2. \A w \in Workers : On(w, r)' => Placed(w, r)'
  <2> SUFFICES ASSUME NEW w \in Workers, On(w, r)' PROVE Placed(w, r)'
    OBVIOUS
  <2>1. On(w, r) /\ job'[w] = job[w] /\ pc'[w] = pc[w] /\ Placed(w, r)
    BY <1>0 DEF RunAgrees
  <2>2. \A g \in 1..begun' : runOf'[g] = r => g <= job'[w].finish
    BY <2>1 DEF Placed
  <2> QED BY <2>1, <2>2 DEF Placed
<1>3. ReportIsOlder(r)'
  BY <1>0 DEF RunAgrees, ReportIsOlder
<1>4. ASSUME r \notin cut', \A w \in Workers : ~On(w, r)' PROVE Settled(r)'
  <2>1. Settled(r)
    BY <1>0, <1>4 DEF RunAgrees
  <2>2. acked \subseteq 1..begun
    BY DEF AgreeInv, CurrentInv, IInv, TypeOK
  <2>3. \A g \in acked' : runOf'[g] = r => g \in acked /\ runOf[g] = r
    BY <2>2
  <2> QED BY <2>1, <2>2, <2>3 DEF Settled
<1> QED BY <1>1, <1>2, <1>3, <1>4

\* The write actions and the run they write.
LEMMA AgreeWrites ==
  ASSUME AgreeInv, NEW w \in Workers, Writes(w)
  PROVE  ContentsKnown' /\ \A q \in Runs : RunAgrees(q)'
<1> USE DEF AgreeInv, CurrentInv
<1>0. /\ Busy(w) /\ job' = job /\ begun' = begun /\ runOf' = runOf
      /\ pc' = [pc EXCEPT ![w] = StepAfter[pc[w]]]
      /\ \A v \in Workers : Busy(v)' => Busy(v)
  BY WritesKeep
<1>1. PICK f, r : f = job[w].finish /\ r = job[w].run
  OBVIOUS
<1> USE <1>1
<1>2. f \in 1..begun /\ r \in Runs /\ runOf[f] = r /\ f \in Finishes /\ f \in Nat
  BY <1>0 DEF FinishesKnown, IInv, WritersKnown, TypeOK, Busy, Finishes
<1>3. /\ UNCHANGED <<cut, overlapped>>
      /\ acked \subseteq acked' /\ acked' \subseteq acked \cup {f}
      /\ \A q \in Runs \ {r} : summary'[q] = summary[q] /\ report'[q] = report[q]
  BY <1>2 DEF Writes, OpenSummary, WriteSummary, OpenReport, WriteReport, Advance, IInv, TypeOK
<1>4. \A v \in Workers \ {w} : pc'[v] = pc[v] /\ (Busy(v)' <=> Busy(v))
  BY <1>0 DEF IInv, TypeOK, Busy
<1>5. ASSUME NEW q \in Runs, q # r PROVE RunAgrees(q)'
  <2>1. \A v \in Workers : On(v, q)' <=> On(v, q)
    BY <1>0, <1>4, <1>5 DEF On
  <2>2. \A v \in Workers : On(v, q)' => job'[v] = job[v] /\ pc'[v] = pc[v]
    BY <1>0, <1>4, <1>5 DEF On
  <2>3. \A g \in acked' : runOf'[g] = q => g \in acked
    BY <1>0, <1>2, <1>3, <1>5
  <2> QED BY <1>0, <1>3, <1>5, <2>1, <2>2, <2>3, RunStays
<1>6. \A v \in Workers : On(v, r)' => On(v, r)
  BY <1>0 DEF On
<1>7. CASE r \in overlapped
  <2>1. RunAgrees(r)'
    BY <1>3, <1>7 DEF RunAgrees
  <2>2. report'[r] \in Finishes => report'[r] \in 1..begun
    BY <1>2, NotFinishes DEF Writes, OpenSummary, WriteSummary, OpenReport, WriteReport,
       Opened, Written, ContentsKnown, IInv, TypeOK
  <2> QED BY <1>0, <1>3, <1>5, <2>1, <2>2 DEF ContentsKnown
<1>8. CASE r \notin overlapped
  <2>1. /\ \A v \in Workers : On(v, r) => v = w
        /\ Placed(w, r) /\ ReportIsOlder(r) /\ On(w, r)
    BY <1>0, <1>2, <1>8 DEF RunAgrees, On
  <2>2. \A u, v \in Workers : On(u, r)' /\ On(v, r)' => u = v
    BY <1>6, <2>1
  <2>3. ASSUME Placed(w, r)', ReportIsOlder(r)', report'[r] \in Finishes => report'[r] \in 1..begun,
               On(w, r)' \/ Settled(r)'
        PROVE  ContentsKnown' /\ \A q \in Runs : RunAgrees(q)'
    <3>1. RunAgrees(r)'
      BY <1>6, <2>1, <2>2, <2>3 DEF RunAgrees
    <3> QED BY <1>0, <1>3, <1>5, <2>3, <3>1 DEF ContentsKnown
  <2>4. \A g \in 1..begun' : runOf'[g] = r => g <= job'[w].finish
    BY <1>0, <2>1 DEF Placed
  <2>5. report[r] \in Finishes => report[r] \in 1..begun
    BY <1>2 DEF ContentsKnown
  <2>6. CASE OpenSummary(w)
    <3>1. /\ summary'[r] = Emptied /\ report'[r] = report[r] /\ pc'[w] = "write_summary"
      BY <1>0, <1>2, <2>6, StepAfterTypes DEF OpenSummary, Opened, IInv, TypeOK
    <3>2. Placed(w, r)' /\ ReportIsOlder(r)'
      BY <1>0, <2>1, <2>4, <3>1, NotFinishes DEF Placed, ReportIsOlder
    <3>3. On(w, r)'
      BY <1>0, <3>1 DEF On, Busy
    <3> QED BY <2>3, <2>5, <3>1, <3>2, <3>3
  <2>7. CASE WriteSummary(w)
    <3>1. summary[r] = Emptied
      BY <2>1, <2>7 DEF Placed, WriteSummary
    <3>2. /\ summary'[r] = f /\ report'[r] = report[r] /\ pc'[w] = "open_report"
      BY <1>0, <1>2, <2>7, <3>1, StepAfterTypes DEF WriteSummary, Written, IInv, TypeOK
    <3>3. Placed(w, r)' /\ ReportIsOlder(r)'
      BY <1>0, <2>1, <2>4, <3>2 DEF Placed, ReportIsOlder
    <3>4. On(w, r)'
      BY <1>0, <3>2 DEF On, Busy
    <3> QED BY <2>3, <2>5, <3>2, <3>3, <3>4
  <2>8. CASE OpenReport(w)
    <3>1. summary[r] = f
      BY <2>1, <2>8 DEF Placed, OpenReport
    <3>2. /\ summary'[r] = f /\ report'[r] = Emptied /\ pc'[w] = "write_report"
      BY <1>0, <1>2, <2>8, <3>1, StepAfterTypes DEF OpenReport, Opened, IInv, TypeOK
    <3>3. Placed(w, r)' /\ ReportIsOlder(r)'
      BY <1>0, <2>4, <3>2, NotFinishes DEF Placed, ReportIsOlder
    <3>4. On(w, r)'
      BY <1>0, <3>2 DEF On, Busy
    <3> QED BY <2>3, <3>2, <3>3, <3>4, NotFinishes
  <2>9. CASE WriteReport(w)
    <3>1. summary[r] = f /\ report[r] = Emptied
      BY <2>1, <2>9 DEF Placed, WriteReport
    <3>2. /\ summary'[r] = f /\ report'[r] = f /\ pc'[w] = "idle" /\ acked' = acked \cup {f}
      BY <1>0, <1>2, <2>9, <3>1, StepAfterTypes
         DEF WriteReport, Written, Advance, IInv, TypeOK
    <3>3. Placed(w, r)' /\ ReportIsOlder(r)'
      BY <1>0, <1>2, <2>4, <3>2 DEF Placed, ReportIsOlder
    <3>4. acked \subseteq 1..begun
      BY DEF IInv, TypeOK
    <3>5. \A g \in acked' : runOf[g] = r => g <= f
      BY <1>2, <2>1, <3>2, <3>4 DEF Placed
    <3>6. Settled(r)'
      BY <1>0, <1>2, <3>2, <3>5 DEF Settled
    <3> QED BY <1>2, <2>3, <3>2, <3>3, <3>6
  <2> QED BY <2>6, <2>7, <2>8, <2>9 DEF Writes
<1> QED BY <1>7, <1>8

\* Every step keeps the agreement of each run.
LEMMA AgreeStep == AgreeInv /\ [Next]_vars => ContentsKnown' /\ \A q \in Runs : RunAgrees(q)'
<1> SUFFICES ASSUME AgreeInv, [Next]_vars PROVE ContentsKnown' /\ \A q \in Runs : RunAgrees(q)'
  OBVIOUS
<1> USE DEF AgreeInv, CurrentInv
<1>1. ASSUME UNCHANGED <<files, begun, runOf, acked, cut, overlapped>>,
             \A v \in Workers : (Busy(v)' <=> Busy(v)) /\ (Busy(v) => job'[v] = job[v] /\ pc'[v] = pc[v])
      PROVE  ContentsKnown' /\ \A q \in Runs : RunAgrees(q)'
  <2>1. ContentsKnown'
    BY <1>1 DEF ContentsKnown, files
  <2>2. \A q \in Runs, v \in Workers :
          (On(v, q)' <=> On(v, q)) /\ (On(v, q) => job'[v] = job[v] /\ pc'[v] = pc[v])
    BY <1>1 DEF On
  <2>3. \A q \in Runs : RunAgrees(q)'
    BY <1>1, <2>2, RunStays DEF files
  <2> QED BY <2>1, <2>3
<1>2. ASSUME NEW w \in Workers, NEW r \in Runs, StartRun(w, r)
      PROVE  ContentsKnown' /\ \A q \in Runs : RunAgrees(q)'
  <2>1. UNCHANGED <<files, begun, runOf, acked, cut, overlapped>>
    BY <1>2 DEF StartRun, history
  <2>2. \A v \in Workers : (Busy(v)' <=> Busy(v)) /\ (Busy(v) => job'[v] = job[v] /\ pc'[v] = pc[v])
    BY <1>2 DEF StartRun, Busy, IInv, TypeOK
  <2> QED BY <1>1, <2>1, <2>2
<1>3. ASSUME NEW w \in Workers, Remember(w)
      PROVE  ContentsKnown' /\ \A q \in Runs : RunAgrees(q)'
  <2>1. UNCHANGED <<files, begun, runOf, acked, cut, overlapped>>
    BY <1>3 DEF Remember, history
  <2>2. \A v \in Workers : (Busy(v)' <=> Busy(v)) /\ (Busy(v) => job'[v] = job[v] /\ pc'[v] = pc[v])
    BY <1>3 DEF Remember, Busy, IInv, TypeOK
  <2> QED BY <1>1, <2>1, <2>2
<1>4. ASSUME NEW w \in Workers, NEW r \in Runs, FinishRun(w, r)
      PROVE  ContentsKnown' /\ \A q \in Runs : RunAgrees(q)'
  <2>1. /\ begun' = begun + 1 /\ runOf' = Append(runOf, r) /\ begun \in Nat /\ pc[w] = "idle"
        /\ UNCHANGED <<summary, report, acked, cut>>
        /\ overlapped' = overlapped \cup (IF Writing(r) = {} THEN {} ELSE {r})
        /\ pc' = [pc EXCEPT ![w] = "open_summary"]
        /\ job' = [job EXCEPT ![w] = [run |-> r, finish |-> begun + 1]]
    BY <1>4, StepAfterTypes DEF FinishRun, Begin, files, IInv, TypeOK
  <2>2. /\ runOf'[begun + 1] = r /\ \A g \in 1..begun : runOf'[g] = runOf[g]
        /\ 1..begun' = 1..begun \cup {begun + 1}
    BY <2>1 DEF FinishesKnown
  <2>3. /\ job'[w] = [run |-> r, finish |-> begun + 1] /\ pc'[w] = "open_summary"
        /\ \A v \in Workers \ {w} : job'[v] = job[v] /\ pc'[v] = pc[v]
    BY <2>1 DEF IInv, TypeOK
  <2>4. ContentsKnown'
    BY <2>1, <2>2 DEF ContentsKnown
  <2>5. ASSUME NEW q \in Runs, q # r PROVE RunAgrees(q)'
    <3>1. \A v \in Workers :
            (On(v, q)' <=> On(v, q)) /\ (On(v, q)' => job'[v] = job[v] /\ pc'[v] = pc[v])
      BY <2>1, <2>3, <2>5 DEF On, Busy
    <3>2. acked \subseteq 1..begun
      BY DEF IInv, TypeOK
    <3>3. \A g \in 1..begun' : runOf'[g] = q => g \in 1..begun
      BY <2>2, <2>5
    <3> QED BY <2>1, <2>2, <2>5, <3>1, <3>2, <3>3, RunStays
  <2>6. RunAgrees(r)'
    <3> SUFFICES ASSUME r \notin overlapped' PROVE RunAgrees(r)'
      BY DEF RunAgrees
    <3>1. r \notin overlapped /\ \A v \in Workers : ~On(v, r)
      BY <2>1, WritingOn
    <3>2. \A v \in Workers : On(v, r)' <=> v = w
      BY <2>3, <3>1 DEF On, Busy
    <3>3. ReportIsOlder(r)'
      BY <2>1, <3>1 DEF RunAgrees, ReportIsOlder
    <3>4. report[r] \in Finishes => report[r] <= begun + 1
      BY <2>1 DEF ContentsKnown
    <3>5. \A g \in 1..begun' : g <= begun + 1
      BY <2>1
    <3>6. Placed(w, r)'
      BY <2>1, <2>3, <3>4, <3>5 DEF Placed
    <3> QED BY <3>2, <3>3, <3>6 DEF RunAgrees
  <2> QED BY <2>4, <2>5, <2>6
<1>5. ASSUME NEW w \in Workers, Writes(w) PROVE ContentsKnown' /\ \A q \in Runs : RunAgrees(q)'
  BY <1>5, AgreeWrites
<1>6. CASE Restart
  <2>1. /\ UNCHANGED <<summary, report, begun, runOf, acked, overlapped>>
        /\ cut' = cut \cup {q \in Runs : Writing(q) # {}}
        /\ \A v \in Workers : ~Busy(v)'
    BY <1>6 DEF Restart, files, Busy
  <2>2. ContentsKnown'
    BY <2>1 DEF ContentsKnown
  <2>3. \A q \in Runs : RunAgrees(q)'
    <3> SUFFICES ASSUME NEW q \in Runs PROVE RunAgrees(q)'
      OBVIOUS
    <3>1. \A v \in Workers : ~On(v, q)'
      BY <2>1 DEF On
    <3>2. q \notin cut' => \A v \in Workers : ~On(v, q)
      BY <2>1, WritingOn
    <3> QED BY <2>1, <3>1, <3>2, RunStays
  <2> QED BY <2>2, <2>3
<1>7. CASE UNCHANGED vars
  <2>1. /\ UNCHANGED <<files, begun, runOf, acked, cut, overlapped>>
        /\ UNCHANGED <<pc, job>>
    BY <1>7 DEF vars, history
  <2> QED BY <2>1, <1>1 DEF Busy
<1> QED BY <1>2, <1>3, <1>4, <1>5, <1>6, <1>7 DEF Next, Work, Writes

\* AgreeInv is an invariant of every behaviour.
LEMMA SpecAgree == Spec => []AgreeInv
<1>1. Init => AgreeInv
  BY RunsInit, FinishesInit, CurrentInit, AgreeInit DEF AgreeInv, CurrentInv
<1>2. AgreeInv /\ [Next]_vars => AgreeInv'
  BY RunsStep, FinishesStep, CurrentStep, AgreeStep DEF AgreeInv, CurrentInv
<1> QED BY <1>1, <1>2, PTL DEF Spec

\* As long as a run is finished by one request at a time, its two files tell of the
\* last finish acknowledged, and a restart at any point leaves no report that is
\* newer than the summary.
THEOREM RunsFilesAgree == Spec => []FilesAgree
<1>1. AgreeInv => FilesAgree
  <2> SUFFICES ASSUME AgreeInv, NEW r \in Runs, r \notin overlapped
      PROVE  /\ (Writing(r) = {} /\ r \notin cut) =>
                  LET finished == {f \in acked : runOf[f] = r}
                  IN /\ summary[r] = report[r]
                     /\ summary[r] = IF finished = {} THEN NoFile
                                     ELSE CHOOSE f \in finished : \A g \in finished : g <= f
             /\ report[r] \in Finishes /\ summary[r] \in Finishes => report[r] <= summary[r]
    BY DEF FilesAgree
  <2>0. RunAgrees(r) /\ acked \subseteq Int
    BY RunsAssumption DEF AgreeInv, CurrentInv, IInv, TypeOK
  <2> DEFINE finished == {f \in acked : runOf[f] = r}
  <2>1. ASSUME Writing(r) = {}, r \notin cut
        PROVE  /\ summary[r] = report[r]
               /\ summary[r] = IF finished = {} THEN NoFile
                               ELSE CHOOSE f \in finished : \A g \in finished : g <= f
    <3>1. Settled(r)
      BY <2>0, <2>1, WritingOn DEF RunAgrees
    <3>2. CASE finished = {}
      BY <3>1, <3>2 DEF Settled
    <3>3. CASE finished # {}
      <4>1. summary[r] \in finished /\ \A g \in finished : g <= summary[r]
        BY <3>1, <3>3 DEF Settled
      <4>2. \A f \in finished : (\A g \in finished : g <= f) => f = summary[r]
        <5> SUFFICES ASSUME NEW f \in finished, summary[r] <= f, f <= summary[r]
                     PROVE  f = summary[r]
          BY <4>1
        <5>1. f \in acked /\ summary[r] \in acked
          BY <4>1
        <5> QED BY <5>1, <2>0
      <4>3. (CHOOSE f \in finished : \A g \in finished : g <= f) = summary[r]
        BY <4>1, <4>2
      <4> QED BY <3>1, <3>3, <4>3 DEF Settled
    <3> QED BY <3>2, <3>3
  <2> QED BY <2>0, <2>1 DEF RunAgrees, ReportIsOlder
<1> QED BY <1>1, SpecAgree, PTL

-----------------------------------------------------------------------------
(* The report viewer: what the page shows is current *)

\* A load of a report, as the page has it.
LoadRecords ==
  [run : Runs, step : {"asked", "answered", "reading", "done"}, body : 0..MaxFinishes,
   knew : SUBSET Nat]

\* The list, the loads and what is selected have their types.
PageTyped ==
  /\ unread \subseteq Runs /\ listed \in [Runs -> 0..MaxFinishes]
  /\ loads \in Seq(LoadRecords)
  /\ \A l \in Loads : loads[l].knew \subseteq acked
  /\ selected \in Runs \cup {NoReport} /\ crossed \in BOOLEAN

\* The finish is one of the run, and none that a user who knows of the
\* acknowledged finishes `knew` knows to be superseded.
CurrentTo(run, finish, knew) ==
  /\ finish \in 1..begun /\ runOf[finish] = run
  /\ knew \subseteq 1..begun
  /\ \A f \in knew : runOf[f] = run => finish \notin before[f]

\* An answer that is not yet on the page is current to the user of its load.
BodiesCurrent ==
  \A l \in Loads :
    /\ loads[l].step = "reading" => loads[l].body # 0
    /\ loads[l].step \in {"answered", "reading"} /\ loads[l].body # 0 =>
         CurrentTo(loads[l].run, loads[l].body, loads[l].knew)

\* And so is the report on the page.
ShownCurrent == shown # NoReport => CurrentTo(shown.run, shown.finish, shown.knew)

\* While no load has crossed another, only the last one may be under way, and what
\* it has done so far is what the page shows.
LastDecides ==
  ~crossed =>
    \A l \in Loads :
      /\ l # Len(loads) => loads[l].step = "done"
      /\ l = Len(loads) /\ loads[l].step \in {"reading", "done"} => selected = loads[l].run
      /\ l = Len(loads) /\ loads[l].step = "done" /\ shown # NoReport => shown.run = selected

\* The invariant of the page, on top of that of the repository.
ViewerInv == CurrentInv /\ PageTyped /\ BodiesCurrent /\ ShownCurrent /\ LastDecides

\* A page that has loaded nothing.
LEMMA ViewerStarts == ViewerInit => ViewerInv
<1> SUFFICES ASSUME ViewerInit PROVE ViewerInv
  OBVIOUS
<1>1. CurrentInv
  BY RunsInit, FinishesInit, CurrentInit DEF CurrentInv, ViewerInit
<1>2. /\ loads = <<>> /\ shown = NoReport /\ selected = NoReport /\ crossed = FALSE
      /\ unread = Runs /\ listed = [r \in Runs |-> 0]
  BY DEF ViewerInit
<1>3. loads \in Seq(LoadRecords) /\ Loads = {}
  BY <1>2 DEF Loads
<1>4. 0 \in 0..MaxFinishes
  BY RunsAssumption
<1>5. PageTyped
  BY <1>2, <1>3, <1>4 DEF PageTyped
<1> QED BY <1>1, <1>2, <1>3, <1>5 DEF ViewerInv, BodiesCurrent, ShownCurrent, LastDecides

\* The history of the repository only grows.
LEMMA HistoryGrows ==
  ASSUME CurrentInv, [Next]_vars
  PROVE  /\ begun \in Nat /\ begun' \in Nat /\ begun <= begun' /\ acked \subseteq acked'
         /\ \A f \in 1..begun : runOf'[f] = runOf[f] /\ before'[f] = before[f]
<1> USE DEF CurrentInv
<1>0. begun \in Nat
  BY RunsAssumption DEF IInv, TypeOK
<1>1. ASSUME NEW w \in Workers, NEW r \in Runs, FinishRun(w, r)
      PROVE  /\ begun' = begun + 1 /\ acked' = acked
             /\ \A f \in 1..begun : runOf'[f] = runOf[f] /\ before'[f] = before[f]
  <2>1. /\ begun' = begun + 1 /\ acked' = acked
        /\ runOf' = Append(runOf, r) /\ before' = Append(before, acked)
    BY <1>1 DEF FinishRun, Begin
  <2>2. /\ runOf \in Seq(Runs) /\ Len(runOf) = begun
        /\ before \in Seq(SUBSET Nat) /\ Len(before) = begun /\ acked \in SUBSET Nat
    BY DEF FinishesKnown, HistoryKnown, IInv, TypeOK
  <2> QED BY <2>1, <2>2, <1>0
<1>2. ASSUME NEW w \in Workers, Writes(w)
      PROVE  begun' = begun /\ runOf' = runOf /\ before' = before /\ acked \subseteq acked'
  <2>1. acked \subseteq acked'
    BY <1>2 DEF Writes, OpenSummary, WriteSummary, OpenReport, WriteReport, Advance
  <2> QED BY <1>2, <2>1, WritesKeep
<1>3. ASSUME NEW w \in Workers, NEW r \in Runs, StartRun(w, r) \/ Remember(w)
      PROVE  UNCHANGED <<begun, acked, runOf, before>>
  BY <1>3 DEF StartRun, Remember, history
<1>4. ASSUME Restart \/ UNCHANGED vars
      PROVE  UNCHANGED <<begun, acked, runOf, before>>
  BY <1>4 DEF Restart, vars, history
<1> QED BY <1>0, <1>1, <1>2, <1>3, <1>4, RunsAssumption DEF Next, Work, Writes

\* So what is current to a user stays so.
LEMMA CurrentToStays ==
  ASSUME CurrentInv, [Next]_vars, NEW run, NEW finish, NEW knew, CurrentTo(run, finish, knew)
  PROVE  CurrentTo(run, finish, knew)'
<1>1. /\ begun \in Nat /\ begun' \in Nat /\ begun <= begun'
      /\ \A f \in 1..begun : runOf'[f] = runOf[f] /\ before'[f] = before[f]
  BY HistoryGrows
<1>2. 1..begun \subseteq 1..begun'
  BY <1>1
<1> QED BY <1>1, <1>2 DEF CurrentTo

\* What load_report serves is current to whoever asks for it then.
LEMMA ServedIsCurrentTo ==
  ASSUME CurrentInv, NEW r \in Runs, Served(r), NEW knew \in SUBSET acked
  PROVE  CurrentTo(r, summary[r], knew)
<1>1. summary[r] \in 1..begun /\ runOf[summary[r]] = r /\ acked \subseteq 1..begun
  BY DEF CurrentInv, SummariesCurrent, IInv, TypeOK
<1>2. ASSUME NEW f \in knew, runOf[f] = r PROVE summary[r] \notin before[f]
  BY <1>1, <1>2 DEF CurrentInv, SummariesCurrent, Replaced
<1> QED BY <1>1, <1>2 DEF CurrentTo

\* A step of the repository leaves the page alone.
LEMMA PageRests ==
  ASSUME ViewerInv, [Next]_vars, UNCHANGED page
  PROVE  ViewerInv'
<1> USE DEF ViewerInv
<1>1. CurrentInv'
  BY RunsStep, FinishesStep, CurrentStep DEF CurrentInv
<1>2. UNCHANGED <<unread, listed, loads, selected, shown, crossed>>
  BY DEF page
<1>3. Loads' = Loads
  BY <1>2 DEF Loads
<1>4. PageTyped'
  BY <1>2, <1>3, HistoryGrows DEF PageTyped
<1>5. BodiesCurrent'
  <2> SUFFICES ASSUME NEW l \in Loads
               PROVE  /\ loads[l].step = "reading" => loads[l].body # 0
                      /\ loads[l].step \in {"answered", "reading"} /\ loads[l].body # 0 =>
                           CurrentTo(loads[l].run, loads[l].body, loads[l].knew)'
    BY <1>2, <1>3 DEF BodiesCurrent, CurrentTo
  <2> QED BY <1>2, CurrentToStays DEF BodiesCurrent
<1>6. ShownCurrent'
  BY <1>2, CurrentToStays DEF ShownCurrent
<1>7. LastDecides'
  BY <1>2, <1>3 DEF LastDecides
<1> QED BY <1>1, <1>4, <1>5, <1>6, <1>7

\* A load that moves on changes its own record only.
LEMMA OneLoadMoves ==
  ASSUME PageTyped, NEW l \in Loads, NEW rec \in LoadRecords,
         loads' = [loads EXCEPT ![l] = rec], rec.run = loads[l].run, rec.knew = loads[l].knew
  PROVE  /\ loads' \in Seq(LoadRecords) /\ Len(loads') = Len(loads) /\ Loads' = Loads
         /\ loads'[l] = rec /\ \A m \in Loads : m # l => loads'[m] = loads[m]
         /\ \A m \in Loads : loads'[m].knew = loads[m].knew
<1>1. loads \in Seq(LoadRecords) /\ l \in 1..Len(loads) /\ Loads = 1..Len(loads)
  BY DEF PageTyped, Loads
<1>2. loads' \in Seq(LoadRecords) /\ Len(loads') = Len(loads)
  BY <1>1
<1>3. loads'[l] = rec /\ \A m \in Loads : m # l => loads'[m] = loads[m]
  BY <1>1
<1>4. Loads' = Loads
  BY <1>1, <1>2 DEF Loads
<1> QED BY <1>2, <1>3, <1>4

\* What a load must see to when it moves on: to show its report is the last thing
\* it does, and to select its run the first thing the page does about an answer.
LEMMA LoadMoves ==
  ASSUME ViewerInv, UNCHANGED <<vars, unread, listed, crossed>>,
         NEW l \in Loads, loads[l].step # "done", NEW rec \in LoadRecords,
         loads' = [loads EXCEPT ![l] = rec], rec.run = loads[l].run, rec.knew = loads[l].knew,
         rec.step = "reading" => rec.body # 0,
         rec.step \in {"answered", "reading"} /\ rec.body # 0 =>
           CurrentTo(rec.run, rec.body, rec.knew),
         selected' \in {selected, rec.run},
         ~crossed /\ rec.step \in {"reading", "done"} => selected' = rec.run,
         ShownCurrent',
         rec.step = "done" /\ shown' # NoReport => shown'.run = rec.run
  PROVE  ViewerInv'
<1> USE DEF ViewerInv
<1>1. UNCHANGED <<runOf, begun, before, acked>>
  BY DEF vars, history
<1>2. CurrentInv'
  BY RunsStep, FinishesStep, CurrentStep DEF CurrentInv
<1>3. /\ loads' \in Seq(LoadRecords) /\ Len(loads') = Len(loads) /\ Loads' = Loads
      /\ loads'[l] = rec /\ \A m \in Loads : m # l => loads'[m] = loads[m]
      /\ \A m \in Loads : loads'[m].knew = loads[m].knew
  BY OneLoadMoves
<1>4. rec.run \in Runs
  BY DEF LoadRecords
<1>5. PageTyped'
  BY <1>1, <1>3, <1>4 DEF PageTyped
<1>6. BodiesCurrent'
  <2> SUFFICES ASSUME NEW m \in Loads
               PROVE  /\ loads'[m].step = "reading" => loads'[m].body # 0
                      /\ loads'[m].step \in {"answered", "reading"} /\ loads'[m].body # 0 =>
                           CurrentTo(loads'[m].run, loads'[m].body, loads'[m].knew)
    BY <1>1, <1>3 DEF BodiesCurrent, CurrentTo
  <2>1. CASE m = l
    BY <2>1, <1>3
  <2>2. CASE m # l
    BY <2>2, <1>3 DEF BodiesCurrent
  <2> QED BY <2>1, <2>2
<1>7. LastDecides'
  <2> SUFFICES ASSUME ~crossed, NEW m \in Loads
               PROVE  /\ m # Len(loads) => loads'[m].step = "done"
                      /\ m = Len(loads) /\ loads'[m].step \in {"reading", "done"} =>
                           selected' = loads'[m].run
                      /\ m = Len(loads) /\ loads'[m].step = "done" /\ shown' # NoReport =>
                           shown'.run = selected'
    BY <1>3 DEF LastDecides
  <2>1. l = Len(loads)
    BY DEF LastDecides
  <2> QED BY <2>1, <1>3 DEF LastDecides
<1> QED BY <1>2, <1>5, <1>6, <1>7

\* Each step of a load, from the server's answer to the report on the page.
LEMMA LoadSteps ==
  ASSUME ViewerInv, NEW l \in Loads, Answer(l) \/ Receive(l) \/ ShowReport(l) \/ ShowError(l)
  PROVE  ViewerInv'
<1> USE DEF ViewerInv
<1>0. /\ loads \in Seq(LoadRecords) /\ l \in 1..Len(loads)
      /\ loads[l] \in LoadRecords /\ loads[l].knew \subseteq acked
  BY DEF PageTyped, Loads
<1>1. ASSUME UNCHANGED vars, UNCHANGED shown PROVE ShownCurrent'
  BY <1>1 DEF ShownCurrent, CurrentTo, vars, history
<1>2. ASSUME NEW step \in {"asked", "answered", "reading", "done"}
      PROVE  /\ [loads[l] EXCEPT !.step = step] \in LoadRecords
             /\ [loads[l] EXCEPT !.step = step].step = step
             /\ [loads[l] EXCEPT !.step = step].run = loads[l].run
             /\ [loads[l] EXCEPT !.step = step].knew = loads[l].knew
             /\ [loads[l] EXCEPT !.step = step].body = loads[l].body
  BY <1>0 DEF LoadRecords
<1>3. ASSUME Answer(l) PROVE ViewerInv'
  <2> DEFINE r == loads[l].run
             body == IF Served(r) THEN summary[r] ELSE 0
             rec == [loads[l] EXCEPT !.step = "answered", !.body = body]
  <2>1. /\ loads[l].step = "asked" /\ loads' = [loads EXCEPT ![l] = rec]
        /\ UNCHANGED <<vars, unread, listed, selected, shown, crossed>>
    BY <1>3 DEF Answer
  <2>2. body \in 0..MaxFinishes
    BY RunsAssumption DEF Served, Finishes
  <2>3. /\ rec \in LoadRecords /\ rec.run = r /\ rec.knew = loads[l].knew
        /\ rec.step = "answered" /\ rec.body = body
    BY <1>0, <2>2 DEF LoadRecords
  <2>4. body # 0 => CurrentTo(r, body, loads[l].knew)
    BY <1>0, ServedIsCurrentTo DEF LoadRecords
  <2>5. ShownCurrent'
    BY <1>1, <2>1
  <2> HIDE DEF rec, body
  <2> QED BY <2>1, <2>3, <2>4, <2>5, LoadMoves
<1>4. ASSUME Receive(l) PROVE ViewerInv'
  <2> DEFINE rec == [loads[l] EXCEPT !.step = "reading"]
  <2>1. /\ loads[l].step = "answered" /\ loads[l].body # 0 /\ selected' = loads[l].run
        /\ loads' = [loads EXCEPT ![l] = rec]
        /\ UNCHANGED <<vars, unread, listed, shown, crossed>>
    BY <1>4 DEF Receive, Select, Step
  <2>2. /\ rec \in LoadRecords /\ rec.run = loads[l].run /\ rec.knew = loads[l].knew
        /\ rec.step = "reading" /\ rec.body = loads[l].body
    BY <1>2
  <2>3. CurrentTo(loads[l].run, loads[l].body, loads[l].knew)
    BY <2>1 DEF BodiesCurrent
  <2>4. ShownCurrent'
    BY <1>1, <2>1
  <2> HIDE DEF rec
  <2> QED BY <2>1, <2>2, <2>3, <2>4, LoadMoves
<1>5. ASSUME ShowReport(l) PROVE ViewerInv'
  <2> DEFINE rec == [loads[l] EXCEPT !.step = "done"]
  <2>1. /\ loads[l].step = "reading" /\ selected' = selected
        /\ loads' = [loads EXCEPT ![l] = rec]
        /\ shown' = [run |-> loads[l].run, finish |-> loads[l].body, knew |-> loads[l].knew]
        /\ UNCHANGED <<vars, unread, listed, crossed>>
    BY <1>5 DEF ShowReport, Step
  <2>2. /\ rec \in LoadRecords /\ rec.run = loads[l].run /\ rec.knew = loads[l].knew
        /\ rec.step = "done"
    BY <1>2
  <2>3. CurrentTo(loads[l].run, loads[l].body, loads[l].knew)
    BY <2>1 DEF BodiesCurrent
  <2>4. ShownCurrent'
    BY <2>1, <2>3 DEF ShownCurrent, CurrentTo, vars, history
  <2>5. ~crossed => selected' = loads[l].run
    BY <2>1 DEF LastDecides
  <2>6. shown'.run = loads[l].run
    BY <2>1
  <2> HIDE DEF rec
  <2> QED BY <2>1, <2>2, <2>4, <2>5, <2>6, LoadMoves
<1>6. ASSUME ShowError(l) PROVE ViewerInv'
  <2> DEFINE rec == [loads[l] EXCEPT !.step = "done"]
  <2>1. /\ loads[l].step # "done" /\ selected' = loads[l].run /\ shown' = NoReport
        /\ loads' = [loads EXCEPT ![l] = rec]
        /\ UNCHANGED <<vars, unread, listed, crossed>>
    BY <1>6 DEF ShowError, Select, Step
  <2>2. /\ rec \in LoadRecords /\ rec.run = loads[l].run /\ rec.knew = loads[l].knew
        /\ rec.step = "done"
    BY <1>2
  <2>3. ShownCurrent'
    BY <2>1 DEF ShownCurrent
  <2> HIDE DEF rec
  <2> QED BY <2>1, <2>2, <2>3, LoadMoves
<1> QED BY <1>3, <1>4, <1>5, <1>6

\* A new load is the last one; it has shown nothing yet.
LEMMA LoadBegins ==
  ASSUME ViewerInv, NEW r \in Runs, Load(r)
  PROVE  ViewerInv'
<1> USE DEF ViewerInv
<1> DEFINE new == [run |-> r, step |-> "asked", body |-> 0, knew |-> acked]
<1>1. /\ loads' = Append(loads, new) /\ crossed' = (Pending # {})
      /\ UNCHANGED <<vars, unread, listed, selected, shown>>
  BY DEF Load
<1>2. UNCHANGED <<runOf, begun, before, acked>>
  BY <1>1 DEF vars, history
<1>3. CurrentInv'
  BY <1>1, RunsStep, FinishesStep, CurrentStep DEF CurrentInv
<1>4. new \in LoadRecords /\ new.step = "asked" /\ new.knew = acked
  <2>1. acked \in SUBSET Nat /\ 0 \in 0..MaxFinishes
    BY RunsAssumption DEF CurrentInv, IInv, TypeOK
  <2> QED BY <2>1 DEF LoadRecords
<1> HIDE DEF new
<1>5. /\ loads \in Seq(LoadRecords) /\ Loads = 1..Len(loads) /\ Len(loads) \in Nat
  BY DEF PageTyped, Loads
<1>6. /\ loads' \in Seq(LoadRecords) /\ Len(loads') = Len(loads) + 1
      /\ loads'[Len(loads) + 1] = new /\ \A l \in Loads : loads'[l] = loads[l]
  BY <1>1, <1>4, <1>5
<1>7. Loads' = Loads \cup {Len(loads) + 1}
  BY <1>5, <1>6 DEF Loads
<1>8. PageTyped'
  <2>1. \A l \in Loads' : loads'[l].knew \subseteq acked'
    BY <1>2, <1>4, <1>6, <1>7 DEF PageTyped
  <2>2. crossed' \in BOOLEAN
    BY <1>1
  <2> QED BY <1>1, <1>6, <2>1, <2>2 DEF PageTyped
<1>9. BodiesCurrent'
  <2> SUFFICES ASSUME NEW l \in Loads'
               PROVE  /\ loads'[l].step = "reading" => loads'[l].body # 0
                      /\ loads'[l].step \in {"answered", "reading"} /\ loads'[l].body # 0 =>
                           CurrentTo(loads'[l].run, loads'[l].body, loads'[l].knew)
    BY <1>2 DEF BodiesCurrent, CurrentTo
  <2> QED BY <1>4, <1>6, <1>7 DEF BodiesCurrent
<1>10. ShownCurrent'
  BY <1>1, <1>2 DEF ShownCurrent, CurrentTo
<1>11. LastDecides'
  <2> SUFFICES ASSUME ~crossed', NEW l \in Loads'
               PROVE  /\ l # Len(loads') => loads'[l].step = "done"
                      /\ l = Len(loads') => loads'[l].step = "asked"
    BY DEF LastDecides
  <2>1. \A m \in Loads : loads[m].step = "done"
    BY <1>1 DEF Pending
  <2> QED BY <2>1, <1>4, <1>5, <1>6, <1>7
<1> QED BY <1>3, <1>8, <1>9, <1>10, <1>11

\* Listing the runs changes nothing that is shown.
LEMMA ListingKeeps ==
  ASSUME ViewerInv, NEW r \in Runs, ListOne(r)
  PROVE  ViewerInv'
<1> USE DEF ViewerInv
<1>1. UNCHANGED <<vars, loads, selected, shown, crossed, Loads>>
  BY DEF ListOne, Loads
<1>2. CurrentInv'
  BY <1>1, RunsStep, FinishesStep, CurrentStep DEF CurrentInv
<1>3. (IF Served(r) THEN summary[r] ELSE 0) \in 0..MaxFinishes
  BY RunsAssumption DEF Served, Finishes
<1>4. unread' \subseteq Runs /\ listed' \in [Runs -> 0..MaxFinishes]
  BY <1>3 DEF ListOne, PageTyped
<1>5. PageTyped'
  BY <1>1, <1>4 DEF PageTyped, vars, history
<1>6. BodiesCurrent' /\ ShownCurrent'
  BY <1>1 DEF BodiesCurrent, ShownCurrent, CurrentTo, vars, history
<1>7. LastDecides'
  BY <1>1 DEF LastDecides
<1> QED BY <1>2, <1>5, <1>6, <1>7

\* The invariant of the page over the repository.
LEMMA SpecViewer == ViewerSpec => []ViewerInv
<1>1. ViewerInv /\ [ViewerNext]_viewerVars => ViewerInv'
  <2> SUFFICES ASSUME ViewerInv, [ViewerNext]_viewerVars PROVE ViewerInv'
    OBVIOUS
  <2>1. ASSUME NEW r \in Runs, ListOne(r) \/ Click(r) PROVE ViewerInv'
    BY <2>1, ListingKeeps, LoadBegins DEF Click
  <2>2. CASE LoadNewest
    BY <2>2, LoadBegins DEF LoadNewest
  <2>3. ASSUME NEW l \in Loads, Answer(l) \/ Receive(l) \/ ShowReport(l) \/ ShowError(l)
        PROVE  ViewerInv'
    BY <2>3, LoadSteps
  <2>4. CASE [Next]_vars /\ UNCHANGED page
    BY <2>4, PageRests
  <2> QED BY <2>1, <2>2, <2>3, <2>4 DEF ViewerNext, ViewerStep, viewerVars
<1> QED BY <1>1, ViewerStarts, PTL DEF ViewerSpec

\* The page only reads the repository: whatever is proved of the repository holds
\* under it.
THEOREM ViewerKeepsRepository == ViewerSpec => Spec
<1>1. ViewerInit => Init
  BY DEF ViewerInit
<1>2. [ViewerNext]_viewerVars => [Next]_vars
  BY DEF ViewerNext, ViewerStep, viewerVars, ListOne, Click, LoadNewest, Load, Answer,
     Receive, ShowReport, ShowError
<1> QED BY <1>1, <1>2, PTL DEF ViewerSpec, Spec

\* The list, the loads and the page keep their types.
THEOREM ViewerTypes == ViewerSpec => []ViewerTypeOK
<1>1. ViewerInv => ViewerTypeOK
  <2> SUFFICES ASSUME ViewerInv PROVE ViewerTypeOK
    OBVIOUS
  <2>1. \A l \in Loads : loads[l] \in LoadRecords
    BY DEF ViewerInv, PageTyped, Loads
  <2> QED BY <2>1 DEF ViewerInv, CurrentInv, IInv, PageTyped, LoadRecords, ViewerTypeOK
<1> QED BY <1>1, SpecViewer, PTL

\* However the loads of the page and the finishes of the repository interleave, a
\* report that is shown is one of the run it names, and not one that the user knew
\* to be superseded when asking for it.
THEOREM ViewerShownIsCurrent == ViewerSpec => []ShownIsCurrent
<1>1. ViewerInv => ShownIsCurrent
  BY DEF ViewerInv, ShownCurrent, CurrentTo, ShownIsCurrent
<1> QED BY <1>1, SpecViewer, PTL

\* With no load that began while another was under way, the page marks the run
\* whose report it shows, and it is the last one asked for.
THEOREM ViewerSelectedIsShown == ViewerSpec => []SelectedIsShown
<1>1. ViewerInv => SelectedIsShown
  <2> SUFFICES ASSUME ViewerInv, Pending = {}, loads # <<>>, ~crossed
               PROVE  /\ selected = loads[Len(loads)].run
                      /\ shown # NoReport => shown.run = selected
    BY DEF SelectedIsShown
  <2>1. Len(loads) \in Loads
    BY DEF ViewerInv, PageTyped, Loads
  <2>2. loads[Len(loads)].step = "done"
    BY <2>1 DEF Pending
  <2> QED BY <2>1, <2>2 DEF ViewerInv, LastDecides
<1> QED BY <1>1, SpecViewer, PTL
====
