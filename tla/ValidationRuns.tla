---- MODULE ValidationRuns ----
(***************************************************************************)
(* The validation-run repository: what start_run and finish_run leave on   *)
(* disk and what list_saved_runs and load_report can serve from it, with   *)
(* several requests at once and a server that stops and starts again       *)
(* (ValidationRunRepository, src/voiceagents/realtime/validation.py, under *)
(* the endpoints of src/voiceagents/api/app.py).                           *)
(*                                                                         *)
(* The endpoints are plain functions, which the framework runs on threads  *)
(* (Workers).  The repository takes no lock; _runs is in memory, the files *)
(* stay.  write_text opens a file, which empties it, and then writes it:   *)
(* two steps for each of the two files.                                    *)
(*                                                                         *)
(* A finish request is a number, in the order in which they begin; the     *)
(* content of a file is the finish that wrote it, NoFile, Emptied, or      *)
(* Garbled when a shorter text was written over a longer one.              *)
(***************************************************************************)
EXTENDS Integers, Sequences

CONSTANTS
  Runs,         \* run ids; a new one is drawn at random
  Workers,      \* the threads that handle requests
  MaxFinishes,  \* bound: finish requests
  MaxRestarts   \* bound: restarts of the server

ASSUME RunsAssumption ==
  /\ MaxFinishes \in Nat /\ MaxRestarts \in Nat
  /\ Runs # {}

VARIABLES
  dirs,      \* the run directories
  known,     \* the keys of _runs
  summary,   \* the content of each run's summary.json
  report,    \* the content of each run's report.md
  pc,        \* what each worker does next
  job,       \* the run of each worker's request, and the number of its finish
  begun,     \* finish requests that have begun
  restarts,
  runOf,     \* history: the run of each finish
  acked,     \* history: the finishes answered with success
  before,    \* history: the finishes acknowledged when each finish began
  cut,       \* history: the runs whose finish a restart cut off
  overlapped \* history: the runs finished by two requests at once

files == <<summary, report>>
history == <<runOf, acked, before, cut, overlapped>>
vars == <<dirs, known, files, pc, job, begun, restarts, history>>

Finishes == 1..MaxFinishes
NoFile == 0
Emptied == -1
Garbled == -2
Contents == Finishes \cup {NoFile, Emptied, Garbled}
Steps == {"idle", "remember", "open_summary", "write_summary", "open_report", "write_report"}

Writing(r) == {w \in Workers : pc[w] \notin {"idle", "remember"} /\ job[w].run = r}

-----------------------------------------------------------------------------

Init ==
  /\ dirs = {} /\ known = {}
  /\ summary = [r \in Runs |-> NoFile] /\ report = [r \in Runs |-> NoFile]
  /\ pc = [w \in Workers |-> "idle"]
  /\ job = [w \in Workers |-> [run |-> CHOOSE r \in Runs : TRUE, finish |-> 0]]
  /\ begun = 0 /\ restarts = 0
  /\ runOf = <<>> /\ acked = {} /\ before = <<>> /\ cut = {} /\ overlapped = {}

\* finish_run writes the summary, then the report, and then the request is answered.
StepAfter ==
  [begin |-> "open_summary", open_summary |-> "write_summary", write_summary |-> "open_report",
   open_report |-> "write_report", write_report |-> "idle"]

\* start_run: a fresh id, and mkdir(exist_ok=False).
StartRun(w, r) ==
  /\ pc[w] = "idle" /\ r \notin dirs
  /\ dirs' = dirs \cup {r}
  /\ job' = [job EXCEPT ![w] = [run |-> r, finish |-> 0]]
  /\ pc' = [pc EXCEPT ![w] = "remember"]
  /\ UNCHANGED <<known, files, begun, restarts, history>>

Remember(w) ==
  /\ pc[w] = "remember"
  /\ known' = known \cup {job[w].run}
  /\ pc' = [pc EXCEPT ![w] = "idle"]
  /\ UNCHANGED <<dirs, files, job, begun, restarts, history>>

Begin(w, r) ==
  /\ pc[w] = "idle" /\ begun < MaxFinishes
  /\ begun' = begun + 1
  /\ job' = [job EXCEPT ![w] = [run |-> r, finish |-> begun']]
  /\ pc' = [pc EXCEPT ![w] = StepAfter.begin]
  /\ runOf' = Append(runOf, r)
  /\ before' = Append(before, acked)
  /\ overlapped' = overlapped \cup (IF Writing(r) = {} THEN {} ELSE {r})
  /\ UNCHANGED <<dirs, known, files, restarts, acked, cut>>

FinishRun_FromDisk(w, r) == r \in dirs /\ Begin(w, r)  \* mutant: a run is known by its directory

\* finish_run: the run must be in _runs.  The summary is computed from the
\* request alone.
FinishRun(w, r) == r \in known /\ Begin(w, r)

Opened_Append(content) == content  \* mutant: the file is opened for appending

\* open(path, "w")
Opened(content) == Emptied

\* The text is written from the start of the file, over what another writer put
\* there since this one opened it; that may be longer.
Written(content, f) ==
  IF content \in {NoFile, Emptied} THEN {f} ELSE {f, Garbled}

Advance_AnswersEarly(w) ==  \* mutant: the request is answered when the summary is written
  /\ pc' = [pc EXCEPT ![w] = StepAfter[pc[w]]]
  /\ acked' = IF pc'[w] = "open_report" THEN acked \cup {job[w].finish} ELSE acked
  /\ UNCHANGED <<dirs, known, job, begun, restarts, runOf, before, cut, overlapped>>

Advance(w) ==
  /\ pc' = [pc EXCEPT ![w] = StepAfter[pc[w]]]
  /\ acked' = IF pc'[w] = "idle" THEN acked \cup {job[w].finish} ELSE acked
  /\ UNCHANGED <<dirs, known, job, begun, restarts, runOf, before, cut, overlapped>>

OpenSummary(w) ==
  /\ pc[w] = "open_summary"
  /\ summary' = [summary EXCEPT ![job[w].run] = Opened(@)]
  /\ report' = report
  /\ Advance(w)

WriteSummary_Once(w) ==  \* mutant: a run that has a report keeps the summary of that report
  /\ pc[w] = "write_summary"
  /\ LET f == IF report[job[w].run] \in Finishes THEN report[job[w].run] ELSE job[w].finish
     IN \E c \in Written(summary[job[w].run], f) :
          summary' = [summary EXCEPT ![job[w].run] = c]
  /\ report' = report
  /\ Advance(w)

WriteSummary(w) ==
  /\ pc[w] = "write_summary"
  /\ \E c \in Written(summary[job[w].run], job[w].finish) :
       summary' = [summary EXCEPT ![job[w].run] = c]
  /\ report' = report
  /\ Advance(w)

OpenReport(w) ==
  /\ pc[w] = "open_report"
  /\ report' = [report EXCEPT ![job[w].run] = Opened(@)]
  /\ summary' = summary
  /\ Advance(w)

WriteReport(w) ==
  /\ pc[w] = "write_report"
  /\ \E c \in Written(report[job[w].run], job[w].finish) :
       report' = [report EXCEPT ![job[w].run] = c]
  /\ summary' = summary
  /\ Advance(w)

\* The process stops, at any point of any request, and a new one starts:
\* create_app makes a repository with an empty _runs over the same directory.
Restart ==
  /\ restarts < MaxRestarts
  /\ restarts' = restarts + 1
  /\ known' = {}
  /\ pc' = [w \in Workers |-> "idle"]
  /\ cut' = cut \cup {r \in Runs : Writing(r) # {}}
  /\ UNCHANGED <<dirs, files, job, begun, runOf, acked, before, overlapped>>

Work(w) ==
  \/ \E r \in Runs : StartRun(w, r) \/ FinishRun(w, r)
  \/ Remember(w)
  \/ OpenSummary(w) \/ WriteSummary(w) \/ OpenReport(w) \/ WriteReport(w)

Next == Restart \/ \E w \in Workers : Work(w)

Spec == Init /\ [][Next]_vars

-----------------------------------------------------------------------------
(* Properties *)

\* Files, memory and workers have their types.
TypeOK ==
  /\ known \subseteq dirs /\ dirs \subseteq Runs
  /\ summary \in [Runs -> Contents] /\ report \in [Runs -> Contents]
  /\ pc \in [Workers -> Steps]
  /\ job \in [Workers -> [run : Runs, finish : 0..MaxFinishes]]
  /\ begun \in 0..MaxFinishes /\ restarts \in 0..MaxRestarts
  /\ acked \subseteq 1..begun /\ cut \subseteq dirs /\ overlapped \subseteq dirs

\* list_saved_runs and load_report show a summary only if it parses, so what they
\* can serve for a run is a whole summary.  It is that of a finish of this run
\* (never of another one, whatever the threads do), and not one that had been
\* acknowledged before a finish began that has been acknowledged too: the
\* operator who finishes a run again sees the new verdict.
Served(r) == summary[r] \in Finishes

ServedIsCurrent ==
  \A r \in Runs : Served(r) =>
    /\ runOf[summary[r]] = r
    /\ \A f \in acked : runOf[f] = r => summary[r] \notin before[f]

\* Read through list_saved_runs and load_report, the repository is a RunBoard: the
\* verdict of a run is that of its summary if there is a whole one, and changes
\* only by a finish of this run that has not been answered yet, although each
\* finish empties and writes two files and several may do so at once.
UnderWay == {job[w].finish : w \in {v \in Workers : pc[v] \notin {"idle", "remember"}}}

Board == INSTANCE RunBoard WITH
  verdict <- [r \in Runs |-> IF Served(r) THEN summary[r] ELSE 0],
  open <- UnderWay,
  of <- runOf

ImplementsBoard == Board!Spec

\* A run whose directory exists but which no start_run of this life of the server
\* made has been closed by the restart: no finish is accepted and neither file
\* changes again.  (_runs is the only record of an open run.)
ClosedForGood ==
  [][\A r \in dirs : r \notin known /\ (\A w \in Workers : pc[w] = "remember" => job[w].run # r)
       => r \notin known' /\ summary'[r] = summary[r] /\ report'[r] = report[r]]_vars

\* As long as a run is finished by one request at a time, its summary.json and
\* report.md tell of the same finish whenever nobody is writing, the last one
\* acknowledged, whatever happens to other runs; only a run whose finish a restart
\* cut off may be left with files that disagree.  Even then the report is never the
\* newer one: there is no report.md of a finish whose summary was not written.
\* This is the order of the two write_text calls of finish_run.
FilesAgree ==
  \A r \in Runs \ overlapped :
    /\ (Writing(r) = {} /\ r \notin cut) =>
         LET finished == {f \in acked : runOf[f] = r}
         IN /\ summary[r] = report[r]
            /\ summary[r] = IF finished = {} THEN NoFile
                            ELSE CHOOSE f \in finished : \A g \in finished : g <= f
    /\ report[r] \in Finishes /\ summary[r] \in Finishes => report[r] <= summary[r]
====
