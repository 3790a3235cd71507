----------------------------- MODULE LiveViewer -----------------------------
(***************************************************************************)
(* The visualizer in live mode (visualizer/live.py, log_reader.py,         *)
(* store.py, server.py): HTTP handler threads start runner processes, tail *)
(* the JSONL log they write, and answer the browser tabs' polls.           *)
(***************************************************************************)
EXTENDS Integers, Sequences, SequencesExt, FiniteSets

CONSTANTS
    Tabs,           \* browser tabs on the page
    Starters,       \* those in which the user presses START RUN
    MaxRuns,        \* bound: runs started
    MaxRecords,     \* bound: records of the runs that write the log
    MaxFaults       \* bound: reads of the log that fail with an OSError

ASSUME LiveAssumption ==
    Starters \subseteq Tabs /\ MaxRuns \in Nat \ {0} /\ MaxRecords \in Nat /\ MaxFaults \in Nat

VARIABLES
    file,       \* the log: a sequence of cells
    runner,     \* state of every runner process, see RunnerStates
    written,    \* cells it has written, its offset in the log
    state,      \* LiveRunController._state
    current,    \* run of LiveRunController._process, 0 for None
    offset,     \* JsonlLogReader._offset
    pending,    \* JsonlLogReader._pending
    store,      \* EventStore._records
    pc,         \* where every handler thread stands, see Places
    asked,      \* cursor a tab's poll asks for
    reply,      \* what it is answered: events
    accepted,   \* the tab's POST has started a run
    view,       \* the events a tab shows, in their order
    cursor,     \* the index of the last one, 0 for none
    starts,     \* history: runs started
    faults,     \* history: reads that failed
    overlap     \* history: a run was started while another one's process lived

processVars == <<file, runner, written>>
readerVars == <<offset, pending>>
liveVars == <<state, current>>
requestVars == <<asked, reply, accepted>>
tabVars == <<view, cursor>>
vars == <<processVars, liveVars, readerVars, store, pc, requestVars, tabVars,
          starts, faults, overlap>>

Runs == 1..MaxRuns
RunnerStates == {"absent", "starting", "writing", "succeeded", "crashed"}
Alive(r) == runner[r] \in {"starting", "writing"}

\* A record takes two writes of the file system; the second has the newline.
Hole == [run |-> 0, rec |-> 0, end |-> FALSE]
Cell == [run : Runs, rec : 1..MaxRecords, end : BOOLEAN] \cup {Hole}
Record == Runs \X (1..MaxRecords)

\* A record as a page gets it: with its place in the store.
Event == [index : 1..MaxRecords, record : Record]

\* A tab has one poll and one POST /api/live/start in flight at a time.
Threads == (Tabs \X {"poll"}) \cup (Starters \X {"start"})
Places == {"idle", "refresh", "exit", "answer", "arrive"}

\* LiveRunController._lock: held from the first read of the log to the last.
Free == \A th \in Threads : pc[th] # "exit"

TypeOK ==
    /\ file \in Seq(Cell)
    /\ runner \in [Runs -> RunnerStates]
    /\ written \in [Runs -> 0..2 * MaxRecords]
    /\ state \in {"idle", "running", "completed", "failed"}
    /\ current \in 0..MaxRuns
    /\ offset \in 0..2 * MaxRecords
    /\ pending \in Seq(Cell)
    /\ store \in Seq(Record)
    /\ pc \in [Threads -> Places]
    /\ asked \in [Tabs -> 0..MaxRecords]
    /\ reply \in [Tabs -> Seq(Event)]
    /\ accepted \in [Tabs -> BOOLEAN]
    /\ view \in [Tabs -> Seq(Event)] /\ cursor \in [Tabs -> 0..MaxRecords]
    /\ starts \in 0..MaxRuns
    /\ faults \in 0..MaxFaults
    /\ overlap \in BOOLEAN
    /\ Cardinality({th \in Threads : pc[th] = "exit"}) <= 1

Init ==
    /\ file = <<>>
    /\ runner = [r \in Runs |-> "absent"]
    /\ written = [r \in Runs |-> 0]
    /\ state = "idle" /\ current = 0
    /\ offset = 0 /\ pending = <<>>
    /\ store = <<>>
    /\ pc = [th \in Threads |-> "idle"]
    /\ asked = [t \in Tabs |-> 0]
    /\ reply = [t \in Tabs |-> <<>>]
    /\ accepted = [t \in Tabs |-> FALSE]
    /\ view = [t \in Tabs |-> <<>>] /\ cursor = [t \in Tabs |-> 0]
    /\ starts = 0 /\ faults = 0 /\ overlap = FALSE

Goto(th, place) == pc' = [pc EXCEPT ![th] = place]

\* Where a handler goes on after refresh(): a poll is still to read the store.
Back(th) == IF th[2] = "poll" THEN "answer" ELSE "arrive"

-----------------------------------------------------------------------------
(* The runner processes (runner/start_new_run.py).                         *)

\* A cell at the offset of a writer; a gap before it reads as zero bytes.
WriteAt(n, cell) ==
    [i \in 1..(IF n > Len(file) THEN n ELSE Len(file)) |->
        IF i = n THEN cell ELSE IF i <= Len(file) THEN file[i] ELSE Hole]

\* The runner opens its log with mode "w".
OpenLog(r) ==
    /\ runner[r] = "starting"
    /\ runner' = [runner EXCEPT ![r] = "writing"]
    /\ file' = <<>>
    /\ UNCHANGED <<written, liveVars, readerVars, store, pc, requestVars, tabVars,
                   starts, faults, overlap>>

\* All runs together write MaxRecords records.
CellsWritten == {c \in Runs \X (1..2 * MaxRecords) : c[2] <= written[c[1]]}

WriteCell(r) ==
    /\ runner[r] = "writing"
    /\ Cardinality(CellsWritten) < 2 * MaxRecords
    /\ LET n == written[r] + 1
       IN /\ file' = WriteAt(n, [run |-> r, rec |-> (n + 1) \div 2, end |-> n % 2 = 0])
          /\ written' = [written EXCEPT ![r] = n]
    /\ UNCHANGED <<runner, liveVars, readerVars, store, pc, requestVars, tabVars,
                   starts, faults, overlap>>

\* The process ends: with exit code 0 only once its last line is complete.  How one of an
\* earlier run ends is asked by nobody, its handle is dropped.
Exit(r) ==
    /\ Alive(r)
    /\ \E how \in {"succeeded", "crashed"} :
        /\ how = "succeeded" => runner[r] = "writing" /\ written[r] % 2 = 0
        /\ runner' = [runner EXCEPT ![r] = IF r = starts THEN how ELSE "absent"]
    /\ UNCHANGED <<file, written, liveVars, readerVars, store, pc, requestVars, tabVars,
                   starts, faults, overlap>>

-----------------------------------------------------------------------------
(* JsonlLogReader.                                                         *)

\* Seeded bug: the reader of the last run goes on with the new one.
NewReaderForgotten == UNCHANGED readerVars

\* A new reader is at the start of the log.
NewReader == offset' = 0 /\ pending' = <<>>

\* What one poll has before it: the retained tail and what is new in the file.
Data == pending \o SubSeq(file, offset + 1, Len(file))
Ends == {i \in DOMAIN Data : Data[i].end}

\* The line that ends at i decodes: it is one record, from its first half.
Decodes(i) ==
    /\ i > 1 /\ Data[i - 1] = [Data[i] EXCEPT !.end = FALSE]
    /\ i > 2 => Data[i - 2].end

\* If every line decodes, the n-th ends at the cell 2 * n, and what is behind the last
\* one is unfinished.
Complete == [n \in 1..Cardinality(Ends) |-> Data[2 * n]]
Unfinished == SubSeq(Data, 2 * Cardinality(Ends) + 1, Len(Data))

Unreadable == Len(file) < offset \/ \E i \in Ends : ~ Decodes(i)

\* The first half of a record may be all of it but the newline, and so decode by itself.
MayDecode(tail) == tail = <<>> \/ (Len(tail) = 1 /\ tail[1] # Hole)

\* poll() raises ReplayLogError, for a log that cannot be opened, has shrunk or does
\* not decode; the lines before the malformed one are lost, and the run is given up.
PollRaises(th, outOfOrder) ==
    /\ \/ outOfOrder /\ UNCHANGED faults
       \/ faults < MaxFaults /\ faults' = faults + 1
    /\ state' = "failed"
    /\ Goto(th, Back(th))
    /\ UNCHANGED <<readerVars, store>>

\* poll() keeps an unfinished line for the next one, unless this is the last.
PollReturns(final) ==
    LET lines == IF final THEN Complete \o Unfinished ELSE Complete
    IN /\ offset' = Len(file)
       /\ pending' = IF final THEN <<>> ELSE Unfinished
       /\ store' = store \o [i \in DOMAIN lines |-> <<lines[i].run, lines[i].rec>>]
       /\ UNCHANGED faults

-----------------------------------------------------------------------------
(* LiveRunController, called by the handler threads.                       *)

\* Seeded bug: a run is started on top of a running one.
MayStartAlways == TRUE

MayStart == state # "running"

\* POST /api/live/start: a fresh log, reader and store, then the process, if it
\* launches.  The handle of the last process is dropped, whether it has ended or not.
Start(t) ==
    /\ pc[<<t, "start">>] = "idle" /\ Free
    /\ starts < MaxRuns
    /\ Goto(<<t, "start">>, "refresh")
    /\ accepted' = [accepted EXCEPT ![t] = MayStart]
    /\ IF MayStart
       THEN /\ file' = <<>> /\ store' = <<>> /\ NewReader
            /\ starts' = starts + 1
            /\ overlap' = (overlap \/ \E r \in Runs : Alive(r))
            /\ \E launched \in BOOLEAN :
                /\ runner' = [r \in Runs |->
                                IF r = starts + 1
                                THEN IF launched THEN "starting" ELSE "crashed"
                                ELSE IF Alive(r) THEN runner[r] ELSE "absent"]
                /\ state' = IF launched THEN "running" ELSE "failed"
                /\ current' = IF launched THEN starts + 1 ELSE 0
            /\ written' = [r \in Runs |-> IF Alive(r) THEN written[r] ELSE 0]
       ELSE UNCHANGED <<processVars, liveVars, readerVars, store, starts, overlap>>
    /\ UNCHANGED <<asked, reply, tabVars, faults>>

\* refresh() takes the lock and reads; there is nothing to read unless a run goes on.
Refresh(th) ==
    /\ pc[th] = "refresh" /\ Free
    /\ IF state # "running"
       THEN Goto(th, Back(th)) /\ UNCHANGED <<state, readerVars, store, faults>>
       ELSE \/ PollRaises(th, Unreadable)
            \/ ~ Unreadable /\ PollReturns(FALSE) /\ Goto(th, "exit") /\ UNCHANGED state
    /\ UNCHANGED <<processVars, current, requestVars, tabVars, starts, overlap>>

\* Seeded bug: no process is ever found to have ended.
EndedNever == FALSE

\* Process.poll() has an exit code.
Ended == ~ Alive(current)

\* refresh() goes on: once the process has ended, one last read, and the exit code
\* becomes the state.
Finish(th) ==
    /\ pc[th] = "exit"
    /\ IF ~ Ended
       THEN Goto(th, Back(th)) /\ UNCHANGED <<state, readerVars, store, faults>>
       ELSE \/ PollRaises(th, Unreadable \/ Unfinished # <<>>)
            \/ /\ ~ Unreadable /\ MayDecode(Unfinished)
               /\ PollReturns(TRUE) /\ Goto(th, Back(th))
               /\ state' = IF runner[current] = "succeeded" THEN "completed" ELSE "failed"
    /\ UNCHANGED <<processVars, current, requestVars, tabVars, starts, overlap>>

-----------------------------------------------------------------------------
(* VisualizerApp and the page.                                             *)

EventsFrom(i) == [k \in 1..Len(store) - i + 1 |->
                     [index |-> i + k - 1, record |-> store[i + k - 1]]]

\* Seeded bug: the record at the cursor is sent again.
AfterInclusive(c) == EventsFrom(IF c = 0 THEN 1 ELSE c)

\* EventStore.after: the records behind the cursor.
After(c) == EventsFrom(c + 1)

\* pollEvents() of the page asks for what is behind its cursor.
SendPoll(t) ==
    /\ pc[<<t, "poll">>] = "idle"
    /\ Goto(<<t, "poll">>, "refresh")
    /\ asked' = [asked EXCEPT ![t] = cursor[t]]
    /\ UNCHANGED <<processVars, liveVars, readerVars, store, reply, accepted, tabVars,
                   starts, faults, overlap>>

\* events_after() reads the store without the controller's lock.
Answer(th) ==
    /\ pc[th] = "answer"
    /\ Goto(th, "arrive")
    /\ reply' = [reply EXCEPT ![th[1]] = After(asked[th[1]])]
    /\ asked' = [asked EXCEPT ![th[1]] = 0]
    /\ UNCHANGED <<processVars, liveVars, readerVars, store, accepted, tabVars,
                   starts, faults, overlap>>

\* appendEvents() of the page, whatever happened since it asked.
EventsArrive(t) ==
    /\ pc[<<t, "poll">>] = "arrive"
    /\ Goto(<<t, "poll">>, "idle")
    /\ view' = [view EXCEPT ![t] = @ \o reply[t]]
    /\ cursor' = [cursor EXCEPT ![t] =
                    IF reply[t] = <<>> THEN @ ELSE Max({@, reply[t][Len(reply[t])].index})]
    /\ reply' = [reply EXCEPT ![t] = <<>>]
    /\ UNCHANGED <<processVars, liveVars, readerVars, store, asked, accepted, starts,
                   faults, overlap>>

\* The page that started a run forgets the last one; a refusal is only shown.
StartArrives(t) ==
    /\ pc[<<t, "start">>] = "arrive"
    /\ Goto(<<t, "start">>, "idle")
    /\ IF accepted[t]
       THEN view' = [view EXCEPT ![t] = <<>>] /\ cursor' = [cursor EXCEPT ![t] = 0]
       ELSE UNCHANGED tabVars
    /\ accepted' = [accepted EXCEPT ![t] = FALSE]
    /\ UNCHANGED <<processVars, liveVars, readerVars, store, asked, reply, starts, faults,
                   overlap>>

Handler(th) ==
    \/ Refresh(th) \/ Finish(th) \/ Answer(th)

Tab(t) ==
    \/ SendPoll(t) \/ EventsArrive(t)
    \/ t \in Starters /\ StartArrives(t)

Next ==
    \/ \E r \in Runs : OpenLog(r) \/ WriteCell(r) \/ Exit(r)
    \/ \E th \in Threads : Handler(th)
    \/ \E t \in Tabs : Tab(t)
    \/ \E t \in Starters : Start(t)

\* The operating system runs every handler thread, and pages poll for ever; users
\* need not press anything, and a run need not end.
Fairness ==
    /\ \A th \in Threads : WF_vars(Handler(th))
    /\ \A t \in Tabs : WF_vars(Tab(t))

Spec == Init /\ [][Next]_vars /\ Fairness

-----------------------------------------------------------------------------
(* Properties.                                                             *)

\* Unless a read failed, the one process that lives is the one the dashboard calls
\* running: a second START RUN, however it interleaves, never orphans a runner.
\* (And every variable keeps its type.)
RunningIsTheOneRunner ==
    /\ TypeOK
    /\ faults = 0 => \A r \in Runs : Alive(r) => r = current /\ state = "running"

\* While no two runners write the log, the store holds the current run's records, in
\* order and without a gap, and all of them once the run is reported as completed.
\* (Of a run that failed, a last record without its newline may be taken for one.)  It is
\* reported as failed only if its process failed or a read did: a record seen half
\* written, or a log emptied by start() and again by the runner, is no failure.
StoreIsTheRunsLog ==
    /\ ~ overlap =>
         /\ \A n \in DOMAIN store : store[n] = <<starts, n>>
         /\ starts > 0 => \/ 2 * Len(store) <= written[starts]
                          \/ state = "failed" /\ 2 * Len(store) = written[starts] + 1
         /\ state = "completed" => 2 * Len(store) = written[starts]
    /\ (state = "failed" /\ faults = 0) => runner[starts] = "crashed"

\* While no two runners write the log: a page shows each event as the n-th record of its
\* run, with the event before it for the (n - 1)-th, and never goes back to an earlier
\* run, however its polls and STARTs interleave with those of other pages; a page that
\* starts no run shows the k-th record of some run in its k-th place.  So it misses
\* nothing of the first run it shows, and of a later one only as many first records as
\* it was already showing: another page's START leaves it its events and its cursor
\* (page.py empties the page that pressed the button, nothing the others).
ViewFollowsTheLogs ==
    ~ overlap =>
        \A t \in Tabs : \A k \in DOMAIN view[t] :
            LET event == view[t][k] IN
            /\ event.record[2] = event.index /\ event.record[1] <= starts
            /\ k > 1 => /\ event.index = view[t][k - 1].index + 1
                        /\ event.record[1] >= view[t][k - 1].record[1]
            /\ t \notin Starters => event.index = k

\* A run that has ended is reported as ended, and every page comes to show the store
\* to its last event, unless another run is started.
PagesCatchUp ==
    (starts = 1 /\ ~ Alive(1)) ~>
        (starts > 1 \/ (state # "running" /\ \A t \in Tabs : cursor[t] = Len(store)))
=============================================================================
