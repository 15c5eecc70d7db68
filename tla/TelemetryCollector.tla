------------------------------ MODULE TelemetryCollector ------------------------------
(***************************************************************************)
(* The TelemetryEventsCollector thread of azurelinuxagent/ga/               *)
(* collect_telemetry_events.py and the processes it races with.           *)
(*                                                                         *)
(* The collector thread (CollectTelemetryEventsHandler.daemon) runs two     *)
(* periodic operations:                                                    *)
(*   - _CollectAndEnqueueEvents: every event file of the agent's events    *)
(*     directory is read, enqueued on the send handler and removed;       *)
(*   - _ProcessExtensionEvents (when the extension telemetry pipeline is   *)
(*     enabled): for every extension handler with an events directory, the *)
(*     <n>.json files are read newest first, their events enqueued up to a *)
(*     per-period quota, the files removed, and finally every events        *)
(*     directory is emptied of residue.                                    *)
(* Concurrently, the agent and extensions write event files (an extension  *)
(* writes its file in place, so the collector may read it half written),   *)
(* an extension's events directory may disappear (uninstall) or be created, *)
(* and the send handler drains its queue, may stop, and refuses events      *)
(* when it is stopped or its queue is full (ServiceStoppedError).          *)
(*                                                                         *)
(* A file is a number; its content is abstracted to how many events it    *)
(* holds.  Event validation, redaction and the parameter rewriting of      *)
(* _parse_telemetry_event do not change what is enqueued or deleted and    *)
(* are left out.                                                           *)
(***************************************************************************)
EXTENDS Naturals, FiniteSets, Sequences, SequencesExt, FiniteSetsExt

CONSTANTS
  Handlers,              \* extension handlers (directories matching HANDLER_NAME_PATTERN)
  AgentDir,              \* lib_dir/events, the agent's events directory
  MaxFiles,              \* bound: event files written in one behaviour
  MaxEventsPerFile,      \* bound: events held by one extension event file
  MaxEventsPerPeriod,    \* _MAX_NUMBER_OF_EVENTS_PER_EXTENSION_PER_PERIOD (360), scaled down
  NumOfEventFileRetries, \* NUM_OF_EVENT_FILE_RETRIES (3)
  QueueCapacity,         \* bound of the send handler's queue
  MaxDirChanges,         \* bound: extension events directories removed or created
  MaxRemoveFailures,     \* bound: calls of os.remove that fail (permissions, busy file)
  EtpEnabled             \* SupportedFeatureNames.ExtensionTelemetryPipeline is supported

ASSUME AgentDir \notin Handlers
ASSUME MaxFiles \in Nat \ {0} /\ MaxEventsPerFile \in Nat \ {0}
ASSUME MaxEventsPerPeriod \in Nat \ {0} /\ NumOfEventFileRetries \in Nat \ {0}
ASSUME QueueCapacity \in Nat \ {0} /\ EtpEnabled \in BOOLEAN /\ MaxDirChanges \in Nat
ASSUME MaxRemoveFailures \in Nat

FileId == 1..MaxFiles
NoFile == 0
Dirs   == {AgentDir} \cup Handlers

VARIABLES
  disk,             \* disk[d]: the event files present in directory d
  size,             \* size[f]: number of events file f holds (0: not written yet)
  partial,          \* files an extension is still writing (not yet valid JSON)
  dirExists,        \* dirExists[h]: the events directory of handler h exists
  dirChanges,       \* how many times an events directory was removed or created
  nextFile,         \* the next file number a writer uses
  senderRunning,    \* SendTelemetryEventsHandler is running (not stopped())
  queueLen,         \* events waiting in the send handler's queue
  collectorRunning, \* CollectTelemetryEventsHandler.should_run
  pc,               \* where the collector thread is
  todo,             \* _CollectAndEnqueueEvents: files of the listing not yet processed
  cur,              \* _CollectAndEnqueueEvents: file whose read is being retried
  readErrors,       \* error_count of the current _read_event_file call
  handlers,         \* _ProcessExtensionEvents: listed handler directories, in listdir order
  hIdx,             \* _ProcessExtensionEvents: index of the handler being captured
  files,            \* _capture_extension_events: remaining event files, newest first
  captured,         \* captured_extension_events_count of the current handler
  removeFailures,   \* how many calls of os.remove failed
  stopLoss,         \* history: agent files removed after a refused enqueue, in the current process_events
  listed,           \* history: files the current _ProcessExtensionEvents run listed
  refused           \* history: the file whose enqueue was refused in the current _ProcessExtensionEvents run

vars == <<disk, size, partial, dirExists, dirChanges, nextFile, senderRunning, queueLen,
          collectorRunning, pc, todo, cur, readErrors, handlers, hIdx, files,
          captured, removeFailures, stopLoss, listed, refused>>
collectorVars == <<pc, todo, cur, readErrors, handlers, hIdx, files, captured, removeFailures>>
historyVars   == <<stopLoss, listed, refused>>

-----------------------------------------------------------------------------
(* Helpers translated from the code.                                        *)

\* Mutation: enqueue_event does not test whether the handler is stopped.
CanAcceptWhenStopped(n) == queueLen + n <= QueueCapacity

\* SendTelemetryEventsHandler.enqueue_event raises ServiceStoppedError when the
\* handler is stopped or when queue.put times out on a full queue.
CanAccept(n) == senderRunning /\ queueLen + n <= QueueCapacity

\* Mutation: the retry counter is compared before it is incremented.
RetriesExhaustedLate(errors) == errors >= NumOfEventFileRetries

\* _read_event_file / _read_and_parse_event_file: a missing file or a
\* half-written one (ValueError) is retried; the error is re-raised on the
\* NUM_OF_EVENT_FILE_RETRIES-th failure.
Readable(d, f) == f \in disk[d] /\ f \notin partial
RetriesExhausted(errors) == errors + 1 >= NumOfEventFileRetries

\* The events of a file that _enqueue_events_and_get_count enqueues: one at
\* a time, comparing the count with the quota only after each enqueue, so a
\* file read when the quota is already reached still enqueues one event.
QuotaTake(n, count) == IF n = 0 THEN 0 ELSE Min({n, Max({1, MaxEventsPerPeriod - count})})

\* Mutation: the outer loop's check is off by one.
QuotaReachedLate(count) == count > MaxEventsPerPeriod

\* The outer loop of _capture_extension_events stops at the quota
\* ("Reached max count for the extension ... Skipping the rest").
QuotaReached(count) == count >= MaxEventsPerPeriod

\* _ensure_all_events_directories_empty: residue files are removed directory
\* by directory, and the loop *returns* at the first listed directory that no
\* longer exists.
CleanedDirs(hs) ==
  LET missing == SelectInSeq(hs, LAMBDA h : ~dirExists[h])
  IN  IF missing = 0 THEN ToSet(hs) ELSE ToSet(SubSeq(hs, 1, missing - 1))

\* Mutation: the file is kept after it was processed (the finally clause
\* that removes it is dropped).
RemoveFileKept(d, f) == disk' = disk

\* os.remove of file f of directory d.
RemoveFile(d, f) == disk' = [disk EXCEPT ![d] = @ \ {f}]

\* A call of os.remove fails: the file stays.
RemoveFails == removeFailures < MaxRemoveFailures /\ removeFailures' = removeFailures + 1
                 /\ UNCHANGED disk

\* The finally clause of process_events: the file is removed, or os.remove
\* raises, the loop's generic handler logs it and goes on with the next file.
TryRemove(d, f) == \/ RemoveFile(d, f) /\ UNCHANGED removeFailures
                   \/ RemoveFails

\* os.remove in the finally clause of _capture_extension_events raises: its
\* error replaces whatever was being raised (a ServiceStoppedError too), ends
\* the capture and reaches the generic handler of _operation, whose finally
\* clause runs the cleanup.
EtpRemoveFails == RemoveFails /\ pc' = "EtpCleanup"

\* ServiceStoppedError is re-raised by _capture_extension_events, and
\* _operation catches it and returns with delete_all_event_files = False: the
\* run ends without the cleanup.
EtpAfterRefusal == pc' = "Idle" /\ UNCHANGED files

-----------------------------------------------------------------------------
Init ==
  /\ disk             = [d \in Dirs |-> {}]
  /\ size             = [f \in FileId |-> 0]
  /\ partial          = {}
  /\ dirExists        \in IF EtpEnabled THEN [Handlers -> BOOLEAN] ELSE {[h \in Handlers |-> FALSE]}
  /\ dirChanges       = 0
  /\ nextFile         = 1
  /\ senderRunning    = TRUE
  /\ queueLen         = 0
  /\ collectorRunning = TRUE
  /\ pc               = "Idle"
  /\ todo             = {}
  /\ cur              = NoFile
  /\ readErrors       = 0
  /\ handlers         = <<>>
  /\ hIdx             = 0
  /\ files            = <<>>
  /\ captured         = 0
  /\ stopLoss         = 0
  /\ removeFailures   = 0
  /\ listed           = {}
  /\ refused          = NoFile

-----------------------------------------------------------------------------
(* _CollectAndEnqueueEvents                                                 *)

\* _operation: skipped while the send handler is stopped; otherwise
\* process_events lists the events directory.
StartCollectAndEnqueue ==
  /\ pc = "Idle" /\ collectorRunning /\ senderRunning
  /\ pc' = "Agent"
  /\ todo' = disk[AgentDir]
  /\ stopLoss' = 0
  /\ UNCHANGED <<disk, size, partial, dirExists, dirChanges, nextFile, senderRunning, queueLen,
                 collectorRunning, cur, readErrors, handlers, hIdx, files, captured,
                 removeFailures, listed, refused>>

\* One file of process_events: read it (retrying while it is half written),
\* enqueue its event, and remove it in the finally clause.  A
\* ServiceStoppedError is logged and the loop goes on with the next file.
ProcessAgentEventFile ==
  /\ pc = "Agent"
  /\ \E f \in todo :
       /\ cur \in {NoFile, f}
       /\ \/ /\ ~Readable(AgentDir, f) /\ ~RetriesExhausted(readErrors)
             /\ cur' = f /\ readErrors' = readErrors + 1
             /\ UNCHANGED <<disk, todo, queueLen, removeFailures, historyVars>>
          \/ /\ ~Readable(AgentDir, f) /\ RetriesExhausted(readErrors)
             /\ TryRemove(AgentDir, f)
             /\ todo' = todo \ {f} /\ cur' = NoFile /\ readErrors' = 0
             /\ UNCHANGED <<queueLen, historyVars>>
          \/ /\ Readable(AgentDir, f) /\ CanAccept(1)
             /\ queueLen' = queueLen + 1
             /\ TryRemove(AgentDir, f)
             /\ todo' = todo \ {f} /\ cur' = NoFile /\ readErrors' = 0
             /\ UNCHANGED historyVars
          \/ /\ Readable(AgentDir, f) /\ ~CanAccept(1)
             /\ TryRemove(AgentDir, f)
             /\ stopLoss' = stopLoss + (IF f \in disk'[AgentDir] THEN 0 ELSE 1)
             /\ todo' = todo \ {f} /\ cur' = NoFile /\ readErrors' = 0
             /\ UNCHANGED <<queueLen, listed, refused>>
  /\ UNCHANGED <<size, partial, dirExists, dirChanges, nextFile, senderRunning, collectorRunning,
                 pc, handlers, hIdx, files, captured>>

\* process_events returns once every listed file was handled.
FinishCollectAndEnqueue ==
  /\ pc = "Agent" /\ todo = {}
  /\ pc' = "Idle"
  /\ UNCHANGED <<disk, size, partial, dirExists, dirChanges, nextFile, senderRunning, queueLen,
                 collectorRunning, todo, cur, readErrors, handlers, hIdx, files,
                 captured, removeFailures, historyVars>>

-----------------------------------------------------------------------------
(* _ProcessExtensionEvents                                                  *)

\* _operation: skipped while the send handler is stopped;
\* _get_extension_events_dir_with_handler_name lists the handlers whose events
\* directory exists, in an order os.listdir chooses; with none it returns.
StartProcessExtensionEvents ==
  /\ pc = "Idle" /\ collectorRunning /\ senderRunning /\ EtpEnabled
  /\ \E h \in Handlers : dirExists[h]
  /\ \E order \in SetToSeqs({h \in Handlers : dirExists[h]}) :
       handlers' = order
  /\ hIdx' = 1
  /\ pc' = "EtpList"
  /\ listed' = {} /\ refused' = NoFile
  /\ UNCHANGED <<disk, size, partial, dirExists, dirChanges, nextFile, senderRunning, queueLen,
                 collectorRunning, todo, cur, readErrors, files, captured, removeFailures,
                 stopLoss>>

\* _capture_extension_events lists the handler's events directory, newest
\* file first.  If the directory is gone, os.listdir raises and the generic
\* handler of _operation ends the capture: only the cleanup remains.
ListHandlerEventFiles ==
  /\ pc = "EtpList"
  /\ LET h == handlers[hIdx] IN
       \/ /\ dirExists[h]
          /\ files' = SetToSortSeq(disk[h], >)
          /\ captured' = 0
          /\ pc' = "EtpCapture"
          /\ listed' = listed \cup disk[h]
       \/ /\ ~dirExists[h]
          /\ pc' = "EtpCleanup"
          /\ UNCHANGED <<files, captured, listed>>
  /\ UNCHANGED <<disk, size, partial, dirExists, dirChanges, nextFile, senderRunning, queueLen,
                 collectorRunning, todo, cur, readErrors, handlers, hIdx, removeFailures,
                 stopLoss, refused>>

\* One file of _capture_extension_events: read it with retries, enqueue its
\* events up to the quota, remove it in the finally clause.
\*  - a half-written file is re-read; when the retries are exhausted the
\*    error is logged and the file removed;
\*  - a file that is gone (its directory was removed) makes os.path.getmtime
\*    raise, and then os.remove in the finally clause: the capture ends with
\*    the generic handler of _operation;
\*  - a ServiceStoppedError is re-raised after the file is removed, and
\*    _operation returns without the cleanup (delete_all_event_files = False);
\*  - reaching the quota breaks out of both loops;
\*  - os.remove may fail in any of these cases (EtpRemoveFails).
ProcessExtensionEventFile ==
  /\ pc = "EtpCapture" /\ files # <<>>
  /\ LET h == handlers[hIdx]
         f == Head(files)
         want == QuotaTake(size[f], captured)
         \* the events the queue accepts before one is refused
         sent == IF senderRunning THEN Min({want, QueueCapacity - queueLen}) ELSE 0
     IN
       \/ /\ f \in disk[h] /\ ~Readable(h, f) /\ ~RetriesExhausted(readErrors)
          /\ readErrors' = readErrors + 1
          /\ UNCHANGED <<disk, queueLen, pc, files, captured, removeFailures, historyVars>>
       \/ /\ f \in disk[h] /\ ~Readable(h, f) /\ RetriesExhausted(readErrors)
          /\ readErrors' = 0
          /\ \/ RemoveFile(h, f) /\ files' = Tail(files) /\ UNCHANGED <<pc, removeFailures>>
             \/ EtpRemoveFails /\ UNCHANGED files
          /\ UNCHANGED <<queueLen, captured, historyVars>>
       \/ /\ f \notin disk[h]
          /\ pc' = "EtpCleanup" /\ readErrors' = 0
          /\ UNCHANGED <<disk, queueLen, files, captured, removeFailures, historyVars>>
       \/ /\ Readable(h, f) /\ sent < want
          /\ queueLen' = queueLen + sent
          /\ refused' = f
          /\ readErrors' = 0
          /\ \/ RemoveFile(h, f) /\ EtpAfterRefusal /\ UNCHANGED removeFailures
             \/ EtpRemoveFails /\ UNCHANGED files
          /\ UNCHANGED <<captured, stopLoss, listed>>
       \/ /\ Readable(h, f) /\ sent = want
          /\ queueLen' = queueLen + sent
          /\ captured' = captured + sent
          /\ readErrors' = 0
          /\ \/ /\ RemoveFile(h, f) /\ UNCHANGED <<pc, removeFailures>>
                /\ files' = IF QuotaReached(captured + sent) THEN <<>> ELSE Tail(files)
             \/ EtpRemoveFails /\ UNCHANGED files
          /\ UNCHANGED historyVars
  /\ UNCHANGED <<size, partial, dirExists, dirChanges, nextFile, senderRunning, collectorRunning,
                 todo, cur, handlers, hIdx>>

\* The capture of one handler is over: on to the next listed handler, or to
\* the cleanup in the finally clause of _operation.
NextHandler ==
  /\ pc = "EtpCapture" /\ files = <<>>
  /\ IF hIdx < Len(handlers)
       THEN hIdx' = hIdx + 1 /\ pc' = "EtpList"
       ELSE pc' = "EtpCleanup" /\ UNCHANGED hIdx
  /\ UNCHANGED <<disk, size, partial, dirExists, dirChanges, nextFile, senderRunning, queueLen,
                 collectorRunning, todo, cur, readErrors, handlers, files, captured,
                 removeFailures, historyVars>>

\* _ensure_all_events_directories_empty on the listed directories.  A
\* residue file whose os.remove fails is logged and stays.
CleanupEventDirectories ==
  /\ pc = "EtpCleanup"
  /\ LET cleaned == CleanedDirs(handlers)
     IN \E kept \in SUBSET UNION {disk[d] : d \in cleaned} :
          /\ removeFailures + Cardinality(kept) <= MaxRemoveFailures
          /\ removeFailures' = removeFailures + Cardinality(kept)
          /\ disk' = [d \in Dirs |-> IF d \in cleaned THEN disk[d] \cap kept ELSE disk[d]]
  /\ pc' = "Idle"
  /\ UNCHANGED <<size, partial, dirExists, dirChanges, nextFile, senderRunning, queueLen,
                 collectorRunning, todo, cur, readErrors, handlers, hIdx, files,
                 captured, historyVars>>

-----------------------------------------------------------------------------
(* The processes the collector races with.                                 *)

\* The agent (add_event) or an extension writes a new event file; an agent
\* file holds one event.  A file not written atomically is first half written.
WriteEventFile ==
  /\ nextFile <= MaxFiles
  /\ \E d \in Dirs, n \in 1..MaxEventsPerFile, atomic \in BOOLEAN :
       /\ d = AgentDir => n = 1
       /\ d \in Handlers => dirExists[d]
       /\ disk' = [disk EXCEPT ![d] = @ \cup {nextFile}]
       /\ size' = [size EXCEPT ![nextFile] = n]
       /\ partial' = IF atomic THEN partial ELSE partial \cup {nextFile}
  /\ nextFile' = nextFile + 1
  /\ UNCHANGED <<dirExists, dirChanges, senderRunning, queueLen, collectorRunning,
                 collectorVars, historyVars>>

\* The writer of a half-written file finishes it.
FinishWrite ==
  /\ \E f \in partial : partial' = partial \ {f}
  /\ UNCHANGED <<disk, size, dirExists, dirChanges, nextFile, senderRunning, queueLen,
                 collectorRunning, collectorVars, historyVars>>

\* An extension is uninstalled: its log directory goes, events and all.
RemoveHandlerDir ==
  /\ dirChanges < MaxDirChanges
  /\ dirChanges' = dirChanges + 1
  /\ \E h \in Handlers :
       /\ dirExists[h]
       /\ dirExists' = [dirExists EXCEPT ![h] = FALSE]
       /\ disk' = [disk EXCEPT ![h] = {}]
  /\ UNCHANGED <<size, partial, nextFile, senderRunning, queueLen, collectorRunning,
                 collectorVars, historyVars>>

\* An extension (re)creates its events directory.
CreateHandlerDir ==
  /\ EtpEnabled /\ dirChanges < MaxDirChanges
  /\ dirChanges' = dirChanges + 1
  /\ \E h \in Handlers :
       /\ ~dirExists[h]
       /\ dirExists' = [dirExists EXCEPT ![h] = TRUE]
  /\ UNCHANGED <<disk, size, partial, nextFile, senderRunning, queueLen,
                 collectorRunning, collectorVars, historyVars>>

\* The send handler thread sends the event at the head of its queue.
SendEvent ==
  /\ senderRunning /\ queueLen > 0
  /\ queueLen' = queueLen - 1
  /\ UNCHANGED <<disk, size, partial, dirExists, dirChanges, nextFile, senderRunning,
                 collectorRunning, collectorVars, historyVars>>

\* SendTelemetryEventsHandler.stop().
StopSender ==
  /\ senderRunning
  /\ senderRunning' = FALSE
  /\ UNCHANGED <<disk, size, partial, dirExists, dirChanges, nextFile, queueLen,
                 collectorRunning, collectorVars, historyVars>>

\* CollectTelemetryEventsHandler.stop(): the daemon loop exits at its next test.
StopCollector ==
  /\ collectorRunning
  /\ collectorRunning' = FALSE
  /\ UNCHANGED <<disk, size, partial, dirExists, dirChanges, nextFile, senderRunning, queueLen,
                 collectorVars, historyVars>>

-----------------------------------------------------------------------------
CollectorStep ==
  \/ ProcessAgentEventFile
  \/ FinishCollectAndEnqueue
  \/ ListHandlerEventFiles
  \/ ProcessExtensionEventFile
  \/ NextHandler
  \/ CleanupEventDirectories

Next ==
  \/ StartCollectAndEnqueue
  \/ StartProcessExtensionEvents
  \/ CollectorStep
  \/ WriteEventFile
  \/ FinishWrite
  \/ RemoveHandlerDir
  \/ CreateHandlerDir
  \/ SendEvent
  \/ StopSender
  \/ StopCollector

\* The collector thread loops forever, running each periodic operation once
\* its period elapsed: an operation that can start again and again does
\* start (strong fairness), and a started one runs to its end.  Writers
\* finish the files they begin, and the send handler drains its queue.
Fairness ==
  /\ SF_vars(StartCollectAndEnqueue)
  /\ SF_vars(StartProcessExtensionEvents)
  /\ WF_vars(CollectorStep)
  /\ WF_vars(FinishWrite)
  /\ WF_vars(SendEvent)

Spec == Init /\ [][Next]_vars /\ Fairness

-----------------------------------------------------------------------------
TypeOK ==
  /\ disk \in [Dirs -> SUBSET FileId]
  /\ size \in [FileId -> 0..MaxEventsPerFile]
  /\ partial \subseteq FileId
  /\ dirExists \in [Handlers -> BOOLEAN] /\ dirChanges \in 0..MaxDirChanges
  /\ nextFile \in 1..MaxFiles + 1
  /\ senderRunning \in BOOLEAN /\ collectorRunning \in BOOLEAN
  /\ queueLen \in 0..QueueCapacity
  /\ pc \in {"Idle", "Agent", "EtpList", "EtpCapture", "EtpCleanup"}
  /\ todo \subseteq FileId /\ cur \in FileId \cup {NoFile}
  /\ readErrors \in 0..NumOfEventFileRetries - 1
  /\ handlers \in Seq(Handlers) /\ hIdx \in 0..Cardinality(Handlers)
  /\ files \in Seq(FileId) /\ captured \in Nat
  /\ stopLoss \in 0..MaxFiles
  /\ listed \subseteq FileId
  /\ removeFailures \in 0..MaxRemoveFailures /\ refused \in FileId \cup {NoFile}

\* When the send handler refuses an agent event (stopped, or its queue
\* full), process_events gives up at most the one file it was processing:
\* the ServiceStoppedError handler ends the collection, and no later file
\* of the same run is read and removed.
AgentLossOnRefusalBounded == stopLoss <= 1

\* No run of _ProcessExtensionEvents enqueues more events of one extension
\* than the per-period quota, however the events are spread over its files.
PerPeriodQuota ==
  pc = "EtpCapture" => captured <= MaxEventsPerPeriod

\* The cleanup of a _ProcessExtensionEvents run removes only residue: files
\* that run listed and left behind (past the quota, or not removed).  A file
\* an extension wrote after its directory was listed has not been read, and
\* removing it loses its events unsent (_ensure_all_events_directories_empty
\* lists the directory again).
CleanupRemovesOnlyListedFiles ==
  [][pc = "EtpCleanup" /\ pc' = "Idle" =>
       \A h \in Handlers : disk[h] \ disk'[h] \subseteq listed]_vars

\* After a ServiceStoppedError, _ProcessExtensionEvents leaves the extension
\* event files for a later run ("Since the service stopped, we should not
\* delete the extension files and retry sending them whenever the telemetry
\* service comes back up", _operation): a run in which an enqueue was
\* refused removes no file but the one whose events were being enqueued.
StoppedServiceKeepsFiles ==
  [][pc = "EtpCleanup" /\ pc' = "Idle" /\ refused # NoFile =>
       \A d \in Dirs : disk[d] \ disk'[d] \subseteq {refused}]_vars

\* The refinement mapping: the directories' files, the files' event counts,
\* the queue, the send handler's state and the count of failed removals are
\* those of EventFiles; the collector's position, listings and retry counters, half-written files and
\* directory existence are hidden.
EF == INSTANCE EventFiles
        WITH Dirs <- Dirs, Files <- FileId, MaxEvents <- MaxEventsPerFile,
             Capacity <- QueueCapacity, MaxFailures <- MaxRemoveFailures,
             stored <- disk, held <- size, queued <- queueLen, accepting <- senderRunning,
             failures <- removeFailures

\* Both operations of the collector implement EventFiles: an event reaches
\* the send handler only in the step that removes its file (the finally
\* clauses of process_events and _capture_extension_events), never more events
\* than the file holds, never while enqueue_event raises ServiceStoppedError.
ImplementsEventFiles == EF!Spec

\* Every event file on disk is eventually taken off it by the collector (or
\* its directory removed), unless the send handler or the collector stops.
EventFileEventuallyCollected ==
  \A f \in FileId :
    (\E d \in Dirs : f \in disk[d])
      ~> ((\A d \in Dirs : f \notin disk[d]) \/ ~senderRunning \/ ~collectorRunning)
=============================================================================
