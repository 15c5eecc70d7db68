------------------------------ MODULE AgentCli ------------------------------
(***************************************************************************)
(* The command line of the agent, azurelinuxagent/agent.py: parse_args,    *)
(* main's dispatch, start() and daemon() spawning the next process of the  *)
(* chain (waagent -start -> -daemon -> -run-exthandlers), and              *)
(* Agent.collect_logs with its cgroup checks, the retry loop that waits    *)
(* for systemd to move the process into the log collector slice, and the   *)
(* resource monitor that must be stopped on every way out.                 *)
(*                                                                         *)
(* A process is a record in procs; its argv is a sequence of tokens, each  *)
(* standing for the class of strings one branch of parse_args matches.   *)
(* A configuration path is a sequence of characters, "c" for one the path *)
(* regex [\w/\.\-_] accepts and "x" for one it does not.                   *)
(***************************************************************************)
EXTENDS Integers, Sequences, SequencesExt, FiniteSetsExt

CONSTANTS
  Argvs,             \* the argument vectors a user may invoke waagent with
  ExistingPaths,     \* configuration paths that exist when waagent is invoked
  MaxRetries,        \* LOG_COLLECTOR_CGROUP_PATH_VALIDATION_MAX_RETRIES
  InvalidCgroupsErr, \* logcollector.INVALID_CGROUPS_ERRCODE
  UnexpectedPathErr  \* logcollector.UNEXPECTED_CGROUP_PATH_ERRCODE

ASSUME MaxRetries \in Nat \ {0}

Tok(w)       == [word |-> w, arg |-> << >>]
ConfTok(p)   == [word |-> "configuration-path", arg |-> p]
FirewallTok(e) == [word |-> "setup-firewall", arg |-> e]
NoPath == << "none" >>
NoExit == -1   \* the process has not exited

\* AgentCommands and the words of parse_args that set a command.
CommandOf == [w \in {"deprovision+user", "deprovision", "daemon", "start",
                     "register-service", "run-exthandlers", "version",
                     "show-configuration", "help", "collect-logs"} |-> w]
FlagWords == {"verbose", "debug", "force", "full"}

\* m.group(1) of r"^(?:[-/]*)configuration-path:([\w/\.\-_]+)": the longest
\* prefix of accepted characters (empty: the regex does not match).
Captured(p) ==
  LET bad == SelectInSeq(p, LAMBDA ch : ch = "x")
  IN  IF bad = 0 THEN p ELSE SubSeq(p, 1, bad - 1)

\* [\d.]{7,} after "setup-firewall=": an endpoint of at least 7 digits/dots.
EndpointMatches(e) == e = << "ip" >>

-----------------------------------------------------------------------------
(* parse_args                                                              *)

ParseInit == [cmd |-> "help", conf |-> NoPath, endpoint |-> << >>,
              confMissing |-> FALSE, stop |-> FALSE]

\* One iteration of the loop over sys_args.  An argument no branch matches
\* sets Help and breaks; a configuration path that does not exist prints
\* usage and calls sys.exit(1).
ParseStep(st, t, existing) ==
  IF st.stop \/ t.word = "" THEN st
  ELSE IF t.word = "configuration-path" /\ Captured(t.arg) # << >>
       THEN IF Captured(t.arg) \in existing
            THEN [st EXCEPT !.conf = Captured(t.arg)]
            ELSE [st EXCEPT !.confMissing = TRUE, !.stop = TRUE]
  ELSE IF t.word \in DOMAIN CommandOf THEN [st EXCEPT !.cmd = CommandOf[t.word]]
  ELSE IF t.word \in FlagWords THEN st
  ELSE IF t.word = "setup-firewall" /\ EndpointMatches(t.arg)
       THEN [st EXCEPT !.cmd = "setup-firewall", !.endpoint = t.arg]
  ELSE [st EXCEPT !.cmd = "help", !.stop = TRUE]

parse_args(args, existing) ==
  FoldLeft(LAMBDA st, t : ParseStep(st, t, existing), ParseInit, args)

\* The configuration argument a parent passes on: none when conf_file_path
\* is None.
ConfArgs(conf) == IF conf = NoPath THEN << >> ELSE << ConfTok(conf) >>

\* Mutation: start() does not pass the configuration path on.
StartArgsNoConf(conf) == << Tok("daemon") >>

\* start(): [sys.argv[0], '-daemon'] plus '-configuration-path:<path>'.
StartArgs(conf) == << Tok("daemon") >> \o ConfArgs(conf)

\* daemon(): child_args is '-configuration-path:<path>' or None, and the
\* daemon handler starts the extension handler process with it.
DaemonChildArgs(conf) == << Tok("run-exthandlers") >> \o ConfArgs(conf)

\* finally: log_collector_monitor.stop() when it was started.
MonitorAfterFailure(m) == IF m = "running" THEN "stopped" ELSE m

\* Mutation: a failed slice check is not counted.
RetryCountAfterFailureStuck(c) == c

\* retry_count += 1 in _validate_log_collector_cgroup_slice.
RetryCountAfterFailure(c) == c + 1

\* Mutation: one attempt more than the budget.
RetriesExhaustedLate(c) == c > MaxRetries

\* Mutation: one attempt less than the budget.
RetriesExhaustedEarly(c) == c + 1 >= MaxRetries

\* retry_count >= LOG_COLLECTOR_CGROUP_PATH_VALIDATION_MAX_RETRIES
RetriesExhausted(c) == c >= MaxRetries

-----------------------------------------------------------------------------
VARIABLES
  procs,    \* the waagent processes, in the order they were started
  inSlice,  \* systemd has moved the log collector into its slice
  existing  \* the configuration paths that exist now

vars == <<procs, inSlice, existing>>
env  == <<inSlice, existing>>

NewProc(args, parent) ==
  [args |-> args, parent |-> parent, pc |-> "new", cmd |-> "none", conf |-> NoPath,
   exit |-> NoExit, monitor |-> "none", retries |-> 0, archive |-> FALSE]

Init ==
  /\ \E a \in Argvs : procs = << NewProc(a, 0) >>
  /\ inSlice = FALSE
  /\ existing = ExistingPaths

Exit(i, code) ==
  procs' = [procs EXCEPT ![i].pc = "exited", ![i].exit = code]
Goto(i, where) == procs' = [procs EXCEPT ![i].pc = where]

\* main(): parse_args, then sys.exit(1) for a missing configuration file.
ParseArgs(i) ==
  /\ procs[i].pc = "new"
  /\ LET r == parse_args(procs[i].args, existing)
     IN  IF r.confMissing THEN Exit(i, 1)
         ELSE procs' = [procs EXCEPT ![i].pc = "dispatch", ![i].cmd = r.cmd,
                                     ![i].conf = r.conf]
  /\ UNCHANGED env

\* Agent.__init__: conf.load_conf_from_file reads the configuration file
\* the process was given (or the distribution's default); a file that is
\* gone since parse_args checked it makes it raise.
ConfLoadable(p) == p.conf = NoPath \/ p.conf \in existing

\* main(): version, help and start run without an Agent; every other
\* command constructs Agent(verbose, conf_file_path), whose failure (like
\* any exception of the command) is logged and main returns normally.
\* start() runs outside that try: when Popen raises, the exception leaves
\* main and the interpreter exits with 1.
Dispatch(i) ==
  /\ procs[i].pc = "dispatch"
  /\ LET p == procs[i] IN
       \/ /\ p.cmd \in {"version", "help"}
          /\ Exit(i, 0)
       \/ /\ p.cmd = "start"
          /\ procs' = Append([procs EXCEPT ![i].pc = "exited", ![i].exit = 0],
                             NewProc(StartArgs(p.conf), i))
       \/ /\ p.cmd = "start"
          /\ Exit(i, 1)                      \* Popen raised
       \/ /\ p.cmd \notin {"version", "help", "start"}
          /\ Exit(i, 0)                      \* Agent() or the command raised
       \/ /\ p.cmd \notin {"version", "help", "start"}
          /\ ConfLoadable(p)                 \* Agent() returned
          /\ \/ /\ p.cmd = "daemon"
                /\ procs' = Append([procs EXCEPT ![i].pc = "running"],
                                   NewProc(DaemonChildArgs(p.conf), i))
             \/ /\ p.cmd = "run-exthandlers"
                /\ Goto(i, "running")        \* update_handler.run(debug)
             \/ /\ p.cmd = "collect-logs"
                /\ Goto(i, "clInit")
             \/ /\ p.cmd \in {"deprovision+user", "deprovision", "register-service",
                              "show-configuration", "setup-firewall"}
                /\ Exit(i, 0)
             \/ /\ p.cmd = "setup-firewall"
                /\ Exit(i, 1)                \* setup_firewall: sys.exit(1)
  /\ UNCHANGED env

-----------------------------------------------------------------------------
(* Agent.collect_logs                                                      *)

\* LogCollector.initialize_telemetry(); the cgroup checks and the monitor
\* run only when CollectLogsHandler.is_enabled_monitor_cgroups_check().
CollectLogsInit(i) ==
  /\ procs[i].pc = "clInit"
  /\ \E enabled \in BOOLEAN :
       procs' = [procs EXCEPT ![i].pc = IF enabled THEN "clCgroupApi" ELSE "clCollect",
                              ![i].monitor = IF enabled THEN "enabled" ELSE "none"]
  /\ UNCHANGED env

\* create_cgroup_api(): InvalidCgroupMountpointException or CGroupsException
\* exits with INVALID_CGROUPS_ERRCODE.
CreateCgroupApi(i) ==
  /\ procs[i].pc = "clCgroupApi"
  /\ \/ Goto(i, "clValidate")
     \/ Exit(i, InvalidCgroupsErr)
  /\ UNCHANGED env

\* One iteration of _validate_log_collector_cgroup_slice: the process is in
\* the log collector slice once systemd has moved it; otherwise the
\* CGroupsException is counted and the loop sleeps and retries, or exits with
\* UNEXPECTED_CGROUP_PATH_ERRCODE when the retries are used up.
ValidateCgroupSlice(i) ==
  /\ procs[i].pc = "clValidate"
  /\ IF inSlice THEN Goto(i, "clControllers")
     ELSE LET c == RetryCountAfterFailure(procs[i].retries)
          IN  IF RetriesExhausted(c) THEN Exit(i, UnexpectedPathErr)
              ELSE procs' = [procs EXCEPT ![i].retries = c]
  /\ UNCHANGED env

\* get_process_cgroup raising anything but CGroupsException (reading
\* /proc/self/cgroup fails): it leaves collect_logs, and main logs it and
\* returns.
ValidateCgroupSliceRaises(i) ==
  /\ procs[i].pc = "clValidate"
  /\ Exit(i, 0)
  /\ UNCHANGED env

\* len(tracked_controllers) != len(get_supported_controller_names()):
\* INVALID_CGROUPS_ERRCODE.
CheckControllers(i) ==
  /\ procs[i].pc = "clControllers"
  /\ \/ Goto(i, "clCollect")
     \/ Exit(i, InvalidCgroupsErr)
  /\ UNCHANGED env

\* The try block: LogCollector(is_full_mode), the monitor started when the
\* check is enabled, collect_logs_and_get_archive().  Any exception exits
\* with 1 after the finally clause, whether it came before or after the
\* monitor started.
CollectArchive(i) ==
  /\ procs[i].pc = "clCollect"
  /\ LET enabled == procs[i].monitor = "enabled"
         started == IF enabled THEN "running" ELSE "none"
     IN  \/ procs' = [procs EXCEPT ![i].pc = "clReport", ![i].archive = TRUE,
                                   ![i].monitor = started]
         \/ \E m \in {started, IF enabled THEN "notStarted" ELSE "none"} :
              procs' = [procs EXCEPT ![i].pc = "exited", ![i].exit = 1,
                                     ![i].monitor = MonitorAfterFailure(m)]
  /\ UNCHANGED env

\* After a successful collection: log_collector_monitor.stop(), the metrics
\* summary (its exceptions are caught), the finally clause; main returns.
ReportMetrics(i) ==
  /\ procs[i].pc = "clReport"
  /\ procs' = [procs EXCEPT ![i].pc = "exited", ![i].exit = 0,
                            ![i].monitor = IF procs[i].monitor = "running"
                                           THEN "stopped" ELSE procs[i].monitor]
  /\ UNCHANGED env

\* systemd moves the log collector process into its slice, some time after
\* the process started.
PlaceInSlice ==
  /\ ~inSlice
  /\ \E i \in 1..Len(procs) : procs[i].pc \in {"clCgroupApi", "clValidate"}
  /\ inSlice' = TRUE
  /\ UNCHANGED <<procs, existing>>

\* The configuration file is deleted (or renamed) while processes that
\* name it are starting.
RemoveConfFile ==
  /\ \E f \in existing : existing' = existing \ {f}
  /\ UNCHANGED <<procs, inSlice>>

-----------------------------------------------------------------------------
\* The steps of process i that its own code takes.
ProcStep(i) ==
  \/ ParseArgs(i)
  \/ Dispatch(i)
  \/ CollectLogsInit(i)
  \/ CreateCgroupApi(i)
  \/ ValidateCgroupSlice(i)
  \/ CheckControllers(i)
  \/ CollectArchive(i)
  \/ ReportMetrics(i)

Next ==
  \/ \E i \in 1..Len(procs) : ProcStep(i) \/ ValidateCgroupSliceRaises(i)
  \/ PlaceInSlice
  \/ RemoveConfFile

\* A process started by start() or daemon() is never more than three deep.
ProcIds == 1..3

\* Each process runs its sequential code to the end; systemd and the
\* exceptions of get_process_cgroup are not assumed to happen.
Fairness == \A i \in ProcIds : WF_vars(i <= Len(procs) /\ ProcStep(i))

Spec == Init /\ [][Next]_vars /\ Fairness

-----------------------------------------------------------------------------
(* Properties                                                              *)

Pcs == {"new", "dispatch", "running", "exited", "clInit", "clCgroupApi",
        "clValidate", "clControllers", "clCollect", "clReport"}

TypeOK ==
  /\ Len(procs) \in 1..3
  /\ \A i \in 1..Len(procs) :
       /\ procs[i].pc \in Pcs
       /\ procs[i].parent \in 0..(i - 1)
       /\ procs[i].exit \in {NoExit, 0, 1, InvalidCgroupsErr, UnexpectedPathErr}
       /\ procs[i].monitor \in {"none", "enabled", "notStarted", "running", "stopped"}
       /\ procs[i].retries \in 0..(MaxRetries - 1)
       /\ procs[i].archive \in BOOLEAN
  /\ inSlice \in BOOLEAN /\ existing \subseteq ExistingPaths

\* The command a child of start() or daemon() is started for.
ChildCommand(parentCmd) == IF parentCmd = "start" THEN "daemon" ELSE "run-exthandlers"

\* The daemon spawned by `waagent -start`, and the extension handler spawned
\* by the daemon, parse their argv back into the command they were started
\* for and the configuration file their parent uses: the path start() and
\* daemon() format into '-configuration-path:' survives parse_args' regex.
\* The one other outcome is the child's own existence check failing, with
\* exit code 1, because the file was removed after the parent checked it.
ChildRunsParentConfiguration ==
  \A i \in 2..Len(procs) :
    LET parent == procs[procs[i].parent] IN
    procs[i].pc # "new" =>
      \/ procs[i].cmd = ChildCommand(parent.cmd) /\ procs[i].conf = parent.conf
      \/ procs[i].exit = 1 /\ procs[i].cmd = "none" /\ parent.conf \notin existing

\* _validate_log_collector_cgroup_slice gives systemd the whole budget: a
\* log collector exits with UNEXPECTED_CGROUP_PATH_ERRCODE only after
\* LOG_COLLECTOR_CGROUP_PATH_VALIDATION_MAX_RETRIES failed checks (retries
\* counts those before the last), and only while it is still outside the
\* slice, so a process systemd moves in time, even just before the last
\* check, goes on to the collection.
UnexpectedPathOnlyAfterAllRetries ==
  \A i \in 1..Len(procs) :
    procs[i].exit = UnexpectedPathErr => procs[i].retries = MaxRetries - 1 /\ ~inSlice

\* Every collect-logs process exits, even when systemd never moves it into
\* the log collector slice: the retry loop of
\* _validate_log_collector_cgroup_slice is bounded.
CollectLogsTerminates ==
  \A i \in ProcIds :
    (i <= Len(procs) /\ procs[i].pc = "clInit")
      ~> (i <= Len(procs) /\ procs[i].pc = "exited")

\* The log collector's caller reads its exit code: collect-logs exits with 0
\* only when collect_logs_and_get_archive() produced an archive; its own
\* failures exit with 1 or a cgroup error code.
CollectLogsExitCodeReflectsOutcome ==
  \A i \in 1..Len(procs) :
    procs[i].cmd = "collect-logs" /\ procs[i].exit = 0 => procs[i].archive

=============================================================================
